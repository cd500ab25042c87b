\* Pipes, the file table, the blocks of files and the console.
CONSTANTS
  p1 = p1
  p2 = p2
  p3 = p3
  byte1 = byte1
  byte2 = byte2
  page = page
  inum = inum
  nl = nl
  eof = eof
  other = other
  NoProc = NoProc
  Proc = {p1, p2, p3}
  KillProc = {p1, p2, p3}
  Byte = {byte1, byte2}
  PIPESIZE = 2
  UintSize = 4
  Request = {1, 2}
SPECIFICATION AllSpec
SYMMETRY Symmetry
INVARIANTS
  WritersWoken
  PipeExact
  DescriptorsExact
  ContentsKept
  BlocksSafe
PROPERTIES
  StreamSpec
  LineSpec
CHECK_DEADLOCK FALSE
