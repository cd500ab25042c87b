\* What must eventually happen in each of five components.
CONSTANTS
  byte = byte
  page = page
  nl = nl
  eof = eof
  b1 = b1
  b2 = b2
  k1 = k1
  k2 = k2
  k3 = k3
  Proc = {1, 2}
  Buf = {b1, b2}
  Block = {k1, k2, k3}
  Indirect = {}
  zero = zero
  Val = {zero}
  Zero = zero
  NoBlock = NoBlock
  NoBuf = NoBuf
  NoProc = NoProc
  Users = 2
  DriveFails = FALSE
  Spurious = FALSE
SPECIFICATION AllSpec
INVARIANTS
  ReadersWoken
PROPERTIES
  CallsEnd
  InputArrives
  PromptReturns
CHECK_DEADLOCK FALSE
