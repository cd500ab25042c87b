----------------------------- MODULE FileBlocks -----------------------------
(***************************************************************************)
(* kernel/fs.c below the directories: the bitmap of disk blocks, the       *)
(* blocks of each file, direct and behind an indirect block, writing and   *)
(* truncating files, and a crash with reboot.                              *)
(*                                                                         *)
(* A step is one write to the disk.  What is done to a file is done under  *)
(* its inode's lock, so there is one operation per file at a time; those   *)
(* on different files interleave and share the bitmap.  A block has BSIZE  *)
(* cells, each a part of a file or the number of a block.                  *)
(***************************************************************************)
EXTENDS Naturals, FiniteSets, FiniteSetsExt

CONSTANTS
  File,     \* inodes
  BSIZE,    \* cells of a block, and so entries of an indirect block
  NDIRECT,  \* direct blocks of an inode
  NBLOCKS,  \* data blocks of the disk
  Offset,   \* where programs write other than at the end of a file
  WriteLen, \* lengths of their writes
  MaxCrashes, \* bound on the crashes of the machine
  Text      \* Text[f][o] is what programs write to offset o of file f

FileBlocksAssumption ==
  /\ {BSIZE, NBLOCKS} \cup WriteLen \subseteq Nat \ {0}
  /\ {NDIRECT, MaxCrashes} \cup Offset \subseteq Nat
  /\ \A f \in File : Text[f] \in [0 .. (NDIRECT + BSIZE) * BSIZE - 1 -> Nat \ {0}]

NINDIRECT == BSIZE
MAXFILE == NDIRECT + NINDIRECT
Block == 1 .. NBLOCKS
Cell == 0 .. BSIZE - 1

VARIABLES
  used,     \* the bitmap: the blocks marked in use on the disk
  data,     \* the contents of the blocks
  dinode,   \* size and addrs of each inode on the disk
  inode,    \*   and in memory
  state,    \* free, or allocated with links ("live") or without ("dead")
  op,       \* the operation under the file's lock: what it does next, at offset
            \*   off up to end, with the block just allocated, or the index in addrs
  panicked, \* did the kernel halt: "full", or "bad" by its own fault?
  crashes

vars == <<used, data, dinode, inode, state, op, panicked, crashes>>

NoOp == [do |-> "none", off |-> 0, end |-> 0, block |-> 0]
Empty == [size |-> 0, addrs |-> [i \in 0 .. NDIRECT |-> 0]]
Zeros == [c \in Cell |-> 0]

Init ==
  /\ used = {}
  /\ data = [b \in Block |-> Zeros]
  /\ dinode = [f \in File |-> Empty]
  /\ inode = dinode
  /\ state = [f \in File |-> "free"]
  /\ op = [f \in File |-> NoOp]
  /\ panicked = "no"
  /\ crashes = 0

-----------------------------------------------------------------------------
\* Helpers

Panic(why) ==
  /\ panicked' = why
  /\ UNCHANGED <<used, data, dinode, inode, state, op, crashes>>

\* balloc(): block b is the first that is free. Nothing is written to it.
Balloc(b) ==
  /\ used # Block
  /\ b = Min(Block \ used)
  /\ used' = used \cup {b}

\* The block that bmap(ip, n) finds for block n of a file, 0 if there is none.
Bmap(ip, n) ==
  IF n < NDIRECT THEN ip.addrs[n]
  ELSE IF ip.addrs[NDIRECT] = 0 THEN 0
  ELSE data[ip.addrs[NDIRECT]][n - NDIRECT]

\* readi() of one cell.
Readi(ip, off) == data[Bmap(ip, off \div BSIZE)][off % BSIZE]

Lock(f, q) == op' = [op EXCEPT ![f] = q]

Same == UNCHANGED <<state, panicked, crashes>>

-----------------------------------------------------------------------------
\* writei()

\* A write begins within the file or at its end, and is cut at the largest size.
Writei(f) ==
  \E off \in Offset \cup {inode[f].size}, n \in WriteLen :
    /\ off <= inode[f].size
    /\ state[f] = "live"
    /\ op[f] = NoOp
    /\ Lock(f, [NoOp EXCEPT !.do = "write", !.off = off,
                            !.end = Min({off + n, MAXFILE * BSIZE})])
    /\ UNCHANGED <<used, data, dinode, inode>>
    /\ Same

\* bmap() needs a new block: a direct block or the indirect block goes into the
\* inode in memory, one behind the indirect block into op until it is written there.
WriteAlloc(f) ==
  LET q == op[f]
      n == q.off \div BSIZE
      i == IF n < NDIRECT THEN n ELSE NDIRECT
  IN /\ q.do = "write"
     /\ q.off < q.end
     /\ q.block = 0
     /\ Bmap(inode[f], n) = 0
     /\ IF used = Block THEN Panic("full")
        ELSE \E b \in Block :
               /\ Balloc(b)
               /\ IF inode[f].addrs[i] = 0
                  THEN inode' = [inode EXCEPT ![f].addrs[i] = b] /\ UNCHANGED op
                  ELSE Lock(f, [q EXCEPT !.block = b]) /\ UNCHANGED inode
               /\ UNCHANGED <<data, dinode>>
               /\ Same

\* The new block is entered in the indirect block.
WritePointer(f) ==
  LET q == op[f]
      n == q.off \div BSIZE
  IN /\ q.do = "write"
     /\ q.block # 0
     /\ data' = [data EXCEPT ![inode[f].addrs[NDIRECT]][n - NDIRECT] = q.block]
     /\ Lock(f, [q EXCEPT !.block = 0])
     /\ UNCHANGED <<used, dinode, inode>>
     /\ Same

\* One block of the write.
WriteData(f) ==
  LET q == op[f]
      b == Bmap(inode[f], q.off \div BSIZE)
      m == Min({q.end - q.off, BSIZE - (q.off % BSIZE)})
  IN /\ q.do = "write"
     /\ q.off < q.end
     /\ q.block = 0
     /\ b # 0
     /\ data' = [data EXCEPT ![b] = [c \in Cell |->
          IF c \in (q.off % BSIZE) .. (q.off % BSIZE) + m - 1
          THEN Text[f][q.off - (q.off % BSIZE) + c] ELSE @[c]]]
     /\ Lock(f, [q EXCEPT !.off = @ + m])
     /\ UNCHANGED <<used, dinode, inode>>
     /\ Same

\* The end of writei(): a file that has grown is written back.
WriteEnd(f) ==
  LET grown == [inode EXCEPT ![f].size = op[f].end]
  IN /\ op[f].do = "write"
     /\ op[f].off = op[f].end
     /\ Lock(f, NoOp)
     /\ IF op[f].end > inode[f].size
        THEN inode' = grown /\ dinode' = [dinode EXCEPT ![f] = grown[f]]
        ELSE UNCHANGED <<inode, dinode>>
     /\ UNCHANGED <<used, data>>
     /\ Same

-----------------------------------------------------------------------------
\* ialloc() and the end of iput()

Create(f) ==
  /\ state[f] = "free"
  /\ state' = [state EXCEPT ![f] = "live"]
  /\ dinode' = [dinode EXCEPT ![f] = Empty]
  /\ inode' = [inode EXCEPT ![f] = Empty]
  /\ UNCHANGED <<used, data, op, panicked, crashes>>

\* The last name is gone and the last reference put: itrunc() begins.
Remove(f) ==
  /\ state[f] = "live"
  /\ op[f] = NoOp
  /\ state' = [state EXCEPT ![f] = "dead"]
  /\ Lock(f, [NoOp EXCEPT !.do = "zero"])
  /\ UNCHANGED <<used, data, dinode, inode, panicked, crashes>>

\* (Faulty: the indirect block itself is not freed.)
TruncBlockDirect(f) ==
  LET n == op[f].off IN IF n < MAXFILE THEN Bmap(inode[f], n) ELSE 0

\* The blocks in the order in which itrunc() frees them; off counts them.
TruncBlock(f) ==
  LET n == op[f].off IN IF n < MAXFILE THEN Bmap(inode[f], n) ELSE inode[f].addrs[NDIRECT]

\* (Faulty: the block is not cleared.)
TruncZeroNot(f) ==
  LET b == TruncBlock(f)
  IN /\ op[f].do = "zero"
     /\ op[f].off <= MAXFILE
     /\ Lock(f, IF b = 0 THEN [op[f] EXCEPT !.off = @ + 1] ELSE [op[f] EXCEPT !.do = "unmark"])
     /\ UNCHANGED <<used, data, dinode, inode>>
     /\ Same

\* bfree() first clears the block ...
TruncZero(f) ==
  LET b == TruncBlock(f)
  IN /\ op[f].do = "zero"
     /\ op[f].off <= MAXFILE
     /\ IF b = 0 THEN data' = data /\ Lock(f, [op[f] EXCEPT !.off = @ + 1])
        ELSE /\ data' = [data EXCEPT ![b] = Zeros]
             /\ Lock(f, [op[f] EXCEPT !.do = "unmark"])
     /\ UNCHANGED <<used, dinode, inode>>
     /\ Same

\* ... and then its bit; itrunc() forgets a direct or the indirect block.
TruncUnmark(f) ==
  LET n == op[f].off
      b == TruncBlock(f)
      i == IF n < MAXFILE THEN n ELSE NDIRECT
  IN /\ op[f].do = "unmark"
     /\ IF b \notin used THEN Panic("bad")
        ELSE /\ used' = used \ {b}
             /\ inode' = IF n < NDIRECT \/ n = MAXFILE
                         THEN [inode EXCEPT ![f].addrs[i] = 0] ELSE inode
             /\ Lock(f, [op[f] EXCEPT !.do = "zero", !.off = @ + 1])
             /\ UNCHANGED <<data, dinode>>
             /\ Same

\* iupdate() of the emptied inode in itrunc(), and with type 0 in iput().
TruncEnd(f) ==
  /\ op[f].do = "zero"
  /\ op[f].off > MAXFILE
  /\ inode' = [inode EXCEPT ![f].size = 0]
  /\ dinode' = [dinode EXCEPT ![f] = inode'[f]]
  /\ state' = [state EXCEPT ![f] = "free"]
  /\ Lock(f, NoOp)
  /\ UNCHANGED <<used, data, panicked, crashes>>

-----------------------------------------------------------------------------
\* The machine crashes and boots from the disk.  An inode without links that is
\* not free is never found again.
Crash ==
  /\ crashes < MaxCrashes
  /\ crashes' = crashes + 1
  /\ inode' = dinode
  /\ op' = [f \in File |-> NoOp]
  /\ panicked' = "no"
  /\ UNCHANGED <<used, data, dinode, state>>

Step(f) ==
  \/ Writei(f) \/ WriteAlloc(f) \/ WritePointer(f) \/ WriteData(f) \/ WriteEnd(f)
  \/ Create(f) \/ Remove(f) \/ TruncZero(f) \/ TruncUnmark(f) \/ TruncEnd(f)

Next ==
  \/ panicked = "no" /\ \E f \in File : Step(f)
  \/ Crash

Spec == Init /\ [][Next]_vars

-----------------------------------------------------------------------------
\* Properties

\* The blocks that a file with inode ip has, and the block numbers it lists.
Numbers(ip) == {<<"addrs", i>> : i \in 0 .. NDIRECT} \cup {<<"indirect", j>> : j \in Cell}

NumberAt(ip, x) ==
  IF x[1] = "addrs" THEN ip.addrs[x[2]] ELSE Bmap(ip, NDIRECT + x[2])

BlocksOf(ip) == {NumberAt(ip, x) : x \in Numbers(ip)} \ {0}

\* No block is in two places of a file.
OnePlace(ip) ==
  \A x, y \in Numbers(ip) : NumberAt(ip, x) = NumberAt(ip, y) /\ x # y => NumberAt(ip, x) = 0

\* A file without an operation reads as what was written to it: no block of it is
\* missing, in the wrong place, or written to or cleared through another file.
ReadsBack ==
  \A f \in File : state[f] = "live" /\ op[f] = NoOp =>
    \A o \in 0 .. inode[f].size - 1 :
      /\ Bmap(inode[f], o \div BSIZE) # 0
      /\ Readi(inode[f], o) = Text[f][o]

\* What follows the end of a file in its last block is zero: dirlookup() looks at
\* whole blocks and takes it for empty entries.
TailZero ==
  \A f \in File : crashes = 0 /\ state[f] = "live" /\ op[f] = NoOp =>
    \A o \in inode[f].size .. MAXFILE * BSIZE - 1 :
      Bmap(inode[f], o \div BSIZE) # 0 => Readi(inode[f], o) = 0

\* A free block is zero, as bmap() expects of one it takes for an indirect block
\* and dirlookup() of one that is added to a directory, and nothing is in it.
FreeZero == \A b \in Block \ used : data[b] = Zeros

\* At any moment the disk is good to boot from: the blocks of the files with links
\* are marked, and no block is in two files or twice in one.
DiskSafe ==
  \A f, g \in File : state[f] = "live" /\ state[g] = "live" =>
    /\ BlocksOf(dinode[f]) \subseteq used
    /\ OnePlace(dinode[f])
    /\ f # g => BlocksOf(dinode[f]) \cap BlocksOf(dinode[g]) = {}

\* As long as there was no crash no block is lost: each that is marked is in a file,
\* or about to be entered in its indirect block.
NoneLost ==
  crashes = 0 =>
    used \subseteq UNION {BlocksOf(inode[f]) \cup ({op[f].block} \ {0}) : f \in File}

\* No block is freed twice.
NoPanic == panicked # "bad"

-----------------------------------------------------------------------------
\* The inductive invariant

Inode == [size : Nat, addrs : [0 .. NDIRECT -> Block \cup {0}]]

TypeInv ==
  /\ used \in SUBSET Block
  /\ data \in [Block -> [Cell -> Nat]]
  /\ dinode \in [File -> Inode]
  /\ inode \in [File -> Inode]
  /\ state \in [File -> {"free", "live", "dead"}]
  /\ op \in [File -> [do : {"none", "write", "zero", "unmark"}, off : Nat, end : Nat,
                      block : Block \cup {0}]]
  /\ crashes \in Nat

\* The blocks of a file in the order of itrunc(): what bmap() finds, then the indirect block.
Place(ip, n) == IF n < MAXFILE THEN Bmap(ip, n) ELSE ip.addrs[NDIRECT]

\* With the block that is to be entered in the indirect block as the last.
Held(f, n) == IF n <= MAXFILE THEN Place(inode[f], n) ELSE op[f].block

\* The places of file f that count: all as long as it has links, and what itrunc() has
\* not come to yet.
Owned(f) ==
  {n \in 0 .. MAXFILE + 1 : state[f] = "live" \/ (op[f].do # "none" /\ n >= op[f].off)}

\* A block that is held is marked, and held in one place of one file.
OwnInv ==
  /\ \A f \in File : \A n \in Owned(f) : Held(f, n) \in used \cup {0}
  /\ \A f, g \in File : \A n \in Owned(f), m \in Owned(g) :
       Held(f, n) = Held(g, m) /\ Held(f, n) # 0 => f = g /\ n = m

\* What the operation on file f has seen still holds.
OpOK(f) ==
  LET q == op[f]
      n == q.off \div BSIZE
  IN /\ q.do = "none" => q = NoOp
     /\ q.do = "write" => /\ state[f] = "live"
                          /\ q.off <= q.end /\ q.end <= MAXFILE * BSIZE
     /\ q.block # 0 => /\ q.do = "write" /\ q.off < q.end /\ n >= NDIRECT
                       /\ inode[f].addrs[NDIRECT] # 0 /\ Bmap(inode[f], n) = 0
                       /\ data[q.block] = Zeros
     /\ q.do \in {"zero", "unmark"} => state[f] = "dead" /\ q.off <= MAXFILE + 1
     /\ q.do = "unmark" => /\ q.off <= MAXFILE
                           /\ TruncBlock(f) # 0 /\ data[TruncBlock(f)] = Zeros

\* The inode on the disk lags behind the one in memory, but not in what belongs to file f.
DiskOK(f) ==
  /\ dinode[f].size = inode[f].size
  /\ inode[f].size <= MAXFILE * BSIZE
  /\ \A i \in 0 .. NDIRECT : dinode[f].addrs[i] \in {0, inode[f].addrs[i]}
  /\ \A o \in 0 .. inode[f].size - 1 : Bmap(dinode[f], o \div BSIZE) # 0

\* How far file f is written.
Top(f) == IF op[f].off > inode[f].size THEN op[f].off ELSE inode[f].size

\* It is as it was written so far, and without a crash zero behind.
ContentOK(f) ==
  /\ \A o \in 0 .. Top(f) - 1 :
       Bmap(inode[f], o \div BSIZE) # 0 /\ Readi(inode[f], o) = Text[f][o]
  /\ crashes = 0 => \A o \in Top(f) .. MAXFILE * BSIZE - 1 :
       Bmap(inode[f], o \div BSIZE) # 0 => Readi(inode[f], o) = 0

FileOK(f) == OpOK(f) /\ (state[f] = "live" => DiskOK(f) /\ ContentOK(f))

LostInv ==
  crashes = 0 => \A b \in used : \E f \in File : \E n \in Owned(f) : Held(f, n) = b

BlockInv ==
  /\ TypeInv /\ OwnInv /\ FreeZero /\ LostInv /\ NoPanic
  /\ \A f \in File : FileOK(f)
=============================================================================
