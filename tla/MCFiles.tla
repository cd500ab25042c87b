------------------------------ MODULE MCFiles -------------------------------
(***************************************************************************)
(* Pipe, FileTable, FileBlocks and Console on small sets: what is below    *)
(* read() and write().  A behaviour is one of the component in focus; the  *)
(* others stay as they begin.  Pipe's processes are interchangeable, and   *)
(* so are its bytes.                                                       *)
(***************************************************************************)
EXTENDS Pipe, TLC

CONSTANTS page, inum, nl, eof, other

VARIABLES
  focus,
  ftable, ofile, running, fpc, local, todo, ff, iref, openreads, openwrites, fpanicked,
  used, blocks, dinode, inode, state, op, halted, crashes,
  buf, r, w, e, inputlock, ilock, cpc, ccall, target, n, ckilled

table == <<ftable, ofile, running, fpc, local, todo, ff, iref, openreads, openwrites,
           fpanicked>>
disk == <<used, blocks, dinode, inode, state, op, halted, crashes>>
keyboard == <<buf, r, w, e, inputlock, ilock, cpc, ccall, target, n, ckilled>>

Table == INSTANCE FileTable WITH
  Proc <- {1, 2}, NFILE <- 3, NOFILE <- 2, Inode <- {inum}, Page <- {page},
  pc <- fpc, readopen <- openreads, writeopen <- openwrites, panicked <- fpanicked

\* Every cell of every file is given another text.
TextOf == [f \in {1, 2} |-> [o \in 0 .. 5 |-> 100 * f + o]]

Contents == INSTANCE FileBlocks WITH
  File <- {1, 2}, BSIZE <- 2, NDIRECT <- 1, NBLOCKS <- 4, Offset <- {1}, WriteLen <- {3},
  MaxCrashes <- 1, Text <- TextOf, data <- blocks, panicked <- halted

Keyboard == INSTANCE Console WITH
  Proc <- {1, 2}, Char <- {other, nl, eof}, Newline <- nl, CtrlD <- eof,
  INPUT_BUF <- 2, UintSize <- 4, Request <- {1, 2}, KillProc <- {1},
  lock <- inputlock, busy <- ilock, pc <- cpc, call <- ccall, killed <- ckilled

ASSUME Table!FileTableAssumption /\ Contents!FileBlocksAssumption
       /\ Keyboard!ConsoleAssumption

AllInit ==
  /\ focus \in {"pipe", "table", "disk", "keyboard"}
  /\ Init /\ Table!Init /\ Contents!Init /\ Keyboard!Init
  /\ focus = "pipe" \/ data = [k \in 0 .. PIPESIZE - 1 |-> CHOOSE x \in Byte : TRUE]
  /\ focus = "table" \/ running = {1}

AllNext ==
  \/ focus = "pipe" /\ Next /\ UNCHANGED <<focus, table, disk, keyboard>>
  \/ focus = "table" /\ Table!Next /\ UNCHANGED <<focus, vars, disk, keyboard>>
  \/ focus = "disk" /\ Contents!Next /\ UNCHANGED <<focus, vars, table, keyboard>>
  \/ focus = "keyboard" /\ Keyboard!Next /\ UNCHANGED <<focus, vars, table, disk>>

AllSpec == AllInit /\ [][AllNext]_<<focus, vars, table, disk, keyboard>>

Symmetry == Permutations(Proc) \cup Permutations(Byte)

-----------------------------------------------------------------------------
\* The properties of the modules.

\* The table of open files, the descriptors and what they refer to (see FileTable).
DescriptorsExact == focus = "table" => Table!DescriptorsExact

\* A file reads as what was written to it, with zeros behind its end, whatever was
\* allocated, truncated and freed in between (bmap, readi, writei, itrunc).
ContentsKept ==
  focus = "disk" => Contents!ReadsBack /\ Contents!TailZero /\ Contents!FreeZero

\* At every moment, so at every crash, no block is in two files or in a file and free,
\* and without a crash no block is lost or freed twice (balloc, bfree, iupdate).
BlocksSafe ==
  focus = "disk" => Contents!DiskSafe /\ Contents!NoneLost /\ Contents!NoPanic

\* The console's ring is a line buffer (consoleintr, consoleread).
LineSpec == Keyboard!LineSpec
=============================================================================
