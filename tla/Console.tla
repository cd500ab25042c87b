------------------------------- MODULE Console -------------------------------
(***************************************************************************)
(* kernel/console.c: the ring of typed characters with the indices r, w    *)
(* and e, filled and edited by the keyboard interrupt, and read() and      *)
(* write() of the console, which give up the lock of its inode meanwhile.  *)
(*                                                                         *)
(* An interrupt brings one key and holds input.lock throughout; a reader   *)
(* holds it from acquire to sleep or release, a step for each character.   *)
(***************************************************************************)
EXTENDS Naturals, Sequences

CONSTANTS
  Proc,       \* the processes that use the console
  Char,       \* the characters that are typed, among them
  Newline,
  CtrlD,      \*   the one that means end of file
  INPUT_BUF,  \* size of the ring
  UintSize,   \* r, w and e count modulo this number
  Request,    \* the n that programs pass to read()
  KillProc,   \* the processes that others kill
  NoProc      \* holder of a free lock

ConsoleAssumption ==
  /\ {Newline, CtrlD} \subseteq Char
  /\ Newline # CtrlD
  /\ INPUT_BUF \in Nat \ {0}
  /\ UintSize \in Nat
  /\ UintSize % INPUT_BUF = 0
  /\ UintSize > INPUT_BUF
  /\ Request \subseteq Nat
  /\ NoProc \notin Proc

VARIABLES
  buf, r, w, e, \* input
  lock,         \* the process that holds input.lock
  busy,         \* the process that holds the lock of the console's inode
  pc, call,     \* where p is, and whether it reads or writes
  target, n,    \* what it wants to read, and what is left of that
  killed

ring == <<buf, r, w, e>>
vars == <<buf, r, w, e, lock, busy, pc, call, target, n, killed>>

Init ==
  /\ buf = [i \in 0 .. INPUT_BUF - 1 |-> Newline]
  /\ r = 0 /\ w = 0 /\ e = 0
  /\ lock = NoProc
  /\ busy = NoProc
  /\ pc = [p \in Proc |-> "user"]
  /\ call = [p \in Proc |-> "none"]
  /\ target = [p \in Proc |-> 0]
  /\ n = [p \in Proc |-> 0]
  /\ killed = [p \in Proc |-> FALSE]

-----------------------------------------------------------------------------
\* consoleintr()

Inc(k) == (k + 1) % UintSize
Dec(k) == (k + UintSize - 1) % UintSize
Dist(from, to) == (to + UintSize - from) % UintSize
At(k) == buf[k % INPUT_BUF]

\* The readers that are asleep are woken.
Wakeup == pc' = [p \in Proc |-> IF pc[p] = "asleep" THEN "acquire" ELSE pc[p]]

\* (Faulty: an end of file wakes nobody.)
TypeQuietly(c) ==
  /\ lock = NoProc
  /\ Dist(r, e) < INPUT_BUF
  /\ buf' = [buf EXCEPT ![e % INPUT_BUF] = c]
  /\ e' = Inc(e)
  /\ IF c \in {Newline, CtrlD} \/ e' = (r + INPUT_BUF) % UintSize
     THEN w' = e' /\ IF c = CtrlD THEN UNCHANGED pc ELSE Wakeup
     ELSE UNCHANGED <<w, pc>>
  /\ UNCHANGED <<r, lock, busy, call, target, n, killed>>

\* A character goes into the ring if there is room. What is edited goes to the
\* readers at the end of a line, at an end of file and when the ring is full.
Type(c) ==
  /\ lock = NoProc
  /\ Dist(r, e) < INPUT_BUF
  /\ buf' = [buf EXCEPT ![e % INPUT_BUF] = c]
  /\ e' = Inc(e)
  /\ IF c \in {Newline, CtrlD} \/ e' = (r + INPUT_BUF) % UintSize
     THEN w' = e' /\ Wakeup
     ELSE UNCHANGED <<w, pc>>
  /\ UNCHANGED <<r, lock, busy, call, target, n, killed>>

\* (Faulty: what readers may have is erased, too.)
BackspaceFinished ==
  /\ lock = NoProc
  /\ e # r
  /\ e' = Dec(e)
  /\ UNCHANGED <<buf, r, w, lock, busy, pc, call, target, n, killed>>

Backspace ==
  /\ lock = NoProc
  /\ e # w
  /\ e' = Dec(e)
  /\ UNCHANGED <<buf, r, w, lock, busy, pc, call, target, n, killed>>

\* Ctrl-U: back to the start of the line, or to what readers may have.
KillLine ==
  LET stops == {k \in 0 .. Dist(w, e) :
                  k = 0 \/ At((w + k - 1) % UintSize) = Newline}
      kept == CHOOSE k \in stops : \A j \in stops : j <= k
  IN /\ lock = NoProc
     /\ e' = (w + kept) % UintSize
     /\ UNCHANGED <<buf, r, w, lock, busy, pc, call, target, n, killed>>

-----------------------------------------------------------------------------
\* read() and write(): fileread() and filewrite() lock the inode, consoleread() and
\* consolewrite() unlock it first and lock it again last

Same == UNCHANGED <<call, target, n, killed>>

Become(p, l) == pc' = [pc EXCEPT ![p] = l]

Call(p, f, k) ==
  /\ pc[p] = "user" /\ ~killed[p]
  /\ Become(p, "ilock")
  /\ call' = [call EXCEPT ![p] = f]
  /\ target' = [target EXCEPT ![p] = k]
  /\ n' = [n EXCEPT ![p] = k]
  /\ UNCHANGED <<ring, lock, busy, killed>>

Ilock(p) ==
  /\ pc[p] \in {"ilock", "relock"}
  /\ busy = NoProc
  /\ busy' = p
  /\ Become(p, IF pc[p] = "ilock" THEN "iunlock" ELSE "return")
  /\ UNCHANGED <<ring, lock>> /\ Same

Iunlock(p) ==
  /\ pc[p] = "iunlock"
  /\ busy' = NoProc
  /\ Become(p, IF call[p] = "read" THEN "acquire" ELSE "output")
  /\ UNCHANGED <<ring, lock>> /\ Same

\* consolewrite() puts out all of it, under cons.lock.
Output(p) ==
  /\ pc[p] = "output"
  /\ Become(p, "relock")
  /\ UNCHANGED <<ring, lock, busy>> /\ Same

Return(p) ==
  /\ pc[p] = "return"
  /\ busy' = NoProc
  /\ Become(p, "user")
  /\ call' = [call EXCEPT ![p] = "none"]
  /\ target' = [target EXCEPT ![p] = 0]
  /\ n' = [n EXCEPT ![p] = 0]
  /\ UNCHANGED <<ring, lock, killed>>

-----------------------------------------------------------------------------
\* consoleread(), under input.lock

Acquire(p) ==
  /\ pc[p] = "acquire"
  /\ lock = NoProc
  /\ lock' = p
  /\ Become(p, "loop")
  /\ UNCHANGED <<ring, busy>> /\ Same

\* sleep(&input.r, &input.lock), until it sleeps.
Sleep(p) ==
  /\ pc[p] = "sleep"
  /\ Become(p, "asleep")
  /\ lock' = NoProc
  /\ UNCHANGED <<ring, busy>> /\ Same

Wait(p) ==
  /\ pc[p] = "loop" /\ n[p] > 0 /\ r = w
  /\ ~killed[p]
  /\ Become(p, "sleep")
  /\ UNCHANGED <<ring, lock, busy>> /\ Same

\* The read is over, or fails because the process was killed.
Release(p) ==
  /\ \/ pc[p] = "release"
     \/ pc[p] = "loop" /\ n[p] = 0
     \/ pc[p] = "loop" /\ n[p] > 0 /\ r = w /\ killed[p]
  /\ lock' = NoProc
  /\ Become(p, "relock")
  /\ UNCHANGED <<ring, busy>> /\ Same

\* A character; a newline ends the read.
Take(p) ==
  /\ pc[p] = "loop" /\ n[p] > 0 /\ r # w
  /\ At(r) # CtrlD
  /\ r' = Inc(r)
  /\ n' = [n EXCEPT ![p] = @ - 1]
  /\ IF At(r) = Newline THEN Become(p, "release") ELSE UNCHANGED pc
  /\ UNCHANGED <<buf, w, e, lock, busy, call, target, killed>>

\* An end of file is left for the next read unless this one has nothing yet.
TakeEof(p) ==
  /\ pc[p] = "loop" /\ n[p] > 0 /\ r # w
  /\ At(r) = CtrlD
  /\ r' = IF n[p] < target[p] THEN r ELSE Inc(r)
  /\ Become(p, "release")
  /\ UNCHANGED <<buf, w, e, lock, busy>> /\ Same

\* kill() by anybody, at any moment; and the entry serves another process.
Kill(p) ==
  /\ p \in KillProc /\ ~killed[p]
  /\ killed' = [killed EXCEPT ![p] = TRUE]
  /\ pc' = [pc EXCEPT ![p] = IF @ = "asleep" THEN "acquire" ELSE @]
  /\ UNCHANGED <<ring, lock, busy, call, target, n>>

Reborn(p) ==
  /\ pc[p] = "user" /\ killed[p]
  /\ killed' = [killed EXCEPT ![p] = FALSE]
  /\ UNCHANGED <<ring, lock, busy, pc, call, target, n>>

\* What a process does in the kernel.
KernelStep(p) ==
  \/ Ilock(p) \/ Iunlock(p) \/ Output(p) \/ Return(p)
  \/ Acquire(p) \/ Sleep(p) \/ Wait(p) \/ Release(p) \/ Take(p) \/ TakeEof(p)

Next ==
  \/ (\E c \in Char : Type(c)) \/ Backspace \/ KillLine
  \/ \E p \in Proc :
       \/ KernelStep(p) \/ Kill(p) \/ Reborn(p)
       \/ \E k \in Request : Call(p, "read", k)
       \/ Call(p, "write", 0)

Spec == Init /\ [][Next]_vars

\* A process in the kernel goes on, and gets a lock that is free again and again.
Fairness ==
  \A p \in Proc : WF_vars(KernelStep(p)) /\ SF_vars(Ilock(p)) /\ SF_vars(Acquire(p))

-----------------------------------------------------------------------------
\* Properties

Part(from, to) == [k \in 1 .. Dist(from, to) |-> At((from + k - 1) % UintSize)]

Lines == INSTANCE LineBuffer WITH
  Size <- INPUT_BUF, Ends <- {Newline, CtrlD},
  finished <- Part(r, w), edited <- Part(w, e)

\* The ring with its three wrapping indices is a line buffer: nothing typed is lost,
\* read twice, erased once it is finished or read before.
LineSpec == Lines!Spec

\* No reader sleeps while there is something to read: the interrupt that brought it
\* did not come between the reader's test and its sleep.
ReadersWoken == \A p \in Proc : pc[p] = "asleep" => r = w

\* p reads while finished input is in the ring, which must reach it or another reader.
MayRead(p) == call[p] = "read" /\ r # w

-----------------------------------------------------------------------------
\* The inductive invariant behind the theorems of ConsoleProofs.

TypeOK ==
  /\ buf \in [0 .. INPUT_BUF - 1 -> Char]
  /\ {r, w, e} \subseteq 0 .. UintSize - 1
  /\ {lock, busy} \subseteq Proc \cup {NoProc}
  /\ pc \in [Proc -> {"user", "ilock", "iunlock", "acquire", "loop", "sleep", "asleep",
                      "release", "output", "relock", "return"}]
  /\ call \in [Proc -> {"none", "read", "write"}]
  /\ target \in [Proc -> Nat] /\ n \in [Proc -> Nat]
  /\ killed \in [Proc -> BOOLEAN]

\* r, w and e come in this order, not more than the ring apart, and what is still edited
\* has no newline: Ctrl-U erases all of it.
RingInv ==
  /\ Dist(r, w) + Dist(w, e) = Dist(r, e)
  /\ Dist(r, e) <= INPUT_BUF
  /\ \A k \in 1 .. Dist(w, e) : Part(w, e)[k] # Newline

\* The reader in the loop has the lock, and those that sleep or are about to have found
\* nothing that is there now.
LockInv ==
  \A p \in Proc :
    /\ pc[p] \in {"loop", "sleep", "release"} <=> lock = p
    /\ pc[p] \in {"sleep", "asleep"} => r = w

ConsoleInv == TypeOK /\ RingInv /\ LockInv
=============================================================================
