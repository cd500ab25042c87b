-------------------------------- MODULE Pipe --------------------------------
(***************************************************************************)
(* kernel/pipe.c: a ring of PIPESIZE bytes under a spin lock, its readers  *)
(* and writers, who sleep when it is empty or full, the processes that     *)
(* hold descriptors of its two ends, and kill().                           *)
(*                                                                         *)
(* The pipe's lock is held over several steps.  sleep() is one step: it    *)
(* takes ptable.lock before it gives up the pipe's (see SpinLock), and     *)
(* wakeup() and kill() need ptable.lock, so none of them comes in between. *)
(***************************************************************************)
EXTENDS Naturals, FiniteSets

CONSTANTS
  Proc,       \* the processes that use the pipe
  Byte,       \* the values of a byte
  PIPESIZE,
  UintSize,   \* nread and nwrite are unsigned: they count modulo this number
  Request,    \* the n that programs pass to read() and write()
  KillProc,   \* the processes that others kill
  NoProc      \* holder of a free lock

ASSUME PipeAssumption ==
  /\ PIPESIZE \in Nat \ {0}
  /\ UintSize \in Nat
  /\ UintSize % PIPESIZE = 0
  /\ UintSize > PIPESIZE
  /\ Request \subseteq Nat
  /\ KillProc \subseteq Proc
  /\ NoProc \notin Proc

VARIABLES
  data, nread, nwrite, readopen, writeopen,   \* struct pipe
  lock,       \* the process that holds p->lock
  freed,      \* has the page of the pipe been given back?
  ends,       \* ends[p]: the ends that p has a descriptor of
  pc, call,   \* where p is, and in which function
  left,       \* n - i: bytes that its read or write has still to move
  killed

pipeVars == <<data, nread, nwrite, readopen, writeopen, freed>>
procVars == <<ends, killed>>
vars == <<data, nread, nwrite, readopen, writeopen, lock, freed,
          ends, pc, call, left, killed>>

TypeOK ==
  /\ data \in [0 .. PIPESIZE - 1 -> Byte]
  /\ nread \in 0 .. UintSize - 1
  /\ nwrite \in 0 .. UintSize - 1
  /\ readopen \in BOOLEAN
  /\ writeopen \in BOOLEAN
  /\ lock \in Proc \cup {NoProc}
  /\ freed \in BOOLEAN
  /\ ends \in [Proc -> SUBSET {"read", "write"}]
  /\ pc \in [Proc -> {"user", "lock", "loop", "copy", "sleep", "asleep", "free"}]
  /\ call \in [Proc -> {"none", "read", "write", "closeread", "closewrite"}]
  /\ left \in [Proc -> Nat]
  /\ killed \in [Proc -> BOOLEAN]

Inc(k) == (k + 1) % UintSize
Full   == nwrite = (nread + PIPESIZE) % UintSize
Empty  == nread = nwrite

-----------------------------------------------------------------------------
\* p goes to place q; wakeup() of the processes that sleep in the function f.
GoWaking(p, q, f) ==
  pc' = [r \in Proc |-> IF r = p THEN q
                        ELSE IF pc[r] = "asleep" /\ call[r] = f THEN "lock"
                        ELSE pc[r]]

\* read() or write() gives up the lock and returns.
Leave(p) ==
  /\ lock' = NoProc
  /\ call' = [call EXCEPT ![p] = "none"]
  /\ left' = [left EXCEPT ![p] = 0]

\* A system call on the pipe begins; its first act is acquire(&p->lock).
Enter(p, f, n) ==
  /\ pc[p] = "user" /\ ~ killed[p]
  /\ pc' = [pc EXCEPT ![p] = "lock"]
  /\ call' = [call EXCEPT ![p] = f]
  /\ left' = [left EXCEPT ![p] = n]
  /\ UNCHANGED <<pipeVars, lock, procVars>>

Read(p)  == "read" \in ends[p] /\ \E n \in Request : Enter(p, "read", n)
Write(p) == "write" \in ends[p] /\ \E n \in Request : Enter(p, "write", n)

Acquire(p) ==
  /\ pc[p] = "lock" /\ call[p] \in {"read", "write"}
  /\ lock = NoProc
  /\ lock' = p
  /\ pc' = [pc EXCEPT ![p] = "loop"]
  /\ UNCHANGED <<pipeVars, procVars, call, left>>

\* sleep(&p->nread or &p->nwrite, &p->lock), until it sleeps.
Sleep(p) ==
  /\ pc[p] = "sleep"
  /\ pc' = [pc EXCEPT ![p] = "asleep"]
  /\ lock' = NoProc
  /\ UNCHANGED <<pipeVars, procVars, call, left>>

-----------------------------------------------------------------------------
\* pipewrite(), round by round.

Writing(p) == pc[p] = "loop" /\ call[p] = "write"

\* (Faulty: nwrite is advanced before the byte is stored.)
PutAstray(p) ==
  /\ Writing(p) /\ left[p] > 0 /\ ~ Full
  /\ \E b \in Byte : data' = [data EXCEPT ![Inc(nwrite) % PIPESIZE] = b]
  /\ nwrite' = Inc(nwrite)
  /\ left' = [left EXCEPT ![p] = @ - 1]
  /\ UNCHANGED <<nread, readopen, writeopen, freed, lock, procVars, pc, call>>

Put(p) ==
  /\ Writing(p) /\ left[p] > 0 /\ ~ Full
  /\ \E b \in Byte : data' = [data EXCEPT ![nwrite % PIPESIZE] = b]
  /\ nwrite' = Inc(nwrite)
  /\ left' = [left EXCEPT ![p] = @ - 1]
  /\ UNCHANGED <<nread, readopen, writeopen, freed, lock, procVars, pc, call>>

\* (Faulty: a writer that finds the ring full does not wake the readers.)
WriteWaitsSilently(p) ==
  /\ Writing(p) /\ left[p] > 0 /\ Full /\ readopen /\ ~ killed[p]
  /\ pc' = [pc EXCEPT ![p] = "sleep"]
  /\ UNCHANGED <<pipeVars, lock, procVars, call, left>>

WriteWaits(p) ==
  /\ Writing(p) /\ left[p] > 0 /\ Full /\ readopen /\ ~ killed[p]
  /\ GoWaking(p, "sleep", "read")
  /\ UNCHANGED <<pipeVars, lock, procVars, call, left>>

\* return -1
WriteFails(p) ==
  /\ Writing(p) /\ left[p] > 0 /\ Full /\ (~ readopen \/ killed[p])
  /\ pc' = [pc EXCEPT ![p] = "user"]
  /\ Leave(p)
  /\ UNCHANGED <<pipeVars, procVars>>

WriteReturns(p) ==
  /\ Writing(p) /\ left[p] = 0
  /\ GoWaking(p, "user", "read")
  /\ Leave(p)
  /\ UNCHANGED <<pipeVars, procVars>>

-----------------------------------------------------------------------------
\* piperead(): waits for the first byte only, then takes what there is.

Reading(p) == pc[p] = "loop" /\ call[p] = "read"

ReadWaits(p) ==
  /\ Reading(p) /\ Empty /\ writeopen /\ ~ killed[p]
  /\ pc' = [pc EXCEPT ![p] = "sleep"]
  /\ UNCHANGED <<pipeVars, lock, procVars, call, left>>

ReadFails(p) ==
  /\ Reading(p) /\ Empty /\ writeopen /\ killed[p]
  /\ pc' = [pc EXCEPT ![p] = "user"]
  /\ Leave(p)
  /\ UNCHANGED <<pipeVars, procVars>>

ReadStarts(p) ==
  /\ Reading(p) /\ ~ (Empty /\ writeopen)
  /\ pc' = [pc EXCEPT ![p] = "copy"]
  /\ UNCHANGED <<pipeVars, lock, procVars, call, left>>

Get(p) ==
  /\ pc[p] = "copy" /\ left[p] > 0 /\ ~ Empty
  /\ nread' = Inc(nread)
  /\ left' = [left EXCEPT ![p] = @ - 1]
  /\ UNCHANGED <<data, nwrite, readopen, writeopen, freed, lock, procVars, pc, call>>

\* (Faulty: piperead() wakes a writer only when it has emptied the ring.)
ReadReturnsLazily(p) ==
  /\ pc[p] = "copy" /\ (left[p] = 0 \/ Empty)
  /\ IF Empty THEN GoWaking(p, "user", "write") ELSE pc' = [pc EXCEPT ![p] = "user"]
  /\ Leave(p)
  /\ UNCHANGED <<pipeVars, procVars>>

ReadReturns(p) ==
  /\ pc[p] = "copy" /\ (left[p] = 0 \/ Empty)
  /\ GoWaking(p, "user", "write")
  /\ Leave(p)
  /\ UNCHANGED <<pipeVars, procVars>>

-----------------------------------------------------------------------------
\* Descriptors come and go: pipealloc, fork's filedup, fileclose, pipeclose.

\* pipealloc() in a page from kalloc(), perhaps the one just given back.
PipeAlloc(p) ==
  /\ pc[p] = "user" /\ ~ killed[p] /\ freed
  /\ freed' = FALSE
  /\ readopen' = TRUE /\ writeopen' = TRUE
  /\ nread' = 0 /\ nwrite' = 0
  /\ ends' = [ends EXCEPT ![p] = {"read", "write"}]
  /\ UNCHANGED <<data, lock, pc, call, left, killed>>

\* fork(): a child, in an entry without descriptors, shares those of p.
Fork(p, q) ==
  /\ pc[p] = "user" /\ ~ killed[p] /\ ends[p] # {}
  /\ pc[q] = "user" /\ ends[q] = {}
  /\ ends' = [ends EXCEPT ![q] = ends[p]]
  /\ killed' = [killed EXCEPT ![q] = FALSE]
  /\ UNCHANGED <<pipeVars, lock, pc, call, left>>

\* fileclose() of one end, by close() or exit().  The last descriptor of the
\* end calls pipeclose(), after ftable.lock has been released.
Close(p, e) ==
  /\ pc[p] = "user"
  /\ e \in ends[p]
  /\ ends' = [ends EXCEPT ![p] = @ \ {e}]
  /\ IF \E q \in Proc \ {p} : e \in ends[q]
     THEN UNCHANGED <<pc, call>>
     ELSE /\ pc' = [pc EXCEPT ![p] = "lock"]
          /\ call' = [call EXCEPT ![p] = IF e = "read" THEN "closeread" ELSE "closewrite"]
  /\ UNCHANGED <<pipeVars, lock, left, killed>>

\* (Faulty: the page goes when the write end is closed.)
PipeCloseEarly(p) ==
  /\ pc[p] = "lock" /\ call[p] \in {"closeread", "closewrite"}
  /\ lock = NoProc
  /\ LET writable == call[p] = "closewrite" IN
     /\ writeopen' = (writeopen /\ ~ writable)
     /\ readopen' = (readopen /\ writable)
     /\ GoWaking(p, IF writable THEN "free" ELSE "user", IF writable THEN "read" ELSE "write")
  /\ call' = [call EXCEPT ![p] = "none"]
  /\ UNCHANGED <<data, nread, nwrite, freed, lock, procVars, left>>

\* pipeclose(), from acquire to release.
PipeClose(p) ==
  /\ pc[p] = "lock" /\ call[p] \in {"closeread", "closewrite"}
  /\ lock = NoProc
  /\ LET writable == call[p] = "closewrite" IN
     /\ writeopen' = (writeopen /\ ~ writable)
     /\ readopen' = (readopen /\ writable)
     /\ GoWaking(p, IF readopen' \/ writeopen' THEN "user" ELSE "free",
                    IF writable THEN "read" ELSE "write")
  /\ call' = [call EXCEPT ![p] = "none"]
  /\ UNCHANGED <<data, nread, nwrite, freed, lock, procVars, left>>

\* kfree() of the pipe, after its lock was released.
Free(p) ==
  /\ pc[p] = "free"
  /\ freed' = TRUE
  /\ pc' = [pc EXCEPT ![p] = "user"]
  /\ UNCHANGED <<data, nread, nwrite, readopen, writeopen, lock, procVars, call, left>>

\* kill() by anybody, at any moment.
Kill(p) ==
  /\ p \in KillProc /\ ~ killed[p]
  /\ killed' = [killed EXCEPT ![p] = TRUE]
  /\ pc' = [pc EXCEPT ![p] = IF @ = "asleep" THEN "lock" ELSE @]
  /\ UNCHANGED <<pipeVars, lock, ends, call, left>>

\* The parent collects a killed process that has closed everything, and the
\* entry serves another process.
Reborn(p) ==
  /\ pc[p] = "user" /\ killed[p] /\ ends[p] = {}
  /\ killed' = [killed EXCEPT ![p] = FALSE]
  /\ UNCHANGED <<pipeVars, lock, ends, pc, call, left>>

-----------------------------------------------------------------------------
Init ==
  /\ data \in [0 .. PIPESIZE - 1 -> Byte]
  /\ nread = 0 /\ nwrite = 0
  /\ readopen = FALSE /\ writeopen = FALSE
  /\ lock = NoProc
  /\ freed = TRUE
  /\ ends = [p \in Proc |-> {}]
  /\ pc = [p \in Proc |-> "user"]
  /\ call = [p \in Proc |-> "none"]
  /\ left = [p \in Proc |-> 0]
  /\ killed = [p \in Proc |-> FALSE]

\* What a process does inside the kernel once it has entered.
WriteStep(p) == Put(p) \/ WriteWaits(p) \/ WriteFails(p) \/ WriteReturns(p)
ReadStep(p)  == ReadWaits(p) \/ ReadFails(p) \/ ReadStarts(p) \/ Get(p) \/ ReadReturns(p)
KernelStep(p) ==
  Acquire(p) \/ Sleep(p) \/ WriteStep(p) \/ ReadStep(p) \/ PipeClose(p) \/ Free(p)

\* What programs do.
ProgramStep(p) ==
  \/ Read(p) \/ Write(p) \/ PipeAlloc(p) \/ Kill(p) \/ Reborn(p)
  \/ \E q \in Proc \ {p} : Fork(p, q)
  \/ \E e \in {"read", "write"} : Close(p, e)

Next == \E p \in Proc : KernelStep(p) \/ ProgramStep(p)

Spec == Init /\ [][Next]_vars

\* A process in the kernel goes on, and a spin lock that is free again and
\* again is got some time: xchg promises nothing, the memory bus does.
Fairness == \A p \in Proc : WF_vars(KernelStep(p)) /\ SF_vars(Acquire(p) \/ PipeClose(p))

FairSpec == Spec /\ Fairness

-----------------------------------------------------------------------------
\* Properties

Count == (nwrite + UintSize - nread) % UintSize

\* What is in the ring, in the order in which it is read.
Bytes == [k \in 1 .. Count |-> data[(nread + k - 1) % PIPESIZE]]

\* The pipe is a byte stream: the ring and its two wrapping counters are a
\* queue, and an end that was closed stays closed (pipewrite, piperead,
\* pipeclose).
Stream == INSTANCE ByteStream WITH
            Size     <- PIPESIZE,
            bytes    <- Bytes,
            canRead  <- readopen,
            canWrite <- writeopen
StreamSpec == Stream!Spec

\* A reader sleeps only on an empty pipe that may still get bytes: whoever puts
\* bytes into it wakes the readers before letting go of the lock ("pipe-empty",
\* the loop of piperead, pipe.c:103).
ReadersWoken ==
  lock = NoProc =>
     \A p \in Proc : pc[p] = "asleep" /\ call[p] = "read" => Empty /\ writeopen

\* A writer sleeps only on a full pipe that somebody may still empty
\* ("pipewrite-full", the inner loop of pipewrite).
WritersWoken ==
  lock = NoProc =>
     \A p \in Proc : pc[p] = "asleep" /\ call[p] = "write" => Full /\ readopen

\* The page of a pipe is given back by one process only, once nobody has a
\* descriptor of it and nobody is inside it any more, and as long as it is not
\* given back there is somebody left who will (pipeclose's kfree).
FreedOnce ==
  /\ freed => \A p \in Proc : ends[p] = {} /\ pc[p] = "user"
  /\ \A p \in Proc : pc[p] = "free" =>
        /\ ~ freed
        /\ \A q \in Proc \ {p} : ends[q] = {} /\ pc[q] = "user"
  /\ freed \/ \E p \in Proc : ends[p] # {} \/ pc[p] # "user"

\* An end is open exactly as long as somebody has a descriptor of it or is in
\* the middle of closing the last one (fileclose, pipeclose).
OpenEnds ==
  /\ readopen <=> \E p \in Proc : "read" \in ends[p] \/ call[p] = "closeread"
  /\ writeopen <=> \E p \in Proc : "write" \in ends[p] \/ call[p] = "closewrite"

\* The page of a pipe is freed once, when its second end is closed; until then both
\* counters, the ends and the lock agree with what its readers and writers do
\* (pipeclose, piperead, pipewrite).
PipeExact == TypeOK /\ FreedOnce /\ OpenEnds

\* p is in a call that can only end because an end of the pipe was closed: when the
\* last writer has closed its end every reader comes back, and when the last reader
\* has closed its end every writer does (pipeclose's wakeups).
AtClosedEnd(p) ==
  \/ call[p] = "read" /\ ~ writeopen
  \/ call[p] = "write" /\ ~ readopen

-----------------------------------------------------------------------------
\* The inductive invariant behind these properties.

\* Where a process may be in each of the functions, and what it has a descriptor of.
CallInv(p) ==
  /\ pc[p] \in {"loop", "copy", "sleep"} <=> lock = p
  /\ call[p] = "none" <=> pc[p] \in {"user", "free"}
  /\ pc[p] \in {"loop", "sleep", "asleep"} => call[p] \in {"read", "write"}
  /\ pc[p] = "copy" => call[p] = "read"
  /\ pc[p] = "free" => ~ readopen /\ ~ writeopen
  /\ call[p] \in {"read", "write"} => call[p] \in ends[p]
  /\ call[p] = "closeread" =>
        \A q \in Proc : "read" \notin ends[q] /\ (call[q] = "closeread" => q = p)
  /\ call[p] = "closewrite" =>
        \A q \in Proc : "write" \notin ends[q] /\ (call[q] = "closewrite" => q = p)

\* A writer that sleeps, or has decided to, will find the ring full or is woken by the
\* reader that is emptying it.
WriterInv(p) ==
  pc[p] \in {"sleep", "asleep"} /\ call[p] = "write" =>
    readopen /\ (Full \/ \E q \in Proc : pc[q] = "copy")

PipeInv ==
  /\ TypeOK
  /\ \A p \in Proc : CallInv(p) /\ WriterInv(p)
  /\ OpenEnds
  /\ FreedOnce
  /\ Count <= PIPESIZE

\* The same for a reader, as long as nobody is killed: a killed writer leaves without
\* waking the readers of what it wrote.
ReaderInv ==
  /\ \A p \in Proc : ~ killed[p]
  /\ \A p \in Proc : pc[p] \in {"sleep", "asleep"} /\ call[p] = "read" =>
        writeopen /\ (Empty \/ \E q \in Proc : Writing(q))
=============================================================================
