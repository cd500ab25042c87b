----------------------------- MODULE BufferCache ----------------------------
(***************************************************************************)
(* kernel/bio.c and kernel/ide.c: the cache of disk blocks, the queue of   *)
(* buffers that wait for the disk, its interrupt handler, and a drive that *)
(* serves one command at a time.                                           *)
(*                                                                         *)
(* One action is a critical section of bcache.lock or of idelock, up to    *)
(* sleep(), which gives the lock up in the same step (see SpinLock).  A    *)
(* process that sleeps in bget() and one that sleeps in iderw() for the    *)
(* same buffer sleep on the same channel, so each wakeup() wakes both.     *)
(*                                                                         *)
(* bmap() and itrunc() keep the indirect block of their file while they    *)
(* read other blocks, so a process may have two buffers: each of its two   *)
(* uses of the cache has a place, a block and a buffer of its own.         *)
(***************************************************************************)
EXTENDS Naturals, Sequences, SequencesExt

CONSTANTS
  Proc,       \* the processes that use the disk
  Buf,        \* the NBUF buffers
  Block, Val, \* disk sectors and what they may hold
  Indirect,   \* those in use as the indirect block of a file
  Zero,       \* what they hold at first
  NoBlock,    \* sector of a buffer that was never used (dev = -1)
  NoBuf, NoProc,
  Users,      \* how many processes may use the disk at the same time
  DriveFails, \* may commands end with an error?
  Spurious    \* may interrupts come that no command has caused?

\* A process' first use of the cache, and the one it makes while it has an
\* indirect block.
First(p) == <<p, "first">>
Second(p) == <<p, "second">>
Use == Proc \X {"first", "second"}

ASSUME BufferCacheAssumption ==
  /\ Zero \in Val /\ Indirect \subseteq Block
  /\ NoBlock \notin Block /\ NoBuf \notin Buf /\ NoProc \notin Proc \cup Use
  /\ Users \in Nat \ {0}
  /\ {DriveFails, Spurious} \subseteq BOOLEAN
  /\ IsFiniteSet(Proc) /\ IsFiniteSet(Buf) /\ IsFiniteSet(Indirect)

VARIABLES
  sector, busy, valid, dirty, data,  \* fields and flags of struct buf
  lru,        \* the buffers, most recently used first
  queue,      \* idequeue
  drive,      \* the drive: its command, the sector and the data
  disk,       \* what is on the disk
  irq,        \* does the drive ask for an interrupt?
  pc, want, held,  \* where a use is, the block it asked for, its buffer
  panicked

bufVars  == <<sector, busy, valid, dirty, data, lru>>
diskVars == <<queue, drive, disk, irq>>
procVars == <<pc, want, held>>
vars == <<bufVars, diskVars, procVars, panicked>>

TypeOK ==
  /\ sector \in [Buf -> Block \cup {NoBlock}]
  /\ busy \in [Buf -> BOOLEAN]
  /\ valid \in [Buf -> BOOLEAN]
  /\ dirty \in [Buf -> BOOLEAN]
  /\ data \in [Buf -> Val]
  /\ lru \in Seq(Buf) /\ ToSet(lru) = Buf /\ IsInjective(lru)
  /\ queue \in Seq(Buf) /\ IsInjective(queue)
  /\ drive \in [op : {"idle", "read", "write", "ready", "error"},
                sector : Block, data : Val]
  /\ disk \in [Block -> Val]
  /\ irq \in BOOLEAN
  /\ pc \in [Use -> {"user", "bget", "bgetsleep", "got", "iderw", "iosleep",
                      "iowake", "hold"}]
  /\ want \in [Use -> Block \cup {NoBlock}]
  /\ held \in [Use -> Buf \cup {NoBuf}]
  /\ panicked \in BOOLEAN

-----------------------------------------------------------------------------
Cached(k) == {b \in Buf : sector[b] = k}

Goto(u, q) == pc' = [pc EXCEPT ![u] = q]

\* u goes to place q; wakeup(b) of everybody who sleeps on b.
GoWaking(u, q, b) ==
  pc' = [r \in Use |->
          CASE r = u -> q
            [] r # u /\ held[r] = b /\ pc[r] = "bgetsleep" -> "bget"
            [] r # u /\ held[r] = b /\ pc[r] = "iosleep" -> "iowake"
            [] OTHER -> pc[r]]

\* The list of buffers with b moved to its head.
MoveToFront(b) ==
  LET at == CHOOSE i \in 1 .. Len(lru) : lru[i] = b
  IN [i \in 1 .. Len(lru) |->
       IF i = 1 THEN b ELSE IF i <= at THEN lru[i - 1] ELSE lru[i]]

Panic == panicked' = TRUE /\ UNCHANGED <<bufVars, diskVars, procVars>>

-----------------------------------------------------------------------------
\* bio.c

Active == {p \in Proc : pc[First(p)] # "user"}

\* A process calls bread(), or does so once more in bmap() and itrunc(): for the
\* superblock, the bitmap or a block of data (bzero).
Call(u) ==
  /\ pc[u] = "user"
  /\ \/ /\ u = First(u[1])
        /\ Cardinality(Active) < Users
        /\ \E k \in Block : want' = [want EXCEPT ![u] = k]
     \/ /\ u = Second(u[1])
        /\ pc[First(u[1])] = "hold" /\ want[First(u[1])] \in Indirect
        /\ \E k \in Block \ Indirect : want' = [want EXCEPT ![u] = k]
  /\ Goto(u, "bget")
  /\ UNCHANGED <<bufVars, diskVars, held, panicked>>

\* The process is done with its second block, if this is about its first.
Innermost(u) == u = First(u[1]) => pc[Second(u[1])] = "user"

Takes(u, b) ==
  /\ busy' = [busy EXCEPT ![b] = TRUE]
  /\ held' = [held EXCEPT ![u] = b]
  /\ Goto(u, "got")

\* bget() finds the block in a buffer that nobody uses.
BgetHit(u) ==
  /\ pc[u] = "bget"
  /\ \E b \in Cached(want[u]) : ~ busy[b] /\ Takes(u, b)
  /\ UNCHANGED <<sector, valid, dirty, data, lru, diskVars, want, panicked>>

\* It finds it in a buffer that is in use: sleep, then look again.  (held is
\* the channel that u sleeps on.)
BgetBusy(u) ==
  /\ pc[u] = "bget"
  /\ \E b \in Cached(want[u]) :
       busy[b] /\ held' = [held EXCEPT ![u] = b]
  /\ Goto(u, "bgetsleep")
  /\ UNCHANGED <<bufVars, diskVars, want, panicked>>

\* (Faulty: the scan ends before the last buffer.)
VictimsButFirst == {b \in Buf : ~ busy[b] /\ lru[1] # b}

\* The unused buffer that was released longest ago.
Victims ==
  {b \in Buf : /\ ~ busy[b]
               /\ \A i, j \in 1 .. Len(lru) : lru[i] = b /\ i < j => busy[lru[j]]}

\* (Faulty: does not look in the cache again after sleep().)
BgetRecycleAnyway(u) ==
  /\ pc[u] = "bget"
  /\ \E b \in Victims :
       /\ sector' = [sector EXCEPT ![b] = want[u]]
       /\ valid' = [valid EXCEPT ![b] = FALSE]
       /\ dirty' = [dirty EXCEPT ![b] = FALSE]
       /\ Takes(u, b)
  /\ UNCHANGED <<data, lru, diskVars, want, panicked>>

BgetRecycle(u) ==
  /\ pc[u] = "bget" /\ Cached(want[u]) = {}
  /\ \E b \in Victims :
       /\ sector' = [sector EXCEPT ![b] = want[u]]
       /\ valid' = [valid EXCEPT ![b] = FALSE]
       /\ dirty' = [dirty EXCEPT ![b] = FALSE]
       /\ Takes(u, b)
  /\ UNCHANGED <<data, lru, diskVars, want, panicked>>

\* "bget: no buffers"
BgetPanics(u) ==
  /\ pc[u] = "bget" /\ Cached(want[u]) = {} /\ Victims = {}
  /\ Panic

\* bread() reads the block unless the buffer has it.
Bread(u) ==
  /\ pc[u] = "got"
  /\ Goto(u, IF valid[held[u]] THEN "hold" ELSE "iderw")
  /\ UNCHANGED <<bufVars, diskVars, want, held, panicked>>

\* The process changes the block and calls bwrite().
Bwrite(u) ==
  /\ pc[u] = "hold" /\ Innermost(u)
  /\ \E v \in Val : data' = [data EXCEPT ![held[u]] = v]
  /\ dirty' = [dirty EXCEPT ![held[u]] = TRUE]
  /\ Goto(u, "iderw")
  /\ UNCHANGED <<sector, busy, valid, lru, diskVars, want, held, panicked>>

\* (Faulty: no wakeup.)
BrelseSilent(u) ==
  /\ pc[u] = "hold" /\ Innermost(u)
  /\ lru' = MoveToFront(held[u])
  /\ busy' = [busy EXCEPT ![held[u]] = FALSE]
  /\ Goto(u, "user")
  /\ want' = [want EXCEPT ![u] = NoBlock]
  /\ held' = [held EXCEPT ![u] = NoBuf]
  /\ UNCHANGED <<sector, valid, dirty, data, diskVars, panicked>>

Brelse(u) ==
  /\ pc[u] = "hold" /\ Innermost(u)
  /\ lru' = MoveToFront(held[u])
  /\ busy' = [busy EXCEPT ![held[u]] = FALSE]
  /\ GoWaking(u, "user", held[u])
  /\ want' = [want EXCEPT ![u] = NoBlock]
  /\ held' = [held EXCEPT ![u] = NoBuf]
  /\ UNCHANGED <<sector, valid, dirty, data, diskVars, panicked>>

-----------------------------------------------------------------------------
\* ide.c

\* idewait() polls until the drive is not busy.
DriveReady == drive.op \notin {"read", "write"}

\* (Faulty: B_DIRTY is overlooked.)
IdestartReads(b) ==
  drive' = [op |-> "read", sector |-> sector[b], data |-> Zero]

\* idestart(b), when b's data and dirty flag are as now.
Idestart(b) ==
  drive' = [op |-> IF dirty[b] THEN "write" ELSE "read",
            sector |-> sector[b], data |-> IF dirty[b] THEN data[b] ELSE Zero]

\* iderw() up to its sleep: the request is not served yet.
Iderw(u) ==
  LET b == held[u]
  IN /\ pc[u] = "iderw"
     /\ queue' = Append(queue, b)
     /\ IF queue = <<>> THEN DriveReady /\ Idestart(b) ELSE UNCHANGED drive
     /\ Goto(u, "iosleep")
     /\ UNCHANGED <<bufVars, disk, irq, want, held, panicked>>

\* It woke up: is the block there?
IderwWakes(u) ==
  /\ pc[u] = "iowake"
  /\ Goto(u, IF valid[held[u]] /\ ~ dirty[held[u]] THEN "hold" ELSE "iosleep")
  /\ UNCHANGED <<bufVars, diskVars, want, held, panicked>>

\* (Faulty: no wakeup.)
IdeintrSilent ==
  LET b    == Head(queue)
      rest == Tail(queue)
  IN /\ irq /\ irq' = FALSE
     /\ queue # <<>>
     /\ ~ dirty[b] \/ rest # <<>> => DriveReady
     /\ data' = IF ~ dirty[b] /\ drive.op # "error"
                THEN [data EXCEPT ![b] = drive.data] ELSE data
     /\ valid' = [valid EXCEPT ![b] = TRUE]
     /\ dirty' = [dirty EXCEPT ![b] = FALSE]
     /\ queue' = rest
     /\ UNCHANGED pc
     /\ IF rest # <<>> THEN Idestart(Head(rest)) ELSE UNCHANGED drive
     /\ UNCHANGED <<sector, busy, lru, disk, want, held, panicked>>

\* ideintr(): the head of the queue is done, the next one is started.  Of a
\* read it takes the data, once the drive is ready and unless it reports an
\* error.
Ideintr ==
  LET b    == Head(queue)
      rest == Tail(queue)
  IN /\ irq /\ irq' = FALSE
     /\ queue # <<>>
     /\ ~ dirty[b] \/ rest # <<>> => DriveReady
     /\ data' = IF ~ dirty[b] /\ drive.op # "error"
                THEN [data EXCEPT ![b] = drive.data] ELSE data
     /\ valid' = [valid EXCEPT ![b] = TRUE]
     /\ dirty' = [dirty EXCEPT ![b] = FALSE]
     /\ queue' = rest
     /\ GoWaking(NoProc, "user", b)
     /\ IF rest # <<>> THEN Idestart(Head(rest)) ELSE UNCHANGED drive
     /\ UNCHANGED <<sector, busy, lru, disk, want, held, panicked>>

IdeintrIgnored ==
  /\ irq /\ irq' = FALSE
  /\ queue = <<>>
  /\ UNCHANGED <<bufVars, queue, drive, disk, procVars, panicked>>

\* The drive ends a command, well or not, and asks for an interrupt.
DriveDone ==
  /\ ~ DriveReady
  /\ \/ /\ drive.op = "write"
        /\ disk' = [disk EXCEPT ![drive.sector] = drive.data]
        /\ drive' = [drive EXCEPT !.op = "idle"]
     \/ /\ drive.op = "read"
        /\ UNCHANGED disk
        /\ drive' = [drive EXCEPT !.op = "ready", !.data = disk[drive.sector]]
     \/ /\ DriveFails
        /\ UNCHANGED disk
        /\ drive' = [drive EXCEPT !.op = "error"]
  /\ irq' = TRUE
  /\ UNCHANGED <<bufVars, queue, procVars, panicked>>

SpuriousInterrupt ==
  /\ Spurious
  /\ irq' = TRUE
  /\ UNCHANGED <<bufVars, queue, drive, disk, procVars, panicked>>

-----------------------------------------------------------------------------
Init ==
  /\ sector = [b \in Buf |-> NoBlock]
  /\ busy = [b \in Buf |-> FALSE]
  /\ valid = [b \in Buf |-> FALSE]
  /\ dirty = [b \in Buf |-> FALSE]
  /\ data = [b \in Buf |-> Zero]
  /\ lru \in SetToSeqs(Buf)
  /\ queue = <<>>
  /\ \E k \in Block : drive = [op |-> "idle", sector |-> k, data |-> Zero]
  /\ disk = [k \in Block |-> Zero]
  /\ irq = FALSE
  /\ pc = [u \in Use |-> "user"]
  /\ want = [u \in Use |-> NoBlock]
  /\ held = [u \in Use |-> NoBuf]
  /\ panicked = FALSE

ProcNext(u) ==
  \/ BgetHit(u) \/ BgetBusy(u) \/ BgetRecycle(u) \/ BgetPanics(u) \/ Bread(u)
  \/ Iderw(u) \/ IderwWakes(u)

DiskNext == Ideintr \/ IdeintrIgnored \/ DriveDone

Next ==
  /\ ~ panicked
  /\ \/ \E u \in Use : Call(u) \/ Bwrite(u) \/ Brelse(u) \/ ProcNext(u)
     \/ DiskNext \/ SpuriousInterrupt

Spec == Init /\ [][Next]_vars

\* The drive ends its commands, its interrupts are taken, and a process that is
\* inside bget() or iderw() goes on when nothing keeps it.  A process that holds
\* a block owes nothing.
Fairness ==
  /\ WF_vars(~ panicked /\ DriveDone)
  /\ WF_vars(~ panicked /\ (Ideintr \/ IdeintrIgnored))
  /\ \A u \in Use : WF_vars(~ panicked /\ ProcNext(u))

FairSpec == Spec /\ Fairness

-----------------------------------------------------------------------------
Using(u) == pc[u] \in {"got", "iderw", "iosleep", "iowake", "hold"}

\* No block is in two buffers, however many processes miss it at once.
OneBufferPerBlock ==
  \A b, c \in Buf : b # c /\ sector[b] = sector[c] => sector[b] = NoBlock

\* B_BUSY is exact: a buffer that has it belongs to one process, which got it for
\* the block that it asked for; other buffers belong to nobody.
BusyExact ==
  /\ \A u \in Use : Using(u) => busy[held[u]] /\ sector[held[u]] = want[u]
  /\ \A b \in Buf : busy[b] => \E u \in Use : Using(u) /\ held[u] = b
  /\ \A u, q \in Use : Using(u) /\ Using(q) /\ held[u] = held[q] => u = q

\* Everybody who sleeps will be woken: for the disk, because the buffer is in the
\* queue; for a buffer, because somebody has it and the block is still in it.
SleepersWoken ==
  \A u \in Use :
    /\ pc[u] = "iosleep" => held[u] \in ToSet(queue)
    /\ pc[u] = "bgetsleep" => busy[held[u]] /\ sector[held[u]] = want[u]

\* What the disk holds, or will when the drive has done what it was told.
OnDisk(k) ==
  IF drive.op = "write" /\ drive.sector = k THEN drive.data ELSE disk[k]

\* B_VALID: "the buffer data has been initialized with the associated disk block
\* contents" (bio.c:20); a buffer that is not dirty agrees with the disk, so it
\* may be used for another block at any time.  Whoever holds a buffer finds it so.
ValidIsDisk ==
  /\ \A b \in Buf : valid[b] /\ ~ dirty[b] => data[b] = OnDisk(sector[b])
  /\ \A u \in Use : pc[u] = "hold" => valid[held[u]] /\ ~ dirty[held[u]]

\* No block is in two buffers, a busy buffer belongs to one process and holds what that
\* asked for, and what a buffer claims to hold the disk holds (bget, brelse, ideintr).
CacheExact == TypeOK /\ OneBufferPerBlock /\ BusyExact /\ ValidIsDisk

\* "bget: no buffers" (bio.c:92) never happens.
NoPanic == ~ panicked

\* The cache is a BlockStore: what a process finds in a block is what the last
\* one that held it left there, through eviction, queueing and the disk.
contentBar ==
  [k \in Block |->
    IF \E b \in Buf : sector[b] = k /\ (valid[b] \/ dirty[b])
      THEN data[CHOOSE b \in Buf : sector[b] = k /\ (valid[b] \/ dirty[b])]
      ELSE OnDisk(k)]

holderBar ==
  [k \in Block |->
    IF \E u \in Use : Using(u) /\ want[u] = k
      THEN (CHOOSE u \in Use : Using(u) /\ want[u] = k)[1]
      ELSE NoProc]

Store ==
  INSTANCE BlockStore WITH Process <- Proc, Value <- Val, Nobody <- NoProc,
                           Blank <- Zero, content <- contentBar, holder <- holderBar

StoreSpec == Store!Spec

-----------------------------------------------------------------------------
\* The inductive invariant behind these properties.

\* What a process knows of its buffer.
ProcInv(u) ==
  /\ pc[u] # "user" => want[u] \in Block
  /\ Using(u) \/ pc[u] = "bgetsleep" => held[u] \in Buf
  /\ pc[u] \in {"iowake", "hold"} => valid[held[u]] /\ ~ dirty[held[u]]
  /\ pc[u] = "got" => ~ dirty[held[u]]
  /\ pc[u] \in {"iderw", "iosleep"} => dirty[held[u]] \/ ~ valid[held[u]]

\* A buffer that waits for the disk belongs to a process that sleeps.
BufInv(b) ==
  /\ valid[b] \/ busy[b] => sector[b] \in Block
  /\ dirty[b] => busy[b]
  /\ b \in ToSet(queue) => \E u \in Use : pc[u] = "iosleep" /\ held[u] = b

CacheInv ==
  /\ TypeOK
  /\ OneBufferPerBlock
  /\ BusyExact
  /\ SleepersWoken
  /\ \A u \in Use : ProcInv(u)
  /\ \A b \in Buf : BufInv(b)

\* A drive that does not fail works for the head of the queue, or has done so.
DriveInv ==
  queue # <<>> =>
    LET b == Head(queue)
    IN /\ drive.sector = sector[b]
       /\ dirty[b] =>
            /\ drive.op \in {"write", "idle"}
            /\ drive.data = data[b]
            /\ drive.op = "idle" => disk[sector[b]] = data[b]
       /\ ~ dirty[b] =>
            /\ drive.op \in {"read", "ready"}
            /\ drive.op = "ready" => drive.data = disk[sector[b]]

\* A process uses the cache a second time only while it has an indirect block, and
\* no more of them than Users do.
UsersInv ==
  /\ Cardinality(Active) <= Users
  /\ \A p \in Proc : pc[Second(p)] # "user" =>
        pc[First(p)] = "hold" /\ want[First(p)] \in Indirect

\* The buffers that Users processes can have at once.
Needed == Users + IF Cardinality(Indirect) < Users THEN Cardinality(Indirect) ELSE Users
=============================================================================
