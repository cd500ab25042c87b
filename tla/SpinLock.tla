------------------------------ MODULE SpinLock ------------------------------
(***************************************************************************)
(* kernel/spinlock.c, access by access: acquire, release, holding, pushcli *)
(* and popcli, on several processors that take interrupts whenever their   *)
(* interrupt flag is on, together with the code that carries               *)
(* ptable.lock through swtch: sleep, yield, exit, sched, forkret and       *)
(* scheduler() (kernel/proc.c).                                            *)
(*                                                                         *)
(* The kernel runs in contexts: the kernel thread of each process, and     *)
(* scheduler() of each processor, named after it.  A context has two       *)
(* levels, each with its own place in the code: 0, and 1 for the interrupt *)
(* handler on top of it.  A frame is a context and a level.                *)
(***************************************************************************)
EXTENDS Naturals, FiniteSets

CONSTANTS
  CPU,      \* the processors
  Proc,     \* entries of the process table
  Outer,    \* locks taken alone or before ptable.lock: pipe, ide, ticks, ...
  Inner,    \* locks that may be taken while ptable.lock is held: kmem
  PT,       \* ptable.lock
  None      \* no processor, no lock

ASSUME SpinLockAssumption ==
  /\ CPU \cap Proc = {}
  /\ PT \notin Outer \cup Inner
  /\ Outer \cap Inner = {}
  /\ None \notin CPU \cup Outer \cup Inner \cup {PT}

Lock    == Outer \cup Inner \cup {PT}
Context == Proc \cup CPU
Frame   == Context \X {0, 1}

VARIABLES
  locked, cpu,      \* lk->locked and lk->cpu of every lock
  ncli, intena,     \* per processor: cpu->ncli and cpu->intena
  FL_IF,            \*   and the interrupt flag of its eflags
  running, level,   \* the context each CPU is on; the level each context is at
  pc, op,           \* per frame: place in the code; the function it serves
  arg, back,        \*   the lock of acquire/release; the lk of sleep()
  eflags, saved,    \*   locals: eflags of pushcli, intena of sched
  held              \*   locks it has acquired and not released

lockVars  == <<locked, cpu>>
cpuVars   == <<ncli, intena, FL_IF>>
switchVars == <<running, level>>
frameVars == <<pc, op, arg, back, eflags, saved, held>>
vars == <<locked, cpu, ncli, intena, FL_IF, running, level,
          pc, op, arg, back, eflags, saved, held>>

Op == {"section",   \* acquire and release around a critical section
       "sleep", "yield", "exit", "scan", "forkret"}
Place == {"run",                                  \* between calls
          "cli", "locked", "cpu", "xchg", "own",  \* acquire()
          "unlock", "popcli",                     \* release()
          "drop", "sched", "resumed", "relock",   \* sleep(), sched()
          "forkret", "iret",                      \* a new process
          "idle", "start", "scan",                \* scheduler()
          "panic"}

TypeOK ==
  /\ locked \in [Lock -> BOOLEAN]
  /\ cpu \in [Lock -> CPU \cup {None}]
  /\ ncli \in [CPU -> Nat]
  /\ intena \in [CPU -> BOOLEAN]
  /\ FL_IF \in [CPU -> BOOLEAN]
  /\ running \in [CPU -> Context]
  /\ level \in [Context -> {0, 1}]
  /\ pc \in [Frame -> Place]
  /\ op \in [Frame -> Op]
  /\ arg \in [Frame -> Lock]
  /\ back \in [Frame -> Lock]
  /\ eflags \in [Frame -> BOOLEAN]
  /\ saved \in [Frame -> BOOLEAN]
  /\ held \in [Frame -> SUBSET Lock]

-----------------------------------------------------------------------------
\* The frame that c executes.
Cur(c) == <<running[c], level[running[c]]>>

\* The frame reads eflags: the first access of acquire(l).
CallAcquire(c, f, l, o) ==
  /\ pc' = [pc EXCEPT ![f] = "cli"]
  /\ op' = [op EXCEPT ![f] = o]
  /\ arg' = [arg EXCEPT ![f] = l]
  /\ eflags' = [eflags EXCEPT ![f] = FL_IF[c]]
  /\ UNCHANGED <<lockVars, cpuVars, switchVars, saved, held>>

\* (Faulty: pushcli() without cli().)
PushCliOpen(c) ==
  LET f == Cur(c) IN
  /\ pc[f] = "cli"
  /\ ncli' = [ncli EXCEPT ![c] = @ + 1]
  /\ intena' = [intena EXCEPT ![c] = IF ncli[c] = 0 THEN eflags[f] ELSE @]
  /\ pc' = [pc EXCEPT ![f] = "locked"]
  /\ eflags' = [eflags EXCEPT ![f] = FALSE]
  /\ UNCHANGED <<lockVars, FL_IF, switchVars, op, arg, back, saved, held>>

\* The rest of pushcli(): interrupts are off, so nobody comes in between.
PushCli(c) ==
  LET f == Cur(c) IN
  /\ pc[f] = "cli"
  /\ FL_IF' = [FL_IF EXCEPT ![c] = FALSE]
  /\ ncli' = [ncli EXCEPT ![c] = @ + 1]
  /\ intena' = [intena EXCEPT ![c] = IF ncli[c] = 0 THEN eflags[f] ELSE @]
  /\ pc' = [pc EXCEPT ![f] = "locked"]
  /\ eflags' = [eflags EXCEPT ![f] = FALSE]
  /\ UNCHANGED <<lockVars, switchVars, op, arg, back, saved, held>>

\* (Faulty: a lock seen free is taken without an atomic exchange.)
ReadLockedAndGo(c) ==
  LET f == Cur(c) IN
  /\ pc[f] = "locked"
  /\ pc' = [pc EXCEPT ![f] = IF locked[arg[f]] THEN "cpu" ELSE "own"]
  /\ UNCHANGED <<lockVars, cpuVars, switchVars, op, arg, back, eflags, saved, held>>

\* holding() in acquire(): lk->locked, and lk->cpu only if it is set.
ReadLocked(c) ==
  LET f == Cur(c) IN
  /\ pc[f] = "locked"
  /\ pc' = [pc EXCEPT ![f] = IF locked[arg[f]] THEN "cpu" ELSE "xchg"]
  /\ UNCHANGED <<lockVars, cpuVars, switchVars, op, arg, back, eflags, saved, held>>

ReadCpu(c) ==
  LET f == Cur(c) IN
  /\ pc[f] = "cpu"
  /\ pc' = [pc EXCEPT ![f] = IF cpu[arg[f]] = c THEN "panic" ELSE "xchg"]
  /\ UNCHANGED <<lockVars, cpuVars, switchVars, op, arg, back, eflags, saved, held>>

\* The exchange that finds the lock free; one that does not changes nothing.
Xchg(c) ==
  LET f == Cur(c) IN
  /\ pc[f] = "xchg"
  /\ ~ locked[arg[f]]
  /\ locked' = [locked EXCEPT ![arg[f]] = TRUE]
  /\ pc' = [pc EXCEPT ![f] = "own"]
  /\ UNCHANGED <<cpu, cpuVars, switchVars, op, arg, back, eflags, saved, held>>

\* The call that f makes is over and its caller goes on at place q.  Locals
\* that are out of scope get a fixed value.
GoOn(f, q) ==
  /\ pc' = [pc EXCEPT ![f] = q]
  /\ arg' = [arg EXCEPT ![f] = PT]
  /\ IF q \in {"run", "scan", "idle", "iret"}
     THEN /\ op' = [op EXCEPT ![f] = "section"]
          /\ back' = [back EXCEPT ![f] = PT]
     ELSE UNCHANGED <<op, back>>

\* Where the caller of acquire() goes on.
AfterAcquire(f) ==
  IF op[f] \in {"yield", "exit"} THEN "sched"
  ELSE IF op[f] = "scan" THEN "scan"
  ELSE IF op[f] = "sleep" /\ arg[f] = PT THEN "drop"
  ELSE "run"

\* (Faulty: acquire() records the running context in place of the processor.)
AcquiredByContext(c) ==
  LET f == Cur(c) IN
  /\ pc[f] = "own"
  /\ cpu' = [cpu EXCEPT ![arg[f]] = running[c]]
  /\ held' = [held EXCEPT ![f] = @ \cup {arg[f]}]
  /\ GoOn(f, AfterAcquire(f))
  /\ UNCHANGED <<locked, cpuVars, switchVars, eflags, saved>>

Acquired(c) ==
  LET f == Cur(c) IN
  /\ pc[f] = "own"
  /\ cpu' = [cpu EXCEPT ![arg[f]] = c]
  /\ held' = [held EXCEPT ![f] = @ \cup {arg[f]}]
  /\ GoOn(f, AfterAcquire(f))
  /\ UNCHANGED <<locked, cpuVars, switchVars, eflags, saved>>

\* (Faulty: release() leaves lk->cpu as it is.)
CallReleaseStale(c, f, l, o) ==
  /\ pc' = [pc EXCEPT ![f] = IF locked[l] /\ cpu[l] = c THEN "unlock" ELSE "panic"]
  /\ op' = [op EXCEPT ![f] = o]
  /\ arg' = [arg EXCEPT ![f] = l]
  /\ UNCHANGED <<locked, cpu, switchVars, eflags, back, held>>

\* release(l) up to lk->cpu = 0: only the holder writes what it reads.
CallRelease(c, f, l, o) ==
  /\ IF locked[l] /\ cpu[l] = c
     THEN /\ cpu' = [cpu EXCEPT ![l] = None]
          /\ pc' = [pc EXCEPT ![f] = "unlock"]
     ELSE /\ pc' = [pc EXCEPT ![f] = "panic"]
          /\ UNCHANGED cpu
  /\ op' = [op EXCEPT ![f] = o]
  /\ arg' = [arg EXCEPT ![f] = l]
  /\ UNCHANGED <<locked, switchVars, eflags, back, held>>

Unlock(c) ==
  LET f == Cur(c) IN
  /\ pc[f] = "unlock"
  /\ locked' = [locked EXCEPT ![arg[f]] = FALSE]
  /\ held' = [held EXCEPT ![f] = @ \ {arg[f]}]
  /\ pc' = [pc EXCEPT ![f] = "popcli"]
  /\ UNCHANGED <<cpu, cpuVars, switchVars, op, arg, back, eflags, saved>>

\* Where the caller of release() goes on.
AfterRelease(f) ==
  IF op[f] = "scan" THEN "idle"
  ELSE IF op[f] = "forkret" THEN "iret"
  ELSE IF op[f] = "sleep" THEN (IF arg[f] = PT THEN "relock" ELSE "sched")
  ELSE "run"

\* popcli(): all of it concerns this processor only.
PopCli(c) ==
  LET f == Cur(c) IN
  /\ pc[f] = "popcli"
  /\ IF FL_IF[c] \/ ncli[c] = 0
     THEN /\ pc' = [pc EXCEPT ![f] = "panic"]
          /\ UNCHANGED <<ncli, FL_IF, op, arg, back>>
     ELSE /\ ncli' = [ncli EXCEPT ![c] = @ - 1]
          /\ FL_IF' = [FL_IF EXCEPT ![c] = IF ncli[c] = 1 /\ intena[c] THEN TRUE ELSE @]
          /\ GoOn(f, AfterRelease(f))
  /\ UNCHANGED <<lockVars, intena, switchVars, eflags, saved, held>>

-----------------------------------------------------------------------------
\* What the kernel does with locks.

\* The locks a frame may hold when it takes l.
Before(l) == IF l \in Inner THEN Outer \cup {PT} ELSE IF l = PT THEN Outer ELSE {}

InProcess(c) == running[c] \in Proc /\ pc[Cur(c)] = "run"

\* A critical section of a process or of an interrupt handler, perhaps inside
\* another one: wakeup() under a pipe's lock, kfree() under ptable.lock, ...
Acquire(c, l) ==
  /\ pc[Cur(c)] = "run"
  /\ l \notin held[Cur(c)]
  /\ held[Cur(c)] \subseteq Before(l)
  /\ CallAcquire(c, Cur(c), l, "section")
  /\ UNCHANGED back

Release(c, l) ==
  /\ pc[Cur(c)] = "run"
  /\ l \in held[Cur(c)]
  /\ CallRelease(c, Cur(c), l, "section")
  /\ UNCHANGED <<cpuVars, saved>>

\* sleep(chan, l) for a lock other than ptable.lock, which it takes first; in a handler
\* only in an exit() that trap() calls when it has interrupted user code (fileclose, iput).
Sleep(c, l) ==
  LET user == <<running[c], 0>> IN
  /\ InProcess(c)
  /\ level[running[c]] = 1 => pc[user] = "run" /\ held[user] = {}
  /\ l \in Outer
  /\ held[Cur(c)] = {l}
  /\ CallAcquire(c, Cur(c), PT, "sleep")
  /\ back' = [back EXCEPT ![Cur(c)] = l]

SleepDropsLock(c) ==
  /\ pc[Cur(c)] = "drop"
  /\ CallRelease(c, Cur(c), back[Cur(c)], "sleep")
  /\ UNCHANGED <<cpuVars, saved>>

\* sleep(chan, &ptable.lock), as wait() and join() call it.
SleepOnTable(c) ==
  /\ InProcess(c)
  /\ level[running[c]] = 0
  /\ held[Cur(c)] = {PT}
  /\ pc' = [pc EXCEPT ![Cur(c)] = "sched"]
  /\ op' = [op EXCEPT ![Cur(c)] = "sleep"]
  /\ back' = [back EXCEPT ![Cur(c)] = PT]
  /\ UNCHANGED <<lockVars, cpuVars, switchVars, arg, eflags, saved, held>>

SleepRetakesLock(c) ==
  /\ pc[Cur(c)] = "relock"
  /\ CallAcquire(c, Cur(c), back[Cur(c)], "sleep")
  /\ UNCHANGED back

\* The timer's handler found a running process.
Yield(c) ==
  /\ InProcess(c)
  /\ level[running[c]] = 1
  /\ held[Cur(c)] = {}
  /\ CallAcquire(c, Cur(c), PT, "yield")
  /\ UNCHANGED back

\* exit(), from a system call or from a trap.
Exit(c) ==
  /\ InProcess(c)
  /\ held[Cur(c)] = {}
  /\ pc[<<running[c], 0>>] = "run"
  /\ CallAcquire(c, Cur(c), PT, "exit")
  /\ UNCHANGED back

Holding(c, l) == locked[l] /\ cpu[l] = c

\* sched() and swtch: the scheduler of c goes on with ptable.lock.  The stack
\* of a process that exits is next used by a new one, which starts in forkret.
Sched(c) ==
  LET f == Cur(c) IN
  /\ pc[f] = "sched"
  /\ IF ~ Holding(c, PT) \/ ncli[c] # 1 \/ FL_IF[c]
     THEN /\ pc' = [pc EXCEPT ![f] = "panic"]
          /\ UNCHANGED <<switchVars, op, saved, held>>
     ELSE /\ running' = [running EXCEPT ![c] = c]
          /\ held' = [held EXCEPT ![f] = @ \ {PT}, ![<<c, 0>>] = @ \cup {PT}]
          /\ IF op[f] = "exit"
             THEN /\ pc' = [pc EXCEPT ![f] = "run", ![<<f[1], 0>>] = "forkret"]
                  /\ op' = [op EXCEPT ![f] = "section"]
                  /\ level' = [level EXCEPT ![f[1]] = 0]
                  /\ UNCHANGED saved
             ELSE /\ pc' = [pc EXCEPT ![f] = "resumed"]
                  /\ saved' = [saved EXCEPT ![f] = intena[c]]
                  /\ UNCHANGED <<op, level>>
  /\ UNCHANGED <<lockVars, cpuVars, arg, back, eflags>>

\* (Faulty: sched() does not put cpu->intena back.)
ResumedForgetful(c) ==
  LET f == Cur(c) IN
  /\ pc[f] = "resumed"
  /\ IF op[f] = "sleep" /\ back[f] = PT
     THEN /\ pc' = [pc EXCEPT ![f] = "run"]
          /\ UNCHANGED <<lockVars, switchVars, op, arg, back, eflags, held>>
     ELSE CallRelease(c, f, PT, op[f])
  /\ UNCHANGED <<cpuVars, saved>>

\* The way out of sched(), and of sleep() or yield() up to their release().
Resumed(c) ==
  LET f == Cur(c) IN
  /\ pc[f] = "resumed"
  /\ intena' = [intena EXCEPT ![c] = saved[f]]
  /\ IF op[f] = "sleep" /\ back[f] = PT
     THEN /\ GoOn(f, "run")
          /\ UNCHANGED <<lockVars, switchVars, eflags, held>>
     ELSE CallRelease(c, f, PT, op[f])
  /\ saved' = [saved EXCEPT ![f] = FALSE]
  /\ UNCHANGED <<ncli, FL_IF>>

ForkRet(c) ==
  /\ pc[Cur(c)] = "forkret"
  /\ CallRelease(c, Cur(c), PT, "forkret")
  /\ UNCHANGED <<cpuVars, saved>>

\* trapret pops the flags of user code.
ReturnToUser(c) ==
  /\ pc[Cur(c)] = "iret"
  /\ pc' = [pc EXCEPT ![Cur(c)] = "run"]
  /\ FL_IF' = [FL_IF EXCEPT ![c] = TRUE]
  /\ UNCHANGED <<lockVars, ncli, intena, switchVars, op, arg, back, eflags, saved, held>>

ProcessStep(c) ==
  \/ \E l \in Lock : Acquire(c, l) \/ Release(c, l) \/ Sleep(c, l)
  \/ SleepDropsLock(c) \/ SleepOnTable(c) \/ SleepRetakesLock(c)
  \/ Yield(c) \/ Exit(c) \/ Sched(c) \/ Resumed(c) \/ ForkRet(c) \/ ReturnToUser(c)

-----------------------------------------------------------------------------
\* scheduler().

Sti(c) ==
  /\ pc[Cur(c)] = "idle"
  /\ pc' = [pc EXCEPT ![Cur(c)] = "start"]
  /\ FL_IF' = [FL_IF EXCEPT ![c] = TRUE]
  /\ UNCHANGED <<lockVars, ncli, intena, switchVars, op, arg, back, eflags, saved, held>>

StartScan(c) ==
  /\ pc[Cur(c)] = "start"
  /\ CallAcquire(c, Cur(c), PT, "scan")
  /\ UNCHANGED back

\* swtch to a process that no processor runs, whatever it sleeps for (Proc
\* models which processes are runnable).
Pick(c, p) ==
  /\ pc[Cur(c)] = "scan"
  /\ \A d \in CPU : running[d] # p
  /\ running' = [running EXCEPT ![c] = p]
  /\ held' = [held EXCEPT ![Cur(c)] = @ \ {PT}, ![<<p, level[p]>>] = @ \cup {PT}]
  /\ UNCHANGED <<lockVars, cpuVars, level, pc, op, arg, back, eflags, saved>>

EndScan(c) ==
  /\ pc[Cur(c)] = "scan"
  /\ CallRelease(c, Cur(c), PT, "scan")
  /\ UNCHANGED <<cpuVars, saved>>

SchedulerStep(c) ==
  Sti(c) \/ StartScan(c) \/ EndScan(c) \/ \E p \in Proc : Pick(c, p)

-----------------------------------------------------------------------------
\* An interrupt gate turns interrupts off for the handler (tvinit).
Interrupt(c) ==
  LET t == running[c] IN
  /\ FL_IF[c]
  /\ level[t] = 0
  /\ level' = [level EXCEPT ![t] = 1]
  /\ FL_IF' = [FL_IF EXCEPT ![c] = FALSE]
  /\ UNCHANGED <<lockVars, ncli, intena, running, frameVars>>

InterruptReturns(c) ==
  LET t == running[c] IN
  /\ level[t] = 1
  /\ pc[Cur(c)] = "run"
  /\ held[Cur(c)] = {}
  /\ level' = [level EXCEPT ![t] = 0]
  /\ FL_IF' = [FL_IF EXCEPT ![c] = TRUE]
  /\ UNCHANGED <<lockVars, ncli, intena, running, frameVars>>

LockStep(c) ==
  PushCli(c) \/ ReadLocked(c) \/ ReadCpu(c) \/ Xchg(c) \/ Acquired(c)
  \/ Unlock(c) \/ PopCli(c)

\* Every processor in scheduler(); every process about to run its first step.
Init ==
  /\ locked = [l \in Lock |-> FALSE]
  /\ cpu = [l \in Lock |-> None]
  /\ ncli = [c \in CPU |-> 0]
  /\ intena = [c \in CPU |-> FALSE]
  /\ FL_IF = [c \in CPU |-> FALSE]
  /\ running = [c \in CPU |-> c]
  /\ level = [t \in Context |-> 0]
  /\ pc = [f \in Frame |-> IF f[2] = 1 THEN "run" ELSE IF f[1] \in CPU THEN "idle" ELSE "forkret"]
  /\ op = [f \in Frame |-> "section"]
  /\ arg = [f \in Frame |-> PT]
  /\ back = [f \in Frame |-> PT]
  /\ eflags = [f \in Frame |-> FALSE]
  /\ saved = [f \in Frame |-> FALSE]
  /\ held = [f \in Frame |-> {}]

Next ==
  \E c \in CPU : \/ LockStep(c) \/ ProcessStep(c) \/ SchedulerStep(c)
                 \/ Interrupt(c) \/ InterruptReturns(c)

Spec == Init /\ [][Next]_vars

-----------------------------------------------------------------------------
\* Properties

\* f is between the exchange that took l and the one that gives it back.
Owns(f, l) == l \in held[f] \/ (pc[f] = "own" /\ arg[f] = l)

\* A lock has at most one owner, and is marked locked as long as it has one
\* (acquire, release; also while ptable.lock goes from context to context).
Mutex ==
  \A l \in Lock, f \in Frame : Owns(f, l) =>
     locked[l] /\ \A g \in Frame : Owns(g, l) => g = f

\* holding() tells the truth: lk->cpu names a processor exactly while the code
\* that processor executes has the lock (holding, and its uses in acquire,
\* release and sched).
HolderKnown ==
  \A c \in CPU, l \in Lock :
     Holding(c, l) <=> /\ l \in held[Cur(c)]
                       /\ ~ (pc[Cur(c)] = "unlock" /\ arg[Cur(c)] = l)

\* No call of acquire, release, popcli or sched ends in panic().
NoPanic == \A f \in Frame : pc[f] # "panic"

\* holding() tells the truth about every lock whenever it is asked, so neither
\* acquire() nor release() nor popcli() nor sched() panics for a reason that is not
\* there, on whatever processor a process goes on (spinlock.c, proc.c's sched).
HoldingTrue == HolderKnown /\ NoPanic

\* pushcli and popcli leave the interrupt flag as they found it: a handler is never
\* interrupted, even when it gives up the CPU in the middle and goes on elsewhere
\* (intena saved in sched; trap.c's yield), and a process that has given back all
\* its locks takes interrupts again.
InterruptsRestored ==
  \A c \in CPU :
     /\ level[running[c]] = 1 => ~ FL_IF[c]
     /\ InProcess(c) /\ level[running[c]] = 0 /\ held[Cur(c)] = {} => FL_IF[c]

\* Who spins on a lock spins for a frame that another processor executes: a
\* lock is never held by code that was interrupted, gave up the CPU, or waits
\* for the spinner itself.
SpinsForRunning ==
  \A c \in CPU :
     LET f == Cur(c) IN
     pc[f] = "xchg" /\ locked[arg[f]] => \E d \in CPU \ {c} : Owns(Cur(d), arg[f])

-----------------------------------------------------------------------------
\* The inductive invariant behind Mutex: where ptable.lock, which changes hands
\* in swtch without being released, is owed by the place in the code.

Acquiring == {"cli", "locked", "cpu", "xchg", "own"}
Handover  == {"resumed", "forkret", "scan"}     \* first place after a swtch

\* No processor executes t.
Suspended(t) == IF t \in CPU THEN running[t] # t ELSE \A c \in CPU : running[c] # t

FrameInv(f) ==
  /\ pc[f] = "unlock" => arg[f] \in held[f]
  /\ pc[f] = "sched" => PT \in held[f]
  /\ pc[f] = "drop" => PT \in held[f] /\ back[f] \in held[f] /\ back[f] # PT
  /\ pc[f] = "relock" => back[f] # PT
  /\ pc[f] \in Acquiring /\ op[f] \in {"yield", "exit", "scan"} => arg[f] = PT
  /\ pc[f] \in Acquiring /\ op[f] = "sleep" /\ arg[f] = PT
       => back[f] # PT /\ back[f] \in held[f]
  /\ pc[f] \in {"unlock", "popcli"} /\ op[f] = "sleep"
       => IF arg[f] = PT THEN back[f] # PT ELSE PT \in held[f]

KindInv(f) ==
  /\ pc[f] \in {"idle", "start", "scan"} \/ op[f] = "scan" => f[1] \in CPU /\ f[2] = 0
  /\ pc[f] \in {"drop", "sched", "resumed", "relock", "forkret", "iret"} => f[1] \in Proc
  /\ op[f] \in {"sleep", "yield", "exit", "forkret"} => f[1] \in Proc

ContextInv(t) ==
  /\ level[t] = 0 => pc[<<t, 1>>] = "run"
  /\ IF Suspended(t)
     THEN /\ pc[<<t, level[t]>>] \in Handover
          /\ level[t] = 1 => pc[<<t, 0>>] \notin Handover
     ELSE \A k \in {0, 1} : pc[<<t, k>>] \in Handover => PT \in held[<<t, k>>]

RunInv ==
  \A c \in CPU : /\ running[c] \in Proc \cup {c}
                 /\ \A d \in CPU : running[c] = running[d] => c = d

LockInv ==
  /\ TypeOK
  /\ Mutex
  /\ RunInv
  /\ \A f \in Frame : FrameInv(f) /\ KindInv(f)
  /\ \A t \in Context : ContextInv(t)

-----------------------------------------------------------------------------
\* What else the other properties need: ncli counts the locks of the frame that a
\* processor executes, and no other frame has any.

Pushed == {"locked", "cpu", "xchg", "own", "popcli"}   \* ncli counts one more

\* What f holds where the code takes it for granted.
HeldInv(f) ==
  /\ IsFiniteSet(held[f])
  /\ pc[f] \in Acquiring => arg[f] \notin held[f]
  /\ pc[f] \in {"idle", "start", "iret", "relock"} => held[f] = {}
  /\ pc[f] \in Handover => held[f] \subseteq {PT}
  /\ pc[f] = "sched" => held[f] = {PT}
  /\ pc[f] = "drop" => held[f] = {PT, back[f]}
  /\ pc[f] \in Acquiring /\ op[f] \in {"yield", "exit", "scan"} => held[f] = {}
  /\ pc[f] \in Acquiring /\ op[f] = "sleep" => held[f] = IF arg[f] = PT THEN {back[f]} ELSE {}
  /\ pc[f] = "unlock" /\ op[f] # "section" => held[f] = {PT, arg[f]}
  /\ pc[f] = "unlock" /\ op[f] \notin {"section", "sleep"} => arg[f] = PT
  /\ pc[f] = "popcli" /\ op[f] # "section"
       => held[f] = IF op[f] = "sleep" /\ arg[f] # PT THEN {PT} ELSE {}

\* What it remembers of the interrupt flag: on for a process, off for a handler.
FlagsInv(f) ==
  /\ pc[f] # "panic"
  /\ pc[f] = "cli" /\ held[f] = {} =>
       /\ f[2] = 1 => ~ eflags[f]
       /\ f[2] = 0 /\ f[1] \in Proc => eflags[f]
  /\ pc[f] = "resumed" => (saved[f] <=> f[2] = 0)
  /\ pc[f] \in {"forkret", "iret"} \/ op[f] = "forkret" => f[2] = 0
  /\ op[f] = "forkret" => pc[f] \in {"unlock", "popcli"}
  /\ op[f] = "exit" /\ f[2] = 1 /\ pc[f] # "run" => pc[<<f[1], 0>>] = "run"

\* A frame that no processor executes holds nothing and is inside neither acquire(),
\* after cli(), nor release().
PassiveInv(f) ==
  (\A c \in CPU : f # Cur(c)) => held[f] = {} /\ pc[f] \notin Pushed \cup {"unlock"}

CpuInv(c) ==
  LET f == Cur(c) IN
  /\ ncli[c] = Cardinality(held[f]) + (IF pc[f] \in Pushed THEN 1 ELSE 0)
  /\ FL_IF[c] => ncli[c] = 0
  /\ \A l \in Lock :
       cpu[l] = c <=> l \in held[f] /\ ~ (pc[f] = "unlock" /\ arg[f] = l)
  /\ level[running[c]] = 1 =>
       ~ FL_IF[c] /\ (ncli[c] > 0 /\ pc[f] # "resumed" => ~ intena[c])
  /\ /\ running[c] \in Proc /\ level[running[c]] = 0
     /\ pc[f] \notin {"resumed", "forkret", "iret"} /\ op[f] # "forkret"
     => IF ncli[c] = 0 THEN FL_IF[c] ELSE intena[c]

CliInv ==
  /\ \A f \in Frame : HeldInv(f) /\ FlagsInv(f) /\ PassiveInv(f)
  /\ \A c \in CPU : CpuInv(c)
  /\ \A l \in Lock : locked[l] => \E f \in Frame : Owns(f, l)
=============================================================================
