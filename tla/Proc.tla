-------------------------------- MODULE Proc --------------------------------
(***************************************************************************)
(* The process table of the lab5 kernel (kernel/proc.c), the paths of      *)
(* trap.c and sysproc.c that act on it, and exec's switch of address       *)
(* space: processes and threads, fork, clone, wait, join, exit, exec, kill,*)
(* sys_sleep, the scheduler of every CPU and the timer's yield.            *)
(*                                                                         *)
(* One action is one critical section of ptable.lock, or one step that the *)
(* code takes without it.  ptable.lock changes hands inside swtch: whoever *)
(* calls sched() keeps it, the scheduler of the same CPU goes on with it,  *)
(* and the process it picks releases it.  Those hand-overs are steps of    *)
(* their own (Switch, SchedPick and the resumed process's first step).     *)
(***************************************************************************)
EXTENDS Naturals, FiniteSets

CONSTANTS
  NPROC,      \* entries of ptable.proc
  CPU,        \* the processors, each one running scheduler()
  Pgdir,      \* page directories that setupkvm can hand out
  MaxPid,     \* bound: pids handed out by nextpid++ in a behaviour
  KillPid,    \* the pids that programs pass to kill()
  Threads,    \* do programs call clone()?
  JoinFirst,  \* do programs join their threads before exit() and exec()?
  NoCpu,      \* owner of a free lock
  NoPgdir     \* the null page directory

ASSUME ProcAssumption ==
  /\ NPROC \in Nat \ {0}
  /\ MaxPid \in Nat \ {0}
  /\ KillPid \subseteq Nat
  /\ Threads \in BOOLEAN
  /\ JoinFirst \in BOOLEAN
  /\ NoCpu \notin CPU
  /\ NoPgdir \notin Pgdir
  /\ Pgdir # {}

Slot == 1 .. NPROC      \* a struct proc *, as its index in ptable.proc
initproc == 1           \* userinit() takes the first entry of an empty table
Ticks == NPROC + 1      \* the sleep channel &ticks; 0 is the null channel

VARIABLES
  ptlock,     \* the CPU that holds ptable.lock, or NoCpu
  running,    \* running[c]: the slot whose kernel stack c is on; 0: scheduler()
  scan,       \* scan[c]: how far the for loop of scheduler() on c has got
  nextpid,
  state,      \* state, pid, parent, pgdir, killed, chan: the fields of
  pid,        \*   struct proc
  parent,
  pgdir,
  killed,
  chan,
  kstack,     \* kstack[s]: does s own a kernel stack?
  live,       \* the page directories that are allocated
  pc,         \* pc[s]: where the kernel thread of s is
  call,       \* call[s]: which of fork and clone it is in
  np,         \* np[s]: the entry that allocproc() gave it
  tick        \* tick[s]: progress of the timer trap that interrupted s

lockVars  == <<ptlock, running, scan>>
tableVars == <<nextpid, state, pid, parent, pgdir, killed, chan, kstack, live>>
localVars == <<pc, call, np, tick>>
vars == <<ptlock, running, scan, nextpid, state, pid, parent, pgdir, killed,
          chan, kstack, live, pc, call, np, tick>>

ProcState == {"UNUSED", "EMBRYO", "SLEEPING", "RUNNABLE", "RUNNING", "ZOMBIE"}
Place == {"user",                                 \* user code, or between calls
          "alloc", "stack", "build", "publish",   \* fork() and clone()
          "wait", "join", "kill", "sleep", "doze", "exit",
          "dead",                                 \* past exit()'s sched()
          "forkret"}                              \* never run yet

TypeOK ==
  /\ ptlock \in CPU \cup {NoCpu}
  /\ running \in [CPU -> Slot \cup {0}]
  /\ scan \in [CPU -> Slot \cup {0}]
  /\ nextpid \in Nat
  /\ state \in [Slot -> ProcState]
  /\ pid \in [Slot -> Nat]
  /\ parent \in [Slot -> Slot \cup {0}]
  /\ pgdir \in [Slot -> Pgdir \cup {NoPgdir}]
  /\ killed \in [Slot -> BOOLEAN]
  /\ chan \in [Slot -> Slot \cup {0, Ticks}]
  /\ kstack \in [Slot -> BOOLEAN]
  /\ live \subseteq Pgdir
  /\ pc \in [Slot -> Place]
  /\ call \in [Slot -> {"none", "fork", "clone"}]
  /\ np \in [Slot -> Slot \cup {0}]
  /\ tick \in [Slot -> {"none", "seen", "out"}]

-----------------------------------------------------------------------------
(* Reading the state *)

IsFirst(p, S) == p \in S /\ \A q \in S : p <= q   \* what a scan of the table finds

Having(st) == {p \in Slot : state[p] = st}
Named(k) == {p \in Slot : pid[p] = k}

\* wait() and join() divide the entries whose parent is s by address space.
ChildrenOf(s) == {p \in Slot : parent[p] = s /\ pgdir[p] # pgdir[s]}
\* (Faulty: threads are not told from children.)
ThreadsOrChildrenOf(s) == {p \in Slot : parent[p] = s}
ThreadsOf(s) == {p \in Slot : parent[p] = s /\ pgdir[p] = pgdir[s]}

\* c runs the kernel or user code of a process, outside a critical section of
\* its own and outside the tail of a timer trap.
Executing(c) == /\ running[c] # 0
                /\ ptlock # c
                /\ tick[running[c]] = "none"

\* c has just been switched to its process, which still holds ptable.lock.
Resumed(c) == /\ ptlock = c
              /\ running[c] # 0
              /\ state[running[c]] = "RUNNING"

\* c's process has left RUNNING and called sched(), still on its own stack.
Leaving(c) == /\ ptlock = c
              /\ running[c] # 0
              /\ state[running[c]] # "RUNNING"

At(c, place) == running[c] # 0 /\ pc[running[c]] = place

MayAcquire(c, place) == Executing(c) /\ At(c, place) /\ ptlock = NoCpu

\* The loops of wait() and join() go round with the lock just acquired, or
\* with the lock that sleep() came back with.
MayScan(c, place) == /\ At(c, place)
                     /\ tick[running[c]] = "none"
                     /\ ptlock = NoCpu \/ Resumed(c)

Goto(s, place) == pc' = [pc EXCEPT ![s] = place]

\* tickslock is held from sys_sleep()'s test until sleep() has ptable.lock.
TicksLockHeld == \E c \in CPU : At(c, "doze") /\ ptlock # c
-----------------------------------------------------------------------------
(* Entering a system call, and trap()'s exits *)

\* trap() runs syscall() for a process that is not killed.  init (user/init.c)
\* only opens its console, forks, waits and execs.
MayCall(c) == /\ Executing(c)
              /\ At(c, "user")
              /\ ~killed[running[c]]
MayCallNotInit(c) == MayCall(c) /\ running[c] # initproc

\* The bound on pids counts the callers that are about to take one.
PidsLeft == nextpid + Cardinality({s \in Slot : pc[s] = "alloc"}) <= MaxPid

EnterFork(c) ==
  /\ MayCall(c)
  /\ PidsLeft
  /\ Goto(running[c], "alloc")
  /\ call' = [call EXCEPT ![running[c]] = "fork"]
  /\ UNCHANGED <<lockVars, tableVars, np, tick>>

EnterClone(c) ==
  /\ MayCallNotInit(c)
  /\ Threads
  /\ PidsLeft
  /\ Goto(running[c], "alloc")
  /\ call' = [call EXCEPT ![running[c]] = "clone"]
  /\ UNCHANGED <<lockVars, tableVars, np, tick>>

EnterWait(c) ==
  /\ MayCall(c)
  /\ Goto(running[c], "wait")
  /\ UNCHANGED <<lockVars, tableVars, call, np, tick>>

EnterJoin(c) ==
  /\ MayCallNotInit(c)
  /\ Threads
  /\ Goto(running[c], "join")
  /\ UNCHANGED <<lockVars, tableVars, call, np, tick>>

EnterSleep(c) ==
  /\ MayCallNotInit(c)
  /\ Goto(running[c], "sleep")
  /\ UNCHANGED <<lockVars, tableVars, call, np, tick>>

EnterKill(c) ==
  /\ MayCallNotInit(c)
  /\ KillPid # {}
  /\ Goto(running[c], "kill")
  /\ UNCHANGED <<lockVars, tableVars, call, np, tick>>

\* The program has joined all the threads that s created.
Joined(s) == \A p \in Slot : parent[p] = s => pgdir[p] # pgdir[s]

\* exit() by the program's own choice, or because trap() found proc->killed
\* on the way into the kernel, out of it, or at an interrupt of user code.
EnterExit(c) ==
  LET s == running[c] IN
  /\ Executing(c)
  /\ At(c, "user")
  /\ s # initproc
  /\ killed[s] \/ (JoinFirst => Joined(s))
  /\ Goto(s, "exit")
  /\ UNCHANGED <<lockVars, tableVars, call, np, tick>>

-----------------------------------------------------------------------------
(* allocproc(), fork() and clone() *)

Allocate(n) ==
  /\ state' = [state EXCEPT ![n] = "EMBRYO"]
  /\ pid' = [pid EXCEPT ![n] = nextpid]
  /\ nextpid' = nextpid + 1

AllocProc(c) ==
  LET s == running[c] IN
  /\ MayAcquire(c, "alloc")
  /\ \/ \E n \in Slot :
          /\ IsFirst(n, Having("UNUSED"))
          /\ Allocate(n)
          /\ np' = [np EXCEPT ![s] = n]
          /\ Goto(s, "stack")
          /\ UNCHANGED call
     \/ /\ Having("UNUSED") = {}
        /\ Goto(s, "user")
        /\ call' = [call EXCEPT ![s] = "none"]
        /\ UNCHANGED <<nextpid, state, pid, np>>
  /\ ptlock' = NoCpu
  /\ UNCHANGED <<running, scan, parent, pgdir, killed, chan, kstack, live,
                 tick>>

\* The caller is back in user code, its entry np[s] published or given up.
ForkReturns(s) ==
  /\ Goto(s, "user")
  /\ call' = [call EXCEPT ![s] = "none"]
  /\ np' = [np EXCEPT ![s] = 0]

\* An entry is given up by writing its state, without ptable.lock.
GiveUp(n) == state' = [state EXCEPT ![n] = "UNUSED"]

\* kalloc() of the kernel stack, whose context will start at forkret.
AllocStack(c) ==
  LET s == running[c]  n == np[s] IN
  /\ Executing(c)
  /\ At(c, "stack")
  /\ kstack' = [kstack EXCEPT ![n] = TRUE]
  /\ pc' = [pc EXCEPT ![s] = "build", ![n] = "forkret"]
  /\ UNCHANGED <<lockVars, nextpid, state, pid, parent, pgdir, killed, chan,
                 live, call, np, tick>>

AllocStackFails(c) ==
  LET s == running[c]  n == np[s] IN
  /\ Executing(c)
  /\ At(c, "stack")
  /\ GiveUp(n)
  /\ ForkReturns(s)
  /\ UNCHANGED <<lockVars, nextpid, pid, parent, pgdir, killed, chan, kstack,
                 live, tick>>

\* copyuvm() for fork(), the caller's own directory for clone(); then parent
\* and the rest of the entry.
Build(c) ==
  LET s == running[c]  n == np[s] IN
  /\ Executing(c)
  /\ At(c, "build")
  /\ \/ /\ call[s] = "fork"
        /\ \E d \in Pgdir \ live : /\ pgdir' = [pgdir EXCEPT ![n] = d]
                                   /\ live' = live \cup {d}
     \/ /\ call[s] = "clone"
        /\ pgdir' = [pgdir EXCEPT ![n] = pgdir[s]]
        /\ UNCHANGED live
  /\ parent' = [parent EXCEPT ![n] = s]
  /\ Goto(s, "publish")
  /\ UNCHANGED <<lockVars, nextpid, state, pid, killed, chan, kstack, call,
                 np, tick>>

CopyFails(c) ==
  LET s == running[c]  n == np[s] IN
  /\ Executing(c)
  /\ At(c, "build")
  /\ call[s] = "fork"
  /\ kstack' = [kstack EXCEPT ![n] = FALSE]
  /\ GiveUp(n)
  /\ pgdir' = [pgdir EXCEPT ![n] = NoPgdir]
  /\ ForkReturns(s)
  /\ UNCHANGED <<lockVars, nextpid, pid, parent, killed, chan, live, tick>>

\* np->state = RUNNABLE, without ptable.lock.
Publish(c) ==
  LET s == running[c] IN
  /\ Executing(c)
  /\ At(c, "publish")
  /\ state' = [state EXCEPT ![np[s]] = "RUNNABLE"]
  /\ ForkReturns(s)
  /\ UNCHANGED <<lockVars, nextpid, pid, parent, pgdir, killed, chan, kstack,
                 live, tick>>

\* exec() commits: a new directory is installed and the old one freed.
Exec(c) ==
  LET s == running[c] IN
  /\ MayCall(c)
  /\ JoinFirst => \A p \in Slot \ {s} :
                    state[p] \in {"UNUSED", "EMBRYO"} \/ pgdir[p] # pgdir[s]
  /\ \E d \in Pgdir \ live :
       /\ pgdir' = [pgdir EXCEPT ![s] = d]
       /\ live' = (live \cup {d}) \ {pgdir[s]}
  /\ UNCHANGED <<lockVars, nextpid, state, pid, parent, killed, chan, kstack,
                 localVars>>
-----------------------------------------------------------------------------
(* wait() and join() *)

\* The states after wakeup1() of every channel in chans.
Wakeup1(chans) ==
  [p \in Slot |-> IF state[p] = "SLEEPING" /\ chan[p] \in chans
                  THEN "RUNNABLE" ELSE state[p]]

\* kfree of the stack and the reset of the entry; pgdir and chan keep their
\* old values.
Reap(p) ==
  /\ state' = [state EXCEPT ![p] = "UNUSED"]
  /\ pid' = [pid EXCEPT ![p] = 0]
  /\ parent' = [parent EXCEPT ![p] = 0]
  /\ killed' = [killed EXCEPT ![p] = FALSE]
  /\ kstack' = [kstack EXCEPT ![p] = FALSE]

\* (Faulty: sleep() lets the lock go before it has left the processor.)
SleepOnUnlocked(c, ch) ==
  /\ state' = [state EXCEPT ![running[c]] = "SLEEPING"]
  /\ chan' = [chan EXCEPT ![running[c]] = ch]
  /\ ptlock' = NoCpu

\* sleep(proc, &ptable.lock): the lock is kept for sched().
SleepOn(c, ch) ==
  /\ state' = [state EXCEPT ![running[c]] = "SLEEPING"]
  /\ chan' = [chan EXCEPT ![running[c]] = ch]
  /\ ptlock' = c

Awake(s) == chan' = [chan EXCEPT ![s] = 0]

\* The loop that wait() and join() share: `kids' are the entries it counts,
\* and `frees' says whether it frees the address space of the one it reaps.
Collect(c, kids, frees) ==
  LET s == running[c]
      zombies == kids \cap Having("ZOMBIE")
  IN
  \/ \E p \in Slot :
       /\ IsFirst(p, zombies)
       /\ Reap(p)
       /\ live' = IF frees THEN live \ {pgdir[p]} ELSE live
       /\ Awake(s)
       /\ ptlock' = NoCpu
       /\ Goto(s, "user")
  \/ /\ zombies = {}
     /\ kids = {} \/ killed[s]
     /\ Awake(s)
     /\ ptlock' = NoCpu
     /\ Goto(s, "user")
     /\ UNCHANGED <<state, pid, parent, killed, kstack, live>>
  \/ /\ zombies = {}
     /\ kids # {}
     /\ ~killed[s]
     /\ SleepOn(c, s)
     /\ UNCHANGED <<pid, parent, killed, kstack, live, pc>>

Wait(c) ==
  /\ MayScan(c, "wait")
  /\ Collect(c, ChildrenOf(running[c]), TRUE)
  /\ UNCHANGED <<running, scan, nextpid, pgdir, call, np, tick>>

\* (Faulty: join() frees the address space it shares.)
JoinFreesMemory(c) ==
  /\ MayScan(c, "join")
  /\ Collect(c, ThreadsOf(running[c]), TRUE)
  /\ UNCHANGED <<running, scan, nextpid, pgdir, call, np, tick>>

Join(c) ==
  /\ MayScan(c, "join")
  /\ Collect(c, ThreadsOf(running[c]), FALSE)
  /\ UNCHANGED <<running, scan, nextpid, pgdir, call, np, tick>>

-----------------------------------------------------------------------------
(* exit() and kill() *)

\* (Faulty: exit() forgets wakeup1(proc->parent).)
AfterExitSilent(s) ==
  [p \in Slot |-> IF p = s \/ p \in ThreadsOf(s) THEN "ZOMBIE" ELSE state[p]]

\* The states that exit() of s leaves: its parent woken, init too when it
\* inherits a zombie, its threads and itself made zombies.
AfterExit(s) ==
  LET inherits == ChildrenOf(s) \cap Having("ZOMBIE") # {}
      woken == Wakeup1({parent[s]} \cup IF inherits THEN {initproc} ELSE {})
  IN [p \in Slot |-> IF p = s \/ p \in ThreadsOf(s) THEN "ZOMBIE" ELSE woken[p]]

\* Abandoned children pass to init; threads keep their parent.
\* (Faulty: only those still alive do.)
ReparentAlive(s) ==
  [p \in Slot |-> IF p \in ChildrenOf(s) /\ state[p] # "ZOMBIE" THEN initproc
                  ELSE parent[p]]
Reparent(s) ==
  [p \in Slot |-> IF p \in ChildrenOf(s) THEN initproc ELSE parent[p]]

ExitLocked(c) ==
  LET s == running[c] IN
  /\ MayAcquire(c, "exit")
  /\ ptlock' = c
  /\ state' = AfterExit(s)
  /\ parent' = Reparent(s)
  /\ Goto(s, "dead")
  /\ UNCHANGED <<running, scan, nextpid, pid, pgdir, killed, chan, kstack,
                 live, call, np, tick>>

\* (Faulty: the target is not woken.)
WakeNever(p) == state' = [state EXCEPT ![p] = @]
WakeKilled(p) ==
  state' = [state EXCEPT ![p] = IF @ = "SLEEPING" THEN "RUNNABLE" ELSE @]

\* kill(k) marks the first entry with that pid, whatever its state.
Kill(c) ==
  LET s == running[c] IN
  /\ MayAcquire(c, "kill")
  /\ \E k \in KillPid :
       \/ \E p \in Slot :
            /\ IsFirst(p, Named(k))
            /\ killed' = [killed EXCEPT ![p] = TRUE]
            /\ WakeKilled(p)
       \/ /\ Named(k) = {}
          /\ UNCHANGED <<killed, state>>
  /\ Goto(s, "user")
  /\ UNCHANGED <<lockVars, nextpid, pid, parent, pgdir, chan, kstack, live,
                 call, np, tick>>
-----------------------------------------------------------------------------
(* sys_sleep() and the clock *)

\* Enough ticks have passed, or the sleeper has been killed.
SleepReturns(c) ==
  /\ Executing(c)
  /\ At(c, "sleep")
  /\ ~TicksLockHeld
  /\ Goto(running[c], "user")
  /\ UNCHANGED <<lockVars, tableVars, call, np, tick>>

\* The loop's test, under tickslock: not yet, and not killed.
SleepTest(c) ==
  /\ Executing(c)
  /\ At(c, "sleep")
  /\ ~TicksLockHeld
  /\ ~killed[running[c]]
  /\ Goto(running[c], "doze")
  /\ UNCHANGED <<lockVars, tableVars, call, np, tick>>

\* sleep(&ticks, &tickslock): ptable.lock is taken before tickslock is let go.
Doze(c) ==
  /\ MayAcquire(c, "doze")
  /\ SleepOn(c, Ticks)
  /\ UNCHANGED <<running, scan, nextpid, pid, parent, pgdir, killed, kstack,
                 live, localVars>>

DozeEnds(c) ==
  LET s == running[c] IN
  /\ Resumed(c)
  /\ At(c, "doze")
  /\ Awake(s)
  /\ ptlock' = NoCpu
  /\ Goto(s, "sleep")
  /\ UNCHANGED <<running, scan, nextpid, state, pid, parent, pgdir, killed,
                 kstack, live, call, np, tick>>

\* CPU 0's clock interrupt: wakeup(&ticks), with tickslock held.
Clock ==
  /\ ptlock = NoCpu
  /\ ~TicksLockHeld
  /\ state' = Wakeup1({Ticks})
  /\ UNCHANGED <<lockVars, nextpid, pid, parent, pgdir, killed, chan, kstack,
                 live, localVars>>

-----------------------------------------------------------------------------
(* The scheduler and yield() *)

\* The timer interrupt reads proc->state without a lock, wherever interrupts
\* are on; with tickslock held they are off.
TimerTrap(c) ==
  LET s == running[c] IN
  /\ Executing(c)
  /\ pc[s] # "doze"
  /\ state[s] = "RUNNING"
  /\ tick' = [tick EXCEPT ![s] = "seen"]
  /\ UNCHANGED <<lockVars, tableVars, pc, call, np>>

\* (Faulty: the lock is released before sched().)
YieldUnlocked(c) ==
  LET s == running[c] IN
  /\ s # 0
  /\ tick[s] = "seen"
  /\ ptlock = NoCpu
  /\ state' = [state EXCEPT ![s] = "RUNNABLE"]
  /\ tick' = [tick EXCEPT ![s] = "out"]
  /\ UNCHANGED <<lockVars, nextpid, pid, parent, pgdir, killed, chan, kstack,
                 live, pc, call, np>>

Yield(c) ==
  LET s == running[c] IN
  /\ s # 0
  /\ tick[s] = "seen"
  /\ ptlock = NoCpu
  /\ ptlock' = c
  /\ state' = [state EXCEPT ![s] = "RUNNABLE"]
  /\ tick' = [tick EXCEPT ![s] = "out"]
  /\ UNCHANGED <<running, scan, nextpid, pid, parent, pgdir, killed, chan,
                 kstack, live, pc, call, np>>

\* sched(): swtch to this CPU's scheduler, which finds the lock held.
Switch(c) ==
  /\ Leaving(c)
  /\ running' = [running EXCEPT ![c] = 0]
  /\ UNCHANGED <<ptlock, scan, tableVars, localVars>>

SchedAcquire(c) ==
  /\ ptlock = NoCpu
  /\ running[c] = 0
  /\ ptlock' = c
  /\ UNCHANGED <<running, scan, tableVars, localVars>>

\* (Faulty: every pick starts from the beginning of the table.)
AheadOfStart(c) == Having("RUNNABLE")
Ahead(c) == {p \in Having("RUNNABLE") : p > scan[c]}

SchedPick(c) ==
  /\ ptlock = c
  /\ running[c] = 0
  /\ \E p \in Slot :
       /\ IsFirst(p, Ahead(c))
       /\ running' = [running EXCEPT ![c] = p]
       /\ scan' = [scan EXCEPT ![c] = p]
       /\ state' = [state EXCEPT ![p] = "RUNNING"]
  /\ UNCHANGED <<ptlock, nextpid, pid, parent, pgdir, killed, chan, kstack,
                 live, localVars>>

\* (Faulty: the scan is left where it ended.)
SchedReleaseAtEnd(c) ==
  /\ ptlock = c
  /\ running[c] = 0
  /\ Ahead(c) = {}
  /\ ptlock' = NoCpu
  /\ scan' = [scan EXCEPT ![c] = NPROC + 1]
  /\ UNCHANGED <<running, tableVars, localVars>>

\* The scan is over: the lock is released and the next scan starts afresh.
SchedRelease(c) ==
  /\ ptlock = c
  /\ running[c] = 0
  /\ Ahead(c) = {}
  /\ ptlock' = NoCpu
  /\ scan' = [scan EXCEPT ![c] = 0]
  /\ UNCHANGED <<running, tableVars, localVars>>

\* The process just picked gives the lock up: in forkret() the first time, in
\* yield() if the timer had taken the CPU away from it.
ForkRet(c) ==
  /\ Resumed(c)
  /\ At(c, "forkret")
  /\ ptlock' = NoCpu
  /\ Goto(running[c], "user")
  /\ UNCHANGED <<running, scan, tableVars, call, np, tick>>

YieldReturns(c) ==
  LET s == running[c] IN
  /\ Resumed(c)
  /\ tick[s] = "out"
  /\ ptlock' = NoCpu
  /\ tick' = [tick EXCEPT ![s] = "none"]
  /\ UNCHANGED <<running, scan, tableVars, pc, call, np>>

-----------------------------------------------------------------------------
(* The system *)

\* userinit(), and every processor about to enter scheduler().
Init ==
  /\ ptlock = NoCpu
  /\ running = [c \in CPU |-> 0]
  /\ scan = [c \in CPU |-> 0]
  /\ nextpid = 2
  /\ state = [s \in Slot |-> IF s = initproc THEN "RUNNABLE" ELSE "UNUSED"]
  /\ pid = [s \in Slot |-> IF s = initproc THEN 1 ELSE 0]
  /\ parent = [s \in Slot |-> 0]
  /\ \E d \in Pgdir :
       /\ pgdir = [s \in Slot |-> IF s = initproc THEN d ELSE NoPgdir]
       /\ live = {d}
  /\ killed = [s \in Slot |-> FALSE]
  /\ chan = [s \in Slot |-> 0]
  /\ kstack = [s \in Slot |-> s = initproc]
  /\ pc = [s \in Slot |-> IF s = initproc THEN "forkret" ELSE "user"]
  /\ call = [s \in Slot |-> "none"]
  /\ np = [s \in Slot |-> 0]
  /\ tick = [s \in Slot |-> "none"]

ProgramStep(c) ==
  \/ EnterFork(c) \/ EnterClone(c) \/ EnterWait(c) \/ EnterJoin(c)
  \/ EnterSleep(c) \/ EnterKill(c) \/ EnterExit(c) \/ Exec(c)

KernelStep(c) ==
  \/ AllocProc(c) \/ AllocStack(c) \/ AllocStackFails(c)
  \/ Build(c) \/ CopyFails(c) \/ Publish(c)
  \/ Wait(c) \/ Join(c) \/ ExitLocked(c) \/ Kill(c)
  \/ SleepReturns(c) \/ SleepTest(c) \/ Doze(c) \/ DozeEnds(c)

ScheduleStep(c) ==
  \/ Yield(c) \/ Switch(c) \/ SchedAcquire(c) \/ SchedPick(c)
  \/ SchedRelease(c) \/ ForkRet(c) \/ YieldReturns(c)

Next ==
  \/ Clock
  \/ \E c \in CPU : \/ ProgramStep(c)
                    \/ KernelStep(c)
                    \/ TimerTrap(c)
                    \/ ScheduleStep(c)

Spec == Init /\ [][Next]_vars

\* What drives the system: the clock keeps interrupting (a pending interrupt
\* is taken as soon as interrupts are on again, hence SF), the scheduler and a
\* process inside the kernel keep going, a killed process reaches a trap, and
\* init's loop calls wait() again.  Nothing makes another program do anything.
Fairness ==
  /\ SF_vars(Clock)
  /\ \A c \in CPU : SF_vars(TimerTrap(c)) /\ WF_vars(ScheduleStep(c))
  /\ \A s \in Slot :
       /\ SF_vars(\E c \in CPU : running[c] = s /\ KernelStep(c))
       /\ SF_vars(\E c \in CPU : running[c] = s /\ killed[s] /\ EnterExit(c))
  /\ SF_vars(\E c \in CPU : running[c] = initproc /\ EnterWait(c))

FairSpec == Spec /\ Fairness
-----------------------------------------------------------------------------
(* Properties *)

Alive(s) == state[s] \in {"SLEEPING", "RUNNABLE", "RUNNING"}
Active(s) == Alive(s) \/ state[s] = "ZOMBIE"

\* No two processors run on one kernel stack: the scheduler of one never picks
\* an entry before the other has left its stack (ptable.lock held over swtch).
OneCpuPerProc ==
  \A c, d \in CPU : c # d /\ running[c] # 0 => running[c] # running[d]

\* While nobody is inside a hand-over, RUNNING means exactly "on a processor":
\* no entry is RUNNING that nobody runs, and nothing that has been put to
\* sleep, made runnable, killed off or reaped still executes.
RunningIffOnCpu ==
  \A s \in Slot :
    /\ state[s] = "RUNNING" => \E c \in CPU : running[c] = s
    /\ \A c \in CPU : running[c] = s /\ ptlock # c => state[s] = "RUNNING"

\* The kernel stacks: a process that runs or may be picked has one, the stack
\* a CPU is on is never freed under it, and a free entry holds none.
StacksOwned ==
  /\ \A s \in Slot : (Active(s) => kstack[s]) /\ (kstack[s] => state[s] # "UNUSED")
  /\ \A c \in CPU : running[c] # 0 => kstack[running[c]]

\* The address spaces: the allocated directories are exactly those of the
\* processes in the table and of the entry a fork is about to publish; none
\* is used after freevm(), none leaks.
AddressSpacesExact ==
  live = {pgdir[s] : s \in {t \in Slot : Active(t)}}
           \cup {pgdir[np[s]] : s \in {t \in Slot : pc[t] = "publish"}}

\* Every process but init has a living parent that can still collect it: exit()
\* leaves no entry pointing at a dead or recycled slot.
ParentAlive ==
  \A s \in Slot \ {initproc} :
    Active(s) => parent[s] # 0 /\ Alive(parent[s])

\* No wakeup is lost: nobody sleeps in wait() or join() while an entry it
\* waits for is a zombie, or after having been killed.
NoLostWakeup ==
  \A s \in Slot :
    state[s] = "SLEEPING" =>
      /\ pc[s] = "wait" => ~killed[s] /\ ChildrenOf(s) \cap Having("ZOMBIE") = {}
      /\ pc[s] = "join" => ~killed[s] /\ ThreadsOf(s) \cap Having("ZOMBIE") = {}

\* Memory goes with processes: kernel stacks and page directories are allocated
\* exactly as long as an entry of the table, or a fork under way, needs them
\* (allocproc, fork, clone, wait, join, exec).
MemoryOwned == StacksOwned /\ AddressSpacesExact

\* Whoever exits is waited for: its parent is alive, and is not asleep in wait() or
\* join() with the zombie before it (exit's reparenting, wakeup1 and sleep).
ExitsNoticed == ParentAlive /\ NoLostWakeup

\* "An exited process remains in the zombie state until its parent calls
\* wait()" (proc.c:309), and exit() makes zombies of its threads to "kill all
\* the threads!" (proc.c:345): a zombie is never run, woken or yielded back to
\* life, and its entry is freed by its parent, inside wait() or join().
Collected(s) ==
  /\ state'[s] = "UNUSED"
  /\ \E c \in CPU : running[c] = parent[s] /\ pc[parent[s]] \in {"wait", "join"}
ZombieStays ==
  [][\A s \in Slot :
       state[s] = "ZOMBIE" /\ state'[s] # "ZOMBIE" => Collected(s)]_vars

\* A killed process dies: it reaches exit() whatever it was doing.
KilledDies ==
  \A s \in Slot \ {initproc} : killed[s] /\ Alive(s) ~> ~Alive(s)

\* init collects the orphans: a zombie whose parent is init does not stay.
OrphansReaped ==
  \A s \in Slot \ {initproc} :
    parent[s] = initproc /\ state[s] = "ZOMBIE" ~> state[s] = "UNUSED"

\* A process that is ready to run gets a processor again and again.
ReadyRuns ==
  \A s \in Slot : state[s] = "RUNNABLE" ~> state[s] # "RUNNABLE"

-----------------------------------------------------------------------------
(* The inductive invariant behind the theorems of ProcProofs, for programs *)
(* that do not call clone().                                               *)

\* Each processor is on a stack of its own, whose process is RUNNING unless it
\* has just called sched(), and every RUNNING process is on a processor.
CpuInv ==
  /\ \A c \in CPU :
       running[c] # 0 =>
         /\ Active(running[c])
         /\ ptlock # c => state[running[c]] = "RUNNING"
         /\ \A d \in CPU \ {c} : running[d] # running[c]
  /\ \A s \in Slot : state[s] = "RUNNING" => \E c \in CPU : running[c] = s

\* An entry under construction belongs to one caller of fork().
Forking(s) == pc[s] \in {"stack", "build", "publish"}
ForkInv ==
  \A s \in Slot :
    Forking(s) => /\ state[s] \in {"RUNNING", "RUNNABLE"}
                  /\ np[s] \in Slot
                  /\ state[np[s]] = "EMBRYO"
                  /\ \A t \in Slot \ {s} : Forking(t) => np[t] # np[s]

\* Every process has an address space of its own.
HasSpace(s) == Active(s) \/ \E t \in Slot : pc[t] = "publish" /\ np[t] = s
SpaceInv ==
  \A s \in Slot :
    /\ HasSpace(s) => /\ pgdir[s] \in live
                      /\ \A t \in Slot \ {s} : HasSpace(t) => pgdir[t] # pgdir[s]
    /\ parent[s] # 0 => HasSpace(s)
    /\ call[s] # "clone"

ProcInv == TypeOK /\ CpuInv /\ ForkInv /\ SpaceInv

\* A kernel stack comes with the entry's construction and goes with its reaping.
StackInv ==
  \A s \in Slot :
    /\ Active(s) => kstack[s]
    /\ kstack[s] => state[s] # "UNUSED"
    /\ pc[s] = "stack" => ~kstack[np[s]]
    /\ pc[s] \in {"build", "publish"} => kstack[np[s]]

\* No page directory is lost: each has an owner.
LiveInv == \A d \in live : \E s \in Slot : HasSpace(s) /\ pgdir[s] = d

\* init never exits; everyone else has a living parent from its publication on.
ParentInv ==
  /\ Alive(initproc) /\ parent[initproc] = 0
  /\ pc[initproc] \notin {"exit", "dead"}
  /\ \A s \in Slot :
       /\ parent[s] # s
       /\ s # initproc /\ Active(s) => parent[s] # 0 /\ Alive(parent[s])
       /\ pc[s] = "publish" => parent[np[s]] = s

\* Who sleeps in wait() does so on its own address, and has nothing to collect.
SleepInv ==
  \A s \in Slot :
    /\ pc[s] # "join"
    /\ state[s] = "SLEEPING" /\ pc[s] = "wait" =>
         /\ chan[s] = s
         /\ ~killed[s]
         /\ \A p \in Slot : parent[p] = s => state[p] # "ZOMBIE"

FamilyInv == StackInv /\ LiveInv /\ ParentInv /\ SleepInv
=============================================================================
