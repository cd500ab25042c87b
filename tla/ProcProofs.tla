----------------------------- MODULE ProcProofs -----------------------------
(* Theorems about the process table, for every table size, number of       *)
(* processors, set of pids and use of kill(): type correctness for all     *)
(* programs, and for those that do not call clone()                        *)
(*   - ProcInv is inductive, hence no two processors share a kernel stack, *)
(*     RUNNING means on a processor, and a zombie stays one until its      *)
(*     parent collects it;                                                 *)
(*   - FamilyInv is inductive beside it, hence kernel stacks and page      *)
(*     directories are allocated exactly as long as a process needs them,  *)
(*     and whoever exits has a living parent that does not sleep on.       *)
EXTENDS Proc, TLAPS

LEMMA InitprocIsSlot == initproc \in Slot
  BY ProcAssumption DEF initproc, Slot

LEMMA InitTypeOK == ASSUME Init PROVE TypeOK
  BY ProcAssumption DEF Init, TypeOK, Slot, initproc, ProcState, Place

\* The steps, one lemma per group of Next.
LEMMA ProgramTypeOK ==
  ASSUME TypeOK, NEW c \in CPU, ProgramStep(c)
  PROVE  TypeOK'
<1> USE DEF TypeOK, Place, ProcState
<1>1. CASE EnterFork(c)
  BY <1>1 DEF EnterFork, MayCall, Executing, Goto, lockVars, tableVars
<1>2. CASE EnterClone(c)
  BY <1>2 DEF EnterClone, MayCallNotInit, MayCall, Executing, Goto, lockVars, tableVars
<1>3. CASE EnterWait(c)
  BY <1>3 DEF EnterWait, MayCall, Executing, Goto, lockVars, tableVars
<1>4. CASE EnterJoin(c)
  BY <1>4 DEF EnterJoin, MayCallNotInit, MayCall, Executing, Goto, lockVars, tableVars
<1>5. CASE EnterSleep(c)
  BY <1>5 DEF EnterSleep, MayCallNotInit, MayCall, Executing, Goto, lockVars, tableVars
<1>6. CASE EnterKill(c)
  BY <1>6 DEF EnterKill, MayCallNotInit, MayCall, Executing, Goto, lockVars, tableVars
<1>7. CASE EnterExit(c)
  BY <1>7 DEF EnterExit, Executing, Goto, lockVars, tableVars
<1>8. CASE Exec(c)
  BY <1>8 DEF Exec, MayCall, Executing, lockVars, localVars
<1> QED
  BY <1>1, <1>2, <1>3, <1>4, <1>5, <1>6, <1>7, <1>8 DEF ProgramStep

\* The loop of wait() and join() preserves the types of what it changes.
LEMMA CollectTypeOK ==
  ASSUME TypeOK, NEW c \in CPU, running[c] \in Slot,
         NEW kids \in SUBSET Slot, NEW frees \in BOOLEAN,
         Collect(c, kids, frees),
         UNCHANGED <<running, scan, nextpid, pgdir, call, np, tick>>
  PROVE  TypeOK'
<1> DEFINE s == running[c]
           zombies == kids \cap Having("ZOMBIE")
<1> USE DEF TypeOK, Place, ProcState, Goto
<1>1. ASSUME NEW p \in Slot, IsFirst(p, zombies), Reap(p),
             live' = IF frees THEN live \ {pgdir[p]} ELSE live,
             Awake(s), ptlock' = NoCpu, Goto(s, "user")
      PROVE  TypeOK'
  BY <1>1 DEF Reap, Awake
<1>2. ASSUME Awake(s), ptlock' = NoCpu, Goto(s, "user"),
             UNCHANGED <<state, pid, parent, killed, kstack, live>>
      PROVE  TypeOK'
  BY <1>2 DEF Awake
<1>3. ASSUME SleepOn(c, s), UNCHANGED <<pid, parent, killed, kstack, live, pc>>
      PROVE  TypeOK'
  BY <1>3 DEF SleepOn
<1> QED
  BY <1>1, <1>2, <1>3 DEF Collect

LEMMA KernelTypeOK ==
  ASSUME TypeOK, NEW c \in CPU, KernelStep(c)
  PROVE  TypeOK'
<1> USE DEF TypeOK, Place, ProcState, Goto, lockVars
<1>1. CASE AllocProc(c)
  BY <1>1 DEF AllocProc, MayAcquire, IsFirst, Having, Allocate
<1>2. CASE AllocStack(c)
  BY <1>2 DEF AllocStack
<1>3. CASE AllocStackFails(c)
  BY <1>3 DEF AllocStackFails, GiveUp, ForkReturns
<1>4. CASE Build(c)
  <2>1. running[c] \in Slot
    BY <1>4 DEF Build, Executing
  <2>2. pgdir' \in [Slot -> Pgdir \cup {NoPgdir}] /\ live' \subseteq Pgdir
    BY <1>4, <2>1 DEF Build
  <2>3. parent' \in [Slot -> Slot \cup {0}]
    BY <1>4, <2>1 DEF Build
  <2> QED
    BY <1>4, <2>2, <2>3 DEF Build
<1>5. CASE CopyFails(c)
  BY <1>5 DEF CopyFails, GiveUp, ForkReturns
<1>6. CASE Publish(c)
  BY <1>6 DEF Publish, ForkReturns
<1>7. CASE Wait(c)
  <2>1. running[c] \in Slot
    BY <1>7 DEF Wait, MayScan, At
  <2>2. ChildrenOf(running[c]) \in SUBSET Slot
    BY DEF ChildrenOf
  <2>3. /\ Collect(c, ChildrenOf(running[c]), TRUE)
        /\ UNCHANGED <<running, scan, nextpid, pgdir, call, np, tick>>
    BY <1>7 DEF Wait
  <2> HIDE DEF TypeOK, Place, ProcState, Goto, lockVars
  <2> QED
    BY <2>1, <2>2, <2>3, CollectTypeOK
<1>8. CASE Join(c)
  <2>1. running[c] \in Slot
    BY <1>8 DEF Join, MayScan, At
  <2>2. ThreadsOf(running[c]) \in SUBSET Slot
    BY DEF ThreadsOf
  <2>3. /\ Collect(c, ThreadsOf(running[c]), FALSE)
        /\ UNCHANGED <<running, scan, nextpid, pgdir, call, np, tick>>
    BY <1>8 DEF Join
  <2> HIDE DEF TypeOK, Place, ProcState, Goto, lockVars
  <2> QED
    BY <2>1, <2>2, <2>3, CollectTypeOK
<1>9. CASE ExitLocked(c)
  <2>1. state' \in [Slot -> ProcState]
    BY <1>9 DEF ExitLocked, AfterExit, Wakeup1
  <2>2. parent' \in [Slot -> Slot \cup {0}]
    BY <1>9, InitprocIsSlot DEF ExitLocked, Reparent
  <2> QED
    BY <1>9, <2>1, <2>2 DEF ExitLocked
<1>10. CASE Kill(c)
  <2>1. \/ \E p \in Slot : killed' = [killed EXCEPT ![p] = TRUE] /\ WakeKilled(p)
        \/ UNCHANGED <<killed, state>>
    BY <1>10 DEF Kill
  <2>2. state' \in [Slot -> ProcState]
    BY <2>1 DEF WakeKilled
  <2>3. killed' \in [Slot -> BOOLEAN]
    BY <2>1
  <2> QED
    BY <1>10, <2>2, <2>3 DEF Kill
<1>11. CASE SleepReturns(c)
  BY <1>11 DEF SleepReturns, tableVars
<1>12. CASE SleepTest(c)
  BY <1>12 DEF SleepTest, tableVars
<1>13. CASE Doze(c)
  BY <1>13 DEF Doze, SleepOn, localVars
<1>14. CASE DozeEnds(c)
  BY <1>14 DEF DozeEnds, Awake
<1> QED
  BY <1>1, <1>2, <1>3, <1>4, <1>5, <1>6, <1>7, <1>8, <1>9, <1>10, <1>11,
     <1>12, <1>13, <1>14 DEF KernelStep

LEMMA ScheduleTypeOK ==
  ASSUME TypeOK, NEW c \in CPU, ScheduleStep(c) \/ TimerTrap(c)
  PROVE  TypeOK'
<1> USE DEF TypeOK, lockVars, tableVars, localVars
<1>1. CASE Yield(c)
  BY <1>1 DEF Yield, ProcState
<1>2. CASE Switch(c)
  BY <1>2 DEF Switch
<1>3. CASE SchedAcquire(c)
  BY <1>3 DEF SchedAcquire
<1>4. CASE SchedPick(c)
  BY <1>4 DEF SchedPick, ProcState
<1>5. CASE SchedRelease(c)
  BY <1>5 DEF SchedRelease
<1>6. CASE ForkRet(c)
  BY <1>6 DEF ForkRet, Goto, Place
<1>7. CASE YieldReturns(c)
  BY <1>7 DEF YieldReturns
<1>8. CASE TimerTrap(c)
  BY <1>8 DEF TimerTrap
<1> QED
  BY <1>1, <1>2, <1>3, <1>4, <1>5, <1>6, <1>7, <1>8 DEF ScheduleStep

LEMMA NextTypeOK == ASSUME TypeOK, [Next]_vars PROVE TypeOK'
<1>1. CASE Clock
  BY <1>1 DEF Clock, Wakeup1, TypeOK, ProcState, lockVars, localVars
<1>2. ASSUME NEW c \in CPU, ProgramStep(c) PROVE TypeOK'
  BY <1>2, ProgramTypeOK
<1>3. ASSUME NEW c \in CPU, KernelStep(c) PROVE TypeOK'
  BY <1>3, KernelTypeOK
<1>4. ASSUME NEW c \in CPU, ScheduleStep(c) \/ TimerTrap(c) PROVE TypeOK'
  BY <1>4, ScheduleTypeOK
<1>5. CASE UNCHANGED vars
  BY <1>5 DEF TypeOK, vars
<1> QED
  BY <1>1, <1>2, <1>3, <1>4, <1>5 DEF Next

\* The kernel's tables keep their shape: every field of every entry, and what
\* each processor holds, stays in its range (struct proc, ptable, struct cpu).
THEOREM TypeCorrect == Spec => []TypeOK
<1>1. Init => TypeOK
  BY InitTypeOK
<1>2. TypeOK /\ [Next]_vars => TypeOK'
  BY NextTypeOK
<1> QED
  BY <1>1, <1>2, PTL DEF Spec

-----------------------------------------------------------------------------
(* ProcInv.  Each part speaks of few variables: CpuInv of the processors,  *)
(* the lock and the states, ForkInv of the entries under construction,     *)
(* SpaceInv of who owns a page directory.  A step is taken part by part.   *)

InvParts == CpuInv /\ ForkInv /\ SpaceInv

LEMMA InitInv == ASSUME Init PROVE InvParts
<1> USE InitprocIsSlot DEF Init
<1>1. CpuInv
  BY DEF CpuInv
<1>2. ForkInv
  BY DEF ForkInv, Forking
<1>3. SpaceInv
  BY DEF SpaceInv, HasSpace, Active, Alive
<1> QED
  BY <1>1, <1>2, <1>3 DEF InvParts

-----------------------------------------------------------------------------
(* Steps that leave the processors, the states and the spaces alone *)

\* A process moves between places that are outside fork()'s construction.
LEMMA MoveInv ==
  ASSUME ProcInv, NEW s \in Slot, NEW place \in Place, ~Forking(s),
         place \notin {"stack", "build", "publish"}, Goto(s, place),
         call' \in [Slot -> {"none", "fork"}],
         UNCHANGED <<state, parent, pgdir, live, np>>
  PROVE  ForkInv' /\ SpaceInv'
<1>1. \A t \in Slot : Forking(t)' <=> Forking(t)
  BY DEF ProcInv, TypeOK, Forking, Goto
<1>2. \A t \in Slot : pc'[t] = "publish" <=> pc[t] = "publish"
  BY DEF ProcInv, TypeOK, Forking, Goto
<1>3. ForkInv'
  BY <1>1 DEF ProcInv, ForkInv
<1>4. \A t \in Slot : HasSpace(t)' <=> HasSpace(t)
  BY <1>2 DEF HasSpace, Active, Alive
<1>5. SpaceInv'
  BY <1>4 DEF ProcInv, SpaceInv
<1> QED
  BY <1>3, <1>5

\* The processors' part rests on the lock, the processors and the states.
LEMMA CpuFrame ==
  ASSUME ProcInv, UNCHANGED <<ptlock, running, state>>
  PROVE  CpuInv'
  BY DEF ProcInv, CpuInv, Active, Alive

LEMMA NoClone == ASSUME ProcInv PROVE call \in [Slot -> {"none", "fork"}]
  BY DEF ProcInv, TypeOK, SpaceInv

LEMMA EnterInv ==
  ASSUME ProcInv, Threads = FALSE, NEW c \in CPU,
         \/ EnterFork(c) \/ EnterClone(c) \/ EnterWait(c) \/ EnterJoin(c)
         \/ EnterSleep(c) \/ EnterKill(c) \/ EnterExit(c)
         \/ SleepReturns(c) \/ SleepTest(c)
  PROVE  InvParts'
<1> DEFINE s == running[c]
<1> USE DEF MayCallNotInit, MayCall, Executing, At, lockVars, tableVars
<1>1. s \in Slot /\ ~Forking(s)
  BY DEF ProcInv, TypeOK, Forking, EnterFork, EnterClone, EnterWait, EnterJoin,
         EnterSleep, EnterKill, EnterExit, SleepReturns, SleepTest
<1>2. /\ UNCHANGED <<ptlock, running, state>>
      /\ UNCHANGED <<state, parent, pgdir, live, np>>
  BY DEF EnterFork, EnterClone, EnterWait, EnterJoin, EnterSleep, EnterKill,
         EnterExit, SleepReturns, SleepTest
<1>3. \E place \in Place \ {"stack", "build", "publish"} : Goto(s, place)
  BY DEF Place, EnterFork, EnterClone, EnterWait, EnterJoin, EnterSleep,
         EnterKill, EnterExit, SleepReturns, SleepTest
<1>4. call' \in [Slot -> {"none", "fork"}]
  BY NoClone DEF EnterFork, EnterClone, EnterWait, EnterJoin, EnterSleep,
         EnterKill, EnterExit, SleepReturns, SleepTest
<1>5. ForkInv' /\ SpaceInv'
  BY <1>1, <1>2, <1>3, <1>4, MoveInv
<1> QED
  BY <1>2, <1>5, CpuFrame DEF InvParts

-----------------------------------------------------------------------------
(* fork(): from allocproc() to the new entry's publication *)

\* Who is in the middle of fork() has an EMBRYO entry apart from every process.
LEMMA ForkerFacts ==
  ASSUME ProcInv, NEW c \in CPU, Executing(c), Forking(running[c])
  PROVE  LET s == running[c]  n == np[s] IN
         /\ s \in Slot /\ n \in Slot /\ n # s
         /\ state[n] = "EMBRYO" /\ state[s] = "RUNNING"
         /\ ~Forking(n)
         /\ \A t \in Slot \ {s} : Forking(t) => np[t] # n
         /\ \A d \in CPU : running[d] # n
<1> DEFINE s == running[c]
<1>1. s \in Slot
  BY DEF ProcInv, TypeOK, Executing
<1>2. state[s] = "RUNNING"
  BY DEF ProcInv, CpuInv, Executing
<1>3. /\ np[s] \in Slot
      /\ state[np[s]] = "EMBRYO"
      /\ \A t \in Slot \ {s} : Forking(t) => np[t] # np[s]
  BY <1>1 DEF ProcInv, ForkInv
<1>4. ~Forking(np[s])
  BY <1>3 DEF ProcInv, ForkInv
<1>5. \A d \in CPU : running[d] # np[s]
  BY <1>3 DEF ProcInv, CpuInv, TypeOK, Active, Alive, Slot
<1> QED
  BY <1>1, <1>2, <1>3, <1>4, <1>5

LEMMA AllocProcInv ==
  ASSUME ProcInv, NEW c \in CPU, AllocProc(c)
  PROVE  InvParts'
<1> DEFINE s == running[c]
<1>1. s \in Slot /\ pc[s] = "alloc" /\ ptlock = NoCpu /\ state[s] = "RUNNING"
  BY DEF ProcInv, TypeOK, CpuInv, AllocProc, MayAcquire, Executing, At
<1>2. /\ UNCHANGED <<running, parent, pgdir, live>> /\ ptlock' = NoCpu
      /\ call' \in [Slot -> {"none", "fork"}]
  BY NoClone DEF AllocProc
<1>3. CASE Having("UNUSED") = {}
  <2>1. Goto(s, "user") /\ UNCHANGED <<state, np>>
    BY <1>3 DEF AllocProc, IsFirst
  <2>2. CpuInv'
    BY <1>1, <1>2, <2>1 DEF ProcInv, CpuInv, Active, Alive
  <2>3. ForkInv' /\ SpaceInv'
    BY <1>1, <1>2, <2>1, MoveInv DEF Forking, Place
  <2> QED
    BY <2>2, <2>3 DEF InvParts
<1>4. ASSUME NEW n \in Slot, IsFirst(n, Having("UNUSED")), Allocate(n),
             np' = [np EXCEPT ![s] = n], Goto(s, "stack")
      PROVE  InvParts'
  <2>1. state[n] = "UNUSED" /\ n # s
    BY <1>1, <1>4 DEF IsFirst, Having
  <2>2. state' = [state EXCEPT ![n] = "EMBRYO"]
    BY <1>4 DEF Allocate
  <2>3. CpuInv'
    BY <1>1, <1>2, <2>1, <2>2 DEF ProcInv, TypeOK, CpuInv, Active, Alive
  <2>4. \A t \in Slot : Forking(t)' <=> Forking(t) \/ t = s
    BY <1>1, <1>4 DEF ProcInv, TypeOK, Forking, Goto
  <2>5. ForkInv'
    BY <1>1, <1>4, <2>1, <2>2, <2>4 DEF ProcInv, TypeOK, ForkInv
  <2>6. \A t \in Slot : HasSpace(t)' <=> HasSpace(t)
    BY <1>1, <1>4, <2>1, <2>2
    DEF ProcInv, TypeOK, HasSpace, Active, Alive, Goto
  <2>7. SpaceInv'
    BY <1>2, <2>6 DEF ProcInv, SpaceInv
  <2> QED
    BY <2>3, <2>5, <2>7 DEF InvParts
<1> QED
  BY <1>3, <1>4 DEF AllocProc

LEMMA AllocStackInv ==
  ASSUME ProcInv, NEW c \in CPU, AllocStack(c)
  PROVE  InvParts'
<1> DEFINE s == running[c]
           n == np[s]
<1>1. pc[s] = "stack"
  BY DEF AllocStack, At
<1>2. s \in Slot /\ n \in Slot /\ n # s /\ ~Forking(n)
  BY <1>1, ForkerFacts DEF AllocStack, Forking
<1>3. /\ UNCHANGED <<ptlock, running, state>>
      /\ UNCHANGED <<state, np, parent, pgdir, live, call>>
      /\ pc' = [pc EXCEPT ![s] = "build", ![n] = "forkret"]
  BY DEF AllocStack, lockVars
<1>4. \A t \in Slot : Forking(t)' <=> Forking(t)
  BY <1>1, <1>2, <1>3 DEF ProcInv, TypeOK, Forking
<1>5. \A t \in Slot : HasSpace(t)' <=> HasSpace(t)
  BY <1>1, <1>2, <1>3 DEF ProcInv, TypeOK, HasSpace, Active, Alive, Forking
<1>6. ForkInv' /\ SpaceInv'
  BY <1>3, <1>4, <1>5 DEF ProcInv, ForkInv, SpaceInv
<1> QED
  BY <1>3, <1>6, CpuFrame DEF InvParts

\* Giving the entry up, when its stack or its address space cannot be had.
LEMMA GiveUpInv ==
  ASSUME ProcInv, NEW c \in CPU, AllocStackFails(c) \/ CopyFails(c)
  PROVE  InvParts'
<1> DEFINE s == running[c]
           n == np[s]
<1>1. pc[s] \in {"stack", "build"} /\ Executing(c)
  BY DEF AllocStackFails, CopyFails, At
<1>2. /\ s \in Slot /\ n \in Slot /\ n # s /\ ~Forking(n)
      /\ state[n] = "EMBRYO" /\ state[s] = "RUNNING"
      /\ \A t \in Slot \ {s} : Forking(t) => np[t] # n
      /\ \A d \in CPU : running[d] # n
  BY <1>1, ForkerFacts DEF Forking
<1>3. /\ UNCHANGED <<ptlock, running, parent, live>>
      /\ state' = [state EXCEPT ![n] = "UNUSED"]
      /\ pc' = [pc EXCEPT ![s] = "user"]
      /\ call' = [call EXCEPT ![s] = "none"]
      /\ np' = [np EXCEPT ![s] = 0]
      /\ \A t \in Slot \ {n} : pgdir'[t] = pgdir[t]
  BY DEF AllocStackFails, CopyFails, lockVars, GiveUp, ForkReturns, Goto, ProcInv, TypeOK
<1>4. CpuInv'
  BY <1>2, <1>3 DEF ProcInv, TypeOK, CpuInv, Active, Alive
<1>5. \A t \in Slot : Forking(t)' <=> Forking(t) /\ t # s
  BY <1>2, <1>3 DEF ProcInv, TypeOK, Forking
<1>6. ForkInv'
  BY <1>2, <1>3, <1>5 DEF ProcInv, TypeOK, ForkInv
<1>7. \A t \in Slot : HasSpace(t)' <=> HasSpace(t)
  BY <1>1, <1>2, <1>3 DEF ProcInv, TypeOK, HasSpace, Active, Alive, Forking
<1>8. ~HasSpace(n)
  BY <1>1, <1>2 DEF HasSpace, Active, Alive, Forking
<1>9. SpaceInv'
  BY <1>3, <1>7, <1>8 DEF ProcInv, TypeOK, SpaceInv
<1> QED
  BY <1>4, <1>6, <1>9 DEF InvParts

LEMMA BuildInv ==
  ASSUME ProcInv, NEW c \in CPU, Build(c)
  PROVE  InvParts'
<1> DEFINE s == running[c]
           n == np[s]
<1>1. pc[s] = "build" /\ Executing(c)
  BY DEF Build, At
<1>2. /\ s \in Slot /\ n \in Slot /\ n # s /\ ~Forking(n)
      /\ state[n] = "EMBRYO"
      /\ \A t \in Slot \ {s} : Forking(t) => np[t] # n
  BY <1>1, ForkerFacts DEF Forking
<1>3. /\ UNCHANGED <<ptlock, running, state>>
      /\ UNCHANGED <<state, np, call>>
      /\ pc' = [pc EXCEPT ![s] = "publish"]
      /\ parent' = [parent EXCEPT ![n] = s]
  BY DEF Build, lockVars, Goto
<1>4. PICK d \in Pgdir \ live : /\ pgdir' = [pgdir EXCEPT ![n] = d]
                                /\ live' = live \cup {d}
  <2>1. call[s] # "clone"
    BY <1>2 DEF ProcInv, SpaceInv
  <2> QED
    BY <2>1 DEF Build
<1>5. \A t \in Slot : Forking(t)' <=> Forking(t)
  BY <1>1, <1>2, <1>3 DEF ProcInv, TypeOK, Forking
<1>6. ForkInv'
  BY <1>3, <1>5 DEF ProcInv, ForkInv
<1>7. /\ \A t \in Slot : HasSpace(t)' <=> HasSpace(t) \/ t = n
      /\ ~HasSpace(n)
  BY <1>1, <1>2, <1>3 DEF ProcInv, TypeOK, HasSpace, Active, Alive, Forking
<1>8. \A t \in Slot : pgdir'[t] = IF t = n THEN d ELSE pgdir[t]
  BY <1>2, <1>4 DEF ProcInv, TypeOK
<1>9. \A t \in Slot : t # n => parent'[t] = parent[t]
  BY <1>2, <1>3 DEF ProcInv, TypeOK
<1>10. SpaceInv'
  BY <1>3, <1>4, <1>7, <1>8, <1>9 DEF ProcInv, SpaceInv
<1> QED
  BY <1>3, <1>6, <1>10, CpuFrame DEF InvParts

LEMMA PublishInv ==
  ASSUME ProcInv, NEW c \in CPU, Publish(c)
  PROVE  InvParts'
<1> DEFINE s == running[c]
           n == np[s]
<1>1. pc[s] = "publish" /\ Executing(c)
  BY DEF Publish, At
<1>2. /\ s \in Slot /\ n \in Slot /\ n # s /\ ~Forking(n)
      /\ state[n] = "EMBRYO" /\ state[s] = "RUNNING"
      /\ \A t \in Slot \ {s} : Forking(t) => np[t] # n
      /\ \A d \in CPU : running[d] # n
  BY <1>1, ForkerFacts DEF Forking
<1>3. /\ UNCHANGED <<ptlock, running, parent, pgdir, live>>
      /\ state' = [state EXCEPT ![n] = "RUNNABLE"]
      /\ pc' = [pc EXCEPT ![s] = "user"]
      /\ call' = [call EXCEPT ![s] = "none"]
      /\ np' = [np EXCEPT ![s] = 0]
  BY DEF Publish, lockVars, ForkReturns, Goto
<1>4. CpuInv'
  BY <1>2, <1>3 DEF ProcInv, TypeOK, CpuInv, Active, Alive
<1>5. \A t \in Slot : Forking(t)' <=> Forking(t) /\ t # s
  BY <1>2, <1>3 DEF ProcInv, TypeOK, Forking
<1>6. ForkInv'
  BY <1>2, <1>3, <1>5 DEF ProcInv, TypeOK, ForkInv
<1>7. \A t \in Slot : HasSpace(t)' <=> HasSpace(t)
  BY <1>1, <1>2, <1>3 DEF ProcInv, TypeOK, HasSpace, Active, Alive, Forking
<1>8. SpaceInv'
  BY <1>3, <1>7 DEF ProcInv, TypeOK, SpaceInv
<1> QED
  BY <1>4, <1>6, <1>8 DEF InvParts

LEMMA ExecInv ==
  ASSUME ProcInv, NEW c \in CPU, Exec(c)
  PROVE  InvParts'
<1> DEFINE s == running[c]
<1>1. s \in Slot /\ Active(s)
  BY DEF ProcInv, TypeOK, CpuInv, Exec, MayCall, Executing
<1>2. /\ UNCHANGED <<ptlock, running, state>>
      /\ UNCHANGED <<state, parent, pc, np, call>>
  BY DEF Exec, lockVars, localVars
<1>3. PICK d \in Pgdir \ live : /\ pgdir' = [pgdir EXCEPT ![s] = d]
                                /\ live' = (live \cup {d}) \ {pgdir[s]}
  BY DEF Exec
<1>4. ForkInv'
  BY <1>2 DEF ProcInv, ForkInv, Forking
<1>5. \A t \in Slot : HasSpace(t)' <=> HasSpace(t)
  BY <1>2 DEF HasSpace, Active, Alive
<1>6. HasSpace(s) /\ pgdir[s] \in live
  BY <1>1 DEF HasSpace, ProcInv, SpaceInv
<1>7. \A t \in Slot : pgdir'[t] = IF t = s THEN d ELSE pgdir[t]
  BY <1>1, <1>3 DEF ProcInv, TypeOK
<1>8. SpaceInv'
  BY <1>1, <1>2, <1>3, <1>5, <1>6, <1>7 DEF ProcInv, SpaceInv
<1> QED
  BY <1>2, <1>4, <1>8, CpuFrame DEF InvParts

-----------------------------------------------------------------------------
(* Steps that only move states and the lock *)

\* What a change of states alone must respect.
LEMMA StateFrame ==
  ASSUME ProcInv, UNCHANGED <<pc, np, parent, pgdir, live, call>>,
         \A t \in Slot : /\ state[t] = "EMBRYO" => state'[t] = "EMBRYO"
                         /\ Active(t)' <=> Active(t)
                         /\ Forking(t) => state'[t] \in {"RUNNING", "RUNNABLE"}
  PROVE  ForkInv' /\ SpaceInv'
<1>1. ForkInv'
  BY DEF ProcInv, ForkInv, Forking
<1>2. \A t \in Slot : HasSpace(t)' <=> HasSpace(t)
  BY DEF HasSpace
<1>3. SpaceInv'
  BY <1>2 DEF ProcInv, SpaceInv
<1> QED
  BY <1>1, <1>3

LEMMA ClockInv == ASSUME ProcInv, Clock PROVE InvParts'
<1>1. /\ ptlock = NoCpu /\ UNCHANGED <<ptlock, running>>
      /\ UNCHANGED <<pc, np, parent, pgdir, live, call>>
  BY DEF Clock, lockVars, localVars
<1>2. \A t \in Slot : \/ state'[t] = state[t]
                      \/ state[t] = "SLEEPING" /\ state'[t] = "RUNNABLE"
  BY DEF Clock, Wakeup1
<1>3. CpuInv'
  BY <1>1, <1>2, ProcAssumption DEF ProcInv, TypeOK, CpuInv, Active, Alive
<1>4. ForkInv' /\ SpaceInv'
  BY <1>1, <1>2, StateFrame DEF ProcInv, ForkInv, Active, Alive
<1> QED
  BY <1>3, <1>4 DEF InvParts

\* A process off a processor is not RUNNING while the lock is free; the one
\* that holds the lock is on its holder's processor.
LEMMA KillInv ==
  ASSUME ProcInv, NEW c \in CPU, Kill(c)
  PROVE  InvParts'
<1> DEFINE s == running[c]
<1>1. /\ s \in Slot /\ ~Forking(s) /\ ptlock = NoCpu
      /\ Goto(s, "user")
      /\ UNCHANGED <<ptlock, running>>
      /\ UNCHANGED <<np, parent, pgdir, live, call>>
  BY DEF ProcInv, TypeOK, Kill, MayAcquire, Executing, At, Forking, lockVars
<1>2. \A t \in Slot : \/ state'[t] = state[t]
                      \/ state[t] = "SLEEPING" /\ state'[t] = "RUNNABLE"
  BY DEF ProcInv, TypeOK, Kill, WakeKilled, IsFirst
<1>3. CpuInv'
  BY <1>1, <1>2, ProcAssumption DEF ProcInv, TypeOK, CpuInv, Active, Alive
<1>4. \A t \in Slot : Forking(t)' <=> Forking(t)
  BY <1>1 DEF ProcInv, TypeOK, Forking, Goto
<1>5. ForkInv'
  BY <1>1, <1>2, <1>4 DEF ProcInv, ForkInv
<1>6. \A t \in Slot : HasSpace(t)' <=> HasSpace(t)
  BY <1>1, <1>2 DEF ProcInv, TypeOK, HasSpace, Active, Alive, Goto, Forking
<1>7. SpaceInv'
  BY <1>1, <1>6 DEF ProcInv, SpaceInv
<1> QED
  BY <1>3, <1>5, <1>7 DEF InvParts

\* yield() and sleep(): the process leaves RUNNING with the lock in hand.
LEMMA LeaveInv ==
  ASSUME ProcInv, NEW c \in CPU, running[c] # 0, ptlock' = c,
         state[running[c]] = "RUNNING",
         NEW st \in {"RUNNABLE", "SLEEPING"},
         state' = [state EXCEPT ![running[c]] = st],
         st = "SLEEPING" => ~Forking(running[c]),
         ptlock = NoCpu \/ ptlock = c,
         UNCHANGED <<running, pc, np, parent, pgdir, live, call>>
  PROVE  InvParts'
<1> DEFINE s == running[c]
<1>1. s \in Slot
  BY DEF ProcInv, TypeOK
<1>2. /\ state'[s] \in {"RUNNABLE", "SLEEPING"}
      /\ \A t \in Slot \ {s} : state'[t] = state[t]
  BY <1>1 DEF ProcInv, TypeOK
<1>3. \A d \in CPU : running[d] # 0 => running[d] \in Slot
  BY DEF ProcInv, TypeOK
<1>4. CpuInv'
  BY <1>1, <1>2, <1>3, ProcAssumption DEF ProcInv, CpuInv, Active, Alive
<1>5. Forking(s) => state'[s] = "RUNNABLE"
  BY <1>1 DEF ProcInv, TypeOK
<1>6. \A t \in Slot : Forking(t) => state'[t] \in {"RUNNING", "RUNNABLE"}
  BY <1>2, <1>5 DEF ProcInv, ForkInv
<1>7. ForkInv' /\ SpaceInv'
  BY <1>1, <1>2, <1>6, StateFrame DEF Active, Alive
<1> QED
  BY <1>4, <1>7 DEF InvParts

LEMMA YieldInv == ASSUME ProcInv, NEW c \in CPU, Yield(c) PROVE InvParts'
<1>1. running[c] # 0 /\ ptlock = NoCpu
  BY DEF Yield
<1>2. state[running[c]] = "RUNNING"
  BY <1>1, ProcAssumption DEF ProcInv, CpuInv
<1>3. /\ ptlock' = c /\ state' = [state EXCEPT ![running[c]] = "RUNNABLE"]
      /\ UNCHANGED <<running, pc, np, parent, pgdir, live, call>>
  BY DEF Yield
<1> QED
  BY <1>1, <1>2, <1>3, LeaveInv

LEMMA DozeInv == ASSUME ProcInv, NEW c \in CPU, Doze(c) PROVE InvParts'
<1>1. running[c] # 0 /\ ptlock = NoCpu /\ ~Forking(running[c])
  BY DEF Doze, MayAcquire, At, Forking
<1>2. state[running[c]] = "RUNNING"
  BY <1>1, ProcAssumption DEF ProcInv, CpuInv
<1> QED
  BY <1>1, <1>2, LeaveInv DEF Doze, SleepOn, localVars

\* The hand-overs inside swtch, and the lock's way through scheduler().
LEMMA ScheduleInv ==
  ASSUME ProcInv, NEW c \in CPU,
         Switch(c) \/ SchedAcquire(c) \/ SchedPick(c) \/ SchedRelease(c)
  PROVE  InvParts'
<1> USE DEF tableVars, localVars
<1>1. CASE Switch(c) \/ SchedAcquire(c) \/ SchedRelease(c)
  <2>1. UNCHANGED <<state, pc, np, parent, pgdir, live, call>>
    BY <1>1 DEF Switch, SchedAcquire, SchedRelease
  <2>2. CpuInv'
    <3>1. CASE Switch(c)
      BY <3>1 DEF Switch, Leaving, ProcInv, TypeOK, CpuInv, Active, Alive, Slot
    <3>2. CASE SchedAcquire(c) \/ SchedRelease(c)
      BY <3>2, ProcAssumption
      DEF SchedAcquire, SchedRelease, ProcInv, TypeOK, CpuInv, Active, Alive
    <3> QED
      BY <1>1, <3>1, <3>2
  <2>3. ForkInv' /\ SpaceInv'
    BY <2>1, StateFrame DEF ProcInv, ForkInv, Active, Alive
  <2> QED
    BY <2>2, <2>3 DEF InvParts
<1>2. CASE SchedPick(c)
  <2>1. PICK p \in Slot : /\ IsFirst(p, Ahead(c))
                          /\ running' = [running EXCEPT ![c] = p]
                          /\ state' = [state EXCEPT ![p] = "RUNNING"]
    BY <1>2 DEF SchedPick
  <2>2. /\ state[p] = "RUNNABLE" /\ ptlock = c /\ ptlock' = c /\ running[c] = 0
        /\ UNCHANGED <<pc, np, parent, pgdir, live, call>>
    BY <1>2, <2>1 DEF SchedPick, IsFirst, Ahead, Having
  <2>3. \A d \in CPU : running[d] # p
    BY <2>2 DEF ProcInv, CpuInv, TypeOK, Slot
  <2>4. /\ \A t \in Slot : state'[t] = IF t = p THEN "RUNNING" ELSE state[t]
        /\ \A d \in CPU : running'[d] = IF d = c THEN p ELSE running[d]
    BY <2>1 DEF ProcInv, TypeOK
  <2>5. /\ \A d \in CPU : running[d] # 0 => running[d] \in Slot
        /\ 0 \notin Slot
    BY DEF ProcInv, TypeOK, Slot
  <2>6. CpuInv'
    BY <2>2, <2>3, <2>4, <2>5 DEF ProcInv, CpuInv, Active, Alive
  <2>7. ForkInv' /\ SpaceInv'
    BY <2>2, <2>4, StateFrame DEF ProcInv, ForkInv, Active, Alive
  <2> QED
    BY <2>6, <2>7 DEF InvParts
<1> QED
  BY <1>1, <1>2

\* The process that was picked, or never left, gives the lock up or goes on.
LEMMA ResumeInv ==
  ASSUME ProcInv, NEW c \in CPU,
         ForkRet(c) \/ YieldReturns(c) \/ DozeEnds(c) \/ TimerTrap(c)
  PROVE  InvParts'
<1> USE DEF tableVars, lockVars
<1>1. CpuInv'
  BY ProcAssumption DEF ForkRet, YieldReturns, DozeEnds, TimerTrap, Resumed,
     ProcInv, TypeOK, CpuInv, Active, Alive
<1>2. CASE YieldReturns(c) \/ TimerTrap(c)
  <2>1. UNCHANGED <<state, pc, np, parent, pgdir, live, call>>
    BY <1>2 DEF YieldReturns, TimerTrap
  <2>2. ForkInv' /\ SpaceInv'
    BY <2>1, StateFrame DEF ProcInv, ForkInv, Active, Alive
  <2> QED
    BY <1>1, <2>2 DEF InvParts
<1>3. CASE ForkRet(c) \/ DozeEnds(c)
  <2>1. running[c] \in Slot /\ ~Forking(running[c])
    BY <1>3 DEF ForkRet, DozeEnds, At, Forking, ProcInv, TypeOK
  <2>2. \E place \in Place \ {"stack", "build", "publish"} :
          Goto(running[c], place)
    BY <1>3 DEF ForkRet, DozeEnds, Place
  <2>3. /\ UNCHANGED <<state, parent, pgdir, live, np>>
        /\ call' \in [Slot -> {"none", "fork"}]
    BY <1>3, NoClone DEF ForkRet, DozeEnds
  <2>4. ForkInv' /\ SpaceInv'
    BY <2>1, <2>2, <2>3, MoveInv
  <2> QED
    BY <1>1, <2>4 DEF InvParts
<1> QED
  BY <1>2, <1>3

-----------------------------------------------------------------------------
(* wait() and join() *)

\* The loop runs on behalf of a RUNNING process, and nobody is on the stack of
\* a zombie while the lock is free or in that process's hands.
LEMMA ScanFacts ==
  ASSUME ProcInv, NEW c \in CPU, Wait(c) \/ Join(c)
  PROVE  LET s == running[c] IN
         /\ s \in Slot /\ s # 0 /\ ~Forking(s) /\ state[s] = "RUNNING"
         /\ ptlock = NoCpu \/ ptlock = c
         /\ \A p \in Slot : state[p] = "ZOMBIE" => \A d \in CPU : running[d] # p
<1> DEFINE s == running[c]
<1>1. /\ s \in Slot /\ s # 0 /\ ~Forking(s)
      /\ ptlock = NoCpu \/ (ptlock = c /\ state[s] = "RUNNING")
  <2>1. s # 0 /\ pc[s] \in {"wait", "join"} /\ (ptlock = NoCpu \/ Resumed(c))
    BY DEF Wait, Join, MayScan, At
  <2> QED
    BY <2>1 DEF Resumed, Forking, ProcInv, TypeOK
<1>2. state[s] = "RUNNING"
  BY <1>1, ProcAssumption DEF ProcInv, CpuInv
<1>3. 0 \notin Slot
  BY DEF Slot
<1>4. ASSUME NEW p \in Slot, state[p] = "ZOMBIE", NEW d \in CPU, running[d] = p
      PROVE  FALSE
  BY <1>1, <1>2, <1>3, <1>4, ProcAssumption DEF ProcInv, CpuInv
<1> QED
  BY <1>1, <1>2, <1>4

LEMMA ScanInv ==
  ASSUME ProcInv, NEW c \in CPU, Wait(c) \/ Join(c)
  PROVE  InvParts'
<1> DEFINE s == running[c]
<1>1. /\ s \in Slot /\ s # 0 /\ ~Forking(s) /\ state[s] = "RUNNING"
      /\ ptlock = NoCpu \/ ptlock = c
      /\ \A p \in Slot : state[p] = "ZOMBIE" => \A d \in CPU : running[d] # p
  BY ScanFacts
<1>2. UNCHANGED <<running, pgdir, call, np>>
  BY DEF Wait, Join
<1>3. CASE ptlock' = NoCpu /\ Goto(s, "user")
           /\ UNCHANGED <<state, pid, parent, killed, kstack, live>>
  <2>1. CpuInv'
    BY <1>1, <1>2, <1>3 DEF ProcInv, CpuInv, Active, Alive
  <2>2. ForkInv' /\ SpaceInv'
    BY <1>1, <1>2, <1>3, NoClone, MoveInv DEF Place
  <2> QED
    BY <2>1, <2>2 DEF InvParts
<1>4. CASE SleepOn(c, s) /\ UNCHANGED <<pid, parent, killed, kstack, live, pc>>
  BY <1>1, <1>2, <1>4, LeaveInv DEF SleepOn
<1>5. ASSUME NEW p \in Slot, state[p] = "ZOMBIE", parent[p] = s, Reap(p),
             live' = live \/ live' = live \ {pgdir[p]},
             ptlock' = NoCpu, Goto(s, "user")
      PROVE  InvParts'
  <2>1. p # s /\ 0 \notin Slot
    BY <1>1, <1>5 DEF Slot
  <2>2. /\ \A t \in Slot : state'[t] = IF t = p THEN "UNUSED" ELSE state[t]
        /\ \A t \in Slot : parent'[t] = IF t = p THEN 0 ELSE parent[t]
        /\ \A t \in Slot : pc'[t] = IF t = s THEN "user" ELSE pc[t]
    BY <1>1, <1>5 DEF ProcInv, TypeOK, Reap, Goto
  <2>3. \A d \in CPU : running[d] # 0 => running[d] \in Slot
    BY DEF ProcInv, TypeOK
  <2>4. CpuInv'
    BY <1>1, <1>2, <1>5, <2>1, <2>2, <2>3 DEF ProcInv, CpuInv, Active, Alive
  <2>5. \A t \in Slot : Forking(t)' <=> Forking(t)
    BY <1>1, <2>2 DEF Forking
  <2>6. ForkInv'
    BY <1>2, <1>5, <2>2, <2>5 DEF ProcInv, ForkInv
  <2>7. \A t \in Slot : pc[t] = "publish" => np[t] # p
    BY <1>5 DEF ProcInv, ForkInv, Forking
  <2>8. \A t \in Slot : HasSpace(t)' <=> HasSpace(t) /\ t # p
    BY <1>1, <1>2, <2>2, <2>7 DEF HasSpace, Active, Alive, Forking
  <2>9. HasSpace(p)
    BY <1>5 DEF HasSpace, Active
  <2>10. SpaceInv'
    BY <1>2, <1>5, <2>2, <2>8, <2>9 DEF ProcInv, SpaceInv
  <2> QED
    BY <2>4, <2>6, <2>10 DEF InvParts
<1>6. \/ \E p \in Slot : /\ state[p] = "ZOMBIE" /\ parent[p] = s /\ Reap(p)
                         /\ live' = live \/ live' = live \ {pgdir[p]}
                         /\ ptlock' = NoCpu /\ Goto(s, "user")
      \/ /\ ptlock' = NoCpu /\ Goto(s, "user")
         /\ UNCHANGED <<state, pid, parent, killed, kstack, live>>
      \/ SleepOn(c, s) /\ UNCHANGED <<pid, parent, killed, kstack, live, pc>>
  BY DEF Wait, Join, Collect, IsFirst, Having, ChildrenOf, ThreadsOf
<1> QED
  BY <1>3, <1>4, <1>5, <1>6

-----------------------------------------------------------------------------
(* exit() *)

\* Without clone() a process has no threads that exit() could kill.
LEMMA NoThreads ==
  ASSUME ProcInv, NEW s \in Slot, Active(s)
  PROVE  ThreadsOf(s) \subseteq {s}
<1> SUFFICES ASSUME NEW p \in Slot, parent[p] = s, pgdir[p] = pgdir[s], p # s
             PROVE  FALSE
  BY DEF ThreadsOf
<1>1. HasSpace(s)
  BY DEF HasSpace
<1>2. s # 0
  BY DEF Slot
<1>3. HasSpace(p)
  BY <1>2 DEF ProcInv, SpaceInv
<1> QED
  BY <1>1, <1>3 DEF ProcInv, SpaceInv

LEMMA ExitInv == ASSUME ProcInv, NEW c \in CPU, ExitLocked(c) PROVE InvParts'
<1> DEFINE s == running[c]
<1>1. /\ s \in Slot /\ s # 0 /\ ~Forking(s) /\ ptlock = NoCpu /\ ptlock' = c
      /\ Goto(s, "dead")
      /\ UNCHANGED <<running, pgdir, live, call, np>>
  BY DEF ExitLocked, MayAcquire, Executing, At, Forking, ProcInv, TypeOK
<1>2. state[s] = "RUNNING" /\ ThreadsOf(s) \subseteq {s}
  BY <1>1, NoThreads, ProcAssumption DEF ProcInv, CpuInv, Active, Alive
<1>3. \A t \in Slot : IF t = s THEN state'[t] = "ZOMBIE"
                      ELSE \/ state'[t] = state[t]
                           \/ state[t] = "SLEEPING" /\ state'[t] = "RUNNABLE"
  BY <1>2 DEF ExitLocked, AfterExit, Wakeup1
<1>4. \A t \in Slot : parent'[t] = parent[t] \/ parent[t] # 0
  BY <1>1 DEF ExitLocked, Reparent, ChildrenOf
<1>5. \A d \in CPU : running[d] # 0 => running[d] \in Slot
  BY DEF ProcInv, TypeOK
<1>6. CpuInv'
  BY <1>1, <1>2, <1>3, <1>5, ProcAssumption DEF ProcInv, CpuInv, Active, Alive
<1>7. \A t \in Slot : Forking(t)' <=> Forking(t)
  BY <1>1 DEF ProcInv, TypeOK, Forking, Goto
<1>8. ForkInv'
  BY <1>1, <1>2, <1>3, <1>7 DEF ProcInv, ForkInv
<1>9. \A t \in Slot : pc'[t] = "publish" <=> pc[t] = "publish"
  BY <1>1 DEF ProcInv, TypeOK, Forking, Goto
<1>10. \A t \in Slot : HasSpace(t)' <=> HasSpace(t)
  BY <1>1, <1>2, <1>3, <1>9 DEF HasSpace, Active, Alive
<1>11. SpaceInv'
  BY <1>1, <1>4, <1>10 DEF ProcInv, SpaceInv
<1> QED
  BY <1>6, <1>8, <1>11 DEF InvParts

-----------------------------------------------------------------------------
(* The theorems *)

LEMMA NextInv ==
  ASSUME ProcInv, Threads = FALSE, [Next]_vars
  PROVE  ProcInv'
<1>1. InvParts'
  <2>1. CASE UNCHANGED vars
    <3>1. UNCHANGED <<ptlock, running, state, pc, np, parent, pgdir, live, call>>
      BY <2>1 DEF vars
    <3> QED
      BY <3>1, CpuFrame, StateFrame
      DEF ProcInv, ForkInv, Active, Alive, InvParts
  <2>2. CASE Clock
    BY <2>2, ClockInv
  <2>3. ASSUME NEW c \in CPU, ProgramStep(c) PROVE InvParts'
    BY <2>3, EnterInv, ExecInv DEF ProgramStep
  <2>4. ASSUME NEW c \in CPU, KernelStep(c) PROVE InvParts'
    BY <2>4, AllocProcInv, AllocStackInv, GiveUpInv, BuildInv, PublishInv,
       ScanInv, ExitInv, KillInv, EnterInv, DozeInv, ResumeInv DEF KernelStep
  <2>5. ASSUME NEW c \in CPU, TimerTrap(c) \/ ScheduleStep(c) PROVE InvParts'
    BY <2>5, ResumeInv, YieldInv, ScheduleInv DEF ScheduleStep
  <2> QED
    BY <2>1, <2>2, <2>3, <2>4, <2>5 DEF Next
<1>2. TypeOK'
  BY NextTypeOK DEF ProcInv
<1> QED
  BY <1>1, <1>2 DEF ProcInv, InvParts

\* Without clone(), ProcInv holds throughout.
THEOREM ProcessInvariant ==
  ASSUME Threads = FALSE
  PROVE  Spec => []ProcInv
<1>1. Init => ProcInv
  BY InitTypeOK, InitInv DEF ProcInv, InvParts
<1>2. ProcInv /\ [Next]_vars => ProcInv'
  BY NextInv
<1> QED
  BY <1>1, <1>2, PTL DEF Spec

\* No kernel stack is ever executed by two processors: the lock that is held
\* across swtch keeps scheduler() from picking a process that has not left.
THEOREM OneProcessorEach ==
  ASSUME Threads = FALSE
  PROVE  Spec => []OneCpuPerProc
<1>1. ProcInv => OneCpuPerProc
  BY DEF ProcInv, CpuInv, OneCpuPerProc
<1> QED
  BY <1>1, ProcessInvariant, PTL

\* Outside the hand-overs an entry is RUNNING exactly when a processor is on it.
THEOREM RunningMeansOnCpu ==
  ASSUME Threads = FALSE
  PROVE  Spec => []RunningIffOnCpu
<1>1. ProcInv => RunningIffOnCpu
  <2> SUFFICES ASSUME ProcInv, NEW s \in Slot
               PROVE  /\ state[s] = "RUNNING" => \E c \in CPU : running[c] = s
                      /\ \A c \in CPU : running[c] = s /\ ptlock # c
                                          => state[s] = "RUNNING"
    BY DEF RunningIffOnCpu
  <2>1. s # 0
    BY DEF Slot
  <2> QED
    BY <2>1 DEF ProcInv, CpuInv
<1> QED
  BY <1>1, ProcessInvariant, PTL

\* Who may write the state of a zombie: only the reaper.
LEMMA ZombieStep ==
  ASSUME ProcInv, Next, NEW s \in Slot, state[s] = "ZOMBIE",
         state'[s] # "ZOMBIE"
  PROVE  Collected(s)
<1>1. CASE Clock
  BY <1>1 DEF Clock, Wakeup1
<1>2. ASSUME NEW c \in CPU, ProgramStep(c) PROVE Collected(s)
  BY <1>2 DEF ProgramStep, EnterFork, EnterClone, EnterWait, EnterJoin,
     EnterSleep, EnterKill, EnterExit, Exec, tableVars
<1>3. ASSUME NEW c \in CPU, KernelStep(c) PROVE Collected(s)
  <2>1. CASE AllocProc(c)
    BY <2>1 DEF AllocProc, Allocate, IsFirst, Having, ProcInv, TypeOK
  <2>2. CASE AllocStack(c) \/ Build(c) \/ SleepReturns(c) \/ SleepTest(c)
             \/ DozeEnds(c)
    BY <2>2 DEF AllocStack, Build, SleepReturns, SleepTest, DozeEnds, tableVars
  <2>3. CASE AllocStackFails(c) \/ CopyFails(c) \/ Publish(c)
    <3>1. Executing(c) /\ Forking(running[c])
      BY <2>3 DEF AllocStackFails, CopyFails, Publish, At, Forking
    <3>2. np[running[c]] # s
      BY <3>1, ForkerFacts
    <3> QED
      BY <2>3, <3>2
      DEF AllocStackFails, CopyFails, Publish, GiveUp, ProcInv, TypeOK
  <2>4. CASE Wait(c) \/ Join(c)
    <3>1. state[running[c]] = "RUNNING" /\ running[c] # s
      BY <2>4, ScanFacts
    <3>2. pc[running[c]] \in {"wait", "join"}
      BY <2>4 DEF Wait, Join, MayScan, At
    <3>3. CASE SleepOn(c, running[c]) \/ UNCHANGED state
      BY <3>1, <3>3 DEF SleepOn, ProcInv, TypeOK
    <3>4. CASE \E p \in Slot : Reap(p) /\ parent[p] = running[c]
      BY <3>2, <3>4 DEF Reap, ProcInv, TypeOK, Collected
    <3> QED
      BY <2>4, <3>3, <3>4
      DEF Wait, Join, Collect, IsFirst, ChildrenOf, ThreadsOf
  <2>5. CASE ExitLocked(c)
    BY <2>5 DEF ExitLocked, AfterExit, Wakeup1
  <2>6. CASE Kill(c)
    BY <2>6 DEF Kill, WakeKilled, ProcInv, TypeOK
  <2>7. CASE Doze(c)
    <3>1. running[c] # 0 /\ ptlock = NoCpu
      BY <2>7 DEF Doze, MayAcquire, Executing
    <3>2. state[running[c]] = "RUNNING"
      BY <3>1, ProcAssumption DEF ProcInv, CpuInv
    <3> QED
      BY <2>7, <3>2 DEF Doze, SleepOn, ProcInv, TypeOK
  <2> QED
    BY <1>3, <2>1, <2>2, <2>3, <2>4, <2>5, <2>6, <2>7 DEF KernelStep
<1>4. ASSUME NEW c \in CPU, TimerTrap(c) \/ ScheduleStep(c) PROVE Collected(s)
  <2>1. CASE Yield(c)
    <3>1. running[c] # 0 /\ ptlock = NoCpu
      BY <2>1 DEF Yield
    <3>2. state[running[c]] = "RUNNING"
      BY <3>1, ProcAssumption DEF ProcInv, CpuInv
    <3> QED
      BY <2>1, <3>2 DEF Yield, ProcInv, TypeOK
  <2>2. CASE SchedPick(c)
    BY <2>2 DEF SchedPick, IsFirst, Ahead, Having, ProcInv, TypeOK
  <2>3. CASE \/ TimerTrap(c) \/ Switch(c) \/ SchedAcquire(c)
             \/ SchedRelease(c) \/ ForkRet(c) \/ YieldReturns(c)
    BY <2>3 DEF TimerTrap, Switch, SchedAcquire, SchedRelease, ForkRet,
       YieldReturns, tableVars
  <2> QED
    BY <1>4, <2>1, <2>2, <2>3 DEF ScheduleStep
<1> QED
  BY <1>1, <1>2, <1>3, <1>4 DEF Next

\* A zombie is never run or woken again, and its entry is freed by its parent
\* in wait() or join(): the sentence above exit() in proc.c, for programs
\* without threads.
THEOREM ZombiesStayDead ==
  ASSUME Threads = FALSE
  PROVE  Spec => ZombieStays
<1>1. ProcInv /\ [Next]_vars =>
        [\A s \in Slot : state[s] = "ZOMBIE" /\ state'[s] # "ZOMBIE"
                           => Collected(s)]_vars
  BY ZombieStep
<1> QED
  BY <1>1, ProcessInvariant, PTL DEF Spec, ZombieStays

-----------------------------------------------------------------------------
(* FamilyInv.  Most steps disturb none of its parts: Quiet says what they  *)
(* have in common.  The others are allocproc() to the publication of a     *)
(* child, exec, wait() and exit().                                         *)

Both == ProcInv /\ FamilyInv /\ Threads = FALSE

LEMMA InitFamily == ASSUME Init PROVE FamilyInv
<1> USE InitprocIsSlot DEF Init
<1>1. StackInv
  BY DEF StackInv, Active, Alive
<1>2. LiveInv
  BY DEF LiveInv, HasSpace, Active, Alive
<1>3. ParentInv
  BY DEF ParentInv, Active, Alive, Slot, initproc
<1>4. SleepInv
  BY DEF SleepInv
<1> QED
  BY <1>1, <1>2, <1>3, <1>4 DEF FamilyInv

\* A processor that executes a process finds it RUNNING.
LEMMA ExecutingIsRunning ==
  ASSUME ProcInv, NEW c \in CPU, Executing(c)
  PROVE  running[c] \in Slot /\ state[running[c]] = "RUNNING"
  BY DEF ProcInv, TypeOK, CpuInv, Executing

\* The entries under construction.
LEMMA EntriesOfForkers ==
  ASSUME ProcInv, NEW t \in Slot, Forking(t)
  PROVE  np[t] \in Slot /\ state[np[t]] = "EMBRYO"
  BY DEF ProcInv, ForkInv

LEMMA ParentAfterBuild ==
  ASSUME ProcInv, NEW s \in Slot
  PROVE  parent[s] # 0 => state[s] # "UNUSED"
  BY DEF ProcInv, SpaceInv, ForkInv, HasSpace, Active, Alive, Forking

-----------------------------------------------------------------------------
(* Steps that only wake, pick or move live processes *)

Settled == Place \ {"stack", "build", "publish", "join", "dead"}

Quiet ==
  /\ UNCHANGED <<pgdir, parent, live, kstack, np>>
  /\ \A t \in Slot :
       /\ \/ state'[t] = state[t]
          \/ Alive(t) /\ state'[t] \in {"RUNNABLE", "RUNNING"}
       /\ \/ pc'[t] = pc[t]
          \/ /\ state[t] = "RUNNING" /\ ~Forking(t) /\ pc'[t] \in Settled
             /\ t = initproc => pc'[t] # "exit"
       /\ state'[t] = "SLEEPING" => chan'[t] = chan[t] /\ killed'[t] = killed[t]

LEMMA QuietFamily == ASSUME Both, Quiet PROVE FamilyInv'
<1> USE InitprocIsSlot
<1>1. \A t \in Slot : /\ Alive(t)' <=> Alive(t)
                      /\ state'[t] = "ZOMBIE" <=> state[t] = "ZOMBIE"
                      /\ state'[t] = "UNUSED" <=> state[t] = "UNUSED"
  BY DEF Quiet, Alive
<1>2. \A t \in Slot : /\ pc'[t] = "stack" <=> pc[t] = "stack"
                      /\ pc'[t] = "build" <=> pc[t] = "build"
                      /\ pc'[t] = "publish" <=> pc[t] = "publish"
                      /\ pc'[t] = "join" => pc[t] = "join"
                      /\ pc'[t] = "dead" => pc[t] = "dead"
  BY DEF Quiet, Forking, Settled
<1>3. \A t \in Slot : (Active(t)' <=> Active(t)) /\ (HasSpace(t)' <=> HasSpace(t))
  BY <1>1, <1>2 DEF Quiet, Active, HasSpace
<1>4. StackInv'
  BY <1>1, <1>2, <1>3 DEF Both, FamilyInv, StackInv, Quiet
<1>5. LiveInv'
  BY <1>3 DEF Both, FamilyInv, LiveInv, Quiet
<1>6. ParentInv'
  <2>1. Alive(initproc)' /\ parent'[initproc] = 0
        /\ pc'[initproc] \notin {"exit", "dead"}
    BY <1>1 DEF Both, FamilyInv, ParentInv, Quiet, Settled
  <2>2. \A s \in Slot : parent'[s] = 0 \/ parent'[s] \in Slot
    BY DEF Both, ProcInv, TypeOK, Quiet
  <2> QED
    BY <1>1, <1>2, <1>3, <2>1, <2>2 DEF Both, FamilyInv, ParentInv, Quiet
<1>7. SleepInv'
  BY <1>1, <1>2 DEF Both, FamilyInv, SleepInv, Quiet
<1> QED
  BY <1>4, <1>5, <1>6, <1>7 DEF FamilyInv

LEMMA EnterFamily ==
  ASSUME Both, NEW c \in CPU,
         \/ EnterFork(c) \/ EnterClone(c) \/ EnterWait(c) \/ EnterJoin(c)
         \/ EnterSleep(c) \/ EnterKill(c) \/ EnterExit(c)
         \/ SleepReturns(c) \/ SleepTest(c)
  PROVE  FamilyInv'
<1> DEFINE s == running[c]
<1> USE DEF MayCallNotInit, MayCall, At, lockVars, tableVars
<1>1. Executing(c)
  BY DEF EnterFork, EnterClone, EnterWait, EnterJoin, EnterSleep, EnterKill,
         EnterExit, SleepReturns, SleepTest
<1>2. s \in Slot /\ state[s] = "RUNNING" /\ ~Forking(s)
  BY <1>1, ExecutingIsRunning DEF Both, Forking, EnterFork, EnterClone,
     EnterWait, EnterJoin, EnterSleep, EnterKill, EnterExit, SleepReturns,
     SleepTest
<1>3. \E place \in Settled : Goto(s, place) /\ (s = initproc => place # "exit")
  BY DEF Settled, Place, Both, EnterFork, EnterClone, EnterWait, EnterJoin,
         EnterSleep, EnterKill, EnterExit, SleepReturns, SleepTest
<1>4. UNCHANGED <<pgdir, parent, live, kstack, np, state, chan, killed>>
  BY DEF EnterFork, EnterClone, EnterWait, EnterJoin, EnterSleep, EnterKill,
         EnterExit, SleepReturns, SleepTest
<1>5. Quiet
  BY <1>2, <1>3, <1>4 DEF Quiet, Goto, Both, ProcInv, TypeOK
<1> QED
  BY <1>5, QuietFamily

LEMMA ClockFamily == ASSUME Both, Clock PROVE FamilyInv'
<1>1. Quiet
  BY DEF Clock, Wakeup1, localVars, Quiet, Alive
<1> QED
  BY <1>1, QuietFamily

LEMMA KillFamily == ASSUME Both, NEW c \in CPU, Kill(c) PROVE FamilyInv'
<1> DEFINE s == running[c]
<1>1. /\ s \in Slot /\ state[s] = "RUNNING" /\ pc[s] = "kill"
      /\ Goto(s, "user")
      /\ UNCHANGED <<pgdir, parent, live, kstack, np, chan>>
  BY ExecutingIsRunning DEF Both, Kill, MayAcquire, At
<1>2. \A t \in Slot :
        \/ state'[t] = state[t] /\ killed'[t] = killed[t]
        \/ state[t] = "SLEEPING" /\ state'[t] = "RUNNABLE"
        \/ state[t] # "SLEEPING" /\ state'[t] = state[t]
  BY DEF Both, ProcInv, TypeOK, Kill, WakeKilled, IsFirst
<1>3. Quiet
  BY <1>1, <1>2
  DEF Quiet, Goto, Both, ProcInv, TypeOK, Forking, Settled, Place, Alive
<1> QED
  BY <1>3, QuietFamily

\* Handing processors and the lock over.
LEMMA ScheduleFamily ==
  ASSUME Both, NEW c \in CPU,
         \/ TimerTrap(c) \/ ScheduleStep(c) \/ DozeEnds(c)
  PROVE  FamilyInv'
<1> USE DEF tableVars, localVars, lockVars
<1>1. CASE Yield(c)
  <2>1. running[c] \in Slot /\ state[running[c]] = "RUNNING"
    BY <1>1, ProcAssumption DEF Both, Yield, ProcInv, TypeOK, CpuInv
  <2>2. Quiet
    BY <1>1, <2>1 DEF Yield, Quiet, Both, ProcInv, TypeOK, Alive
  <2> QED
    BY <2>2, QuietFamily
<1>2. CASE SchedPick(c)
  <2>1. Quiet
    BY <1>2 DEF SchedPick, IsFirst, Ahead, Having, Quiet, Both, ProcInv, TypeOK,
       Alive
  <2> QED
    BY <2>1, QuietFamily
<1>3. CASE \/ Switch(c) \/ SchedAcquire(c) \/ SchedRelease(c)
           \/ YieldReturns(c) \/ TimerTrap(c)
  <2>1. Quiet
    BY <1>3 DEF Switch, SchedAcquire, SchedRelease, YieldReturns, TimerTrap, Quiet
  <2> QED
    BY <2>1, QuietFamily
<1>4. CASE ForkRet(c) \/ DozeEnds(c)
  <2>1. /\ running[c] \in Slot /\ state[running[c]] = "RUNNING"
        /\ pc[running[c]] \in {"forkret", "doze"}
    BY <1>4 DEF ForkRet, DozeEnds, Resumed, At, Both, ProcInv, TypeOK
  <2>2. Goto(running[c], "user") \/ Goto(running[c], "sleep")
    BY <1>4 DEF ForkRet, DozeEnds
  <2>3. /\ UNCHANGED <<pgdir, parent, live, kstack, np, state, killed>>
        /\ \A t \in Slot \ {running[c]} : chan'[t] = chan[t]
    BY <1>4 DEF ForkRet, DozeEnds, Awake, Both, ProcInv, TypeOK
  <2>4. Quiet
    BY <2>1, <2>2, <2>3
    DEF Quiet, Goto, Both, ProcInv, TypeOK, Forking, Settled, Place
  <2> QED
    BY <2>4, QuietFamily
<1> QED
  BY <1>1, <1>2, <1>3, <1>4 DEF ScheduleStep

-----------------------------------------------------------------------------
(* fork(): from allocproc() to the new entry's publication *)

LEMMA AllocProcFamily ==
  ASSUME Both, NEW c \in CPU, AllocProc(c)
  PROVE  FamilyInv'
<1> USE InitprocIsSlot
<1> DEFINE s == running[c]
<1>1. s \in Slot /\ pc[s] = "alloc" /\ state[s] = "RUNNING"
  BY ExecutingIsRunning DEF Both, AllocProc, MayAcquire, At
<1>2. UNCHANGED <<running, parent, pgdir, live, kstack, chan, killed>>
  BY DEF AllocProc
<1>3. CASE Having("UNUSED") = {}
  <2>1. Quiet
    BY <1>1, <1>2, <1>3 DEF AllocProc, IsFirst, Goto, Quiet, Both, ProcInv,
       TypeOK, Forking, Settled, Place
  <2> QED
    BY <2>1, QuietFamily
<1>4. ASSUME NEW n \in Slot, IsFirst(n, Having("UNUSED")), Allocate(n),
             np' = [np EXCEPT ![s] = n], Goto(s, "stack")
      PROVE  FamilyInv'
  <2>1. state[n] = "UNUSED" /\ n # s
    BY <1>1, <1>4 DEF IsFirst, Having
  <2>2. /\ \A t \in Slot : state'[t] = IF t = n THEN "EMBRYO" ELSE state[t]
        /\ \A t \in Slot : np'[t] = IF t = s THEN n ELSE np[t]
        /\ \A t \in Slot : pc'[t] = IF t = s THEN "stack" ELSE pc[t]
    BY <1>1, <1>4 DEF Allocate, Goto, Both, ProcInv, TypeOK
  <2>3. \A t \in Slot : (Alive(t)' <=> Alive(t)) /\ (Active(t)' <=> Active(t))
    BY <2>1, <2>2 DEF Active, Alive
  <2>4. \A t \in Slot : HasSpace(t)' <=> HasSpace(t)
    BY <1>1, <2>2, <2>3 DEF HasSpace
  <2>5. StackInv'
    BY <1>1, <1>2, <2>1, <2>2, <2>3 DEF Both, FamilyInv, StackInv
  <2>6. LiveInv'
    BY <1>2, <2>4 DEF Both, FamilyInv, LiveInv
  <2>7. \A t \in Slot : parent[t] \in Slot \cup {0}
    BY DEF Both, ProcInv, TypeOK
  <2>8. ParentInv'
    BY <1>1, <1>2, <2>2, <2>3, <2>7 DEF Both, FamilyInv, ParentInv
  <2>9. SleepInv'
    BY <1>1, <1>2, <2>2 DEF Both, FamilyInv, SleepInv
  <2> QED
    BY <2>5, <2>6, <2>8, <2>9 DEF FamilyInv
<1> QED
  BY <1>3, <1>4 DEF AllocProc

LEMMA AllocStackFamily ==
  ASSUME Both, NEW c \in CPU, AllocStack(c)
  PROVE  FamilyInv'
<1> USE InitprocIsSlot
<1> DEFINE s == running[c]
           n == np[s]
<1>1. pc[s] = "stack" /\ Executing(c)
  BY DEF AllocStack, At
<1>2. /\ s \in Slot /\ n \in Slot /\ n # s /\ ~Forking(n)
      /\ state[n] = "EMBRYO" /\ state[s] = "RUNNING"
      /\ \A t \in Slot \ {s} : Forking(t) => np[t] # n
  BY <1>1, ForkerFacts DEF Both, Forking
<1>3. UNCHANGED <<state, np, parent, pgdir, live, chan, killed>>
  BY DEF AllocStack
<1>4. /\ \A t \in Slot : pc'[t] = IF t = n THEN "forkret"
                                  ELSE IF t = s THEN "build" ELSE pc[t]
      /\ \A t \in Slot : kstack'[t] <=> t = n \/ kstack[t]
  BY <1>2 DEF AllocStack, Both, ProcInv, TypeOK
<1>5. \A t \in Slot : /\ (Alive(t)' <=> Alive(t)) /\ (Active(t)' <=> Active(t))
                      /\ HasSpace(t)' <=> HasSpace(t)
  BY <1>1, <1>2, <1>3, <1>4 DEF Active, Alive, HasSpace, Forking
<1>6. StackInv'
  <2>1. \A t \in Slot \ {s, n} :
          Forking(t) => np[t] \in Slot /\ (kstack'[np[t]] <=> kstack[np[t]])
    BY <1>2, <1>4, EntriesOfForkers DEF Both
  <2>2. \A t \in Slot : /\ Active(t)' => kstack'[t]
                        /\ kstack'[t] => state'[t] # "UNUSED"
    BY <1>2, <1>3, <1>4, <1>5 DEF Both, FamilyInv, StackInv
  <2>3. \A t \in Slot : /\ pc'[t] = "stack" => ~kstack'[np'[t]]
                        /\ pc'[t] \in {"build", "publish"} => kstack'[np'[t]]
    BY <1>2, <1>3, <1>4, <2>1 DEF Both, FamilyInv, StackInv, Forking
  <2> QED
    BY <2>2, <2>3 DEF StackInv
<1>7. LiveInv'
  BY <1>3, <1>5 DEF Both, FamilyInv, LiveInv
<1>8. \A t \in Slot : parent[t] \in Slot \cup {0}
  BY DEF Both, ProcInv, TypeOK
<1>9. ParentInv'
  BY <1>1, <1>2, <1>3, <1>4, <1>5, <1>8 DEF Both, FamilyInv, ParentInv, Forking
<1>10. SleepInv'
  BY <1>1, <1>2, <1>3, <1>4 DEF Both, FamilyInv, SleepInv
<1> QED
  BY <1>6, <1>7, <1>9, <1>10 DEF FamilyInv

LEMMA GiveUpFamily ==
  ASSUME Both, NEW c \in CPU, AllocStackFails(c) \/ CopyFails(c)
  PROVE  FamilyInv'
<1> USE InitprocIsSlot
<1> DEFINE s == running[c]
           n == np[s]
<1>1. pc[s] \in {"stack", "build"} /\ Executing(c)
  BY DEF AllocStackFails, CopyFails, At
<1>2. /\ s \in Slot /\ n \in Slot /\ n # s /\ ~Forking(n)
      /\ state[n] = "EMBRYO" /\ state[s] = "RUNNING"
      /\ \A t \in Slot \ {s} : Forking(t) => np[t] # n
  BY <1>1, ForkerFacts DEF Both, Forking
<1>3. /\ UNCHANGED <<parent, live, chan, killed>>
      /\ \A t \in Slot \ {n} : pgdir'[t] = pgdir[t]
      /\ \A t \in Slot : state'[t] = IF t = n THEN "UNUSED" ELSE state[t]
      /\ \A t \in Slot : pc'[t] = IF t = s THEN "user" ELSE pc[t]
      /\ \A t \in Slot : np'[t] = IF t = s THEN 0 ELSE np[t]
  BY <1>2 DEF AllocStackFails, CopyFails, GiveUp, ForkReturns, Goto, Both,
     ProcInv, TypeOK
<1>4. \A t \in Slot : kstack'[t] <=> t # n /\ kstack[t]
  <2>1. CASE AllocStackFails(c)
    BY <1>2, <2>1 DEF AllocStackFails, At, Both, FamilyInv, StackInv
  <2>2. CASE CopyFails(c)
    BY <1>2, <2>2 DEF CopyFails, Both, ProcInv, TypeOK
  <2> QED
    BY <2>1, <2>2
<1>5. \A t \in Slot : /\ (Alive(t)' <=> Alive(t)) /\ (Active(t)' <=> Active(t))
                      /\ HasSpace(t)' <=> HasSpace(t)
  BY <1>1, <1>2, <1>3 DEF Active, Alive, HasSpace
<1>6. StackInv'
  <2>1. \A t \in Slot \ {s} :
          Forking(t) => np[t] \in Slot /\ (kstack'[np[t]] <=> kstack[np[t]])
    BY <1>2, <1>4, EntriesOfForkers DEF Both
  <2>2. \A t \in Slot : /\ Active(t)' => kstack'[t]
                        /\ kstack'[t] => state'[t] # "UNUSED"
    BY <1>2, <1>3, <1>4, <1>5 DEF Both, FamilyInv, StackInv, Active, Alive
  <2>3. \A t \in Slot : /\ pc'[t] = "stack" => ~kstack'[np'[t]]
                        /\ pc'[t] \in {"build", "publish"} => kstack'[np'[t]]
    BY <1>2, <1>3, <1>4, <2>1 DEF Both, FamilyInv, StackInv, Forking
  <2> QED
    BY <2>2, <2>3 DEF StackInv
<1>7. LiveInv'
  <2>1. ~HasSpace(n)
    BY <1>1, <1>2 DEF HasSpace, Active, Alive, Forking
  <2> QED
    BY <1>3, <1>5, <2>1 DEF Both, FamilyInv, LiveInv
<1>8. \A t \in Slot : parent[t] \in Slot \cup {0}
  BY DEF Both, ProcInv, TypeOK
<1>9. ParentInv'
  BY <1>1, <1>2, <1>3, <1>5, <1>8 DEF Both, FamilyInv, ParentInv
<1>10. SleepInv'
  BY <1>1, <1>2, <1>3 DEF Both, FamilyInv, SleepInv
<1> QED
  BY <1>6, <1>7, <1>9, <1>10 DEF FamilyInv

LEMMA BuildFamily ==
  ASSUME Both, NEW c \in CPU, Build(c)
  PROVE  FamilyInv'
<1> USE InitprocIsSlot
<1> DEFINE s == running[c]
           n == np[s]
<1>1. pc[s] = "build" /\ Executing(c)
  BY DEF Build, At
<1>2. /\ s \in Slot /\ n \in Slot /\ n # s /\ ~Forking(n)
      /\ state[n] = "EMBRYO" /\ state[s] = "RUNNING"
      /\ \A t \in Slot \ {s} : Forking(t) => np[t] # n
  BY <1>1, ForkerFacts DEF Both, Forking
<1>3. /\ UNCHANGED <<state, np, kstack, chan, killed>>
      /\ \A t \in Slot : pc'[t] = IF t = s THEN "publish" ELSE pc[t]
      /\ \A t \in Slot : parent'[t] = IF t = n THEN s ELSE parent[t]
  BY <1>2 DEF Build, Goto, Both, ProcInv, TypeOK
<1>4. PICK d \in Pgdir \ live :
        /\ \A t \in Slot : pgdir'[t] = IF t = n THEN d ELSE pgdir[t]
        /\ live' = live \cup {d}
  <2>1. call[s] # "clone"
    BY <1>2 DEF Both, ProcInv, SpaceInv
  <2> QED
    BY <1>2, <2>1 DEF Build, Both, ProcInv, TypeOK
<1>5. \A t \in Slot : /\ (Alive(t)' <=> Alive(t)) /\ (Active(t)' <=> Active(t))
                      /\ HasSpace(t)' <=> HasSpace(t) \/ t = n
  BY <1>1, <1>2, <1>3 DEF Active, Alive, HasSpace
<1>6. StackInv'
  BY <1>1, <1>2, <1>3, <1>5 DEF Both, FamilyInv, StackInv
<1>7. LiveInv'
  <2>1. ~HasSpace(n)
    BY <1>1, <1>2 DEF HasSpace, Active, Alive, Forking
  <2> QED
    BY <1>2, <1>4, <1>5, <2>1 DEF Both, FamilyInv, LiveInv
<1>8. ParentInv'
  <2>1. n # initproc /\ ~Active(n)
    BY <1>2 DEF Both, FamilyInv, ParentInv, Active, Alive
  <2>2. s # 0
    BY <1>2 DEF Slot
  <2>3. \A t \in Slot : parent[t] \in Slot \cup {0}
    BY DEF Both, ProcInv, TypeOK
  <2>4. \A t \in Slot \ {s} : pc[t] = "publish" => np[t] # n
    BY <1>2 DEF Forking
  <2>5. \A t \in Slot : pc'[t] = "publish" => parent'[np'[t]] = t
    <3>1. ASSUME NEW t \in Slot \ {s}, pc[t] = "publish"
          PROVE  np[t] \in Slot \ {n} /\ parent[np[t]] = t
      BY <2>4, <3>1, EntriesOfForkers DEF Both, Forking, FamilyInv, ParentInv
    <3> QED
      BY <1>2, <1>3, <3>1
  <2> QED
    BY <1>2, <1>3, <1>5, <2>1, <2>2, <2>3, <2>5 DEF Both, FamilyInv, ParentInv
<1>9. SleepInv'
  BY <1>1, <1>2, <1>3 DEF Both, FamilyInv, SleepInv
<1> QED
  BY <1>6, <1>7, <1>8, <1>9 DEF FamilyInv

LEMMA PublishFamily ==
  ASSUME Both, NEW c \in CPU, Publish(c)
  PROVE  FamilyInv'
<1> USE InitprocIsSlot
<1> DEFINE s == running[c]
           n == np[s]
<1>1. pc[s] = "publish" /\ Executing(c)
  BY DEF Publish, At
<1>2. /\ s \in Slot /\ n \in Slot /\ n # s /\ ~Forking(n)
      /\ state[n] = "EMBRYO" /\ state[s] = "RUNNING"
      /\ \A t \in Slot \ {s} : Forking(t) => np[t] # n
  BY <1>1, ForkerFacts DEF Both, Forking
<1>3. /\ UNCHANGED <<parent, pgdir, live, kstack, chan, killed>>
      /\ \A t \in Slot : state'[t] = IF t = n THEN "RUNNABLE" ELSE state[t]
      /\ \A t \in Slot : pc'[t] = IF t = s THEN "user" ELSE pc[t]
      /\ \A t \in Slot : np'[t] = IF t = s THEN 0 ELSE np[t]
  BY <1>2 DEF Publish, ForkReturns, Goto, Both, ProcInv, TypeOK
<1>4. \A t \in Slot : /\ Alive(t)' <=> Alive(t) \/ t = n
                      /\ Active(t)' <=> Active(t) \/ t = n
                      /\ HasSpace(t)' <=> HasSpace(t)
  BY <1>1, <1>2, <1>3 DEF Active, Alive, HasSpace
<1>5. parent[n] = s /\ kstack[n]
  BY <1>1, <1>2 DEF Both, FamilyInv, ParentInv, StackInv
<1>6. StackInv'
  BY <1>1, <1>2, <1>3, <1>4, <1>5 DEF Both, FamilyInv, StackInv
<1>7. LiveInv'
  BY <1>3, <1>4 DEF Both, FamilyInv, LiveInv
<1>8. ParentInv'
  <2>1. s # 0 /\ Alive(s)
    BY <1>2 DEF Slot, Alive
  <2>2. \A t \in Slot : parent[t] \in Slot \cup {0}
    BY DEF Both, ProcInv, TypeOK
  <2> QED
    BY <1>1, <1>2, <1>3, <1>4, <1>5, <2>1, <2>2 DEF Both, FamilyInv, ParentInv
<1>9. SleepInv'
  BY <1>1, <1>2, <1>3 DEF Both, FamilyInv, SleepInv
<1> QED
  BY <1>6, <1>7, <1>8, <1>9 DEF FamilyInv

LEMMA ExecFamily ==
  ASSUME Both, NEW c \in CPU, Exec(c)
  PROVE  FamilyInv'
<1> USE InitprocIsSlot
<1> DEFINE s == running[c]
<1>1. s \in Slot /\ state[s] = "RUNNING"
  BY ExecutingIsRunning DEF Both, Exec, MayCall
<1>2. UNCHANGED <<state, parent, kstack, chan, killed, pc, np>>
  BY DEF Exec, localVars
<1>3. PICK d \in Pgdir \ live :
        /\ \A t \in Slot : pgdir'[t] = IF t = s THEN d ELSE pgdir[t]
        /\ live' = (live \cup {d}) \ {pgdir[s]}
  BY <1>1 DEF Exec, Both, ProcInv, TypeOK
<1>4. \A t \in Slot : /\ (Alive(t)' <=> Alive(t)) /\ (Active(t)' <=> Active(t))
                      /\ HasSpace(t)' <=> HasSpace(t)
  BY <1>2 DEF Active, Alive, HasSpace
<1>5. HasSpace(s)
  BY <1>1 DEF HasSpace, Active, Alive
<1>6. LiveInv'
  BY <1>1, <1>3, <1>4, <1>5 DEF Both, FamilyInv, LiveInv
<1>7. StackInv' /\ ParentInv' /\ SleepInv'
  BY <1>2, <1>4 DEF Both, FamilyInv, StackInv, ParentInv, SleepInv, Alive
<1> QED
  BY <1>6, <1>7 DEF FamilyInv

-----------------------------------------------------------------------------
(* wait(), sleep() and exit() *)

\* Every child is in an address space of its own: ChildrenOf is all of them.
LEMMA ChildrenAreChildren ==
  ASSUME Both, NEW s \in Slot, Active(s), NEW p \in Slot, parent[p] = s
  PROVE  p \in ChildrenOf(s)
<1>1. p # s
  BY DEF Both, FamilyInv, ParentInv
<1>2. p \notin ThreadsOf(s)
  BY <1>1, NoThreads DEF Both
<1> QED
  BY <1>2 DEF ChildrenOf, ThreadsOf

LEMMA SleepFamily ==
  ASSUME Both, NEW s \in Slot, state[s] = "RUNNING", ~Forking(s),
         state' = [state EXCEPT ![s] = "SLEEPING"],
         UNCHANGED <<parent, pgdir, live, kstack, np, pc, killed>>,
         \A t \in Slot \ {s} : chan'[t] = chan[t],
         pc[s] = "wait" =>
           /\ chan'[s] = s /\ ~killed[s]
           /\ \A p \in Slot : parent[p] = s => state[p] # "ZOMBIE"
  PROVE  FamilyInv'
<1> USE InitprocIsSlot
<1>1. \A t \in Slot : state'[t] = IF t = s THEN "SLEEPING" ELSE state[t]
  BY DEF Both, ProcInv, TypeOK
<1>2. \A t \in Slot : /\ (Alive(t)' <=> Alive(t)) /\ (Active(t)' <=> Active(t))
                      /\ HasSpace(t)' <=> HasSpace(t)
  BY <1>1 DEF Active, Alive, HasSpace
<1>3. StackInv' /\ LiveInv'
  BY <1>1, <1>2 DEF Both, FamilyInv, StackInv, LiveInv
<1>4. \A t \in Slot : parent[t] \in Slot \cup {0}
  BY DEF Both, ProcInv, TypeOK
<1>5. ParentInv'
  BY <1>2, <1>4 DEF Both, FamilyInv, ParentInv
<1>6. SleepInv'
  BY <1>1 DEF Both, FamilyInv, SleepInv
<1> QED
  BY <1>3, <1>5, <1>6 DEF FamilyInv

LEMMA DozeFamily == ASSUME Both, NEW c \in CPU, Doze(c) PROVE FamilyInv'
<1> DEFINE s == running[c]
<1>1. s \in Slot /\ state[s] = "RUNNING" /\ pc[s] = "doze"
  BY ExecutingIsRunning DEF Both, Doze, MayAcquire, At
<1>2. /\ state' = [state EXCEPT ![s] = "SLEEPING"]
      /\ UNCHANGED <<parent, pgdir, live, kstack, np, pc, killed>>
  BY DEF Doze, SleepOn, localVars
<1>3. \A t \in Slot \ {s} : chan'[t] = chan[t]
  BY DEF Doze, SleepOn, Both, ProcInv, TypeOK
<1> QED
  BY <1>1, <1>2, <1>3, SleepFamily DEF Forking

\* Reaping a zombie child: nobody has it as a parent.
LEMMA ReapFamily ==
  ASSUME Both, NEW s \in Slot, state[s] = "RUNNING", ~Forking(s),
         NEW p \in Slot, state[p] = "ZOMBIE", parent[p] = s, Reap(p),
         live' = live \ {pgdir[p]}, Goto(s, "user"), Awake(s),
         UNCHANGED <<pgdir, np>>
  PROVE  FamilyInv'
<1> USE InitprocIsSlot
<1>1. /\ p # s /\ p # initproc /\ ~Alive(p) /\ Active(p) /\ HasSpace(p)
      /\ 0 \notin Slot
  BY DEF Both, FamilyInv, ParentInv, Alive, Active, HasSpace, Slot
<1>2. /\ \A t \in Slot : state'[t] = IF t = p THEN "UNUSED" ELSE state[t]
      /\ \A t \in Slot : parent'[t] = IF t = p THEN 0 ELSE parent[t]
      /\ \A t \in Slot : kstack'[t] <=> t # p /\ kstack[t]
      /\ \A t \in Slot : pc'[t] = IF t = s THEN "user" ELSE pc[t]
      /\ \A t \in Slot \ {s} : chan'[t] = chan[t]
      /\ \A t \in Slot \ {p} : killed'[t] = killed[t]
  BY DEF Reap, Goto, Awake, Both, ProcInv, TypeOK
<1>3. \A t \in Slot : Forking(t) => np[t] \in Slot \ {p}
  BY EntriesOfForkers DEF Both
<1>4. \A t \in Slot : /\ (Alive(t)' <=> Alive(t))
                      /\ Active(t)' <=> Active(t) /\ t # p
                      /\ HasSpace(t)' <=> HasSpace(t) /\ t # p
  <2>1. \A t \in Slot : pc'[t] = "publish" <=> pc[t] = "publish"
    BY <1>2 DEF Forking
  <2> QED
    BY <1>1, <1>2, <1>3, <2>1 DEF Active, Alive, HasSpace, Forking
<1>5. StackInv'
  <2>1. \A t \in Slot : /\ Active(t)' => kstack'[t]
                        /\ kstack'[t] => state'[t] # "UNUSED"
    BY <1>2, <1>4 DEF Both, FamilyInv, StackInv
  <2>2. \A t \in Slot : /\ pc'[t] = "stack" => ~kstack'[np'[t]]
                        /\ pc'[t] \in {"build", "publish"} => kstack'[np'[t]]
    BY <1>2, <1>3 DEF Both, FamilyInv, StackInv, Forking
  <2> QED
    BY <2>1, <2>2 DEF StackInv
<1>6. LiveInv'
  BY <1>4 DEF Both, FamilyInv, LiveInv
<1>7. ParentInv'
  <2>1. \A t \in Slot : parent[t] \in Slot \cup {0}
    BY DEF Both, ProcInv, TypeOK
  <2>2. Alive(initproc)' /\ parent'[initproc] = 0
        /\ pc'[initproc] \notin {"exit", "dead"}
    BY <1>1, <1>2, <1>4 DEF Both, FamilyInv, ParentInv
  <2>3. \A t \in Slot : pc'[t] = "publish" => parent'[np'[t]] = t
    BY <1>2, <1>3 DEF Both, FamilyInv, ParentInv, Forking
  <2>4. \A t \in Slot : parent'[t] # t
    BY <1>1, <1>2 DEF Both, FamilyInv, ParentInv
  <2>5. \A t \in Slot : t # initproc /\ Active(t)'
                          => (parent[t] # 0 /\ Alive(parent[t]))'
    BY <1>2, <1>4, <2>1 DEF Both, FamilyInv, ParentInv
  <2> QED
    BY <2>2, <2>3, <2>4, <2>5 DEF ParentInv
<1>8. SleepInv'
  BY <1>1, <1>2 DEF Both, FamilyInv, SleepInv
<1> QED
  BY <1>5, <1>6, <1>7, <1>8 DEF FamilyInv

LEMMA WaitFamily ==
  ASSUME Both, NEW c \in CPU, Wait(c) \/ Join(c)
  PROVE  FamilyInv'
<1> DEFINE s == running[c]
           zombies == ChildrenOf(s) \cap Having("ZOMBIE")
<1>1. s \in Slot /\ ~Forking(s) /\ state[s] = "RUNNING"
  BY ScanFacts DEF Both
<1>2. Wait(c) /\ pc[s] = "wait"
  BY <1>1 DEF Both, FamilyInv, SleepInv, Wait, Join, MayScan, At
<1>3. UNCHANGED <<pgdir, np>>
  BY <1>2 DEF Wait
<1>4. ASSUME NEW p \in Slot, IsFirst(p, zombies), Reap(p),
             live' = live \ {pgdir[p]}, Awake(s), Goto(s, "user")
      PROVE  FamilyInv'
  <2>1. state[p] = "ZOMBIE" /\ parent[p] = s
    BY <1>4 DEF IsFirst, Having, ChildrenOf
  <2> QED
    BY <1>1, <1>3, <1>4, <2>1, ReapFamily
<1>5. CASE Awake(s) /\ Goto(s, "user")
           /\ UNCHANGED <<state, pid, parent, killed, kstack, live>>
  <2>1. Quiet
    BY <1>1, <1>3, <1>5
    DEF Quiet, Awake, Goto, Both, ProcInv, TypeOK, Settled, Place
  <2> QED
    BY <2>1, QuietFamily
<1>6. CASE /\ zombies = {} /\ ~killed[s] /\ SleepOn(c, s)
           /\ UNCHANGED <<pid, parent, killed, kstack, live, pc>>
  <2>1. \A p \in Slot : parent[p] = s => state[p] # "ZOMBIE"
    BY <1>1, <1>6, ChildrenAreChildren DEF Having, Active, Alive
  <2>2. /\ chan'[s] = s /\ \A t \in Slot \ {s} : chan'[t] = chan[t]
        /\ state' = [state EXCEPT ![s] = "SLEEPING"]
    BY <1>1, <1>6 DEF SleepOn, Both, ProcInv, TypeOK
  <2> QED
    BY <1>1, <1>2, <1>3, <1>6, <2>1, <2>2, SleepFamily
<1> QED
  BY <1>2, <1>4, <1>5, <1>6 DEF Wait, Collect

\* exit(): the children pass to init, and whoever waits for the new zombie, or
\* inherits one, is woken.
LEMMA ExitFamily == ASSUME Both, NEW c \in CPU, ExitLocked(c) PROVE FamilyInv'
<1> USE InitprocIsSlot
<1> DEFINE s == running[c]
<1>1. s \in Slot /\ state[s] = "RUNNING" /\ pc[s] = "exit" /\ s # initproc
  BY ExecutingIsRunning DEF Both, FamilyInv, ParentInv, ExitLocked, MayAcquire, At
<1>2. Active(s) /\ HasSpace(s) /\ s # 0
  BY <1>1 DEF Active, Alive, HasSpace, Slot
<1>3. /\ UNCHANGED <<pgdir, live, kstack, np, chan, killed>>
      /\ \A t \in Slot : pc'[t] = IF t = s THEN "dead" ELSE pc[t]
  BY <1>1 DEF ExitLocked, Goto, Both, ProcInv, TypeOK
<1>4. \A t \in Slot : parent'[t] = IF parent[t] = s THEN initproc ELSE parent[t]
  BY <1>1, <1>2, ChildrenAreChildren DEF ExitLocked, Reparent, ChildrenOf
<1>5. ThreadsOf(s) \subseteq {s}
  BY <1>1, <1>2, NoThreads DEF Both
<1>6. \A t \in Slot : IF t = s THEN state'[t] = "ZOMBIE"
                      ELSE \/ state'[t] = state[t]
                           \/ state[t] = "SLEEPING" /\ state'[t] = "RUNNABLE"
  BY <1>5 DEF ExitLocked, AfterExit, Wakeup1
<1>7. \A t \in Slot \ {s} : chan[t] = parent[s] => state'[t] # "SLEEPING"
  BY <1>5 DEF ExitLocked, AfterExit, Wakeup1
<1>8. ASSUME NEW p \in Slot, parent[p] = s, state[p] = "ZOMBIE",
             NEW t \in Slot \ {s}, chan[t] = initproc
      PROVE  state'[t] # "SLEEPING"
  <2>1. p \in ChildrenOf(s) \cap Having("ZOMBIE")
    BY <1>1, <1>2, <1>8, ChildrenAreChildren DEF Having
  <2> QED
    BY <1>5, <1>8, <2>1 DEF ExitLocked, AfterExit, Wakeup1
<1>9. \A t \in Slot : /\ Alive(t)' <=> Alive(t) /\ t # s
                      /\ Active(t)' <=> Active(t)
                      /\ HasSpace(t)' <=> HasSpace(t)
  <2>1. \A t \in Slot : pc'[t] = "publish" <=> pc[t] = "publish"
    BY <1>1, <1>3
  <2> QED
    BY <1>1, <1>3, <1>6, <2>1 DEF Active, Alive, HasSpace
<1>10. StackInv'
  BY <1>1, <1>3, <1>6, <1>9 DEF Both, FamilyInv, StackInv
<1>11. LiveInv'
  BY <1>3, <1>9 DEF Both, FamilyInv, LiveInv
<1>12. ParentInv'
  <2>1. \A t \in Slot : parent[t] \in Slot \cup {0}
    BY DEF Both, ProcInv, TypeOK
  <2>2. Alive(initproc)' /\ parent'[initproc] = 0
        /\ pc'[initproc] \notin {"exit", "dead"}
    BY <1>1, <1>2, <1>3, <1>4, <1>9 DEF Both, FamilyInv, ParentInv
  <2>3. \A t \in Slot : parent'[t] # t
    BY <1>2, <1>4 DEF Both, FamilyInv, ParentInv
  <2>4. ASSUME NEW t \in Slot, pc[t] = "publish"
        PROVE  np[t] \in Slot /\ parent[np[t]] = t
    BY <2>4, EntriesOfForkers DEF Both, Forking, FamilyInv, ParentInv
  <2>5. \A t \in Slot : pc'[t] = "publish" => parent'[np'[t]] = t
    BY <1>3, <1>4, <2>4
  <2> QED
    BY <1>2, <1>4, <1>9, <2>1, <2>2, <2>3, <2>5 DEF Both, FamilyInv, ParentInv
<1>13. SleepInv'
  <2>1. \A t \in Slot : pc'[t] # "join"
    BY <1>3 DEF Both, FamilyInv, SleepInv
  <2>2. ASSUME NEW t \in Slot, state'[t] = "SLEEPING", pc'[t] = "wait"
        PROVE  /\ t # s /\ chan'[t] = t /\ ~killed'[t]
               /\ \A p \in Slot : parent[p] = t => state[p] # "ZOMBIE"
    BY <1>1, <1>3, <1>6, <2>2 DEF Both, FamilyInv, SleepInv
  <2>3. ASSUME NEW t \in Slot, state'[t] = "SLEEPING", pc'[t] = "wait",
               NEW p \in Slot, parent'[p] = t
        PROVE  state'[p] # "ZOMBIE"
    <3>1. CASE p = s
      BY <1>1, <1>3, <1>4, <1>7, <2>2, <2>3, <3>1 DEF Both, FamilyInv, ParentInv
    <3>2. CASE p # s /\ parent[p] = s
      BY <1>3, <1>4, <1>6, <1>8, <2>2, <2>3, <3>2
    <3>3. CASE p # s /\ parent[p] # s
      BY <1>4, <1>6, <2>2, <2>3, <3>3
    <3> QED
      BY <3>1, <3>2, <3>3
  <2> QED
    BY <2>1, <2>2, <2>3 DEF SleepInv
<1> QED
  BY <1>10, <1>11, <1>12, <1>13 DEF FamilyInv

-----------------------------------------------------------------------------
(* The theorems *)

LEMMA NextFamily ==
  ASSUME Both, [Next]_vars
  PROVE  FamilyInv'
<1>1. CASE UNCHANGED vars
  <2>1. Quiet
    BY <1>1 DEF vars, Quiet
  <2> QED
    BY <2>1, QuietFamily
<1>2. CASE Clock
  BY <1>2, ClockFamily
<1>3. ASSUME NEW c \in CPU, ProgramStep(c) PROVE FamilyInv'
  BY <1>3, EnterFamily, ExecFamily DEF ProgramStep
<1>4. ASSUME NEW c \in CPU, KernelStep(c) PROVE FamilyInv'
  BY <1>4, AllocProcFamily, AllocStackFamily, GiveUpFamily, BuildFamily,
     PublishFamily, WaitFamily, ExitFamily, KillFamily, EnterFamily, DozeFamily,
     ScheduleFamily DEF KernelStep
<1>5. ASSUME NEW c \in CPU, TimerTrap(c) \/ ScheduleStep(c) PROVE FamilyInv'
  BY <1>5, ScheduleFamily
<1> QED
  BY <1>1, <1>2, <1>3, <1>4, <1>5 DEF Next

\* Without clone(), FamilyInv holds throughout beside ProcInv.
THEOREM FamilyInvariant ==
  ASSUME Threads = FALSE
  PROVE  Spec => [](ProcInv /\ FamilyInv)
<1>1. Init => ProcInv /\ FamilyInv
  BY InitTypeOK, InitInv, InitFamily DEF ProcInv, InvParts
<1>2. ASSUME ProcInv, FamilyInv, [Next]_vars
      PROVE  (ProcInv /\ FamilyInv)'
  <2>1. ProcInv'
    BY <1>2, NextInv
  <2>2. FamilyInv'
    BY <1>2, NextFamily DEF Both
  <2> QED
    BY <2>1, <2>2
<1> QED
  BY <1>1, <1>2, PTL DEF Spec

\* Kernel stacks and page directories are owned: who runs or may be picked has a
\* stack, a free entry holds none, and the allocated directories are exactly
\* those of the processes and of the children that fork() is about to publish.
THEOREM MemoryAlwaysOwned ==
  ASSUME Threads = FALSE
  PROVE  Spec => []MemoryOwned
<1>1. ProcInv /\ FamilyInv => StacksOwned
  BY DEF ProcInv, TypeOK, CpuInv, FamilyInv, StackInv, StacksOwned
<1>2. ProcInv /\ FamilyInv => AddressSpacesExact
  <2> SUFFICES ASSUME ProcInv, FamilyInv PROVE AddressSpacesExact
    OBVIOUS
  <2> DEFINE used == {pgdir[s] : s \in {t \in Slot : Active(t)}}
             made == {pgdir[np[s]] : s \in {t \in Slot : pc[t] = "publish"}}
  <2>1. live \subseteq used \cup made
    BY DEF FamilyInv, LiveInv, HasSpace
  <2>2. used \subseteq live
    BY DEF ProcInv, SpaceInv, HasSpace
  <2>3. \A t \in Slot : pc[t] = "publish" => np[t] \in Slot /\ HasSpace(np[t])
    BY EntriesOfForkers DEF Forking, HasSpace
  <2>4. made \subseteq live
    BY <2>3 DEF ProcInv, SpaceInv
  <2> QED
    BY <2>1, <2>2, <2>4 DEF AddressSpacesExact
<1>3. ProcInv /\ FamilyInv => MemoryOwned
  BY <1>1, <1>2 DEF MemoryOwned
<1> QED
  BY <1>3, FamilyInvariant, PTL

\* Whoever exits leaves a zombie that a living parent, awake or about to be, can
\* collect; nobody who has been killed sleeps on in wait().
THEOREM ExitsAlwaysNoticed ==
  ASSUME Threads = FALSE
  PROVE  Spec => []ExitsNoticed
<1>1. ProcInv /\ FamilyInv => ParentAlive
  BY DEF FamilyInv, ParentInv, ParentAlive
<1>2. ProcInv /\ FamilyInv => NoLostWakeup
  BY DEF FamilyInv, SleepInv, NoLostWakeup, ChildrenOf, Having
<1>3. ProcInv /\ FamilyInv => ExitsNoticed
  BY <1>1, <1>2 DEF ExitsNoticed
<1> QED
  BY <1>3, FamilyInvariant, PTL
=============================================================================
