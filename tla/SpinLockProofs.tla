--------------------------- MODULE SpinLockProofs ---------------------------
(***************************************************************************)
(* Proofs about SpinLock, for every number of processors, processes and    *)
(* locks: its type invariant, mutual exclusion, that holding() tells the   *)
(* truth, that interrupts come back on as they were, and that nobody spins *)
(* for a lock of its own processor.                                        *)
(***************************************************************************)
EXTENDS SpinLock, FiniteSetTheorems, TLAPS

LEMMA FrameShape ==
  /\ \A c \in CPU : c \in Context
  /\ \A t \in Context, k \in {0, 1} : <<t, k>> \in Frame
  /\ \A f \in Frame : f = <<f[1], f[2]>> /\ f[1] \in Context /\ f[2] \in {0, 1}
  /\ PT \in Lock /\ Outer \subseteq Lock
  BY DEF Frame, Context, Lock

LEMMA CurFrame ==
  ASSUME TypeOK, NEW c \in CPU
  PROVE  Cur(c) \in Frame
  BY FrameShape DEF TypeOK, Cur

LEMMA InitTypeOK == ASSUME Init PROVE TypeOK
  BY FrameShape DEF Init, TypeOK, Context, Lock, Place, Op

LEMMA CallAcquireTypeOK ==
  ASSUME TypeOK, NEW c \in CPU, NEW f \in Frame, NEW l \in Lock, NEW o \in Op,
         CallAcquire(c, f, l, o), back' \in [Frame -> Lock]
  PROVE  TypeOK'
  BY DEF TypeOK, CallAcquire, lockVars, cpuVars, switchVars, Place

LEMMA CallReleaseTypeOK ==
  ASSUME TypeOK, NEW c \in CPU, NEW f \in Frame, NEW l \in Lock, NEW o \in Op,
         CallRelease(c, f, l, o), ncli' = ncli, FL_IF' = FL_IF,
         intena' \in [CPU -> BOOLEAN], saved' \in [Frame -> BOOLEAN]
  PROVE  TypeOK'
  BY DEF TypeOK, CallRelease, switchVars, Place

LEMMA GoOnTypeOK ==
  ASSUME TypeOK, NEW f \in Frame, NEW q \in Place, GoOn(f, q)
  PROVE  /\ pc' \in [Frame -> Place]
         /\ op' \in [Frame -> Op]
         /\ arg' \in [Frame -> Lock]
         /\ back' \in [Frame -> Lock]
<1>1. PT \in Lock /\ "section" \in Op
  BY FrameShape DEF Op
<1>2. pc' \in [Frame -> Place] /\ arg' \in [Frame -> Lock]
  BY <1>1 DEF TypeOK, GoOn
<1>3. op' = op \/ op' = [op EXCEPT ![f] = "section"]
  BY DEF GoOn
<1>4. back' = back \/ back' = [back EXCEPT ![f] = PT]
  BY DEF GoOn
<1>5. op' \in [Frame -> Op]
  BY <1>1, <1>3 DEF TypeOK
<1>6. back' \in [Frame -> Lock]
  BY <1>1, <1>4 DEF TypeOK
<1> QED
  BY <1>2, <1>5, <1>6

LEMMA LockStepTypeOK ==
  ASSUME TypeOK, NEW c \in CPU, LockStep(c)
  PROVE  TypeOK'
<1> DEFINE f == Cur(c)
<1> f \in Frame
  BY CurFrame
<1> HIDE DEF f
<1>1. CASE PushCli(c)
  BY <1>1 DEF PushCli, f, TypeOK, lockVars, switchVars, Place
<1>2. CASE ReadLocked(c)
  BY <1>2 DEF ReadLocked, f, TypeOK, lockVars, cpuVars, switchVars, Place
<1>3. CASE ReadCpu(c)
  BY <1>3 DEF ReadCpu, f, TypeOK, lockVars, cpuVars, switchVars, Place
<1>4. CASE Xchg(c)
  BY <1>4 DEF Xchg, f, TypeOK, cpuVars, switchVars, Place
<1>5. CASE Acquired(c)
  <2>1. AfterAcquire(f) \in Place
    BY DEF AfterAcquire, Place
  <2>2. /\ pc' \in [Frame -> Place] /\ op' \in [Frame -> Op]
        /\ arg' \in [Frame -> Lock] /\ back' \in [Frame -> Lock]
    BY <1>5, <2>1, GoOnTypeOK DEF Acquired, f
  <2> QED
    BY <1>5, <2>2 DEF Acquired, f, TypeOK, cpuVars, switchVars
<1>6. CASE Unlock(c)
  BY <1>6 DEF Unlock, f, TypeOK, cpuVars, switchVars, Place
<1>7. CASE PopCli(c)
  <2>1. AfterRelease(f) \in Place
    BY DEF AfterRelease, Place
  <2>2. /\ pc' \in [Frame -> Place] /\ op' \in [Frame -> Op]
        /\ arg' \in [Frame -> Lock] /\ back' \in [Frame -> Lock]
    BY <1>7, <2>1, GoOnTypeOK DEF PopCli, f, TypeOK, Place
  <2>3. ncli' \in [CPU -> Nat]
    <3>1. ncli[c] = 0 \/ ncli[c] - 1 \in Nat
      BY DEF TypeOK
    <3> QED
      BY <1>7, <3>1 DEF PopCli, f, TypeOK
  <2>4. FL_IF' \in [CPU -> BOOLEAN]
    BY <1>7 DEF PopCli, f, TypeOK
  <2> QED
    BY <1>7, <2>2, <2>3, <2>4 DEF PopCli, TypeOK, lockVars, switchVars
<1> QED
  BY <1>1, <1>2, <1>3, <1>4, <1>5, <1>6, <1>7 DEF LockStep

LEMMA ProcessStepTypeOK ==
  ASSUME TypeOK, NEW c \in CPU, ProcessStep(c)
  PROVE  TypeOK'
<1> DEFINE f == Cur(c)
<1> f \in Frame /\ PT \in Lock /\ Outer \subseteq Lock
  BY CurFrame, FrameShape
<1> HIDE DEF f
<1>1. CASE \E l \in Lock : Acquire(c, l)
  BY <1>1, CallAcquireTypeOK DEF Acquire, f, Op, TypeOK
<1>2. CASE \E l \in Lock : Release(c, l)
  BY <1>2, CallReleaseTypeOK DEF Release, f, Op, TypeOK, cpuVars
<1>3. CASE \E l \in Lock : Sleep(c, l)
  BY <1>3, CallAcquireTypeOK DEF Sleep, f, Op, TypeOK
<1>4. CASE SleepDropsLock(c)
  BY <1>4, CallReleaseTypeOK DEF SleepDropsLock, f, Op, TypeOK, cpuVars
<1>5. CASE SleepOnTable(c)
  BY <1>5 DEF SleepOnTable, f, TypeOK, lockVars, cpuVars, switchVars, Op, Place
<1>6. CASE SleepRetakesLock(c)
  BY <1>6, CallAcquireTypeOK DEF SleepRetakesLock, f, Op, TypeOK
<1>7. CASE Yield(c)
  BY <1>7, CallAcquireTypeOK DEF Yield, f, Op, TypeOK
<1>8. CASE Exit(c)
  BY <1>8, CallAcquireTypeOK DEF Exit, f, Op, TypeOK
<1>9. CASE Sched(c)
  <2>1. <<f[1], 0>> \in Frame /\ <<c, 0>> \in Frame /\ f[1] \in Context /\ c \in Context
    BY FrameShape
  <2>2. pc' \in [Frame -> Place] /\ op' \in [Frame -> Op]
    BY <1>9, <2>1 DEF Sched, f, TypeOK, Op, Place
  <2>3. running' \in [CPU -> Context] /\ level' \in [Context -> {0, 1}]
    BY <1>9, <2>1 DEF Sched, f, TypeOK, switchVars
  <2>4. saved' \in [Frame -> BOOLEAN]
    BY <1>9 DEF Sched, f, TypeOK
  <2>5. held' \in [Frame -> SUBSET Lock]
    <3> DEFINE h == [held EXCEPT ![f] = @ \ {PT}]
    <3>1. held \in [Frame -> SUBSET Lock] /\ h \in [Frame -> SUBSET Lock]
      BY DEF TypeOK
    <3>2. held' = held \/ held' = [h EXCEPT ![<<c, 0>>] = @ \cup {PT}]
      BY <1>9 DEF Sched, f
    <3> QED
      BY <2>1, <3>1, <3>2
  <2> QED
    BY <1>9, <2>2, <2>3, <2>4, <2>5 DEF Sched, TypeOK, lockVars, cpuVars
<1>10. CASE Resumed(c)
  <2>1. CASE op[f] = "sleep" /\ back[f] = PT
    <3>1. GoOn(f, "run")
      BY <1>10, <2>1 DEF Resumed, f
    <3>2. /\ pc' \in [Frame -> Place] /\ op' \in [Frame -> Op]
          /\ arg' \in [Frame -> Lock] /\ back' \in [Frame -> Lock]
      BY <3>1, GoOnTypeOK DEF Place
    <3> QED
      BY <1>10, <2>1, <3>2 DEF Resumed, f, TypeOK, lockVars, switchVars
  <2>2. CASE ~ (op[f] = "sleep" /\ back[f] = PT)
    <3>1. CallRelease(c, f, PT, op[f])
      BY <1>10, <2>2 DEF Resumed, f
    <3>2. op[f] \in Op /\ intena' \in [CPU -> BOOLEAN] /\ saved' \in [Frame -> BOOLEAN]
      BY <1>10 DEF Resumed, f, TypeOK
    <3> QED
      BY <1>10, <3>1, <3>2, CallReleaseTypeOK DEF Resumed
  <2> QED
    BY <2>1, <2>2
<1>11. CASE ForkRet(c)
  BY <1>11, CallReleaseTypeOK DEF ForkRet, f, Op, TypeOK, cpuVars
<1>12. CASE ReturnToUser(c)
  BY <1>12 DEF ReturnToUser, f, TypeOK, lockVars, switchVars, Place
<1> QED
  BY <1>1, <1>2, <1>3, <1>4, <1>5, <1>6, <1>7, <1>8, <1>9, <1>10, <1>11, <1>12
     DEF ProcessStep

LEMMA SchedulerStepTypeOK ==
  ASSUME TypeOK, NEW c \in CPU,
         SchedulerStep(c) \/ Interrupt(c) \/ InterruptReturns(c)
  PROVE  TypeOK'
<1> DEFINE f == Cur(c)
<1> f \in Frame /\ PT \in Lock
  BY CurFrame, FrameShape
<1> HIDE DEF f
<1>1. CASE Sti(c)
  BY <1>1 DEF Sti, f, TypeOK, lockVars, switchVars, Place
<1>2. CASE StartScan(c)
  BY <1>2, CallAcquireTypeOK DEF StartScan, f, Op, TypeOK
<1>3. CASE EndScan(c)
  BY <1>3, CallReleaseTypeOK DEF EndScan, f, Op, TypeOK, cpuVars
<1>4. ASSUME NEW p \in Proc, Pick(c, p)
      PROVE  TypeOK'
  <2>1. p \in Context /\ <<p, level[p]>> \in Frame
    BY FrameShape DEF Context, TypeOK
  <2>2. running' \in [CPU -> Context]
    BY <1>4, <2>1 DEF Pick, TypeOK
  <2>3. held' \in [Frame -> SUBSET Lock]
    BY <1>4, <2>1 DEF Pick, f, TypeOK
  <2> QED
    BY <1>4, <2>2, <2>3 DEF Pick, TypeOK, lockVars, cpuVars
<1>5. CASE Interrupt(c)
  BY <1>5 DEF Interrupt, TypeOK, lockVars, frameVars
<1>6. CASE InterruptReturns(c)
  BY <1>6 DEF InterruptReturns, TypeOK, lockVars, frameVars
<1> QED
  BY <1>1, <1>2, <1>3, <1>4, <1>5, <1>6 DEF SchedulerStep

LEMMA NextTypeOK == ASSUME TypeOK, [Next]_vars PROVE TypeOK'
<1>1. CASE Next
  BY <1>1, LockStepTypeOK, ProcessStepTypeOK, SchedulerStepTypeOK DEF Next
<1>2. CASE UNCHANGED vars
  BY <1>2 DEF TypeOK, vars
<1> QED
  BY <1>1, <1>2

\* Locks, processors and frames keep their shape (struct spinlock, struct cpu).
THEOREM LockTypeCorrect == Spec => []TypeOK
<1>1. Init => TypeOK
  BY InitTypeOK
<1>2. TypeOK /\ [Next]_vars => TypeOK'
  BY NextTypeOK
<1> QED
  BY <1>1, <1>2, PTL DEF Spec

-----------------------------------------------------------------------------
(* Mutual exclusion *)

\* Nothing moves but the frame f.
Only(f) ==
  \A g \in Frame : g # f =>
     /\ pc'[g] = pc[g]
     /\ op'[g] = op[g]
     /\ arg'[g] = arg[g]
     /\ back'[g] = back[g]
     /\ held'[g] = held[g]

\* What f newly owns was free, and what becomes free f has given up.
FairDealing(f) ==
  \A l \in Lock :
     /\ Owns(f, l)' => locked'[l] /\ (Owns(f, l) \/ ~ locked[l])
     /\ locked[l] /\ ~ locked'[l] => Owns(f, l)

LEMMA GoOnMovesOne ==
  ASSUME TypeOK, NEW f \in Frame, NEW q, GoOn(f, q), NEW g \in Frame, g # f
  PROVE  /\ pc'[g] = pc[g]
         /\ op'[g] = op[g]
         /\ arg'[g] = arg[g]
         /\ back'[g] = back[g]
<1>1. pc'[g] = pc[g] /\ arg'[g] = arg[g]
  BY DEF TypeOK, GoOn
<1>2. op'[g] = op[g] /\ back'[g] = back[g]
  BY DEF TypeOK, GoOn
<1> QED
  BY <1>1, <1>2

LEMMA RunningNotSuspended ==
  ASSUME LockInv, NEW c \in CPU
  PROVE  ~ Suspended(running[c])
  BY SpinLockAssumption DEF LockInv, RunInv, Suspended

LEMMA MutexStep ==
  ASSUME Mutex, NEW f \in Frame, Only(f), FairDealing(f)
  PROVE  Mutex'
<1> SUFFICES ASSUME NEW l \in Lock, NEW g \in Frame, Owns(g, l)'
             PROVE  locked'[l] /\ \A h \in Frame : Owns(h, l)' => h = g
  BY DEF Mutex
<1>1. \A h \in Frame : h # f => (Owns(h, l)' <=> Owns(h, l))
  BY DEF Only, Owns
<1>2. \A h \in Frame : Owns(h, l) => locked[l] /\ \A k \in Frame : Owns(k, l) => k = h
  BY DEF Mutex
<1>3. /\ Owns(f, l)' => locked'[l] /\ (Owns(f, l) \/ ~ locked[l])
      /\ locked[l] /\ ~ locked'[l] => Owns(f, l)
  BY DEF FairDealing
<1> QED
  BY <1>1, <1>2, <1>3

\* A step of the frame that c executes, without a context switch.
LEMMA LocalStep ==
  ASSUME LockInv, TypeOK', NEW c \in CPU, NEW f \in Frame, f = Cur(c),
         UNCHANGED switchVars, Only(f), FairDealing(f), FrameInv(f)', KindInv(f)',
         pc'[f] \in Handover => PT \in held'[f]
  PROVE  LockInv'
<1> DEFINE t == running[c]
<1>1. f \in Frame /\ t \in Context /\ f = <<t, level[t]>> /\ level[t] \in {0, 1}
  BY CurFrame DEF LockInv, TypeOK, Cur
<1>2. \A g \in Frame : g # f => /\ pc'[g] = pc[g]
                               /\ op'[g] = op[g]
                               /\ arg'[g] = arg[g]
                               /\ back'[g] = back[g]
                               /\ held'[g] = held[g]
  BY DEF Only
<1>3. Mutex'
  BY <1>1, MutexStep DEF LockInv
<1>4. RunInv' /\ \A u \in Context : Suspended(u)' <=> Suspended(u)
  BY DEF LockInv, RunInv, Suspended, switchVars
<1>5. \A g \in Frame : FrameInv(g)' /\ KindInv(g)'
  <2>1. ASSUME NEW g \in Frame, g # f
        PROVE  FrameInv(g)' /\ KindInv(g)'
    BY <1>2, <2>1 DEF LockInv, FrameInv, KindInv
  <2> QED
    BY <2>1
<1>6. ASSUME NEW u \in Context
      PROVE  ContextInv(u)'
  <2>1. <<u, 0>> \in Frame /\ <<u, 1>> \in Frame /\ <<u, level[u]>> \in Frame
    BY FrameShape DEF LockInv, TypeOK
  <2>2. ContextInv(u) /\ level'[u] = level[u] /\ level[u] \in {0, 1}
    BY DEF LockInv, TypeOK, switchVars
  <2>3. CASE u = t
    <3>1. ~ Suspended(u)
      BY <2>3, RunningNotSuspended
    <3>2. ASSUME level[u] = 0
          PROVE  pc'[<<u, 1>>] = "run"
      BY <1>1, <1>2, <2>1, <2>2, <2>3, <3>2 DEF ContextInv
    <3>3. ASSUME NEW k \in {0, 1}, pc'[<<u, k>>] \in Handover
          PROVE  PT \in held'[<<u, k>>]
      <4>1. CASE <<u, k>> = f
        BY <3>3, <4>1
      <4>2. CASE <<u, k>> # f
        BY <1>2, <2>1, <2>2, <3>1, <3>3, <4>2 DEF ContextInv
      <4> QED
        BY <4>1, <4>2
    <3> QED
      BY <1>4, <2>2, <3>1, <3>2, <3>3 DEF ContextInv
  <2>4. CASE u # t
    <3>1. \A k \in {0, 1} : <<u, k>> # f
      BY <1>1, <2>4
    <3>2. \A k \in {0, 1} : /\ pc'[<<u, k>>] = pc[<<u, k>>]
                            /\ held'[<<u, k>>] = held[<<u, k>>]
      BY <1>2, <2>1, <3>1
    <3> QED
      BY <1>4, <2>2, <3>2 DEF ContextInv
  <2> QED
    BY <2>3, <2>4
<1> QED
  BY <1>3, <1>4, <1>5, <1>6 DEF LockInv

LEMMA LockStepInv ==
  ASSUME LockInv, TypeOK', NEW c \in CPU, LockStep(c)
  PROVE  LockInv'
<1>1. PICK f \in Frame : f = Cur(c)
  BY CurFrame DEF LockInv
<1>2. TypeOK /\ FrameInv(f) /\ KindInv(f) /\ PT \in Lock /\ PT \notin Outer
  BY FrameShape, SpinLockAssumption DEF LockInv
<1>3. \A l \in Lock : Owns(f, l) => locked[l]
  BY DEF LockInv, Mutex
<1> USE DEF Acquiring, Handover
<1>4. CASE PushCli(c)
  <2>1. Only(f) /\ UNCHANGED switchVars
    BY <1>1, <1>2, <1>4 DEF PushCli, Only, TypeOK
  <2>2. FairDealing(f)
    BY <1>1, <1>2, <1>3, <1>4 DEF PushCli, FairDealing, Owns, TypeOK, lockVars
  <2>3. FrameInv(f)' /\ KindInv(f)' /\ pc'[f] \notin Handover
    BY <1>1, <1>2, <1>4 DEF PushCli, FrameInv, KindInv, TypeOK
  <2> QED
    BY <1>1, <2>1, <2>2, <2>3, LocalStep
<1>5. CASE ReadLocked(c)
  <2>1. Only(f) /\ UNCHANGED switchVars
    BY <1>1, <1>2, <1>5 DEF ReadLocked, Only, TypeOK
  <2>2. FairDealing(f)
    BY <1>1, <1>2, <1>3, <1>5 DEF ReadLocked, FairDealing, Owns, TypeOK, lockVars
  <2>3. FrameInv(f)' /\ KindInv(f)' /\ pc'[f] \notin Handover
    BY <1>1, <1>2, <1>5 DEF ReadLocked, FrameInv, KindInv, TypeOK
  <2> QED
    BY <1>1, <2>1, <2>2, <2>3, LocalStep
<1>6. CASE ReadCpu(c)
  <2>1. Only(f) /\ UNCHANGED switchVars
    BY <1>1, <1>2, <1>6 DEF ReadCpu, Only, TypeOK
  <2>2. FairDealing(f)
    BY <1>1, <1>2, <1>3, <1>6 DEF ReadCpu, FairDealing, Owns, TypeOK, lockVars
  <2>3. FrameInv(f)' /\ KindInv(f)' /\ pc'[f] \notin Handover
    BY <1>1, <1>2, <1>6 DEF ReadCpu, FrameInv, KindInv, TypeOK
  <2> QED
    BY <1>1, <2>1, <2>2, <2>3, LocalStep
<1>7. CASE Xchg(c)
  <2>1. Only(f) /\ UNCHANGED switchVars
    BY <1>1, <1>2, <1>7 DEF Xchg, Only, TypeOK
  <2>2. FairDealing(f)
    BY <1>1, <1>2, <1>3, <1>7 DEF Xchg, FairDealing, Owns, TypeOK
  <2>3. FrameInv(f)' /\ KindInv(f)' /\ pc'[f] \notin Handover
    BY <1>1, <1>2, <1>7 DEF Xchg, FrameInv, KindInv, TypeOK
  <2> QED
    BY <1>1, <2>1, <2>2, <2>3, LocalStep
<1>8. CASE Acquired(c)
  <2>1. Only(f) /\ UNCHANGED switchVars
    BY <1>1, <1>2, <1>8 DEF Acquired, GoOn, Only, TypeOK
  <2>2. FairDealing(f)
    BY <1>1, <1>2, <1>3, <1>8 DEF Acquired, GoOn, AfterAcquire, FairDealing, Owns, TypeOK
  <2>3. /\ pc'[f] = AfterAcquire(f)
        /\ held'[f] = held[f] \cup {arg[f]}
        /\ arg'[f] = PT
        /\ op'[f] = IF AfterAcquire(f) \in {"run", "scan"} THEN "section" ELSE op[f]
        /\ back'[f] = IF AfterAcquire(f) \in {"run", "scan"} THEN PT ELSE back[f]
    BY <1>1, <1>2, <1>8 DEF Acquired, GoOn, AfterAcquire, TypeOK
  <2>4. pc[f] = "own"
    BY <1>1, <1>8 DEF Acquired
  <2>5. FrameInv(f)' /\ KindInv(f)' /\ (pc'[f] \in Handover => PT \in held'[f])
    BY <1>2, <2>3, <2>4 DEF AfterAcquire, FrameInv, KindInv
  <2> QED
    BY <1>1, <2>1, <2>2, <2>5, LocalStep
<1>9. CASE Unlock(c)
  <2>1. Only(f) /\ UNCHANGED switchVars
    BY <1>1, <1>2, <1>9 DEF Unlock, Only, TypeOK
  <2>2. FairDealing(f)
    BY <1>1, <1>2, <1>3, <1>9 DEF Unlock, FairDealing, FrameInv, Owns, TypeOK
  <2>3. FrameInv(f)' /\ KindInv(f)' /\ pc'[f] \notin Handover
    BY <1>1, <1>2, <1>9 DEF Unlock, FrameInv, KindInv, TypeOK
  <2> QED
    BY <1>1, <2>1, <2>2, <2>3, LocalStep
<1>10. CASE PopCli(c)
  <2>1. Only(f) /\ UNCHANGED switchVars
    <3>1. held' = held /\ UNCHANGED switchVars
      BY <1>10 DEF PopCli
    <3>2. CASE GoOn(f, AfterRelease(f))
      BY <1>2, <3>1, <3>2, GoOnMovesOne DEF Only
    <3>3. CASE pc' = [pc EXCEPT ![f] = "panic"] /\ UNCHANGED <<op, arg, back>>
      BY <1>2, <3>1, <3>3 DEF Only, TypeOK
    <3> QED
      BY <1>1, <1>10, <3>2, <3>3 DEF PopCli
  <2>3. \/ /\ pc'[f] = "panic" /\ op'[f] = op[f] /\ held'[f] = held[f]
        \/ /\ pc'[f] = AfterRelease(f)
           /\ held'[f] = held[f]
           /\ arg'[f] = PT
           /\ op'[f] = IF AfterRelease(f) \in {"run", "idle", "iret"} THEN "section" ELSE op[f]
           /\ back'[f] = IF AfterRelease(f) \in {"run", "idle", "iret"} THEN PT ELSE back[f]
    <3>1. held' = held
      BY <1>10 DEF PopCli
    <3>2. CASE pc' = [pc EXCEPT ![f] = "panic"] /\ UNCHANGED <<op, arg, back>>
      BY <1>2, <3>1, <3>2 DEF TypeOK
    <3>3. CASE GoOn(f, AfterRelease(f))
      <4>1. AfterRelease(f) # "scan"
        BY DEF AfterRelease
      <4> QED
        BY <1>2, <3>1, <3>3, <4>1 DEF GoOn, TypeOK
    <3> QED
      BY <1>1, <1>10, <3>2, <3>3 DEF PopCli
  <2>4. pc[f] = "popcli"
    BY <1>1, <1>10 DEF PopCli
  <2>2. FairDealing(f)
    <3>1. pc'[f] # "own" /\ locked' = locked
      BY <2>3, <1>10 DEF PopCli, AfterRelease, lockVars
    <3> QED
      BY <1>3, <2>3, <3>1 DEF FairDealing, Owns
  <2>5. FrameInv(f)' /\ KindInv(f)' /\ pc'[f] \notin Handover
    BY <1>2, <2>3, <2>4 DEF AfterRelease, FrameInv, KindInv
  <2> QED
    BY <1>1, <2>1, <2>2, <2>5, LocalStep
<1> QED
  BY <1>4, <1>5, <1>6, <1>7, <1>8, <1>9, <1>10 DEF LockStep

\* The first halves of acquire() and release(), for their callers.
LEMMA CallAcquireInv ==
  ASSUME LockInv, TypeOK', NEW c \in CPU, NEW f \in Frame, f = Cur(c),
         NEW l \in Lock, NEW o \in Op, CallAcquire(c, f, l, o),
         pc[f] \notin {"own", "unlock"},
         \A g \in Frame : g # f => back'[g] = back[g],
         o \in {"yield", "exit", "scan"} => l = PT,
         o = "sleep" /\ l = PT => back'[f] # PT /\ back'[f] \in held[f],
         o = "scan" => f[1] \in CPU /\ f[2] = 0,
         o \in {"sleep", "yield", "exit", "forkret"} => f[1] \in Proc
  PROVE  LockInv'
<1>1. TypeOK /\ FrameInv(f) /\ KindInv(f) /\ \A k \in Lock : Owns(f, k) => locked[k]
  BY DEF LockInv, Mutex
<1>2. /\ pc'[f] = "cli" /\ op'[f] = o /\ arg'[f] = l /\ held' = held /\ locked' = locked
      /\ UNCHANGED switchVars
  BY <1>1 DEF CallAcquire, TypeOK, lockVars
<1>3. Only(f)
  BY <1>1 DEF CallAcquire, Only, TypeOK
<1>4. FairDealing(f)
  BY <1>1, <1>2 DEF FairDealing, Owns
<1>5. FrameInv(f)' /\ KindInv(f)' /\ pc'[f] \notin Handover
  BY <1>2 DEF FrameInv, KindInv, Acquiring, Handover
<1> QED
  BY <1>2, <1>3, <1>4, <1>5, LocalStep

LEMMA CallReleaseInv ==
  ASSUME LockInv, TypeOK', NEW c \in CPU, NEW f \in Frame, f = Cur(c),
         NEW l \in Lock, NEW o \in Op, CallRelease(c, f, l, o),
         pc[f] # "own",
         l \in held[f],
         o # "scan" \/ (f[1] \in CPU /\ f[2] = 0),
         o = "sleep" => IF l = PT THEN back[f] # PT ELSE PT \in held[f],
         o \in {"sleep", "yield", "exit", "forkret"} => f[1] \in Proc
  PROVE  LockInv'
<1>1. TypeOK /\ FrameInv(f) /\ KindInv(f) /\ \A k \in Lock : Owns(f, k) => locked[k]
  BY DEF LockInv, Mutex
<1>2. /\ pc'[f] \in {"unlock", "panic"}
      /\ op'[f] = o /\ arg'[f] = l /\ back'[f] = back[f]
      /\ held' = held /\ locked' = locked
      /\ UNCHANGED switchVars
  BY <1>1 DEF CallRelease, TypeOK
<1>3. Only(f)
  BY <1>1 DEF CallRelease, Only, TypeOK
<1>4. FairDealing(f)
  BY <1>1, <1>2 DEF FairDealing, Owns
<1>5. FrameInv(f)' /\ KindInv(f)' /\ pc'[f] \notin Handover
  BY <1>2 DEF FrameInv, KindInv, Acquiring, Handover
<1> QED
  BY <1>2, <1>3, <1>4, <1>5, LocalStep

\* Code that runs after a swtch has got ptable.lock from it.
LEMMA HandedOver ==
  ASSUME LockInv, NEW c \in CPU, pc[Cur(c)] \in Handover
  PROVE  PT \in held[Cur(c)]
<1>1. running[c] \in Context /\ level[running[c]] \in {0, 1}
  BY DEF LockInv, TypeOK
<1>2. ContextInv(running[c]) /\ ~ Suspended(running[c])
  BY <1>1, RunningNotSuspended DEF LockInv
<1> QED
  BY <1>1, <1>2 DEF ContextInv, Cur

LEMMA ProcessStepInv ==
  ASSUME LockInv, TypeOK', NEW c \in CPU, ProcessStep(c), ~ Sched(c)
  PROVE  LockInv'
<1>1. PICK f \in Frame : f = Cur(c)
  BY CurFrame DEF LockInv
<1>2. /\ TypeOK /\ FrameInv(f) /\ KindInv(f)
      /\ PT \in Lock /\ Outer \subseteq Lock /\ PT \notin Outer
      /\ f[1] = running[c] /\ back[f] \in Lock /\ op[f] \in Op
  BY <1>1, FrameShape, SpinLockAssumption DEF LockInv, TypeOK, Cur
<1>3. {"section", "sleep", "yield", "exit", "scan", "forkret"} \subseteq Op
  BY DEF Op
<1>4. ASSUME NEW l \in Lock, Acquire(c, l)
      PROVE  LockInv'
  BY <1>1, <1>3, <1>4, CallAcquireInv DEF Acquire
<1>5. ASSUME NEW l \in Lock, Release(c, l)
      PROVE  LockInv'
  BY <1>1, <1>3, <1>5, CallReleaseInv DEF Release
<1>6. ASSUME NEW l \in Lock, Sleep(c, l)
      PROVE  LockInv'
  <2>1. /\ back'[f] = l /\ l # PT /\ l \in held[f] /\ f[1] \in Proc
        /\ \A g \in Frame : g # f => back'[g] = back[g]
    BY <1>1, <1>2, <1>6 DEF Sleep, InProcess, TypeOK
  <2>2. CallAcquire(c, f, PT, "sleep") /\ pc[f] = "run"
    BY <1>1, <1>6 DEF Sleep, InProcess
  <2> QED
    BY <1>1, <1>2, <1>3, <2>1, <2>2, CallAcquireInv
<1>7. CASE SleepDropsLock(c)
  <2>1. CallRelease(c, f, back[f], "sleep") /\ pc[f] = "drop"
    BY <1>1, <1>7 DEF SleepDropsLock
  <2>2. PT \in held[f] /\ back[f] \in held[f] /\ back[f] # PT
    BY <1>2, <2>1 DEF FrameInv
  <2>3. f[1] \in Proc
    BY <1>2, <2>1 DEF KindInv
  <2> QED
    BY <1>1, <1>2, <1>3, <2>1, <2>2, <2>3, CallReleaseInv
<1>8. CASE SleepOnTable(c)
  <2>1. /\ pc[f] = "run" /\ PT \in held[f] /\ pc'[f] = "sched" /\ op'[f] = "sleep"
        /\ back'[f] = PT /\ arg'[f] = arg[f] /\ held' = held /\ locked' = locked
        /\ f[1] \in Proc /\ UNCHANGED switchVars
    BY <1>1, <1>2, <1>8 DEF SleepOnTable, InProcess, TypeOK, lockVars
  <2>2. Only(f)
    BY <1>1, <1>2, <1>8 DEF SleepOnTable, Only, TypeOK
  <2>3. FairDealing(f)
    BY <2>1 DEF FairDealing, Owns, LockInv, Mutex
  <2>4. FrameInv(f)' /\ KindInv(f)' /\ pc'[f] \notin Handover
    BY <2>1 DEF FrameInv, KindInv, Acquiring, Handover
  <2> QED
    BY <1>1, <2>1, <2>2, <2>3, <2>4, LocalStep
<1>9. CASE SleepRetakesLock(c)
  <2>1. CallAcquire(c, f, back[f], "sleep") /\ pc[f] = "relock" /\ back' = back
    BY <1>1, <1>9 DEF SleepRetakesLock
  <2>2. back[f] # PT
    BY <1>2, <2>1 DEF FrameInv
  <2>3. f[1] \in Proc
    BY <1>2, <2>1 DEF KindInv
  <2> QED
    BY <1>1, <1>2, <1>3, <2>1, <2>2, <2>3, CallAcquireInv
<1>10. CASE Yield(c)
  BY <1>1, <1>2, <1>3, <1>10, CallAcquireInv DEF Yield, InProcess
<1>11. CASE Exit(c)
  BY <1>1, <1>2, <1>3, <1>11, CallAcquireInv DEF Exit, InProcess
<1>12. CASE Resumed(c)
  <2>1. /\ PT \in held[f] /\ f[1] \in Proc /\ pc[f] = "resumed" /\ op[f] # "scan"
    <3>1. pc[f] = "resumed"
      BY <1>1, <1>12 DEF Resumed
    <3>2. PT \in held[f]
      BY <1>1, <3>1, HandedOver DEF Handover
    <3>3. f[1] \in Proc /\ op[f] # "scan"
      BY <1>2, <3>1, SpinLockAssumption DEF KindInv
    <3> QED
      BY <3>1, <3>2, <3>3
  <2>2. CASE op[f] = "sleep" /\ back[f] = PT
    <3>1. GoOn(f, "run") /\ held' = held /\ UNCHANGED lockVars /\ UNCHANGED switchVars
      BY <1>1, <1>12, <2>2 DEF Resumed
    <3>2. pc'[f] = "run" /\ op'[f] = "section" /\ Only(f)
      BY <1>2, <3>1 DEF GoOn, Only, TypeOK
    <3>3. FairDealing(f)
      BY <3>1, <3>2 DEF FairDealing, Owns, LockInv, Mutex, lockVars
    <3>4. FrameInv(f)' /\ KindInv(f)' /\ pc'[f] \notin Handover
      BY <3>2 DEF FrameInv, KindInv, Acquiring, Handover
    <3> QED
      BY <1>1, <3>1, <3>2, <3>3, <3>4, LocalStep
  <2>3. CASE ~ (op[f] = "sleep" /\ back[f] = PT)
    <3>1. CallRelease(c, f, PT, op[f])
      BY <1>1, <1>12, <2>3 DEF Resumed
    <3> QED
      BY <1>1, <1>2, <2>1, <2>3, <3>1, CallReleaseInv
  <2> QED
    BY <2>2, <2>3
<1>13. CASE ForkRet(c)
  <2>1. pc[f] = "forkret" /\ CallRelease(c, f, PT, "forkret")
    BY <1>1, <1>13 DEF ForkRet
  <2>2. PT \in held[f]
    BY <1>1, <2>1, HandedOver DEF Handover
  <2>3. f[1] \in Proc
    BY <1>2, <2>1 DEF KindInv
  <2> QED
    BY <1>1, <1>2, <1>3, <2>1, <2>2, <2>3, CallReleaseInv
<1>14. CASE ReturnToUser(c)
  <2>1. /\ pc[f] = "iret" /\ pc'[f] = "run" /\ op'[f] = op[f] /\ held' = held
        /\ locked' = locked /\ UNCHANGED switchVars /\ Only(f)
    BY <1>1, <1>2, <1>14 DEF ReturnToUser, Only, TypeOK, lockVars
  <2>2. FairDealing(f)
    BY <2>1 DEF FairDealing, Owns, LockInv, Mutex
  <2>3. FrameInv(f)' /\ pc'[f] \notin Handover
    BY <2>1 DEF FrameInv, Acquiring, Handover
  <2>4. KindInv(f)'
    BY <1>2, <2>1 DEF KindInv
  <2> QED
    BY <1>1, <2>1, <2>2, <2>3, <2>4, LocalStep
<1> QED
  BY <1>4, <1>5, <1>6, <1>7, <1>8, <1>9, <1>10, <1>11, <1>12, <1>13, <1>14
     DEF ProcessStep

\* ptable.lock passes from frame f to frame g inside swtch.
LEMMA PassMutex ==
  ASSUME Mutex, held \in [Frame -> SUBSET Lock], NEW f \in Frame, NEW g \in Frame, f # g,
         PT \in held[f], UNCHANGED <<locked, arg>>,
         held' = [held EXCEPT ![f] = @ \ {PT}, ![g] = @ \cup {PT}],
         \A h \in Frame : pc'[h] = "own" => pc[h] = "own", pc'[f] # "own"
  PROVE  Mutex'
<1> DEFINE Moved(h, l) == IF l = PT /\ h = g THEN f ELSE h
<1>1. \A h \in Frame : held'[h] = IF h = f THEN held[h] \ {PT}
                                  ELSE IF h = g THEN held[h] \cup {PT} ELSE held[h]
  OBVIOUS
<1>2. PT \in Lock /\ Owns(f, PT)
  BY FrameShape DEF Owns
<1>3. ASSUME NEW h \in Frame, NEW l \in Lock, Owns(h, l)'
      PROVE  Owns(Moved(h, l), l) /\ (l = PT => h = g)
  <2>1. CASE l # PT
    BY <1>1, <1>3, <2>1 DEF Owns
  <2>2. CASE l = PT /\ h = g
    BY <1>2, <2>2
  <2>3. CASE l = PT /\ h # g
    <3>1. Owns(h, PT)
      BY <1>1, <1>3, <2>3 DEF Owns
    <3>2. h = f
      BY <1>2, <3>1 DEF Mutex
    <3> QED
      BY <1>1, <1>3, <2>3, <3>2 DEF Owns
  <2> QED
    BY <2>1, <2>2, <2>3
<1> QED
  BY <1>3 DEF Mutex

LEMMA SchedInv ==
  ASSUME LockInv, TypeOK', NEW c \in CPU, Sched(c)
  PROVE  LockInv'
<1>1. PICK f \in Frame : f = Cur(c)
  BY CurFrame DEF LockInv
<1>2. /\ TypeOK /\ Mutex /\ RunInv /\ FrameInv(f) /\ KindInv(f) /\ pc[f] = "sched"
      /\ \A u \in Context : ContextInv(u)
      /\ \A g \in Frame : FrameInv(g) /\ KindInv(g)
  BY <1>1 DEF LockInv, Sched
<1> DEFINE t == f[1]
<1>3. /\ t = running[c] /\ t \in Proc /\ t \in Context /\ f = <<t, level[t]>> /\ PT \in held[f]
      /\ c \in Context /\ t # c /\ f[2] = level[t] /\ level[t] \in {0, 1}
  BY <1>1, <1>2, FrameShape, SpinLockAssumption DEF FrameInv, KindInv, Cur, TypeOK
<1> HIDE DEF t
<1>4. /\ Suspended(c) /\ ~ Suspended(t)
      /\ \A u \in Context : u # c /\ u # t => (Suspended(u)' <=> Suspended(u))
  BY <1>1, <1>2, <1>3, SpinLockAssumption DEF Sched, Suspended, RunInv, TypeOK, switchVars
<1>5. CASE ~ Holding(c, PT) \/ ncli[c] # 1 \/ FL_IF[c]
  <2>1. /\ pc'[f] = "panic" /\ op' = op /\ held' = held /\ locked' = locked
        /\ arg' = arg /\ back' = back /\ UNCHANGED switchVars /\ Only(f)
    BY <1>1, <1>2, <1>5 DEF Sched, Only, TypeOK, lockVars
  <2>2. FairDealing(f)
    BY <1>2, <2>1 DEF FairDealing, Owns, Mutex
  <2>3. FrameInv(f)' /\ pc'[f] \notin Handover
    BY <2>1 DEF FrameInv, Acquiring, Handover
  <2>4. KindInv(f)'
    BY <1>2, <2>1 DEF KindInv
  <2> QED
    BY <1>1, <2>1, <2>2, <2>3, <2>4, LocalStep
<1>6. CASE Holding(c, PT) /\ ncli[c] = 1 /\ ~ FL_IF[c]
  <2> DEFINE g == <<c, 0>>
             b == <<t, 0>>
  <2>1. /\ g \in Frame /\ f # g /\ <<c, 1>> \in Frame /\ b \in Frame /\ <<t, 1>> \in Frame
        /\ b # g /\ f # <<c, 1>> /\ b # <<c, 1>> /\ b # <<t, 1>>
    BY <1>3, FrameShape
  <2>2. level[c] = 0 /\ pc[g] = "scan" /\ pc[<<c, 1>>] = "run"
    <3>1. level[c] \in {0, 1} /\ <<c, level[c]>> \in Frame /\ ContextInv(c) /\ c \notin Proc
      BY <1>2, <1>3, FrameShape, SpinLockAssumption DEF TypeOK
    <3>2. pc[<<c, level[c]>>] \in Handover
      BY <1>4, <3>1 DEF ContextInv
    <3>3. <<c, level[c]>>[1] = c /\ <<c, level[c]>>[2] = level[c]
      OBVIOUS
    <3>4. pc[<<c, level[c]>>] = "scan" /\ level[c] = 0
      BY <1>2, <3>1, <3>2, <3>3 DEF KindInv, Handover
    <3> QED
      BY <3>1, <3>4 DEF ContextInv
  <2>3. /\ held' = [held EXCEPT ![f] = @ \ {PT}, ![g] = @ \cup {PT}]
        /\ UNCHANGED <<locked, arg, back>>
        /\ running' = [running EXCEPT ![c] = c]
        /\ IF op[f] = "exit"
           THEN /\ pc' = [pc EXCEPT ![f] = "run", ![b] = "forkret"]
                /\ op' = [op EXCEPT ![f] = "section"]
                /\ level' = [level EXCEPT ![t] = 0]
           ELSE /\ pc' = [pc EXCEPT ![f] = "resumed"]
                /\ op' = op /\ level' = level
    BY <1>1, <1>2, <1>6, <1>3 DEF Sched, lockVars, t, b
  <2> HIDE DEF g, b
  <2>4. /\ \A h \in Frame \ {f, b} : pc'[h] = pc[h]
        /\ \A h \in Frame \ {f} : op'[h] = op[h] /\ held[h] \subseteq held'[h]
        /\ PT \in held'[g]
    BY <1>2, <2>1, <2>3 DEF TypeOK
  <2>5. /\ pc'[f] \in {"run", "resumed", "forkret"}
        /\ op'[f] \in {op[f], "section"}
        /\ f # b => pc'[b] \in {pc[b], "forkret"}
    BY <1>2, <2>1, <2>3 DEF TypeOK
  <2>6. Mutex'
    <3>1. \A h \in Frame : pc'[h] = "own" => pc[h] = "own"
      BY <2>4, <2>5
    <3> QED
      BY <1>2, <1>3, <2>1, <2>3, <2>5, <3>1, PassMutex DEF TypeOK
  <2>7. RunInv'
    BY <1>2, <2>3, SpinLockAssumption DEF RunInv, TypeOK
  <2>8. ASSUME NEW h \in Frame
        PROVE  FrameInv(h)' /\ KindInv(h)'
    <3>1. FrameInv(h) /\ KindInv(h) /\ arg'[h] = arg[h] /\ back'[h] = back[h]
      BY <1>2, <2>3
    <3>2. CASE h = f
      BY <1>3, <2>5, <3>1, <3>2 DEF FrameInv, KindInv, Acquiring
    <3>3. CASE h # f /\ pc'[h] = pc[h]
      BY <2>4, <3>1, <3>3 DEF FrameInv, KindInv
    <3>4. CASE h # f /\ pc'[h] # pc[h]
      <4>1. h = b /\ pc'[h] = "forkret" /\ op'[h] = op[h]
        BY <2>4, <2>5, <3>4
      <4>2. h[1] \in Proc
        BY <1>3, <4>1 DEF b
      <4> QED
        BY <3>1, <4>1, <4>2 DEF FrameInv, KindInv, Acquiring
    <3> QED
      BY <3>2, <3>3, <3>4
  <2>9. ASSUME NEW u \in Context
        PROVE  ContextInv(u)'
    <3>1. ContextInv(u) /\ <<u, 0>> \in Frame /\ <<u, 1>> \in Frame /\ level[u] \in {0, 1}
      BY <1>2, FrameShape DEF TypeOK
    <3>2. CASE u = c
      <4>1. ~ Suspended(u)' /\ level'[u] = 0
        BY <1>2, <1>3, <2>2, <2>3, <3>2 DEF Suspended, TypeOK
      <4>2. pc'[<<u, 1>>] = "run" /\ PT \in held'[<<u, 0>>]
        BY <2>1, <2>2, <2>4, <3>2 DEF g
      <4> QED
        BY <4>1, <4>2 DEF ContextInv, Handover
    <3>3. CASE u = t
      <4>1. Suspended(u)'
        BY <1>2, <1>3, <2>3, <3>3, SpinLockAssumption DEF Suspended, RunInv, TypeOK
      <4>2. CASE op[f] = "exit"
        <5>1. level'[u] = 0 /\ pc'[<<u, 0>>] = "forkret"
          BY <1>2, <1>3, <2>1, <2>3, <3>3, <4>2 DEF TypeOK, b
        <5>2. pc'[<<u, 1>>] = "run"
          <6>1. CASE f = <<t, 1>>
            BY <1>2, <2>1, <2>3, <3>3, <4>2, <6>1 DEF TypeOK
          <6>2. CASE f = <<t, 0>>
            BY <1>3, <2>1, <2>4, <3>1, <3>3, <6>2 DEF ContextInv, b
          <6> QED
            BY <1>3, <6>1, <6>2
        <5> QED
          BY <4>1, <5>1, <5>2 DEF ContextInv, Handover
      <4>3. CASE op[f] # "exit"
        <5>1. level' = level /\ pc'[f] = "resumed" /\ \A h \in Frame : h # f => pc'[h] = pc[h]
          BY <1>2, <2>3, <4>3 DEF TypeOK
        <5>2. CASE f = <<t, 0>>
          BY <1>3, <3>1, <3>3, <4>1, <5>1, <5>2 DEF ContextInv, Handover
        <5>3. CASE f = <<t, 1>>
          <6>1. pc[<<t, 0>>] \in Handover => PT \in held[<<t, 0>>]
            BY <1>4, <3>1, <3>3 DEF ContextInv
          <6>2. PT \notin held[<<t, 0>>]
            BY <1>2, <1>3, <2>1, <5>3, FrameShape DEF Mutex, Owns
          <6> QED
            BY <1>3, <2>1, <3>1, <3>3, <4>1, <5>1, <5>3, <6>1, <6>2 DEF ContextInv, Handover
        <5> QED
          BY <1>3, <5>2, <5>3
      <4> QED
        BY <4>2, <4>3
    <3>4. CASE u # c /\ u # t
      <4>1. \A k \in {0, 1} : <<u, k>> # f /\ <<u, k>> # b
        BY <1>3, <3>4 DEF b
      <4>2. \A k \in {0, 1} : /\ pc'[<<u, k>>] = pc[<<u, k>>]
                              /\ held[<<u, k>>] \subseteq held'[<<u, k>>]
        BY <2>4, <3>1, <4>1
      <4>3. (Suspended(u)' <=> Suspended(u)) /\ level'[u] = level[u]
        BY <1>2, <1>4, <2>3, <3>4 DEF TypeOK
      <4> QED
        BY <3>1, <4>2, <4>3 DEF ContextInv
    <3> QED
      BY <3>2, <3>3, <3>4
  <2> QED
    BY <2>6, <2>7, <2>8, <2>9 DEF LockInv
<1> QED
  BY <1>5, <1>6

LEMMA PickInv ==
  ASSUME LockInv, TypeOK', NEW c \in CPU, NEW p \in Proc, Pick(c, p)
  PROVE  LockInv'
<1> DEFINE f == <<c, 0>>
           g == <<p, level[p]>>
<1>1. /\ TypeOK /\ Mutex /\ RunInv
      /\ \A u \in Context : ContextInv(u)
      /\ \A h \in Frame : FrameInv(h) /\ KindInv(h)
  BY DEF LockInv
<1>2. running[c] = c /\ level[c] = 0 /\ pc[f] = "scan" /\ Cur(c) = f
  <2>1. running[c] \in Context /\ level[running[c]] \in {0, 1} /\ Cur(c) \in Frame
    BY <1>1, CurFrame DEF TypeOK
  <2>2. Cur(c)[1] \in CPU /\ Cur(c)[2] = 0
    BY <1>1, <2>1 DEF Pick, KindInv
  <2>3. running[c] = c /\ level[c] = 0
    BY <1>1, <2>1, <2>2, SpinLockAssumption DEF RunInv, Cur
  <2> QED
    BY <2>3 DEF Pick, Cur
<1>3. /\ f \in Frame /\ g \in Frame /\ f # g /\ p \in Context /\ c \in Context
      /\ level[p] \in {0, 1} /\ p # c /\ p \notin CPU
  BY <1>1, FrameShape, SpinLockAssumption DEF Context, TypeOK
<1>4. PT \in held[f]
  BY <1>2, HandedOver DEF Handover
<1>5. /\ held' = [held EXCEPT ![f] = @ \ {PT}, ![g] = @ \cup {PT}]
      /\ UNCHANGED <<locked, arg, back, pc, op, level>>
      /\ running' = [running EXCEPT ![c] = p]
      /\ \A d \in CPU : running[d] # p
  BY <1>2 DEF Pick, lockVars
<1>6. /\ Suspended(p) /\ ~ Suspended(p)' /\ ~ Suspended(c) /\ Suspended(c)'
      /\ \A u \in Context : u # c /\ u # p => (Suspended(u)' <=> Suspended(u))
  BY <1>1, <1>2, <1>3, <1>5, SpinLockAssumption DEF Suspended, RunInv, TypeOK
<1> HIDE DEF f, g
<1>7. /\ \A h \in Frame : h # f => held[h] \subseteq held'[h]
      /\ held'[f] = held[f] \ {PT}
      /\ PT \in held'[g]
  BY <1>1, <1>3, <1>5 DEF TypeOK
<1>8. Mutex'
  BY <1>1, <1>2, <1>3, <1>4, <1>5, PassMutex DEF TypeOK
<1>9. RunInv'
  BY <1>1, <1>5, SpinLockAssumption DEF RunInv, TypeOK
<1>10. ASSUME NEW h \in Frame
       PROVE  FrameInv(h)' /\ KindInv(h)'
  <2>1. FrameInv(h) /\ KindInv(h) /\ KindInv(h)'
    BY <1>1, <1>5 DEF KindInv
  <2>2. CASE h = f
    BY <1>2, <1>5, <2>1, <2>2 DEF FrameInv, Acquiring
  <2>3. CASE h # f
    BY <1>5, <1>7, <2>1, <2>3 DEF FrameInv
  <2> QED
    BY <2>1, <2>2, <2>3
<1>11. ASSUME NEW u \in Context
       PROVE  ContextInv(u)'
  <2>1. ContextInv(u) /\ <<u, 0>> \in Frame /\ <<u, 1>> \in Frame /\ level[u] \in {0, 1}
    BY <1>1, FrameShape DEF TypeOK
  <2>2. CASE u = c
    BY <1>2, <1>5, <1>6, <2>1, <2>2 DEF ContextInv, Handover, f
  <2>3. CASE u = p
    <3>1. \A k \in {0, 1} : pc[<<u, k>>] \in Handover => <<u, k>> = g
      BY <1>6, <2>1, <2>3 DEF ContextInv, Handover, g
    <3> QED
      BY <1>5, <1>6, <1>7, <2>1, <2>3, <3>1 DEF ContextInv
  <2>4. CASE u # c /\ u # p
    <3>1. \A k \in {0, 1} : held[<<u, k>>] \subseteq held'[<<u, k>>]
      BY <1>7, <2>1, <2>4 DEF f
    <3> QED
      BY <1>5, <1>6, <2>1, <2>4, <3>1 DEF ContextInv
  <2> QED
    BY <2>2, <2>3, <2>4
<1> QED
  BY <1>8, <1>9, <1>10, <1>11 DEF LockInv

\* Interrupts push and pop a frame: nothing but the level of the context moves.
LEMMA InterruptInv ==
  ASSUME LockInv, TypeOK', NEW c \in CPU, Interrupt(c) \/ InterruptReturns(c)
  PROVE  LockInv'
<1> DEFINE t == running[c]
<1>1. /\ TypeOK /\ Mutex /\ RunInv /\ t \in Context /\ ~ Suspended(t)
      /\ \A u \in Context : ContextInv(u) /\ level[u] \in {0, 1}
      /\ \A h \in Frame : FrameInv(h) /\ KindInv(h)
  BY RunningNotSuspended DEF LockInv, TypeOK
<1>2. /\ UNCHANGED <<locked, running, pc, op, arg, back, held>>
      /\ level'[t] = 0 => pc[<<t, 1>>] = "run"
      /\ \A u \in Context : u # t => level'[u] = level[u]
  BY <1>1 DEF Interrupt, InterruptReturns, lockVars, frameVars, Cur, TypeOK
<1>3. Mutex' /\ RunInv' /\ \A u \in Context : Suspended(u)' <=> Suspended(u)
  BY <1>1, <1>2 DEF Mutex, Owns, RunInv, Suspended
<1>4. \A h \in Frame : FrameInv(h)' /\ KindInv(h)'
  BY <1>1, <1>2 DEF FrameInv, KindInv
<1>5. ASSUME NEW u \in Context
      PROVE  ContextInv(u)'
  <2>1. CASE u = t
    BY <1>1, <1>2, <1>3, <2>1 DEF ContextInv
  <2>2. CASE u # t
    BY <1>1, <1>2, <1>3, <2>2 DEF ContextInv
  <2> QED
    BY <2>1, <2>2
<1> QED
  BY <1>3, <1>4, <1>5 DEF LockInv

LEMMA SchedulerStepInv ==
  ASSUME LockInv, TypeOK', NEW c \in CPU, SchedulerStep(c)
  PROVE  LockInv'
<1>1. PICK f \in Frame : f = Cur(c)
  BY CurFrame DEF LockInv
<1>2. TypeOK /\ FrameInv(f) /\ KindInv(f) /\ PT \in Lock /\ "scan" \in Op
  BY FrameShape DEF LockInv, Op
<1>3. CASE Sti(c)
  <2>1. /\ pc[f] = "idle" /\ pc'[f] = "start" /\ UNCHANGED <<locked, op, arg, back, held>>
        /\ UNCHANGED switchVars /\ Only(f)
    BY <1>1, <1>2, <1>3 DEF Sti, Only, TypeOK, lockVars
  <2>2. FairDealing(f)
    BY <2>1 DEF FairDealing, Owns, LockInv, Mutex
  <2>3. FrameInv(f)' /\ pc'[f] \notin Handover
    BY <2>1 DEF FrameInv, Acquiring, Handover
  <2>4. KindInv(f)'
    BY <1>2, <2>1 DEF KindInv
  <2> QED
    BY <1>1, <2>1, <2>2, <2>3, <2>4, LocalStep
<1>4. CASE StartScan(c)
  <2>1. pc[f] = "start" /\ CallAcquire(c, f, PT, "scan") /\ back' = back
    BY <1>1, <1>4 DEF StartScan
  <2>2. f[1] \in CPU /\ f[2] = 0
    BY <1>2, <2>1 DEF KindInv
  <2> QED
    BY <1>1, <1>2, <2>1, <2>2, CallAcquireInv
<1>5. CASE EndScan(c)
  <2>1. pc[f] = "scan" /\ CallRelease(c, f, PT, "scan")
    BY <1>1, <1>5 DEF EndScan
  <2>2. f[1] \in CPU /\ f[2] = 0
    BY <1>2, <2>1 DEF KindInv
  <2>3. PT \in held[f]
    BY <1>1, <2>1, HandedOver DEF Handover
  <2> QED
    BY <1>1, <1>2, <2>1, <2>2, <2>3, CallReleaseInv
<1> QED
  BY <1>3, <1>4, <1>5, PickInv DEF SchedulerStep

LEMMA InitLockInv == ASSUME Init PROVE LockInv
<1>1. TypeOK
  BY InitTypeOK
<1>2. Mutex
  BY DEF Init, Mutex, Owns
<1>3. RunInv
  BY DEF Init, RunInv
<1>4. ASSUME NEW f \in Frame
      PROVE  FrameInv(f) /\ KindInv(f)
  <2>1. f[1] \in Proc \cup CPU /\ f[2] \in {0, 1} /\ op[f] = "section"
        /\ pc[f] = IF f[2] = 1 THEN "run" ELSE IF f[1] \in CPU THEN "idle" ELSE "forkret"
    BY FrameShape DEF Init, Context
  <2> QED
    BY <2>1 DEF FrameInv, KindInv, Acquiring
<1>5. ASSUME NEW t \in Context
      PROVE  ContextInv(t)
  <2>1. /\ level[t] = 0 /\ pc[<<t, 1>>] = "run"
        /\ pc[<<t, 0>>] = IF t \in CPU THEN "idle" ELSE "forkret"
    BY FrameShape DEF Init
  <2>2. Suspended(t) <=> t \notin CPU
    BY SpinLockAssumption DEF Init, Suspended
  <2> QED
    BY <2>1, <2>2 DEF ContextInv, Handover
<1> QED
  BY <1>1, <1>2, <1>3, <1>4, <1>5 DEF LockInv

LEMMA NextLockInv == ASSUME LockInv, [Next]_vars PROVE LockInv'
<1>1. TypeOK'
  BY NextTypeOK DEF LockInv
<1>2. ASSUME NEW c \in CPU, LockStep(c) PROVE LockInv'
  BY <1>1, <1>2, LockStepInv
<1>3. ASSUME NEW c \in CPU, ProcessStep(c) PROVE LockInv'
  BY <1>1, <1>3, ProcessStepInv, SchedInv
<1>4. ASSUME NEW c \in CPU, SchedulerStep(c) PROVE LockInv'
  BY <1>1, <1>4, SchedulerStepInv
<1>5. ASSUME NEW c \in CPU, Interrupt(c) \/ InterruptReturns(c) PROVE LockInv'
  BY <1>1, <1>5, InterruptInv
<1>6. CASE UNCHANGED vars
  <2>1. UNCHANGED <<locked, running, level, pc, op, arg, back, held>>
    BY <1>6 DEF vars
  <2>2. Mutex' /\ RunInv' /\ \A u \in Context : Suspended(u)' <=> Suspended(u)
    BY <2>1 DEF LockInv, Mutex, Owns, RunInv, Suspended
  <2>3. \A h \in Frame : FrameInv(h)' /\ KindInv(h)'
    BY <2>1 DEF LockInv, FrameInv, KindInv
  <2>4. \A u \in Context : ContextInv(u)'
    BY <2>1, <2>2 DEF LockInv, ContextInv
  <2> QED
    BY <1>1, <2>2, <2>3, <2>4 DEF LockInv
<1> QED
  BY <1>2, <1>3, <1>4, <1>5, <1>6 DEF Next

\* A lock has one owner at a time, and ptable.lock is among them although
\* swtch hands it from one kernel thread to another (spinlock.c, sched).
THEOREM MutualExclusion == Spec => []Mutex
<1>1. Init => LockInv
  BY InitLockInv
<1>2. LockInv /\ [Next]_vars => LockInv'
  BY NextLockInv
<1>3. LockInv => Mutex
  BY DEF LockInv
<1> QED
  BY <1>1, <1>2, <1>3, PTL DEF Spec
-----------------------------------------------------------------------------
(* What processors count and remember: CliInv *)

\* Nothing of what the frame remembers of the flag moves but in f.
OnlyFlags(f) ==
  \A g \in Frame : g # f => eflags'[g] = eflags[g] /\ saved'[g] = saved[g]

\* Processors other than c keep their counters, and their locks.
OnlyCpu(c) ==
  \A d \in CPU \ {c} :
     /\ ncli'[d] = ncli[d] /\ intena'[d] = intena[d] /\ FL_IF'[d] = FL_IF[d]
     /\ \A l \in Lock : cpu'[l] = d <=> cpu[l] = d

\* A lock is marked locked for an owner only.
Owned(f) ==
  \A l \in Lock : /\ locked'[l] => locked[l] \/ Owns(f, l)'
                  /\ locked'[l] /\ Owns(f, l) => Owns(f, l)'

\* ncli is zero exactly while the frame has no lock and is about to get none.
LEMMA NcliZero ==
  ASSUME LockInv, CliInv, NEW c \in CPU
  PROVE  ncli[c] = 0 <=> held[Cur(c)] = {} /\ pc[Cur(c)] \notin Pushed
<1>1. PICK f \in Frame : f = Cur(c)
  BY CurFrame DEF LockInv
<1>2. IsFiniteSet(held[f])
  BY <1>1 DEF CliInv, HeldInv
<1>3. Cardinality(held[f]) \in Nat /\ (Cardinality(held[f]) = 0 <=> held[f] = {})
  BY <1>2, FS_CardinalityType, FS_EmptySet
<1>4. ncli[c] = Cardinality(held[f]) + (IF pc[f] \in Pushed THEN 1 ELSE 0)
  BY <1>1 DEF CliInv, CpuInv
<1> QED
  BY <1>1, <1>3, <1>4

LEMMA DifferentFrames ==
  ASSUME LockInv, NEW c \in CPU, NEW d \in CPU, d # c
  PROVE  Cur(d) # Cur(c)
  BY DEF LockInv, RunInv, Cur

\* The same for a step without a context switch.
LEMMA CliLocal ==
  ASSUME LockInv, CliInv, TypeOK', NEW c \in CPU, NEW f \in Frame, f = Cur(c),
         UNCHANGED switchVars, Only(f), OnlyFlags(f), OnlyCpu(c), Owned(f),
         HeldInv(f)', FlagsInv(f)', CpuInv(c)'
  PROVE  CliInv'
<1>1. /\ \A g \in Frame : g # f => /\ pc'[g] = pc[g]
                                 /\ op'[g] = op[g]
                                 /\ arg'[g] = arg[g]
                                 /\ back'[g] = back[g]
                                 /\ held'[g] = held[g]
                                 /\ eflags'[g] = eflags[g]
                                 /\ saved'[g] = saved[g]
      /\ \A d \in CPU : Cur(d)' = Cur(d)
  BY DEF Only, OnlyFlags, Cur, switchVars
<1>2. ASSUME NEW g \in Frame, g # f
      PROVE  HeldInv(g)' /\ FlagsInv(g)' /\ PassiveInv(g)'
  <2>1. HeldInv(g) /\ FlagsInv(g) /\ PassiveInv(g)
    BY DEF CliInv
  <2>2. HeldInv(g)'
    <3>1. pc'[g] = pc[g] /\ op'[g] = op[g] /\ arg'[g] = arg[g] /\ back'[g] = back[g]
      BY <1>1, <1>2
    <3>2. held'[g] = held[g]
      BY <1>1, <1>2
    <3> DEFINE H == held[g]
    <3>3. held'[g] = H /\ held[g] = H
      BY <3>2
    <3> HIDE DEF H
    <3>4. HeldInv(g)
      BY <2>1
    <3> QED
      BY ONLY <3>1, <3>3, <3>4 DEF HeldInv
  <2>3. ASSUME op[g] = "exit", g[2] = 1, pc[g] # "run"
        PROVE  pc'[<<g[1], 0>>] = "run"
    <3>1. /\ pc[<<g[1], 0>>] = "run" /\ <<g[1], 0>> \in Frame /\ g = <<g[1], 1>>
          /\ g[1] \in Context
      BY <2>1, <2>3, FrameShape DEF FlagsInv
    <3>2. <<g[1], 0>> # f
      <4>1. SUFFICES ASSUME <<g[1], 0>> = f PROVE FALSE
        OBVIOUS
      <4>2. running[c] = g[1] /\ level[g[1]] = 0
        BY <4>1 DEF Cur
      <4> QED
        BY <2>3, <3>1, <4>2 DEF LockInv, ContextInv
    <3> QED
      BY <1>1, <3>1, <3>2
  <2>4. FlagsInv(g)'
    BY <1>1, <1>2, <2>1, <2>3 DEF FlagsInv
  <2>5. PassiveInv(g)'
    BY <1>1, <1>2, <2>1 DEF PassiveInv
  <2> QED
    BY <2>2, <2>4, <2>5
<1>3. PassiveInv(f)'
  BY <1>1 DEF PassiveInv
<1>4. ASSUME NEW d \in CPU, d # c
      PROVE  CpuInv(d)'
  <2>1. CpuInv(d) /\ Cur(d) \in Frame /\ Cur(d) # f
    BY <1>4, CurFrame, DifferentFrames DEF CliInv, LockInv
  <2>2. /\ ncli'[d] = ncli[d] /\ intena'[d] = intena[d] /\ FL_IF'[d] = FL_IF[d]
        /\ \A l \in Lock : cpu'[l] = d <=> cpu[l] = d
    BY <1>4 DEF OnlyCpu
  <2>3. UNCHANGED <<running, level>>
    BY DEF switchVars
  <2> QED
    BY <1>1, <2>1, <2>2, <2>3 DEF CpuInv
<1>5. ASSUME NEW l \in Lock, locked'[l]
      PROVE  \E g \in Frame : Owns(g, l)'
  <2>1. CASE Owns(f, l) \/ Owns(f, l)'
    BY <1>5, <2>1 DEF Owned
  <2>2. CASE ~ Owns(f, l) /\ ~ Owns(f, l)'
    <3>1. PICK g \in Frame : Owns(g, l)
      BY <1>5, <2>2 DEF Owned, CliInv
    <3> QED
      BY <1>1, <2>2, <3>1 DEF Owns
  <2> QED
    BY <2>1, <2>2
<1> QED
  BY <1>2, <1>3, <1>4, <1>5 DEF CliInv

LEMMA CallAcquireCli ==
  ASSUME LockInv, CliInv, TypeOK', NEW c \in CPU, NEW f \in Frame, f = Cur(c),
         NEW l \in Lock, NEW o \in Op, CallAcquire(c, f, l, o),
         pc[f] \in {"run", "relock", "start"},
         \A g \in Frame : g # f => back'[g] = back[g],
         l \notin held[f], o # "forkret",
         o \in {"yield", "exit", "scan"} => held[f] = {},
         o = "sleep" => held[f] = IF l = PT THEN {back'[f]} ELSE {},
         o = "exit" /\ f[2] = 1 => pc[<<f[1], 0>>] = "run"
  PROVE  CliInv'
<1>1. TypeOK /\ HeldInv(f) /\ FlagsInv(f) /\ CpuInv(c) /\ f[2] = level[running[c]]
      /\ f[1] = running[c]
  BY DEF LockInv, CliInv, Cur
<1>2. /\ pc'[f] = "cli" /\ op'[f] = o /\ arg'[f] = l /\ eflags'[f] = FL_IF[c]
      /\ UNCHANGED <<locked, cpu, ncli, intena, FL_IF, running, level, saved, held>>
  BY <1>1 DEF CallAcquire, TypeOK, lockVars, cpuVars, switchVars
<1>3. Only(f) /\ OnlyFlags(f) /\ OnlyCpu(c)
  BY <1>1, <1>2 DEF CallAcquire, Only, OnlyFlags, OnlyCpu, TypeOK
<1>4. Owned(f)
  BY <1>1, <1>2 DEF Owned, Owns
<1>5. HeldInv(f)'
  BY <1>1, <1>2 DEF HeldInv, Acquiring, Handover
<1>6. FlagsInv(f)'
  <2>1. held[f] = {} => ncli[c] = 0
    BY <1>1, NcliZero DEF Pushed
  <2>2. f[2] = 1 => ~ FL_IF[c]
    BY <1>1 DEF CpuInv
  <2>3. f[2] = 0 /\ f[1] \in Proc /\ held[f] = {} => FL_IF[c]
    BY <1>1, <2>1 DEF CpuInv, FlagsInv
  <2>4. f[2] = 1 => pc'[<<f[1], 0>>] = pc[<<f[1], 0>>]
    BY <1>3, FrameShape DEF Only
  <2> QED
    BY <1>2, <2>2, <2>3, <2>4 DEF FlagsInv
<1>7. CpuInv(c)'
  <2>1. Cur(c)' = f /\ running'[c] = running[c]
    BY <1>2 DEF Cur
  <2>2. pc[f] \notin Pushed \cup {"unlock", "resumed", "forkret", "iret"} /\ pc'[f] \notin Pushed
        /\ op[f] # "forkret"
    BY <1>1, <1>2 DEF Pushed, FlagsInv
  <2> QED
    BY <1>1, <1>2, <2>1, <2>2 DEF CpuInv
<1> QED
  BY <1>2, <1>3, <1>4, <1>5, <1>6, <1>7, CliLocal DEF switchVars

\* The locks that a processor's frame has are the ones that name it.
LEMMA OwnLock ==
  ASSUME LockInv, CliInv, NEW c \in CPU, NEW l \in held[Cur(c)],
         ~ (pc[Cur(c)] = "unlock" /\ arg[Cur(c)] = l)
  PROVE  locked[l] /\ cpu[l] = c
<1>1. Cur(c) \in Frame /\ l \in Lock
  BY CurFrame DEF LockInv, TypeOK
<1> QED
  BY <1>1 DEF LockInv, Mutex, Owns, CliInv, CpuInv

LEMMA CallReleaseCli ==
  ASSUME LockInv, CliInv, TypeOK', NEW c \in CPU, NEW f \in Frame, f = Cur(c),
         NEW l \in Lock, NEW o \in Op, CallRelease(c, f, l, o),
         pc[f] \in {"run", "drop", "resumed", "forkret", "scan"},
         ncli' = ncli, FL_IF' = FL_IF,
         \A d \in CPU \ {c} : intena'[d] = intena[d],
         intena'[c] = IF pc[f] = "resumed" THEN saved[f] ELSE intena[c],
         \A g \in Frame : g # f => saved'[g] = saved[g],
         l \in held[f],
         pc[f] = "forkret" <=> o = "forkret",
         o # "section" => held[f] = {PT, l},
         o \notin {"section", "sleep"} => l = PT,
         o = "exit" => op[f] = "exit" /\ pc[f] # "run"
  PROVE  CliInv'
<1>1. TypeOK /\ HeldInv(f) /\ FlagsInv(f) /\ CpuInv(c) /\ f[2] = level[running[c]]
      /\ f[1] = running[c] /\ level[running[c]] \in {0, 1}
  BY DEF LockInv, CliInv, Cur, TypeOK
<1>2. locked[l] /\ cpu[l] = c
  BY OwnLock
<1>3. /\ pc'[f] = "unlock" /\ op'[f] = o /\ arg'[f] = l
      /\ \A k \in Lock : cpu'[k] = IF k = l THEN None ELSE cpu[k]
      /\ UNCHANGED <<locked, running, level, eflags, back, held>>
  BY <1>1, <1>2 DEF CallRelease, TypeOK, switchVars
<1>4. None \notin CPU
  BY SpinLockAssumption
<1>5. Only(f) /\ OnlyFlags(f)
  BY <1>1, <1>2, <1>3 DEF CallRelease, Only, OnlyFlags, TypeOK
<1>6. OnlyCpu(c)
  BY <1>2, <1>3, <1>4 DEF OnlyCpu
<1>7. Owned(f)
  BY <1>1, <1>3 DEF Owned, Owns
<1>8. HeldInv(f)'
  BY <1>1, <1>3 DEF HeldInv, Acquiring, Handover
<1>9. FlagsInv(f)'
  <2>1. f[2] = 1 => pc'[<<f[1], 0>>] = pc[<<f[1], 0>>]
    BY <1>5, FrameShape DEF Only
  <2>2. o = "forkret" => f[2] = 0
    BY <1>1 DEF FlagsInv
  <2>3. o = "exit" /\ f[2] = 1 => pc'[<<f[1], 0>>] = "run"
    BY <1>1, <2>1 DEF FlagsInv
  <2> QED
    BY <1>3, <2>2, <2>3 DEF FlagsInv
<1>10. CpuInv(c)'
  <2>1. Cur(c)' = f /\ running'[c] = running[c]
    BY <1>3 DEF Cur
  <2>2. pc[f] \notin Pushed \cup {"unlock", "iret"} /\ pc'[f] \notin Pushed
    BY <1>1, <1>3 DEF Pushed
  <2>3. ncli[c] # 0
    BY NcliZero
  <2>4. \A k \in Lock : cpu'[k] = c <=> k \in held[f] /\ k # l
    BY <1>1, <1>2, <1>3, <1>4, <2>2 DEF CpuInv
  <2>5. level[running[c]] = 1 => ~ intena'[c]
    <3>1. level[running[c]] = 1 /\ pc[f] # "resumed" => ~ intena[c]
      BY <1>1, <2>3 DEF CpuInv, TypeOK
    <3>2. level[running[c]] = 1 /\ pc[f] = "resumed" => ~ saved[f]
      BY <1>1 DEF FlagsInv
    <3> QED
      BY <3>1, <3>2
  <2>6. running[c] \in Proc /\ level[running[c]] = 0 /\ o # "forkret" => intena'[c]
    <3>1. pc[f] = "resumed" /\ f[2] = 0 => saved[f]
      BY <1>1 DEF FlagsInv
    <3>2. op[f] # "forkret"
      BY <1>1 DEF FlagsInv
    <3> QED
      BY <1>1, <2>2, <2>3, <3>1, <3>2 DEF CpuInv
  <2> QED
    BY <1>1, <1>3, <2>1, <2>2, <2>3, <2>4, <2>5, <2>6 DEF CpuInv
<1> QED
  BY <1>3, <1>5, <1>6, <1>7, <1>8, <1>9, <1>10, CliLocal DEF switchVars

LEMMA LockStepCli ==
  ASSUME LockInv, CliInv, TypeOK', NEW c \in CPU, LockStep(c)
  PROVE  CliInv'
<1>1. PICK f \in Frame : f = Cur(c)
  BY CurFrame DEF LockInv
<1>2. /\ TypeOK /\ Mutex /\ HeldInv(f) /\ FlagsInv(f) /\ CpuInv(c) /\ FrameInv(f) /\ KindInv(f)
      /\ f[2] = level[running[c]] /\ f[1] = running[c] /\ level[running[c]] \in {0, 1}
      /\ arg[f] \in Lock /\ op[f] \in Op
  BY <1>1 DEF LockInv, CliInv, Cur, TypeOK
<1>3. f[2] = 1 => <<f[1], 0>> \in Frame /\ <<f[1], 0>> # f
  BY FrameShape
<1>4. /\ Cardinality(held[f]) \in Nat
      /\ IsFiniteSet(held[f] \cup {arg[f]}) /\ IsFiniteSet(held[f] \ {arg[f]})
      /\ arg[f] \notin held[f] => Cardinality(held[f] \cup {arg[f]}) = Cardinality(held[f]) + 1
      /\ arg[f] \in held[f] => Cardinality(held[f] \ {arg[f]}) = Cardinality(held[f]) - 1
  BY <1>2, FS_CardinalityType, FS_AddElement, FS_RemoveElement DEF HeldInv
<1>5. ncli[c] = 0 <=> held[f] = {} /\ pc[f] \notin Pushed
  BY <1>1, NcliZero
<1>6. CASE PushCli(c)
  <2>1. /\ pc[f] = "cli" /\ pc'[f] = "locked" /\ ncli'[c] = ncli[c] + 1 /\ ~ FL_IF'[c]
        /\ intena'[c] <=> IF ncli[c] = 0 THEN eflags[f] ELSE intena[c]
        /\ UNCHANGED <<locked, cpu, running, level, op, arg, back, saved, held>>
    BY <1>1, <1>2, <1>6 DEF PushCli, TypeOK, lockVars, switchVars
  <2>2. Only(f) /\ OnlyFlags(f) /\ OnlyCpu(c) /\ Owned(f)
    BY <1>1, <1>2, <1>6, <2>1 DEF PushCli, Only, OnlyFlags, OnlyCpu, Owned, Owns, TypeOK
  <2>3. HeldInv(f)'
    BY <1>2, <2>1 DEF HeldInv, Acquiring, Handover
  <2>4. f[2] = 1 => pc'[<<f[1], 0>>] = pc[<<f[1], 0>>]
    BY <1>3, <2>2 DEF Only
  <2>5. FlagsInv(f)'
    BY <1>2, <2>1, <2>4 DEF FlagsInv
  <2>6. Cur(c)' = f /\ running'[c] = running[c] /\ ncli[c] \in Nat /\ "cli" \notin Pushed
    BY <1>1, <1>2, <2>1 DEF Cur, TypeOK, Pushed
  <2>7. level[running[c]] = 1 => ~ intena'[c]
    BY <1>1, <1>2, <1>5, <2>1, <2>6 DEF CpuInv, FlagsInv
  <2>8. running[c] \in Proc /\ level[running[c]] = 0 => intena'[c]
    BY <1>1, <1>2, <1>5, <2>1, <2>6 DEF CpuInv, FlagsInv
  <2>9. CpuInv(c)'
    BY <1>1, <1>2, <1>4, <2>1, <2>6, <2>7, <2>8 DEF CpuInv, Pushed
  <2> QED
    BY <1>1, <2>1, <2>2, <2>3, <2>5, <2>9, CliLocal DEF switchVars
<1>7. CASE ReadLocked(c) \/ ReadCpu(c)
  <2>1. /\ pc[f] \in {"locked", "cpu"} /\ pc'[f] \in {"cpu", "xchg"}
        /\ UNCHANGED <<locked, cpu, ncli, intena, FL_IF, running, level,
                       op, arg, back, eflags, saved, held>>
    <3>1. ReadCpu(c) => cpu[arg[f]] # c
      BY <1>1, <1>2 DEF ReadCpu, CpuInv, HeldInv, Acquiring
    <3> QED
      BY <1>1, <1>2, <1>7, <3>1
         DEF ReadLocked, ReadCpu, TypeOK, lockVars, cpuVars, switchVars
  <2>2. Only(f)
    BY <1>1, <1>2, <1>7, <2>1 DEF ReadLocked, ReadCpu, Only, TypeOK
  <2>3. OnlyFlags(f) /\ OnlyCpu(c) /\ Owned(f)
    BY <2>1 DEF OnlyFlags, OnlyCpu, Owned, Owns
  <2>4. HeldInv(f)'
    BY <1>2, <2>1 DEF HeldInv, Acquiring, Handover
  <2>5. f[2] = 1 => pc'[<<f[1], 0>>] = pc[<<f[1], 0>>]
    BY <1>3, <2>2 DEF Only
  <2>6. FlagsInv(f)'
    BY <1>2, <2>1, <2>5 DEF FlagsInv
  <2>7. CpuInv(c)'
    <3>1. Cur(c)' = f
      BY <1>1, <2>1 DEF Cur
    <3> QED
      BY <1>1, <1>2, <2>1, <3>1 DEF CpuInv, Pushed
  <2> QED
    BY <1>1, <2>1, <2>2, <2>3, <2>4, <2>6, <2>7, CliLocal DEF switchVars
<1>8. CASE Xchg(c)
  <2>1. /\ pc[f] = "xchg" /\ pc'[f] = "own"
        /\ \A l \in Lock : locked'[l] <=> locked[l] \/ l = arg[f]
        /\ UNCHANGED <<cpu, ncli, intena, FL_IF, running, level,
                       op, arg, back, eflags, saved, held>>
    BY <1>1, <1>2, <1>8 DEF Xchg, TypeOK, cpuVars, switchVars
  <2>2. Only(f)
    BY <1>1, <1>2, <1>8, <2>1 DEF Xchg, Only, TypeOK
  <2>3. OnlyFlags(f) /\ OnlyCpu(c) /\ Owned(f)
    BY <2>1 DEF OnlyFlags, OnlyCpu, Owned, Owns
  <2>4. HeldInv(f)'
    BY <1>2, <2>1 DEF HeldInv, Acquiring, Handover
  <2>5. f[2] = 1 => pc'[<<f[1], 0>>] = pc[<<f[1], 0>>]
    BY <1>3, <2>2 DEF Only
  <2>6. FlagsInv(f)'
    BY <1>2, <2>1, <2>5 DEF FlagsInv
  <2>7. CpuInv(c)'
    <3>1. Cur(c)' = f
      BY <1>1, <2>1 DEF Cur
    <3> QED
      BY <1>1, <1>2, <2>1, <3>1 DEF CpuInv, Pushed
  <2> QED
    BY <1>1, <2>1, <2>2, <2>3, <2>4, <2>6, <2>7, CliLocal DEF switchVars
<1>9. CASE Acquired(c)
  <2> DEFINE q == AfterAcquire(f)
  <2>1. /\ pc[f] = "own" /\ pc'[f] = q /\ held'[f] = held[f] \cup {arg[f]}
        /\ arg'[f] = PT
        /\ op'[f] = IF q \in {"run", "scan"} THEN "section" ELSE op[f]
        /\ back'[f] = IF q \in {"run", "scan"} THEN PT ELSE back[f]
        /\ \A l \in Lock : cpu'[l] = IF l = arg[f] THEN c ELSE cpu[l]
        /\ UNCHANGED <<locked, ncli, intena, FL_IF, running, level, eflags, saved>>
    BY <1>1, <1>2, <1>9 DEF Acquired, GoOn, AfterAcquire, TypeOK, cpuVars, switchVars
  <2>2. /\ q \in {"sched", "scan", "drop", "run"}
        /\ q = "sched" => op[f] \in {"yield", "exit"}
        /\ q = "scan" => op[f] = "scan"
        /\ q = "drop" => op[f] = "sleep" /\ arg[f] = PT
    BY DEF AfterAcquire
  <2> HIDE DEF q
  <2>3. Only(f)
    BY <1>1, <1>2, <1>9 DEF Acquired, GoOn, Only, TypeOK
  <2>4. OnlyFlags(f) /\ Owned(f)
    BY <2>1 DEF OnlyFlags, Owned, Owns
  <2>5. OnlyCpu(c)
    <3>1. ASSUME NEW d \in CPU \ {c}
          PROVE  cpu[arg[f]] # d
      <4>1. Cur(d) \in Frame /\ Cur(d) # f /\ CpuInv(d)
        BY <1>1, <1>2, CurFrame, DifferentFrames DEF CliInv
      <4>2. Owns(f, arg[f]) /\ ~ Owns(Cur(d), arg[f])
        BY <1>2, <2>1, <4>1 DEF Owns, Mutex
      <4> QED
        BY <1>2, <4>1, <4>2 DEF CpuInv, Owns
    <3> QED
      BY <2>1, <3>1 DEF OnlyCpu
  <2>6. HeldInv(f)'
    <3>1. q \in {"sched", "scan"} => held'[f] = {PT}
      BY <1>2, <2>1, <2>2 DEF HeldInv, FrameInv, Acquiring
    <3>2. q = "drop" => held'[f] = {PT, back'[f]}
      BY <1>2, <2>1, <2>2 DEF HeldInv, Acquiring
    <3>3. IsFiniteSet(held[f] \cup {arg[f]})
      BY <1>4
    <3>4. IsFiniteSet(held'[f])
      BY <2>1, <3>3
    <3> QED
      BY <2>1, <2>2, <3>1, <3>2, <3>4 DEF HeldInv, Acquiring, Handover
  <2>7. f[2] = 1 => pc'[<<f[1], 0>>] = pc[<<f[1], 0>>]
    BY <1>3, <2>3 DEF Only
  <2>8. FlagsInv(f)'
    BY <1>2, <2>1, <2>2, <2>7 DEF FlagsInv
  <2>9. CpuInv(c)'
    <3>1. Cur(c)' = f /\ "own" \in Pushed /\ q \notin Pushed /\ arg[f] \notin held[f]
      BY <1>1, <1>2, <2>1, <2>2 DEF Cur, Pushed, HeldInv, Acquiring
    <3>2. ncli[c] = Cardinality(held'[f]) /\ ncli[c] # 0
      <4>1. ncli[c] = Cardinality(held[f]) + 1
        BY <1>1, <1>2, <2>1, <3>1 DEF CpuInv
      <4>2. Cardinality(held[f] \cup {arg[f]}) = Cardinality(held[f]) + 1
        BY <1>4, <3>1
      <4>3. Cardinality(held'[f]) = Cardinality(held[f]) + 1
        BY <2>1, <4>2
      <4> QED
        BY <1>4, <4>1, <4>3
    <3>3. op[f] # "forkret"
      BY <1>2, <2>1 DEF FlagsInv
    <3>4. \A l \in Lock : cpu'[l] = c <=> l \in held'[f]
      BY <1>1, <1>2, <2>1 DEF CpuInv
    <3>5. level[running[c]] = 1 => ~ FL_IF[c] /\ ~ intena[c]
      BY <1>1, <1>2, <2>1, <3>2 DEF CpuInv, TypeOK
    <3>6. running[c] \in Proc /\ level[running[c]] = 0 => intena[c]
      BY <1>1, <1>2, <2>1, <3>2, <3>3 DEF CpuInv
    <3>7. ~ FL_IF[c]
      BY <1>1, <1>2, <3>2 DEF CpuInv
    <3>8. /\ ncli'[c] = ncli[c] /\ (intena'[c] <=> intena[c]) /\ (FL_IF'[c] <=> FL_IF[c])
          /\ running'[c] = running[c] /\ level'[running'[c]] = level[running[c]]
          /\ pc'[f] = q /\ ncli[c] \in Nat
      BY <1>2, <2>1 DEF TypeOK
    <3>9. q \notin Pushed \cup {"unlock"}
      BY <2>2, <3>1
    <3> QED
      BY ONLY <3>1, <3>2, <3>4, <3>5, <3>6, <3>7, <3>8, <3>9 DEF CpuInv
  <2> QED
    BY <1>1, <2>1, <2>3, <2>4, <2>5, <2>6, <2>8, <2>9, CliLocal DEF switchVars
<1>10. CASE Unlock(c)
  <2>1. /\ pc[f] = "unlock" /\ pc'[f] = "popcli" /\ held'[f] = held[f] \ {arg[f]}
        /\ \A l \in Lock : locked'[l] <=> locked[l] /\ l # arg[f]
        /\ UNCHANGED <<cpu, ncli, intena, FL_IF, running, level,
                       op, arg, back, eflags, saved>>
    BY <1>1, <1>2, <1>10 DEF Unlock, TypeOK, cpuVars, switchVars
  <2>2. Only(f)
    BY <1>1, <1>2, <1>10, <2>1 DEF Unlock, Only, TypeOK
  <2>3. OnlyFlags(f) /\ OnlyCpu(c) /\ Owned(f)
    BY <2>1 DEF OnlyFlags, OnlyCpu, Owned, Owns
  <2>4. HeldInv(f)'
    <3>1. op[f] # "section" => held'[f] = IF op[f] = "sleep" /\ arg[f] # PT THEN {PT} ELSE {}
      BY <1>2, <2>1 DEF HeldInv
    <3>2. IsFiniteSet(held[f] \ {arg[f]})
      BY <1>4
    <3>3. IsFiniteSet(held'[f])
      BY <2>1, <3>2
    <3> QED
      BY <2>1, <3>1, <3>3 DEF HeldInv, Acquiring, Handover
  <2>5. f[2] = 1 => pc'[<<f[1], 0>>] = pc[<<f[1], 0>>]
    BY <1>3, <2>2 DEF Only
  <2>6. FlagsInv(f)'
    BY <1>2, <2>1, <2>5 DEF FlagsInv
  <2>7. CpuInv(c)'
    <3>1. Cur(c)' = f /\ arg[f] \in held[f]
      BY <1>1, <1>2, <2>1 DEF Cur, FrameInv
    <3>2. Cardinality(held[f] \ {arg[f]}) = Cardinality(held[f]) - 1
      BY <1>4, <3>1
    <3>3. Cardinality(held'[f]) = Cardinality(held[f]) - 1
      BY <2>1, <3>2
    <3>4. ncli[c] = Cardinality(held'[f]) + 1
      BY <1>1, <1>2, <1>4, <2>1, <3>3 DEF CpuInv, Pushed
    <3>5. ncli[c] \in Nat /\ \A l \in Lock : cpu[l] = c <=> l \in held'[f]
      BY <1>1, <1>2, <2>1 DEF CpuInv, TypeOK
    <3>6. ncli[c] # 0 /\ "unlock" \notin {"resumed", "forkret", "iret"}
      BY <1>5, <3>1
    <3> QED
      BY <1>1, <1>2, <2>1, <3>1, <3>4, <3>5, <3>6 DEF CpuInv, Pushed
  <2> QED
    BY <1>1, <2>1, <2>2, <2>3, <2>4, <2>6, <2>7, CliLocal DEF switchVars
<1>11. CASE PopCli(c)
  <2> DEFINE q == AfterRelease(f)
  <2>1. pc[f] = "popcli" /\ ncli[c] # 0 /\ ncli[c] \in Nat
    BY <1>1, <1>2, <1>5, <1>11 DEF PopCli, Pushed, TypeOK
  <2>2. ~ FL_IF[c]
    BY <1>1, <1>2, <2>1 DEF CpuInv
  <2>3. /\ q \in {"idle", "iret", "relock", "sched", "run"}
        /\ q = "iret" <=> op[f] = "forkret"
        /\ q = "relock" => op[f] = "sleep" /\ arg[f] = PT
        /\ q = "sched" => op[f] = "sleep" /\ arg[f] # PT
        /\ q = "idle" => op[f] = "scan"
    BY DEF AfterRelease
  <2> HIDE DEF q
  <2>4. GoOn(f, q) /\ UNCHANGED <<locked, cpu, intena, running, level, eflags, saved, held>>
    BY <1>1, <1>11, <2>1, <2>2 DEF PopCli, q, lockVars, switchVars
  <2>5. /\ ncli'[c] = ncli[c] - 1
        /\ FL_IF'[c] <=> ncli[c] = 1 /\ intena[c]
        /\ OnlyCpu(c)
    BY <1>1, <1>2, <1>11, <2>1, <2>2, <2>4 DEF PopCli, OnlyCpu, TypeOK
  <2>6. /\ pc'[f] = q /\ arg'[f] = PT
        /\ op'[f] = IF q \in {"run", "idle", "iret"} THEN "section" ELSE op[f]
        /\ back'[f] = IF q \in {"run", "idle", "iret"} THEN PT ELSE back[f]
    BY <1>2, <2>3, <2>4 DEF GoOn, TypeOK
  <2>7. Only(f)
    BY <1>2, <2>4, GoOnMovesOne DEF Only
  <2>8. OnlyFlags(f) /\ Owned(f)
    BY <2>1, <2>4 DEF OnlyFlags, Owned, Owns
  <2>9. HeldInv(f)'
    BY <1>2, <2>1, <2>3, <2>4, <2>6 DEF HeldInv, Acquiring, Handover
  <2>10. f[2] = 1 => pc'[<<f[1], 0>>] = pc[<<f[1], 0>>]
    BY <1>3, <2>7 DEF Only
  <2>11. FlagsInv(f)'
    BY <1>2, <2>1, <2>3, <2>4, <2>6, <2>10 DEF FlagsInv
  <2>12. CpuInv(c)'
    <3>1. Cur(c)' = f /\ q \notin Pushed \cup {"unlock", "resumed", "forkret"}
      BY <1>1, <2>3, <2>4 DEF Cur, Pushed
    <3>2. ncli[c] = Cardinality(held[f]) + 1
      BY <1>1, <1>2, <2>1 DEF CpuInv, Pushed
    <3>3. level[running[c]] = 1 => ~ intena[c]
      BY <1>1, <1>2, <2>1 DEF CpuInv
    <3>4. running[c] \in Proc /\ level[running[c]] = 0 /\ q # "iret" => intena[c]
      BY <1>1, <1>2, <2>1, <2>3 DEF CpuInv
    <3>5. \A l \in Lock : cpu[l] = c <=> l \in held[f]
      BY <1>1, <1>2, <2>1 DEF CpuInv
    <3> QED
      BY <1>4, <2>1, <2>3, <2>4, <2>5, <2>6, <3>1, <3>2, <3>3, <3>4, <3>5 DEF CpuInv
  <2> QED
    BY <1>1, <2>4, <2>5, <2>7, <2>8, <2>9, <2>11, <2>12, CliLocal DEF switchVars
<1> QED
  BY <1>6, <1>7, <1>8, <1>9, <1>10, <1>11 DEF LockStep

LEMMA ProcessStepCli ==
  ASSUME LockInv, CliInv, TypeOK', NEW c \in CPU, ProcessStep(c), ~ Sched(c)
  PROVE  CliInv'
<1>1. PICK f \in Frame : f = Cur(c)
  BY CurFrame DEF LockInv
<1>2. /\ TypeOK /\ HeldInv(f) /\ FlagsInv(f) /\ CpuInv(c) /\ FrameInv(f) /\ KindInv(f)
      /\ f[2] = level[running[c]] /\ f[1] = running[c] /\ level[running[c]] \in {0, 1}
      /\ back[f] \in Lock /\ op[f] \in Op
      /\ PT \in Lock /\ Outer \subseteq Lock /\ PT \notin Outer
  BY <1>1, FrameShape, SpinLockAssumption DEF LockInv, CliInv, Cur, TypeOK
<1>3. {"section", "sleep", "yield", "exit", "scan", "forkret"} \subseteq Op
  BY DEF Op
<1>4. pc[f] \in Handover => held[f] = {PT}
  BY <1>1, <1>2, HandedOver DEF HeldInv
<1>5. CASE \E l \in Lock : Acquire(c, l)
  BY <1>1, <1>3, <1>5, CallAcquireCli DEF Acquire
<1>6. CASE \E l \in Lock : Release(c, l)
  <2>1. PICK l \in Lock : Release(c, l)
    BY <1>6
  <2>2. /\ pc[f] = "run" /\ l \in held[f] /\ CallRelease(c, f, l, "section")
        /\ UNCHANGED <<ncli, intena, FL_IF, saved>>
    BY <1>1, <2>1 DEF Release, cpuVars
  <2> QED
    BY <1>1, <1>3, <2>2, CallReleaseCli
<1>7. CASE \E l \in Lock : Sleep(c, l)
  <2>1. PICK l \in Lock : Sleep(c, l)
    BY <1>7
  <2>2. /\ pc[f] = "run" /\ PT \notin held[f] /\ CallAcquire(c, f, PT, "sleep")
        /\ back' = [back EXCEPT ![f] = l] /\ held[f] = {l}
    BY <1>1, <1>2, <2>1 DEF Sleep, InProcess
  <2>3. back'[f] = l /\ \A g \in Frame : g # f => back'[g] = back[g]
    BY <1>2, <2>2 DEF TypeOK
  <2> QED
    BY <1>1, <1>2, <1>3, <2>2, <2>3, CallAcquireCli
<1>8. CASE SleepDropsLock(c)
  <2>1. /\ CallRelease(c, f, back[f], "sleep") /\ pc[f] = "drop"
        /\ UNCHANGED <<ncli, intena, FL_IF, saved>>
    BY <1>1, <1>8 DEF SleepDropsLock, cpuVars
  <2>2. held[f] = {PT, back[f]}
    BY <1>2, <2>1 DEF HeldInv
  <2> QED
    BY <1>1, <1>2, <1>3, <2>1, <2>2, CallReleaseCli
<1>9. CASE SleepOnTable(c)
  <2>1. /\ pc[f] = "run" /\ held[f] = {PT} /\ pc'[f] = "sched" /\ op'[f] = "sleep"
        /\ back'[f] = PT
        /\ UNCHANGED <<locked, cpu, ncli, intena, FL_IF, running, level,
                       arg, eflags, saved, held>>
    BY <1>1, <1>2, <1>9 DEF SleepOnTable, InProcess, TypeOK, lockVars, cpuVars, switchVars
  <2>2. Only(f)
    BY <1>1, <1>2, <1>9, <2>1 DEF SleepOnTable, Only, TypeOK
  <2>3. OnlyFlags(f) /\ OnlyCpu(c) /\ Owned(f)
    BY <2>1 DEF OnlyFlags, OnlyCpu, Owned, Owns
  <2>4. HeldInv(f)'
    BY <1>2, <2>1 DEF HeldInv, Acquiring, Handover
  <2>5. FlagsInv(f)'
    BY <1>2, <2>1 DEF FlagsInv
  <2>6. CpuInv(c)'
    <3>1. Cur(c)' = f /\ op[f] # "forkret"
      BY <1>1, <1>2, <2>1 DEF Cur, FlagsInv
    <3> QED
      BY <1>1, <1>2, <2>1, <3>1 DEF CpuInv, Pushed
  <2> QED
    BY <1>1, <2>1, <2>2, <2>3, <2>4, <2>5, <2>6, CliLocal DEF switchVars
<1>10. CASE SleepRetakesLock(c)
  <2>1. CallAcquire(c, f, back[f], "sleep") /\ pc[f] = "relock" /\ back' = back
    BY <1>1, <1>10 DEF SleepRetakesLock
  <2>2. held[f] = {} /\ back[f] # PT
    BY <1>2, <2>1 DEF HeldInv, FrameInv
  <2> QED
    BY <1>1, <1>2, <1>3, <2>1, <2>2, CallAcquireCli
<1>11. CASE Yield(c)
  BY <1>1, <1>2, <1>3, <1>11, CallAcquireCli DEF Yield, InProcess
<1>12. CASE Exit(c)
  BY <1>1, <1>2, <1>3, <1>12, CallAcquireCli DEF Exit, InProcess
<1>13. CASE Resumed(c)
  <2>1. /\ pc[f] = "resumed" /\ held[f] = {PT} /\ op[f] \notin {"scan", "forkret"}
        /\ (saved[f] <=> f[2] = 0)
        /\ UNCHANGED <<ncli, FL_IF>>
        /\ (intena'[c] <=> saved[f]) /\ intena'[c] = saved[f]
        /\ \A d \in CPU \ {c} : intena'[d] = intena[d]
        /\ ~ saved'[f] /\ \A g \in Frame : g # f => saved'[g] = saved[g]
    <3>1. pc[f] = "resumed"
      BY <1>1, <1>13 DEF Resumed
    <3>2. held[f] = {PT} /\ op[f] \notin {"scan", "forkret"} /\ (saved[f] <=> f[2] = 0)
      BY <1>2, <1>4, <3>1, SpinLockAssumption DEF Handover, FlagsInv, KindInv
    <3> QED
      BY <1>1, <1>2, <1>13, <3>1, <3>2 DEF Resumed, TypeOK
  <2>2. CASE op[f] = "sleep" /\ back[f] = PT
    <3>1. /\ GoOn(f, "run")
          /\ UNCHANGED <<locked, cpu, ncli, FL_IF, running, level, eflags, held>>
      BY <1>1, <1>13, <2>2 DEF Resumed, lockVars, switchVars
    <3>2. pc'[f] = "run" /\ op'[f] = "section" /\ Only(f)
      BY <1>2, <3>1 DEF GoOn, Only, TypeOK
    <3>3. OnlyFlags(f) /\ OnlyCpu(c) /\ Owned(f)
      BY <2>1, <3>1, <3>2 DEF OnlyFlags, OnlyCpu, Owned, Owns
    <3>4. HeldInv(f)'
      BY <1>2, <2>1, <3>1, <3>2 DEF HeldInv, Acquiring, Handover
    <3>5. FlagsInv(f)'
      BY <1>2, <3>2 DEF FlagsInv
    <3>6. CpuInv(c)'
      <4>1. Cur(c)' = f /\ ncli[c] # 0
        BY <1>1, <2>1, <3>1, NcliZero DEF Cur
      <4>2. \A l \in Lock : cpu[l] = c <=> l \in held[f]
        BY <1>1, <1>2, <2>1 DEF CpuInv
      <4>3. ncli[c] = Cardinality(held[f]) + (IF "run" \in Pushed THEN 1 ELSE 0)
        BY <1>1, <1>2, <2>1 DEF CpuInv, Pushed
      <4>4. ~ FL_IF[c]
        BY <1>1, <1>2, <4>1 DEF CpuInv
      <4>5. /\ level[running[c]] = 1 => ~ intena'[c]
            /\ level[running[c]] = 0 => intena'[c]
        BY <1>2, <2>1
      <4> QED
        BY <2>1, <3>1, <3>2, <4>1, <4>2, <4>3, <4>4, <4>5 DEF CpuInv
    <3> QED
      BY <1>1, <3>1, <3>2, <3>3, <3>4, <3>5, <3>6, CliLocal DEF switchVars
  <2>3. CASE ~ (op[f] = "sleep" /\ back[f] = PT)
    <3>1. CallRelease(c, f, PT, op[f])
      BY <1>1, <1>13, <2>3 DEF Resumed
    <3> QED
      BY <1>1, <1>2, <2>1, <3>1, CallReleaseCli
  <2> QED
    BY <2>2, <2>3
<1>14. CASE ForkRet(c)
  <2>1. /\ pc[f] = "forkret" /\ CallRelease(c, f, PT, "forkret")
        /\ UNCHANGED <<ncli, intena, FL_IF, saved>>
    BY <1>1, <1>14 DEF ForkRet, cpuVars
  <2>2. held[f] = {PT}
    BY <1>4, <2>1 DEF Handover
  <2> QED
    BY <1>1, <1>2, <1>3, <2>1, <2>2, CallReleaseCli
<1>15. CASE ReturnToUser(c)
  <2>1. /\ pc[f] = "iret" /\ pc'[f] = "run" /\ FL_IF'[c]
        /\ UNCHANGED <<locked, cpu, ncli, intena, running, level,
                       op, arg, back, eflags, saved, held>>
    BY <1>1, <1>2, <1>15 DEF ReturnToUser, TypeOK, lockVars, switchVars
  <2>2. Only(f) /\ OnlyFlags(f) /\ OnlyCpu(c) /\ Owned(f)
    BY <1>1, <1>2, <1>15, <2>1
       DEF ReturnToUser, Only, OnlyFlags, OnlyCpu, Owned, Owns, TypeOK
  <2>3. HeldInv(f)'
    BY <1>2, <2>1 DEF HeldInv, Acquiring, Handover
  <2>4. f[2] = 0 /\ FlagsInv(f)'
    BY <1>2, <2>1 DEF FlagsInv
  <2>5. CpuInv(c)'
    <3>1. Cur(c)' = f /\ held[f] = {} /\ ncli[c] = 0
      BY <1>1, <1>2, <2>1, NcliZero DEF Cur, HeldInv, Pushed
    <3> QED
      BY <1>1, <1>2, <2>1, <2>4, <3>1 DEF CpuInv, Pushed
  <2> QED
    BY <1>1, <2>1, <2>2, <2>3, <2>4, <2>5, CliLocal DEF switchVars
<1> QED
  BY <1>5, <1>6, <1>7, <1>8, <1>9, <1>10, <1>11, <1>12, <1>13, <1>14, <1>15
     DEF ProcessStep

LEMMA SchedulerStepCli ==
  ASSUME LockInv, CliInv, TypeOK', NEW c \in CPU,
         Sti(c) \/ StartScan(c) \/ EndScan(c)
  PROVE  CliInv'
<1>1. PICK f \in Frame : f = Cur(c)
  BY CurFrame DEF LockInv
<1>2. /\ TypeOK /\ HeldInv(f) /\ FlagsInv(f) /\ CpuInv(c) /\ KindInv(f)
      /\ f[2] = level[running[c]] /\ f[1] = running[c] /\ level[running[c]] \in {0, 1}
      /\ PT \in Lock /\ "scan" \in Op
  BY <1>1, FrameShape DEF LockInv, CliInv, Cur, TypeOK, Op
<1>3. CASE Sti(c)
  <2>1. /\ pc[f] = "idle" /\ pc'[f] = "start" /\ FL_IF'[c]
        /\ UNCHANGED <<locked, cpu, ncli, intena, running, level,
                       op, arg, back, eflags, saved, held>>
    BY <1>1, <1>2, <1>3 DEF Sti, TypeOK, lockVars, switchVars
  <2>2. Only(f) /\ OnlyFlags(f) /\ OnlyCpu(c) /\ Owned(f)
    BY <1>1, <1>2, <1>3, <2>1
       DEF Sti, Only, OnlyFlags, OnlyCpu, Owned, Owns, TypeOK
  <2>3. HeldInv(f)'
    BY <1>2, <2>1 DEF HeldInv, Acquiring, Handover
  <2>4. f[2] = 0 /\ FlagsInv(f)'
    BY <1>2, <2>1 DEF FlagsInv, KindInv
  <2>5. CpuInv(c)'
    <3>1. Cur(c)' = f /\ held[f] = {} /\ ncli[c] = 0
      BY <1>1, <1>2, <2>1, NcliZero DEF Cur, HeldInv, Pushed
    <3> QED
      BY <1>1, <1>2, <2>1, <2>4, <3>1 DEF CpuInv, Pushed
  <2> QED
    BY <1>1, <2>1, <2>2, <2>3, <2>4, <2>5, CliLocal DEF switchVars
<1>4. CASE StartScan(c)
  <2>1. pc[f] = "start" /\ CallAcquire(c, f, PT, "scan") /\ back' = back
    BY <1>1, <1>4 DEF StartScan
  <2>2. held[f] = {}
    BY <1>2, <2>1 DEF HeldInv
  <2> QED
    BY <1>1, <1>2, <2>1, <2>2, CallAcquireCli
<1>5. CASE EndScan(c)
  <2>1. /\ pc[f] = "scan" /\ CallRelease(c, f, PT, "scan")
        /\ UNCHANGED <<ncli, intena, FL_IF, saved>>
    BY <1>1, <1>5 DEF EndScan, cpuVars
  <2>2. held[f] = {PT}
    BY <1>1, <1>2, <2>1, HandedOver DEF Handover, HeldInv
  <2> QED
    BY <1>1, <1>2, <2>1, <2>2, CallReleaseCli
<1> QED
  BY <1>3, <1>4, <1>5

\* An interrupt comes while the frame under it has no lock and wants none.
LEMMA InterruptCli ==
  ASSUME LockInv, CliInv, TypeOK', NEW c \in CPU, Interrupt(c) \/ InterruptReturns(c)
  PROVE  CliInv'
<1> DEFINE t == running[c]
           f == Cur(c)
           g == Cur(c)'
<1>1. /\ TypeOK /\ t \in Context /\ f \in Frame /\ g \in Frame
      /\ UNCHANGED <<locked, cpu, ncli, intena, running, pc, op, arg, back,
                     eflags, saved, held>>
      /\ f = <<t, level[t]>> /\ g = <<t, level'[t]>>
      /\ level[t] # level'[t] /\ level[t] \in {0, 1} /\ level'[t] \in {0, 1}
      /\ \A u \in Context : u # t => level'[u] = level[u]
      /\ FL_IF'[c] <=> level'[t] = 0
      /\ \A d \in CPU \ {c} : FL_IF'[d] = FL_IF[d]
      /\ Interrupt(c) => FL_IF[c] /\ level[t] = 0
      /\ InterruptReturns(c) => level[t] = 1 /\ pc[f] = "run" /\ held[f] = {}
  <2>1. TypeOK /\ t \in Context /\ f \in Frame
    BY CurFrame DEF LockInv, TypeOK
  <2>2. level[t] \in {0, 1} /\ level'[t] \in {0, 1} /\ running' = running
    BY <2>1 DEF TypeOK, Interrupt, InterruptReturns
  <2>3. f = <<t, level[t]>> /\ g = <<t, level'[t]>>
    BY <2>2 DEF Cur
  <2>4. g \in Frame
    BY <2>1, <2>2, <2>3, FrameShape
  <2>5. /\ UNCHANGED <<locked, cpu, ncli, intena, running, pc, op, arg, back,
                      eflags, saved, held>>
        /\ level[t] # level'[t]
        /\ \A u \in Context : u # t => level'[u] = level[u]
    BY <2>1 DEF Interrupt, InterruptReturns, TypeOK, lockVars, frameVars
  <2>6. /\ FL_IF'[c] <=> level'[t] = 0
        /\ \A d \in CPU \ {c} : FL_IF'[d] = FL_IF[d]
        /\ Interrupt(c) => FL_IF[c] /\ level[t] = 0
        /\ InterruptReturns(c) => level[t] = 1 /\ pc[f] = "run" /\ held[f] = {}
    BY <2>1 DEF Interrupt, InterruptReturns, TypeOK
  <2> QED
    BY <2>1, <2>2, <2>3, <2>4, <2>5, <2>6
<1>2. CpuInv(c) /\ (ncli[c] = 0 <=> held[f] = {} /\ pc[f] \notin Pushed)
  BY NcliZero DEF CliInv
<1> HIDE DEF t, f, g
<1>3. held[f] = {} /\ pc[f] \notin Pushed \cup {"unlock"} /\ ncli[c] = 0
  <2>1. FrameInv(f)
    BY <1>1 DEF LockInv
  <2>2. ncli[c] = 0
    BY <1>1, <1>2 DEF CpuInv, Pushed
  <2> QED
    BY <1>2, <2>1, <2>2 DEF FrameInv
<1>4. ASSUME NEW d \in CPU, d # c
      PROVE  /\ Cur(d)' = Cur(d) /\ running[d] # t /\ running[d] \in Context
             /\ Cur(d) # f /\ Cur(d) # g
  <2>1. running[d] # t /\ running[d] \in Context
    BY <1>1, <1>4 DEF LockInv, RunInv, TypeOK, t
  <2> QED
    BY <1>1, <2>1 DEF Cur
<1>5. held[g] = {} /\ pc[g] \notin Pushed \cup {"unlock"}
  <2>1. \A d \in CPU : g # Cur(d)
    BY <1>1, <1>4 DEF f
  <2> QED
    BY <1>1, <2>1 DEF CliInv, PassiveInv
<1>6. ASSUME NEW h \in Frame
      PROVE  HeldInv(h)' /\ FlagsInv(h)' /\ PassiveInv(h)'
  <2>1. HeldInv(h)' /\ FlagsInv(h)'
    BY <1>1 DEF CliInv, HeldInv, FlagsInv
  <2>2. ASSUME \A d \in CPU : h # Cur(d)'
        PROVE  held[h] = {} /\ pc[h] \notin Pushed \cup {"unlock"}
    <3>1. CASE h \in {f, g}
      BY <1>3, <1>5, <3>1
    <3>2. CASE h \notin {f, g}
      <4>1. \A d \in CPU : h # Cur(d)
        BY <1>4, <2>2, <3>2 DEF f
      <4> QED
        BY <4>1 DEF CliInv, PassiveInv
    <3> QED
      BY <3>1, <3>2
  <2>3. PassiveInv(h)'
    BY <1>1, <2>2 DEF PassiveInv
  <2> QED
    BY <2>1, <2>3
<1>7. CpuInv(c)'
  <2>1. Cardinality({}) = 0
    BY FS_EmptySet
  <2>2. \A l \in Lock : cpu[l] # c
    BY <1>2, <1>3 DEF CpuInv, f
  <2> QED
    BY <1>1, <1>3, <1>5, <2>1, <2>2 DEF CpuInv, g, t
<1>8. ASSUME NEW d \in CPU, d # c
      PROVE  CpuInv(d)'
  <2>1. Cur(d)' = Cur(d) /\ level'[running[d]] = level[running[d]] /\ CpuInv(d)
    BY <1>1, <1>4, <1>8 DEF CliInv
  <2> QED
    BY <1>1, <1>8, <2>1 DEF CpuInv
<1>9. \A l \in Lock : locked'[l] => \E h \in Frame : Owns(h, l)'
  BY <1>1 DEF CliInv, Owns
<1> QED
  BY <1>6, <1>7, <1>8, <1>9 DEF CliInv

FramesKept == \A h \in Frame : HeldInv(h) /\ FlagsInv(h)

\* swtch: c goes from frame f to frame g, which takes ptable.lock over from f.
Switched(c, f, g) ==
  /\ f = Cur(c) /\ g = <<running'[c], level'[running'[c]]>> /\ g # f
  /\ held[f] = {PT}
  /\ \A d \in CPU : g # Cur(d)
  /\ \A d \in CPU \ {c} : /\ running'[d] = running[d]
                        /\ level'[running[d]] = level[running[d]]
                        /\ pc'[Cur(d)] = pc[Cur(d)]
                        /\ op'[Cur(d)] = op[Cur(d)]
  /\ \A h \in Frame : held'[h] = IF h = f THEN {} ELSE IF h = g THEN {PT} ELSE held[h]
  /\ UNCHANGED <<locked, cpu, ncli, intena, FL_IF, arg>>
  /\ pc[f] \notin Pushed \cup {"unlock"}
  /\ pc[g] \notin Pushed \cup {"unlock"}
  /\ \A h \in Frame : pc'[h] = pc[h] \/ pc'[h] \notin Pushed \cup {"unlock"}
  /\ pc'[g] \in Handover
  /\ running'[c] \in Proc => pc'[g] \in {"resumed", "forkret"}
  /\ level'[running'[c]] = 1 => pc'[g] = "resumed"

LEMMA SwitchCli ==
  ASSUME LockInv, CliInv, FramesKept', NEW c \in CPU, NEW f \in Frame, NEW g \in Frame,
         Switched(c, f, g)
  PROVE  CliInv'
<1>8. /\ f = Cur(c) /\ g = <<running'[c], level'[running'[c]]>> /\ g # f
      /\ held[f] = {PT}
      /\ \A d \in CPU : g # Cur(d)
      /\ \A d \in CPU \ {c} : /\ running'[d] = running[d]
                            /\ level'[running[d]] = level[running[d]]
                            /\ pc'[Cur(d)] = pc[Cur(d)]
                            /\ op'[Cur(d)] = op[Cur(d)]
      /\ \A h \in Frame : held'[h] = IF h = f THEN {} ELSE IF h = g THEN {PT} ELSE held[h]
      /\ UNCHANGED <<locked, cpu, ncli, intena, FL_IF, arg>>
      /\ pc[f] \notin Pushed \cup {"unlock"}
      /\ pc[g] \notin Pushed \cup {"unlock"}
      /\ \A h \in Frame : pc'[h] = pc[h] \/ pc'[h] \notin Pushed \cup {"unlock"}
      /\ pc'[g] \in Handover
      /\ running'[c] \in Proc => pc'[g] \in {"resumed", "forkret"}
      /\ level'[running'[c]] = 1 => pc'[g] = "resumed"
  BY DEF Switched
<1> USE <1>8
<1>1. /\ CpuInv(c) /\ Cardinality({PT}) = 1 /\ PT \in Lock
      /\ \A d \in CPU \ {c} : Cur(d) \in Frame /\ Cur(d) # f /\ Cur(d) # g
  BY FS_Singleton, FrameShape, CurFrame, DifferentFrames DEF CliInv, LockInv
<1>2. ncli[c] = 1 /\ ~ FL_IF[c] /\ \A l \in Lock : cpu[l] = c <=> l = PT
  <2>1. ncli[c] = Cardinality(held[f]) + (IF pc[f] \in Pushed THEN 1 ELSE 0)
    BY <1>1 DEF CpuInv
  <2>2. ncli[c] = 1
    BY <1>1, <2>1
  <2>3. \A l \in Lock : cpu[l] = c <=> l \in held[f]
    BY <1>1 DEF CpuInv
  <2>4. ~ FL_IF[c]
    <3>1. FL_IF[c] => ncli[c] = 0
      BY <1>1 DEF CpuInv
    <3> QED
      BY ONLY <2>2, <3>1
  <2>5. \A l \in held[f] : l = PT
    OBVIOUS
  <2> QED
    BY <2>2, <2>3, <2>4, <2>5
<1>7. g = Cur(c)' /\ \A d \in CPU \ {c} : Cur(d)' = Cur(d)
  <2>1. g = Cur(c)'
    BY ONLY <1>8 DEF Cur
  <2>2. ASSUME NEW d \in CPU \ {c}
        PROVE  Cur(d)' = Cur(d)
    <3>1. running'[d] = running[d] /\ level'[running[d]] = level[running[d]]
      OBVIOUS
    <3> QED
      BY ONLY <3>1 DEF Cur
  <2> QED
    BY <2>1, <2>2
<1>3. ASSUME NEW h \in Frame
      PROVE  PassiveInv(h)'
  <2>1. pc[h] \notin Pushed \cup {"unlock"} => pc'[h] \notin Pushed \cup {"unlock"}
    OBVIOUS
  <2>2. ASSUME \A d \in CPU : h # Cur(d)'
        PROVE  held'[h] = {} /\ pc'[h] \notin Pushed \cup {"unlock"}
    <3>1. h # g
      BY <1>7, <2>2
    <3>2. CASE h = f
      BY <2>1, <3>2
    <3>3. CASE h # f
      <4>1. \A d \in CPU : h # Cur(d)
        BY <1>7, <2>2, <3>3
      <4> QED
        BY <2>1, <3>1, <3>3, <4>1 DEF CliInv, PassiveInv
    <3> QED
      BY <3>2, <3>3
  <2> QED
    BY <2>2 DEF PassiveInv
<1>4. CpuInv(c)'
  <2>1. held'[g] = {PT} /\ pc'[g] \notin Pushed \cup {"unlock", "iret"}
    BY DEF Handover, Pushed
  <2>2. Cardinality(held'[g]) = 1
    BY <1>1, <2>1
  <2> QED
    <3>1. Cur(c)' = g /\ ncli'[c] = 1 /\ ~ FL_IF'[c]
      BY <1>2, <1>7
    <3>2. \A l \in Lock : cpu'[l] = c <=> l \in held'[g]
      BY <1>2, <2>1
    <3>3. level'[running'[c]] = 1 => pc'[g] = "resumed"
      OBVIOUS
    <3>4. running'[c] \in Proc => pc'[g] \in {"resumed", "forkret"}
      OBVIOUS
    <3> QED
      BY ONLY <2>1, <2>2, <3>1, <3>2, <3>3, <3>4 DEF CpuInv
<1>5. ASSUME NEW d \in CPU, d # c
      PROVE  CpuInv(d)'
  <2>1. /\ held'[Cur(d)] = held[Cur(d)] /\ Cur(d)' = Cur(d) /\ CpuInv(d)
        /\ pc'[Cur(d)] = pc[Cur(d)] /\ op'[Cur(d)] = op[Cur(d)]
        /\ running'[d] = running[d] /\ level'[running[d]] = level[running[d]]
    BY <1>1, <1>5, <1>7 DEF CliInv
  <2> QED
    BY <1>5, <2>1 DEF CpuInv
<1>6. ASSUME NEW l \in Lock, locked'[l]
      PROVE  \E h \in Frame : Owns(h, l)'
  <2>1. PICK h \in Frame : Owns(h, l)
    BY <1>6 DEF CliInv
  <2>2. CASE h = f
    <3>1. l = PT
      BY <2>1, <2>2 DEF Owns, Pushed
    <3> QED
      BY <3>1 DEF Owns
  <2>3. CASE h # f
    <3>1. CASE pc[h] = "own"
      <4>1. \E d \in CPU : h = Cur(d)
        BY <3>1 DEF CliInv, PassiveInv, Pushed
      <4>2. PICK d \in CPU \ {c} : h = Cur(d)
        BY <2>3, <4>1
      <4>3. pc'[h] = pc[h] /\ held'[h] = held[h]
        BY <1>1, <4>2
      <4> QED
        BY <2>1, <4>3 DEF Owns
    <3>2. CASE pc[h] # "own"
      <4>1. l \in held[h]
        BY <2>1, <3>2 DEF Owns
      <4>2. held[g] = {}
        BY DEF CliInv, PassiveInv
      <4>3. l \in held'[h]
        BY <2>3, <4>1, <4>2
      <4> QED
        BY <4>3 DEF Owns
    <3> QED
      BY <3>1, <3>2
  <2> QED
    BY <2>2, <2>3
<1> QED
  BY <1>3, <1>4, <1>5, <1>6 DEF CliInv, FramesKept

LEMMA PickCli ==
  ASSUME LockInv, CliInv, TypeOK', NEW c \in CPU, NEW p \in Proc, Pick(c, p)
  PROVE  CliInv'
<1> DEFINE f == <<c, 0>>
           g == <<p, level[p]>>
<1>1. /\ TypeOK /\ RunInv
      /\ \A u \in Context : ContextInv(u)
      /\ \A h \in Frame : HeldInv(h) /\ FlagsInv(h) /\ KindInv(h)
  BY DEF LockInv, CliInv
<1>2. running[c] = c /\ level[c] = 0 /\ pc[f] = "scan" /\ Cur(c) = f
  <2>1. running[c] \in Context /\ level[running[c]] \in {0, 1} /\ Cur(c) \in Frame
    BY <1>1, CurFrame DEF TypeOK
  <2>2. Cur(c)[1] \in CPU /\ Cur(c)[2] = 0
    BY <1>1, <2>1 DEF Pick, KindInv
  <2>3. running[c] = c /\ level[c] = 0
    BY <1>1, <2>1, <2>2, SpinLockAssumption DEF RunInv, Cur
  <2> QED
    BY <2>3 DEF Pick, Cur
<1>3. /\ f \in Frame /\ g \in Frame /\ f # g /\ p \in Context /\ g[1] = p
      /\ level[p] \in {0, 1} /\ p \notin CPU /\ g[2] = level[p]
  BY <1>1, FrameShape, SpinLockAssumption DEF Context, TypeOK
<1>4. pc[Cur(c)] \in Handover
  BY <1>2 DEF Handover
<1> HIDE DEF f, g
<1>12. held[f] = {PT}
  <2>1. PT \in held[f]
    BY <1>2, <1>4, HandedOver
  <2>2. held[f] \subseteq {PT}
    BY <1>1, <1>2, <1>3, <1>4 DEF HeldInv
  <2> QED
    BY <2>1, <2>2
<1>5. /\ held' = [held EXCEPT ![f] = @ \ {PT}, ![g] = @ \cup {PT}]
      /\ UNCHANGED <<locked, cpu, ncli, intena, FL_IF, arg, back, pc, op, level, eflags, saved>>
      /\ running' = [running EXCEPT ![c] = p]
      /\ \A d \in CPU : running[d] # p
  BY <1>2 DEF Pick, lockVars, cpuVars, f, g
<1>6. /\ Cur(c)' = g /\ running'[c] = p
      /\ \A d \in CPU \ {c} : Cur(d)' = Cur(d) /\ running'[d] = running[d]
      /\ \A d \in CPU : g # Cur(d)
  BY <1>1, <1>3, <1>5 DEF Cur, TypeOK, f, g
<1>7. pc[g] \in {"resumed", "forkret"} /\ (level[p] = 1 => pc[g] = "resumed")
  <2>1. Suspended(p)
    BY <1>3, <1>5 DEF Suspended
  <2>2. pc[g] \in Handover
    BY <1>1, <1>3, <2>1 DEF ContextInv, g
  <2>3. pc[g] # "scan"
    BY <1>1, <1>3 DEF KindInv
  <2>4. pc[g] = "forkret" => level[p] = 0
    BY <1>1, <1>3 DEF FlagsInv
  <2> QED
    BY <2>2, <2>3, <2>4 DEF Handover
<1>8. held[g] = {}
  BY <1>3, <1>6 DEF CliInv, PassiveInv
<1>9. \A h \in Frame : held'[h] = IF h = f THEN {} ELSE IF h = g THEN {PT} ELSE held[h]
  BY <1>1, <1>3, <1>12, <1>5, <1>8 DEF TypeOK
<1>10. ASSUME NEW h \in Frame
       PROVE  HeldInv(h)' /\ FlagsInv(h)'
  <2>1. FlagsInv(h)'
    <3>1. FlagsInv(h)
      BY <1>1
    <3>2. pc[h] = "cli" => held'[h] = held[h]
      BY <1>2, <1>7, <1>9
    <3> QED
      BY <1>5, <3>1, <3>2 DEF FlagsInv
  <2>2. CASE h \in {f, g}
    <3>1. held'[h] = {} \/ held'[h] = {PT}
      BY <1>9, <2>2
    <3>2. IsFiniteSet(held'[h])
      BY <3>1, FS_EmptySet, FS_Singleton
    <3>3. pc[h] \in Handover
      BY <1>2, <1>7, <2>2 DEF Handover
    <3> QED
      BY <1>5, <2>1, <3>1, <3>2, <3>3 DEF HeldInv, Handover, Acquiring
  <2>3. CASE h \notin {f, g}
    <3>1. held'[h] = held[h]
      BY <1>9, <2>3
    <3> DEFINE H == held[h]
    <3>2. held'[h] = H /\ held[h] = H /\ HeldInv(h)
      BY <1>1, <3>1
    <3> HIDE DEF H
    <3>3. HeldInv(h)'
      BY ONLY <1>5, <3>2 DEF HeldInv
    <3> QED
      BY <2>1, <3>3
  <2> QED
    BY <2>2, <2>3
<1>11. pc[f] \notin Pushed \cup {"unlock"} /\ pc[g] \notin Pushed \cup {"unlock"}
  BY <1>2, <1>7 DEF Pushed
<1>13. /\ \A h \in Frame : pc'[h] = pc[h]
       /\ \A d \in CPU \ {c} : /\ running'[d] = running[d]
                              /\ level'[running[d]] = level[running[d]]
                              /\ pc'[Cur(d)] = pc[Cur(d)] /\ op'[Cur(d)] = op[Cur(d)]
       /\ pc'[g] \in Handover
       /\ running'[c] \in Proc => pc'[g] \in {"resumed", "forkret"}
       /\ level'[running'[c]] = 1 => pc'[g] = "resumed"
  BY <1>5, <1>6, <1>7 DEF Handover
<1>14. FramesKept'
  BY <1>10 DEF FramesKept
<1>15. /\ f = Cur(c) /\ g = <<running'[c], level'[running'[c]]>> /\ g # f
       /\ UNCHANGED <<locked, cpu, ncli, intena, FL_IF, arg>>
  BY <1>2, <1>3, <1>5, <1>6 DEF g
<1>16. \A d \in CPU : g # Cur(d)
  BY <1>6
<1>17. Switched(c, f, g)
  BY ONLY <1>9, <1>11, <1>12, <1>13, <1>15, <1>16 DEF Switched
<1> QED
  BY <1>3, <1>14, <1>17, SwitchCli

LEMMA SchedCli ==
  ASSUME LockInv, CliInv, TypeOK', NEW c \in CPU, Sched(c)
  PROVE  CliInv'
<1>1. PICK f \in Frame : f = Cur(c)
  BY CurFrame DEF LockInv
<1> DEFINE t == f[1]
           g == <<c, 0>>
           b == <<t, 0>>
<1>2. /\ TypeOK /\ Mutex /\ RunInv /\ pc[f] = "sched" /\ CpuInv(c)
      /\ \A u \in Context : ContextInv(u)
      /\ \A h \in Frame : HeldInv(h) /\ FlagsInv(h) /\ KindInv(h) /\ PassiveInv(h)
  BY <1>1 DEF LockInv, CliInv, Sched
<1>3. /\ t = running[c] /\ t \in Proc /\ t \in Context /\ f = <<t, level[t]>>
      /\ held[f] = {PT} /\ c \in Context /\ t # c /\ level[t] \in {0, 1} /\ f[2] = level[t]
      /\ PT \in Lock
  BY <1>1, <1>2, FrameShape, SpinLockAssumption DEF HeldInv, KindInv, Cur, TypeOK
<1> HIDE DEF t
<1>4. /\ g \in Frame /\ f # g /\ b \in Frame /\ <<t, 1>> \in Frame /\ b # g /\ b # <<t, 1>>
      /\ b[1] = t /\ b[2] = 0
  BY <1>3, FrameShape
<1>5. level[c] = 0 /\ pc[g] = "scan" /\ held[g] = {} /\ \A d \in CPU : running[d] # c
  <2>1. \A d \in CPU : running[d] # c
    BY <1>2, <1>3, SpinLockAssumption DEF RunInv
  <2>2. Suspended(c) /\ level[c] \in {0, 1} /\ <<c, level[c]>> \in Frame /\ c \notin Proc
    BY <1>2, <1>3, <2>1, FrameShape, SpinLockAssumption DEF Suspended, TypeOK
  <2>3. pc[<<c, level[c]>>] \in Handover
    BY <1>2, <1>3, <2>2 DEF ContextInv
  <2>4. <<c, level[c]>>[1] = c /\ <<c, level[c]>>[2] = level[c]
    OBVIOUS
  <2>5. pc[<<c, level[c]>>] = "scan" /\ level[c] = 0
    BY <1>2, <2>2, <2>3, <2>4 DEF KindInv, Handover
  <2>6. \A d \in CPU : g # Cur(d)
    BY <2>1 DEF Cur
  <2> QED
    BY <1>2, <1>4, <2>1, <2>5, <2>6 DEF PassiveInv
<1> HIDE DEF g, b
<1>6. Holding(c, PT) /\ ncli[c] = 1 /\ ~ FL_IF[c]
  <2>1. cpu[PT] = c /\ locked[PT]
    BY <1>1, <1>2, <1>3 DEF CpuInv, Mutex, Owns
  <2>2. Cardinality(held[f]) = 1
    BY <1>3, FS_Singleton
  <2>3. ncli[c] = 1
    BY <1>1, <1>2, <2>2 DEF CpuInv, Pushed
  <2> QED
    BY <1>2, <2>1, <2>3 DEF CpuInv, Holding
<1>7. /\ held' = [held EXCEPT ![f] = @ \ {PT}, ![g] = @ \cup {PT}]
      /\ UNCHANGED <<locked, cpu, ncli, intena, FL_IF, arg, back, eflags>>
      /\ running' = [running EXCEPT ![c] = c]
      /\ IF op[f] = "exit"
         THEN /\ pc' = [pc EXCEPT ![f] = "run", ![b] = "forkret"]
              /\ op' = [op EXCEPT ![f] = "section"]
              /\ level' = [level EXCEPT ![t] = 0]
              /\ saved' = saved
         ELSE /\ pc' = [pc EXCEPT ![f] = "resumed"]
              /\ op' = op /\ level' = level
              /\ saved' = [saved EXCEPT ![f] = intena[c]]
  BY <1>1, <1>2, <1>6, <1>3 DEF Sched, lockVars, cpuVars, t, g, b
<1>8. \A h \in Frame : held'[h] = IF h = f THEN {} ELSE IF h = g THEN {PT} ELSE held[h]
  <2>1. /\ held'[f] = held[f] \ {PT} /\ held'[g] = held[g] \cup {PT}
        /\ \A h \in Frame \ {f, g} : held'[h] = held[h]
    BY <1>2, <1>4, <1>7 DEF TypeOK
  <2>2. held'[f] = {} /\ held'[g] = {PT}
    BY <1>3, <1>5, <2>1
  <2> QED
    BY <1>4, <2>1, <2>2
<1>9. /\ \A h \in Frame \ {f, b} : pc'[h] = pc[h]
      /\ \A h \in Frame \ {f} : op'[h] = op[h] /\ (saved'[h] <=> saved[h])
      /\ f # b => pc'[b] = IF op[f] = "exit" THEN "forkret" ELSE pc[b]
      /\ pc'[f] = IF op[f] # "exit" THEN "resumed" ELSE IF f = b THEN "forkret" ELSE "run"
      /\ op'[f] = IF op[f] = "exit" THEN "section" ELSE op[f]
      /\ op[f] # "exit" => (saved'[f] <=> intena[c])
  BY <1>2, <1>4, <1>7 DEF TypeOK
<1>10. /\ Cur(c)' = g /\ running'[c] = c /\ level'[c] = 0
       /\ \A d \in CPU \ {c} : /\ Cur(d)' = Cur(d) /\ running'[d] = running[d]
                              /\ level'[running[d]] = level[running[d]]
                              /\ Cur(d) \in Frame /\ Cur(d) # f /\ Cur(d) # b
       /\ \A d \in CPU : g # Cur(d)
  <2>1. running'[c] = c /\ level'[c] = 0
    BY <1>2, <1>3, <1>5, <1>7 DEF TypeOK
  <2>2. Cur(c)' = g
    BY <2>1 DEF Cur, g
  <2>3. ASSUME NEW d \in CPU \ {c}
        PROVE  /\ running'[d] = running[d] /\ running[d] # t
               /\ level'[running[d]] = level[running[d]]
    BY <1>2, <1>3, <1>7 DEF RunInv, TypeOK
  <2>4. \A d \in CPU \ {c} : Cur(d)' = Cur(d) /\ Cur(d) # f /\ Cur(d) # b /\ Cur(d) \in Frame
    BY <1>2, <1>3, <2>3, CurFrame DEF Cur, b
  <2>5. \A d \in CPU : g # Cur(d)
    BY <1>5 DEF Cur, g
  <2> QED
    BY <2>1, <2>2, <2>3, <2>4, <2>5
<1>11. f # b => pc[b] = pc'[b] \/ (pc[b] = "run" /\ held[b] = {})
  <2>1. f # b => \A d \in CPU : b # Cur(d)
    BY <1>1, <1>10
  <2> QED
    BY <1>2, <1>3, <1>4, <1>9, <2>1 DEF FlagsInv, PassiveInv, b
<1>12. ASSUME NEW h \in Frame
       PROVE  HeldInv(h)'
  <2>1. CASE h \in {f, g}
    <3>1. (h = f /\ held'[h] = {}) \/ (h = g /\ held'[h] = {PT})
      BY <1>8, <2>1, <1>4
    <3>2. IsFiniteSet(held'[h])
      BY <3>1, FS_EmptySet, FS_Singleton
    <3>3. pc'[h] \in Handover \cup {"run"} /\ (h = g => pc'[h] \in Handover)
      BY <1>4, <1>5, <1>9, <2>1 DEF Handover
    <3> QED
      BY <3>1, <3>2, <3>3 DEF HeldInv, Handover, Acquiring
  <2>2. CASE h \notin {f, g} /\ pc'[h] = pc[h]
    <3> DEFINE H == held[h]
    <3>1. held'[h] = H /\ held[h] = H /\ HeldInv(h) /\ op'[h] = op[h] /\ pc'[h] = pc[h]
          /\ arg'[h] = arg[h] /\ back'[h] = back[h]
      BY <1>2, <1>7, <1>8, <1>9, <2>2
    <3> HIDE DEF H
    <3> QED
      BY ONLY <3>1 DEF HeldInv
  <2>3. CASE h \notin {f, g} /\ pc'[h] # pc[h]
    <3>1. h = b /\ held'[h] = {} /\ pc'[h] = "forkret"
      BY <1>8, <1>9, <1>11, <2>3
    <3>2. IsFiniteSet(held'[h])
      BY <3>1, FS_EmptySet
    <3> QED
      BY <3>1, <3>2 DEF HeldInv, Handover, Acquiring
  <2> QED
    BY <2>1, <2>2, <2>3
<1>13. ASSUME NEW h \in Frame
       PROVE  FlagsInv(h)'
  <2>1. FlagsInv(h) /\ eflags'[h] = eflags[h]
    BY <1>2, <1>7
  <2>2. CASE h = f
    <3>1. op[f] # "forkret"
      BY <1>2 DEF FlagsInv
    <3>2. f[2] = 1 => ~ intena[c]
      BY <1>1, <1>2, <1>3, <1>6 DEF CpuInv
    <3>3. f[2] = 0 => intena[c]
      BY <1>1, <1>2, <1>3, <1>6, <3>1 DEF CpuInv
    <3>4. f = b => f[2] = 0
      BY <1>4
    <3> QED
      BY <1>3, <1>9, <2>2, <3>1, <3>2, <3>3, <3>4 DEF FlagsInv
  <2>3. CASE h = b /\ h # f
    <3>1. (pc'[h] = "forkret" /\ pc[h] = "run") \/ pc'[h] = pc[h]
      BY <1>9, <1>11, <2>3
    <3>2. pc[h] = "cli" => held'[h] = held[h]
      BY <1>4, <1>8, <2>3
    <3> QED
      BY <1>4, <1>9, <2>1, <2>3, <3>1, <3>2 DEF FlagsInv
  <2>4. CASE h \notin {f, b}
    <3>1. pc[h] = "cli" => held'[h] = held[h]
      BY <1>5, <1>8, <2>4
    <3>2. pc'[h] = pc[h] /\ op'[h] = op[h] /\ (saved'[h] <=> saved[h])
      BY <1>9, <2>4
    <3>3. ASSUME op[h] = "exit", h[2] = 1, pc[h] # "run"
          PROVE  pc'[<<h[1], 0>>] = "run"
      <4>1. /\ pc[<<h[1], 0>>] = "run" /\ <<h[1], 0>> \in Frame /\ h = <<h[1], 1>>
        BY <2>1, <3>3, FrameShape DEF FlagsInv
      <4>2. h[1] # t
        <5>1. SUFFICES ASSUME h[1] = t PROVE FALSE
          OBVIOUS
        <5>2. level[t] = 0
          BY <1>3, <2>4, <4>1, <5>1
        <5> QED
          BY <1>2, <1>3, <3>3, <4>1, <5>1, <5>2 DEF ContextInv
      <4>3. <<h[1], 0>> # f /\ <<h[1], 0>> # b
        BY <1>3, <1>4, <4>2
      <4> QED
        BY <1>9, <4>1, <4>3
    <3> QED
      BY <2>1, <3>1, <3>2, <3>3 DEF FlagsInv
  <2> QED
    BY <2>2, <2>3, <2>4
<1>14. FramesKept'
  BY <1>12, <1>13 DEF FramesKept
<1>15. /\ f = Cur(c) /\ g = <<running'[c], level'[running'[c]]>> /\ g # f
       /\ UNCHANGED <<locked, cpu, ncli, intena, FL_IF, arg>>
       /\ running'[c] \notin Proc /\ level'[running'[c]] = 0
  BY <1>1, <1>4, <1>7, <1>10, SpinLockAssumption DEF g
<1>16. \A d \in CPU \ {c} : /\ running'[d] = running[d]
                          /\ level'[running[d]] = level[running[d]]
                          /\ pc'[Cur(d)] = pc[Cur(d)]
                          /\ op'[Cur(d)] = op[Cur(d)]
  BY <1>9, <1>10
<1>17. /\ pc[f] \notin Pushed \cup {"unlock"} /\ pc[g] \notin Pushed \cup {"unlock"}
       /\ pc'[g] \in Handover
       /\ \A h \in Frame : pc'[h] = pc[h] \/ pc'[h] \notin Pushed \cup {"unlock"}
  <2>1. pc'[g] = pc[g]
    BY <1>4, <1>9
  <2>2. \A h \in Frame : pc'[h] = pc[h] \/ pc'[h] \in {"run", "resumed", "forkret"}
    BY <1>9
  <2> QED
    BY <1>2, <1>5, <2>1, <2>2 DEF Pushed, Handover
<1>18. held[f] = {PT} /\ \A d \in CPU : g # Cur(d)
  BY <1>3, <1>10
<1>19. Switched(c, f, g)
  <2>1. level'[running'[c]] # 1
    BY <1>15
  <2> QED
    BY ONLY <1>8, <1>15, <1>16, <1>17, <1>18, <2>1, Zenon DEF Switched
<1> QED
  BY <1>4, <1>14, <1>19, SwitchCli

LEMMA InitCliInv == ASSUME Init PROVE CliInv
<1>1. LockInv
  BY InitLockInv
<1>2. IsFiniteSet({}) /\ Cardinality({}) = 0 /\ None \notin CPU
  BY FS_EmptySet, SpinLockAssumption
<1>3. ASSUME NEW f \in Frame
      PROVE  HeldInv(f) /\ FlagsInv(f) /\ PassiveInv(f)
  <2>1. /\ f[2] \in {0, 1} /\ op[f] = "section" /\ held[f] = {}
        /\ pc[f] \in {"run", "idle", "forkret"} /\ (f[2] = 1 => pc[f] = "run")
    BY FrameShape DEF Init
  <2> QED
    BY <1>2, <2>1 DEF HeldInv, FlagsInv, PassiveInv, Acquiring, Handover, Pushed
<1>4. ASSUME NEW c \in CPU
      PROVE  CpuInv(c)
  <2>1. /\ Cur(c) \in Frame /\ running[c] = c /\ level[c] = 0 /\ c \notin Proc
        /\ ncli[c] = 0 /\ ~ FL_IF[c] /\ \A l \in Lock : cpu[l] # c
    BY <1>1, <1>2, CurFrame, FrameShape, SpinLockAssumption DEF LockInv, Init
  <2>2. held[Cur(c)] = {} /\ pc[Cur(c)] \in {"run", "idle", "forkret"}
    BY <2>1 DEF Init
  <2> QED
    BY <1>2, <2>1, <2>2 DEF CpuInv, Pushed
<1>5. \A l \in Lock : ~ locked[l]
  BY DEF Init
<1> QED
  BY <1>3, <1>4, <1>5 DEF CliInv

LEMMA NextCliInv == ASSUME LockInv, CliInv, [Next]_vars PROVE CliInv'
<1>1. TypeOK'
  BY NextTypeOK DEF LockInv
<1>2. ASSUME NEW c \in CPU, LockStep(c) PROVE CliInv'
  BY <1>1, <1>2, LockStepCli
<1>3. ASSUME NEW c \in CPU, ProcessStep(c) PROVE CliInv'
  BY <1>1, <1>3, ProcessStepCli, SchedCli
<1>4. ASSUME NEW c \in CPU, SchedulerStep(c) PROVE CliInv'
  BY <1>1, <1>4, SchedulerStepCli, PickCli DEF SchedulerStep
<1>5. ASSUME NEW c \in CPU, Interrupt(c) \/ InterruptReturns(c) PROVE CliInv'
  BY <1>1, <1>5, InterruptCli
<1>6. CASE UNCHANGED vars
  <2>1. /\ UNCHANGED <<locked, cpu, ncli, intena, FL_IF, running, level>>
        /\ UNCHANGED <<pc, op, arg, back, eflags, saved, held>>
    BY <1>6 DEF vars
  <2>2. \A c \in CPU : Cur(c)' = Cur(c)
    BY <2>1 DEF Cur
  <2>3. ASSUME NEW f \in Frame
        PROVE  HeldInv(f)' /\ FlagsInv(f)'
    <3> DEFINE H == held[f]
    <3>1. held'[f] = H /\ held[f] = H /\ HeldInv(f) /\ FlagsInv(f)
      BY <2>1 DEF CliInv
    <3> HIDE DEF H
    <3>2. HeldInv(f)'
      BY ONLY <2>1, <3>1 DEF HeldInv
    <3>3. FlagsInv(f)'
      BY ONLY <2>1, <3>1 DEF FlagsInv
    <3> QED
      BY <3>2, <3>3
  <2>4. \A f \in Frame : PassiveInv(f)'
    BY <2>1, <2>2 DEF CliInv, PassiveInv
  <2>5. \A c \in CPU : CpuInv(c)'
    BY <2>1, <2>2 DEF CliInv, CpuInv
  <2>6. \A l \in Lock : locked'[l] => \E f \in Frame : Owns(f, l)'
    BY <2>1 DEF CliInv, Owns
  <2> QED
    BY <2>3, <2>4, <2>5, <2>6 DEF CliInv
<1> QED
  BY <1>2, <1>3, <1>4, <1>5, <1>6 DEF Next

LEMMA CliInvariant == Spec => [](LockInv /\ CliInv)
<1>1. Init => LockInv /\ CliInv
  BY InitLockInv, InitCliInv
<1>2. (LockInv /\ CliInv) /\ [Next]_vars => (LockInv /\ CliInv)'
  BY NextLockInv, NextCliInv
<1> QED
  BY <1>1, <1>2, PTL DEF Spec

\* holding() tells the truth about every lock, and acquire(), release(), popcli() and
\* sched() never panic (spinlock.c, sched).
THEOREM HoldingAlwaysTrue == Spec => []HoldingTrue
<1>1. ASSUME LockInv, CliInv
      PROVE  HoldingTrue
  <2>1. NoPanic
    BY <1>1 DEF NoPanic, CliInv, FlagsInv
  <2>2. ASSUME NEW c \in CPU, NEW l \in Lock
        PROVE  Holding(c, l) <=> l \in held[Cur(c)] /\ ~ (pc[Cur(c)] = "unlock" /\ arg[Cur(c)] = l)
    <3>1. cpu[l] = c <=> l \in held[Cur(c)] /\ ~ (pc[Cur(c)] = "unlock" /\ arg[Cur(c)] = l)
      BY <1>1 DEF CliInv, CpuInv
    <3>2. l \in held[Cur(c)] => locked[l]
      BY <1>1, CurFrame DEF LockInv, Mutex, Owns
    <3> QED
      BY <3>1, <3>2 DEF Holding
  <2> QED
    BY <2>1, <2>2 DEF HoldingTrue, HolderKnown
<1>2. LockInv /\ CliInv => HoldingTrue
  BY <1>1
<1> QED
  BY <1>2, CliInvariant, PTL

\* pushcli() and popcli() leave the interrupt flag as they found it, on whatever
\* processor the code goes on in between (spinlock.c; intena in sched).
THEOREM InterruptsAlwaysRestored == Spec => []InterruptsRestored
<1>1. ASSUME LockInv, CliInv
      PROVE  InterruptsRestored
  <2>1. ASSUME NEW c \in CPU
        PROVE  /\ level[running[c]] = 1 => ~ FL_IF[c]
               /\ InProcess(c) /\ level[running[c]] = 0 /\ held[Cur(c)] = {} => FL_IF[c]
    <3>1. CpuInv(c) /\ Cur(c) \in Frame /\ FlagsInv(Cur(c))
      BY <1>1, CurFrame DEF CliInv, LockInv
    <3>2. held[Cur(c)] = {} /\ pc[Cur(c)] = "run" => ncli[c] = 0 /\ op[Cur(c)] # "forkret"
      BY <1>1, <3>1, NcliZero DEF Pushed, FlagsInv
    <3> QED
      BY <3>1, <3>2 DEF CpuInv, InProcess
  <2> QED
    BY <2>1 DEF InterruptsRestored
<1>2. LockInv /\ CliInv => InterruptsRestored
  BY <1>1
<1> QED
  BY <1>2, CliInvariant, PTL

\* Who spins in acquire() spins for code that another processor executes, never for
\* code that was interrupted or gave up the CPU with the lock (acquire, sched).
THEOREM SpinsAlwaysForRunning == Spec => []SpinsForRunning
<1>1. ASSUME LockInv, CliInv
      PROVE  SpinsForRunning
  <2>1. ASSUME NEW c \in CPU, pc[Cur(c)] = "xchg", locked[arg[Cur(c)]]
        PROVE  \E d \in CPU \ {c} : Owns(Cur(d), arg[Cur(c)])
    <3>1. Cur(c) \in Frame /\ arg[Cur(c)] \in Lock /\ HeldInv(Cur(c))
      BY <1>1, CurFrame DEF LockInv, TypeOK, CliInv
    <3>2. PICK g \in Frame : Owns(g, arg[Cur(c)])
      BY <1>1, <2>1, <3>1 DEF CliInv
    <3>3. g # Cur(c)
      BY <2>1, <3>1, <3>2 DEF Owns, HeldInv, Acquiring
    <3>4. PICK d \in CPU : g = Cur(d)
      BY <1>1, <3>2 DEF CliInv, PassiveInv, Owns, Pushed
    <3> QED
      BY <3>2, <3>3, <3>4
  <2> QED
    BY <2>1 DEF SpinsForRunning
<1>2. LockInv /\ CliInv => SpinsForRunning
  BY <1>1
<1> QED
  BY <1>2, CliInvariant, PTL
=============================================================================
