----------------------------- MODULE PipeProofs -----------------------------
(***************************************************************************)
(* Pipe for any number of processes and any size of the ring: the ends,    *)
(* the lock and the page agree (PipeExact), no writer sleeps on a ring     *)
(* with room, no reader on one with bytes unless a writer was killed, and  *)
(* the pipe is a ByteStream.                                               *)
(***************************************************************************)
EXTENDS Pipe, Integers, Sequences, SequenceTheorems, TLAPS

-----------------------------------------------------------------------------
(* Remainders *)

LEMMA Division ==
  ASSUME NEW n \in Nat \ {0}, NEW a \in Int
  PROVE  a = (n * (a \div n)) + (a % n) /\ a \div n \in Int /\ a % n \in 0 .. n - 1
  OBVIOUS

LEMMA Remainder ==
  ASSUME NEW n \in Nat \ {0}, NEW q \in Int, NEW r \in 0 .. n - 1
  PROVE  ((n * q) + r) % n = r
  OBVIOUS

LEMMA NoMultipleBetween ==
  ASSUME NEW n \in Nat \ {0}, NEW q \in Int, - n < n * q, n * q < n
  PROVE  q = 0
  OBVIOUS

\* Counting on by a multiple of n changes nothing.
LEMMA RemainderShift ==
  ASSUME NEW n \in Nat \ {0}, NEW q \in Int, NEW a \in Int
  PROVE  ((n * q) + a) % n = a % n
<1> DEFINE k == a \div n
           r == a % n
<1>1. a = (n * k) + r /\ k \in Int /\ r \in 0 .. n - 1
  BY Division
<1> HIDE DEF k, r
<1>2. (n * q) + a = (n * (q + k)) + r /\ q + k \in Int
  BY <1>1
<1>3. ((n * (q + k)) + r) % n = r
  BY <1>1, <1>2, Remainder
<1> QED
  BY <1>2, <1>3 DEF r

\* Numbers less than n apart have different remainders.
LEMMA RemaindersDiffer ==
  ASSUME NEW n \in Nat \ {0}, NEW a \in Int, NEW b \in Int, a < b, b < a + n
  PROVE  a % n # b % n
<1> SUFFICES ASSUME a % n = b % n PROVE FALSE
  OBVIOUS
<1> DEFINE k == a \div n
           l == b \div n
           r == a % n
<1>1. a = (n * k) + r /\ b = (n * l) + r /\ k \in Int /\ l \in Int /\ r \in 0 .. n - 1
  BY Division
<1> HIDE DEF k, l, r
<1>2. b - a = n * (l - k) /\ l - k \in Int
  BY <1>1
<1>3. l - k = 0
  BY <1>2, NoMultipleBetween
<1> QED
  BY <1>1, <1>3

\* One step of a counter that wraps at m.
LEMMA WrapOnce ==
  ASSUME NEW m \in Nat \ {0}, NEW a \in 0 .. 2 * m - 1
  PROVE  /\ a < m => a % m = a
         /\ a >= m => a % m = a - m
<1>1. CASE a < m
  BY <1>1
<1>2. CASE a >= m
  <2>1. a = (m * 1) + (a - m) /\ a - m \in 0 .. m - 1
    BY <1>2
  <2> QED
    BY <1>2, <2>1, Remainder
<1> QED
  BY <1>1, <1>2

-----------------------------------------------------------------------------
(* Types *)

LEMMA Constants ==
  /\ PIPESIZE \in Nat \ {0}
  /\ UintSize \in Nat \ {0}
  /\ UintSize > PIPESIZE
  /\ 0 \in 0 .. UintSize - 1
  /\ Request \subseteq Nat
  /\ KillProc \subseteq Proc
  /\ NoProc \notin Proc
<1>1. PIPESIZE \in Nat \ {0} /\ UintSize \in Nat /\ UintSize > PIPESIZE
  BY PipeAssumption
<1> QED
  BY <1>1, PipeAssumption

LEMMA IncType ==
  ASSUME NEW k \in 0 .. UintSize - 1
  PROVE  /\ Inc(k) \in 0 .. UintSize - 1
         /\ Inc(k) = IF k + 1 = UintSize THEN 0 ELSE k + 1
<1>1. k \in Int /\ UintSize \in Nat \ {0} /\ k + 1 \in 0 .. 2 * UintSize - 1
  BY Constants
<1>2. /\ k + 1 < UintSize => (k + 1) % UintSize = k + 1
      /\ k + 1 >= UintSize => (k + 1) % UintSize = k + 1 - UintSize
  BY <1>1, WrapOnce
<1> QED
  BY <1>2, Constants DEF Inc

LEMMA InitTypeOK == ASSUME Init PROVE TypeOK
  BY Constants DEF Init, TypeOK

LEMMA NextTypeOK == ASSUME TypeOK, [Next]_vars PROVE TypeOK'
<1> USE DEF TypeOK, pipeVars, procVars
<1>1. ASSUME NEW p \in Proc, WriteStep(p) PROVE TypeOK'
  <2>1. CASE Put(p)
    <3>1. left[p] \in Nat /\ left[p] > 0
      BY <2>1 DEF Put
    <3>2. nwrite' \in 0 .. UintSize - 1
      BY <2>1, IncType DEF Put
    <3>3. data' \in [0 .. PIPESIZE - 1 -> Byte]
      BY <2>1 DEF Put
    <3> QED
      BY <2>1, <3>1, <3>2, <3>3 DEF Put
  <2>2. CASE WriteWaits(p)
    BY <2>2 DEF WriteWaits, GoWaking
  <2>3. CASE WriteFails(p)
    BY <2>3 DEF WriteFails, Leave
  <2>4. CASE WriteReturns(p)
    BY <2>4 DEF WriteReturns, Leave, GoWaking
  <2> QED
    BY <1>1, <2>1, <2>2, <2>3, <2>4 DEF WriteStep
<1>2. ASSUME NEW p \in Proc, ReadStep(p) PROVE TypeOK'
  <2>1. CASE ReadWaits(p)
    BY <2>1 DEF ReadWaits
  <2>2. CASE ReadFails(p)
    BY <2>2 DEF ReadFails, Leave
  <2>3. CASE ReadStarts(p)
    BY <2>3 DEF ReadStarts
  <2>4. CASE Get(p)
    <3>1. left[p] \in Nat /\ left[p] > 0
      BY <2>4 DEF Get
    <3>2. nread' \in 0 .. UintSize - 1
      BY <2>4, IncType DEF Get
    <3> QED
      BY <2>4, <3>1, <3>2 DEF Get
  <2>5. CASE ReadReturns(p)
    BY <2>5 DEF ReadReturns, Leave, GoWaking
  <2> QED
    BY <1>2, <2>1, <2>2, <2>3, <2>4, <2>5 DEF ReadStep
<1>3. ASSUME NEW p \in Proc, Acquire(p) \/ Sleep(p) \/ PipeClose(p) \/ Free(p)
      PROVE  TypeOK'
  <2>1. CASE Acquire(p)
    BY <2>1 DEF Acquire
  <2>2. CASE Sleep(p)
    BY <2>2 DEF Sleep
  <2>3. CASE PipeClose(p)
    BY <2>3 DEF PipeClose, GoWaking
  <2>4. CASE Free(p)
    BY <2>4 DEF Free
  <2> QED
    BY <1>3, <2>1, <2>2, <2>3, <2>4
<1>4. ASSUME NEW p \in Proc, ProgramStep(p) PROVE TypeOK'
  <2>1. CASE Read(p) \/ Write(p)
    <3>1. PICK f \in {"read", "write"}, n \in Request : Enter(p, f, n)
      BY <2>1 DEF Read, Write
    <3>2. n \in Nat
      BY Constants
    <3> QED
      BY <3>1, <3>2 DEF Enter
  <2>2. CASE PipeAlloc(p)
    BY <2>2, Constants DEF PipeAlloc
  <2>3. CASE Kill(p) \/ Reborn(p)
    BY <2>3 DEF Kill, Reborn
  <2>4. ASSUME NEW q \in Proc \ {p}, Fork(p, q) PROVE TypeOK'
    BY <2>4 DEF Fork
  <2>5. ASSUME NEW e \in {"read", "write"}, Close(p, e) PROVE TypeOK'
    BY <2>5 DEF Close
  <2> QED
    BY <1>4, <2>1, <2>2, <2>3, <2>4, <2>5 DEF ProgramStep
<1>5. CASE UNCHANGED vars
  BY <1>5 DEF vars
<1> QED
  BY <1>1, <1>2, <1>3, <1>4, <1>5 DEF Next, KernelStep

-----------------------------------------------------------------------------
(* The ends, the lock and the page *)

\* What a call of read() or write() does between its entry and its return.
CallStep(p) ==
  /\ call[p] \in {"read", "write"}
  /\ UNCHANGED <<readopen, writeopen, freed, ends>>
  /\ call' = call \/ call' = [call EXCEPT ![p] = "none"]
  /\ pc'[p] # "free"
  /\ \A r \in Proc \ {p} : pc'[r] = pc[r] \/ (pc[r] = "asleep" /\ pc'[r] = "lock")

LEMMA CallStepEnds ==
  ASSUME PipeInv, NEW p \in Proc, CallStep(p)
  PROVE  OpenEnds' /\ FreedOnce'
<1>1. call \in [Proc -> {"none", "read", "write", "closeread", "closewrite"}]
  BY DEF PipeInv, TypeOK
<1>2. /\ \A r \in Proc : call'[r] = "closeread" <=> call[r] = "closeread"
      /\ \A r \in Proc : call'[r] = "closewrite" <=> call[r] = "closewrite"
  BY <1>1 DEF CallStep
<1>3. pc[p] \notin {"user", "free"} /\ ends[p] # {}
  BY DEF PipeInv, CallInv, CallStep
<1>4. OpenEnds'
  BY <1>2 DEF PipeInv, OpenEnds, CallStep
<1>5. ~ freed /\ \A r \in Proc : pc[r] # "free"
  BY <1>3 DEF PipeInv, FreedOnce
<1>6. \A r \in Proc : pc'[r] # "free"
  BY <1>5 DEF CallStep
<1>7. FreedOnce'
  BY <1>3, <1>5, <1>6 DEF FreedOnce, CallStep
<1> QED
  BY <1>4, <1>7

LEMMA CallStepInv ==
  ASSUME PipeInv, TypeOK', NEW p \in Proc,
         Acquire(p) \/ (Sleep(p) \/ WriteStep(p) \/ ReadStep(p))
  PROVE  CallStep(p) /\ \A r \in Proc : CallInv(r)' /\ WriterInv(r)'
<1> USE DEF CallStep, CallInv, WriterInv, pipeVars, procVars
<1>0. /\ call \in [Proc -> {"none", "read", "write", "closeread", "closewrite"}]
      /\ pc \in [Proc -> {"user", "lock", "loop", "copy", "sleep", "asleep", "free"}]
      /\ \A r \in Proc : CallInv(r) /\ WriterInv(r)
      /\ NoProc \notin Proc
  BY PipeAssumption DEF PipeInv, TypeOK
<1>1. CASE Acquire(p)
  BY <1>0, <1>1 DEF Acquire, Full
<1>2. CASE Sleep(p)
  BY <1>0, <1>2 DEF Sleep, Full
<1>3. CASE Put(p)
  <2>1. CallStep(p) /\ \A r \in Proc : CallInv(r)'
    BY <1>0, <1>3 DEF Put, Writing
  <2>2. \A r \in Proc : pc[r] # "copy"
    BY <1>0, <1>3 DEF Put, Writing
  <2>3. \A r \in Proc : ~ (pc[r] \in {"sleep", "asleep"} /\ call[r] = "write")
    BY <1>0, <1>3, <2>2 DEF Put, Writing
  <2> QED
    BY <1>3, <2>1, <2>3 DEF Put
<1>4. CASE WriteWaits(p)
  BY <1>0, <1>4 DEF WriteWaits, GoWaking, Writing, Full
<1>5. CASE WriteFails(p)
  BY <1>0, <1>5 DEF WriteFails, Leave, Writing, Full
<1>6. CASE WriteReturns(p)
  BY <1>0, <1>6 DEF WriteReturns, Leave, GoWaking, Writing, Full
<1>7. CASE ReadWaits(p)
  BY <1>0, <1>7 DEF ReadWaits, Reading, Full
<1>8. CASE ReadFails(p)
  BY <1>0, <1>8 DEF ReadFails, Leave, Reading, Full
<1>9. CASE ReadStarts(p)
  BY <1>0, <1>9 DEF ReadStarts, Reading, Full
<1>10. CASE Get(p)
  BY <1>0, <1>10 DEF Get
<1>11. CASE ReadReturns(p)
  BY <1>0, <1>11 DEF ReadReturns, Leave, GoWaking, Full
<1> QED
  BY <1>1, <1>2, <1>3, <1>4, <1>5, <1>6, <1>7, <1>8, <1>9, <1>10, <1>11
     DEF WriteStep, ReadStep

\* How far the counter w is ahead of r.
LEMMA Distance ==
  ASSUME NEW r \in 0 .. UintSize - 1, NEW w \in 0 .. UintSize - 1
  PROVE  /\ w >= r => (w + UintSize - r) % UintSize = w - r
         /\ w < r => (w + UintSize - r) % UintSize = w + UintSize - r
<1>1. UintSize \in Nat \ {0} /\ r \in Nat /\ w \in Nat /\ r < UintSize /\ w < UintSize
  BY Constants
<1> DEFINE a == w + UintSize - r
<1>2. a \in 0 .. 2 * UintSize - 1
  BY <1>1
<1>3. /\ a < UintSize => a % UintSize = a
      /\ a >= UintSize => a % UintSize = a - UintSize
  BY <1>1, <1>2, WrapOnce
<1> HIDE DEF a
<1>4. a = w + UintSize - r
  BY DEF a
<1> QED
  BY <1>1, <1>3, <1>4

LEMMA CountIs ==
  ASSUME TypeOK
  PROVE  /\ nwrite >= nread => Count = nwrite - nread
         /\ nwrite < nread => Count = nwrite + UintSize - nread
  BY Distance DEF TypeOK, Count

LEMMA CountType == ASSUME TypeOK PROVE Count \in 0 .. UintSize - 1
<1>1. /\ UintSize \in Nat /\ nread \in Nat /\ nwrite \in Nat
      /\ nread < UintSize /\ nwrite < UintSize
  BY Constants DEF TypeOK
<1> QED
  BY <1>1, CountIs

\* The counters as the code compares them.
LEMMA FullAndEmpty ==
  ASSUME TypeOK, Count <= PIPESIZE
  PROVE  (Full <=> Count = PIPESIZE) /\ (Empty <=> Count = 0)
<1>1. /\ PIPESIZE \in Nat \ {0} /\ UintSize \in Nat \ {0} /\ UintSize > PIPESIZE
      /\ nread \in Nat /\ nwrite \in Nat /\ nread < UintSize /\ nwrite < UintSize
  BY Constants DEF TypeOK
<1>2. /\ nwrite >= nread => Count = nwrite - nread
      /\ nwrite < nread => Count = nwrite + UintSize - nread
  BY CountIs
<1> DEFINE a == nread + PIPESIZE
<1>3. a \in 0 .. 2 * UintSize - 1
  BY <1>1
<1>4. /\ a < UintSize => a % UintSize = a
      /\ a >= UintSize => a % UintSize = a - UintSize
  BY <1>1, <1>3, WrapOnce
<1>5. a = nread + PIPESIZE /\ (Full <=> nwrite = a % UintSize)
  BY DEF Full
<1> HIDE DEF a
<1>6. Full <=> Count = PIPESIZE
  BY <1>1, <1>2, <1>4, <1>5
<1>7. Empty <=> Count = 0
  BY <1>1, <1>2 DEF Empty
<1> QED
  BY <1>6, <1>7

\* Putting and getting a byte moves one counter by one, and neither overtakes the other.
LEMMA PutCounts ==
  ASSUME TypeOK, TypeOK', Count <= PIPESIZE, NEW p \in Proc, Put(p)
  PROVE  Count < PIPESIZE /\ Count' = Count + 1
<1>1. /\ PIPESIZE \in Nat /\ UintSize \in Nat /\ UintSize > PIPESIZE
      /\ nread \in 0 .. UintSize - 1 /\ nwrite \in 0 .. UintSize - 1
      /\ nread' \in 0 .. UintSize - 1 /\ nwrite' \in 0 .. UintSize - 1
      /\ Count \in Nat
  BY Constants, CountType DEF TypeOK
<1>2. /\ nread' = nread
      /\ nwrite' = IF nwrite + 1 = UintSize THEN 0 ELSE nwrite + 1
  BY <1>1, IncType DEF Put
<1>3. Count # PIPESIZE
  BY FullAndEmpty DEF Put
<1>4. /\ nwrite >= nread => Count = nwrite - nread
      /\ nwrite < nread => Count = nwrite + UintSize - nread
  BY CountIs
<1>5. /\ nwrite' >= nread' => Count' = nwrite' - nread'
      /\ nwrite' < nread' => Count' = nwrite' + UintSize - nread'
  BY <1>1, Distance DEF Count
<1> QED
  BY <1>1, <1>2, <1>3, <1>4, <1>5

LEMMA GetCounts ==
  ASSUME TypeOK, TypeOK', Count <= PIPESIZE, NEW p \in Proc, Get(p)
  PROVE  Count > 0 /\ Count' = Count - 1
<1>1. /\ PIPESIZE \in Nat /\ UintSize \in Nat /\ UintSize > PIPESIZE
      /\ nread \in 0 .. UintSize - 1 /\ nwrite \in 0 .. UintSize - 1
      /\ nread' \in 0 .. UintSize - 1 /\ nwrite' \in 0 .. UintSize - 1
      /\ Count \in Nat
  BY Constants, CountType DEF TypeOK
<1>2. /\ nwrite' = nwrite
      /\ nread' = IF nread + 1 = UintSize THEN 0 ELSE nread + 1
  BY <1>1, IncType DEF Get
<1>3. Count # 0
  BY FullAndEmpty DEF Get
<1>4. /\ nwrite >= nread => Count = nwrite - nread
      /\ nwrite < nread => Count = nwrite + UintSize - nread
  BY CountIs
<1>5. /\ nwrite' >= nread' => Count' = nwrite' - nread'
      /\ nwrite' < nread' => Count' = nwrite' + UintSize - nread'
  BY <1>1, Distance DEF Count
<1> QED
  BY <1>1, <1>2, <1>3, <1>4, <1>5

LEMMA PipeCloseInv ==
  ASSUME PipeInv, TypeOK', NEW p \in Proc, PipeClose(p)
  PROVE  PipeInv'
<1> DEFINE e == IF call[p] = "closewrite" THEN "write" ELSE "read"
<1>1. /\ call \in [Proc -> {"none", "read", "write", "closeread", "closewrite"}]
      /\ pc \in [Proc -> {"user", "lock", "loop", "copy", "sleep", "asleep", "free"}]
      /\ ends \in [Proc -> SUBSET {"read", "write"}]
      /\ \A r \in Proc : CallInv(r) /\ WriterInv(r)
      /\ NoProc \notin Proc
  BY Constants DEF PipeInv, TypeOK
<1>2. /\ call' = [call EXCEPT ![p] = "none"]
      /\ call[p] \in {"closeread", "closewrite"} /\ pc[p] = "lock" /\ lock = NoProc
      /\ pc'[p] = IF readopen' \/ writeopen' THEN "user" ELSE "free"
      /\ UNCHANGED <<data, nread, nwrite, freed, lock, ends, killed, left>>
      /\ writeopen' = (writeopen /\ call[p] # "closewrite")
      /\ readopen' = (readopen /\ call[p] = "closewrite")
  BY <1>1 DEF PipeClose, GoWaking, procVars
<1>3. \A r \in Proc \ {p} :
        pc'[r] = IF pc[r] = "asleep" /\ call[r] = (IF call[p] = "closewrite" THEN "read" ELSE "write")
                 THEN "lock" ELSE pc[r]
  BY DEF PipeClose, GoWaking
<1>4. OpenEnds'
  <2>1. /\ readopen <=> \E r \in Proc : "read" \in ends[r] \/ call[r] = "closeread"
        /\ writeopen <=> \E r \in Proc : "write" \in ends[r] \/ call[r] = "closewrite"
    BY DEF PipeInv, OpenEnds
  <2>2. /\ \A r \in Proc : /\ ends'[r] = ends[r]
                           /\ call'[r] = IF r = p THEN "none" ELSE call[r]
        /\ call[p] = "closeread" =>
             \A q \in Proc : "read" \notin ends[q] /\ (call[q] = "closeread" => q = p)
        /\ call[p] = "closewrite" =>
             \A q \in Proc : "write" \notin ends[q] /\ (call[q] = "closewrite" => q = p)
    <3>1. \A r \in Proc : ends'[r] = ends[r] /\ call'[r] = IF r = p THEN "none" ELSE call[r]
      BY <1>1, <1>2
    <3>2. CallInv(p)
      BY <1>1
    <3> QED
      BY <3>1, <3>2 DEF CallInv
  <2>3. CASE call[p] = "closeread"
    <3>1. /\ ~ readopen' /\ (writeopen' <=> writeopen)
          /\ \A r \in Proc : "read" \notin ends'[r] /\ call'[r] # "closeread"
      <4>1. ~ readopen' /\ (writeopen' <=> writeopen)
        BY <1>1, <1>2, <2>3
      <4> QED
        BY <2>2, <2>3, <4>1
    <3>2. \A r \in Proc : ends'[r] = ends[r]
                          /\ (call'[r] = "closewrite" <=> call[r] = "closewrite")
      BY <1>1, <1>2, <2>3
    <3> QED
      BY <2>1, <3>1, <3>2 DEF OpenEnds
  <2>4. CASE call[p] = "closewrite"
    <3>1. /\ ~ writeopen' /\ (readopen' <=> readopen)
          /\ \A r \in Proc : "write" \notin ends'[r] /\ call'[r] # "closewrite"
      <4>1. ~ writeopen' /\ (readopen' <=> readopen)
        BY <1>1, <1>2, <2>4
      <4> QED
        BY <2>2, <2>4, <4>1
    <3>2. \A r \in Proc : ends'[r] = ends[r]
                          /\ (call'[r] = "closeread" <=> call[r] = "closeread")
      BY <1>1, <1>2, <2>4
    <3> QED
      BY <2>1, <3>1, <3>2 DEF OpenEnds
  <2> QED
    BY <1>2, <2>3, <2>4
<1>5. \A r \in Proc : CallInv(r)'
  <2> SUFFICES ASSUME NEW r \in Proc PROVE CallInv(r)'
    OBVIOUS
  <2>1. pc'[r] = "free" => ~ readopen' /\ ~ writeopen'
    BY <1>1, <1>2, <1>3 DEF CallInv
  <2>2. CASE r = p
    BY <1>1, <1>2, <2>1, <2>2 DEF CallInv
  <2>3. CASE r # p
    BY <1>1, <1>2, <1>3, <2>1, <2>3 DEF CallInv
  <2> QED
    BY <2>2, <2>3
<1>6. \A r \in Proc : pc[r] # "copy" /\ (r # p => pc'[r] # "copy")
  BY <1>1, <1>2, <1>3 DEF CallInv
<1>7. \A r \in Proc : WriterInv(r)'
  BY <1>1, <1>2, <1>3, <1>6 DEF WriterInv, Full, CallInv
<1>8. ~ freed /\ \A r \in Proc : pc[r] # "free"
  BY <1>2 DEF PipeInv, FreedOnce
<1>9. FreedOnce'
  BY <1>1, <1>2, <1>3, <1>4, <1>5, <1>8 DEF FreedOnce, OpenEnds, CallInv
<1>10. Count' <= PIPESIZE
  BY <1>2 DEF PipeInv, Count
<1> QED
  BY <1>4, <1>5, <1>7, <1>9, <1>10 DEF PipeInv

LEMMA ProgramStepInv ==
  ASSUME PipeInv, TypeOK', NEW p \in Proc, ProgramStep(p) \/ Free(p)
  PROVE  PipeInv'
<1> USE DEF pipeVars, procVars
<1>0. /\ call \in [Proc -> {"none", "read", "write", "closeread", "closewrite"}]
      /\ pc \in [Proc -> {"user", "lock", "loop", "copy", "sleep", "asleep", "free"}]
      /\ ends \in [Proc -> SUBSET {"read", "write"}]
      /\ \A r \in Proc : CallInv(r) /\ WriterInv(r)
      /\ OpenEnds /\ FreedOnce /\ Count <= PIPESIZE
      /\ lock \in Proc \cup {NoProc}
      /\ NoProc \notin Proc
  BY Constants DEF PipeInv, TypeOK
<1>1. ASSUME NEW f \in {"read", "write"}, f \in ends[p], NEW n \in Request, Enter(p, f, n)
      PROVE  PipeInv'
  <2>1. ~ freed /\ \A r \in Proc : pc[r] # "free"
    BY <1>0, <1>1 DEF FreedOnce, Enter
  <2>2. OpenEnds'
    <3>1. /\ \A r \in Proc : call'[r] = "closeread" <=> call[r] = "closeread"
          /\ \A r \in Proc : call'[r] = "closewrite" <=> call[r] = "closewrite"
      BY <1>0, <1>1 DEF Enter, CallInv
    <3> QED
      BY <1>0, <1>1, <3>1 DEF Enter, OpenEnds
  <2>3. FreedOnce'
    BY <1>0, <1>1, <2>1 DEF Enter, FreedOnce
  <2>4. \A r \in Proc : CallInv(r)' /\ WriterInv(r)'
    BY <1>0, <1>1 DEF Enter, CallInv, WriterInv, Full
  <2> QED
    BY <1>0, <1>1, <2>2, <2>3, <2>4 DEF PipeInv, Enter, Count
<1>2. CASE PipeAlloc(p)
  <2>1. \A r \in Proc : ends[r] = {} /\ pc[r] = "user" /\ call[r] = "none"
    BY <1>0, <1>2 DEF PipeAlloc, FreedOnce, CallInv
  <2>2. FreedOnce' /\ OpenEnds'
    BY <1>0, <1>2, <2>1 DEF PipeAlloc, FreedOnce, OpenEnds
  <2>3. \A r \in Proc : CallInv(r)' /\ WriterInv(r)'
    BY <1>0, <1>2, <2>1 DEF PipeAlloc, CallInv, WriterInv
  <2>4. nread' = 0 /\ nwrite' = 0 /\ 0 \in 0 .. UintSize - 1
    BY <1>2, Constants DEF PipeAlloc
  <2>5. Count' = 0
    BY <2>4, Distance DEF Count
  <2> QED
    BY <2>2, <2>3, <2>5, Constants DEF PipeInv
<1>3. CASE Kill(p)
  BY <1>0, <1>3 DEF Kill, PipeInv, CallInv, WriterInv, OpenEnds, FreedOnce, Full, Count
<1>4. CASE Reborn(p)
  BY <1>0, <1>4 DEF Reborn, PipeInv, CallInv, WriterInv, OpenEnds, FreedOnce, Full, Count
<1>5. ASSUME NEW q \in Proc \ {p}, Fork(p, q) PROVE PipeInv'
  <2>1. OpenEnds'
    BY <1>0, <1>5 DEF Fork, OpenEnds, CallInv
  <2>2. FreedOnce'
    BY <1>0, <1>5 DEF Fork, FreedOnce, CallInv
  <2>3. \A r \in Proc : CallInv(r)' /\ WriterInv(r)'
    BY <1>0, <1>5 DEF Fork, FreedOnce, CallInv, WriterInv, Full
  <2>4. Count' = Count
    BY <1>5 DEF Fork, Count
  <2> QED
    BY <1>0, <2>1, <2>2, <2>3, <2>4 DEF PipeInv
<1>6. ASSUME NEW e \in {"read", "write"}, Close(p, e) PROVE PipeInv'
  <2>1. OpenEnds'
    BY <1>0, <1>6 DEF Close, OpenEnds, CallInv
  <2>2. FreedOnce'
    <3>1. ~ freed /\ \A r \in Proc : pc[r] # "free" /\ pc'[r] # "free"
      BY <1>0, <1>6 DEF Close, FreedOnce
    <3>2. \E r \in Proc : ends'[r] # {} \/ pc'[r] # "user"
      BY <1>0, <1>6 DEF Close
    <3>3. freed' = freed
      BY <1>6 DEF Close
    <3> QED
      BY <3>1, <3>2, <3>3 DEF FreedOnce
  <2>3. \A r \in Proc : CallInv(r)' /\ WriterInv(r)'
    BY <1>0, <1>6 DEF Close, FreedOnce, CallInv, WriterInv, Full
  <2>4. Count' = Count
    BY <1>6 DEF Close, Count
  <2> QED
    BY <1>0, <2>1, <2>2, <2>3, <2>4 DEF PipeInv
<1>7. CASE Free(p)
  <2>1. OpenEnds'
    BY <1>0, <1>7 DEF Free, OpenEnds, CallInv
  <2>2. FreedOnce'
    <3>1. ends[p] = {} /\ \A q \in Proc \ {p} : ends[q] = {} /\ pc[q] = "user"
      BY <1>0, <1>7 DEF Free, FreedOnce, OpenEnds, CallInv
    <3> QED
      BY <1>0, <1>7, <3>1 DEF Free, FreedOnce
  <2>3. \A r \in Proc : CallInv(r)' /\ WriterInv(r)'
    BY <1>0, <1>7 DEF Free, FreedOnce, CallInv, WriterInv, Full
  <2>4. Count' = Count
    BY <1>7 DEF Free, Count
  <2> QED
    BY <1>0, <2>1, <2>2, <2>3, <2>4 DEF PipeInv
<1> QED
  BY <1>1, <1>2, <1>3, <1>4, <1>5, <1>6, <1>7 DEF ProgramStep, Read, Write

LEMMA InitPipeInv == ASSUME Init PROVE PipeInv
<1>1. TypeOK
  BY InitTypeOK
<1>2. \A p \in Proc : CallInv(p) /\ WriterInv(p)
  BY Constants DEF Init, CallInv, WriterInv
<1>3. OpenEnds /\ FreedOnce
  BY DEF Init, OpenEnds, FreedOnce
<1>4. 0 \in 0 .. UintSize - 1 /\ nread = 0 /\ nwrite = 0
  BY Constants DEF Init
<1>5. Count = 0
  BY <1>4, Distance DEF Count
<1> QED
  BY <1>1, <1>2, <1>3, <1>5, Constants DEF PipeInv

LEMMA NextPipeInv == ASSUME PipeInv, [Next]_vars PROVE PipeInv'
<1>1. TypeOK'
  BY NextTypeOK DEF PipeInv
<1>2. ASSUME NEW p \in Proc, Acquire(p) \/ (Sleep(p) \/ WriteStep(p) \/ ReadStep(p))
      PROVE  PipeInv'
  <2>1. /\ OpenEnds' /\ FreedOnce'
        /\ \A r \in Proc : CallInv(r)' /\ WriterInv(r)'
    BY <1>1, <1>2, CallStepInv, CallStepEnds
  <2>2. Count' <= PIPESIZE
    <3>1. CASE Put(p)
      BY <1>1, <3>1, PutCounts, CountType, Constants DEF PipeInv
    <3>2. CASE Get(p)
      BY <1>1, <3>2, GetCounts, CountType, Constants DEF PipeInv
    <3>3. CASE UNCHANGED <<nread, nwrite>>
      BY <3>3 DEF PipeInv, Count
    <3> QED
      BY <1>2, <3>1, <3>2, <3>3
         DEF Acquire, Sleep, WriteStep, WriteWaits, WriteFails, WriteReturns, ReadStep,
             ReadWaits, ReadFails, ReadStarts, ReadReturns, pipeVars
  <2> QED
    BY <1>1, <2>1, <2>2 DEF PipeInv
<1>3. ASSUME NEW p \in Proc, PipeClose(p) PROVE PipeInv'
  BY <1>1, <1>3, PipeCloseInv
<1>4. ASSUME NEW p \in Proc, ProgramStep(p) \/ Free(p) PROVE PipeInv'
  BY <1>1, <1>4, ProgramStepInv
<1>5. CASE UNCHANGED vars
  BY <1>1, <1>5 DEF vars, PipeInv, CallInv, WriterInv, OpenEnds, FreedOnce, Full, Count
<1> QED
  BY <1>2, <1>3, <1>4, <1>5 DEF Next, KernelStep

LEMMA AlwaysPipeInv == Spec => []PipeInv
<1>1. Init => PipeInv
  BY InitPipeInv
<1>2. PipeInv /\ [Next]_vars => PipeInv'
  BY NextPipeInv
<1> QED
  BY <1>1, <1>2, PTL DEF Spec

\* An end of a pipe is open as long as somebody has a descriptor of it or is closing
\* the last one, and its page is given back once, by the last one to leave
\* (fileclose, pipeclose).
THEOREM PipeCorrect == Spec => []PipeExact
<1>1. PipeInv => PipeExact
  BY DEF PipeInv, PipeExact
<1> QED
  BY <1>1, AlwaysPipeInv, PTL

\* A writer that sleeps while nobody has the lock sleeps on a full ring whose read end is
\* open: however reads, closes and kills come, no wakeup is missed (pipewrite, piperead).
THEOREM WritersAlwaysWoken == Spec => []WritersWoken
<1>1. PipeInv => WritersWoken
  <2> SUFFICES ASSUME PipeInv, lock = NoProc, NEW p \in Proc,
                      pc[p] = "asleep", call[p] = "write"
               PROVE  Full /\ readopen
    BY DEF WritersWoken
  <2>1. \A q \in Proc : pc[q] # "copy"
    BY Constants DEF PipeInv, CallInv
  <2> QED
    BY <2>1 DEF PipeInv, WriterInv
<1> QED
  BY <1>1, AlwaysPipeInv, PTL

-----------------------------------------------------------------------------
(* Readers *)

LEMMA NextReaderInv ==
  ASSUME KillProc = {}, PipeInv, ReaderInv, [Next]_vars
  PROVE  ReaderInv'
<1> USE DEF ReaderInv, Writing, pipeVars, procVars
<1>0. /\ call \in [Proc -> {"none", "read", "write", "closeread", "closewrite"}]
      /\ pc \in [Proc -> {"user", "lock", "loop", "copy", "sleep", "asleep", "free"}]
      /\ killed \in [Proc -> BOOLEAN]
      /\ \A r \in Proc : CallInv(r)
      /\ OpenEnds /\ FreedOnce
      /\ NoProc \notin Proc
  BY Constants DEF PipeInv, TypeOK
<1>1. ASSUME NEW p \in Proc, WriteStep(p) PROVE ReaderInv'
  <2>1. CASE Put(p)
    BY <1>0, <2>1 DEF Put
  <2>2. ASSUME pc[p] = "loop" PROVE \A r \in Proc : r # p => pc[r] # "sleep"
    BY <1>0, <2>2 DEF CallInv
  <2>3. CASE WriteWaits(p)
    BY <1>0, <2>2, <2>3 DEF WriteWaits, GoWaking
  <2>4. CASE WriteFails(p)
    <3>1. \A r \in Proc : call[r] # "read"
      BY <1>0, <2>4 DEF WriteFails, OpenEnds, CallInv
    <3> QED
      BY <1>0, <2>4, <3>1 DEF WriteFails, Leave
  <2>5. CASE WriteReturns(p)
    BY <1>0, <2>2, <2>5 DEF WriteReturns, Leave, GoWaking
  <2> QED
    BY <1>1, <2>1, <2>3, <2>4, <2>5 DEF WriteStep
<1>2. ASSUME NEW p \in Proc, ReadStep(p) PROVE ReaderInv'
  <2>1. \A r \in Proc : ~ Writing(r)
    BY <1>0, <1>2 DEF ReadStep, ReadWaits, ReadFails, ReadStarts, Get, ReadReturns,
                      Reading, CallInv
  <2>2. CASE ReadWaits(p)
    BY <1>0, <2>1, <2>2 DEF ReadWaits, Empty
  <2>3. CASE ReadStarts(p)
    BY <1>0, <2>1, <2>3 DEF ReadStarts, Empty
  <2>4. CASE Get(p)
    BY <1>0, <2>1, <2>4 DEF Get
  <2>5. CASE ReadReturns(p)
    BY <1>0, <2>1, <2>5 DEF ReadReturns, Leave, GoWaking, Empty
  <2> QED
    BY <1>2, <2>2, <2>3, <2>4, <2>5 DEF ReadStep, ReadFails
<1>3. ASSUME NEW p \in Proc, Acquire(p) \/ Sleep(p) \/ Free(p) PROVE ReaderInv'
  <2>1. CASE Acquire(p)
    BY <1>0, <2>1 DEF Acquire, Empty
  <2>2. CASE Sleep(p)
    BY <1>0, <2>2 DEF Sleep, Empty
  <2>3. CASE Free(p)
    BY <1>0, <2>3 DEF Free, FreedOnce, CallInv, Empty
  <2> QED
    BY <1>3, <2>1, <2>2, <2>3
<1>4. ASSUME NEW p \in Proc, PipeClose(p) PROVE ReaderInv'
  <2>1. \A r \in Proc : pc[r] \notin {"loop", "sleep"}
    BY <1>0, <1>4 DEF PipeClose, CallInv
  <2> QED
    BY <1>0, <1>4, <2>1 DEF PipeClose, GoWaking, Empty
<1>5. ASSUME NEW p \in Proc, ProgramStep(p) PROVE ReaderInv'
  <2>1. CASE Read(p) \/ Write(p)
    BY <1>0, <2>1 DEF Read, Write, Enter, Empty
  <2>2. CASE PipeAlloc(p)
    BY <1>0, <2>2 DEF PipeAlloc, FreedOnce
  <2>3. ASSUME NEW q \in Proc \ {p}, Fork(p, q) PROVE ReaderInv'
    BY <1>0, <2>3 DEF Fork, Empty
  <2>4. ASSUME NEW e \in {"read", "write"}, Close(p, e) PROVE ReaderInv'
    BY <1>0, <2>4 DEF Close, Empty
  <2> QED
    BY <1>5, <2>1, <2>2, <2>3, <2>4 DEF ProgramStep, Kill, Reborn
<1>6. CASE UNCHANGED vars
  BY <1>6 DEF vars, Empty
<1> QED
  BY <1>1, <1>2, <1>3, <1>4, <1>5, <1>6 DEF Next, KernelStep

\* As long as nobody is killed, a reader that sleeps while nobody has the lock sleeps on
\* an empty pipe that may still get bytes (piperead, pipewrite).  A killed writer leaves
\* without waking the readers of what it wrote, so this needs its hypothesis.
THEOREM ReadersAlwaysWoken == ASSUME KillProc = {} PROVE Spec => []ReadersWoken
<1>1. Init => ReaderInv
  BY DEF Init, ReaderInv
<1>2. PipeInv /\ ReaderInv /\ [Next]_vars => ReaderInv'
  BY NextReaderInv
<1>3. PipeInv /\ ReaderInv => ReadersWoken
  <2> SUFFICES ASSUME PipeInv, ReaderInv, lock = NoProc, NEW p \in Proc,
                      pc[p] = "asleep", call[p] = "read"
               PROVE  Empty /\ writeopen
    BY DEF ReadersWoken
  <2>1. \A q \in Proc : ~ Writing(q)
    BY Constants DEF PipeInv, CallInv, Writing
  <2> QED
    BY <2>1 DEF ReaderInv
<1> QED
  BY <1>1, <1>2, <1>3, AlwaysPipeInv, PTL DEF Spec

-----------------------------------------------------------------------------
(* The pipe is a ByteStream *)

LEMMA Multiple == \E q \in Int : UintSize = PIPESIZE * q
<1>1. PIPESIZE \in Nat \ {0} /\ UintSize \in Int
  BY Constants
<1>2. UintSize = (PIPESIZE * (UintSize \div PIPESIZE)) + (UintSize % PIPESIZE)
      /\ UintSize \div PIPESIZE \in Int
  BY <1>1, Division
<1>3. UintSize % PIPESIZE = 0
  BY PipeAssumption
<1> DEFINE q == UintSize \div PIPESIZE
<1>4. UintSize = PIPESIZE * q /\ q \in Int
  BY <1>1, <1>2, <1>3
<1> HIDE DEF q
<1> QED
  BY <1>4

\* The byte in the ring that a put fills is the one after the last that is in use.
LEMMA WritePlace ==
  ASSUME TypeOK
  PROVE  nwrite % PIPESIZE = (nread + Count) % PIPESIZE
<1>1. /\ PIPESIZE \in Nat \ {0} /\ UintSize \in Nat
      /\ nread \in Int /\ nwrite \in Int /\ Count \in Int
  BY Constants, CountType DEF TypeOK
<1>2. PICK q \in Int : UintSize = PIPESIZE * q
  BY Multiple
<1>3. CASE nwrite >= nread
  BY <1>1, <1>3, CountIs
<1>4. CASE nwrite < nread
  <2>1. nread + Count = (PIPESIZE * q) + nwrite
    BY <1>1, <1>2, <1>4, CountIs
  <2> QED
    BY <1>1, <2>1, RemainderShift
<1> QED
  BY <1>1, <1>3, <1>4

LEMMA BytesType ==
  ASSUME TypeOK
  PROVE  Bytes \in Seq(Byte) /\ Len(Bytes) = Count
<1>1. /\ PIPESIZE \in Nat \ {0} /\ nread \in Int /\ Count \in Nat
      /\ data \in [0 .. PIPESIZE - 1 -> Byte]
  BY Constants, CountType DEF TypeOK
<1>2. \A k \in 1 .. Count : (nread + k - 1) % PIPESIZE \in 0 .. PIPESIZE - 1
  BY <1>1, Division
<1>3. Bytes \in [1 .. Count -> Byte]
  BY <1>1, <1>2 DEF Bytes
<1> QED
  BY <1>1, <1>3

LEMMA PutBytes ==
  ASSUME TypeOK, TypeOK', Count <= PIPESIZE, NEW p \in Proc, Put(p)
  PROVE  Len(Bytes) < PIPESIZE /\ \E b \in Byte : Bytes' = Append(Bytes, b)
<1> DEFINE at(k) == (nread + k - 1) % PIPESIZE
<1>1. /\ PIPESIZE \in Nat \ {0} /\ nread \in Int /\ Count \in Nat
      /\ data \in [0 .. PIPESIZE - 1 -> Byte] /\ data' \in [0 .. PIPESIZE - 1 -> Byte]
  BY Constants, CountType DEF TypeOK
<1>2. Count < PIPESIZE /\ Count' = Count + 1 /\ nread' = nread
  BY PutCounts DEF Put
<1>3. at(Count + 1) = nwrite % PIPESIZE
  <2>1. nread + (Count + 1) - 1 = nread + Count
    BY <1>1
  <2> QED
    BY <2>1, WritePlace
<1>4. \A k \in 1 .. Count + 1 : at(k) \in 0 .. PIPESIZE - 1
  <2> TAKE k \in 1 .. Count + 1
  <2>1. nread + k - 1 \in Int
    BY <1>1
  <2> QED
    BY <1>1, <2>1, Division
<1>5. \A k \in 1 .. Count : at(k) # at(Count + 1)
  <2> TAKE k \in 1 .. Count
  <2> DEFINE a == nread + k - 1
             c == nread + (Count + 1) - 1
  <2>1. a \in Int /\ c \in Int /\ a < c /\ c < a + PIPESIZE
    BY <1>1, <1>2
  <2> HIDE DEF a, c
  <2>2. a % PIPESIZE # c % PIPESIZE
    BY <1>1, <2>1, RemaindersDiffer
  <2> QED
    BY <2>2 DEF a, c
<1>6. /\ Bytes = [k \in 1 .. Count |-> data[at(k)]]
      /\ Bytes' = [k \in 1 .. Count + 1 |-> data'[at(k)]]
  BY <1>2 DEF Bytes
<1> HIDE DEF at
<1>7. PICK b \in Byte : data' = [data EXCEPT ![at(Count + 1)] = b]
  BY <1>3 DEF Put
<1>8. /\ \A k \in 1 .. Count : data'[at(k)] = data[at(k)]
      /\ data'[at(Count + 1)] = b
  BY <1>1, <1>4, <1>5, <1>7
<1>9. Bytes' = Append(Bytes, b)
  <2>1. Bytes \in Seq(Byte) /\ Len(Bytes) = Count
    BY BytesType
  <2>2. /\ Append(Bytes, b) \in Seq(Byte)
        /\ Len(Append(Bytes, b)) = Count + 1
        /\ \A k \in 1 .. Count : Append(Bytes, b)[k] = Bytes[k]
        /\ Append(Bytes, b)[Count + 1] = b
    BY <2>1, AppendProperties
  <2>3. Bytes' \in Seq(Byte) /\ Len(Bytes') = Count + 1
    BY <1>1, <1>4, <1>6
  <2>4. \A k \in 1 .. Count + 1 : Bytes'[k] = Append(Bytes, b)[k]
    BY <1>1, <1>6, <1>8, <2>2
  <2> QED
    BY <2>2, <2>3, <2>4, SeqEqual
<1> QED
  BY <1>2, <1>9, BytesType

LEMMA GetBytes ==
  ASSUME TypeOK, TypeOK', Count <= PIPESIZE, NEW p \in Proc, Get(p)
  PROVE  Bytes # <<>> /\ Bytes' = Tail(Bytes)
<1>1. /\ PIPESIZE \in Nat \ {0} /\ UintSize \in Nat /\ Count \in Nat
      /\ nread \in 0 .. UintSize - 1 /\ nread \in Int /\ nread' \in Int
  BY Constants, CountType DEF TypeOK
<1>2. Count > 0 /\ Count' = Count - 1
  BY GetCounts
<1>3. data' = data /\ nread' = IF nread + 1 = UintSize THEN 0 ELSE nread + 1
  BY <1>1, IncType DEF Get
<1>4. \A k \in 1 .. Count - 1 : (nread' + k - 1) % PIPESIZE = (nread + (k + 1) - 1) % PIPESIZE
  <2> TAKE k \in 1 .. Count - 1
  <2> DEFINE a == nread' + k - 1
             c == nread + (k + 1) - 1
  <2>1. CASE nread' = nread + 1
    <3>1. a = c
      BY <1>1, <2>1
    <3> QED
      BY <3>1
  <2>2. CASE nread' # nread + 1
    <3>1. PICK q \in Int : UintSize = PIPESIZE * q
      BY Multiple
    <3>2. c = (PIPESIZE * q) + a /\ a \in Int
      BY <1>1, <1>3, <2>2, <3>1
    <3> HIDE DEF a, c
    <3>3. c % PIPESIZE = a % PIPESIZE
      BY <1>1, <3>2, RemainderShift
    <3> QED
      BY <3>3 DEF a, c
  <2> QED
    BY <2>1, <2>2
<1>5. Bytes \in Seq(Byte) /\ Len(Bytes) = Count
  BY BytesType
<1>6. Bytes # <<>>
  BY <1>2, <1>5
<1>7. /\ Tail(Bytes) \in Seq(Byte) /\ Len(Tail(Bytes)) = Count - 1
      /\ \A k \in 1 .. Count - 1 : Tail(Bytes)[k] = Bytes[k + 1]
  BY <1>5, <1>6, HeadTailProperties
<1>8. /\ Bytes = [k \in 1 .. Count |-> data[(nread + k - 1) % PIPESIZE]]
      /\ Bytes' = [k \in 1 .. Count - 1 |-> data[(nread' + k - 1) % PIPESIZE]]
  BY <1>2, <1>3 DEF Bytes
<1>9. \A k \in 1 .. Count - 1 : Bytes'[k] = Bytes[k + 1] /\ k + 1 \in 1 .. Count
  BY <1>1, <1>4, <1>8
<1>10. Bytes' \in Seq(Byte) /\ Len(Bytes') = Count - 1
  <2>1. \A k \in 1 .. Count : Bytes[k] \in Byte
    BY <1>5, ElementOfSeq
  <2>2. \A k \in 1 .. Count - 1 : data[(nread' + k - 1) % PIPESIZE] \in Byte
    BY <1>1, <1>8, <1>9, <2>1
  <2> HIDE DEF Bytes
  <2> QED
    BY <1>1, <1>2, <1>8, <2>2
<1> QED
  BY <1>6, <1>7, <1>9, <1>10, SeqEqual

LEMMA NoBytes ==
  ASSUME nread = 0, nwrite = 0
  PROVE  Count = 0 /\ Bytes = <<>>
<1>1. Count = 0
  BY Constants, Distance DEF Count
<1> QED
  BY <1>1 DEF Bytes

LEMMA StreamStep ==
  ASSUME PipeInv, TypeOK', [Next]_vars
  PROVE  Stream!Next \/ UNCHANGED <<Bytes, readopen, writeopen>>
<1> USE DEF pipeVars, procVars
<1>0. /\ TypeOK /\ Count <= PIPESIZE
      /\ OpenEnds /\ FreedOnce /\ \A r \in Proc : CallInv(r)
  BY DEF PipeInv
<1>1. ASSUME NEW p \in Proc, Put(p) PROVE Stream!Next
  <2>1. PICK b \in Byte : Len(Bytes) < PIPESIZE /\ Bytes' = Append(Bytes, b)
    BY <1>0, <1>1, PutBytes
  <2>2. writeopen
    BY <1>0, <1>1 DEF Put, Writing, OpenEnds, CallInv
  <2> QED
    BY <1>1, <2>1, <2>2 DEF Put, Stream!Next, Stream!Put
<1>2. ASSUME NEW p \in Proc, Get(p) PROVE Stream!Next
  <2>1. Bytes # <<>> /\ Bytes' = Tail(Bytes)
    BY <1>0, <1>2, GetBytes
  <2>2. readopen
    BY <1>0, <1>2 DEF Get, OpenEnds, CallInv
  <2> QED
    BY <1>2, <2>1, <2>2 DEF Get, Stream!Next, Stream!Get
<1>3. ASSUME NEW p \in Proc, PipeAlloc(p) PROVE Stream!Next
  <2>1. ~ readopen /\ ~ writeopen
    BY <1>0, <1>3 DEF PipeAlloc, FreedOnce, OpenEnds, CallInv
  <2>2. nread' = 0 /\ nwrite' = 0 /\ readopen' = TRUE /\ writeopen' = TRUE
    BY <1>3 DEF PipeAlloc
  <2>3. Count' = 0
    BY <2>2, Constants, Distance DEF Count
  <2>4. Bytes' = <<>>
    BY <2>3 DEF Bytes
  <2> QED
    BY <2>1, <2>2, <2>4 DEF Stream!Next, Stream!Open
<1>4. ASSUME NEW p \in Proc, PipeClose(p) PROVE Stream!Next
  <2>1. /\ call[p] = "closeread" => readopen
        /\ call[p] = "closewrite" => writeopen
    BY <1>0 DEF OpenEnds
  <2>2. Bytes' = Bytes
    BY <1>4 DEF PipeClose, Bytes, Count
  <2>3. /\ call[p] \in {"closeread", "closewrite"}
        /\ writeopen' = (writeopen /\ call[p] # "closewrite")
        /\ readopen' = (readopen /\ call[p] = "closewrite")
    BY <1>4 DEF PipeClose
  <2>4. readopen \in BOOLEAN /\ writeopen \in BOOLEAN
    BY <1>0 DEF TypeOK
  <2>5. CASE call[p] = "closeread"
    BY <2>1, <2>2, <2>3, <2>4, <2>5 DEF Stream!Next, Stream!CloseRead
  <2>6. CASE call[p] = "closewrite"
    BY <2>1, <2>2, <2>3, <2>4, <2>6 DEF Stream!Next, Stream!CloseWrite
  <2> QED
    BY <2>3, <2>5, <2>6
<1>5. ASSUME UNCHANGED <<data, nread, nwrite, readopen, writeopen>>
      PROVE  UNCHANGED <<Bytes, readopen, writeopen>>
  BY <1>5 DEF Bytes, Count
<1>6. ASSUME NEW p \in Proc, KernelStep(p)
      PROVE  Put(p) \/ Get(p) \/ PipeClose(p)
             \/ UNCHANGED <<data, nread, nwrite, readopen, writeopen>>
  BY <1>6 DEF KernelStep, Acquire, Sleep, WriteStep, WriteWaits, WriteFails, WriteReturns,
              ReadStep, ReadWaits, ReadFails, ReadStarts, ReadReturns, Free
<1>7. ASSUME NEW p \in Proc, ProgramStep(p)
      PROVE  PipeAlloc(p) \/ UNCHANGED <<data, nread, nwrite, readopen, writeopen>>
  BY <1>7 DEF ProgramStep, Read, Write, Enter, Kill, Reborn, Fork, Close
<1> QED
  BY <1>1, <1>2, <1>3, <1>4, <1>5, <1>6, <1>7 DEF Next, vars

\* The ring with its two counters, which wrap, is a queue of at most PIPESIZE bytes: what
\* is read is what was written, in order and once, whatever becomes of the processes, and
\* nothing passes an end that was closed (pipewrite, piperead, pipeclose, pipealloc).
THEOREM PipeIsByteStream == Spec => StreamSpec
<1>1. Init => Stream!Init
  BY NoBytes DEF Init, Stream!Init
<1>2. PipeInv /\ [Next]_vars => [Stream!Next]_(Stream!streamVars)
  BY StreamStep, NextTypeOK DEF PipeInv, Stream!streamVars
<1> QED
  BY <1>1, <1>2, AlwaysPipeInv, PTL DEF Spec, StreamSpec, Stream!Spec
=============================================================================
