-------------------------- MODULE BufferCacheProofs --------------------------
(***************************************************************************)
(* BufferCache for any numbers of processes, buffers and blocks: a buffer  *)
(* has one owner and a block one buffer, sleepers are woken, what a buffer *)
(* claims to hold is on the disk, and the cache is a BlockStore.  Then     *)
(* FileBlocks, the files above, for any inodes, sizes of a block and of    *)
(* the disk, texts, writes and crashes: files read as they were written,   *)
(* and their blocks are never mixed, lost or freed twice.                  *)
(***************************************************************************)
EXTENDS BufferCache, Integers, FiniteSetTheorems, SequenceTheorems,
        WellFoundedInduction, TLAPS

-----------------------------------------------------------------------------
(* The queue and the list of buffers *)

LEMMA Enqueue ==
  ASSUME NEW q \in Seq(Buf), IsInjective(q), NEW b \in Buf, b \notin ToSet(q)
  PROVE  /\ Append(q, b) \in Seq(Buf)
         /\ IsInjective(Append(q, b))
         /\ ToSet(Append(q, b)) = ToSet(q) \cup {b}
         /\ Append(q, b) # <<>>
         /\ Head(Append(q, b)) = IF q = <<>> THEN b ELSE Head(q)
<1> DEFINE n == Len(q)
           r == Append(q, b)
<1>1. /\ r \in Seq(Buf) /\ r # <<>> /\ Len(r) = n + 1 /\ n \in Nat
      /\ \A i \in 1 .. n : r[i] = q[i] /\ q[i] \in Buf
      /\ r[n + 1] = b
      /\ DOMAIN r = 1 .. n + 1 /\ DOMAIN q = 1 .. n
  BY AppendProperties, ElementOfSeq
<1>2. Head(r) = IF q = <<>> THEN b ELSE Head(q)
  BY HeadTailAppend
<1> HIDE DEF n, r
<1>3. \A i \in 1 .. n : q[i] # b
  BY <1>1 DEF ToSet
<1>4. IsInjective(r)
  BY <1>1, <1>3 DEF IsInjective
<1>5. ToSet(r) = ToSet(q) \cup {b}
  BY <1>1 DEF ToSet
<1> QED
  BY <1>1, <1>2, <1>4, <1>5 DEF r

LEMMA Dequeue ==
  ASSUME NEW q \in Seq(Buf), IsInjective(q), q # <<>>
  PROVE  /\ Tail(q) \in Seq(Buf)
         /\ IsInjective(Tail(q))
         /\ Head(q) \in Buf /\ Head(q) \in ToSet(q)
         /\ ToSet(Tail(q)) = ToSet(q) \ {Head(q)}
         /\ Tail(q) # <<>> => Head(Tail(q)) \in ToSet(Tail(q)) /\ Head(Tail(q)) \in Buf
<1> DEFINE n == Len(q)
           r == Tail(q)
<1>1. /\ r \in Seq(Buf) /\ n \in Nat /\ n >= 1 /\ Len(r) = n - 1
      /\ \A i \in 1 .. n - 1 : r[i] = q[i + 1]
      /\ \A i \in 1 .. n : q[i] \in Buf
      /\ Head(q) = q[1] /\ (r # <<>> => Head(r) = r[1] /\ n >= 2)
      /\ DOMAIN r = 1 .. n - 1 /\ DOMAIN q = 1 .. n
  BY HeadTailProperties, ElementOfSeq, EmptySeq
<1> HIDE DEF n, r
<1>2. \A i, j \in 1 .. n : q[i] = q[j] => i = j
  BY <1>1 DEF IsInjective
<1>3. IsInjective(r)
  BY <1>1, <1>2 DEF IsInjective
<1>4. ToSet(r) = ToSet(q) \ {q[1]}
  <2>1. ASSUME NEW x \in ToSet(q), x # q[1] PROVE x \in ToSet(r)
    <3>1. PICK i \in 1 .. n : x = q[i]
      BY <1>1 DEF ToSet
    <3>2. i - 1 \in 1 .. n - 1 /\ r[i - 1] = q[i]
      BY <1>1, <2>1, <3>1
    <3> QED
      BY <1>1, <3>1, <3>2 DEF ToSet
  <2>2. ASSUME NEW x \in ToSet(r) PROVE x \in ToSet(q) /\ x # q[1]
    <3>1. PICK i \in 1 .. n - 1 : x = q[i + 1]
      BY <1>1, <2>2 DEF ToSet
    <3>2. i + 1 \in 1 .. n /\ 1 \in 1 .. n /\ i + 1 # 1
      BY <1>1
    <3> QED
      BY <1>1, <1>2, <3>1, <3>2 DEF ToSet
  <2> QED
    BY <2>1, <2>2
<1>5. q[1] \in ToSet(q) /\ (r # <<>> => r[1] \in ToSet(r) /\ r[1] \in Buf)
  BY <1>1 DEF ToSet
<1> QED
  BY <1>1, <1>3, <1>4, <1>5 DEF r

\* A permutation of the buffers stays one.
LEMMA MoveToFrontType ==
  ASSUME lru \in Seq(Buf), ToSet(lru) = Buf, IsInjective(lru), NEW b \in Buf
  PROVE  LET l == MoveToFront(b)
         IN l \in Seq(Buf) /\ ToSet(l) = Buf /\ IsInjective(l)
<1> DEFINE at == CHOOSE i \in 1 .. Len(lru) : lru[i] = b
           l == MoveToFront(b)
           n == Len(lru)
<1>1. /\ n \in Nat /\ DOMAIN lru = 1 .. n
      /\ \A i \in 1 .. n : lru[i] \in Buf
      /\ \A i, j \in 1 .. n : lru[i] = lru[j] => i = j
      /\ \A c \in Buf : \E i \in 1 .. n : lru[i] = c
  BY ElementOfSeq DEF ToSet, IsInjective
<1>2. at \in 1 .. n /\ lru[at] = b
  BY <1>1
<1>3. l = [i \in 1 .. n |-> IF i = 1 THEN b ELSE IF i <= at THEN lru[i - 1] ELSE lru[i]]
  BY DEF MoveToFront
<1> HIDE DEF at, l, n
<1>4. \A i \in 2 .. n : i - 1 \in 1 .. n
  BY <1>1
<1>5. l \in [1 .. n -> Buf]
  BY <1>1, <1>3, <1>4
<1>6. IsInjective(l)
  <2> SUFFICES ASSUME NEW i \in 1 .. n, NEW j \in 1 .. n, i < j PROVE l[i] # l[j]
    BY <1>1, <1>5 DEF IsInjective
  <2> QED
    BY <1>1, <1>2, <1>3
<1>7. ToSet(l) = Buf
  <2> SUFFICES ASSUME NEW c \in Buf PROVE \E i \in 1 .. n : l[i] = c
    BY <1>5 DEF ToSet
  <2>1. PICK k \in 1 .. n : lru[k] = c
    BY <1>1
  <2>2. CASE k = at
    BY <1>1, <1>2, <1>3, <2>1, <2>2
  <2>3. CASE k < at
    <3>1. k + 1 \in 1 .. n /\ l[k + 1] = lru[k]
      BY <1>1, <1>2, <1>3, <2>3
    <3> QED
      BY <2>1, <3>1
  <2>4. CASE k > at
    BY <1>1, <1>2, <1>3, <2>1, <2>4
  <2> QED
    BY <1>1, <1>2, <2>2, <2>3, <2>4
<1> QED
  <2>1. l \in Seq(Buf)
    BY <1>1, <1>5, SeqDef
  <2> QED
    BY <1>6, <1>7, <2>1 DEF l

-----------------------------------------------------------------------------
(* Owners, sleepers and types *)

LEMMA Owner ==
  ASSUME CacheInv, NEW u \in Use, Using(u)
  PROVE  /\ held[u] \in Buf /\ busy[held[u]]
         /\ sector[held[u]] = want[u] /\ want[u] \in Block
         /\ \A q \in Use : Using(q) /\ held[q] = held[u] => q = u
  BY DEF CacheInv, BusyExact, ProcInv, Using

LEMMA InQueue ==
  ASSUME CacheInv, NEW b \in ToSet(queue)
  PROVE  /\ b \in Buf /\ busy[b] /\ sector[b] \in Block
         /\ \E u \in Use : pc[u] = "iosleep" /\ held[u] = b
         /\ dirty[b] \/ ~ valid[b]
<1>1. b \in Buf
  BY ElementOfSeq DEF CacheInv, TypeOK, ToSet
<1>2. PICK u \in Use : pc[u] = "iosleep" /\ held[u] = b
  BY <1>1 DEF CacheInv, BufInv
<1>3. Using(u)
  BY <1>2 DEF Using
<1>4. dirty[b] \/ ~ valid[b]
  BY <1>2 DEF CacheInv, ProcInv
<1> QED
  BY <1>1, <1>2, <1>3, <1>4, Owner

\* Steps that change nothing but where u is, what it wants and what it sleeps on.
LEMMA LocalStep ==
  ASSUME CacheInv, NEW u \in Use,
         Call(u) \/ BgetBusy(u) \/ Bread(u) \/ IderwWakes(u)
  PROVE  CacheInv'
<1> USE DEF bufVars, diskVars, Goto
<1>0. /\ pc \in [Use -> {"user", "bget", "bgetsleep", "got", "iderw", "iosleep", "iowake", "hold"}]
      /\ want \in [Use -> Block \cup {NoBlock}]
      /\ held \in [Use -> Buf \cup {NoBuf}]
      /\ sector \in [Buf -> Block \cup {NoBlock}]
      /\ BusyExact /\ SleepersWoken
      /\ \A r \in Use : ProcInv(r)
      /\ \A b \in Buf : BufInv(b)
  BY DEF CacheInv, TypeOK
<1>1. UNCHANGED <<bufVars, diskVars, panicked>>
  BY DEF Call, BgetBusy, Bread, IderwWakes
<1>2. /\ pc' \in [Use -> {"user", "bget", "bgetsleep", "got", "iderw", "iosleep", "iowake", "hold"}]
      /\ want' \in [Use -> Block \cup {NoBlock}]
      /\ held' \in [Use -> Buf \cup {NoBuf}]
  BY <1>0 DEF Call, BgetBusy, Cached, Bread, IderwWakes
<1>3. TypeOK'
  BY <1>1, <1>2 DEF CacheInv, TypeOK
<1>4. CASE Call(u)
  BY <1>0, <1>3, <1>4 DEF Call, CacheInv, OneBufferPerBlock, BusyExact, SleepersWoken, ProcInv, BufInv, Using
<1>5. CASE BgetBusy(u)
  BY <1>0, <1>3, <1>5 DEF BgetBusy, Cached, CacheInv, OneBufferPerBlock, BusyExact, SleepersWoken, ProcInv, BufInv, Using
<1>6. CASE Bread(u)
  BY <1>0, <1>3, <1>6 DEF Bread, CacheInv, OneBufferPerBlock, BusyExact, SleepersWoken, ProcInv, BufInv, Using
<1>7. CASE IderwWakes(u)
  BY <1>0, <1>3, <1>7 DEF IderwWakes, CacheInv, OneBufferPerBlock, BusyExact, SleepersWoken, ProcInv, BufInv, Using
<1> QED
  BY <1>4, <1>5, <1>6, <1>7

LEMMA BgetStep ==
  ASSUME CacheInv, NEW u \in Use, BgetHit(u) \/ BgetRecycle(u)
  PROVE  CacheInv'
<1> USE DEF bufVars, diskVars, Goto, Takes
<1>0. /\ pc \in [Use -> {"user", "bget", "bgetsleep", "got", "iderw", "iosleep", "iowake", "hold"}]
      /\ want \in [Use -> Block \cup {NoBlock}]
      /\ held \in [Use -> Buf \cup {NoBuf}]
      /\ sector \in [Buf -> Block \cup {NoBlock}]
      /\ busy \in [Buf -> BOOLEAN] /\ valid \in [Buf -> BOOLEAN] /\ dirty \in [Buf -> BOOLEAN]
      /\ OneBufferPerBlock /\ BusyExact /\ SleepersWoken
      /\ \A r \in Use : ProcInv(r)
      /\ \A b \in Buf : BufInv(b)
  BY DEF CacheInv, TypeOK
<1>1. want[u] \in Block /\ ~ Using(u) /\ pc[u] = "bget"
  BY <1>0 DEF BgetHit, BgetRecycle, ProcInv, Using
<1>2. PICK b \in Buf :
        /\ ~ busy[b]
        /\ busy' = [busy EXCEPT ![b] = TRUE]
        /\ held' = [held EXCEPT ![u] = b]
        /\ pc' = [pc EXCEPT ![u] = "got"]
        /\ UNCHANGED <<data, lru, queue, drive, disk, irq, want, panicked>>
        /\ \/ sector[b] = want[u] /\ UNCHANGED <<sector, valid, dirty>>
           \/ /\ Cached(want[u]) = {}
              /\ sector' = [sector EXCEPT ![b] = want[u]]
              /\ valid' = [valid EXCEPT ![b] = FALSE]
              /\ dirty' = [dirty EXCEPT ![b] = FALSE]
  BY DEF BgetHit, BgetRecycle, Cached, Victims
<1>3. TypeOK'
  BY <1>0, <1>1, <1>2 DEF CacheInv, TypeOK
<1>4. OneBufferPerBlock'
  BY <1>0, <1>1, <1>2 DEF OneBufferPerBlock, Cached
<1>5. BusyExact'
  BY <1>0, <1>1, <1>2 DEF BusyExact, Using, ProcInv
<1>6. SleepersWoken'
  BY <1>0, <1>1, <1>2 DEF SleepersWoken, ProcInv
<1>7. \A r \in Use : ProcInv(r)'
  BY <1>0, <1>1, <1>2 DEF ProcInv, Using, BufInv, BusyExact
<1>8. \A c \in Buf : BufInv(c)'
  BY <1>0, <1>1, <1>2 DEF BufInv, ProcInv, BusyExact, Using
<1> QED
  BY <1>3, <1>4, <1>5, <1>6, <1>7, <1>8 DEF CacheInv

LEMMA BwriteStep == ASSUME CacheInv, NEW u \in Use, Bwrite(u) PROVE CacheInv'
<1> USE DEF bufVars, diskVars, Goto
<1>0. /\ pc \in [Use -> {"user", "bget", "bgetsleep", "got", "iderw", "iosleep", "iowake", "hold"}]
      /\ held \in [Use -> Buf \cup {NoBuf}]
      /\ data \in [Buf -> Val] /\ dirty \in [Buf -> BOOLEAN]
      /\ BusyExact /\ SleepersWoken
      /\ \A r \in Use : ProcInv(r)
      /\ \A b \in Buf : BufInv(b)
  BY DEF CacheInv, TypeOK
<1>1. /\ held[u] \in Buf /\ busy[held[u]] /\ pc[u] = "hold"
      /\ \A q \in Use : Using(q) /\ held[q] = held[u] => q = u
  BY Owner DEF Bwrite, Using
<1>2. /\ dirty' = [dirty EXCEPT ![held[u]] = TRUE]
      /\ pc' = [pc EXCEPT ![u] = "iderw"]
      /\ data' \in [Buf -> Val]
      /\ UNCHANGED <<sector, busy, valid, lru, diskVars, want, held, panicked>>
  BY <1>0, <1>1 DEF Bwrite
<1>3. TypeOK'
  BY <1>0, <1>1, <1>2 DEF CacheInv, TypeOK
<1>4. OneBufferPerBlock'
  BY <1>2 DEF CacheInv, OneBufferPerBlock
<1>5. BusyExact'
  BY <1>0, <1>1, <1>2 DEF BusyExact, Using
<1>6. SleepersWoken'
  BY <1>0, <1>1, <1>2 DEF SleepersWoken
<1>7. \A r \in Use : ProcInv(r)'
  BY <1>0, <1>1, <1>2 DEF ProcInv, Using
<1>8. \A c \in Buf : BufInv(c)'
  BY <1>0, <1>1, <1>2 DEF BufInv
<1> QED
  BY <1>3, <1>4, <1>5, <1>6, <1>7, <1>8 DEF CacheInv

LEMMA BrelseStep == ASSUME CacheInv, NEW u \in Use, Brelse(u) PROVE CacheInv'
<1> USE DEF bufVars, diskVars
<1>0. /\ pc \in [Use -> {"user", "bget", "bgetsleep", "got", "iderw", "iosleep", "iowake", "hold"}]
      /\ held \in [Use -> Buf \cup {NoBuf}] /\ want \in [Use -> Block \cup {NoBlock}]
      /\ busy \in [Buf -> BOOLEAN] /\ dirty \in [Buf -> BOOLEAN]
      /\ BusyExact /\ SleepersWoken
      /\ \A r \in Use : ProcInv(r)
      /\ \A b \in Buf : BufInv(b)
  BY DEF CacheInv, TypeOK
<1>1. /\ held[u] \in Buf /\ busy[held[u]] /\ pc[u] = "hold"
      /\ \A q \in Use : Using(q) /\ held[q] = held[u] => q = u
  BY Owner DEF Brelse, Using
<1>2. /\ busy' = [busy EXCEPT ![held[u]] = FALSE]
      /\ want' = [want EXCEPT ![u] = NoBlock]
      /\ held' = [held EXCEPT ![u] = NoBuf]
      /\ UNCHANGED <<sector, valid, dirty, data, diskVars, panicked>>
      /\ pc' \in [Use -> {"user", "bget", "bgetsleep", "got", "iderw", "iosleep", "iowake", "hold"}]
      /\ pc'[u] = "user"
      /\ \A r \in Use : r # u =>
           \/ pc[r] = "bgetsleep" /\ held[r] = held[u] /\ pc'[r] = "bget"
           \/ pc'[r] = pc[r] /\ ~ (held[r] = held[u] /\ pc[r] = "bgetsleep")
  <2>1. pc' \in [Use -> {"user", "bget", "bgetsleep", "got", "iderw", "iosleep", "iowake", "hold"}]
    BY <1>0 DEF Brelse, GoWaking
  <2>2. \A r \in Use : r # u /\ held[r] = held[u] => pc[r] # "iosleep"
    BY <1>1 DEF Using
  <2>3. \A r \in Use : r # u =>
           \/ pc[r] = "bgetsleep" /\ held[r] = held[u] /\ pc'[r] = "bget"
           \/ pc'[r] = pc[r] /\ ~ (held[r] = held[u] /\ pc[r] = "bgetsleep")
    BY <2>2 DEF Brelse, GoWaking
  <2> QED
    BY <2>1, <2>3 DEF Brelse, GoWaking
<1>3. TypeOK'
  <2>1. lru' \in Seq(Buf) /\ ToSet(lru') = Buf /\ IsInjective(lru')
    BY <1>1, MoveToFrontType DEF CacheInv, TypeOK, Brelse
  <2> QED
    BY <1>0, <1>1, <1>2, <2>1 DEF CacheInv, TypeOK
<1>4. OneBufferPerBlock'
  BY <1>2 DEF CacheInv, OneBufferPerBlock
<1>5. BusyExact'
  BY <1>0, <1>1, <1>2 DEF BusyExact, Using
<1>6. SleepersWoken'
  BY <1>0, <1>1, <1>2 DEF SleepersWoken, ProcInv
<1>7. \A r \in Use : ProcInv(r)'
  BY <1>0, <1>1, <1>2 DEF ProcInv, Using
<1>8. \A c \in Buf : BufInv(c)'
  BY <1>0, <1>1, <1>2 DEF BufInv, ProcInv
<1> QED
  BY <1>3, <1>4, <1>5, <1>6, <1>7, <1>8 DEF CacheInv

LEMMA IdestartType ==
  ASSUME CacheInv, NEW b \in Buf, sector[b] \in Block, Idestart(b)
  PROVE  drive' \in [op : {"idle", "read", "write", "ready", "error"},
                     sector : Block, data : Val]
  BY BufferCacheAssumption DEF CacheInv, TypeOK, Idestart

LEMMA IderwStep == ASSUME CacheInv, NEW u \in Use, Iderw(u) PROVE CacheInv'
<1> USE DEF bufVars, diskVars, Goto
<1>0. /\ pc \in [Use -> {"user", "bget", "bgetsleep", "got", "iderw", "iosleep", "iowake", "hold"}]
      /\ queue \in Seq(Buf) /\ IsInjective(queue)
      /\ BusyExact /\ SleepersWoken
      /\ \A r \in Use : ProcInv(r)
      /\ \A b \in Buf : BufInv(b)
  BY DEF CacheInv, TypeOK
<1>1. /\ held[u] \in Buf /\ busy[held[u]] /\ sector[held[u]] \in Block /\ pc[u] = "iderw"
      /\ \A q \in Use : Using(q) /\ held[q] = held[u] => q = u
  BY Owner DEF Iderw, Using
<1>2. /\ pc' = [pc EXCEPT ![u] = "iosleep"]
      /\ queue' = Append(queue, held[u])
      /\ UNCHANGED <<bufVars, disk, irq, want, held, panicked>>
  BY DEF Iderw
<1>3. held[u] \notin ToSet(queue)
  BY <1>1, InQueue DEF Using
<1>4. /\ queue' \in Seq(Buf) /\ IsInjective(queue')
      /\ ToSet(queue') = ToSet(queue) \cup {held[u]}
  BY <1>0, <1>1, <1>2, <1>3, Enqueue
<1>5. TypeOK'
  <2>1. drive' \in [op : {"idle", "read", "write", "ready", "error"},
                    sector : Block, data : Val]
    <3>1. CASE Idestart(held[u])
      BY <1>1, <3>1, IdestartType
    <3>2. CASE UNCHANGED drive
      BY <3>2 DEF CacheInv, TypeOK
    <3> QED
      BY <3>1, <3>2 DEF Iderw
  <2> QED
    BY <1>0, <1>1, <1>2, <1>4, <2>1 DEF CacheInv, TypeOK
<1>6. OneBufferPerBlock'
  BY <1>2 DEF CacheInv, OneBufferPerBlock
<1>7. BusyExact'
  BY <1>0, <1>1, <1>2 DEF BusyExact, Using
<1>8. SleepersWoken'
  BY <1>0, <1>1, <1>2, <1>4 DEF SleepersWoken
<1>9. \A r \in Use : ProcInv(r)'
  BY <1>0, <1>1, <1>2 DEF ProcInv, Using
<1>10. \A c \in Buf : BufInv(c)'
  BY <1>0, <1>1, <1>2, <1>4 DEF BufInv
<1> QED
  BY <1>5, <1>6, <1>7, <1>8, <1>9, <1>10 DEF CacheInv

LEMMA IdeintrStep == ASSUME CacheInv, Ideintr PROVE CacheInv'
<1> USE DEF bufVars, diskVars
<1>0. /\ pc \in [Use -> {"user", "bget", "bgetsleep", "got", "iderw", "iosleep", "iowake", "hold"}]
      /\ data \in [Buf -> Val] /\ valid \in [Buf -> BOOLEAN] /\ dirty \in [Buf -> BOOLEAN]
      /\ drive \in [op : {"idle", "read", "write", "ready", "error"}, sector : Block, data : Val]
      /\ queue \in Seq(Buf) /\ IsInjective(queue) /\ queue # <<>>
      /\ BusyExact /\ SleepersWoken
      /\ \A r \in Use : ProcInv(r)
      /\ \A b \in Buf : BufInv(b)
      /\ NoProc \notin Use
  BY BufferCacheAssumption DEF CacheInv, TypeOK, Ideintr
<1> DEFINE b == Head(queue)
<1>1. /\ b \in Buf /\ b \in ToSet(queue)
      /\ queue' = Tail(queue) /\ queue' \in Seq(Buf) /\ IsInjective(queue')
      /\ ToSet(queue') = ToSet(queue) \ {b}
      /\ queue' # <<>> => Head(queue') \in ToSet(queue)
  BY <1>0, Dequeue DEF Ideintr
<1>2. busy[b] /\ sector[b] \in Block
  BY <1>1, InQueue
<1>3. /\ valid' = [valid EXCEPT ![b] = TRUE]
      /\ dirty' = [dirty EXCEPT ![b] = FALSE]
      /\ data' = data \/ data' = [data EXCEPT ![b] = drive.data]
      /\ irq' = FALSE
      /\ UNCHANGED <<sector, busy, lru, disk, want, held, panicked>>
      /\ UNCHANGED drive \/ (queue' # <<>> /\ Idestart(Head(queue')))
  BY DEF Ideintr
<1>4. PICK q \in Use : pc[q] = "iosleep" /\ held[q] = b /\ Using(q)
  BY <1>1, InQueue DEF Using
<1>5. /\ pc' \in [Use -> {"user", "bget", "bgetsleep", "got", "iderw", "iosleep", "iowake", "hold"}]
      /\ pc'[q] = "iowake"
      /\ \A r \in Use : r # q =>
           \/ pc[r] = "bgetsleep" /\ held[r] = b /\ pc'[r] = "bget"
           \/ pc'[r] = pc[r] /\ ~ (held[r] = b /\ Using(r))
  <2>1. pc' = [r \in Use |->
                 IF held[r] = b /\ pc[r] = "bgetsleep" THEN "bget"
                 ELSE IF held[r] = b /\ pc[r] = "iosleep" THEN "iowake" ELSE pc[r]]
    BY <1>0 DEF Ideintr, GoWaking
  <2>2. \A r \in Use : Using(r) /\ held[r] = b => r = q
    BY <1>4, Owner
  <2> HIDE DEF b
  <2> QED
    BY <1>0, <1>4, <2>1, <2>2 DEF Using
<1> HIDE DEF b
<1>6. TypeOK'
  <2>1. drive' \in [op : {"idle", "read", "write", "ready", "error"},
                    sector : Block, data : Val]
    <3>1. CASE queue' # <<>> /\ Idestart(Head(queue'))
      BY <1>1, <3>1, InQueue, IdestartType
    <3> QED
      BY <1>0, <1>3, <3>1
  <2> QED
    BY <1>0, <1>1, <1>3, <1>5, <2>1 DEF CacheInv, TypeOK
<1>7. OneBufferPerBlock'
  BY <1>3 DEF CacheInv, OneBufferPerBlock
<1>8. BusyExact'
  BY <1>0, <1>3, <1>4, <1>5 DEF BusyExact, Using
<1>9. SleepersWoken'
  BY <1>0, <1>1, <1>3, <1>4, <1>5 DEF SleepersWoken, Using
<1>10. \A r \in Use : ProcInv(r)'
  BY <1>0, <1>1, <1>3, <1>4, <1>5 DEF ProcInv, Using
<1>11. \A c \in Buf : BufInv(c)'
  BY <1>0, <1>1, <1>2, <1>3, <1>4, <1>5 DEF BufInv, Using
<1> QED
  BY <1>6, <1>7, <1>8, <1>9, <1>10, <1>11 DEF CacheInv

\* Steps that leave the buffers and the processes alone.
LEMMA DriveStep ==
  ASSUME CacheInv,
         IdeintrIgnored \/ DriveDone \/ SpuriousInterrupt \/ (Panic \/ UNCHANGED vars)
  PROVE  CacheInv'
<1>1. UNCHANGED <<bufVars, queue, procVars>>
  BY DEF IdeintrIgnored, DriveDone, SpuriousInterrupt, Panic, vars, diskVars
<1>2. TypeOK'
  <2>1. /\ drive \in [op : {"idle", "read", "write", "ready", "error"}, sector : Block, data : Val]
        /\ disk \in [Block -> Val]
    BY DEF CacheInv, TypeOK
  <2>2. CASE DriveDone
    BY <1>1, <2>1, <2>2 DEF DriveDone, CacheInv, TypeOK, bufVars, procVars
  <2>3. CASE IdeintrIgnored
    BY <1>1, <2>3 DEF IdeintrIgnored, CacheInv, TypeOK, bufVars, procVars
  <2>4. CASE SpuriousInterrupt
    BY <1>1, <2>4 DEF SpuriousInterrupt, CacheInv, TypeOK, bufVars, procVars
  <2>5. CASE Panic \/ UNCHANGED vars
    BY <1>1, <2>5 DEF Panic, vars, diskVars, CacheInv, TypeOK, bufVars, procVars
  <2> QED
    BY <2>2, <2>3, <2>4, <2>5
<1> QED
  BY <1>1, <1>2 DEF CacheInv, OneBufferPerBlock, BusyExact, SleepersWoken, ProcInv, BufInv,
                    Using, bufVars, procVars

LEMMA NextCacheInv == ASSUME CacheInv, [Next]_vars PROVE CacheInv'
<1>1. ASSUME NEW u \in Use, Call(u) \/ Bwrite(u) \/ Brelse(u) \/ ProcNext(u)
      PROVE  CacheInv'
  BY <1>1, LocalStep, BgetStep, BwriteStep, BrelseStep, IderwStep, DriveStep
     DEF ProcNext, BgetPanics
<1> QED
  BY <1>1, IdeintrStep, DriveStep DEF Next, DiskNext

LEMMA InitCacheInv == ASSUME Init PROVE CacheInv
<1> DEFINE n == Cardinality(Buf)
<1>1. /\ n \in Nat /\ IsFiniteSet(1 .. n) /\ Cardinality(1 .. n) = n
      /\ IsFiniteSet(Buf)
  BY BufferCacheAssumption, FS_CardinalityType, FS_Interval
<1>2. lru \in [1 .. n -> Buf] /\ \A i, j \in 1 .. n : i # j => lru[i] # lru[j]
  BY DEF Init, SetToSeqs
<1>3. lru \in Injection(1 .. n, Buf)
  BY <1>2 DEF Injection, IsInjective
<1>4. lru \in Surjection(1 .. n, Buf)
  <2> HIDE DEF n
  <2> QED
    BY <1>1, <1>3, FS_Injection DEF n
<1>5. lru \in Seq(Buf) /\ ToSet(lru) = Buf /\ IsInjective(lru)
  <2>1. \A b \in Buf : \E i \in 1 .. n : lru[i] = b
    BY <1>4 DEF Surjection
  <2> HIDE DEF n
  <2>2. lru \in Seq(Buf)
    BY <1>1, <1>2
  <2> QED
    BY <1>2, <2>1, <2>2 DEF ToSet, IsInjective
<1>6. queue \in Seq(Buf) /\ IsInjective(queue) /\ ToSet(queue) = {}
  BY DEF Init, IsInjective, ToSet
<1>7. TypeOK
  <2>1. drive \in [op : {"idle", "read", "write", "ready", "error"}, sector : Block, data : Val]
    BY BufferCacheAssumption DEF Init
  <2> QED
    BY <1>5, <1>6, <2>1, BufferCacheAssumption DEF Init, TypeOK
<1>8. \A u \in Use : pc[u] = "user"
  BY DEF Init
<1>9. \A b \in Buf : BufInv(b)
  BY <1>6, BufferCacheAssumption DEF Init, BufInv
<1>10. OneBufferPerBlock /\ BusyExact /\ SleepersWoken /\ \A u \in Use : ProcInv(u)
  BY <1>8 DEF Init, OneBufferPerBlock, BusyExact, SleepersWoken, ProcInv, Using
<1> QED
  BY <1>7, <1>9, <1>10 DEF CacheInv

LEMMA AlwaysCacheInv == Spec => []CacheInv
<1>1. Init => CacheInv
  BY InitCacheInv
<1>2. CacheInv /\ [Next]_vars => CacheInv'
  BY NextCacheInv
<1> QED
  BY <1>1, <1>2, PTL DEF Spec

\* A busy buffer has one owner, which got it for the block that it asked for, and no block
\* is in two buffers, however the scans of bget() and their sleeps interleave and whatever
\* the drive does (bget, brelse).
THEOREM BuffersOwned == Spec => [](TypeOK /\ OneBufferPerBlock /\ BusyExact)
<1>1. CacheInv => TypeOK /\ OneBufferPerBlock /\ BusyExact
  BY DEF CacheInv
<1> QED
  BY <1>1, AlwaysCacheInv, PTL

\* A process that sleeps for the disk has its buffer in the queue, and one that sleeps for
\* a buffer sleeps on one that is in use and still has its block: neither iderw() nor
\* bget() misses its wakeup (ideintr, brelse).
THEOREM SleepersAlwaysWoken == Spec => []SleepersWoken
<1>1. CacheInv => SleepersWoken
  BY DEF CacheInv
<1> QED
  BY <1>1, AlwaysCacheInv, PTL

-----------------------------------------------------------------------------
(* Buffers and the disk *)

\* Nobody else's block is in a buffer that is in the queue or that somebody uses.
LEMMA OtherSector ==
  ASSUME CacheInv, NEW b \in Buf, sector[b] \in Block, NEW c \in Buf, c # b
  PROVE  sector[c] # sector[b]
  BY BufferCacheAssumption DEF CacheInv, OneBufferPerBlock

ValidOnDisk(b) == valid[b] /\ ~ dirty[b] => data[b] = OnDisk(sector[b])

LEMMA DataStep ==
  ASSUME CacheInv, DriveInv, \A b \in Buf : ValidOnDisk(b), DriveFails = FALSE, [Next]_vars
  PROVE  DriveInv' /\ \A b \in Buf : ValidOnDisk(b)'
<1> USE DEF bufVars, diskVars
<1>0. /\ data \in [Buf -> Val] /\ valid \in [Buf -> BOOLEAN] /\ dirty \in [Buf -> BOOLEAN]
      /\ sector \in [Buf -> Block \cup {NoBlock}]
      /\ drive \in [op : {"idle", "read", "write", "ready", "error"}, sector : Block, data : Val]
      /\ disk \in [Block -> Val]
      /\ queue \in Seq(Buf) /\ IsInjective(queue)
      /\ \A b \in Buf : BufInv(b)
  BY DEF CacheInv, TypeOK
<1>1. queue # <<>> => Head(queue) \in ToSet(queue) /\ Head(queue) \in Buf
  BY <1>0, Dequeue
<1>2. CASE UNCHANGED <<sector, valid, dirty, data, queue, drive, disk>>
  BY <1>2 DEF DriveInv, ValidOnDisk, OnDisk
<1>3. ASSUME NEW u \in Use, BgetRecycle(u)
      PROVE  DriveInv' /\ \A b \in Buf : ValidOnDisk(b)'
  <2>1. PICK b \in Buf :
          /\ ~ busy[b]
          /\ sector' = [sector EXCEPT ![b] = want[u]]
          /\ valid' = [valid EXCEPT ![b] = FALSE]
          /\ dirty' = [dirty EXCEPT ![b] = FALSE]
          /\ UNCHANGED <<data, diskVars>>
    BY <1>3 DEF BgetRecycle, Victims, Takes
  <2>2. b \notin ToSet(queue)
    BY <2>1, InQueue
  <2>3. DriveInv'
    BY <1>0, <1>1, <2>1, <2>2 DEF DriveInv
  <2>4. \A c \in Buf : ValidOnDisk(c)'
    BY <1>0, <2>1 DEF ValidOnDisk, OnDisk
  <2> QED
    BY <2>3, <2>4
<1>4. ASSUME NEW u \in Use, Bwrite(u)
      PROVE  DriveInv' /\ \A b \in Buf : ValidOnDisk(b)'
  <2>1. held[u] \in Buf /\ held[u] \notin ToSet(queue)
    BY <1>4, Owner, InQueue DEF Bwrite, Using
  <2>2. /\ \A c \in Buf : c # held[u] => data'[c] = data[c]
        /\ dirty' = [dirty EXCEPT ![held[u]] = TRUE]
        /\ UNCHANGED <<sector, valid, diskVars>>
    BY <1>0, <1>4 DEF Bwrite
  <2>3. DriveInv'
    BY <1>0, <1>1, <2>1, <2>2 DEF DriveInv
  <2>4. \A c \in Buf : ValidOnDisk(c)'
    BY <1>0, <2>1, <2>2 DEF ValidOnDisk, OnDisk
  <2> QED
    BY <2>3, <2>4
<1>5. ASSUME NEW u \in Use, Iderw(u)
      PROVE  DriveInv' /\ \A b \in Buf : ValidOnDisk(b)'
  <2>1. /\ held[u] \in Buf /\ sector[held[u]] \in Block
        /\ held[u] \notin ToSet(queue)
    BY <1>5, Owner, InQueue DEF Iderw, Using
  <2>2. /\ queue' = Append(queue, held[u])
        /\ Head(queue') = IF queue = <<>> THEN held[u] ELSE Head(queue)
        /\ UNCHANGED <<bufVars, disk>>
    BY <1>0, <1>5, <2>1, Enqueue DEF Iderw
  <2>3. CASE queue = <<>>
    <3>1. DriveReady /\ Idestart(held[u])
      BY <1>5, <2>3 DEF Iderw
    <3>2. DriveInv'
      BY <1>0, <2>1, <2>2, <2>3, <3>1 DEF DriveInv, Idestart
    <3>3. \A c \in Buf : ValidOnDisk(c)'
      BY <1>0, <2>1, <2>2, <3>1, OtherSector DEF ValidOnDisk, OnDisk, Idestart, DriveReady
    <3> QED
      BY <3>2, <3>3
  <2>4. CASE queue # <<>>
    <3>1. UNCHANGED drive
      BY <1>5, <2>4 DEF Iderw
    <3> QED
      BY <2>2, <2>4, <3>1 DEF DriveInv, ValidOnDisk, OnDisk
  <2> QED
    BY <2>3, <2>4
<1>6. CASE Ideintr
  <2> DEFINE b == Head(queue)
             h == Head(Tail(queue))
  <2>1. /\ queue # <<>> /\ b \in Buf /\ sector[b] \in Block
        /\ queue' = Tail(queue)
        /\ Tail(queue) # <<>> => h \in Buf /\ h # b /\ sector[h] \in Block
    BY <1>0, <1>6, Dequeue, InQueue DEF Ideintr
  <2>2. /\ ~ dirty[b] \/ Tail(queue) # <<>> => DriveReady
        /\ data' = IF ~ dirty[b] /\ drive.op # "error"
                   THEN [data EXCEPT ![b] = drive.data] ELSE data
        /\ valid' = [valid EXCEPT ![b] = TRUE]
        /\ dirty' = [dirty EXCEPT ![b] = FALSE]
        /\ IF Tail(queue) # <<>> THEN Idestart(h) ELSE UNCHANGED drive
        /\ UNCHANGED <<sector, disk>>
    BY <1>6 DEF Ideintr
  <2>3. /\ drive.sector = sector[b]
        /\ dirty[b] =>
             /\ drive.op \in {"write", "idle"}
             /\ drive.data = data[b]
             /\ drive.op = "idle" => disk[sector[b]] = data[b]
        /\ ~ dirty[b] =>
             /\ drive.op \in {"read", "ready"}
             /\ drive.op = "ready" => drive.data = disk[sector[b]]
    BY <2>1 DEF DriveInv
  <2> HIDE DEF b, h
  <2>4. data'[b] = OnDisk(sector[b]) /\ \A c \in Buf : c # b => data'[c] = data[c]
    BY <1>0, <2>1, <2>2, <2>3 DEF OnDisk, DriveReady
  <2>5. \A c \in Buf : ValidOnDisk(c)'
    <3> SUFFICES ASSUME NEW c \in Buf, valid'[c], ~ dirty'[c]
                 PROVE  data'[c] = OnDisk(sector[c])'
      BY <2>2 DEF ValidOnDisk
    <3>1. data'[c] = OnDisk(sector[c])
      BY <1>0, <2>1, <2>2, <2>4 DEF ValidOnDisk
    <3>2. CASE Tail(queue) = <<>>
      BY <2>2, <3>1, <3>2 DEF OnDisk
    <3>3. CASE Tail(queue) # <<>>
      <4>1. DriveReady /\ Idestart(h) /\ sector' = sector /\ disk' = disk
        BY <2>2, <3>3
      <4>2. dirty[h] => sector[c] # sector[h]
        BY <1>0, <2>1, <2>2, <3>3, OtherSector
      <4> QED
        BY <3>1, <4>1, <4>2 DEF OnDisk, Idestart, DriveReady
    <3> QED
      BY <3>2, <3>3
  <2>6. DriveInv'
    <3> SUFFICES ASSUME queue' # <<>> PROVE DriveInv'
      BY DEF DriveInv
    <3>1. Idestart(h) /\ Head(queue') = h
      BY <2>1, <2>2 DEF h
    <3>2. dirty'[h] = dirty[h] /\ data'[h] = data[h] /\ sector' = sector
      BY <1>0, <2>1, <2>2, <2>4
    <3> QED
      BY <1>0, <3>1, <3>2 DEF DriveInv, Idestart
  <2> QED
    BY <2>5, <2>6
<1>7. CASE DriveDone
  <2>1. UNCHANGED <<bufVars, queue>>
    BY <1>7 DEF DriveDone
  <2>2. \A k \in Block : OnDisk(k)' = OnDisk(k)
    BY <1>0, <1>7 DEF DriveDone, OnDisk
  <2>3. \A b \in Buf : ValidOnDisk(b)'
    BY <1>0, <2>1, <2>2 DEF ValidOnDisk, BufInv
  <2>4. DriveInv'
    <3> SUFFICES ASSUME queue # <<>> PROVE DriveInv'
      BY <2>1 DEF DriveInv
    <3>1. Head(queue) \in Buf /\ sector[Head(queue)] \in Block
      BY <1>1, InQueue
    <3>2. PICK h \in Buf : h = Head(queue)
      BY <3>1
    <3>3. /\ drive.sector = sector[h]
          /\ dirty[h] => /\ drive.op \in {"write", "idle"} /\ drive.data = data[h]
                         /\ drive.op = "idle" => disk[sector[h]] = data[h]
          /\ ~ dirty[h] => /\ drive.op \in {"read", "ready"}
                           /\ drive.op = "ready" => drive.data = disk[sector[h]]
      BY <1>0, <3>2 DEF DriveInv
    <3>4. Head(queue') = h /\ UNCHANGED <<sector, dirty, data>>
      BY <2>1, <3>2 DEF bufVars
    <3>5. /\ drive'.sector = sector[h]
          /\ dirty[h] => /\ drive'.op \in {"write", "idle"} /\ drive'.data = data[h]
                         /\ drive'.op = "idle" => disk'[sector[h]] = data[h]
          /\ ~ dirty[h] => /\ drive'.op \in {"read", "ready"}
                           /\ drive'.op = "ready" => drive'.data = disk'[sector[h]]
      BY <1>0, <1>7, <3>1, <3>2, <3>3 DEF DriveDone
    <3> QED
      BY <3>4, <3>5 DEF DriveInv
  <2> QED
    BY <2>3, <2>4
<1> QED
  BY <1>2, <1>3, <1>4, <1>5, <1>6, <1>7
     DEF Next, ProcNext, DiskNext, Call, BgetHit, Takes, BgetBusy, BgetPanics, Panic, Bread,
         Brelse, IderwWakes, IdeintrIgnored, SpuriousInterrupt, vars

LEMMA InitData == ASSUME Init PROVE DriveInv /\ \A b \in Buf : ValidOnDisk(b)
  BY DEF Init, DriveInv, ValidOnDisk

\* With a drive that does not fail, a buffer that claims to hold a block holds what is on
\* the disk or on its way there, through eviction, the queue and interrupts that come
\* when nothing was done; so whoever gets a block gets what was last written to it (bget,
\* bwrite, iderw, ideintr).
THEOREM CacheCorrect == ASSUME DriveFails = FALSE PROVE Spec => []CacheExact
<1> DEFINE Data == DriveInv /\ \A b \in Buf : ValidOnDisk(b)
<1>1. Init => Data
  BY InitData
<1>2. CacheInv /\ Data /\ [Next]_vars => Data'
  BY DataStep
<1>3. CacheInv /\ Data => CacheExact
  <2> SUFFICES ASSUME CacheInv, Data PROVE ValidIsDisk
    BY DEF CacheInv, CacheExact
  <2>1. \A u \in Use : pc[u] = "hold" => valid[held[u]] /\ ~ dirty[held[u]]
    BY DEF CacheInv, ProcInv
  <2> QED
    BY <2>1 DEF ValidIsDisk, ValidOnDisk
<1> HIDE DEF Data
<1> QED
  BY <1>1, <1>2, <1>3, AlwaysCacheInv, PTL DEF Spec

-----------------------------------------------------------------------------
(* Enough buffers *)

\* A use is a process' first or its second.
LEMMA Uses ==
  /\ \A p \in Proc : /\ First(p) \in Use /\ Second(p) \in Use
                     /\ First(p)[1] = p /\ Second(p)[1] = p
  /\ \A p, q \in Proc : First(p) # Second(q)
  /\ \A u \in Use : u[1] \in Proc /\ (u = First(u[1]) \/ u = Second(u[1]))
  BY DEF First, Second, Use

Nested == {p \in Proc : pc[Second(p)] # "user"}

NestInv ==
  \A p \in Proc : pc[Second(p)] # "user" =>
    pc[First(p)] = "hold" /\ want[First(p)] \in Indirect

\* Only bread() makes a use begin, and a process stays with its first block while it uses
\* a second one.
LEMMA PlaceStep ==
  ASSUME CacheInv, NestInv, [Next]_vars, \A u \in Use : ~ Call(u)
  PROVE  /\ \A r \in Use : pc'[r] # "user" => pc[r] # "user"
         /\ NestInv'
<1>1. /\ pc \in [Use -> {"user", "bget", "bgetsleep", "got", "iderw", "iosleep", "iowake", "hold"}]
      /\ want \in [Use -> Block \cup {NoBlock}]
      /\ NoProc \notin Use
  BY BufferCacheAssumption DEF CacheInv, TypeOK
<1>2. ASSUME NEW u \in Use, Bwrite(u) \/ Brelse(u) \/ ProcNext(u)
      PROVE  /\ \A r \in Use : pc'[r] # "user" => pc[r] # "user"
             /\ pc[u] = "hold" => Innermost(u)
             /\ \A r \in Use : r # u /\ pc[r] = "hold" => pc'[r] = "hold" /\ want'[r] = want[r]
  BY <1>1, <1>2
     DEF Bwrite, Brelse, ProcNext, BgetHit, BgetRecycle, Takes, BgetBusy, BgetPanics, Panic,
         procVars, Bread, Iderw, IderwWakes, Goto, GoWaking
<1>3. CASE DiskNext \/ SpuriousInterrupt \/ UNCHANGED vars
  <2>1. \A r \in Use : /\ pc'[r] # "user" => pc[r] # "user"
                       /\ pc[r] = "hold" => pc'[r] = "hold"
                       /\ want'[r] = want[r]
    BY <1>1, <1>3 DEF DiskNext, Ideintr, GoWaking, IdeintrIgnored, DriveDone, SpuriousInterrupt,
                      procVars, vars
  <2> QED
    BY <2>1, Uses DEF NestInv
<1>4. ASSUME NEW u \in Use, Bwrite(u) \/ Brelse(u) \/ ProcNext(u) PROVE NestInv'
  <2> SUFFICES ASSUME NEW p \in Proc, pc'[Second(p)] # "user"
               PROVE  pc'[First(p)] = "hold" /\ want'[First(p)] \in Indirect
    BY DEF NestInv
  <2>1. pc[Second(p)] # "user" /\ pc[First(p)] = "hold" /\ want[First(p)] \in Indirect
    BY <1>2, <1>4, Uses DEF NestInv
  <2>2. u # First(p)
    BY <1>2, <1>4, <2>1, Uses DEF Innermost
  <2> QED
    BY <1>2, <1>4, <2>1, <2>2, Uses
<1> QED
  BY <1>2, <1>3, <1>4 DEF Next

LEMMA UsersStep == ASSUME CacheInv, UsersInv, [Next]_vars PROVE UsersInv'
<1>1. pc \in [Use -> {"user", "bget", "bgetsleep", "got", "iderw", "iosleep", "iowake", "hold"}]
  BY DEF CacheInv, TypeOK
<1>2. /\ IsFiniteSet(Active) /\ Cardinality(Active) \in Nat /\ Users \in Nat
      /\ Cardinality(Active) <= Users /\ NestInv
  BY BufferCacheAssumption, FS_Subset, FS_CardinalityType DEF Active, UsersInv, NestInv
<1>3. ASSUME NEW u \in Use, Call(u) PROVE UsersInv'
  <2>1. /\ pc' = [pc EXCEPT ![u] = "bget"]
        /\ pc[u] = "user"
    BY <1>3 DEF Call, Goto
  <2>2. CASE /\ u = First(u[1]) /\ Cardinality(Active) < Users
             /\ \E k \in Block : want' = [want EXCEPT ![u] = k]
    <3>1. Active' = Active \cup {u[1]} /\ u[1] \notin Active
      BY <1>1, <2>1, <2>2, Uses DEF Active
    <3>2. Cardinality(Active') <= Users
      <4> HIDE DEF Active
      <4> QED
        BY <1>2, <2>2, <3>1, FS_AddElement
    <3>3. NestInv'
      BY <1>1, <1>2, <2>1, <2>2, Uses DEF NestInv
    <3> QED
      BY <3>2, <3>3 DEF UsersInv, NestInv
  <2>3. CASE /\ u = Second(u[1])
             /\ pc[First(u[1])] = "hold" /\ want[First(u[1])] \in Indirect
             /\ \E k \in Block \ Indirect : want' = [want EXCEPT ![u] = k]
    <3>1. \A p \in Proc : pc'[First(p)] = pc[First(p)] /\ want'[First(p)] = want[First(p)]
      BY <1>1, <2>1, <2>3, Uses
    <3>2. Active' = Active
      BY <3>1 DEF Active
    <3>3. NestInv'
      BY <1>1, <1>2, <2>1, <2>3, <3>1, Uses DEF NestInv
    <3> QED
      BY <1>2, <3>2, <3>3 DEF UsersInv, NestInv
  <2> QED
    BY <1>3, <2>2, <2>3 DEF Call
<1>4. CASE \A u \in Use : ~ Call(u)
  <2>1. Active' \subseteq Active /\ NestInv'
    BY <1>2, <1>4, PlaceStep, Uses DEF Active
  <2>2. Cardinality(Active') <= Users
    <3> HIDE DEF Active
    <3>1. Cardinality(Active') <= Cardinality(Active) /\ Cardinality(Active') \in Nat
      BY <1>2, <2>1, FS_Subset, FS_CardinalityType
    <3> QED
      BY <1>2, <3>1
  <2> QED
    BY <2>1, <2>2 DEF UsersInv, NestInv
<1> QED
  BY <1>3, <1>4

\* Processes with an indirect block in their hands each have another one.
LEMMA NestedFew ==
  ASSUME CacheInv, UsersInv
  PROVE  /\ Nested \subseteq Active /\ IsFiniteSet(Nested)
         /\ Cardinality(Nested) \in Nat /\ Cardinality(Indirect) \in Nat
         /\ Cardinality(Nested) <= Cardinality(Indirect)
<1> DEFINE g == [p \in Nested |-> want[First(p)]]
<1>1. \A p \in Nested : Using(First(p)) /\ want[First(p)] \in Indirect /\ p \in Active
  BY DEF Nested, UsersInv, Using, Active
<1>2. IsFiniteSet(Nested) /\ IsFiniteSet(Indirect)
  BY BufferCacheAssumption, FS_Subset DEF Nested
<1>3. g \in Injection(Nested, Indirect)
  <2>1. ASSUME NEW p \in Nested, NEW q \in Nested, want[First(p)] = want[First(q)]
        PROVE  p = q
    <3>1. /\ First(p) \in Use /\ First(q) \in Use /\ First(p)[1] = p /\ First(q)[1] = q
      BY Uses DEF Nested
    <3>2. /\ held[First(p)] \in Buf /\ sector[held[First(p)]] = want[First(p)]
          /\ held[First(q)] \in Buf /\ sector[held[First(q)]] = want[First(q)]
          /\ want[First(p)] \in Block
          /\ held[First(q)] = held[First(p)] => First(q) = First(p)
      BY <1>1, <3>1, Owner
    <3>3. held[First(q)] = held[First(p)]
      BY <2>1, <3>2, BufferCacheAssumption DEF CacheInv, OneBufferPerBlock
    <3> QED
      BY <3>1, <3>2, <3>3
  <2>2. g \in [Nested -> Indirect]
    BY <1>1
  <2> QED
    BY <2>1, <2>2 DEF Injection, IsInjective
<1> HIDE DEF g
<1> QED
  BY <1>1, <1>2, <1>3, FS_Injection, FS_CardinalityType

\* bget() finds a buffer that nobody uses when there are as many as the users of the disk
\* can need.
LEMMA FreeBuffer ==
  ASSUME CacheInv, UsersInv, Needed <= Cardinality(Buf), NEW u \in Use, pc[u] = "bget"
  PROVE  \E b \in Buf : ~ busy[b]
<1> SUFFICES ASSUME \A b \in Buf : busy[b] PROVE FALSE
  OBVIOUS
<1> DEFINE A == {First(p) : p \in Active}
           B == {Second(p) : p \in Nested}
           S == (A \cup B) \ {u}
           f == [b \in Buf |-> CHOOSE r \in Use : Using(r) /\ held[r] = b]
<1>1. \A b \in Buf : f[b] \in Use /\ Using(f[b]) /\ held[f[b]] = b
  BY DEF CacheInv, BusyExact
<1>2. \A r \in Use : pc[r] # "user" => r \in A \cup B
  BY Uses DEF Active, Nested
<1>3. f \in Injection(Buf, S)
  <2>1. f \in [Buf -> S]
    <3>1. \A b \in Buf : f[b] \in S
      BY <1>1, <1>2 DEF Using
    <3> QED
      BY <3>1
  <2>2. IsInjective(f)
    BY <1>1 DEF IsInjective
  <2> QED
    BY <2>1, <2>2 DEF Injection
<1>4. /\ IsFiniteSet(Active) /\ Cardinality(Active) \in Nat
      /\ Cardinality(Active) <= Users /\ Users \in Nat
  BY BufferCacheAssumption, FS_Subset, FS_CardinalityType DEF Active, UsersInv
<1>5. /\ IsFiniteSet(Nested) /\ Cardinality(Nested) \in Nat /\ Cardinality(Indirect) \in Nat
      /\ Cardinality(Nested) <= Cardinality(Indirect)
      /\ Cardinality(Nested) <= Cardinality(Active)
  BY <1>4, NestedFew, FS_Subset
<1>6. Cardinality(Active) + Cardinality(Nested) <= Needed /\ Needed \in Nat
  BY <1>4, <1>5 DEF Needed
<1>7. IsFiniteSet(A) /\ Cardinality(A) \in Nat /\ Cardinality(A) <= Cardinality(Active)
  <2> DEFINE g == [x \in A |-> x[1]]
  <2>1. g \in Injection(A, Active)
    BY Uses DEF Active, Injection, IsInjective
  <2> HIDE DEF g, A, Active
  <2> QED
    BY <1>4, <2>1, FS_Injection, FS_CardinalityType
<1>8. IsFiniteSet(B) /\ Cardinality(B) \in Nat /\ Cardinality(B) <= Cardinality(Nested)
  <2> DEFINE g == [x \in B |-> x[1]]
  <2>1. g \in Injection(B, Nested)
    BY Uses DEF Nested, Injection, IsInjective
  <2> HIDE DEF g, B, Nested
  <2> QED
    BY <1>5, <2>1, FS_Injection, FS_CardinalityType
<1>9. u \in A \cup B
  BY <1>2
<1> HIDE DEF f, A, B
<1>10. /\ IsFiniteSet(A \cup B) /\ Cardinality(A \cup B) \in Nat
       /\ Cardinality(A \cup B) <= Cardinality(A) + Cardinality(B)
  <2>1. Cardinality(A \cap B) \in Nat
    BY <1>7, FS_Intersection, FS_CardinalityType
  <2>2. /\ IsFiniteSet(A \cup B) /\ Cardinality(A \cup B) \in Nat
        /\ Cardinality(A \cup B) = Cardinality(A) + Cardinality(B) - Cardinality(A \cap B)
    BY <1>7, <1>8, FS_Union, FS_CardinalityType
  <2> QED
    BY <1>7, <1>8, <2>1, <2>2
<1>11. IsFiniteSet(S) /\ Cardinality(S) = Cardinality(A \cup B) - 1
  BY <1>9, <1>10, FS_RemoveElement
<1> HIDE DEF S
<1>12. Cardinality(Buf) <= Cardinality(S) /\ Cardinality(Buf) \in Nat
  BY <1>3, <1>11, FS_Injection, BufferCacheAssumption, FS_CardinalityType
<1> QED
  BY <1>4, <1>5, <1>6, <1>7, <1>8, <1>10, <1>11, <1>12

LEMMA Greatest ==
  ASSUME NEW n \in Nat, NEW S \in SUBSET (1 .. n), S # {}
  PROVE  \E i \in S : \A j \in S : j <= i
<1>0. n \in Int /\ S \subseteq Int /\ \A i \in S : n - i \in Nat
  OBVIOUS
<1> DEFINE T == {n - i : i \in S}
<1>1. T \subseteq Nat /\ T # {}
  BY <1>0
<1>2. PICK x \in T : \A y \in T : ~ (<<y, x>> \in OpToRel(<, Nat))
  <2> HIDE DEF T
  <2> QED
    BY <1>1, NatLessThanWellFounded, WFMin
<1>3. \A y \in T : ~ (y < x)
  BY <1>1, <1>2 DEF OpToRel
<1>4. PICK i \in S : x = n - i
  BY <1>2
<1>5. \A j \in S : j <= i
  <2> TAKE j \in S
  <2>1. n - j \in T /\ ~ (n - j < n - i)
    BY <1>3, <1>4
  <2>2. i \in Int /\ j \in Int /\ n \in Int
    BY <1>0
  <2> QED
    BY <2>1, <2>2
<1> QED
  BY <1>5

LEMMA VictimExists ==
  ASSUME TypeOK, NEW b \in Buf, ~ busy[b]
  PROVE  Victims # {}
<1> DEFINE n == Len(lru)
           S == {i \in 1 .. n : ~ busy[lru[i]]}
<1>1. /\ n \in Nat /\ DOMAIN lru = 1 .. n
      /\ \A i \in 1 .. n : lru[i] \in Buf
      /\ \A i, j \in 1 .. n : lru[i] = lru[j] => i = j
      /\ \E i \in 1 .. n : lru[i] = b
  BY ElementOfSeq DEF TypeOK, ToSet, IsInjective
<1>2. S # {} /\ S \in SUBSET (1 .. n)
  BY <1>1
<1> HIDE DEF n, S
<1>3. PICK i \in S : \A j \in S : j <= i
  BY <1>1, <1>2, Greatest
<1>4. i \in 1 .. n /\ ~ busy[lru[i]] /\ \A j \in 1 .. n : i < j => busy[lru[j]]
  BY <1>1, <1>3 DEF S
<1>5. lru[i] \in Victims
  BY <1>1, <1>4 DEF Victims, n
<1> QED
  BY <1>5

\* With a buffer for every process that uses the disk at one time, and another for each of
\* them that may have an indirect block in its hands meanwhile (bmap, itrunc), bget() never
\* panics for want of a buffer, though every process may sleep in it or hold one.
THEOREM BuffersSuffice ==
  ASSUME Needed <= Cardinality(Buf) PROVE Spec => []NoPanic
<1>1. Init => UsersInv /\ NoPanic
  <2> SUFFICES ASSUME Init PROVE UsersInv /\ NoPanic
    OBVIOUS
  <2>1. Active = {} /\ \A p \in Proc : pc[Second(p)] = "user"
    BY Uses DEF Init, Active
  <2>2. Cardinality({}) = 0 /\ Users \in Nat
    BY FS_EmptySet, BufferCacheAssumption
  <2>3. UsersInv
    <3>1. 0 <= Users
      BY <2>2
    <3> QED
      BY <2>1, <2>2, <3>1 DEF UsersInv
  <2> QED
    BY <2>3 DEF Init, NoPanic
<1>2. CacheInv /\ UsersInv /\ NoPanic /\ [Next]_vars => UsersInv' /\ NoPanic'
  <2> SUFFICES ASSUME CacheInv, UsersInv, NoPanic, [Next]_vars PROVE UsersInv' /\ NoPanic'
    OBVIOUS
  <2>1. ASSUME NEW u \in Use, BgetPanics(u) PROVE FALSE
    BY <2>1, FreeBuffer, VictimExists DEF BgetPanics, CacheInv
  <2>2. UNCHANGED panicked
    BY <2>1 DEF Next, Call, Bwrite, Brelse, ProcNext, BgetHit, BgetRecycle, BgetBusy, Bread,
                Iderw, IderwWakes, DiskNext, Ideintr, IdeintrIgnored, DriveDone,
                SpuriousInterrupt, vars
  <2> QED
    BY <2>2, UsersStep DEF NoPanic
<1> QED
  BY <1>1, <1>2, AlwaysCacheInv, PTL DEF Spec

-----------------------------------------------------------------------------
(* The cache is a BlockStore *)

DataInv == CacheInv /\ DriveInv /\ \A b \in Buf : ValidOnDisk(b)

\* What a block holds: the data of its buffer if that is dirty, or else what is on disk.
ContentDef ==
  /\ \A b \in Buf : dirty[b] => contentBar[sector[b]] = data[b]
  /\ \A k \in Block : (\A b \in Buf : sector[b] = k => ~ dirty[b])
                        => contentBar[k] = OnDisk(k)

LEMMA ContentIs == DataInv => ContentDef
<1> SUFFICES ASSUME DataInv PROVE ContentDef
  OBVIOUS
<1>1. \A b \in Buf : dirty[b] => sector[b] \in Block
  BY DEF DataInv, CacheInv, BufInv
<1>2. \A b, c \in Buf : sector[b] \in Block /\ sector[c] = sector[b] => c = b
  BY OtherSector DEF DataInv
<1>3. ASSUME NEW b \in Buf, dirty[b] PROVE contentBar[sector[b]] = data[b]
  BY <1>1, <1>2, <1>3 DEF contentBar
<1>4. ASSUME NEW k \in Block, \A b \in Buf : sector[b] = k => ~ dirty[b]
      PROVE  contentBar[k] = OnDisk(k)
  BY <1>4 DEF contentBar, DataInv, ValidOnDisk
<1> QED
  BY <1>3, <1>4 DEF ContentDef

LEMMA ContentIsNext == DataInv' => ContentDef'
  BY ContentIs, PTL

\* The holder of a block is the process that uses its buffer.
HolderDef ==
  /\ \A u \in Use : Using(u) => holderBar[want[u]] = u[1]
  /\ \A u, q \in Use : Using(u) /\ Using(q) /\ want[q] = want[u] => q = u
  /\ \A k \in Block : (\A u \in Use : Using(u) => want[u] # k) => holderBar[k] = NoProc

LEMMA HolderIs == CacheInv => HolderDef
<1> SUFFICES ASSUME CacheInv PROVE HolderDef
  OBVIOUS
<1>1. ASSUME NEW u \in Use, Using(u), NEW q \in Use, Using(q), want[q] = want[u]
      PROVE  q = u
  <2>1. /\ held[u] \in Buf /\ held[q] \in Buf
        /\ sector[held[u]] = want[u] /\ sector[held[q]] = want[u] /\ want[u] \in Block
        /\ (held[q] = held[u] => q = u)
    BY <1>1, Owner
  <2> QED
    BY <2>1, OtherSector
<1>2. \A u \in Use : Using(u) => want[u] \in Block
  BY Owner
<1> QED
  BY <1>1, <1>2 DEF HolderDef, holderBar

LEMMA HolderIsNext == CacheInv' => HolderDef'
  BY HolderIs, PTL

\* Nothing but bwrite() changes what a block holds.
LEMMA ContentStep ==
  ASSUME DriveFails = FALSE, DataInv, DataInv', [Next]_vars, \A u \in Use : ~ Bwrite(u)
  PROVE  contentBar' = contentBar
<1> USE DEF bufVars, diskVars
<1>1. /\ dirty \in [Buf -> BOOLEAN] /\ queue \in Seq(Buf) /\ IsInjective(queue)
      /\ sector \in [Buf -> Block \cup {NoBlock}]
      /\ disk \in [Block -> Val]
      /\ drive \in [op : {"idle", "read", "write", "ready", "error"}, sector : Block, data : Val]
      /\ \A b \in Buf : dirty[b] => sector[b] \in Block
      /\ \A b \in Buf : BufInv(b)
  BY DEF DataInv, CacheInv, TypeOK, BufInv
<1>2. ContentDef /\ ContentDef'
  BY ContentIs, ContentIsNext
<1>3. ASSUME \A k \in Block : contentBar'[k] = contentBar[k]
      PROVE  contentBar' = contentBar
  <2>1. /\ contentBar = [k \in Block |-> contentBar[k]]
        /\ contentBar' = [k \in Block |-> contentBar'[k]]
    BY DEF contentBar
  <2> QED
    BY <1>3, <2>1
\* Steps that leave alone what is dirty, where no other block changes on the disk.
<1>4. ASSUME /\ dirty' = dirty
             /\ \A b \in Buf : dirty[b] => data'[b] = data[b] /\ sector'[b] = sector[b]
             /\ \A k \in Block : \/ OnDisk(k)' = OnDisk(k)
                                 \/ \E b \in Buf : dirty[b] /\ sector[b] = k
      PROVE  contentBar' = contentBar
  <2> SUFFICES ASSUME NEW k \in Block PROVE contentBar'[k] = contentBar[k]
    BY <1>3
  <2>1. CASE \E b \in Buf : dirty[b] /\ sector[b] = k
    BY <1>2, <1>4, <2>1 DEF ContentDef
  <2>2. CASE ~ \E b \in Buf : dirty[b] /\ sector[b] = k
    <3>1. \A b \in Buf : sector'[b] = k => ~ dirty'[b]
      BY <1>4, <2>2
    <3> QED
      BY <1>2, <1>4, <2>2, <3>1 DEF ContentDef
  <2> QED
    BY <2>1, <2>2
<1>5. CASE UNCHANGED <<sector, dirty, data, drive, disk>>
  BY <1>4, <1>5 DEF OnDisk
<1>6. ASSUME NEW u \in Use, BgetRecycle(u) PROVE contentBar' = contentBar
  <2>1. PICK b \in Buf :
          /\ ~ dirty[b]
          /\ sector' = [sector EXCEPT ![b] = want[u]]
          /\ dirty' = [dirty EXCEPT ![b] = FALSE]
          /\ UNCHANGED <<data, diskVars>>
    BY <1>1, <1>6 DEF BgetRecycle, Victims, Takes, BufInv
  <2>2. dirty' = dirty /\ \A c \in Buf : dirty[c] => sector'[c] = sector[c]
    BY <1>1, <2>1
  <2> QED
    BY <1>4, <2>1, <2>2 DEF OnDisk
\* The drive is started for b: only what b will change can differ.
<1>7. ASSUME NEW b \in Buf, sector[b] \in Block, DriveReady, Idestart(b), disk' = disk,
             NEW k \in Block, ~ dirty[b] \/ sector[b] # k
      PROVE  OnDisk(k)' = OnDisk(k)
  BY <1>1, <1>7 DEF OnDisk, DriveReady, Idestart
<1>8. ASSUME NEW u \in Use, Iderw(u) PROVE contentBar' = contentBar
  <2>1. held[u] \in Buf /\ sector[held[u]] \in Block
    BY <1>8, Owner DEF DataInv, Iderw, Using
  <2>2. /\ UNCHANGED <<sector, dirty, data, disk>>
        /\ UNCHANGED drive \/ (DriveReady /\ Idestart(held[u]))
    BY <1>8 DEF Iderw
  <2>3. CASE UNCHANGED drive
    BY <1>5, <2>2, <2>3
  <2>4. CASE DriveReady /\ Idestart(held[u])
    BY <1>4, <1>7, <2>1, <2>2, <2>4
  <2> QED
    BY <2>2, <2>3, <2>4
<1>9. CASE DriveDone
  <2>1. \A k \in Block : OnDisk(k)' = OnDisk(k)
    BY <1>1, <1>9 DEF DriveDone, OnDisk
  <2>2. UNCHANGED <<sector, dirty, data>>
    BY <1>9 DEF DriveDone
  <2> QED
    BY <1>4, <2>1, <2>2
<1>10. CASE Ideintr
  <2> DEFINE h == Head(Tail(queue))
  <2>1. PICK b \in Buf :
          /\ b = Head(queue) /\ sector[b] \in Block
          /\ Tail(queue) # <<>> => h \in Buf /\ h # b /\ sector[h] \in Block
    BY <1>1, <1>10, Dequeue, InQueue DEF Ideintr, DataInv
  <2>2. /\ data' = IF ~ dirty[b] /\ drive.op # "error"
                   THEN [data EXCEPT ![b] = drive.data] ELSE data
        /\ valid' = [valid EXCEPT ![b] = TRUE]
        /\ dirty' = [dirty EXCEPT ![b] = FALSE]
        /\ \/ UNCHANGED drive
           \/ Tail(queue) # <<>> /\ DriveReady /\ Idestart(h)
        /\ UNCHANGED <<sector, disk>>
    BY <1>10, <2>1 DEF Ideintr
  <2>3. \A k \in Block : \/ OnDisk(k)' = OnDisk(k)
                         \/ h \in Buf /\ h # b /\ dirty[h] /\ sector[h] = k
    <3>1. CASE UNCHANGED drive
      BY <2>2, <3>1 DEF OnDisk
    <3>2. CASE Tail(queue) # <<>> /\ DriveReady /\ Idestart(h)
      BY <1>7, <2>1, <2>2, <3>2
    <3> QED
      BY <2>2, <3>1, <3>2
  <2>4. \A c \in Buf : c # b => sector[c] # sector[b]
    BY <2>1, OtherSector DEF DataInv
  <2>5. valid' \in [Buf -> BOOLEAN] /\ valid'[b]
    BY <2>1, <2>2 DEF DataInv, CacheInv, TypeOK
  <2> HIDE DEF h
  <2>6. CASE ~ dirty[b]
    <3>1. dirty' = dirty /\ \A c \in Buf : dirty[c] => data'[c] = data[c]
      BY <1>1, <2>1, <2>2, <2>6 DEF DataInv, CacheInv, TypeOK
    <3> QED
      BY <1>4, <2>2, <2>3, <3>1
  <2>7. CASE dirty[b]
    <3> SUFFICES ASSUME NEW k \in Block PROVE contentBar'[k] = contentBar[k]
      BY <1>3
    <3>1. /\ data' = data /\ sector' = sector
          /\ \A c \in Buf : dirty'[c] <=> dirty[c] /\ c # b
      BY <1>1, <2>1, <2>2, <2>7
    <3>2. CASE k = sector[b]
      <4>1. contentBar[k] = data[b]
        BY <1>2, <2>1, <2>7, <3>2 DEF ContentDef
      <4>2. \A c \in Buf : sector'[c] = k => ~ dirty'[c]
        BY <2>4, <3>1, <3>2
      <4>3. contentBar'[k] = OnDisk(k)'
        BY <1>2, <4>2 DEF ContentDef
      <4>4. data'[b] = OnDisk(sector[b])'
        BY <2>1, <2>5, <3>1 DEF DataInv, ValidOnDisk
      <4>5. OnDisk(sector[b])' = OnDisk(k)'
        BY <3>1, <3>2 DEF OnDisk
      <4> QED
        BY <3>1, <4>1, <4>3, <4>4, <4>5
    <3>3. CASE k # sector[b] /\ \E c \in Buf : dirty[c] /\ sector[c] = k
      BY <1>2, <3>1, <3>3 DEF ContentDef
    <3>4. CASE k # sector[b] /\ ~ \E c \in Buf : dirty[c] /\ sector[c] = k
      <4>1. contentBar[k] = OnDisk(k)
        BY <1>2, <3>4 DEF ContentDef
      <4>2. contentBar'[k] = OnDisk(k)'
        BY <1>2, <3>1, <3>4 DEF ContentDef
      <4> QED
        BY <2>3, <3>4, <4>1, <4>2
    <3> QED
      BY <3>2, <3>3, <3>4
  <2> QED
    BY <2>6, <2>7
<1> QED
  BY <1>5, <1>6, <1>8, <1>9, <1>10
     DEF Next, ProcNext, DiskNext, Call, BgetHit, Takes, BgetBusy, BgetPanics, Panic, Bread,
         Brelse, IderwWakes, IdeintrIgnored, SpuriousInterrupt, vars

\* Nothing but bget() and brelse() changes who holds a block.
LEMMA HolderStep ==
  ASSUME CacheInv, CacheInv',
         \A u \in Use : Using(u)' <=> Using(u), \A u \in Use : Using(u) => want'[u] = want[u]
  PROVE  holderBar' = holderBar
<1>1. HolderDef /\ HolderDef'
  BY HolderIs, HolderIsNext
<1>2. \A k \in Block : holderBar'[k] = holderBar[k]
  BY <1>1 DEF HolderDef
<1>3. /\ holderBar = [k \in Block |-> holderBar[k]]
      /\ holderBar' = [k \in Block |-> holderBar'[k]]
  BY DEF holderBar
<1> QED
  BY <1>2, <1>3

LEMMA StoreStep ==
  ASSUME DriveFails = FALSE, DataInv, DataInv', [Next]_vars
  PROVE  Store!Next \/ UNCHANGED <<contentBar, holderBar>>
<1>1. /\ CacheInv /\ CacheInv'
      /\ pc \in [Use -> {"user", "bget", "bgetsleep", "got", "iderw", "iosleep", "iowake", "hold"}]
      /\ want \in [Use -> Block \cup {NoBlock}]
      /\ NoProc \notin Use /\ NoBlock \notin Block
  BY BufferCacheAssumption DEF DataInv, CacheInv, TypeOK
<1>2. HolderDef /\ HolderDef' /\ ContentDef /\ ContentDef'
  BY <1>1, HolderIs, HolderIsNext, ContentIs, ContentIsNext
<1>3. /\ holderBar = [k \in Block |-> holderBar[k]]
      /\ holderBar' = [k \in Block |-> holderBar'[k]]
      /\ contentBar = [k \in Block |-> contentBar[k]]
      /\ contentBar' = [k \in Block |-> contentBar'[k]]
  BY DEF holderBar, contentBar
<1>4. ASSUME NEW u \in Use, BgetHit(u) \/ BgetRecycle(u) PROVE Store!Next
  <2>1. /\ want[u] \in Block /\ ~ Using(u) /\ want' = want
        /\ pc' = [pc EXCEPT ![u] = "got"]
    BY <1>1, <1>4 DEF BgetHit, BgetRecycle, Takes, Goto, Using, CacheInv, ProcInv
  <2>2. \A q \in Use : Using(q)' <=> Using(q) \/ q = u
    BY <1>1, <2>1 DEF Using
  <2>3. \A q \in Use : Using(q) => want[q] # want[u]
    <3> SUFFICES ASSUME NEW q \in Use, Using(q), want[q] = want[u] PROVE FALSE
      OBVIOUS
    <3>1. Using(q)' /\ Using(u)' /\ want'[q] = want'[u]
      BY <2>1, <2>2
    <3>2. q = u
      BY <1>2, <3>1 DEF HolderDef
    <3> QED
      BY <2>1, <3>2
  <2>4. holderBar[want[u]] = NoProc /\ holderBar'[want[u]] = u[1]
    BY <1>2, <2>1, <2>2, <2>3 DEF HolderDef
  <2>5. \A k \in Block : k # want[u] => holderBar'[k] = holderBar[k]
    BY <1>2, <2>1, <2>2 DEF HolderDef
  <2>6. holderBar' = [holderBar EXCEPT ![want[u]] = u[1]]
    BY <1>3, <2>4, <2>5
  <2>7. contentBar' = contentBar
    <3>1. \A q \in Use : ~ Bwrite(q)
      <4> SUFFICES ASSUME NEW q \in Use, Bwrite(q) PROVE FALSE
        OBVIOUS
      <4>1. pc[u] = "bget" /\ pc[q] = "hold" /\ pc' = [pc EXCEPT ![q] = "iderw"]
        BY <1>4 DEF Bwrite, Goto, BgetHit, BgetRecycle
      <4> QED
        BY <1>1, <2>1, <4>1
    <3> QED
      BY <3>1, ContentStep
  <2>8. Store!Take(u[1], want[u])
    BY <2>4, <2>6, <2>7 DEF Store!Take
  <2> QED
    BY <2>1, <2>8, Uses DEF Store!Next
<1>5. ASSUME NEW u \in Use, Brelse(u) PROVE Store!Next
  <2>1. /\ want[u] \in Block /\ Using(u) /\ pc'[u] = "user"
        /\ \A q \in Use : q # u => want'[q] = want[q]
    BY <1>1, <1>5 DEF Brelse, GoWaking, Using, CacheInv, ProcInv
  <2>2. \A q \in Use : Using(q)' <=> Using(q) /\ q # u
    BY <1>1, <1>5, <2>1 DEF Using, Brelse, GoWaking
  <2>3. \A q \in Use : Using(q) /\ want[q] = want[u] => q = u
    BY <1>2, <2>1 DEF HolderDef
  <2>4. holderBar[want[u]] = u[1] /\ holderBar'[want[u]] = NoProc
    BY <1>2, <2>1, <2>2, <2>3 DEF HolderDef
  <2>5. \A k \in Block : k # want[u] => holderBar'[k] = holderBar[k]
    BY <1>2, <2>1, <2>2 DEF HolderDef
  <2>6. holderBar' = [holderBar EXCEPT ![want[u]] = NoProc]
    BY <1>3, <2>4, <2>5
  <2>7. contentBar' = contentBar
    <3>1. \A q \in Use : ~ Bwrite(q)
      <4> SUFFICES ASSUME NEW q \in Use, Bwrite(q) PROVE FALSE
        OBVIOUS
      <4>1. pc[u] = "hold" /\ pc' = [pc EXCEPT ![q] = "iderw"]
        BY <1>5 DEF Bwrite, Goto, Brelse
      <4> QED
        BY <1>1, <2>1, <4>1
    <3> QED
      BY <3>1, ContentStep
  <2>8. Store!Drop(u[1], want[u])
    BY <2>4, <2>6, <2>7 DEF Store!Drop
  <2> QED
    BY <2>1, <2>8, Uses DEF Store!Next
<1>6. ASSUME NEW u \in Use, Bwrite(u) PROVE Store!Next
  <2> DEFINE b == held[u]
  <2>1. /\ b \in Buf /\ sector[b] = want[u] /\ want[u] \in Block /\ Using(u)
    BY <1>1, <1>6, Owner DEF Bwrite, Using
  <2>2. PICK v \in Val : data' = [data EXCEPT ![b] = v]
    BY <1>6 DEF Bwrite
  <2>3. /\ dirty' = [dirty EXCEPT ![b] = TRUE]
        /\ pc' = [pc EXCEPT ![u] = "iderw"]
        /\ UNCHANGED <<sector, valid, drive, disk, want, held>>
    BY <1>6 DEF Bwrite, Goto, diskVars
  <2>4. data \in [Buf -> Val] /\ dirty \in [Buf -> BOOLEAN]
    BY <1>1 DEF CacheInv, TypeOK
  <2> HIDE DEF b
  <2>5. holderBar' = holderBar
    <3>1. \A q \in Use : Using(q)' <=> Using(q)
      BY <1>1, <1>6, <2>3 DEF Using, Bwrite
    <3> QED
      BY <1>1, <2>3, <3>1, HolderStep
  <2>6. holderBar[want[u]] = u[1]
    BY <1>2, <2>1 DEF HolderDef
  <2>7. contentBar'[want[u]] = v
    BY <1>2, <2>1, <2>2, <2>3, <2>4 DEF ContentDef
  <2>8. ASSUME NEW k \in Block, k # want[u] PROVE contentBar'[k] = contentBar[k]
    <3>1. OnDisk(k)' = OnDisk(k)
      BY <2>3 DEF OnDisk
    <3>2. CASE \E c \in Buf : dirty[c] /\ sector[c] = k
      BY <1>2, <2>1, <2>2, <2>3, <2>4, <2>8, <3>2 DEF ContentDef
    <3>3. CASE \A c \in Buf : sector[c] = k => ~ dirty[c]
      <4>1. \A c \in Buf : sector'[c] = k => ~ dirty'[c]
        BY <2>1, <2>3, <2>4, <2>8, <3>3
      <4>2. contentBar[k] = OnDisk(k)
        BY <1>2, <3>3 DEF ContentDef
      <4>3. contentBar'[k] = OnDisk(k)'
        BY <1>2, <4>1 DEF ContentDef
      <4> QED
        BY <3>1, <4>2, <4>3
    <3> QED
      BY <3>2, <3>3
  <2>9. contentBar' = [contentBar EXCEPT ![want[u]] = v]
    BY <1>3, <2>7, <2>8
  <2>10. Store!Write(u[1], want[u], v)
    BY <2>5, <2>6, <2>9 DEF Store!Write
  <2> QED
    BY <2>1, <2>10, Uses DEF Store!Next
<1>7. CASE \A u \in Use : ~ (BgetHit(u) \/ BgetRecycle(u)) /\ ~ Brelse(u) /\ ~ Bwrite(u)
  <2>1. contentBar' = contentBar
    BY <1>7, ContentStep
  <2>2. /\ \A u \in Use : Using(u)' <=> Using(u)
        /\ \A u \in Use : Using(u) => want'[u] = want[u]
    <3>1. ASSUME NEW u \in Use,
                 Call(u) \/ BgetBusy(u) \/ BgetPanics(u) \/ Bread(u) \/ Iderw(u) \/ IderwWakes(u)
          PROVE  /\ \A q \in Use : Using(q)' <=> Using(q)
                 /\ \A q \in Use : Using(q) => want'[q] = want[q]
      BY <1>1, <3>1 DEF Call, BgetBusy, BgetPanics, Panic, Bread, Iderw, IderwWakes, Goto,
                        procVars, Using
    <3>2. CASE DiskNext \/ SpuriousInterrupt \/ UNCHANGED vars
      BY <1>1, <3>2 DEF DiskNext, Ideintr, GoWaking, IdeintrIgnored, DriveDone,
                        SpuriousInterrupt, procVars, vars, Using
    <3> QED
      BY <1>7, <3>1, <3>2 DEF Next, ProcNext
  <2> QED
    BY <1>1, <2>1, <2>2, HolderStep
<1> QED
  BY <1>4, <1>5, <1>6, <1>7

\* With a drive that does not fail the cache is a store of blocks, each of which one process
\* at a time holds, reads and changes: neither buffers nor the queue nor the drive, its
\* interrupts and their order can be seen in it (bread, bwrite, brelse, iderw, ideintr).
THEOREM CacheIsBlockStore == ASSUME DriveFails = FALSE PROVE Spec => StoreSpec
<1>1. Init => DataInv
  BY InitCacheInv, InitData DEF DataInv
<1>2. DataInv /\ [Next]_vars => DataInv'
  BY NextCacheInv, DataStep DEF DataInv
<1>3. Init => Store!Init
  <2> SUFFICES ASSUME Init PROVE Store!Init
    OBVIOUS
  <2>1. /\ contentBar = [k \in Block |-> Zero]
    BY DEF Init, contentBar, OnDisk
  <2>2. holderBar = [k \in Block |-> NoProc]
    BY DEF Init, holderBar, Using
  <2> QED
    BY <2>1, <2>2 DEF Store!Init
<1>4. DataInv /\ DataInv' /\ [Next]_vars => [Store!Next]_(Store!storeVars)
  BY StoreStep DEF Store!storeVars
<1> QED
  BY <1>1, <1>2, <1>3, <1>4, PTL DEF Spec, StoreSpec, Store!Spec

-----------------------------------------------------------------------------
(* The blocks of files: FileBlocks, which uses the disk through the cache *)

CONSTANTS
  File, BSIZE, NDIRECT, NBLOCKS, Offset, WriteLen, MaxCrashes, Text

VARIABLES
  used, blocks, dinode, inode, state, op, halted, crashes

Fs == INSTANCE FileBlocks WITH data <- blocks, panicked <- halted

-----------------------------------------------------------------------------
(* Numbers and parameters *)

LEMMA Params ==
  ASSUME Fs!FileBlocksAssumption
  PROVE  /\ BSIZE \in Nat /\ BSIZE >= 1 /\ NDIRECT \in Nat /\ NBLOCKS \in Nat /\ MaxCrashes \in Nat
         /\ Fs!NINDIRECT = BSIZE /\ Fs!MAXFILE = NDIRECT + BSIZE /\ Fs!MAXFILE \in Nat /\ Fs!MAXFILE >= 1
         /\ Offset \subseteq Nat /\ WriteLen \subseteq Nat \ {0}
         /\ Fs!Block \subseteq Nat /\ 0 \notin Fs!Block
         /\ Fs!Cell = 0 .. BSIZE - 1
         /\ \A f \in File : Text[f] \in [0 .. Fs!MAXFILE * BSIZE - 1 -> Nat \ {0}]
<1>1. /\ BSIZE \in Nat \ {0} /\ NBLOCKS \in Nat \ {0} /\ WriteLen \subseteq Nat \ {0}
      /\ NDIRECT \in Nat /\ MaxCrashes \in Nat /\ Offset \subseteq Nat
  BY DEF Fs!FileBlocksAssumption
<1>2. Fs!MAXFILE = NDIRECT + BSIZE /\ Fs!NINDIRECT = BSIZE /\ Fs!Cell = 0 .. BSIZE - 1
  BY DEF Fs!MAXFILE, Fs!NINDIRECT, Fs!Cell
<1>3. \A f \in File : Text[f] \in [0 .. Fs!MAXFILE * BSIZE - 1 -> Nat \ {0}]
  BY <1>2 DEF Fs!FileBlocksAssumption
<1>4. Fs!Block \subseteq Nat /\ 0 \notin Fs!Block
  BY <1>1 DEF Fs!Block
<1> QED
  BY <1>1, <1>2, <1>3, <1>4

LEMMA LeastIs ==
  ASSUME NEW S, S \subseteq Nat, S # {}
  PROVE  Fs!Min(S) \in S /\ \A y \in S : Fs!Min(S) <= y
<1>1. \E x \in S : \A y \in S : x <= y
  <2>1. PICK x \in S : \A y \in S : ~ (<<y, x>> \in OpToRel(<, Nat))
    BY NatLessThanWellFounded, WFMin
  <2>2. ASSUME NEW y \in S PROVE x <= y
    <3>1. ~ (y < x)
      BY <2>1 DEF OpToRel
    <3> QED
      BY <3>1
  <2> QED
    BY <2>2
<1> QED
  BY <1>1 DEF Fs!Min

LEMMA LeastOfTwo ==
  ASSUME NEW x \in Nat, NEW y \in Nat
  PROVE  Fs!Min({x, y}) = IF x <= y THEN x ELSE y
BY LeastIs

LEMMA Times ==
  ASSUME NEW b \in Nat, NEW i \in Nat, NEW j \in Nat, i < j
  PROVE  b * i + b <= b * j /\ b * i \in Nat
<1>1. PICK k \in Nat : j = i + 1 + k
  <2>1. j - i - 1 \in Nat
    OBVIOUS
  <2> QED
    BY <2>1
<1>2. b * j = b * i + b + b * k
  BY <1>1
<1>3. b * k \in Nat /\ b * i \in Nat
  OBVIOUS
<1> QED
  BY <1>2, <1>3

LEMMA Division ==
  ASSUME NEW b \in Nat, b >= 1, NEW x \in Nat
  PROVE  /\ x \div b \in Nat /\ x % b \in Nat /\ x % b < b
         /\ x = b * (x \div b) + (x % b)
OBVIOUS

\* Two numbers are in the same block.
LEMMA SameBlock ==
  ASSUME NEW b \in Nat, b >= 1, NEW x \in Nat, NEW o \in Nat
  PROVE  /\ o \div b = x \div b <=> x - (x % b) <= o /\ o < x - (x % b) + b
         /\ o \div b = x \div b => o % b = o - (x - (x % b))
         /\ x % b <= x
<1> DEFINE i == x \div b  j == o \div b  r == x % b  s == o % b
<1>1. /\ i \in Nat /\ r \in Nat /\ r < b /\ x = b * i + r
      /\ j \in Nat /\ s \in Nat /\ s < b /\ o = b * j + s
  BY Division
<1> HIDE DEF i, j, r, s
<1>2. b * i \in Nat /\ b * j \in Nat
  BY <1>1
<1>3. CASE i = j
  BY <1>1, <1>2, <1>3 DEF i, j, r, s
<1>4. CASE i < j
  <2>1. b * i + b <= b * j
    BY <1>1, <1>4, Times
  <2> QED
    BY <1>1, <1>2, <1>4, <2>1 DEF i, j, r, s
<1>5. CASE j < i
  <2>1. b * j + b <= b * i
    BY <1>1, <1>5, Times
  <2> QED
    BY <1>1, <1>2, <1>5, <2>1 DEF i, j, r, s
<1> QED
  BY <1>1, <1>3, <1>4, <1>5

\* The block of a number below the largest size.
LEMMA BlockBelow ==
  ASSUME NEW b \in Nat, b >= 1, NEW m \in Nat, NEW o \in Nat, o < m * b
  PROVE  o \div b < m
<1> DEFINE j == o \div b  s == o % b
<1>1. j \in Nat /\ s \in Nat /\ s < b /\ o = b * j + s
  BY Division
<1> HIDE DEF j, s
<1>2. b * j \in Nat /\ m * b = b * m
  BY <1>1
<1>3. CASE m < j
  BY <1>1, <1>2, <1>3, Times
<1>4. CASE m = j
  BY <1>1, <1>2, <1>4
<1> QED
  BY <1>1, <1>3, <1>4 DEF j

-----------------------------------------------------------------------------
(* The places of a file *)

\* What holds of the state of one file by its type.
LEMMA Typed ==
  ASSUME Fs!FileBlocksAssumption, Fs!TypeInv, NEW f \in File
  PROVE  /\ op[f] \in [do : {"none", "write", "zero", "unmark"}, off : Nat, end : Nat,
                       block : Fs!Block \cup {0}]
         /\ op[f].off \in Nat /\ op[f].end \in Nat /\ op[f].block \in Fs!Block \cup {0}
         /\ op[f].do \in {"none", "write", "zero", "unmark"}
         /\ inode[f] \in Fs!Inode /\ inode[f].size \in Nat
         /\ \A i \in 0 .. NDIRECT : inode[f].addrs[i] \in Fs!Block \cup {0}
         /\ dinode[f] \in Fs!Inode /\ dinode[f].size \in Nat
         /\ \A i \in 0 .. NDIRECT : dinode[f].addrs[i] \in Fs!Block \cup {0}
         /\ state[f] \in {"free", "live", "dead"}
         /\ NDIRECT \in 0 .. NDIRECT
<1>1. /\ op[f] \in [do : {"none", "write", "zero", "unmark"}, off : Nat, end : Nat,
                    block : Fs!Block \cup {0}]
      /\ inode[f] \in Fs!Inode /\ dinode[f] \in Fs!Inode /\ state[f] \in {"free", "live", "dead"}
  BY DEF Fs!TypeInv
<1>2. NDIRECT \in 0 .. NDIRECT
  BY Params
<1> QED
  BY <1>1, <1>2 DEF Fs!Inode

\* What is held at each place.
LEMMA Places ==
  ASSUME Fs!FileBlocksAssumption, NEW f \in File
  PROVE  /\ \A n \in 0 .. Fs!MAXFILE + 1 : n < NDIRECT => Fs!Held(f, n) = inode[f].addrs[n]
         /\ \A n \in NDIRECT .. Fs!MAXFILE - 1 :
              Fs!Held(f, n) = IF inode[f].addrs[NDIRECT] = 0 THEN 0
                           ELSE blocks[inode[f].addrs[NDIRECT]][n - NDIRECT]
         /\ \A n \in 0 .. Fs!MAXFILE - 1 : Fs!Held(f, n) = Fs!Bmap(inode[f], n)
         /\ \A n \in 0 .. Fs!MAXFILE - 1 : n \in 0 .. Fs!MAXFILE + 1 /\ n <= Fs!MAXFILE
         /\ Fs!Held(f, Fs!MAXFILE) = inode[f].addrs[NDIRECT]
         /\ Fs!Held(f, Fs!MAXFILE + 1) = op[f].block
         /\ Fs!MAXFILE \in 0 .. Fs!MAXFILE + 1 /\ Fs!MAXFILE + 1 \in 0 .. Fs!MAXFILE + 1
BY Params DEF Fs!Held, Fs!Place, Fs!Bmap

LEMMA PlacesNext ==
  ASSUME Fs!FileBlocksAssumption, NEW f \in File
  PROVE  /\ \A n \in 0 .. Fs!MAXFILE + 1 : n < NDIRECT => Fs!Held(f, n)' = inode'[f].addrs[n]
         /\ \A n \in NDIRECT .. Fs!MAXFILE - 1 :
              Fs!Held(f, n)' = IF inode'[f].addrs[NDIRECT] = 0 THEN 0
                            ELSE blocks'[inode'[f].addrs[NDIRECT]][n - NDIRECT]
         /\ \A n \in 0 .. Fs!MAXFILE - 1 : Fs!Held(f, n)' = Fs!Bmap(inode[f], n)'
         /\ Fs!Held(f, Fs!MAXFILE)' = inode'[f].addrs[NDIRECT]
         /\ Fs!Held(f, Fs!MAXFILE + 1)' = op'[f].block
BY Params DEF Fs!Held, Fs!Place, Fs!Bmap

\* Which places count.
LEMMA Owning ==
  ASSUME Fs!FileBlocksAssumption, NEW f \in File
  PROVE  /\ Fs!Owned(f) \subseteq 0 .. Fs!MAXFILE + 1
         /\ \A n \in Fs!Owned(f), m \in 0 .. Fs!MAXFILE + 1 :
              Fs!TypeInv /\ n <= m => m \in Fs!Owned(f)
         /\ state[f] = "live" => Fs!Owned(f) = 0 .. Fs!MAXFILE + 1
         /\ op[f].do # "none" => \A n \in 0 .. Fs!MAXFILE + 1 : n >= op[f].off => n \in Fs!Owned(f)
         /\ state[f] # "live" => \A n \in Fs!Owned(f) : n >= op[f].off
<1>1. \A n \in Fs!Owned(f), m \in 0 .. Fs!MAXFILE + 1 : Fs!TypeInv /\ n <= m => m \in Fs!Owned(f)
  <2> SUFFICES ASSUME Fs!TypeInv, NEW n \in Fs!Owned(f), NEW m \in 0 .. Fs!MAXFILE + 1, n <= m
               PROVE  m \in Fs!Owned(f)
    OBVIOUS
  <2>1. n \in Nat /\ m \in Nat /\ op[f].off \in Nat
    BY Params, Typed DEF Fs!Owned
  <2>2. n >= op[f].off => m >= op[f].off
    BY <2>1
  <2> QED
    BY <2>2 DEF Fs!Owned
<1> QED
  BY <1>1 DEF Fs!Owned

\* The block of an offset in a file.
LEMMA BlockOf ==
  ASSUME Fs!FileBlocksAssumption, NEW o \in Nat, o < Fs!MAXFILE * BSIZE
  PROVE  o \div BSIZE \in 0 .. Fs!MAXFILE - 1 /\ o % BSIZE \in Fs!Cell
<1>1. BSIZE \in Nat /\ BSIZE >= 1 /\ Fs!MAXFILE \in Nat /\ Fs!Cell = 0 .. BSIZE - 1
  BY Params
<1>2. o \div BSIZE < Fs!MAXFILE
  BY <1>1, BlockBelow
<1>3. o \div BSIZE \in Nat /\ o % BSIZE \in Nat /\ o % BSIZE < BSIZE
  BY <1>1, Division
<1> QED
  BY <1>1, <1>2, <1>3

-----------------------------------------------------------------------------
(* A file that nothing is done to *)

\* The same blocks are at the places of file g, and it is as good as before.
LEMMA Unmoved ==
  ASSUME Fs!FileBlocksAssumption, Fs!BlockInv, NEW g \in File,
         inode'[g] = inode[g], dinode'[g] = dinode[g], state'[g] = state[g], op'[g] = op[g],
         crashes' = crashes,
         \A n \in Fs!Owned(g) : Fs!Held(g, n) # 0 => blocks'[Fs!Held(g, n)] = blocks[Fs!Held(g, n)]
  PROVE  /\ Fs!Owned(g)' = Fs!Owned(g)
         /\ \A n \in Fs!Owned(g) : Fs!Held(g, n)' = Fs!Held(g, n)
         /\ Fs!FileOK(g)'
<1>1. Fs!Owned(g)' = Fs!Owned(g)
  BY DEF Fs!Owned
<1>2. \A n \in Fs!Owned(g) : Fs!Held(g, n)' = Fs!Held(g, n)
  <2> SUFFICES ASSUME NEW n \in Fs!Owned(g) PROVE Fs!Held(g, n)' = Fs!Held(g, n)
    OBVIOUS
  <2>1. n \in 0 .. Fs!MAXFILE + 1 /\ NDIRECT \in Nat /\ Fs!MAXFILE \in Nat
    BY Owning, Params
  <2>2. CASE n < NDIRECT
    BY <2>1, <2>2, Places, PlacesNext
  <2>3. CASE n \in NDIRECT .. Fs!MAXFILE - 1
    <3>1. Fs!MAXFILE \in Fs!Owned(g)
      BY <2>1, <2>3, Owning, Places DEF Fs!BlockInv
    <3>2. inode[g].addrs[NDIRECT] # 0 =>
            blocks'[inode[g].addrs[NDIRECT]] = blocks[inode[g].addrs[NDIRECT]]
      BY <3>1, Places
    <3> QED
      BY <2>3, <3>2, Places, PlacesNext
  <2>4. CASE n = Fs!MAXFILE \/ n = Fs!MAXFILE + 1
    BY <2>4, Places, PlacesNext
  <2> QED
    BY <2>1, <2>2, <2>3, <2>4
<1>3. Fs!FileOK(g)
  BY DEF Fs!BlockInv
<1>4. Fs!OpOK(g)'
  <2> DEFINE q == op[g]   n == q.off \div BSIZE
  <2>1. Fs!OpOK(g) /\ q.off \in Nat /\ q.end \in Nat
    BY <1>3, Typed DEF Fs!FileOK, Fs!BlockInv
  <2>2. ASSUME q.block # 0
        PROVE  Fs!Bmap(inode[g], n)' = Fs!Bmap(inode[g], n) /\ blocks'[q.block] = blocks[q.block]
    <3>1. state[g] = "live" /\ q.off < Fs!MAXFILE * BSIZE
      BY <2>1, <2>2, Params DEF Fs!OpOK
    <3>2. n \in 0 .. Fs!MAXFILE - 1
      BY <2>1, <3>1, BlockOf
    <3>3. n \in Fs!Owned(g) /\ Fs!MAXFILE + 1 \in Fs!Owned(g)
      BY <3>1, <3>2, Owning, Places
    <3>a. \A k \in Fs!Owned(g) : k \in 0 .. Fs!MAXFILE - 1 => Fs!Bmap(inode[g], k)' = Fs!Bmap(inode[g], k)
      BY <1>2, Places, PlacesNext
    <3>4. Fs!Bmap(inode[g], n)' = Fs!Bmap(inode[g], n)
      BY <3>2, <3>3, <3>a DEF Fs!Bmap
    <3>5. Fs!Held(g, Fs!MAXFILE + 1) = q.block
      BY Places
    <3> QED
      BY <2>2, <3>3, <3>4, <3>5
  <2>3. ASSUME q.do = "unmark"
        PROVE  Fs!TruncBlock(g)' = Fs!TruncBlock(g) /\ blocks'[Fs!TruncBlock(g)] = blocks[Fs!TruncBlock(g)]
    <3>1. q.off \in 0 .. Fs!MAXFILE /\ q.off \in Fs!Owned(g) /\ Fs!TruncBlock(g) # 0
      BY <2>1, <2>3, Owning, Params DEF Fs!OpOK
    <3>2. Fs!TruncBlock(g) = Fs!Held(g, q.off) /\ Fs!TruncBlock(g)' = Fs!Held(g, q.off)'
      BY <3>1, Params DEF Fs!TruncBlock, Fs!Held, Fs!Place
    <3> QED
      BY <1>2, <3>1, <3>2
  <2>4. q.block # 0 => (/\ q.do = "write" /\ q.off < q.end /\ n >= NDIRECT
                        /\ inode[g].addrs[NDIRECT] # 0 /\ Fs!Bmap(inode[g], n)' = 0
                        /\ blocks'[q.block] = Fs!Zeros)
    BY <2>1, <2>2 DEF Fs!OpOK
  <2>5. q.do = "unmark" => (/\ q.off <= Fs!MAXFILE
                            /\ Fs!TruncBlock(g)' # 0 /\ blocks'[Fs!TruncBlock(g)'] = Fs!Zeros)
    BY <2>1, <2>3 DEF Fs!OpOK
  <2> HIDE DEF q
  <2>6. op'[g] = q
    BY DEF q
  <2> QED
    BY <2>1, <2>4, <2>5, <2>6 DEF Fs!OpOK, q
<1>5. ASSUME state[g] = "live" PROVE Fs!DiskOK(g)' /\ Fs!ContentOK(g)'
  <2>1. Fs!Owned(g) = 0 .. Fs!MAXFILE + 1 /\ Fs!DiskOK(g) /\ Fs!ContentOK(g) /\ Fs!OpOK(g)
    BY <1>3, <1>5, Owning DEF Fs!FileOK
  <2>2. ASSUME NEW n \in 0 .. Fs!MAXFILE - 1
        PROVE  /\ Fs!Bmap(inode[g], n)' = Fs!Bmap(inode[g], n)
               /\ Fs!Bmap(inode[g], n) # 0 =>
                    blocks'[Fs!Bmap(inode[g], n)] = blocks[Fs!Bmap(inode[g], n)]
    <3>1. n \in Fs!Owned(g)
      BY <2>1, Places
    <3> QED
      BY <1>2, <3>1, Places, PlacesNext
  <2>3. ASSUME NEW n \in 0 .. Fs!MAXFILE - 1
        PROVE  Fs!Bmap(dinode[g], n)' = Fs!Bmap(dinode[g], n)
    <3>1. dinode[g].addrs[NDIRECT] # 0 =>
            blocks'[dinode[g].addrs[NDIRECT]] = blocks[dinode[g].addrs[NDIRECT]]
      <4>1. dinode[g].addrs[NDIRECT] # 0 => dinode[g].addrs[NDIRECT] = Fs!Held(g, Fs!MAXFILE)
        BY <2>1, Places, Typed DEF Fs!DiskOK, Fs!BlockInv
      <4> QED
        BY <2>1, <4>1, Places
    <3> QED
      BY <3>1 DEF Fs!Bmap
  <2>4. ASSUME NEW o \in Nat, o < Fs!MAXFILE * BSIZE PROVE o \div BSIZE \in 0 .. Fs!MAXFILE - 1
    BY <2>4, BlockOf
  <2>5. Fs!Top(g) \in Nat /\ Fs!Top(g) <= Fs!MAXFILE * BSIZE /\ Fs!Top(g)' = Fs!Top(g)
        /\ Fs!MAXFILE * BSIZE \in Nat /\ inode[g].size \in Nat /\ inode[g].size <= Fs!MAXFILE * BSIZE
    <3>1. /\ inode[g].size \in Nat /\ op[g].off \in Nat /\ op[g].end \in Nat
          /\ Fs!MAXFILE * BSIZE \in Nat
      BY Typed, Params DEF Fs!BlockInv
    <3>2. inode[g].size <= Fs!MAXFILE * BSIZE /\ op[g].off <= Fs!MAXFILE * BSIZE
      BY <1>5, <2>1, <3>1, Typed DEF Fs!DiskOK, Fs!OpOK, Fs!NoOp, Fs!BlockInv
    <3> QED
      BY <3>1, <3>2 DEF Fs!Top
  <2>6. Fs!DiskOK(g)'
    <3>1. \A o \in 0 .. inode[g].size - 1 : Fs!Bmap(dinode[g], o \div BSIZE)' # 0
      <4> SUFFICES ASSUME NEW o \in 0 .. inode[g].size - 1
                   PROVE  Fs!Bmap(dinode[g], o \div BSIZE)' # 0
        OBVIOUS
      <4>1. o \div BSIZE \in 0 .. Fs!MAXFILE - 1
        BY <2>4, <2>5
      <4> QED
        BY <2>1, <2>3, <4>1 DEF Fs!DiskOK
    <3> QED
      BY <2>1, <3>1 DEF Fs!DiskOK
  <2>7. Fs!ContentOK(g)'
    <3>1. ASSUME NEW o \in 0 .. Fs!MAXFILE * BSIZE - 1
          PROVE  /\ Fs!Bmap(inode[g], o \div BSIZE)' = Fs!Bmap(inode[g], o \div BSIZE)
                 /\ Fs!Bmap(inode[g], o \div BSIZE) # 0 => Fs!Readi(inode[g], o)' = Fs!Readi(inode[g], o)
      <4>1. o \div BSIZE \in 0 .. Fs!MAXFILE - 1
        BY <2>4, <2>5
      <4> DEFINE n == o \div BSIZE
      <4> HIDE DEF n
      <4>2. /\ Fs!Bmap(inode[g], n)' = Fs!Bmap(inode[g], n)
            /\ Fs!Bmap(inode[g], n) # 0 => blocks'[Fs!Bmap(inode[g], n)] = blocks[Fs!Bmap(inode[g], n)]
        BY <2>2, <4>1 DEF n
      <4> QED
        BY <4>2 DEF Fs!Readi, n
    <3>2. \A o \in 0 .. Fs!Top(g) - 1 :
            Fs!Bmap(inode[g], o \div BSIZE)' # 0 /\ Fs!Readi(inode[g], o)' = Text[g][o]
      <4> SUFFICES ASSUME NEW o \in 0 .. Fs!Top(g) - 1
                   PROVE  Fs!Bmap(inode[g], o \div BSIZE)' # 0 /\ Fs!Readi(inode[g], o)' = Text[g][o]
        OBVIOUS
      <4>1. o \in 0 .. Fs!MAXFILE * BSIZE - 1
        BY <2>5
      <4> QED
        BY <2>1, <3>1, <4>1 DEF Fs!ContentOK
    <3>3. crashes = 0 => \A o \in Fs!Top(g) .. Fs!MAXFILE * BSIZE - 1 :
            Fs!Bmap(inode[g], o \div BSIZE)' # 0 => Fs!Readi(inode[g], o)' = 0
      <4> SUFFICES ASSUME crashes = 0, NEW o \in Fs!Top(g) .. Fs!MAXFILE * BSIZE - 1,
                          Fs!Bmap(inode[g], o \div BSIZE)' # 0
                   PROVE  Fs!Readi(inode[g], o)' = 0
        OBVIOUS
      <4>1. o \in 0 .. Fs!MAXFILE * BSIZE - 1
        BY <2>5
      <4> QED
        BY <2>1, <3>1, <4>1 DEF Fs!ContentOK
    <3> QED
      BY <2>5, <3>2, <3>3 DEF Fs!ContentOK
  <2> QED
    BY <2>6, <2>7
<1> QED
  BY <1>1, <1>2, <1>4, <1>5 DEF Fs!FileOK

-----------------------------------------------------------------------------
(* A step in one file *)

\* The step is one of file f, and is no crash.
Only(f) ==
  /\ \A g \in File \ {f} : /\ inode'[g] = inode[g] /\ dinode'[g] = dinode[g]
                           /\ state'[g] = state[g] /\ op'[g] = op[g]
  /\ crashes' = crashes

\* It writes to no block but those that f holds.
Within(f) ==
  \A b \in Fs!Block : blocks'[b] = blocks[b] \/ \E n \in Fs!Owned(f) : Fs!Held(f, n) = b

\* It frees only blocks of f, and clears them; it takes only blocks that were free; what
\* f has after it is in one place, and is all that is marked besides what is not its own.
Handed(f) ==
  /\ \A b \in used : b \notin used' => blocks'[b] = Fs!Zeros /\ \E n \in Fs!Owned(f) : Fs!Held(f, n) = b
  /\ \A n \in Fs!Owned(f)' : Fs!Held(f, n)' # 0 =>
       /\ Fs!Held(f, n)' \in used'
       /\ Fs!Held(f, n)' \notin used \/ \E m \in Fs!Owned(f) : Fs!Held(f, m) = Fs!Held(f, n)'
  /\ \A n, m \in Fs!Owned(f)' : Fs!Held(f, n)' = Fs!Held(f, m)' /\ Fs!Held(f, n)' # 0 => n = m
  /\ \A b \in used' : \/ b \in used /\ \A n \in Fs!Owned(f) : Fs!Held(f, n) # b
                      \/ \E n \in Fs!Owned(f)' : Fs!Held(f, n)' = b

\* What else has to be shown of a step in file f.
LEMMA Stepped ==
  ASSUME Fs!FileBlocksAssumption, Fs!BlockInv, Fs!TypeInv', NEW f \in File,
         Only(f), Within(f), Handed(f), Fs!FileOK(f)', halted' # "bad"
  PROVE  Fs!BlockInv'
<1>1. Fs!TypeInv /\ Fs!OwnInv /\ Fs!FreeZero /\ Fs!LostInv /\ used \subseteq Fs!Block /\ used' \subseteq Fs!Block
  BY DEF Fs!BlockInv, Fs!TypeInv
<1>2. ASSUME NEW g \in File, g # f
      PROVE  /\ Fs!Owned(g)' = Fs!Owned(g)
             /\ \A n \in Fs!Owned(g) : Fs!Held(g, n)' = Fs!Held(g, n)
             /\ Fs!FileOK(g)'
  <2>1. /\ inode'[g] = inode[g] /\ dinode'[g] = dinode[g] /\ state'[g] = state[g]
        /\ op'[g] = op[g] /\ crashes' = crashes
    BY <1>2 DEF Only
  <2>2. \A n \in Fs!Owned(g) : Fs!Held(g, n) # 0 => blocks'[Fs!Held(g, n)] = blocks[Fs!Held(g, n)]
    <3> SUFFICES ASSUME NEW n \in Fs!Owned(g), Fs!Held(g, n) # 0
                 PROVE  blocks'[Fs!Held(g, n)] = blocks[Fs!Held(g, n)]
      OBVIOUS
    <3>1. Fs!Held(g, n) \in Fs!Block
      BY <1>1 DEF Fs!OwnInv
    <3>2. \A m \in Fs!Owned(f) : Fs!Held(f, m) # Fs!Held(g, n)
      BY <1>1, <1>2 DEF Fs!OwnInv
    <3> QED
      BY <3>1, <3>2 DEF Within
  <2> QED
    BY <2>1, <2>2, Unmoved
<1>3. Fs!OwnInv'
  <2>1. ASSUME NEW g \in File, NEW n \in Fs!Owned(g)' PROVE Fs!Held(g, n)' \in used' \cup {0}
    <3>1. CASE g = f
      BY <2>1, <3>1 DEF Handed
    <3>2. CASE g # f
      <4>1. n \in Fs!Owned(g) /\ Fs!Held(g, n)' = Fs!Held(g, n)
        BY <1>2, <2>1, <3>2
      <4>2. Fs!Held(g, n) # 0 => \A m \in Fs!Owned(f) : Fs!Held(f, m) # Fs!Held(g, n)
        BY <1>1, <3>2, <4>1 DEF Fs!OwnInv
      <4>3. Fs!Held(g, n) \in used \cup {0}
        BY <1>1, <4>1 DEF Fs!OwnInv
      <4> QED
        BY <4>1, <4>2, <4>3 DEF Handed
    <3> QED
      BY <3>1, <3>2
  <2>2. ASSUME NEW g \in File, g # f, NEW n \in Fs!Owned(f)', NEW m \in Fs!Owned(g)',
               Fs!Held(f, n)' # 0
        PROVE  Fs!Held(f, n)' # Fs!Held(g, m)'
    <3> SUFFICES ASSUME Fs!Held(f, n)' = Fs!Held(g, m)' PROVE FALSE
      OBVIOUS
    <3>1. m \in Fs!Owned(g) /\ Fs!Held(g, m)' = Fs!Held(g, m) /\ Fs!Held(g, m) # 0
      BY <1>2, <2>2
    <3>2. Fs!Held(g, m) \in used /\ \A k \in Fs!Owned(f) : Fs!Held(f, k) # Fs!Held(g, m)
      BY <1>1, <2>2, <3>1 DEF Fs!OwnInv
    <3> QED
      BY <2>2, <3>1, <3>2 DEF Handed
  <2>3. ASSUME NEW g \in File, NEW h \in File, NEW n \in Fs!Owned(g)', NEW m \in Fs!Owned(h)',
               Fs!Held(g, n)' = Fs!Held(h, m)', Fs!Held(g, n)' # 0
        PROVE  g = h /\ n = m
    <3>1. CASE g = f /\ h = f
      BY <2>3, <3>1 DEF Handed
    <3>2. CASE g = f /\ h # f
      BY <2>2, <2>3, <3>2
    <3>3. CASE g # f /\ h = f
      BY <2>2, <2>3, <3>3
    <3>4. CASE g # f /\ h # f
      <4>1. /\ n \in Fs!Owned(g) /\ Fs!Held(g, n)' = Fs!Held(g, n)
            /\ m \in Fs!Owned(h) /\ Fs!Held(h, m)' = Fs!Held(h, m)
        BY <1>2, <2>3, <3>4
      <4>2. Fs!Held(g, n) = Fs!Held(h, m) /\ Fs!Held(g, n) # 0
        BY <2>3, <4>1
      <4> QED
        BY <1>1, <4>1, <4>2 DEF Fs!OwnInv
    <3> QED
      BY <3>1, <3>2, <3>3, <3>4
  <2> QED
    BY <2>1, <2>3 DEF Fs!OwnInv
<1>4. Fs!FreeZero'
  <2> SUFFICES ASSUME NEW b \in Fs!Block, b \notin used' PROVE blocks'[b] = Fs!Zeros
    BY DEF Fs!FreeZero, Fs!Block, Fs!Zeros
  <2>1. CASE b \in used
    BY <2>1 DEF Handed
  <2>2. CASE b \notin used
    <3>1. blocks[b] = Fs!Zeros
      BY <1>1, <2>2 DEF Fs!FreeZero
    <3>2. \A n \in Fs!Owned(f) : Fs!Held(f, n) # b
      BY <1>1, <2>2, Params DEF Fs!OwnInv
    <3> QED
      BY <3>1, <3>2 DEF Within
  <2> QED
    BY <2>1, <2>2
<1>5. Fs!LostInv'
  <2> SUFFICES ASSUME crashes' = 0, NEW b \in used'
               PROVE  \E g \in File : \E n \in Fs!Owned(g)' : Fs!Held(g, n)' = b
    BY DEF Fs!LostInv
  <2>1. CASE \E n \in Fs!Owned(f)' : Fs!Held(f, n)' = b
    BY <2>1
  <2>2. CASE b \in used /\ \A n \in Fs!Owned(f) : Fs!Held(f, n) # b
    <3>1. PICK g \in File : \E n \in Fs!Owned(g) : Fs!Held(g, n) = b
      BY <1>1, <2>2 DEF Fs!LostInv, Only
    <3>2. g # f
      BY <2>2, <3>1
    <3> QED
      BY <1>2, <3>1, <3>2
  <2> QED
    BY <2>1, <2>2 DEF Handed
<1>6. \A g \in File : Fs!FileOK(g)'
  BY <1>2
<1> QED
  BY <1>3, <1>4, <1>5, <1>6 DEF Fs!BlockInv, Fs!NoPanic

\* No block is marked or freed, and those of f stay where they are.
Kept(f) ==
  /\ used' = used
  /\ \A n \in Fs!Owned(f)' : Fs!Held(f, n)' # 0 => n \in Fs!Owned(f) /\ Fs!Held(f, n)' = Fs!Held(f, n)
  /\ \A n \in Fs!Owned(f) : Fs!Held(f, n) # 0 => n \in Fs!Owned(f)' /\ Fs!Held(f, n)' = Fs!Held(f, n)

LEMMA Stay ==
  ASSUME Fs!FileBlocksAssumption, Fs!BlockInv, NEW f \in File, Kept(f)
  PROVE  Handed(f)
<1>1. used' = used /\ used \subseteq Fs!Block /\ 0 \notin Fs!Block
  BY Params DEF Kept, Fs!BlockInv, Fs!TypeInv
<1>2. \A n \in Fs!Owned(f)' : Fs!Held(f, n)' # 0 =>
        /\ Fs!Held(f, n)' \in used'
        /\ \E m \in Fs!Owned(f) : Fs!Held(f, m) = Fs!Held(f, n)'
  BY <1>1 DEF Kept, Fs!BlockInv, Fs!OwnInv
<1>3. \A n, m \in Fs!Owned(f)' : Fs!Held(f, n)' = Fs!Held(f, m)' /\ Fs!Held(f, n)' # 0 => n = m
  BY DEF Kept, Fs!BlockInv, Fs!OwnInv
<1>4. \A b \in used' : \/ b \in used /\ \A n \in Fs!Owned(f) : Fs!Held(f, n) # b
                       \/ \E n \in Fs!Owned(f)' : Fs!Held(f, n)' = b
  <2> SUFFICES ASSUME NEW b \in used, NEW n \in Fs!Owned(f), Fs!Held(f, n) = b
               PROVE  \E m \in Fs!Owned(f)' : Fs!Held(f, m)' = b
    BY <1>1
  <2>1. b # 0
    BY <1>1
  <2> QED
    BY <2>1 DEF Kept
<1> QED
  BY <1>1, <1>2, <1>3, <1>4 DEF Handed

-----------------------------------------------------------------------------
(* Content that is left alone *)

\* The numbers that a file without links or with links has are in the range of its size.
LEMMA Tops ==
  ASSUME Fs!FileBlocksAssumption, Fs!BlockInv, NEW f \in File, state[f] = "live"
  PROVE  /\ Fs!OpOK(f) /\ Fs!DiskOK(f) /\ Fs!ContentOK(f)
         /\ inode[f].size \in Nat /\ inode[f].size <= Fs!MAXFILE * BSIZE
         /\ op[f].off \in Nat /\ op[f].off <= Fs!MAXFILE * BSIZE /\ Fs!MAXFILE * BSIZE \in Nat
         /\ Fs!Top(f) \in Nat /\ Fs!Top(f) <= Fs!MAXFILE * BSIZE
         /\ Fs!Top(f) >= inode[f].size /\ Fs!Top(f) >= op[f].off
<1>1. Fs!FileOK(f) /\ Fs!TypeInv
  BY DEF Fs!BlockInv
<1>2. Fs!OpOK(f) /\ Fs!DiskOK(f) /\ Fs!ContentOK(f)
  BY <1>1 DEF Fs!FileOK
<1>3. inode[f].size \in Nat /\ op[f].off \in Nat /\ op[f].end \in Nat /\ Fs!MAXFILE * BSIZE \in Nat
      /\ op[f].do \in {"none", "write", "zero", "unmark"}
  BY <1>1, Typed, Params
<1>4. inode[f].size <= Fs!MAXFILE * BSIZE
  BY <1>2 DEF Fs!DiskOK
<1>5. op[f].off <= Fs!MAXFILE * BSIZE
  <2>1. CASE op[f].do = "none"
    BY <1>2, <1>3, <2>1 DEF Fs!OpOK, Fs!NoOp
  <2>2. CASE op[f].do = "write"
    BY <1>2, <1>3, <2>2 DEF Fs!OpOK
  <2>3. CASE op[f].do \in {"zero", "unmark"}
    BY <1>2, <2>3 DEF Fs!OpOK
  <2> QED
    BY <1>3, <2>1, <2>2, <2>3
<1> QED
  BY <1>2, <1>3, <1>4, <1>5 DEF Fs!Top

\* The disk and the inode are the same, and the operation does not change how far it is written.
LEMMA Untouched ==
  ASSUME Fs!FileBlocksAssumption, Fs!BlockInv, NEW f \in File, state[f] = "live",
         blocks' = blocks, inode'[f] = inode[f], dinode'[f] = dinode[f], crashes' = crashes,
         Fs!Top(f)' = Fs!Top(f)
  PROVE  Fs!DiskOK(f)' /\ Fs!ContentOK(f)'
<1>1. Fs!DiskOK(f) /\ Fs!ContentOK(f)
  BY Tops
<1>2. Fs!DiskOK(f)'
  BY <1>1 DEF Fs!DiskOK, Fs!Bmap
<1>3. Fs!ContentOK(f)'
  BY <1>1 DEF Fs!ContentOK, Fs!Bmap, Fs!Readi
<1> QED
  BY <1>2, <1>3

-----------------------------------------------------------------------------
(* Steps that write no block *)

LEMMA WriteiInv ==
  ASSUME Fs!FileBlocksAssumption, Fs!BlockInv, halted = "no", NEW f \in File, Fs!Writei(f)
  PROVE  Fs!BlockInv'
<1>1. PICK off \in Offset \cup {inode[f].size}, n \in WriteLen :
        /\ off <= inode[f].size /\ state[f] = "live" /\ op[f] = Fs!NoOp
        /\ Fs!Lock(f, [Fs!NoOp EXCEPT !.do = "write", !.off = off,
                                !.end = Fs!Min({off + n, Fs!MAXFILE * BSIZE})])
        /\ UNCHANGED <<used, blocks, dinode, inode>> /\ Fs!Same
  BY DEF Fs!Writei
<1>2. /\ off \in Nat /\ n \in Nat /\ Fs!TypeInv
      /\ inode[f].size \in Nat /\ inode[f].size <= Fs!MAXFILE * BSIZE /\ Fs!MAXFILE * BSIZE \in Nat
  BY <1>1, Params, Tops DEF Fs!BlockInv
<1> DEFINE end == Fs!Min({off + n, Fs!MAXFILE * BSIZE})
<1>3. end \in Nat /\ off <= end /\ end <= Fs!MAXFILE * BSIZE
  <2>1. off + n \in Nat
    BY <1>2
  <2> QED
    BY <1>1, <1>2, <2>1, LeastOfTwo
<1> HIDE DEF end
<1>4. /\ op' = [op EXCEPT ![f] = [do |-> "write", off |-> off, end |-> end, block |-> 0]]
      /\ used' = used /\ blocks' = blocks /\ dinode' = dinode /\ inode' = inode
      /\ state' = state /\ halted' = halted /\ crashes' = crashes
  <2>1. [Fs!NoOp EXCEPT !.do = "write", !.off = off, !.end = end] =
          [do |-> "write", off |-> off, end |-> end, block |-> 0]
    <3>1. [Fs!NoOp EXCEPT !.do = "write"] = [do |-> "write", off |-> 0, end |-> 0, block |-> 0]
      BY DEF Fs!NoOp
    <3>2. [[do |-> "write", off |-> 0, end |-> 0, block |-> 0] EXCEPT !.off = off] =
            [do |-> "write", off |-> off, end |-> 0, block |-> 0]
      OBVIOUS
    <3>3. [[do |-> "write", off |-> off, end |-> 0, block |-> 0] EXCEPT !.end = end] =
            [do |-> "write", off |-> off, end |-> end, block |-> 0]
      OBVIOUS
    <3> QED
      BY <3>1, <3>2, <3>3
  <2> QED
    BY <1>1, <2>1 DEF Fs!Lock, Fs!Same, end
<1>5. op'[f] = [do |-> "write", off |-> off, end |-> end, block |-> 0]
  BY <1>2, <1>4 DEF Fs!TypeInv
<1>6. Fs!TypeInv'
  BY <1>2, <1>3, <1>4 DEF Fs!TypeInv
<1>7. Only(f)
  BY <1>2, <1>4 DEF Only, Fs!TypeInv
<1>8. Within(f)
  BY <1>4 DEF Within
<1>9. Kept(f)
  <2>1. Fs!Owned(f)' = Fs!Owned(f)
    BY <1>1, <1>4 DEF Fs!Owned
  <2>2. \A k \in Fs!Owned(f) : Fs!Held(f, k)' = Fs!Held(f, k)
    BY <1>1, <1>4, <1>5 DEF Fs!Held, Fs!Place, Fs!Bmap, Fs!NoOp
  <2> QED
    BY <1>4, <2>1, <2>2 DEF Kept
<1>10. Fs!FileOK(f)'
  <2>1. Fs!OpOK(f)'
    BY <1>1, <1>3, <1>4, <1>5 DEF Fs!OpOK
  <2>2. Fs!Top(f)' = Fs!Top(f)
    BY <1>1, <1>2, <1>4, <1>5 DEF Fs!Top, Fs!NoOp
  <2>3. Fs!DiskOK(f)' /\ Fs!ContentOK(f)'
    BY <1>1, <1>4, <2>2, Untouched
  <2> QED
    BY <2>1, <2>3 DEF Fs!FileOK
<1> QED
  BY <1>4, <1>6, <1>7, <1>8, <1>9, <1>10, Stay, Stepped

LEMMA CreateInv ==
  ASSUME Fs!FileBlocksAssumption, Fs!BlockInv, halted = "no", NEW f \in File, Fs!Create(f)
  PROVE  Fs!BlockInv'
<1>1. /\ state[f] = "free" /\ state' = [state EXCEPT ![f] = "live"]
      /\ dinode' = [dinode EXCEPT ![f] = Fs!Empty] /\ inode' = [inode EXCEPT ![f] = Fs!Empty]
      /\ used' = used /\ blocks' = blocks /\ op' = op /\ halted' = halted /\ crashes' = crashes
  BY DEF Fs!Create
<1>2. Fs!TypeInv /\ Fs!OpOK(f) /\ op[f].do \in {"none", "write", "zero", "unmark"}
  BY Typed DEF Fs!BlockInv, Fs!FileOK
<1>3. op[f] = Fs!NoOp
  BY <1>1, <1>2 DEF Fs!OpOK
<1>4. /\ state'[f] = "live" /\ dinode'[f] = Fs!Empty /\ inode'[f] = Fs!Empty /\ op'[f] = Fs!NoOp
      /\ \A i \in 0 .. NDIRECT : Fs!Empty.addrs[i] = 0
      /\ Fs!Empty.size = 0 /\ NDIRECT \in 0 .. NDIRECT
  BY <1>1, <1>2, <1>3, Params DEF Fs!TypeInv, Fs!Empty
<1>5. Fs!TypeInv'
  <2>1. Fs!Empty \in Fs!Inode
    BY DEF Fs!Empty, Fs!Inode
  <2> QED
    BY <1>1, <1>2, <2>1 DEF Fs!TypeInv
<1>6. Only(f) /\ Within(f)
  BY <1>1, <1>2 DEF Only, Within, Fs!TypeInv
<1>7. \A n \in 0 .. Fs!MAXFILE - 1 : Fs!Bmap(inode[f], n)' = 0 /\ Fs!Bmap(dinode[f], n)' = 0
  BY <1>4, Params DEF Fs!Bmap
<1>8. Kept(f)
  <2>1. Fs!Owned(f) = {}
    BY <1>1, <1>3 DEF Fs!Owned, Fs!NoOp
  <2>2. \A n \in Fs!Owned(f)' : Fs!Held(f, n)' = 0
    <3>1. Fs!Owned(f)' \subseteq 0 .. Fs!MAXFILE + 1
      BY DEF Fs!Owned
    <3>2. NDIRECT \in Nat /\ Fs!MAXFILE \in Nat
      BY Params
    <3>3. op'[f].block = 0
      BY <1>4 DEF Fs!NoOp
    <3>4. \A n \in 0 .. Fs!MAXFILE + 1 : n \in 0 .. Fs!MAXFILE - 1 \/ n = Fs!MAXFILE \/ n = Fs!MAXFILE + 1
      BY <3>2
    <3> QED
      BY <1>4, <1>7, <3>1, <3>3, <3>4, PlacesNext
  <2> QED
    BY <1>1, <2>1, <2>2 DEF Kept
<1>9. Fs!FileOK(f)'
  <2>1. Fs!OpOK(f)'
    BY <1>4 DEF Fs!OpOK, Fs!NoOp
  <2>2. Fs!DiskOK(f)'
    BY <1>4, Params DEF Fs!DiskOK
  <2>3. Fs!Top(f)' = 0
    BY <1>4 DEF Fs!Top, Fs!NoOp
  <2>4. Fs!ContentOK(f)'
    <3>1. \A o \in 0 .. Fs!MAXFILE * BSIZE - 1 : Fs!Bmap(inode[f], o \div BSIZE)' = 0
      <4> SUFFICES ASSUME NEW o \in 0 .. Fs!MAXFILE * BSIZE - 1
                   PROVE  Fs!Bmap(inode[f], o \div BSIZE)' = 0
        OBVIOUS
      <4>1. o \div BSIZE \in 0 .. Fs!MAXFILE - 1
        BY BlockOf, Params
      <4> QED
        BY <1>7, <4>1
    <3> QED
      BY <2>3, <3>1 DEF Fs!ContentOK
  <2> QED
    BY <2>1, <2>2, <2>4 DEF Fs!FileOK
<1> QED
  BY <1>1, <1>5, <1>6, <1>8, <1>9, Stay, Stepped

LEMMA RemoveInv ==
  ASSUME Fs!FileBlocksAssumption, Fs!BlockInv, halted = "no", NEW f \in File, Fs!Remove(f)
  PROVE  Fs!BlockInv'
<1>1. /\ state[f] = "live" /\ op[f] = Fs!NoOp /\ state' = [state EXCEPT ![f] = "dead"]
      /\ op' = [op EXCEPT ![f] = [do |-> "zero", off |-> 0, end |-> 0, block |-> 0]]
      /\ used' = used /\ blocks' = blocks /\ dinode' = dinode /\ inode' = inode
      /\ halted' = halted /\ crashes' = crashes
  <2>1. [Fs!NoOp EXCEPT !.do = "zero"] = [do |-> "zero", off |-> 0, end |-> 0, block |-> 0]
    BY DEF Fs!NoOp
  <2> QED
    BY <2>1 DEF Fs!Remove, Fs!Lock
<1>2. Fs!TypeInv
  BY DEF Fs!BlockInv
<1>3. /\ state'[f] = "dead" /\ op'[f] = [do |-> "zero", off |-> 0, end |-> 0, block |-> 0]
  BY <1>1, <1>2 DEF Fs!TypeInv
<1>4. Fs!TypeInv'
  BY <1>1, <1>2 DEF Fs!TypeInv
<1>5. Only(f) /\ Within(f)
  BY <1>1, <1>2 DEF Only, Within, Fs!TypeInv
<1>6. Kept(f)
  <2>1. Fs!Owned(f)' = 0 .. Fs!MAXFILE + 1 /\ Fs!Owned(f) = 0 .. Fs!MAXFILE + 1
    BY <1>1, <1>3, Params DEF Fs!Owned
  <2>2. \A k \in Fs!Owned(f) : Fs!Held(f, k)' = Fs!Held(f, k)
    BY <1>1, <1>3 DEF Fs!Held, Fs!Place, Fs!Bmap, Fs!NoOp
  <2> QED
    BY <1>1, <2>1, <2>2 DEF Kept
<1>7. Fs!FileOK(f)'
  BY <1>3, Params DEF Fs!FileOK, Fs!OpOK
<1> QED
  BY <1>1, <1>4, <1>5, <1>6, <1>7, Stay, Stepped

LEMMA TruncEndInv ==
  ASSUME Fs!FileBlocksAssumption, Fs!BlockInv, halted = "no", NEW f \in File, Fs!TruncEnd(f)
  PROVE  Fs!BlockInv'
<1>1. /\ op[f].do = "zero" /\ op[f].off > Fs!MAXFILE
      /\ inode' = [inode EXCEPT ![f].size = 0] /\ dinode' = [dinode EXCEPT ![f] = inode'[f]]
      /\ state' = [state EXCEPT ![f] = "free"] /\ op' = [op EXCEPT ![f] = Fs!NoOp]
      /\ used' = used /\ blocks' = blocks /\ halted' = halted /\ crashes' = crashes
  BY DEF Fs!TruncEnd, Fs!Lock
<1>2. Fs!TypeInv /\ Fs!OpOK(f)
  BY DEF Fs!BlockInv, Fs!FileOK
<1>3. /\ state[f] = "dead" /\ op[f].block = 0 /\ op[f].off \in Nat /\ op[f].off = Fs!MAXFILE + 1
      /\ state'[f] = "free" /\ op'[f] = Fs!NoOp
  BY <1>1, <1>2, Typed, Params DEF Fs!TypeInv, Fs!OpOK
<1>4. Fs!TypeInv'
  <2>1. inode' \in [File -> Fs!Inode]
    BY <1>1, <1>2 DEF Fs!TypeInv, Fs!Inode
  <2>2. Fs!NoOp \in [do : {"none", "write", "zero", "unmark"}, off : Nat, end : Nat,
                  block : Fs!Block \cup {0}]
    BY DEF Fs!NoOp
  <2> QED
    BY <1>1, <1>2, <2>1, <2>2 DEF Fs!TypeInv
<1>5. Only(f) /\ Within(f)
  BY <1>1, <1>2 DEF Only, Within, Fs!TypeInv
<1>6. Kept(f)
  <2>1. Fs!Owned(f)' = {}
    BY <1>3 DEF Fs!Owned, Fs!NoOp
  <2>2. \A n \in Fs!Owned(f) : n = Fs!MAXFILE + 1
    BY <1>3, Params DEF Fs!Owned
  <2>3. Fs!Held(f, Fs!MAXFILE + 1) = 0
    BY <1>3, Places
  <2> QED
    BY <1>1, <2>1, <2>2, <2>3 DEF Kept
<1>7. Fs!FileOK(f)'
  BY <1>3 DEF Fs!FileOK, Fs!OpOK, Fs!NoOp
<1> QED
  BY <1>1, <1>4, <1>5, <1>6, <1>7, Stay, Stepped

LEMMA WriteEndInv ==
  ASSUME Fs!FileBlocksAssumption, Fs!BlockInv, halted = "no", NEW f \in File, Fs!WriteEnd(f)
  PROVE  Fs!BlockInv'
<1> DEFINE end == op[f].end
<1>1. /\ op[f].do = "write" /\ op[f].off = end /\ op' = [op EXCEPT ![f] = Fs!NoOp]
      /\ used' = used /\ blocks' = blocks /\ state' = state
      /\ halted' = halted /\ crashes' = crashes
      /\ \/ /\ end > inode[f].size /\ inode' = [inode EXCEPT ![f].size = end]
            /\ dinode' = [dinode EXCEPT ![f] = inode'[f]]
         \/ ~ (end > inode[f].size) /\ inode' = inode /\ dinode' = dinode
  BY DEF Fs!WriteEnd, Fs!Lock, Fs!Same
<1>2. Fs!TypeInv /\ Fs!OpOK(f) /\ op[f].off \in Nat /\ end \in Nat /\ inode[f].size \in Nat
  BY Typed DEF Fs!BlockInv, Fs!FileOK
<1>3. /\ state[f] = "live" /\ op[f].block = 0 /\ end <= Fs!MAXFILE * BSIZE /\ op'[f] = Fs!NoOp
      /\ state'[f] = "live"
  BY <1>1, <1>2 DEF Fs!TypeInv, Fs!OpOK
<1> HIDE DEF end
<1>4. Fs!TypeInv'
  <2>1. inode' \in [File -> Fs!Inode]
    <3>1. inode \in [File -> Fs!Inode]
      BY <1>2 DEF Fs!TypeInv
    <3>2. [inode EXCEPT ![f].size = end] \in [File -> Fs!Inode]
      BY <1>2, <3>1 DEF Fs!Inode
    <3> QED
      BY <1>1, <3>1, <3>2
  <2>2. Fs!NoOp \in [do : {"none", "write", "zero", "unmark"}, off : Nat, end : Nat,
                  block : Fs!Block \cup {0}]
    BY DEF Fs!NoOp
  <2> QED
    BY <1>1, <1>2, <2>1, <2>2 DEF Fs!TypeInv
<1>5. Only(f) /\ Within(f)
  BY <1>1, <1>2 DEF Only, Within, Fs!TypeInv
<1>6. inode'[f].addrs = inode[f].addrs
  BY <1>1, <1>2 DEF Fs!TypeInv, Fs!Inode
<1>7. Kept(f)
  <2>1. Fs!Owned(f)' = 0 .. Fs!MAXFILE + 1 /\ Fs!Owned(f) = 0 .. Fs!MAXFILE + 1
    BY <1>3 DEF Fs!Owned
  <2>2. \A k \in Fs!Owned(f) : Fs!Held(f, k)' = Fs!Held(f, k)
    BY <1>1, <1>3, <1>6 DEF Fs!Held, Fs!Place, Fs!Bmap, Fs!NoOp
  <2> QED
    BY <1>1, <2>1, <2>2 DEF Kept
<1>8. Fs!Top(f)' = Fs!Top(f) /\ inode'[f].size = Fs!Top(f)
  <2>1. inode'[f].size = IF end > inode[f].size THEN end ELSE inode[f].size
    BY <1>1, <1>2 DEF Fs!TypeInv, Fs!Inode
  <2>2. Fs!Top(f) = IF end > inode[f].size THEN end ELSE inode[f].size
    BY <1>1 DEF Fs!Top
  <2> QED
    BY <1>2, <1>3, <2>1, <2>2 DEF Fs!Top, Fs!NoOp
<1>9. Fs!FileOK(f)'
  <2>1. Fs!OpOK(f)'
    BY <1>3 DEF Fs!OpOK, Fs!NoOp
  <2>2. CASE end > inode[f].size
    <3>1. Fs!ContentOK(f)
      BY <1>3, Tops
    <3>2. dinode'[f] = inode'[f]
      BY <1>1, <1>2, <2>2 DEF Fs!TypeInv
    <3>3. \A n : Fs!Bmap(inode[f], n)' = Fs!Bmap(inode[f], n)
      BY <1>1, <1>6 DEF Fs!Bmap
    <3>4. \A n : Fs!Bmap(dinode[f], n)' = Fs!Bmap(inode[f], n)
      BY <1>1, <1>6, <3>2 DEF Fs!Bmap
    <3>5. inode'[f].size <= Fs!MAXFILE * BSIZE
      BY <1>3, <1>8, Tops
    <3>6. Fs!DiskOK(f)'
      BY <1>8, <3>1, <3>2, <3>4, <3>5 DEF Fs!DiskOK, Fs!ContentOK
    <3>7. Fs!ContentOK(f)'
      BY <1>1, <1>8, <3>1, <3>3 DEF Fs!ContentOK, Fs!Readi
    <3> QED
      BY <2>1, <3>6, <3>7 DEF Fs!FileOK
  <2>3. CASE ~ (end > inode[f].size)
    <3>1. Fs!DiskOK(f)' /\ Fs!ContentOK(f)'
      BY <1>1, <1>3, <1>8, <2>3, Untouched
    <3> QED
      BY <2>1, <3>1 DEF Fs!FileOK
  <2> QED
    BY <2>2, <2>3
<1> QED
  BY <1>1, <1>4, <1>5, <1>7, <1>9, Stay, Stepped

-----------------------------------------------------------------------------
(* bmap() takes a block *)

\* The kernel halts.
LEMMA HaltInv ==
  ASSUME Fs!BlockInv, Fs!Panic("full")
  PROVE  Fs!BlockInv'
<1>1. /\ halted' = "full" /\ used' = used /\ blocks' = blocks /\ dinode' = dinode /\ inode' = inode
      /\ state' = state /\ op' = op /\ crashes' = crashes
  BY DEF Fs!Panic
<1>2. Fs!TypeInv'
  BY <1>1 DEF Fs!BlockInv, Fs!TypeInv
<1>3. Fs!OwnInv' /\ Fs!LostInv'
  BY <1>1 DEF Fs!BlockInv, Fs!OwnInv, Fs!LostInv, Fs!Owned, Fs!Held, Fs!Place, Fs!Bmap
<1>4. Fs!FreeZero'
  BY <1>1 DEF Fs!BlockInv, Fs!FreeZero
<1>5. \A f \in File : Fs!FileOK(f)'
  <2> SUFFICES ASSUME NEW f \in File PROVE Fs!FileOK(f)'
    OBVIOUS
  <2>1. Fs!FileOK(f)
    BY DEF Fs!BlockInv
  <2>2. Fs!OpOK(f)'
    BY <1>1, <2>1 DEF Fs!FileOK, Fs!OpOK, Fs!Bmap, Fs!TruncBlock
  <2>3. state[f] = "live" => Fs!DiskOK(f)'
    BY <1>1, <2>1 DEF Fs!FileOK, Fs!DiskOK, Fs!Bmap
  <2>4. state[f] = "live" => Fs!ContentOK(f)'
    BY <1>1, <2>1 DEF Fs!FileOK, Fs!ContentOK, Fs!Bmap, Fs!Readi, Fs!Top
  <2> QED
    BY <1>1, <2>2, <2>3, <2>4 DEF Fs!FileOK
<1>6. Fs!NoPanic'
  BY <1>1 DEF Fs!NoPanic
<1> QED
  BY <1>2, <1>3, <1>4, <1>5, <1>6 DEF Fs!BlockInv

\* A block that was free is put where none was.
LEMMA Taken ==
  ASSUME Fs!FileBlocksAssumption, Fs!BlockInv, NEW f \in File, NEW b \in Fs!Block, b \notin used,
         used' = used \cup {b}, Fs!Owned(f)' = Fs!Owned(f), NEW k \in Fs!Owned(f),
         Fs!Held(f, k) = 0, Fs!Held(f, k)' = b,
         \A j \in Fs!Owned(f) : j # k => Fs!Held(f, j)' = Fs!Held(f, j)
  PROVE  Handed(f)
<1>1. /\ \A j \in Fs!Owned(f) : Fs!Held(f, j) \in used \cup {0}
      /\ \A i, j \in Fs!Owned(f) : Fs!Held(f, i) = Fs!Held(f, j) /\ Fs!Held(f, i) # 0 => i = j
  BY DEF Fs!BlockInv, Fs!OwnInv
<1>2. \A a \in used : a # b /\ a \in used' /\ a # 0
  BY Params DEF Fs!BlockInv, Fs!TypeInv
<1>3. \A n \in Fs!Owned(f)' : Fs!Held(f, n)' # 0 =>
       /\ Fs!Held(f, n)' \in used'
       /\ Fs!Held(f, n)' \notin used \/ \E m \in Fs!Owned(f) : Fs!Held(f, m) = Fs!Held(f, n)'
  BY <1>1
<1>4. \A n, m \in Fs!Owned(f)' : Fs!Held(f, n)' = Fs!Held(f, m)' /\ Fs!Held(f, n)' # 0 => n = m
  BY <1>1, <1>2
<1>5. \A a \in used' : \/ a \in used /\ \A n \in Fs!Owned(f) : Fs!Held(f, n) # a
                       \/ \E n \in Fs!Owned(f)' : Fs!Held(f, n)' = a
  <2> SUFFICES ASSUME NEW a \in used', a \in used, NEW n \in Fs!Owned(f), Fs!Held(f, n) = a
               PROVE  \E m \in Fs!Owned(f)' : Fs!Held(f, m)' = a
    OBVIOUS
  <2>1. n # k
    BY <1>2
  <2> QED
    BY <2>1
<1> QED
  BY <1>2, <1>3, <1>4, <1>5 DEF Handed

\* What bmap() looks at, and that the block is the first that is free.
LEMMA Allocating ==
  ASSUME Fs!FileBlocksAssumption, Fs!BlockInv, NEW f \in File, Fs!WriteAlloc(f), NEW n,
         n = op[f].off \div BSIZE
  PROVE  /\ op[f].do = "write" /\ op[f].off < op[f].end /\ op[f].block = 0
         /\ state[f] = "live" /\ n \in 0 .. Fs!MAXFILE - 1 /\ Fs!Held(f, n) = 0
         /\ Fs!Bmap(inode[f], n) = 0
         /\ Fs!Panic("full") \/ \E b \in Fs!Block \ used :
              /\ used' = used \cup {b} /\ blocks' = blocks /\ dinode' = dinode /\ state' = state
              /\ halted' = halted /\ crashes' = crashes /\ blocks[b] = Fs!Zeros
              /\ LET i == IF n < NDIRECT THEN n ELSE NDIRECT
                 IN \/ /\ inode[f].addrs[i] = 0
                       /\ inode' = [inode EXCEPT ![f].addrs[i] = b] /\ op' = op
                    \/ /\ inode[f].addrs[i] # 0
                       /\ op' = [op EXCEPT ![f] = [op[f] EXCEPT !.block = b]] /\ inode' = inode
<1>1. op[f].do = "write" /\ op[f].off < op[f].end /\ op[f].block = 0 /\ Fs!Bmap(inode[f], n) = 0
  BY DEF Fs!WriteAlloc
<1>2. Fs!TypeInv /\ Fs!OpOK(f) /\ op[f].off \in Nat /\ op[f].end \in Nat
  BY Typed DEF Fs!BlockInv, Fs!FileOK
<1>3. state[f] = "live" /\ op[f].off < Fs!MAXFILE * BSIZE
  BY <1>1, <1>2, Params DEF Fs!OpOK
<1>4. n \in 0 .. Fs!MAXFILE - 1
  BY <1>2, <1>3, BlockOf
<1>5. Fs!Held(f, n) = 0
  BY <1>1, <1>4, Places
<1>6. CASE used = Fs!Block
  <2>1. Fs!Panic("full")
    BY <1>6 DEF Fs!WriteAlloc
  <2> QED
    BY <1>1, <1>3, <1>4, <1>5, <2>1
<1>7. CASE used # Fs!Block
  <2> DEFINE i == IF n < NDIRECT THEN n ELSE NDIRECT
  <2>1. PICK b \in Fs!Block :
          /\ Fs!Balloc(b)
          /\ IF inode[f].addrs[i] = 0
             THEN inode' = [inode EXCEPT ![f].addrs[i] = b] /\ UNCHANGED op
             ELSE Fs!Lock(f, [op[f] EXCEPT !.block = b]) /\ UNCHANGED inode
          /\ UNCHANGED <<blocks, dinode>> /\ Fs!Same
    BY <1>7 DEF Fs!WriteAlloc
  <2>2. b \in Fs!Block \ used
    <3>1. Fs!Block \ used # {} /\ Fs!Block \ used \subseteq Nat
      BY <1>2, <1>7, Params DEF Fs!TypeInv
    <3>2. Fs!Min(Fs!Block \ used) \in Fs!Block \ used
      BY <3>1, LeastIs
    <3> QED
      BY <2>1, <3>2 DEF Fs!Balloc
  <2>3. blocks[b] = Fs!Zeros
    BY <2>2 DEF Fs!BlockInv, Fs!FreeZero
  <2> HIDE DEF i
  <2>4. /\ used' = used \cup {b} /\ blocks' = blocks /\ dinode' = dinode /\ state' = state
        /\ halted' = halted /\ crashes' = crashes
        /\ \/ /\ inode[f].addrs[i] = 0
              /\ inode' = [inode EXCEPT ![f].addrs[i] = b] /\ op' = op
           \/ /\ inode[f].addrs[i] # 0
              /\ op' = [op EXCEPT ![f] = [op[f] EXCEPT !.block = b]] /\ inode' = inode
    BY <2>1 DEF Fs!Balloc, Fs!Lock, Fs!Same
  <2> QED
    BY <1>1, <1>3, <1>4, <1>5, <2>2, <2>3, <2>4 DEF i
<1> QED
  BY <1>6, <1>7

\* The block goes into the inode.
LEMMA AllocAddr ==
  ASSUME Fs!FileBlocksAssumption, Fs!BlockInv, halted = "no", NEW f \in File, NEW n,
         n = op[f].off \div BSIZE,
         op[f].do = "write", op[f].off < op[f].end, op[f].block = 0, state[f] = "live",
         n \in 0 .. Fs!MAXFILE - 1, Fs!Bmap(inode[f], n) = 0,
         NEW b \in Fs!Block \ used, used' = used \cup {b}, blocks' = blocks, dinode' = dinode,
         state' = state, halted' = halted, crashes' = crashes, blocks[b] = Fs!Zeros,
         NEW i, i = IF n < NDIRECT THEN n ELSE NDIRECT,
         inode[f].addrs[i] = 0, inode' = [inode EXCEPT ![f].addrs[i] = b], op' = op
  PROVE  Fs!BlockInv'
<1>1. Fs!TypeInv /\ Fs!OpOK(f) /\ NDIRECT \in Nat /\ Fs!MAXFILE \in Nat /\ BSIZE \in Nat
      /\ Fs!MAXFILE = NDIRECT + BSIZE /\ BSIZE >= 1 /\ n \in Nat /\ n < Fs!MAXFILE
  BY Params DEF Fs!BlockInv, Fs!FileOK
<1>2. i \in 0 .. NDIRECT /\ i \in Nat
  BY <1>1
<1>3. /\ inode' \in [File -> Fs!Inode] /\ inode'[f].size = inode[f].size
      /\ inode'[f].addrs[i] = b /\ \A j \in 0 .. NDIRECT : j # i => inode'[f].addrs[j] = inode[f].addrs[j]
      /\ \A g \in File \ {f} : inode'[g] = inode[g]
  <2>1. inode \in [File -> Fs!Inode]
    BY <1>1 DEF Fs!TypeInv
  <2> QED
    BY <1>2, <2>1 DEF Fs!Inode
<1>4. Fs!TypeInv'
  BY <1>1, <1>3 DEF Fs!TypeInv
<1>5. Only(f) /\ Within(f)
  BY <1>3 DEF Only, Within
<1>6. Fs!Owned(f) = 0 .. Fs!MAXFILE + 1 /\ Fs!Owned(f)' = 0 .. Fs!MAXFILE + 1
  BY DEF Fs!Owned
<1> DEFINE k == IF n < NDIRECT THEN n ELSE Fs!MAXFILE
<1>7. k \in Fs!Owned(f) /\ Fs!Held(f, k) = 0 /\ Fs!Held(f, k)' = b /\ k \in Nat
  <2>1. CASE n < NDIRECT
    BY <1>1, <1>3, <1>6, <2>1, Places, PlacesNext
  <2>2. CASE ~ (n < NDIRECT)
    BY <1>1, <1>3, <1>6, <2>2, Places, PlacesNext
  <2> QED
    BY <2>1, <2>2
<1>8. \A j \in Fs!Owned(f) : j # k => Fs!Held(f, j)' = Fs!Held(f, j)
  <2> SUFFICES ASSUME NEW j \in 0 .. Fs!MAXFILE + 1, j # k PROVE Fs!Held(f, j)' = Fs!Held(f, j)
    BY <1>6
  <2>1. CASE j < NDIRECT
    <3>1. j # i
      BY <1>1, <2>1
    <3>2. inode'[f].addrs[j] = inode[f].addrs[j]
      BY <1>1, <1>3, <2>1, <3>1
    <3> QED
      BY <2>1, <3>2, Places, PlacesNext
  <2>2. CASE j \in NDIRECT .. Fs!MAXFILE - 1
    <3>1. CASE i = NDIRECT
      <4>1. blocks[b][j - NDIRECT] = 0
        BY <1>1, <2>2, Params DEF Fs!Zeros
      <4>2. Fs!Held(f, j) = 0
        BY <2>2, <3>1, Places
      <4>3. inode'[f].addrs[NDIRECT] = b
        BY <1>3, <3>1
      <4>4. Fs!Held(f, j)' = IF inode'[f].addrs[NDIRECT] = 0 THEN 0
                          ELSE blocks'[inode'[f].addrs[NDIRECT]][j - NDIRECT]
        BY <2>2, PlacesNext
      <4> QED
        BY <4>1, <4>2, <4>3, <4>4
    <3>2. CASE i # NDIRECT
      <4>1. inode'[f].addrs[NDIRECT] = inode[f].addrs[NDIRECT]
        BY <1>1, <1>3, <3>2
      <4>2. Fs!Held(f, j)' = IF inode'[f].addrs[NDIRECT] = 0 THEN 0
                          ELSE blocks'[inode'[f].addrs[NDIRECT]][j - NDIRECT]
        BY <2>2, PlacesNext
      <4>3. Fs!Held(f, j) = IF inode[f].addrs[NDIRECT] = 0 THEN 0
                         ELSE blocks[inode[f].addrs[NDIRECT]][j - NDIRECT]
        BY <2>2, Places
      <4> QED
        BY <4>1, <4>2, <4>3
    <3> QED
      BY <3>1, <3>2
  <2>3. CASE j = Fs!MAXFILE
    <3>1. i # NDIRECT
      BY <1>1, <2>3
    <3>2. inode'[f].addrs[NDIRECT] = inode[f].addrs[NDIRECT]
      BY <1>1, <1>3, <3>1
    <3> QED
      BY <2>3, <3>2, Places, PlacesNext
  <2>4. CASE j = Fs!MAXFILE + 1
    BY <2>4, Places, PlacesNext
  <2> QED
    BY <1>1, <2>1, <2>2, <2>3, <2>4
<1> HIDE DEF k
<1>9. Handed(f)
  BY <1>6, <1>7, <1>8, Taken
<1>10. ASSUME NEW j \in 0 .. Fs!MAXFILE - 1
       PROVE  /\ Fs!Bmap(inode[f], j) # 0 => Fs!Bmap(inode[f], j)' = Fs!Bmap(inode[f], j)
              /\ Fs!Bmap(inode[f], j)' \in {b, Fs!Bmap(inode[f], j)}
  <2>1. j \in Fs!Owned(f)
    BY <1>6, Places
  <2>2. Fs!Bmap(inode[f], j) = Fs!Held(f, j) /\ Fs!Bmap(inode[f], j)' = Fs!Held(f, j)'
    BY Places, PlacesNext
  <2>3. CASE j = k
    BY <1>7, <2>2, <2>3
  <2>4. CASE j # k
    BY <1>8, <2>1, <2>2, <2>4
  <2> QED
    BY <2>3, <2>4
<1>11. Fs!Top(f)' = Fs!Top(f) /\ Fs!Top(f) \in Nat /\ Fs!Top(f) <= Fs!MAXFILE * BSIZE /\ Fs!MAXFILE * BSIZE \in Nat
       /\ Fs!DiskOK(f) /\ Fs!ContentOK(f)
  BY <1>3, Tops DEF Fs!Top
<1>12. Fs!OpOK(f)'
  BY <1>1 DEF Fs!OpOK
<1>13. Fs!DiskOK(f)'
  <2>1. \A j \in 0 .. NDIRECT : dinode[f].addrs[j] \in {0, inode'[f].addrs[j]}
    BY <1>3, <1>11 DEF Fs!DiskOK
  <2> QED
    BY <1>3, <1>11, <2>1 DEF Fs!DiskOK, Fs!Bmap
<1>14. Fs!ContentOK(f)'
  <2>1. ASSUME NEW o \in 0 .. Fs!MAXFILE * BSIZE - 1
        PROVE  /\ Fs!Bmap(inode[f], o \div BSIZE) # 0 =>
                    /\ Fs!Bmap(inode[f], o \div BSIZE)' = Fs!Bmap(inode[f], o \div BSIZE)
                    /\ Fs!Readi(inode[f], o)' = Fs!Readi(inode[f], o)
               /\ Fs!Bmap(inode[f], o \div BSIZE)' # Fs!Bmap(inode[f], o \div BSIZE) =>
                    Fs!Readi(inode[f], o)' = 0
    <3> DEFINE j == o \div BSIZE
    <3>1. j \in 0 .. Fs!MAXFILE - 1 /\ o % BSIZE \in Fs!Cell
      BY <1>11, BlockOf
    <3> HIDE DEF j
    <3>2. /\ Fs!Bmap(inode[f], j) # 0 => Fs!Bmap(inode[f], j)' = Fs!Bmap(inode[f], j)
          /\ Fs!Bmap(inode[f], j)' \in {b, Fs!Bmap(inode[f], j)}
      BY <1>10, <3>1
    <3>3. blocks[b][o % BSIZE] = 0
      BY <3>1 DEF Fs!Zeros
    <3> QED
      BY <3>2, <3>3 DEF Fs!Readi, j
  <2>2. \A o \in 0 .. Fs!Top(f) - 1 :
          Fs!Bmap(inode[f], o \div BSIZE)' # 0 /\ Fs!Readi(inode[f], o)' = Text[f][o]
    <3> SUFFICES ASSUME NEW o \in 0 .. Fs!Top(f) - 1
                 PROVE  Fs!Bmap(inode[f], o \div BSIZE)' # 0 /\ Fs!Readi(inode[f], o)' = Text[f][o]
      OBVIOUS
    <3>1. o \in 0 .. Fs!MAXFILE * BSIZE - 1
      BY <1>11
    <3> QED
      BY <1>11, <2>1, <3>1 DEF Fs!ContentOK
  <2>3. crashes = 0 => \A o \in Fs!Top(f) .. Fs!MAXFILE * BSIZE - 1 :
          Fs!Bmap(inode[f], o \div BSIZE)' # 0 => Fs!Readi(inode[f], o)' = 0
    <3> SUFFICES ASSUME crashes = 0, NEW o \in Fs!Top(f) .. Fs!MAXFILE * BSIZE - 1,
                        Fs!Bmap(inode[f], o \div BSIZE)' # 0
                 PROVE  Fs!Readi(inode[f], o)' = 0
      OBVIOUS
    <3>1. o \in 0 .. Fs!MAXFILE * BSIZE - 1
      BY <1>11
    <3> QED
      BY <1>11, <2>1, <3>1 DEF Fs!ContentOK
  <2> QED
    BY <1>11, <2>2, <2>3 DEF Fs!ContentOK
<1> QED
  BY <1>4, <1>5, <1>9, <1>12, <1>13, <1>14, Stepped DEF Fs!FileOK

\* The block is to be entered in the indirect block.
LEMMA AllocPointer ==
  ASSUME Fs!FileBlocksAssumption, Fs!BlockInv, halted = "no", NEW f \in File, NEW n,
         n = op[f].off \div BSIZE,
         op[f].do = "write", op[f].off < op[f].end, op[f].block = 0, state[f] = "live",
         n \in 0 .. Fs!MAXFILE - 1, Fs!Bmap(inode[f], n) = 0,
         NEW b \in Fs!Block \ used, used' = used \cup {b}, blocks' = blocks, dinode' = dinode,
         state' = state, halted' = halted, crashes' = crashes, blocks[b] = Fs!Zeros,
         inode[f].addrs[IF n < NDIRECT THEN n ELSE NDIRECT] # 0,
         op' = [op EXCEPT ![f] = [op[f] EXCEPT !.block = b]], inode' = inode
  PROVE  Fs!BlockInv'
<1>1. Fs!TypeInv /\ Fs!OpOK(f) /\ n \in Nat /\ n < Fs!MAXFILE /\ b # 0
  BY Params DEF Fs!BlockInv, Fs!FileOK
<1>2. n >= NDIRECT /\ inode[f].addrs[NDIRECT] # 0
  BY <1>1, Params DEF Fs!Bmap
<1>3. /\ op'[f].do = op[f].do /\ op'[f].off = op[f].off /\ op'[f].end = op[f].end
      /\ op'[f].block = b /\ \A g \in File \ {f} : op'[g] = op[g]
  BY <1>1 DEF Fs!TypeInv
<1>4. Fs!TypeInv'
  BY <1>1 DEF Fs!TypeInv
<1>5. Only(f) /\ Within(f)
  BY <1>3 DEF Only, Within
<1>6. Fs!Owned(f) = 0 .. Fs!MAXFILE + 1 /\ Fs!Owned(f)' = 0 .. Fs!MAXFILE + 1
  BY DEF Fs!Owned
<1>7. /\ Fs!MAXFILE + 1 \in Fs!Owned(f) /\ Fs!Held(f, Fs!MAXFILE + 1) = 0 /\ Fs!Held(f, Fs!MAXFILE + 1)' = b
  BY <1>3, <1>6, Places, PlacesNext
<1>8. \A j \in Fs!Owned(f) : j # Fs!MAXFILE + 1 => Fs!Held(f, j)' = Fs!Held(f, j)
  BY <1>6, Params DEF Fs!Held, Fs!Place, Fs!Bmap
<1>9. Handed(f)
  BY <1>6, <1>7, <1>8, Taken
<1>10. Fs!OpOK(f)'
  <2>1. Fs!Bmap(inode[f], n)' = 0
    BY DEF Fs!Bmap
  <2> QED
    BY <1>1, <1>2, <1>3, <2>1 DEF Fs!OpOK
<1>11. Fs!Top(f)' = Fs!Top(f)
  BY <1>3 DEF Fs!Top
<1>12. Fs!DiskOK(f)' /\ Fs!ContentOK(f)'
  BY <1>11, Untouched
<1> QED
  BY <1>4, <1>5, <1>9, <1>10, <1>12, Stepped DEF Fs!FileOK

LEMMA WriteAllocInv ==
  ASSUME Fs!FileBlocksAssumption, Fs!BlockInv, halted = "no", NEW f \in File, Fs!WriteAlloc(f)
  PROVE  Fs!BlockInv'
<1>1. PICK n : n = op[f].off \div BSIZE
  OBVIOUS
<1>2. PICK i : i = IF n < NDIRECT THEN n ELSE NDIRECT
  OBVIOUS
<1>3. /\ op[f].do = "write" /\ op[f].off < op[f].end /\ op[f].block = 0
      /\ state[f] = "live" /\ n \in 0 .. Fs!MAXFILE - 1
      /\ Fs!Bmap(inode[f], n) = 0
  BY <1>1, Allocating
<1>4. Fs!Panic("full") \/ \E b \in Fs!Block \ used :
        /\ used' = used \cup {b} /\ blocks' = blocks /\ dinode' = dinode /\ state' = state
        /\ halted' = halted /\ crashes' = crashes /\ blocks[b] = Fs!Zeros
        /\ \/ /\ inode[f].addrs[i] = 0
              /\ inode' = [inode EXCEPT ![f].addrs[i] = b] /\ op' = op
           \/ /\ inode[f].addrs[i] # 0
              /\ op' = [op EXCEPT ![f] = [op[f] EXCEPT !.block = b]] /\ inode' = inode
  BY <1>1, <1>2, Allocating
<1>5. CASE Fs!Panic("full")
  BY <1>5, HaltInv
<1>6. CASE ~ Fs!Panic("full")
  <2>1. PICK b \in Fs!Block \ used :
          /\ used' = used \cup {b} /\ blocks' = blocks /\ dinode' = dinode /\ state' = state
          /\ halted' = halted /\ crashes' = crashes /\ blocks[b] = Fs!Zeros
          /\ \/ /\ inode[f].addrs[i] = 0
                /\ inode' = [inode EXCEPT ![f].addrs[i] = b] /\ op' = op
             \/ /\ inode[f].addrs[i] # 0
                /\ op' = [op EXCEPT ![f] = [op[f] EXCEPT !.block = b]] /\ inode' = inode
    BY <1>4, <1>6
  <2>2. CASE inode[f].addrs[i] = 0
    BY <1>1, <1>2, <1>3, <2>1, <2>2, AllocAddr
  <2>3. CASE inode[f].addrs[i] # 0
    BY <1>1, <1>2, <1>3, <2>1, <2>3, AllocPointer
  <2> QED
    BY <2>2, <2>3
<1> QED
  BY <1>5, <1>6

-----------------------------------------------------------------------------
(* bmap() enters a block, and writei() writes one *)

\* Blocks at two places of a file are not the same.
LEMMA Apart ==
  ASSUME Fs!FileBlocksAssumption, Fs!BlockInv, NEW f \in File, NEW i \in Fs!Owned(f), NEW j \in Fs!Owned(f),
         i # j, Fs!Held(f, i) # 0
  PROVE  Fs!Held(f, i) # Fs!Held(f, j) /\ Fs!Held(f, i) \in used /\ Fs!Held(f, i) \in Fs!Block
BY DEF Fs!BlockInv, Fs!OwnInv, Fs!TypeInv

LEMMA WritePointerInv ==
  ASSUME Fs!FileBlocksAssumption, Fs!BlockInv, halted = "no", NEW f \in File, Fs!WritePointer(f)
  PROVE  Fs!BlockInv'
<1> DEFINE q == op[f]
           b == op[f].block
           ind == inode[f].addrs[NDIRECT]
<1>1. PICK n : n = op[f].off \div BSIZE
  OBVIOUS
<1>2. /\ q.do = "write" /\ b # 0
      /\ blocks' = [blocks EXCEPT ![ind][n - NDIRECT] = b]
      /\ op' = [op EXCEPT ![f] = [q EXCEPT !.block = 0]]
      /\ used' = used /\ dinode' = dinode /\ inode' = inode
      /\ state' = state /\ halted' = halted /\ crashes' = crashes
  BY <1>1 DEF Fs!WritePointer, Fs!Lock, Fs!Same
<1>3. Fs!TypeInv /\ Fs!OpOK(f) /\ NDIRECT \in Nat /\ Fs!MAXFILE \in Nat /\ BSIZE \in Nat
      /\ Fs!MAXFILE = NDIRECT + BSIZE /\ BSIZE >= 1 /\ Fs!Block \subseteq Nat /\ Fs!Cell = 0 .. BSIZE - 1
      /\ q.off \in Nat /\ q.end \in Nat
  BY Params, Typed DEF Fs!BlockInv, Fs!FileOK
<1>4. /\ state[f] = "live" /\ q.off < q.end /\ q.end <= Fs!MAXFILE * BSIZE /\ n >= NDIRECT /\ ind # 0
      /\ Fs!Bmap(inode[f], n) = 0 /\ blocks[b] = Fs!Zeros
  BY <1>1, <1>2, <1>3 DEF Fs!OpOK
<1>5. n \in 0 .. Fs!MAXFILE - 1 /\ n - NDIRECT \in Fs!Cell
  <2>1. q.off < Fs!MAXFILE * BSIZE
    BY <1>3, <1>4, Params
  <2>2. n \in 0 .. Fs!MAXFILE - 1
    BY <1>1, <1>3, <2>1, BlockOf
  <2> QED
    BY <1>3, <1>4, <2>2
<1>6. Fs!Owned(f) = 0 .. Fs!MAXFILE + 1 /\ Fs!Owned(f)' = 0 .. Fs!MAXFILE + 1
  <2>1. state'[f] = "live"
    BY <1>2, <1>4
  <2> QED
    BY <1>4, <2>1 DEF Fs!Owned
<1>7. /\ n \in Fs!Owned(f) /\ Fs!MAXFILE \in Fs!Owned(f) /\ Fs!MAXFILE + 1 \in Fs!Owned(f)
      /\ n # Fs!MAXFILE /\ n # Fs!MAXFILE + 1 /\ Fs!MAXFILE # Fs!MAXFILE + 1
      /\ Fs!Held(f, n) = 0 /\ Fs!Held(f, Fs!MAXFILE) = ind /\ Fs!Held(f, Fs!MAXFILE + 1) = b
  <2>1. /\ n \in 0 .. Fs!MAXFILE + 1 /\ Fs!MAXFILE \in 0 .. Fs!MAXFILE + 1 /\ Fs!MAXFILE + 1 \in 0 .. Fs!MAXFILE + 1
        /\ n # Fs!MAXFILE /\ n # Fs!MAXFILE + 1 /\ Fs!MAXFILE # Fs!MAXFILE + 1
    BY <1>3, <1>5
  <2>2. Fs!Held(f, n) = 0 /\ Fs!Held(f, Fs!MAXFILE) = ind /\ Fs!Held(f, Fs!MAXFILE + 1) = b
    BY <1>4, <1>5, Places
  <2> QED
    BY <1>6, <2>1, <2>2
<1>8. ind \in Fs!Block /\ b \in Fs!Block /\ ind # b
  BY <1>2, <1>4, <1>7, Apart
<1> HIDE DEF q, b, ind
<1>9. /\ blocks' \in [Fs!Block -> [Fs!Cell -> Nat]] /\ blocks'[ind][n - NDIRECT] = b
      /\ \A c \in Fs!Cell : c # n - NDIRECT => blocks'[ind][c] = blocks[ind][c]
      /\ \A a \in Fs!Block : a # ind => blocks'[a] = blocks[a]
  <2>1. blocks \in [Fs!Block -> [Fs!Cell -> Nat]] /\ b \in Nat
    BY <1>3, <1>8 DEF Fs!TypeInv
  <2> QED
    BY <1>2, <1>5, <1>8, <2>1
<1>10. /\ op'[f].do = "write" /\ op'[f].off = q.off /\ op'[f].end = q.end /\ op'[f].block = 0
       /\ \A g \in File \ {f} : op'[g] = op[g]
       /\ op' \in [File -> [do : {"none", "write", "zero", "unmark"}, off : Nat, end : Nat,
                            block : Fs!Block \cup {0}]]
  BY <1>2, <1>3 DEF Fs!TypeInv, q
<1>11. Fs!TypeInv'
  BY <1>2, <1>3, <1>9, <1>10 DEF Fs!TypeInv
<1>12. Only(f)
  BY <1>2, <1>10 DEF Only
<1>13. Within(f)
  BY <1>7, <1>9 DEF Within
<1>14. Fs!Held(f, n)' = b /\ Fs!Held(f, Fs!MAXFILE + 1)' = 0
  <2>1. Fs!Held(f, n)' = IF inode'[f].addrs[NDIRECT] = 0 THEN 0
                      ELSE blocks'[inode'[f].addrs[NDIRECT]][n - NDIRECT]
    <3>1. n \in NDIRECT .. Fs!MAXFILE - 1
      BY <1>3, <1>4, <1>5
    <3> QED
      BY <3>1, PlacesNext
  <2> QED
    BY <1>2, <1>4, <1>9, <1>10, <2>1, PlacesNext DEF ind
<1>15. \A j \in Fs!Owned(f) : j # n /\ j # Fs!MAXFILE + 1 => Fs!Held(f, j)' = Fs!Held(f, j)
  <2> SUFFICES ASSUME NEW j \in 0 .. Fs!MAXFILE + 1, j # n, j # Fs!MAXFILE + 1
               PROVE  Fs!Held(f, j)' = Fs!Held(f, j)
    BY <1>6
  <2>1. CASE j < NDIRECT
    BY <1>2, <2>1, Places, PlacesNext
  <2>2. CASE j \in NDIRECT .. Fs!MAXFILE - 1
    <3>1. Fs!Held(f, j)' = IF inode'[f].addrs[NDIRECT] = 0 THEN 0
                        ELSE blocks'[inode'[f].addrs[NDIRECT]][j - NDIRECT]
      BY <2>2, PlacesNext
    <3>2. Fs!Held(f, j) = IF inode[f].addrs[NDIRECT] = 0 THEN 0
                       ELSE blocks[inode[f].addrs[NDIRECT]][j - NDIRECT]
      BY <2>2, Places
    <3>3. j - NDIRECT \in Fs!Cell /\ j - NDIRECT # n - NDIRECT
      BY <1>3, <1>5, <2>2
    <3> QED
      BY <1>2, <1>9, <3>1, <3>2, <3>3 DEF ind
  <2>3. CASE j = Fs!MAXFILE
    BY <1>2, <2>3, Places, PlacesNext
  <2> QED
    BY <1>3, <2>1, <2>2, <2>3
<1>16. Handed(f)
  <2>1. /\ \A j \in Fs!Owned(f) : Fs!Held(f, j) \in used \cup {0}
        /\ \A i, j \in Fs!Owned(f) : Fs!Held(f, i) = Fs!Held(f, j) /\ Fs!Held(f, i) # 0 => i = j
    BY DEF Fs!BlockInv, Fs!OwnInv
  <2>2. b \in used /\ b # 0 /\ 0 \notin used
    BY <1>2, <1>3, <1>7, <2>1, Params DEF b, Fs!TypeInv
  <2>3. \A i \in Fs!Owned(f) : Fs!Held(f, i)' # 0 =>
          /\ Fs!Held(f, i)' \in used
          /\ \E j \in Fs!Owned(f) : Fs!Held(f, j) = Fs!Held(f, i)'
    BY <1>7, <1>14, <1>15, <2>1, <2>2
  <2>4. \A i, j \in Fs!Owned(f) : Fs!Held(f, i)' = Fs!Held(f, j)' /\ Fs!Held(f, i)' # 0 => i = j
    <3>1. \A i \in Fs!Owned(f) : Fs!Held(f, i)' = b => i = n
      BY <1>7, <1>14, <1>15, <2>1, <2>2
    <3> QED
      BY <1>14, <1>15, <2>1, <2>2, <3>1
  <2>5. \A i \in Fs!Owned(f) : Fs!Held(f, i) # 0 => \E j \in Fs!Owned(f) : Fs!Held(f, j)' = Fs!Held(f, i)
    BY <1>7, <1>14, <1>15
  <2> QED
    BY <1>2, <1>6, <2>2, <2>3, <2>4, <2>5 DEF Handed
<1>17. ASSUME NEW j \in 0 .. Fs!MAXFILE - 1
       PROVE  \/ /\ j # n /\ Fs!Bmap(inode[f], j)' = Fs!Bmap(inode[f], j)
                 /\ Fs!Bmap(inode[f], j) # 0 => blocks'[Fs!Bmap(inode[f], j)] = blocks[Fs!Bmap(inode[f], j)]
              \/ /\ j = n /\ Fs!Bmap(inode[f], j) = 0 /\ Fs!Bmap(inode[f], j)' = b
                 /\ blocks'[b] = Fs!Zeros
  <2>1. j \in Fs!Owned(f) /\ Fs!Bmap(inode[f], j) = Fs!Held(f, j) /\ Fs!Bmap(inode[f], j)' = Fs!Held(f, j)'
        /\ j # Fs!MAXFILE /\ j # Fs!MAXFILE + 1
    BY <1>3, <1>6, Places, PlacesNext
  <2>2. CASE j = n
    BY <1>4, <1>7, <1>8, <1>9, <1>14, <2>1, <2>2 DEF b
  <2>3. CASE j # n
    <3>1. Fs!Held(f, j) # 0 => Fs!Held(f, j) # ind /\ Fs!Held(f, j) \in Fs!Block
      BY <1>7, <2>1, Apart
    <3> QED
      BY <1>9, <1>15, <2>1, <2>3, <3>1
  <2> QED
    BY <2>2, <2>3
<1>18. Fs!Top(f)' = Fs!Top(f) /\ Fs!Top(f) \in Nat /\ Fs!Top(f) <= Fs!MAXFILE * BSIZE /\ Fs!MAXFILE * BSIZE \in Nat
       /\ Fs!DiskOK(f) /\ Fs!ContentOK(f) /\ inode[f].size \in Nat /\ inode[f].size <= Fs!Top(f)
  BY <1>2, <1>4, <1>10, Tops DEF Fs!Top, q
<1>19. Fs!OpOK(f)'
  BY <1>2, <1>3, <1>4, <1>10 DEF Fs!OpOK
<1>20. Fs!DiskOK(f)'
  <2>1. ASSUME NEW o \in 0 .. inode[f].size - 1 PROVE Fs!Bmap(dinode[f], o \div BSIZE)' # 0
    <3> DEFINE j == o \div BSIZE
    <3>1. j \in 0 .. Fs!MAXFILE - 1
      BY <1>18, BlockOf
    <3>2. Fs!Bmap(dinode[f], j) # 0
      BY <1>18 DEF Fs!DiskOK
    <3> HIDE DEF j
    <3>3. dinode[f].addrs[NDIRECT] \in {0, ind}
      <4>1. NDIRECT \in 0 .. NDIRECT
        BY <1>3
      <4> QED
        BY <1>18, <4>1 DEF Fs!DiskOK, ind
    <3>4. CASE j < NDIRECT
      BY <1>2, <3>2, <3>4 DEF Fs!Bmap, j
    <3>5. CASE ~ (j < NDIRECT)
      <4>1. dinode[f].addrs[NDIRECT] = ind /\ blocks[ind][j - NDIRECT] # 0
        BY <3>2, <3>3, <3>5 DEF Fs!Bmap
      <4>2. blocks'[ind][j - NDIRECT] # 0
        <5>1. j - NDIRECT \in Fs!Cell
          BY <1>3, <3>1, <3>5
        <5> QED
          BY <1>2, <1>9, <4>1, <5>1 DEF b
      <4> QED
        BY <1>2, <1>4, <3>5, <4>1, <4>2 DEF Fs!Bmap, j, ind
    <3> QED
      BY <3>4, <3>5
  <2> QED
    BY <1>2, <1>18, <2>1 DEF Fs!DiskOK
<1>21. Fs!ContentOK(f)'
  <2>1. ASSUME NEW o \in 0 .. Fs!MAXFILE * BSIZE - 1
        PROVE  /\ Fs!Bmap(inode[f], o \div BSIZE) # 0 =>
                    /\ Fs!Bmap(inode[f], o \div BSIZE)' # 0
                    /\ Fs!Readi(inode[f], o)' = Fs!Readi(inode[f], o)
               /\ Fs!Bmap(inode[f], o \div BSIZE) = 0 /\ Fs!Bmap(inode[f], o \div BSIZE)' # 0 =>
                    Fs!Readi(inode[f], o)' = 0
    <3> DEFINE j == o \div BSIZE
    <3>1. j \in 0 .. Fs!MAXFILE - 1 /\ o % BSIZE \in Fs!Cell
      BY <1>18, BlockOf
    <3> HIDE DEF j
    <3>2. \/ /\ Fs!Bmap(inode[f], j)' = Fs!Bmap(inode[f], j)
             /\ Fs!Bmap(inode[f], j) # 0 => blocks'[Fs!Bmap(inode[f], j)] = blocks[Fs!Bmap(inode[f], j)]
          \/ /\ Fs!Bmap(inode[f], j) = 0 /\ Fs!Bmap(inode[f], j)' = b
             /\ blocks'[b] = Fs!Zeros
      BY <1>17, <3>1
    <3>3. Fs!Zeros[o % BSIZE] = 0
      BY <3>1 DEF Fs!Zeros
    <3> QED
      BY <3>2, <3>3 DEF Fs!Readi, j
  <2>2. \A o \in 0 .. Fs!Top(f) - 1 :
          Fs!Bmap(inode[f], o \div BSIZE)' # 0 /\ Fs!Readi(inode[f], o)' = Text[f][o]
    <3> SUFFICES ASSUME NEW o \in 0 .. Fs!Top(f) - 1
                 PROVE  Fs!Bmap(inode[f], o \div BSIZE)' # 0 /\ Fs!Readi(inode[f], o)' = Text[f][o]
      OBVIOUS
    <3>1. o \in 0 .. Fs!MAXFILE * BSIZE - 1
      BY <1>18
    <3> QED
      BY <1>18, <2>1, <3>1 DEF Fs!ContentOK
  <2>3. crashes = 0 => \A o \in Fs!Top(f) .. Fs!MAXFILE * BSIZE - 1 :
          Fs!Bmap(inode[f], o \div BSIZE)' # 0 => Fs!Readi(inode[f], o)' = 0
    <3> SUFFICES ASSUME crashes = 0, NEW o \in Fs!Top(f) .. Fs!MAXFILE * BSIZE - 1,
                        Fs!Bmap(inode[f], o \div BSIZE)' # 0
                 PROVE  Fs!Readi(inode[f], o)' = 0
      OBVIOUS
    <3>1. o \in 0 .. Fs!MAXFILE * BSIZE - 1
      BY <1>18
    <3> QED
      BY <1>18, <2>1, <3>1 DEF Fs!ContentOK
  <2> QED
    BY <1>2, <1>18, <2>2, <2>3 DEF Fs!ContentOK
<1>22. Fs!FileOK(f)' /\ halted' # "bad"
  BY <1>2, <1>19, <1>20, <1>21 DEF Fs!FileOK
<1> QED
  BY <1>11, <1>12, <1>13, <1>16, <1>22, Stepped

\* A write to a block of the file other than the indirect one moves none.
LEMMA Overwrites ==
  ASSUME Fs!FileBlocksAssumption, Fs!BlockInv, NEW f \in File, NEW k \in Fs!Owned(f), Fs!Held(f, k) # 0,
         \A b \in Fs!Block : b # Fs!Held(f, k) => blocks'[b] = blocks[b],
         inode' = inode, NEW j \in Fs!Owned(f), k < Fs!MAXFILE \/ j >= Fs!MAXFILE,
         op'[f].block = op[f].block
  PROVE  Fs!Held(f, j)' = Fs!Held(f, j)
<1>1. /\ j \in 0 .. Fs!MAXFILE + 1 /\ k \in 0 .. Fs!MAXFILE + 1 /\ NDIRECT \in Nat /\ Fs!MAXFILE \in Nat
      /\ Fs!TypeInv
  BY Owning, Params DEF Fs!BlockInv
<1>2. CASE j < NDIRECT
  BY <1>1, <1>2, Places, PlacesNext
<1>3. CASE j \in NDIRECT .. Fs!MAXFILE - 1
  <2>1. Fs!MAXFILE \in Fs!Owned(f) /\ k # Fs!MAXFILE
    BY <1>1, <1>3, Owning, Places
  <2>2. Fs!Held(f, Fs!MAXFILE) # Fs!Held(f, k) /\ Fs!Held(f, Fs!MAXFILE) = inode[f].addrs[NDIRECT]
    BY <2>1, Apart, Places
  <2>3. inode[f].addrs[NDIRECT] # 0 => inode[f].addrs[NDIRECT] \in Fs!Block
    BY <1>1, Typed
  <2>4. inode[f].addrs[NDIRECT] # 0 =>
          blocks'[inode[f].addrs[NDIRECT]] = blocks[inode[f].addrs[NDIRECT]]
    BY <2>2, <2>3
  <2>5. Fs!Held(f, j)' = IF inode'[f].addrs[NDIRECT] = 0 THEN 0
                      ELSE blocks'[inode'[f].addrs[NDIRECT]][j - NDIRECT]
    BY <1>3, PlacesNext
  <2>6. Fs!Held(f, j) = IF inode[f].addrs[NDIRECT] = 0 THEN 0
                     ELSE blocks[inode[f].addrs[NDIRECT]][j - NDIRECT]
    BY <1>3, Places
  <2> QED
    BY <2>4, <2>5, <2>6
<1>4. CASE j = Fs!MAXFILE
  BY <1>4, Places, PlacesNext
<1>5. CASE j = Fs!MAXFILE + 1
  BY <1>5, Places, PlacesNext
<1> QED
  BY <1>1, <1>2, <1>3, <1>4, <1>5

\* One block of a write: m cells from the r-th on, at offset off of the file.
LEMMA WriteDataInv ==
  ASSUME Fs!FileBlocksAssumption, Fs!BlockInv, halted = "no", NEW f \in File, Fs!WriteData(f)
  PROVE  Fs!BlockInv'
<1>1. PICK off, end, n, b, r, m : /\ off = op[f].off /\ end = op[f].end
                                  /\ n = off \div BSIZE /\ b = Fs!Bmap(inode[f], n)
                                  /\ r = off % BSIZE /\ m = Fs!Min({end - off, BSIZE - r})
  OBVIOUS
<1>2. /\ op[f].do = "write" /\ off < end /\ op[f].block = 0 /\ b # 0
      /\ blocks' = [blocks EXCEPT ![b] = [c \in Fs!Cell |->
           IF c \in r .. r + m - 1 THEN Text[f][off - r + c] ELSE blocks[b][c]]]
      /\ op' = [op EXCEPT ![f] = [op[f] EXCEPT !.off = off + m]]
      /\ used' = used /\ dinode' = dinode /\ inode' = inode
      /\ state' = state /\ halted' = halted /\ crashes' = crashes
  BY <1>1 DEF Fs!WriteData, Fs!Lock, Fs!Same
<1>3. Fs!TypeInv /\ Fs!OpOK(f) /\ NDIRECT \in Nat /\ Fs!MAXFILE \in Nat /\ BSIZE \in Nat
      /\ Fs!MAXFILE = NDIRECT + BSIZE /\ BSIZE >= 1 /\ Fs!Cell = 0 .. BSIZE - 1
      /\ off \in Nat /\ end \in Nat /\ Fs!MAXFILE * BSIZE \in Nat
  BY <1>1, Params, Typed DEF Fs!BlockInv, Fs!FileOK
<1>4. state[f] = "live" /\ end <= Fs!MAXFILE * BSIZE
  BY <1>1, <1>2, <1>3 DEF Fs!OpOK
<1>5. n \in 0 .. Fs!MAXFILE - 1 /\ r \in Nat /\ r < BSIZE /\ r <= off
  <2>1. off < Fs!MAXFILE * BSIZE
    BY <1>2, <1>3, <1>4
  <2>2. n \in 0 .. Fs!MAXFILE - 1 /\ off % BSIZE \in Fs!Cell
    BY <1>1, <1>3, <2>1, BlockOf
  <2>3. off % BSIZE <= off
    BY <1>3, SameBlock
  <2> QED
    BY <1>1, <1>3, <2>2, <2>3
<1>6. m \in Nat /\ m >= 1 /\ off + m <= end /\ r + m <= BSIZE
  <2>1. end - off \in Nat /\ BSIZE - r \in Nat /\ end - off >= 1 /\ BSIZE - r >= 1
    BY <1>2, <1>3, <1>5
  <2>2. m = IF end - off <= BSIZE - r THEN end - off ELSE BSIZE - r
    BY <1>1, <2>1, LeastOfTwo
  <2> QED
    BY <1>3, <1>5, <2>1, <2>2
<1>7. Fs!Owned(f) = 0 .. Fs!MAXFILE + 1 /\ Fs!Owned(f)' = 0 .. Fs!MAXFILE + 1
  <2>1. state'[f] = "live"
    BY <1>2, <1>4
  <2> QED
    BY <1>4, <2>1 DEF Fs!Owned
<1>8. n \in Fs!Owned(f) /\ Fs!Held(f, n) = b /\ b \in Fs!Block /\ n < Fs!MAXFILE
  <2>1. n \in Fs!Owned(f) /\ Fs!Held(f, n) = b /\ n < Fs!MAXFILE
    BY <1>1, <1>3, <1>5, <1>7, Places
  <2> QED
    BY <1>2, <1>3, <2>1 DEF Fs!BlockInv, Fs!OwnInv, Fs!TypeInv
<1>9. /\ blocks' \in [Fs!Block -> [Fs!Cell -> Nat]]
      /\ \A a \in Fs!Block : a # b => blocks'[a] = blocks[a]
      /\ \A c \in Fs!Cell : blocks'[b][c] = IF c \in r .. r + m - 1 THEN Text[f][off - r + c]
                                       ELSE blocks[b][c]
  <2>1. blocks \in [Fs!Block -> [Fs!Cell -> Nat]]
    BY <1>3 DEF Fs!TypeInv
  <2>2. \A c \in r .. r + m - 1 : Text[f][off - r + c] \in Nat
    <3> SUFFICES ASSUME NEW c \in r .. r + m - 1 PROVE Text[f][off - r + c] \in Nat
      OBVIOUS
    <3>1. off - r + c \in 0 .. Fs!MAXFILE * BSIZE - 1
      BY <1>3, <1>4, <1>5, <1>6
    <3>2. Text[f] \in [0 .. Fs!MAXFILE * BSIZE - 1 -> Nat \ {0}]
      BY Params
    <3> QED
      BY <3>1, <3>2
  <2>3. [c \in Fs!Cell |-> IF c \in r .. r + m - 1 THEN Text[f][off - r + c] ELSE blocks[b][c]]
          \in [Fs!Cell -> Nat]
    BY <1>8, <2>1, <2>2
  <2> QED
    BY <1>2, <1>8, <2>1, <2>3
<1>10. /\ op'[f].do = "write" /\ op'[f].off = off + m /\ op'[f].end = end /\ op'[f].block = 0
       /\ \A g \in File \ {f} : op'[g] = op[g]
       /\ op' \in [File -> [do : {"none", "write", "zero", "unmark"}, off : Nat, end : Nat,
                            block : Fs!Block \cup {0}]]
  <2>1. off + m \in Nat
    BY <1>3, <1>6
  <2>2. PICK q : q = [op[f] EXCEPT !.off = off + m]
    OBVIOUS
  <2>3. op[f] \in [do : {"none", "write", "zero", "unmark"}, off : Nat, end : Nat,
                   block : Fs!Block \cup {0}]
    BY <1>3 DEF Fs!TypeInv
  <2>4. /\ q \in [do : {"none", "write", "zero", "unmark"}, off : Nat, end : Nat,
                   block : Fs!Block \cup {0}]
        /\ q.do = op[f].do /\ q.off = off + m /\ q.end = op[f].end /\ q.block = op[f].block
    BY <2>1, <2>2, <2>3
  <2>5. op' = [op EXCEPT ![f] = q]
    BY <1>2, <2>2
  <2>6. op \in [File -> [do : {"none", "write", "zero", "unmark"}, off : Nat, end : Nat,
                        block : Fs!Block \cup {0}]]
    BY <1>3 DEF Fs!TypeInv
  <2>7. q.do = "write" /\ q.off = off + m /\ q.end = end /\ q.block = 0
    BY <1>1, <1>2, <2>4
  <2>8. op'[f] = q /\ \A g \in File \ {f} : op'[g] = op[g]
    BY <2>5, <2>6
  <2>9. op' \in [File -> [do : {"none", "write", "zero", "unmark"}, off : Nat, end : Nat,
                         block : Fs!Block \cup {0}]]
    BY <2>4, <2>5, <2>6
  <2> QED
    BY <2>7, <2>8, <2>9
<1>11. Fs!TypeInv'
  BY <1>2, <1>3, <1>9, <1>10 DEF Fs!TypeInv
<1>12. Only(f)
  BY <1>2, <1>10 DEF Only
<1>13. Within(f)
  BY <1>8, <1>9 DEF Within
<1>14. \A j \in Fs!Owned(f) : Fs!Held(f, j)' = Fs!Held(f, j)
  BY <1>2, <1>8, <1>9, <1>10, Overwrites
<1>15. Handed(f)
  <2>1. Kept(f)
    BY <1>2, <1>7, <1>14 DEF Kept
  <2> QED
    BY <2>1, Stay
<1>16. /\ Fs!DiskOK(f) /\ Fs!ContentOK(f) /\ Fs!Top(f) \in Nat /\ Fs!Top(f) <= Fs!MAXFILE * BSIZE
       /\ inode[f].size \in Nat /\ inode[f].size <= Fs!Top(f) /\ off <= Fs!Top(f)
  BY <1>1, <1>4, Tops
<1>17. Fs!Top(f)' = IF off + m > inode[f].size THEN off + m ELSE inode[f].size
  BY <1>2, <1>10 DEF Fs!Top
<1>18. Fs!OpOK(f)'
  BY <1>2, <1>3, <1>4, <1>6, <1>10 DEF Fs!OpOK
<1>19. Fs!DiskOK(f)'
  <2>1. dinode[f].addrs[NDIRECT] # 0 =>
          blocks'[dinode[f].addrs[NDIRECT]] = blocks[dinode[f].addrs[NDIRECT]]
    <3> SUFFICES ASSUME dinode[f].addrs[NDIRECT] # 0
                 PROVE  blocks'[dinode[f].addrs[NDIRECT]] = blocks[dinode[f].addrs[NDIRECT]]
      OBVIOUS
    <3>1. NDIRECT \in 0 .. NDIRECT
      BY <1>3
    <3>2. dinode[f].addrs[NDIRECT] = inode[f].addrs[NDIRECT]
      BY <1>16, <3>1 DEF Fs!DiskOK
    <3>3. Fs!Held(f, Fs!MAXFILE) = inode[f].addrs[NDIRECT] /\ Fs!MAXFILE \in Fs!Owned(f) /\ Fs!MAXFILE # n
      BY <1>3, <1>7, <1>8, Places
    <3>4. Fs!Held(f, Fs!MAXFILE) # b /\ Fs!Held(f, Fs!MAXFILE) \in Fs!Block
      BY <1>8, <3>2, <3>3, Apart
    <3> QED
      BY <1>9, <3>2, <3>3, <3>4
  <2>2. \A j : Fs!Bmap(dinode[f], j)' = Fs!Bmap(dinode[f], j)
    BY <1>2, <2>1 DEF Fs!Bmap
  <2> QED
    BY <1>2, <1>16, <2>2 DEF Fs!DiskOK
<1>20. ASSUME NEW o \in 0 .. Fs!MAXFILE * BSIZE - 1
       PROVE  /\ Fs!Bmap(inode[f], o \div BSIZE)' = Fs!Bmap(inode[f], o \div BSIZE)
              /\ o \in off .. off + m - 1 =>
                   Fs!Bmap(inode[f], o \div BSIZE) # 0 /\ Fs!Readi(inode[f], o)' = Text[f][o]
              /\ o \notin off .. off + m - 1 /\ Fs!Bmap(inode[f], o \div BSIZE) # 0 =>
                   Fs!Readi(inode[f], o)' = Fs!Readi(inode[f], o)
  <2>1. PICK j, c : j = o \div BSIZE /\ c = o % BSIZE
    OBVIOUS
  <2>2. j \in 0 .. Fs!MAXFILE - 1 /\ c \in Fs!Cell /\ o \in Nat
    <3>1. o \in Nat /\ o < Fs!MAXFILE * BSIZE
      BY <1>3
    <3> QED
      BY <2>1, <3>1, BlockOf
  <2>3. j \in Fs!Owned(f) /\ Fs!Bmap(inode[f], j) = Fs!Held(f, j) /\ Fs!Bmap(inode[f], j)' = Fs!Held(f, j)'
    BY <1>7, <2>2, Places, PlacesNext
  <2>4. Fs!Bmap(inode[f], j)' = Fs!Bmap(inode[f], j)
    BY <1>14, <2>3
  <2>5. /\ j = n <=> (off - r <= o /\ o < off - r + BSIZE)
        /\ j = n => c = o - (off - r)
    BY <1>1, <1>3, <2>1, <2>2, SameBlock
  <2>6. CASE j = n
    <3>1. o \in off .. off + m - 1 <=> c \in r .. r + m - 1
      BY <1>3, <1>5, <1>6, <2>2, <2>5, <2>6
    <3>2. off - r + c = o
      BY <1>3, <1>5, <2>2, <2>5, <2>6
    <3>3. blocks'[b][c] = IF o \in off .. off + m - 1 THEN Text[f][o] ELSE blocks[b][c]
      BY <1>9, <2>2, <3>1, <3>2
    <3>4. Fs!Bmap(inode[f], j) = b /\ Fs!Readi(inode[f], o)' = blocks'[b][c] /\ Fs!Readi(inode[f], o) = blocks[b][c]
      BY <1>1, <2>1, <2>4, <2>6 DEF Fs!Readi
    <3> QED
      BY <1>2, <2>1, <2>4, <3>3, <3>4
  <2>7. CASE j # n
    <3>1. o \notin off .. off + m - 1
      BY <1>3, <1>5, <1>6, <2>2, <2>5, <2>7
    <3>2. Fs!Bmap(inode[f], j) # 0 => Fs!Bmap(inode[f], j) # b /\ Fs!Bmap(inode[f], j) \in Fs!Block
      BY <1>8, <2>3, <2>7, Apart
    <3>3. Fs!Bmap(inode[f], j) # 0 => blocks'[Fs!Bmap(inode[f], j)] = blocks[Fs!Bmap(inode[f], j)]
      BY <1>9, <3>2
    <3> QED
      BY <2>1, <2>4, <3>1, <3>3 DEF Fs!Readi
  <2> QED
    BY <2>6, <2>7
<1>21. Fs!ContentOK(f)'
  <2>1. \A o \in 0 .. Fs!Top(f)' - 1 :
          Fs!Bmap(inode[f], o \div BSIZE)' # 0 /\ Fs!Readi(inode[f], o)' = Text[f][o]
    <3> SUFFICES ASSUME NEW o \in 0 .. Fs!Top(f)' - 1
                 PROVE  Fs!Bmap(inode[f], o \div BSIZE)' # 0 /\ Fs!Readi(inode[f], o)' = Text[f][o]
      OBVIOUS
    <3>1. o \in 0 .. Fs!MAXFILE * BSIZE - 1
      BY <1>3, <1>4, <1>6, <1>16, <1>17
    <3>2. o \in off .. off + m - 1 \/ (o \notin off .. off + m - 1 /\ o \in 0 .. Fs!Top(f) - 1)
      BY <1>3, <1>6, <1>16, <1>17
    <3>3. o \in 0 .. Fs!Top(f) - 1 => Fs!Bmap(inode[f], o \div BSIZE) # 0 /\ Fs!Readi(inode[f], o) = Text[f][o]
      BY <1>16 DEF Fs!ContentOK
    <3> QED
      BY <1>20, <3>1, <3>2, <3>3
  <2>2. crashes = 0 => \A o \in Fs!Top(f)' .. Fs!MAXFILE * BSIZE - 1 :
          Fs!Bmap(inode[f], o \div BSIZE)' # 0 => Fs!Readi(inode[f], o)' = 0
    <3> SUFFICES ASSUME crashes = 0, NEW o \in Fs!Top(f)' .. Fs!MAXFILE * BSIZE - 1,
                        Fs!Bmap(inode[f], o \div BSIZE)' # 0
                 PROVE  Fs!Readi(inode[f], o)' = 0
      OBVIOUS
    <3>1. /\ o \in 0 .. Fs!MAXFILE * BSIZE - 1 /\ o \in Fs!Top(f) .. Fs!MAXFILE * BSIZE - 1
          /\ o \notin off .. off + m - 1
      <4>1. Fs!Top(f) <= Fs!Top(f)' /\ Fs!Top(f)' \in Nat /\ off + m <= Fs!Top(f)'
        <5>1. Fs!Top(f) = IF off > inode[f].size THEN off ELSE inode[f].size
          BY <1>1 DEF Fs!Top
        <5> QED
          BY <1>3, <1>6, <1>16, <1>17, <5>1
      <4>2. /\ o \in Nat /\ o >= Fs!Top(f)' /\ o < Fs!MAXFILE * BSIZE /\ off + m \in Nat
        BY <1>3, <1>6, <4>1
      <4> HIDE DEF Fs!Top
      <4>3. o >= Fs!Top(f) /\ o >= off + m
        BY <1>16, <4>1, <4>2
      <4> QED
        BY <1>3, <1>6, <1>16, <4>2, <4>3
    <3>2. Fs!Bmap(inode[f], o \div BSIZE) # 0 => Fs!Readi(inode[f], o) = 0
      BY <1>16, <3>1 DEF Fs!ContentOK
    <3> QED
      BY <1>20, <3>1, <3>2
  <2> QED
    BY <1>2, <2>1, <2>2 DEF Fs!ContentOK
<1>22. Fs!FileOK(f)' /\ halted' # "bad"
  BY <1>2, <1>18, <1>19, <1>21 DEF Fs!FileOK
<1> QED
  BY <1>11, <1>12, <1>13, <1>15, <1>22, Stepped

-----------------------------------------------------------------------------
(* itrunc() *)

\* What itrunc() is at is a place of the file.
LEMMA Truncs ==
  ASSUME Fs!FileBlocksAssumption, Fs!BlockInv, NEW f \in File, op[f].do \in {"zero", "unmark"},
         op[f].off <= Fs!MAXFILE
  PROVE  /\ state[f] = "dead" /\ op[f].off \in 0 .. Fs!MAXFILE /\ op[f].off \in Fs!Owned(f)
         /\ Fs!TruncBlock(f) = Fs!Held(f, op[f].off)
         /\ Fs!Held(f, op[f].off) # 0 => Fs!Held(f, op[f].off) \in used /\ Fs!Held(f, op[f].off) \in Fs!Block
         /\ op[f].block = 0
<1>1. Fs!TypeInv /\ Fs!OpOK(f) /\ op[f].off \in Nat /\ Fs!MAXFILE \in Nat
  BY Typed, Params DEF Fs!BlockInv, Fs!FileOK
<1>2. state[f] = "dead" /\ op[f].off \in 0 .. Fs!MAXFILE /\ op[f].block = 0
  BY <1>1 DEF Fs!OpOK
<1>3. op[f].off \in Fs!Owned(f)
  BY <1>1, <1>2 DEF Fs!Owned
<1>4. Fs!TruncBlock(f) = Fs!Held(f, op[f].off)
  BY <1>1, <1>2 DEF Fs!TruncBlock, Fs!Held, Fs!Place
<1>5. Fs!Held(f, op[f].off) \in used \cup {0} /\ used \subseteq Fs!Block
  BY <1>1, <1>3 DEF Fs!BlockInv, Fs!OwnInv, Fs!TypeInv
<1> QED
  BY <1>2, <1>3, <1>4, <1>5

LEMMA TruncZeroInv ==
  ASSUME Fs!FileBlocksAssumption, Fs!BlockInv, halted = "no", NEW f \in File, Fs!TruncZero(f)
  PROVE  Fs!BlockInv'
<1>1. PICK off, b : off = op[f].off /\ b = Fs!TruncBlock(f)
  OBVIOUS
<1>2. /\ op[f].do = "zero" /\ off <= Fs!MAXFILE
      /\ used' = used /\ dinode' = dinode /\ inode' = inode
      /\ state' = state /\ halted' = halted /\ crashes' = crashes
      /\ \/ b = 0 /\ blocks' = blocks /\ op' = [op EXCEPT ![f] = [op[f] EXCEPT !.off = off + 1]]
         \/ b # 0 /\ blocks' = [blocks EXCEPT ![b] = Fs!Zeros]
                  /\ op' = [op EXCEPT ![f] = [op[f] EXCEPT !.do = "unmark"]]
  BY <1>1 DEF Fs!TruncZero, Fs!Lock, Fs!Same
<1>3. Fs!TypeInv /\ off \in Nat /\ off \in 0 .. Fs!MAXFILE /\ off \in Fs!Owned(f) /\ b = Fs!Held(f, off)
      /\ state[f] = "dead" /\ op[f].block = 0 /\ Fs!MAXFILE \in Nat
      /\ (b # 0 => b \in used /\ b \in Fs!Block) /\ state'[f] = "dead"
  BY <1>1, <1>2, Truncs, Params DEF Fs!BlockInv
<1>4. Fs!Owned(f) = {n \in 0 .. Fs!MAXFILE + 1 : n >= off}
  BY <1>1, <1>2, <1>3 DEF Fs!Owned
<1>5. op \in [File -> [do : {"none", "write", "zero", "unmark"}, off : Nat, end : Nat,
                       block : Fs!Block \cup {0}]]
  BY <1>3 DEF Fs!TypeInv
<1>6. CASE b = 0
  <2>1. /\ op'[f].do = "zero" /\ op'[f].off = off + 1 /\ op'[f].block = 0
        /\ \A g \in File \ {f} : op'[g] = op[g]
        /\ op' \in [File -> [do : {"none", "write", "zero", "unmark"}, off : Nat, end : Nat,
                             block : Fs!Block \cup {0}]]
    BY <1>2, <1>3, <1>5, <1>6
  <2>2. Fs!TypeInv'
    BY <1>2, <1>3, <1>6, <2>1 DEF Fs!TypeInv
  <2>3. Only(f) /\ Within(f)
    BY <1>2, <1>6, <2>1 DEF Only, Within
  <2>4. Kept(f)
    <3>1. Fs!Owned(f)' = {n \in 0 .. Fs!MAXFILE + 1 : n >= off + 1}
      BY <1>3, <2>1 DEF Fs!Owned
    <3>2. \A n \in Fs!Owned(f) : Fs!Held(f, n)' = Fs!Held(f, n)
      BY <1>2, <1>3, <1>6, <2>1 DEF Fs!Held, Fs!Place, Fs!Bmap
    <3>3. \A n \in Fs!Owned(f) : n = off \/ n \in Fs!Owned(f)'
      BY <1>3, <1>4, <3>1
    <3>4. \A n \in Fs!Owned(f)' : n \in Fs!Owned(f)
      BY <1>3, <1>4, <3>1
    <3> QED
      BY <1>2, <1>3, <1>6, <3>2, <3>3, <3>4 DEF Kept
  <2>5. Fs!FileOK(f)'
    <3>1. Fs!OpOK(f)'
      BY <1>3, <2>1 DEF Fs!OpOK
    <3> QED
      BY <1>3, <3>1 DEF Fs!FileOK
  <2> QED
    BY <1>2, <2>2, <2>3, <2>4, <2>5, Stay, Stepped
<1>7. CASE b # 0
  <2>1. /\ op'[f].do = "unmark" /\ op'[f].off = off /\ op'[f].block = 0
        /\ \A g \in File \ {f} : op'[g] = op[g]
        /\ op' \in [File -> [do : {"none", "write", "zero", "unmark"}, off : Nat, end : Nat,
                             block : Fs!Block \cup {0}]]
    BY <1>1, <1>2, <1>3, <1>5, <1>7
  <2>2. /\ blocks' \in [Fs!Block -> [Fs!Cell -> Nat]] /\ blocks'[b] = Fs!Zeros
        /\ \A a \in Fs!Block : a # b => blocks'[a] = blocks[a]
    <3>1. blocks \in [Fs!Block -> [Fs!Cell -> Nat]] /\ Fs!Zeros \in [Fs!Cell -> Nat]
      BY <1>3 DEF Fs!TypeInv, Fs!Zeros
    <3> QED
      BY <1>2, <1>3, <1>7, <3>1
  <2>3. Fs!TypeInv'
    BY <1>2, <1>3, <2>1, <2>2 DEF Fs!TypeInv
  <2>4. Only(f)
    BY <1>2, <2>1 DEF Only
  <2>5. Within(f)
    BY <1>3, <2>2 DEF Within
  <2>6. Fs!Owned(f)' = Fs!Owned(f)
    BY <1>3, <1>4, <2>1 DEF Fs!Owned
  <2>7. \A n \in Fs!Owned(f) : Fs!Held(f, n)' = Fs!Held(f, n)
    <3> SUFFICES ASSUME NEW n \in Fs!Owned(f) PROVE Fs!Held(f, n)' = Fs!Held(f, n)
      OBVIOUS
    <3>1. off < Fs!MAXFILE \/ n >= Fs!MAXFILE
      BY <1>3, <1>4
    <3>2. op'[f].block = op[f].block
      BY <1>3, <2>1
    <3> QED
      BY <1>2, <1>3, <1>7, <2>2, <3>1, <3>2, Overwrites
  <2>8. Kept(f)
    BY <1>2, <2>6, <2>7 DEF Kept
  <2>9. Fs!FileOK(f)'
    <3>1. Fs!TruncBlock(f)' = b
      <4>1. Fs!Held(f, off)' = b
        BY <1>3, <2>7
      <4> QED
        BY <1>3, <2>1, <4>1 DEF Fs!TruncBlock, Fs!Held, Fs!Place
    <3>2. Fs!OpOK(f)'
      <4> HIDE DEF Fs!TruncBlock
      <4> QED
        BY <1>3, <1>7, <2>1, <2>2, <3>1 DEF Fs!OpOK, Fs!Zeros
    <3> QED
      BY <1>3, <3>2 DEF Fs!FileOK
  <2> QED
    BY <1>2, <2>3, <2>4, <2>5, <2>8, <2>9, Stay, Stepped
<1> QED
  BY <1>6, <1>7

LEMMA TruncUnmarkInv ==
  ASSUME Fs!FileBlocksAssumption, Fs!BlockInv, halted = "no", NEW f \in File, Fs!TruncUnmark(f)
  PROVE  Fs!BlockInv'
<1>1. PICK off, b : off = op[f].off /\ b = Fs!TruncBlock(f)
  OBVIOUS
<1>2. Fs!TypeInv /\ Fs!OpOK(f) /\ op[f].do = "unmark" /\ off <= Fs!MAXFILE /\ b # 0 /\ blocks[b] = Fs!Zeros
  BY <1>1 DEF Fs!BlockInv, Fs!FileOK, Fs!TruncUnmark, Fs!OpOK
<1>3. /\ off \in Nat /\ off \in 0 .. Fs!MAXFILE /\ off \in Fs!Owned(f) /\ b = Fs!Held(f, off)
      /\ state[f] = "dead" /\ op[f].block = 0 /\ Fs!MAXFILE \in Nat /\ NDIRECT \in Nat
      /\ b \in used /\ b \in Fs!Block /\ Fs!MAXFILE >= NDIRECT
  BY <1>1, <1>2, Truncs, Params
<1>4. PICK i : i = IF off < Fs!MAXFILE THEN off ELSE NDIRECT
  OBVIOUS
<1>5. /\ used' = used \ {b} /\ blocks' = blocks /\ dinode' = dinode
      /\ state' = state /\ halted' = halted /\ crashes' = crashes
      /\ inode' = IF off < NDIRECT \/ off = Fs!MAXFILE
                  THEN [inode EXCEPT ![f].addrs[i] = 0] ELSE inode
      /\ op' = [op EXCEPT ![f] = [op[f] EXCEPT !.do = "zero", !.off = off + 1]]
  BY <1>1, <1>3, <1>4 DEF Fs!TruncUnmark, Fs!Lock, Fs!Same
<1>6. op \in [File -> [do : {"none", "write", "zero", "unmark"}, off : Nat, end : Nat,
                       block : Fs!Block \cup {0}]]
      /\ inode \in [File -> Fs!Inode]
  BY <1>2 DEF Fs!TypeInv
<1>7. /\ op'[f].do = "zero" /\ op'[f].off = off + 1 /\ op'[f].block = 0
      /\ \A g \in File \ {f} : op'[g] = op[g]
      /\ op' \in [File -> [do : {"none", "write", "zero", "unmark"}, off : Nat, end : Nat,
                           block : Fs!Block \cup {0}]]
  <2>1. PICK q : q = [op[f] EXCEPT !.do = "zero", !.off = off + 1]
    OBVIOUS
  <2>2. op[f] \in [do : {"none", "write", "zero", "unmark"}, off : Nat, end : Nat,
                   block : Fs!Block \cup {0}]
    BY <1>6
  <2>3. /\ q \in [do : {"none", "write", "zero", "unmark"}, off : Nat, end : Nat,
                  block : Fs!Block \cup {0}]
        /\ q.do = "zero" /\ q.off = off + 1 /\ q.block = 0
    <3>1. PICK e : e = [op[f] EXCEPT !.do = "zero"]
      OBVIOUS
    <3>2. /\ e \in [do : {"none", "write", "zero", "unmark"}, off : Nat, end : Nat,
                    block : Fs!Block \cup {0}]
          /\ e.do = "zero" /\ e.block = 0
      BY <1>3, <2>2, <3>1
    <3>3. q = [e EXCEPT !.off = off + 1] /\ off + 1 \in Nat
      BY <1>3, <2>1, <3>1
    <3> QED
      BY <3>2, <3>3
  <2>4. op' = [op EXCEPT ![f] = q]
    BY <1>5, <2>1
  <2> QED
    BY <1>6, <2>3, <2>4
<1>8. /\ inode' \in [File -> Fs!Inode]
      /\ \A j \in 0 .. NDIRECT : \/ (off < NDIRECT /\ j = off) \/ (off = Fs!MAXFILE /\ j = NDIRECT)
                                 \/ inode'[f].addrs[j] = inode[f].addrs[j]
      /\ \A g \in File \ {f} : inode'[g] = inode[g]
  <2>1. CASE off < NDIRECT \/ off = Fs!MAXFILE
    <3>1. i \in 0 .. NDIRECT
      BY <1>3, <1>4, <2>1
    <3>2. inode' = [inode EXCEPT ![f].addrs[i] = 0]
      BY <1>5, <2>1
    <3>3. inode' \in [File -> Fs!Inode]
      BY <1>6, <3>1, <3>2 DEF Fs!Inode
    <3>4. /\ \A j \in 0 .. NDIRECT : j = i \/ inode'[f].addrs[j] = inode[f].addrs[j]
          /\ \A g \in File \ {f} : inode'[g] = inode[g]
      BY <1>6, <3>1, <3>2 DEF Fs!Inode
    <3>5. (off < NDIRECT /\ i = off) \/ (off = Fs!MAXFILE /\ i = NDIRECT)
      BY <1>3, <1>4, <2>1
    <3> QED
      BY <3>3, <3>4, <3>5
  <2>2. CASE ~ (off < NDIRECT \/ off = Fs!MAXFILE)
    BY <1>5, <1>6, <2>2
  <2> QED
    BY <2>1, <2>2
<1>9. Fs!TypeInv'
  BY <1>2, <1>5, <1>7, <1>8 DEF Fs!TypeInv
<1>10. Only(f) /\ Within(f)
  BY <1>5, <1>7, <1>8 DEF Only, Within
<1>11. /\ Fs!Owned(f) = {n \in 0 .. Fs!MAXFILE + 1 : n >= off}
       /\ Fs!Owned(f)' = {n \in 0 .. Fs!MAXFILE + 1 : n >= off + 1}
       /\ state'[f] = "dead"
  <2>1. state'[f] = "dead"
    BY <1>3, <1>5
  <2> QED
    BY <1>1, <1>2, <1>3, <1>7, <2>1 DEF Fs!Owned
<1>12. ASSUME NEW n \in Fs!Owned(f)' PROVE n \in Fs!Owned(f) /\ n # off /\ Fs!Held(f, n)' = Fs!Held(f, n)
  <2>1. n \in 0 .. Fs!MAXFILE + 1 /\ n > off /\ n \in Fs!Owned(f)
    BY <1>3, <1>11
  <2>2. CASE n < NDIRECT
    <3>1. inode'[f].addrs[n] = inode[f].addrs[n]
      BY <1>3, <1>8, <2>1, <2>2
    <3> QED
      BY <1>3, <2>1, <2>2, <3>1, Places, PlacesNext
  <2>3. CASE n \in NDIRECT .. Fs!MAXFILE
    <3>1. inode'[f].addrs[NDIRECT] = inode[f].addrs[NDIRECT]
      BY <1>3, <1>8, <2>1, <2>3
    <3>2. CASE n = Fs!MAXFILE
      BY <1>3, <2>1, <3>1, <3>2, Places, PlacesNext
    <3>3. CASE n \in NDIRECT .. Fs!MAXFILE - 1
      <4>1. Fs!Held(f, n)' = IF inode'[f].addrs[NDIRECT] = 0 THEN 0
                          ELSE blocks'[inode'[f].addrs[NDIRECT]][n - NDIRECT]
        BY <3>3, PlacesNext
      <4>2. Fs!Held(f, n) = IF inode[f].addrs[NDIRECT] = 0 THEN 0
                         ELSE blocks[inode[f].addrs[NDIRECT]][n - NDIRECT]
        BY <3>3, Places
      <4> QED
        BY <1>3, <1>5, <2>1, <3>1, <4>1, <4>2
    <3> QED
      BY <1>3, <2>3, <3>2, <3>3
  <2>4. CASE n = Fs!MAXFILE + 1
    BY <1>3, <1>7, <2>1, <2>4, Places, PlacesNext
  <2> QED
    BY <1>3, <2>1, <2>2, <2>3, <2>4
<1>13. Handed(f)
  <2>1. /\ \A n \in Fs!Owned(f) : Fs!Held(f, n) \in used \cup {0}
        /\ \A n, m \in Fs!Owned(f) : Fs!Held(f, n) = Fs!Held(f, m) /\ Fs!Held(f, n) # 0 => n = m
    BY DEF Fs!BlockInv, Fs!OwnInv
  <2>2. \A a \in used : a \notin used' => blocks'[a] = Fs!Zeros /\ \E n \in Fs!Owned(f) : Fs!Held(f, n) = a
    BY <1>2, <1>3, <1>5
  <2>3. \A n \in Fs!Owned(f)' : Fs!Held(f, n)' # 0 =>
          /\ Fs!Held(f, n)' \in used'
          /\ \E m \in Fs!Owned(f) : Fs!Held(f, m) = Fs!Held(f, n)'
    BY <1>2, <1>3, <1>5, <1>12, <2>1
  <2>4. \A n, m \in Fs!Owned(f)' : Fs!Held(f, n)' = Fs!Held(f, m)' /\ Fs!Held(f, n)' # 0 => n = m
    BY <1>12, <2>1
  <2>5. \A n \in Fs!Owned(f) : n = off \/ n \in Fs!Owned(f)'
    BY <1>3, <1>11
  <2>6. \A a \in used' : \/ a \in used /\ \A n \in Fs!Owned(f) : Fs!Held(f, n) # a
                         \/ \E n \in Fs!Owned(f)' : Fs!Held(f, n)' = a
    <3> SUFFICES ASSUME NEW a \in used', NEW n \in Fs!Owned(f), Fs!Held(f, n) = a
                 PROVE  \E m \in Fs!Owned(f)' : Fs!Held(f, m)' = a
      BY <1>5
    <3>1. n # off
      BY <1>3, <1>5
    <3> QED
      BY <1>12, <2>5, <3>1
  <2> QED
    BY <2>2, <2>3, <2>4, <2>6 DEF Handed, Fs!Zeros
<1>14. Fs!FileOK(f)'
  <2>1. Fs!OpOK(f)'
    BY <1>3, <1>7, <1>11 DEF Fs!OpOK
  <2> QED
    BY <1>11, <2>1 DEF Fs!FileOK
<1>15. halted' # "bad"
  BY <1>5
<1> QED
  BY <1>9, <1>10, <1>13, <1>14, <1>15, Stepped

-----------------------------------------------------------------------------
(* A crash *)

\* What a file with links has on the disk it has in memory at the same place.
LEMMA DiskHas ==
  ASSUME Fs!FileBlocksAssumption, Fs!BlockInv, NEW f \in File, state[f] = "live"
  PROVE  \A n \in 0 .. Fs!MAXFILE - 1 : Fs!Bmap(dinode[f], n) \in {0, Fs!Bmap(inode[f], n)}
<1>1. \A i \in 0 .. NDIRECT : dinode[f].addrs[i] \in {0, inode[f].addrs[i]}
  BY Tops DEF Fs!DiskOK
<1>2. NDIRECT \in 0 .. NDIRECT /\ \A n \in 0 .. Fs!MAXFILE - 1 : n < NDIRECT => n \in 0 .. NDIRECT
  BY Params
<1> QED
  BY <1>1, <1>2 DEF Fs!Bmap

LEMMA CrashInv ==
  ASSUME Fs!FileBlocksAssumption, Fs!BlockInv, Fs!Crash
  PROVE  Fs!BlockInv'
<1>1. /\ inode' = dinode /\ op' = [f \in File |-> Fs!NoOp] /\ crashes' = crashes + 1
      /\ halted' = "no" /\ used' = used /\ blocks' = blocks /\ dinode' = dinode /\ state' = state
  BY DEF Fs!Crash
<1>2. Fs!TypeInv /\ Fs!OwnInv /\ Fs!FreeZero
  BY DEF Fs!BlockInv
<1>3. Fs!TypeInv' /\ crashes' # 0
  <2>1. Fs!NoOp \in [do : {"none", "write", "zero", "unmark"}, off : Nat, end : Nat,
                  block : Fs!Block \cup {0}]
    BY DEF Fs!NoOp
  <2> QED
    BY <1>1, <1>2, <2>1 DEF Fs!TypeInv
<1>4. ASSUME NEW f \in File, NEW n \in Fs!Owned(f)'
      PROVE  n \in Fs!Owned(f) /\ Fs!Held(f, n)' \in {0, Fs!Held(f, n)}
  <2>1. state[f] = "live" /\ n \in 0 .. Fs!MAXFILE + 1 /\ op'[f] = Fs!NoOp
    BY <1>1, <1>4 DEF Fs!Owned, Fs!NoOp
  <2>2. n \in Fs!Owned(f)
    BY <2>1, Owning
  <2>3. CASE n \in 0 .. Fs!MAXFILE - 1
    <3>1. Fs!Bmap(dinode[f], n) \in {0, Fs!Bmap(inode[f], n)}
      BY <2>1, <2>3, DiskHas
    <3>2. Fs!Bmap(inode[f], n)' = Fs!Bmap(dinode[f], n)
      BY <1>1 DEF Fs!Bmap
    <3> QED
      BY <2>2, <2>3, <3>1, <3>2, Places, PlacesNext
  <2>4. CASE n = Fs!MAXFILE
    <3>1. dinode[f].addrs[NDIRECT] \in {0, inode[f].addrs[NDIRECT]}
      <4>1. NDIRECT \in 0 .. NDIRECT
        BY Params
      <4> QED
        BY <2>1, <4>1, Tops DEF Fs!DiskOK
    <3> QED
      BY <1>1, <2>2, <2>4, <3>1, Places, PlacesNext
  <2>5. CASE n = Fs!MAXFILE + 1
    BY <2>1, <2>2, <2>5, PlacesNext DEF Fs!NoOp
  <2> QED
    BY <2>1, <2>3, <2>4, <2>5, Params
<1>5. Fs!OwnInv'
  <2>1. \A f \in File : \A n \in Fs!Owned(f)' : Fs!Held(f, n)' \in used' \cup {0}
    BY <1>1, <1>2, <1>4 DEF Fs!OwnInv
  <2>2. ASSUME NEW f \in File, NEW g \in File, NEW n \in Fs!Owned(f)', NEW m \in Fs!Owned(g)',
               Fs!Held(f, n)' = Fs!Held(g, m)', Fs!Held(f, n)' # 0
        PROVE  f = g /\ n = m
    <3>1. n \in Fs!Owned(f) /\ m \in Fs!Owned(g) /\ Fs!Held(f, n)' = Fs!Held(f, n) /\ Fs!Held(g, m)' = Fs!Held(g, m)
      BY <1>4, <2>2
    <3>2. Fs!Held(f, n) = Fs!Held(g, m) /\ Fs!Held(f, n) # 0
      BY <2>2, <3>1
    <3> QED
      BY <1>2, <3>1, <3>2 DEF Fs!OwnInv
  <2> QED
    BY <2>1, <2>2 DEF Fs!OwnInv
<1>6. Fs!FreeZero' /\ Fs!LostInv' /\ Fs!NoPanic'
  BY <1>1, <1>2, <1>3 DEF Fs!FreeZero, Fs!LostInv, Fs!NoPanic
<1>7. ASSUME NEW f \in File PROVE Fs!FileOK(f)'
  <2>1. Fs!OpOK(f)'
    BY <1>1 DEF Fs!OpOK, Fs!NoOp
  <2>2. ASSUME state[f] = "live" PROVE Fs!DiskOK(f)' /\ Fs!ContentOK(f)'
    <3>1. /\ Fs!DiskOK(f) /\ Fs!ContentOK(f) /\ Fs!Top(f) \in Nat /\ Fs!MAXFILE * BSIZE \in Nat
          /\ Fs!Top(f) <= Fs!MAXFILE * BSIZE /\ inode[f].size \in Nat /\ inode[f].size <= Fs!Top(f)
          /\ dinode[f].size = inode[f].size
      BY <2>2, Tops DEF Fs!DiskOK
    <3>2. Fs!Top(f)' = inode[f].size
      BY <1>1, <3>1 DEF Fs!Top, Fs!NoOp
    <3>3. Fs!DiskOK(f)'
      BY <1>1, <3>1 DEF Fs!DiskOK, Fs!Bmap
    <3>4. \A o \in 0 .. inode[f].size - 1 :
            Fs!Bmap(inode[f], o \div BSIZE)' # 0 /\ Fs!Readi(inode[f], o)' = Text[f][o]
      <4> SUFFICES ASSUME NEW o \in 0 .. inode[f].size - 1
                   PROVE  Fs!Bmap(inode[f], o \div BSIZE)' # 0 /\ Fs!Readi(inode[f], o)' = Text[f][o]
        OBVIOUS
      <4>1. o \in 0 .. Fs!Top(f) - 1 /\ o \in Nat /\ o < Fs!MAXFILE * BSIZE
        BY <3>1
      <4>2. PICK j : j = o \div BSIZE
        OBVIOUS
      <4>3. j \in 0 .. Fs!MAXFILE - 1
        BY <4>1, <4>2, BlockOf
      <4>4. Fs!Bmap(dinode[f], j) # 0 /\ Fs!Bmap(dinode[f], j) = Fs!Bmap(inode[f], j)
        BY <2>2, <3>1, <4>2, <4>3, DiskHas DEF Fs!DiskOK
      <4>5. Fs!Readi(inode[f], o) = Text[f][o]
        BY <3>1, <4>1 DEF Fs!ContentOK
      <4>6. Fs!Bmap(inode[f], j)' = Fs!Bmap(dinode[f], j)
        BY <1>1 DEF Fs!Bmap
      <4> QED
        BY <1>1, <4>2, <4>4, <4>5, <4>6 DEF Fs!Readi
    <3>5. Fs!ContentOK(f)'
      BY <1>3, <3>2, <3>4 DEF Fs!ContentOK
    <3> QED
      BY <3>3, <3>5
  <2> QED
    BY <1>1, <2>1, <2>2 DEF Fs!FileOK
<1> QED
  BY <1>3, <1>5, <1>6, <1>7 DEF Fs!BlockInv

-----------------------------------------------------------------------------
(* The theorems *)

LEMMA StartBlocks ==
  ASSUME Fs!FileBlocksAssumption, Fs!Init
  PROVE  Fs!BlockInv
<1>1. /\ used = {} /\ blocks = [b \in Fs!Block |-> Fs!Zeros] /\ inode = dinode /\ crashes = 0
      /\ dinode = [f \in File |-> Fs!Empty] /\ state = [f \in File |-> "free"]
      /\ op = [f \in File |-> Fs!NoOp] /\ halted = "no"
  BY DEF Fs!Init
<1>2. Fs!TypeInv
  <2>1. Fs!NoOp \in [do : {"none", "write", "zero", "unmark"}, off : Nat, end : Nat,
                  block : Fs!Block \cup {0}]
    BY DEF Fs!NoOp
  <2>2. Fs!Empty \in Fs!Inode
    BY DEF Fs!Empty, Fs!Inode
  <2>3. Fs!Zeros \in [Fs!Cell -> Nat]
    BY DEF Fs!Zeros
  <2> QED
    BY <1>1, <2>1, <2>2, <2>3 DEF Fs!TypeInv
<1>3. \A f \in File : Fs!Owned(f) = {}
  BY <1>1 DEF Fs!Owned, Fs!NoOp
<1>4. Fs!OwnInv
  BY <1>3 DEF Fs!OwnInv
<1>5. Fs!FreeZero /\ Fs!LostInv /\ Fs!NoPanic
  BY <1>1 DEF Fs!FreeZero, Fs!LostInv, Fs!NoPanic
<1>6. \A f \in File : Fs!FileOK(f)
  BY <1>1 DEF Fs!FileOK, Fs!OpOK, Fs!NoOp
<1> QED
  BY <1>2, <1>4, <1>5, <1>6 DEF Fs!BlockInv

LEMMA NextBlocks ==
  ASSUME Fs!FileBlocksAssumption, Fs!BlockInv, [Fs!Next]_Fs!vars
  PROVE  Fs!BlockInv'
<1>1. CASE UNCHANGED Fs!vars
  <2>1. /\ used' = used /\ blocks' = blocks /\ dinode' = dinode /\ inode' = inode
        /\ state' = state /\ op' = op /\ crashes' = crashes /\ halted' = halted
    BY <1>1 DEF Fs!vars
  <2>2. Fs!TypeInv' /\ Fs!NoPanic' /\ Fs!FreeZero'
    BY <2>1 DEF Fs!BlockInv, Fs!TypeInv, Fs!NoPanic, Fs!FreeZero
  <2>3. Fs!OwnInv' /\ Fs!LostInv'
    BY <2>1 DEF Fs!BlockInv, Fs!OwnInv, Fs!LostInv, Fs!Owned, Fs!Held, Fs!Place, Fs!Bmap
  <2>4. \A f \in File : Fs!FileOK(f)'
    BY <2>1, Unmoved
  <2> QED
    BY <2>2, <2>3, <2>4 DEF Fs!BlockInv
<1>2. CASE Fs!Crash
  BY <1>2, CrashInv
<1>3. ASSUME halted = "no", NEW f \in File, Fs!Step(f) PROVE Fs!BlockInv'
  <2>1. CASE Fs!Writei(f)
    BY <1>3, <2>1, WriteiInv
  <2>2. CASE Fs!WriteAlloc(f)
    BY <1>3, <2>2, WriteAllocInv
  <2>3. CASE Fs!WritePointer(f)
    BY <1>3, <2>3, WritePointerInv
  <2>4. CASE Fs!WriteData(f)
    BY <1>3, <2>4, WriteDataInv
  <2>5. CASE Fs!WriteEnd(f)
    BY <1>3, <2>5, WriteEndInv
  <2>6. CASE Fs!Create(f)
    BY <1>3, <2>6, CreateInv
  <2>7. CASE Fs!Remove(f)
    BY <1>3, <2>7, RemoveInv
  <2>8. CASE Fs!TruncZero(f)
    BY <1>3, <2>8, TruncZeroInv
  <2>9. CASE Fs!TruncUnmark(f)
    BY <1>3, <2>9, TruncUnmarkInv
  <2>10. CASE Fs!TruncEnd(f)
    BY <1>3, <2>10, TruncEndInv
  <2> QED
    BY <1>3, <2>1, <2>2, <2>3, <2>4, <2>5, <2>6, <2>7, <2>8, <2>9, <2>10 DEF Fs!Step
<1> QED
  BY <1>1, <1>2, <1>3 DEF Fs!Next

\* The inductive invariant: the inode on the disk lags behind the one in memory but never
\* lists a block that is not the file's, and what an operation has seen of a file still holds
\* when it goes on, whatever those on other files did meanwhile (bmap, writei, itrunc).
THEOREM BlocksInOrder == ASSUME Fs!FileBlocksAssumption PROVE Fs!Spec => []Fs!BlockInv
<1>1. Fs!Init => Fs!BlockInv
  BY StartBlocks
<1>2. Fs!BlockInv /\ [Fs!Next]_Fs!vars => Fs!BlockInv'
  BY NextBlocks
<1> QED
  BY <1>1, <1>2, PTL DEF Fs!Spec

\* What is read of a file is what was written.
LEMMA ReadsIt ==
  ASSUME Fs!FileBlocksAssumption, Fs!BlockInv
  PROVE  Fs!ReadsBack /\ Fs!TailZero
<1> SUFFICES ASSUME NEW f \in File, state[f] = "live", op[f] = Fs!NoOp
             PROVE  /\ \A o \in 0 .. inode[f].size - 1 :
                         /\ Fs!Bmap(inode[f], o \div BSIZE) # 0
                         /\ Fs!Readi(inode[f], o) = Text[f][o]
                    /\ crashes = 0 => \A o \in inode[f].size .. Fs!MAXFILE * BSIZE - 1 :
                         Fs!Bmap(inode[f], o \div BSIZE) # 0 => Fs!Readi(inode[f], o) = 0
  BY DEF Fs!ReadsBack, Fs!TailZero
<1>1. Fs!ContentOK(f) /\ inode[f].size \in Nat
  BY Tops
<1>2. Fs!Top(f) = inode[f].size
  BY <1>1 DEF Fs!Top, Fs!NoOp
<1> QED
  BY <1>1, <1>2 DEF Fs!ContentOK

\* Where a file lists the block at place n.
NumberOf(n) ==
  IF n < NDIRECT THEN <<"addrs", n>>
  ELSE IF n = Fs!MAXFILE THEN <<"addrs", NDIRECT>> ELSE <<"indirect", n - NDIRECT>>

\* The places of a file and the numbers it lists are the same.
LEMMA NumbersAre ==
  ASSUME Fs!FileBlocksAssumption, NEW ip, NEW x \in Fs!Numbers(ip)
  PROVE  \E n \in 0 .. Fs!MAXFILE : Fs!NumberAt(ip, x) = Fs!Place(ip, n) /\ x = NumberOf(n)
<1>1. NDIRECT \in Nat /\ BSIZE \in Nat /\ Fs!MAXFILE = NDIRECT + BSIZE /\ BSIZE >= 1
      /\ Fs!Cell = 0 .. BSIZE - 1 /\ Fs!MAXFILE \in 0 .. Fs!MAXFILE /\ ~ (Fs!MAXFILE < NDIRECT)
  BY Params
<1>2. ASSUME NEW i \in 0 .. NDIRECT, x = <<"addrs", i>>
      PROVE  \E n \in 0 .. Fs!MAXFILE : Fs!NumberAt(ip, x) = Fs!Place(ip, n) /\ x = NumberOf(n)
  <2>1. Fs!NumberAt(ip, x) = ip.addrs[i]
    BY <1>2 DEF Fs!NumberAt
  <2>2. CASE i < NDIRECT
    <3>1. i \in 0 .. Fs!MAXFILE /\ i < Fs!MAXFILE
      BY <1>1, <2>2
    <3>2. Fs!Place(ip, i) = ip.addrs[i]
      BY <2>2, <3>1 DEF Fs!Place, Fs!Bmap
    <3> QED
      BY <1>2, <2>1, <2>2, <3>1, <3>2 DEF NumberOf
  <2>3. CASE i = NDIRECT
    <3>1. Fs!Place(ip, Fs!MAXFILE) = ip.addrs[i]
      BY <1>1, <2>3 DEF Fs!Place
    <3> QED
      BY <1>1, <1>2, <2>1, <2>3, <3>1 DEF NumberOf
  <2> QED
    BY <1>1, <2>2, <2>3
<1>3. ASSUME NEW j \in Fs!Cell, x = <<"indirect", j>>
      PROVE  \E n \in 0 .. Fs!MAXFILE : Fs!NumberAt(ip, x) = Fs!Place(ip, n) /\ x = NumberOf(n)
  <2>1. Fs!NumberAt(ip, x) = Fs!Bmap(ip, NDIRECT + j)
    BY <1>3 DEF Fs!NumberAt
  <2>2. NDIRECT + j \in 0 .. Fs!MAXFILE /\ NDIRECT + j < Fs!MAXFILE /\ ~ (NDIRECT + j < NDIRECT)
        /\ NDIRECT + j # Fs!MAXFILE /\ (NDIRECT + j) - NDIRECT = j
    BY <1>1
  <2>3. Fs!Place(ip, NDIRECT + j) = Fs!Bmap(ip, NDIRECT + j)
    BY <2>2 DEF Fs!Place
  <2> QED
    BY <1>3, <2>1, <2>2, <2>3 DEF NumberOf
<1> QED
  BY <1>2, <1>3 DEF Fs!Numbers

\* And each place is listed.
LEMMA PlacesListed ==
  ASSUME Fs!FileBlocksAssumption, NEW ip, NEW n \in 0 .. Fs!MAXFILE, Fs!Place(ip, n) # 0
  PROVE  Fs!Place(ip, n) \in Fs!BlocksOf(ip)
<1>1. NDIRECT \in Nat /\ BSIZE \in Nat /\ Fs!MAXFILE = NDIRECT + BSIZE /\ BSIZE >= 1
      /\ Fs!Cell = 0 .. BSIZE - 1
  BY Params
<1>2. \E x \in Fs!Numbers(ip) : Fs!NumberAt(ip, x) = Fs!Place(ip, n)
  <2>1. CASE n < NDIRECT \/ n = Fs!MAXFILE
    <3>1. PICK i \in 0 .. NDIRECT : i = IF n < NDIRECT THEN n ELSE NDIRECT
      BY <1>1, <2>1
    <3>2. <<"addrs", i>> \in Fs!Numbers(ip)
      BY DEF Fs!Numbers
    <3>3. Fs!NumberAt(ip, <<"addrs", i>>) = ip.addrs[i]
      BY DEF Fs!NumberAt
    <3>4. Fs!Place(ip, n) = ip.addrs[i]
      BY <1>1, <2>1, <3>1 DEF Fs!Place, Fs!Bmap
    <3> QED
      BY <3>2, <3>3, <3>4
  <2>2. CASE ~ (n < NDIRECT) /\ n < Fs!MAXFILE
    <3>1. n - NDIRECT \in Fs!Cell /\ NDIRECT + (n - NDIRECT) = n
      BY <1>1, <2>2
    <3>2. <<"indirect", n - NDIRECT>> \in Fs!Numbers(ip)
      BY <3>1 DEF Fs!Numbers
    <3>3. Fs!NumberAt(ip, <<"indirect", n - NDIRECT>>) = Fs!Bmap(ip, n)
      BY <3>1 DEF Fs!NumberAt
    <3>4. Fs!Place(ip, n) = Fs!Bmap(ip, n)
      BY <2>2 DEF Fs!Place
    <3> QED
      BY <3>2, <3>3, <3>4
  <2> QED
    BY <1>1, <2>1, <2>2
<1> QED
  BY <1>2 DEF Fs!BlocksOf

\* The disk is good to boot from.
LEMMA BootsFrom ==
  ASSUME Fs!FileBlocksAssumption, Fs!BlockInv
  PROVE  Fs!DiskSafe
<1>1. ASSUME NEW f \in File, state[f] = "live", NEW n \in 0 .. Fs!MAXFILE, Fs!Place(dinode[f], n) # 0
      PROVE  n \in Fs!Owned(f) /\ Fs!Held(f, n) = Fs!Place(dinode[f], n) /\ Fs!Held(f, n) \in used
  <2>1. NDIRECT \in 0 .. NDIRECT /\ Fs!MAXFILE \in Nat
    BY Params
  <2>2. n \in Fs!Owned(f)
    BY <1>1, <2>1, Owning
  <2>3. Fs!Held(f, n) = Fs!Place(dinode[f], n)
    <3>1. CASE n < Fs!MAXFILE
      <4>1. Fs!Bmap(dinode[f], n) = Fs!Bmap(inode[f], n)
        BY <1>1, <2>1, <3>1, DiskHas DEF Fs!Place
      <4> QED
        BY <2>1, <3>1, <4>1 DEF Fs!Held, Fs!Place
    <3>2. CASE ~ (n < Fs!MAXFILE)
      <4>1. dinode[f].addrs[NDIRECT] \in {0, inode[f].addrs[NDIRECT]}
        BY <1>1, <2>1, Tops DEF Fs!DiskOK
      <4> QED
        BY <1>1, <2>1, <3>2, <4>1 DEF Fs!Held, Fs!Place
    <3> QED
      BY <3>1, <3>2
  <2> QED
    BY <1>1, <2>2, <2>3 DEF Fs!BlockInv, Fs!OwnInv
<1>2. ASSUME NEW f \in File, state[f] = "live"
      PROVE  Fs!BlocksOf(dinode[f]) \subseteq used /\ Fs!OnePlace(dinode[f])
  <2>1. Fs!BlocksOf(dinode[f]) \subseteq used
    <3> SUFFICES ASSUME NEW x \in Fs!Numbers(dinode[f]), Fs!NumberAt(dinode[f], x) # 0
                 PROVE  Fs!NumberAt(dinode[f], x) \in used
      BY DEF Fs!BlocksOf
    <3>1. PICK n \in 0 .. Fs!MAXFILE : Fs!NumberAt(dinode[f], x) = Fs!Place(dinode[f], n)
      BY NumbersAre
    <3> QED
      BY <1>1, <1>2, <3>1
  <2>2. ASSUME NEW x \in Fs!Numbers(dinode[f]), NEW y \in Fs!Numbers(dinode[f]),
               Fs!NumberAt(dinode[f], x) = Fs!NumberAt(dinode[f], y), Fs!NumberAt(dinode[f], x) # 0
        PROVE  x = y
    <3>1. PICK n \in 0 .. Fs!MAXFILE : 
            Fs!NumberAt(dinode[f], x) = Fs!Place(dinode[f], n) /\ x = NumberOf(n)
      BY NumbersAre
    <3>2. PICK m \in 0 .. Fs!MAXFILE : 
            Fs!NumberAt(dinode[f], y) = Fs!Place(dinode[f], m) /\ y = NumberOf(m)
      BY NumbersAre
    <3>3. /\ n \in Fs!Owned(f) /\ Fs!Held(f, n) = Fs!NumberAt(dinode[f], x)
          /\ m \in Fs!Owned(f) /\ Fs!Held(f, m) = Fs!NumberAt(dinode[f], x)
      BY <1>1, <1>2, <2>2, <3>1, <3>2
    <3>4. n = m
      BY <2>2, <3>3 DEF Fs!BlockInv, Fs!OwnInv
    <3> QED
      BY <3>1, <3>2, <3>4
  <2> QED
    BY <2>1, <2>2 DEF Fs!OnePlace
<1>3. ASSUME NEW f \in File, NEW g \in File, state[f] = "live", state[g] = "live", f # g
      PROVE  Fs!BlocksOf(dinode[f]) \cap Fs!BlocksOf(dinode[g]) = {}
  <2> SUFFICES ASSUME NEW x \in Fs!Numbers(dinode[f]), NEW y \in Fs!Numbers(dinode[g]),
                      Fs!NumberAt(dinode[f], x) = Fs!NumberAt(dinode[g], y), Fs!NumberAt(dinode[f], x) # 0
               PROVE  FALSE
    BY DEF Fs!BlocksOf
  <2>1. PICK n \in 0 .. Fs!MAXFILE : Fs!NumberAt(dinode[f], x) = Fs!Place(dinode[f], n)
    BY NumbersAre
  <2>2. PICK m \in 0 .. Fs!MAXFILE : Fs!NumberAt(dinode[g], y) = Fs!Place(dinode[g], m)
    BY NumbersAre
  <2>3. /\ n \in Fs!Owned(f) /\ Fs!Held(f, n) = Fs!NumberAt(dinode[f], x)
        /\ m \in Fs!Owned(g) /\ Fs!Held(g, m) = Fs!NumberAt(dinode[f], x)
    BY <1>1, <1>3, <2>1, <2>2
  <2> QED
    BY <1>3, <2>3 DEF Fs!BlockInv, Fs!OwnInv
<1> QED
  BY <1>2, <1>3 DEF Fs!DiskSafe

\* No block is lost.
LEMMA LosesNone ==
  ASSUME Fs!FileBlocksAssumption, Fs!BlockInv
  PROVE  Fs!NoneLost
<1> SUFFICES ASSUME crashes = 0, NEW b \in used
             PROVE  \E f \in File : b \in Fs!BlocksOf(inode[f]) \cup ({op[f].block} \ {0})
  BY DEF Fs!NoneLost
<1>1. PICK f \in File : \E n \in Fs!Owned(f) : Fs!Held(f, n) = b
  BY DEF Fs!BlockInv, Fs!LostInv
<1>2. PICK n \in Fs!Owned(f) : Fs!Held(f, n) = b
  BY <1>1
<1>3. b # 0 /\ n \in 0 .. Fs!MAXFILE + 1 /\ Fs!MAXFILE \in Nat
  BY Params, Owning DEF Fs!BlockInv, Fs!TypeInv
<1>4. CASE n <= Fs!MAXFILE
  <2>1. n \in 0 .. Fs!MAXFILE /\ Fs!Place(inode[f], n) = b
    BY <1>2, <1>3, <1>4 DEF Fs!Held
  <2> QED
    BY <1>3, <2>1, PlacesListed
<1>5. CASE n = Fs!MAXFILE + 1
  BY <1>2, <1>3, <1>5, Places
<1> QED
  BY <1>3, <1>4, <1>5

\* A file without an operation reads as what was written to it, crash or no crash; without
\* one it is zero behind its end; and a free block is zero (readi, writei, bfree).
THEOREM ReadsWhatWasWritten ==
  ASSUME Fs!FileBlocksAssumption PROVE Fs!Spec => [](Fs!ReadsBack /\ Fs!TailZero /\ Fs!FreeZero)
<1>1. Fs!BlockInv => Fs!ReadsBack /\ Fs!TailZero /\ Fs!FreeZero
  BY ReadsIt DEF Fs!BlockInv
<1> QED
  BY <1>1, BlocksInOrder, PTL

\* The disk is good to boot from at any moment: no block is in two files, twice in one, or in
\* one and free; without a crash no block is lost; none is freed twice (balloc, bfree, iupdate).
THEOREM BlocksNeverMixed ==
  ASSUME Fs!FileBlocksAssumption PROVE Fs!Spec => [](Fs!DiskSafe /\ Fs!NoneLost /\ Fs!NoPanic)
<1>1. Fs!BlockInv => Fs!DiskSafe /\ Fs!NoneLost /\ Fs!NoPanic
  BY BootsFrom, LosesNone DEF Fs!BlockInv
<1> QED
  BY <1>1, BlocksInOrder, PTL
=============================================================================
