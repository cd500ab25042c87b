------------------------- MODULE AddressSpaceProofs -------------------------
(* Theorems about AddressSpace, for every number of processes, threads,    *)
(* directories and frames, and every page size and use of sbrk(), provided *)
(* that no thread calls sbrk() while another one forks or clones: the      *)
(* threads of a process agree on its size, its directory maps exactly what *)
(* lies below, every frame is free or mapped once, and two threads never   *)
(* get the same byte from sbrk().                                          *)
EXTENDS AddressSpace, FiniteSetTheorems, TLAPS

-----------------------------------------------------------------------------
(* Pages and sizes *)

LEMMA Constants ==
  /\ PGSIZE \in Nat /\ PGSIZE > 0
  /\ USERTOP \in Nat /\ PGSIZE <= USERTOP
  /\ UintSize \in Nat /\ USERTOP < UintSize
  /\ Delta \subseteq Int
  /\ \A k \in Delta : USERTOP + k < UintSize /\ - k < UintSize - USERTOP
  /\ None \notin Pgdir /\ IsFiniteSet(Pgdir)
  /\ Frames \in Nat
  /\ Slot \subseteq Nat
  BY AddressSpaceAssumption

LEMMA PageNumbers ==
  /\ USERTOP \div PGSIZE \in Nat
  /\ USERTOP = PGSIZE * (USERTOP \div PGSIZE)
  /\ PageNo \subseteq Nat /\ 0 \in PageNo
  /\ IsFiniteSet(PageNo)
<1>1. /\ PGSIZE \in Nat /\ PGSIZE > 0 /\ USERTOP \in Nat /\ PGSIZE <= USERTOP
      /\ USERTOP % PGSIZE = 0
  BY AddressSpaceAssumption
<1>2. /\ USERTOP \div PGSIZE \in Int
      /\ USERTOP = PGSIZE * (USERTOP \div PGSIZE) + (USERTOP % PGSIZE)
  BY <1>1
<1>3. USERTOP \div PGSIZE >= 1
  BY <1>1, <1>2
<1>4. IsFiniteSet(PageNo)
  BY <1>2, FS_Interval DEF PageNo
<1> QED
  BY <1>1, <1>2, <1>3, <1>4 DEF PageNo

LEMMA Ranges ==
  ASSUME NEW lo \in Nat, NEW hi \in Nat, lo <= hi
  PROVE  /\ PageRange(lo, hi) \subseteq PageNo
         /\ PageRange(0, lo) \cap PageRange(lo, hi) = {}
         /\ PageRange(0, lo) \cup PageRange(lo, hi) = PageRange(0, hi)
         /\ PageRange(0, hi) \ PageRange(lo, hi) = PageRange(0, lo)
         /\ lo > 0 => 0 \notin PageRange(lo, hi)
<1>1. \A k \in PageNo : k * PGSIZE \in Nat
  BY PageNumbers, Constants
<1>2. 0 * PGSIZE = 0
  BY Constants
<1>3. PageRange(lo, hi) \subseteq PageNo
  BY DEF PageRange
<1>4. PageRange(0, lo) \cap PageRange(lo, hi) = {}
  BY <1>1 DEF PageRange
<1>5. PageRange(0, lo) \cup PageRange(lo, hi) = PageRange(0, hi)
  BY <1>1 DEF PageRange
<1>6. lo > 0 => 0 \notin PageRange(lo, hi)
  BY <1>2 DEF PageRange
<1> QED
  BY <1>3, <1>4, <1>5, <1>6

LEMMA RemainderOf ==
  ASSUME NEW x \in Int, - UintSize < x, x < UintSize
  PROVE  x % UintSize = IF x >= 0 THEN x ELSE x + UintSize
<1> DEFINE U == UintSize
           y == IF x >= 0 THEN x ELSE x + U
           q == IF x >= 0 THEN 0 ELSE -1
<1>1. U \in Nat /\ U > 0
  BY Constants
<1>2. x = U * q + y /\ y \in 0 .. U - 1 /\ q \in Int
  BY <1>1
<1> HIDE DEF q, y
<1>3. x % U = y
  BY <1>1, <1>2
<1> QED
  BY <1>3 DEF y

\* The size that growproc() computes: it wraps only below zero, and then to a size
\* that no process can have.
LEMMA NewSizes ==
  ASSUME TypeOK, NEW p \in Slot
  PROVE  LET new == (sz[p] + n[p]) % UintSize IN
         /\ n[p] >= 0 => new = sz[p] + n[p]
         /\ n[p] < 0 => \/ new = sz[p] + n[p] /\ new >= 0
                        \/ new \in Nat /\ new > sz[p]
<1>1. sz[p] \in Nat /\ sz[p] <= USERTOP
  BY Constants DEF TypeOK, Size
<1>2. n[p] \in Int /\ USERTOP + n[p] < UintSize /\ - n[p] < UintSize - USERTOP
  <2>1. CASE n[p] \in Delta
    BY <2>1, Constants
  <2>2. CASE n[p] = 0
    BY <2>2, Constants
  <2> QED
    BY <2>1, <2>2 DEF TypeOK
<1> DEFINE x == sz[p] + n[p]
<1>3. x \in Int /\ - UintSize < x /\ x < UintSize
  BY <1>1, <1>2, Constants
<1>4. x % UintSize = IF x >= 0 THEN x ELSE x + UintSize
  BY <1>3, RemainderOf
<1> QED
  BY <1>1, <1>2, <1>3, <1>4, Constants

-----------------------------------------------------------------------------
(* Frames *)

LEMMA PagesOfFinite ==
  ASSUME TypeOK
  PROVE  IsFiniteSet(PagesOf(Pgdir)) /\ Cardinality(PagesOf(Pgdir)) \in Nat
<1>1. IsFiniteSet(Pgdir \X PageNo)
  BY Constants, PageNumbers, FS_Product
<1>2. PagesOf(Pgdir) \subseteq Pgdir \X PageNo
  BY DEF PagesOf
<1>3. IsFiniteSet(PagesOf(Pgdir))
  BY <1>1, <1>2, FS_Subset
<1> QED
  BY <1>3, FS_CardinalityType

\* As many pairs as pages.
LEMMA OneDirectory ==
  ASSUME NEW d, NEW X \in SUBSET PageNo
  PROVE  /\ IsFiniteSet({d} \X X) /\ IsFiniteSet(X) /\ Cardinality(X) \in Nat
         /\ Cardinality({d} \X X) = Cardinality(X)
<1>1. IsFiniteSet(X) /\ Cardinality(X) \in Nat
  BY PageNumbers, FS_Subset, FS_CardinalityType
<1>2. IsFiniteSet({d}) /\ Cardinality({d}) = 1
  BY FS_Singleton
<1>3. Cardinality({d} \X X) = 1 * Cardinality(X) /\ IsFiniteSet({d} \X X)
  BY <1>1, <1>2, FS_Product
<1> QED
  BY <1>1, <1>3

LEMMA CountUnion ==
  ASSUME NEW S, NEW T, IsFiniteSet(S), IsFiniteSet(T), S \cap T = {}
  PROVE  Cardinality(S \cup T) = Cardinality(S) + Cardinality(T)
<1>1. Cardinality(S \cap T) = 0
  BY FS_EmptySet
<1>2. Cardinality(S \cup T) = Cardinality(S) + Cardinality(T) - Cardinality(S \cap T)
  BY FS_Union
<1>3. Cardinality(S) \in Nat /\ Cardinality(T) \in Nat
  BY FS_CardinalityType
<1> QED
  BY <1>1, <1>2, <1>3

Balance == free + Cardinality(PagesOf(Pgdir)) = Frames

\* deallocuvm() gives back what it takes away.
LEMMA DeallocBalance ==
  ASSUME TypeOK, Balance, NEW d \in Pgdir, NEW gone, Dealloc(d, gone)
  PROVE  Balance' /\ free' \in 0 .. Frames /\ pages' \in [Pgdir -> SUBSET PageNo]
<1> DEFINE out == pages[d] \cap gone
           old == PagesOf(Pgdir)
           new == PagesOf(Pgdir)'
<1>1. pages' = [pages EXCEPT ![d] = @ \ gone] /\ pages' \in [Pgdir -> SUBSET PageNo]
  BY DEF Dealloc, TypeOK
<1>2. \A e \in Pgdir : pages'[e] = IF e = d THEN pages[d] \ gone ELSE pages[e]
  BY <1>1 DEF TypeOK
<1>3. out \in SUBSET PageNo
  BY DEF TypeOK
<1>4. /\ old = new \cup ({d} \X out)
      /\ new \cap ({d} \X out) = {}
  BY <1>2, <1>3 DEF PagesOf
<1>5. IsFiniteSet(new) /\ IsFiniteSet(old)
  BY <1>4, PagesOfFinite, FS_Subset
<1> DEFINE pairs == {d} \X out
<1>10. /\ IsFiniteSet(pairs) /\ Cardinality(pairs) = Cardinality(out)
       /\ Cardinality(out) \in Nat
  BY <1>3, OneDirectory
<1>6. Cardinality(old) = Cardinality(new) + Cardinality(out)
  <2> HIDE DEF old, new, pairs, out
  <2>1. Cardinality(new \cup pairs) = Cardinality(new) + Cardinality(pairs)
    BY <1>4, <1>5, <1>10, CountUnion DEF pairs
  <2> QED
    BY <1>4, <1>10, <2>1 DEF pairs
<1>7. /\ Cardinality(new) \in Nat /\ Cardinality(out) \in Nat
      /\ free \in Nat /\ Frames \in Nat
  BY <1>5, <1>10, FS_CardinalityType, Constants DEF TypeOK
<1>8. free' = free + Cardinality(out) /\ free + Cardinality(old) = Frames
  BY DEF Dealloc, Balance
<1> HIDE DEF old, new, out
<1>9. free' + Cardinality(new) = Frames /\ free' \in 0 .. Frames
  BY <1>6, <1>7, <1>8
<1> QED
  BY <1>1, <1>9 DEF Balance, new

\* Pages that were not mapped take a frame each.
LEMMA MapBalance ==
  ASSUME TypeOK, Balance, NEW d \in Pgdir, NEW fresh \in SUBSET PageNo,
         fresh \cap pages[d] = {}, Cardinality(fresh) <= free,
         pages' = [pages EXCEPT ![d] = @ \cup fresh],
         free' = free - Cardinality(fresh)
  PROVE  Balance' /\ free' \in 0 .. Frames /\ pages' \in [Pgdir -> SUBSET PageNo]
<1> DEFINE old == PagesOf(Pgdir)
           new == PagesOf(Pgdir)'
<1>1. pages' \in [Pgdir -> SUBSET PageNo]
  BY DEF TypeOK
<1>2. \A e \in Pgdir : pages'[e] = IF e = d THEN pages[d] \cup fresh ELSE pages[e]
  BY DEF TypeOK
<1>4. /\ new = old \cup ({d} \X fresh)
      /\ old \cap ({d} \X fresh) = {}
  BY <1>2 DEF PagesOf
<1> DEFINE pairs == {d} \X fresh
<1>10. /\ IsFiniteSet(pairs) /\ Cardinality(pairs) = Cardinality(fresh)
       /\ Cardinality(fresh) \in Nat
  BY OneDirectory
<1>5. IsFiniteSet(old) /\ Cardinality(old) \in Nat
  BY PagesOfFinite
<1>6. Cardinality(new) = Cardinality(old) + Cardinality(fresh)
  <2> HIDE DEF old, new, pairs
  <2>1. Cardinality(old \cup pairs) = Cardinality(old) + Cardinality(pairs)
    BY <1>4, <1>5, <1>10, CountUnion DEF pairs
  <2> QED
    BY <1>4, <1>10, <2>1 DEF pairs
<1>7. /\ Cardinality(old) \in Nat /\ Cardinality(fresh) \in Nat
      /\ free \in Nat /\ free <= Frames /\ Frames \in Nat
  BY <1>5, <1>10, Constants DEF TypeOK
<1>8. free + Cardinality(old) = Frames
  BY DEF Balance
<1> HIDE DEF old, new
<1>9. free' + Cardinality(new) = Frames /\ free' \in 0 .. Frames
  BY <1>6, <1>7, <1>8
<1> QED
  BY <1>1, <1>9 DEF Balance, new

\* A directory that nobody uses maps nothing.
FreeDirs ==
  \A d \in Pgdir :
    (\A q \in Slot : dir[q] # d /\ (Held(q) => pgdir[q] # d)) => pages[d] = {}

LEMMA FramesForm ==
  ASSUME TypeOK
  PROVE  FramesExact <=> Balance /\ FreeDirs
<1>1. \A d \in Pgdir :
        d \in InUse <=> ~ \A q \in Slot : dir[q] # d /\ (Held(q) => pgdir[q] # d)
  BY DEF InUse, Held
<1>2. PagesOf(Pgdir \ InUse) = {} <=> \A d \in Pgdir \ InUse : pages[d] = {}
  <2>1. ASSUME NEW d \in Pgdir \ InUse, NEW k \in pages[d]
        PROVE  <<d, k>> \in PagesOf(Pgdir \ InUse)
    BY <2>1 DEF PagesOf, TypeOK
  <2>2. ASSUME NEW page \in PagesOf(Pgdir \ InUse)
        PROVE  \E d \in Pgdir \ InUse : pages[d] # {}
    BY <2>2 DEF PagesOf
  <2> QED
    BY <2>1, <2>2
<1> QED
  BY <1>1, <1>2 DEF FramesExact, Balance, FreeDirs

Parts == EntryInv /\ DirInv /\ FreeDirs /\ SizeInv /\ PageInv /\ OwnedInv
Good == TypeOK /\ ~ panicked /\ Balance /\ Parts /\ QuietSbrk = TRUE

-----------------------------------------------------------------------------
(* Steps that leave the pages alone *)

LEMMA SbrkParts == ASSUME Good, NEW p \in Slot, Sbrk(p) PROVE Parts'
<1>1. /\ UNCHANGED <<state, pgdir, sz, thread, pages, np, reg, dir, i, owned>>
      /\ pc[p] = "user" /\ state[p] = "ACTIVE"
      /\ \A t \in Slot : pc'[t] = IF t = p THEN "grow" ELSE pc[t]
      /\ \A t \in Slot : addr'[t] = IF t = p THEN sz[p] ELSE addr[t]
  BY DEF Sbrk, Runs, Active, Goto, Good, TypeOK, tableVars, memVars
<1>2. \A q \in Slot \ {p} :
        state[q] # "UNUSED" /\ pgdir[q] = pgdir[p] =>
          pc[q] \in {"user", "grow"} /\ (pgdir[p] \in Serial => pc[q] # "grow")
  BY DEF Sbrk, Siblings, Good
<1>3. \A t \in Slot : (Making(t)' <=> Making(t)) /\ (Held(t)' <=> Held(t))
                      /\ (Active(t)' <=> Active(t))
  BY <1>1 DEF Making, Held, Active
<1>4. EntryInv'
  BY <1>1, <1>3 DEF Good, Parts, EntryInv, Active
<1>5. DirInv' /\ FreeDirs'
  BY <1>1, <1>3 DEF Good, Parts, DirInv, FreeDirs
<1>6. SizeInv'
  BY <1>1, <1>2, <1>3 DEF Good, Parts, SizeInv, SizesAgree, Active, Making
<1>7. PageInv'
  BY <1>1, <1>3 DEF Good, Parts, PageInv, PageRange
<1>8. \A q \in Slot : pc[q] # "user" => state[q] = "ACTIVE"
  BY DEF Good, Parts, EntryInv, Active
<1>9. OwnedInv'
  BY <1>1, <1>2, <1>3, <1>8 DEF Good, Parts, OwnedInv
<1> QED
  BY <1>4, <1>5, <1>6, <1>7, <1>9 DEF Parts

LEMMA EnterParts ==
  ASSUME Good, NEW p \in Slot, EnterFork(p) \/ EnterClone(p)
  PROVE  Parts'
<1>1. PICK q \in Slot : Allocate(p, q)
  BY DEF EnterFork, EnterClone
<1>2. PICK l \in {"fork", "clone"} : Goto(p, l)
  BY DEF EnterFork, EnterClone
<1>3. /\ UNCHANGED <<pgdir, sz, thread, pages, reg, dir, i, owned, addr>>
      /\ pc[p] = "user" /\ state[p] = "ACTIVE" /\ 0 \in pages[pgdir[p]]
      /\ state[q] = "UNUSED"
      /\ \A t \in Slot : pc'[t] = IF t = p THEN l ELSE pc[t]
      /\ \A t \in Slot : state'[t] = IF t = q THEN "EMBRYO" ELSE state[t]
      /\ \A t \in Slot : np'[t] = IF t = p THEN q ELSE np[t]
  BY <1>1, <1>2 DEF EnterFork, EnterClone, Allocate, Runs, Active, Goto, Good,
     TypeOK, memVars
<1>4. \A t \in Slot \ {p} :
        state[t] # "UNUSED" /\ pgdir[t] = pgdir[p] => pc[t] # "grow"
  BY DEF EnterFork, EnterClone, Quiet, Siblings, Good
<1>5. /\ \A t \in Slot : Making(t)' <=> Making(t) \/ t = p
      /\ \A t \in Slot : (Held(t)' <=> Held(t)) /\ (Active(t)' <=> Active(t))
      /\ ~ Making(p) /\ p # q
  BY <1>3 DEF Making, Held, Active
<1>6. EntryInv'
  <2>1. \A t \in Slot : Making(t) => np[t] # q
    BY <1>3 DEF Good, Parts, EntryInv
  <2>2. \A t \in Slot : np[t] \in Slot
    BY DEF Good, TypeOK
  <2> QED
    BY <1>3, <1>5, <2>1, <2>2 DEF Good, Parts, EntryInv, Active
<1>7. DirInv' /\ FreeDirs'
  BY <1>3, <1>5 DEF Good, Parts, DirInv, FreeDirs
<1>8. \A t \in Slot : pc[t] # "user" => state[t] = "ACTIVE"
  BY DEF Good, Parts, EntryInv, Active
<1>9. SizeInv'
  BY <1>3, <1>4, <1>5, <1>8 DEF Good, Parts, SizeInv, SizesAgree
<1>10. PageInv'
  BY <1>3, <1>5 DEF Good, Parts, PageInv, PageRange
<1>11. OwnedInv'
  BY <1>3, <1>5 DEF Good, Parts, OwnedInv
<1> QED
  BY <1>6, <1>7, <1>9, <1>10, <1>11 DEF Parts

\* copyuvm() gets a directory that nobody uses, and that maps nothing.
LEMMA CopyBeginParts == ASSUME Good, NEW p \in Slot, CopyBegin(p) PROVE Parts'
<1>1. PICK d \in Pgdir \ InUse : dir' = [dir EXCEPT ![p] = d]
  BY DEF CopyBegin
<1>2. /\ UNCHANGED <<state, pgdir, sz, thread, pages, np, i, owned, addr>>
      /\ pc[p] = "fork"
      /\ \A t \in Slot : pc'[t] = IF t = p THEN "copy" ELSE pc[t]
      /\ \A t \in Slot : reg'[t] = IF t = p THEN sz[p] ELSE reg[t]
      /\ \A t \in Slot : dir'[t] = IF t = p THEN d ELSE dir[t]
  BY <1>1 DEF CopyBegin, Goto, Good, TypeOK, tableVars, memVars
<1>3. d # None /\ \A t \in Slot : dir[t] # d /\ (Held(t) => pgdir[t] # d)
  BY <1>1, Constants DEF InUse, Held
<1>4. pages[d] = {}
  BY <1>1, <1>3 DEF Good, Parts, FreeDirs
<1>5. \A t \in Slot : (Making(t)' <=> Making(t)) /\ (Held(t)' <=> Held(t))
                      /\ (Active(t)' <=> Active(t))
  BY <1>2 DEF Making, Held, Active
<1>6. EntryInv'
  BY <1>2, <1>5 DEF Good, Parts, EntryInv, Active
<1>7. DirInv'
  BY <1>2, <1>3, <1>5 DEF Good, Parts, DirInv
<1>8. FreeDirs'
  <2>1. dir[p] = None
    BY <1>2 DEF Good, Parts, DirInv
  <2> QED
    BY <1>2, <1>5, <2>1, Constants DEF Good, Parts, FreeDirs
<1>9. SizeInv'
  BY <1>2, <1>5 DEF Good, Parts, SizeInv, SizesAgree
<1>10. PageInv'
  <2>1. i[p] = 0
    BY <1>2 DEF Good, Parts, PageInv
  <2>2. pages'[dir'[p]] = {k \in PageRange(0, reg'[p]) : k < i'[p]}
    <3>1. pages'[dir'[p]] = {} /\ i'[p] = 0
      BY <1>2, <1>4, <2>1
    <3>2. \A k \in PageRange(0, reg'[p]) : k \in Nat /\ ~ (k < 0)
      BY PageNumbers DEF PageRange
    <3> QED
      BY <3>1, <3>2
  <2>3. i'[p] = i[p] /\ pc'[p] = "copy" /\ pc[p] = "fork"
    BY <1>2
  <2> SUFFICES ASSUME NEW t \in Slot
               PROVE  /\ Active(t)' =>
                           /\ sz'[t] > 0
                           /\ pages'[pgdir'[t]] \subseteq PageRange(0, sz'[t])
                           /\ 0 \in pages'[pgdir'[t]] =>
                                PageRange(0, sz'[t]) \subseteq pages'[pgdir'[t]]
                      /\ Making(t)' => 0 \in pages'[pgdir'[t]]
                      /\ pc'[t] \notin {"copy", "publish"} => i'[t] = 0
                      /\ pc'[t] = "copy" =>
                           pages'[dir'[t]] = {k \in PageRange(0, reg'[t]) : k < i'[t]}
                      /\ pc'[t] = "publish" => pages'[dir'[t]] = PageRange(0, reg'[t])
    BY DEF PageInv, PageRange
  <2>4. /\ Active(t) =>
             /\ sz[t] > 0
             /\ pages[pgdir[t]] \subseteq PageRange(0, sz[t])
             /\ 0 \in pages[pgdir[t]] => PageRange(0, sz[t]) \subseteq pages[pgdir[t]]
        /\ Making(t) => 0 \in pages[pgdir[t]]
        /\ pc[t] \notin {"copy", "publish"} => i[t] = 0
        /\ pc[t] = "copy" => pages[dir[t]] = {k \in PageRange(0, reg[t]) : k < i[t]}
        /\ pc[t] = "publish" => pages[dir[t]] = PageRange(0, reg[t])
    BY DEF Good, Parts, PageInv
  <2>5. /\ sz' = sz /\ pages' = pages /\ pgdir' = pgdir /\ i' = i
        /\ Making(t)' <=> Making(t)
        /\ Active(t)' <=> Active(t)
    BY <1>2, <1>5
  <2>6. CASE t = p
    BY <2>1, <2>2, <2>3, <2>4, <2>5, <2>6
  <2>7. CASE t # p
    <3>1. pc'[t] = pc[t] /\ reg'[t] = reg[t] /\ dir'[t] = dir[t]
      BY <1>2, <2>7
    <3> QED
      BY <2>4, <2>5, <3>1
  <2> QED
    BY <2>6, <2>7
<1>11. OwnedInv'
  BY <1>2, <1>5 DEF Good, Parts, OwnedInv
<1> QED
  BY <1>6, <1>7, <1>8, <1>9, <1>10, <1>11 DEF Parts

\* One round of copyuvm(): the page is there.
LEMMA CopyPageFacts ==
  ASSUME Good, NEW p \in Slot, CopyPage(p)
  PROVE  /\ i[p] \in pages[pgdir[p]] /\ i[p] \in PageRange(0, reg[p])
         /\ dir[p] \in Pgdir /\ i[p] \notin pages[dir[p]]
         /\ free > 0
         /\ pages' = [pages EXCEPT ![dir[p]] = @ \cup {i[p]}]
         /\ free' = free - 1
         /\ i' = [i EXCEPT ![p] = @ + 1]
         /\ UNCHANGED <<tableVars, n, addr, np, reg, dir, pc, owned, panicked>>
<1>1. pc[p] = "copy" /\ i[p] * PGSIZE < reg[p] /\ Active(p)
  BY DEF CopyPage, Good, Parts, EntryInv
<1>2. /\ reg[p] = sz[p] /\ PageRange(0, sz[p]) = pages[pgdir[p]]
      /\ pages[dir[p]] = {k \in PageRange(0, reg[p]) : k < i[p]}
  BY <1>1 DEF Good, Parts, SizeInv, PageInv, Making
<1>3. i[p] \in Nat /\ dir[p] \in Pgdir
  BY <1>1 DEF Good, TypeOK, Parts, DirInv
<1>4. i[p] \in PageRange(0, reg[p])
  <2>1. reg[p] \in Nat /\ reg[p] <= USERTOP
    BY Constants DEF Good, TypeOK, Size
  <2>2. i[p] < USERTOP \div PGSIZE
    BY <1>1, <1>3, <2>1, Constants, PageNumbers
  <2>3. i[p] \in PageNo
    BY <1>3, <2>2, PageNumbers DEF PageNo
  <2> QED
    BY <1>1, <1>3, <2>3, Constants DEF PageRange
<1>5. i[p] \notin pages[dir[p]]
  BY <1>2, <1>3
<1> QED
  BY <1>2, <1>3, <1>4, <1>5 DEF CopyPage, Panic

LEMMA CopyPageParts == ASSUME Good, NEW p \in Slot, CopyPage(p) PROVE Parts'
<1>1. /\ i[p] \in PageRange(0, reg[p]) /\ dir[p] \in Pgdir
      /\ UNCHANGED <<state, pgdir, sz, thread, addr, np, reg, dir, pc, owned>>
      /\ pc[p] = "copy" /\ i[p] \in Nat
      /\ \A t \in Slot : i'[t] = IF t = p THEN i[p] + 1 ELSE i[t]
      /\ \A d \in Pgdir : pages'[d] = IF d = dir[p] THEN pages[d] \cup {i[p]}
                                       ELSE pages[d]
  <2>1. pc[p] = "copy" /\ i[p] \in Nat
    BY DEF CopyPage, Good, TypeOK
  <2>2. /\ i[p] \in PageRange(0, reg[p]) /\ dir[p] \in Pgdir
        /\ pages' = [pages EXCEPT ![dir[p]] = @ \cup {i[p]}]
        /\ i' = [i EXCEPT ![p] = @ + 1]
        /\ UNCHANGED <<tableVars, n, addr, np, reg, dir, pc, owned, panicked>>
    BY CopyPageFacts
  <2> QED
    BY <2>1, <2>2 DEF Good, TypeOK, tableVars
<1>2. \A t \in Slot : (Making(t)' <=> Making(t)) /\ (Held(t)' <=> Held(t))
                      /\ (Active(t)' <=> Active(t))
  BY <1>1 DEF Making, Held, Active
<1>3. /\ dir[p] # None
      /\ \A t \in Slot \ {p} : dir[t] # dir[p]
      /\ \A t \in Slot : Held(t) => pgdir[t] # dir[p]
  BY <1>1 DEF Good, Parts, DirInv
<1>4. EntryInv' /\ DirInv'
  BY <1>1, <1>2 DEF Good, Parts, EntryInv, DirInv, Active
<1>5. FreeDirs'
  BY <1>1, <1>2 DEF Good, Parts, FreeDirs
<1>6. SizeInv' /\ OwnedInv'
  BY <1>1, <1>2 DEF Good, Parts, SizeInv, SizesAgree, OwnedInv
<1>7. PageInv'
  <2>5. \A t \in Slot : Held(t) => pgdir[t] \in Pgdir
    BY DEF Good, TypeOK, Parts, DirInv
  <2>1. \A t \in Slot : Held(t) => pages'[pgdir[t]] = pages[pgdir[t]]
    BY <1>1, <1>3, <2>5
  <2>2. \A t \in Slot : Making(t) \/ Active(t) => Held(t)
    BY DEF Good, Parts, EntryInv, Making, Held, Active
  <2>3. pages'[dir[p]] = {k \in PageRange(0, reg[p]) : k < i[p] + 1}
    <3>1. pages[dir[p]] = {k \in PageRange(0, reg[p]) : k < i[p]}
      BY <1>1 DEF Good, Parts, PageInv
    <3>2. PageRange(0, reg[p]) \subseteq Nat
      BY PageNumbers DEF PageRange
    <3>3. pages'[dir[p]] = pages[dir[p]] \cup {i[p]}
      BY <1>1
    <3>4. \A k \in PageRange(0, reg[p]) : k < i[p] + 1 <=> k < i[p] \/ k = i[p]
      <4>1. i[p] \in Nat
        BY <1>1
      <4> QED
        BY <3>2, <4>1
    <3> QED
      BY <1>1, <3>1, <3>3, <3>4
  <2>6. \A t \in Slot : pc[t] \in {"copy", "publish"} => dir[t] \in Pgdir
    BY DEF Good, TypeOK, Parts, DirInv
  <2>4. \A t \in Slot \ {p} : pc[t] \in {"copy", "publish"} =>
          pages'[dir[t]] = pages[dir[t]]
    BY <1>1, <1>3, <2>6
  <2> QED
    BY <1>1, <1>2, <2>1, <2>2, <2>3, <2>4 DEF Good, Parts, PageInv, PageRange
<1> QED
  BY <1>4, <1>5, <1>6, <1>7 DEF Parts

LEMMA CopyDoneParts == ASSUME Good, NEW p \in Slot, CopyDone(p) PROVE Parts'
<1> DEFINE q == np[p]
           d == dir[p]
<1>1. /\ UNCHANGED <<state, sz, thread, pages, addr, np, reg, dir, i, owned>>
      /\ pc[p] = "copy" /\ q \in Slot /\ state[q] = "EMBRYO"
      /\ \A t \in Slot : pc'[t] = IF t = p THEN "publish" ELSE pc[t]
      /\ \A t \in Slot : pgdir'[t] = IF t = q THEN d ELSE pgdir[t]
  BY DEF CopyDone, Goto, Good, TypeOK, Parts, EntryInv, Making, memVars, localVars
<1>2. \A t \in Slot : (Making(t)' <=> Making(t)) /\ (Held(t)' <=> Held(t))
                      /\ (Active(t)' <=> Active(t))
  BY <1>1 DEF Making, Held, Active
<1>3. ~ Held(q) /\ ~ Active(q) /\ pc[q] = "user" /\ q # p /\ owned[q] = {}
  BY <1>1 DEF Held, Active, Good, Parts, EntryInv, OwnedInv
<1>4. \A t \in Slot \ {p} : Making(t) => np[t] # q
  BY <1>1 DEF Good, Parts, EntryInv, Making
<1>5. EntryInv'
  <2>1. \A t \in Slot \ {p} :
          Making(t) => t # q /\ np[t] \in Slot /\ pgdir'[np[t]] = pgdir[np[t]]
                       /\ pgdir'[t] = pgdir[t]
    BY <1>1, <1>3, <1>4 DEF Good, TypeOK, Making
  <2>2. pgdir'[p] = pgdir[p]
    BY <1>1, <1>3
  <2> QED
    BY <1>1, <1>2, <2>1, <2>2 DEF Good, Parts, EntryInv, Making
<1>6. DirInv' /\ FreeDirs'
  BY <1>1, <1>2, <1>3 DEF Good, Parts, DirInv, FreeDirs, Active, Held
<1>7. SizeInv'
  BY <1>1, <1>2, <1>3 DEF Good, Parts, SizeInv, SizesAgree
<1>8. PageInv'
  <2>1. pages[d] = PageRange(0, reg[p])
    <3>1. /\ pages[d] = {k \in PageRange(0, reg[p]) : k < i[p]}
          /\ i[p] * PGSIZE >= reg[p] /\ i[p] \in Nat /\ reg[p] \in Nat
      BY <1>1, Constants DEF CopyDone, Good, TypeOK, Parts, PageInv, Size
    <3>2. ASSUME NEW k \in PageRange(0, reg[p]) PROVE k < i[p]
      <4>1. k \in Nat /\ k * PGSIZE < reg[p]
        BY PageNumbers DEF PageRange
      <4> QED
        BY <3>1, <4>1, Constants
    <3> QED
      BY <3>1, <3>2
  <2>2. \A t \in Slot : Active(t) \/ Making(t) => t # q
    BY <1>1, <1>3 DEF Making
  <2> QED
    BY <1>1, <1>2, <2>1, <2>2 DEF Good, Parts, PageInv, PageRange
<1>9. OwnedInv'
  BY <1>1, <1>2, <1>3 DEF Good, Parts, OwnedInv
<1> QED
  BY <1>5, <1>6, <1>7, <1>8, <1>9 DEF Parts

LEMMA CloneShareParts == ASSUME Good, NEW p \in Slot, CloneShare(p) PROVE Parts'
<1> DEFINE q == np[p]
<1>1. /\ UNCHANGED <<state, sz, thread, pages, addr, np, reg, dir, i, owned>>
      /\ pc[p] = "clone" /\ q \in Slot /\ state[q] = "EMBRYO"
      /\ \A t \in Slot : pc'[t] = IF t = p THEN "load" ELSE pc[t]
      /\ \A t \in Slot : pgdir'[t] = IF t = q THEN pgdir[p] ELSE pgdir[t]
  BY DEF CloneShare, Goto, Good, TypeOK, Parts, EntryInv, Making, memVars, localVars
<1>2. \A t \in Slot : (Making(t)' <=> Making(t)) /\ (Held(t)' <=> Held(t))
                      /\ (Active(t)' <=> Active(t))
  BY <1>1 DEF Making, Held, Active
<1>3. ~ Held(q) /\ ~ Active(q) /\ pc[q] = "user" /\ q # p /\ owned[q] = {}
  BY <1>1 DEF Held, Active, Good, Parts, EntryInv, OwnedInv
<1>4. \A t \in Slot \ {p} : Making(t) => np[t] # q
  BY <1>1 DEF Good, Parts, EntryInv, Making
<1>5. EntryInv'
  <2>1. \A t \in Slot \ {p} :
          Making(t) => t # q /\ np[t] \in Slot /\ pgdir'[np[t]] = pgdir[np[t]]
                       /\ pgdir'[t] = pgdir[t]
    BY <1>1, <1>3, <1>4 DEF Good, TypeOK, Making
  <2>2. pgdir'[p] = pgdir[p]
    BY <1>1, <1>3
  <2> QED
    BY <1>1, <1>2, <2>1, <2>2 DEF Good, Parts, EntryInv, Making
<1>6. DirInv' /\ FreeDirs'
  BY <1>1, <1>2, <1>3 DEF Good, Parts, DirInv, FreeDirs, Active, Held
<1>7. SizeInv'
  BY <1>1, <1>2, <1>3 DEF Good, Parts, SizeInv, SizesAgree
<1>8. PageInv'
  <2>1. \A t \in Slot : Active(t) \/ Making(t) => t # q
    BY <1>1, <1>3 DEF Making
  <2> QED
    BY <1>1, <1>2, <2>1 DEF Good, Parts, PageInv, PageRange
<1>9. OwnedInv'
  BY <1>1, <1>2, <1>3 DEF Good, Parts, OwnedInv
<1> QED
  BY <1>5, <1>6, <1>7, <1>8, <1>9 DEF Parts

LEMMA CloneLoadParts == ASSUME Good, NEW p \in Slot, CloneLoad(p) PROVE Parts'
<1>1. /\ UNCHANGED <<state, pgdir, sz, thread, pages, addr, np, dir, i, owned>>
      /\ pc[p] = "load"
      /\ \A t \in Slot : pc'[t] = IF t = p THEN "store" ELSE pc[t]
      /\ \A t \in Slot : reg'[t] = IF t = p THEN sz[p] ELSE reg[t]
  BY DEF CloneLoad, Goto, Good, TypeOK, tableVars, memVars
<1>2. \A t \in Slot : (Making(t)' <=> Making(t)) /\ (Held(t)' <=> Held(t))
                      /\ (Active(t)' <=> Active(t))
  BY <1>1 DEF Making, Held, Active
<1>3. EntryInv'
  BY <1>1, <1>2 DEF Good, Parts, EntryInv, Active
<1>4. DirInv' /\ FreeDirs'
  BY <1>1, <1>2 DEF Good, Parts, DirInv, FreeDirs
<1>5. SizeInv'
  BY <1>1, <1>2 DEF Good, Parts, SizeInv, SizesAgree
<1>6. PageInv'
  BY <1>1, <1>2 DEF Good, Parts, PageInv, PageRange
<1>7. OwnedInv'
  BY <1>1, <1>2 DEF Good, Parts, OwnedInv
<1> QED
  BY <1>3, <1>4, <1>5, <1>6, <1>7 DEF Parts

-----------------------------------------------------------------------------
(* The end of fork() and clone() *)

\* np[p] is out of construction, whatever has become of it.
LEMMA ForkOverFacts ==
  ASSUME Good, NEW p \in Slot, ForkOver(p),
         pc[p] \in {"fork", "copy", "publish", "store"}
  PROVE  /\ np[p] \in Slot /\ np[p] # p /\ state[np[p]] = "EMBRYO"
         /\ pc[np[p]] = "user" /\ owned[np[p]] = {} /\ dir[np[p]] = None
         /\ \A t \in Slot \ {p} : Making(t) => np[t] # np[p]
         /\ \A t \in Slot : pc'[t] = IF t = p THEN "user" ELSE pc[t]
         /\ \A t \in Slot : np'[t] = IF t = p THEN p ELSE np[t]
         /\ \A t \in Slot : reg'[t] = IF t = p THEN 0 ELSE reg[t]
         /\ \A t \in Slot : dir'[t] = IF t = p THEN None ELSE dir[t]
         /\ \A t \in Slot : i'[t] = IF t = p THEN 0 ELSE i[t]
         /\ UNCHANGED <<n, addr, owned, panicked>>
         /\ \A t \in Slot : Making(t)' <=> Making(t) /\ t # p
<1>1. /\ np[p] \in Slot /\ state[np[p]] = "EMBRYO"
      /\ \A t \in Slot \ {p} : Making(t) => np[t] # np[p]
      /\ state[p] = "ACTIVE"
  BY DEF Good, TypeOK, Parts, EntryInv, Making, Active
<1>2. pc[np[p]] = "user" /\ owned[np[p]] = {}
  BY <1>1 DEF Good, Parts, EntryInv, OwnedInv, Active
<1>3. dir[np[p]] = None
  BY <1>1, <1>2 DEF Good, Parts, DirInv
<1>4. /\ \A t \in Slot : pc'[t] = IF t = p THEN "user" ELSE pc[t]
      /\ \A t \in Slot : np'[t] = IF t = p THEN p ELSE np[t]
      /\ \A t \in Slot : reg'[t] = IF t = p THEN 0 ELSE reg[t]
      /\ \A t \in Slot : dir'[t] = IF t = p THEN None ELSE dir[t]
      /\ \A t \in Slot : i'[t] = IF t = p THEN 0 ELSE i[t]
      /\ UNCHANGED <<n, addr, owned, panicked>>
  BY DEF ForkOver, Goto, Good, TypeOK
<1>5. \A t \in Slot : Making(t)' <=> Making(t) /\ t # p
  BY <1>4 DEF Making
<1> QED
  BY <1>1, <1>2, <1>3, <1>4, <1>5

LEMMA ForkPublishParts == ASSUME Good, NEW p \in Slot, ForkPublish(p) PROVE Parts'
<1> DEFINE q == np[p]
           d == dir[p]
<1>1. pc[p] = "publish" /\ ForkOver(p)
  BY DEF ForkPublish
<1>2. /\ q \in Slot /\ q # p /\ state[q] = "EMBRYO"
      /\ pc[q] = "user" /\ owned[q] = {} /\ dir[q] = None
      /\ \A t \in Slot \ {p} : Making(t) => np[t] # q
      /\ \A t \in Slot : pc'[t] = IF t = p THEN "user" ELSE pc[t]
      /\ \A t \in Slot : np'[t] = IF t = p THEN p ELSE np[t]
      /\ \A t \in Slot : reg'[t] = IF t = p THEN 0 ELSE reg[t]
      /\ \A t \in Slot : dir'[t] = IF t = p THEN None ELSE dir[t]
      /\ \A t \in Slot : i'[t] = IF t = p THEN 0 ELSE i[t]
      /\ UNCHANGED <<addr, owned>>
      /\ \A t \in Slot : Making(t)' <=> Making(t) /\ t # p
  BY <1>1, ForkOverFacts
<1>3. /\ UNCHANGED <<pgdir, pages>>
      /\ \A t \in Slot : sz'[t] = IF t = q THEN sz[p] ELSE sz[t]
      /\ \A t \in Slot : state'[t] = IF t = q THEN "ACTIVE" ELSE state[t]
      /\ \A t \in Slot : thread'[t] <=> t # q /\ thread[t]
  BY <1>2 DEF ForkPublish, memVars, Good, TypeOK
<1>4. \A t \in Slot : /\ Held(t)' <=> Held(t) \/ t = q
                      /\ Active(t)' <=> Active(t) \/ t = q
  BY <1>3 DEF Held, Active
<1>5. /\ pgdir[q] = d /\ d # None /\ Active(p) /\ reg[p] = sz[p]
      /\ pages[d] = PageRange(0, reg[p])
      /\ \A t \in Slot : Held(t) => pgdir[t] # d
      /\ \A t \in Slot \ {p} : dir[t] # d
  BY <1>1 DEF Good, Parts, EntryInv, DirInv, SizeInv, PageInv
<1>6. EntryInv'
  <2>1. \A t \in Slot \ {p} : Making(t) => np[t] \in Slot \ {q}
    BY <1>2 DEF Good, TypeOK
  <2>2. \A t \in Slot : pc'[t] # "user" => pc[t] = pc'[t] /\ t # p
    BY <1>2
  <2>3. \A t \in Slot : pc[t] \in {"publish", "load", "store"} => Making(t)
    BY DEF Making
  <2> QED
    BY <1>2, <1>3, <1>4, <2>1, <2>2, <2>3 DEF Good, Parts, EntryInv
<1>7. DirInv'
  BY <1>2, <1>3, <1>4, <1>5 DEF Good, Parts, DirInv, Active, Held
<1>8. FreeDirs'
  BY <1>2, <1>3, <1>4, <1>5 DEF Good, Parts, FreeDirs
<1>9. \A t \in Slot \ {q} : Active(t) => pgdir[t] # d
  BY <1>5 DEF Active, Held
<1>10. SizeInv'
  <2>1. SizesAgree'
    BY <1>3, <1>4, <1>5, <1>9 DEF Good, Parts, SizeInv, SizesAgree
  <2>2. \A t \in Slot : pc'[t] # "user" => t # q /\ Active(t) /\ pgdir[t] # d
    BY <1>2, <1>9 DEF Good, Parts, EntryInv
  <2>3. ~ Making(q)
    BY <1>2 DEF Making
  <2> QED
    BY <1>2, <1>3, <1>4, <2>1, <2>2, <2>3 DEF Good, Parts, SizeInv
<1>11. PageInv'
  <2>1. sz[p] > 0
    BY <1>5 DEF Good, Parts, PageInv
  <2>2. \A t \in Slot : pc'[t] # "user" => t # q
    BY <1>2
  <2> QED
    BY <1>2, <1>3, <1>4, <1>5, <2>1, <2>2 DEF Good, Parts, PageInv, PageRange
<1>12. OwnedInv'
  BY <1>2, <1>3, <1>4 DEF Good, Parts, OwnedInv
<1> QED
  BY <1>6, <1>7, <1>8, <1>10, <1>11, <1>12 DEF Parts

\* The two halves of DirInv.
CopyOwn(t) ==
  /\ dir[t] # None <=> pc[t] \in {"copy", "publish"}
  /\ dir[t] # None => /\ \A r \in Slot \ {t} : dir[r] # dir[t]
                      /\ \A r \in Slot : Held(r) => pgdir[r] # dir[t]
FamilyOwn(t) ==
  /\ pgdir[t] # None
  /\ ~ thread[t] => \A r \in Slot \ {t} : Held(r) /\ ~ thread[r] => pgdir[r] # pgdir[t]
  /\ thread[t] => \E r \in Slot : /\ Active(r) /\ ~ thread[r]
                                  /\ pgdir[r] = pgdir[t]

LEMMA ClonePublishParts == ASSUME Good, NEW p \in Slot, ClonePublish(p) PROVE Parts'
<1> DEFINE q == np[p]
           d == pgdir[p]
<1>1. pc[p] = "store" /\ ForkOver(p)
  BY DEF ClonePublish
<1>2. /\ q \in Slot /\ q # p /\ state[q] = "EMBRYO"
      /\ pc[q] = "user" /\ owned[q] = {} /\ dir[q] = None
      /\ \A t \in Slot \ {p} : Making(t) => np[t] # q
      /\ \A t \in Slot : pc'[t] = IF t = p THEN "user" ELSE pc[t]
      /\ \A t \in Slot : np'[t] = IF t = p THEN p ELSE np[t]
      /\ \A t \in Slot : reg'[t] = IF t = p THEN 0 ELSE reg[t]
      /\ \A t \in Slot : dir'[t] = IF t = p THEN None ELSE dir[t]
      /\ \A t \in Slot : i'[t] = IF t = p THEN 0 ELSE i[t]
      /\ UNCHANGED <<addr, owned>>
      /\ \A t \in Slot : Making(t)' <=> Making(t) /\ t # p
  BY <1>1, ForkOverFacts
<1>3. /\ UNCHANGED <<pgdir, pages>>
      /\ \A t \in Slot : sz'[t] = IF t = q THEN reg[p] ELSE sz[t]
      /\ \A t \in Slot : state'[t] = IF t = q THEN "ACTIVE" ELSE state[t]
      /\ \A t \in Slot : thread'[t] <=> t = q \/ thread[t]
  BY <1>2 DEF ClonePublish, memVars, Good, TypeOK
<1>4. \A t \in Slot : /\ Held(t)' <=> Held(t) \/ t = q
                      /\ Active(t)' <=> Active(t) \/ t = q
  BY <1>3 DEF Held, Active
<1>5. /\ pgdir[q] = d /\ Active(p) /\ Held(p) /\ reg[p] = sz[p]
      /\ dir[p] = None /\ d # None
  BY <1>1 DEF Good, Parts, EntryInv, DirInv, SizeInv, Held, Active
<1>6. EntryInv'
  <2>1. \A t \in Slot \ {p} : Making(t) => np[t] \in Slot \ {q}
    BY <1>2 DEF Good, TypeOK
  <2>2. \A t \in Slot : pc'[t] # "user" => pc[t] = pc'[t] /\ t # p
    BY <1>2
  <2>3. \A t \in Slot : pc[t] \in {"publish", "load", "store"} => Making(t)
    BY DEF Making
  <2> QED
    BY <1>2, <1>3, <1>4, <2>1, <2>2, <2>3 DEF Good, Parts, EntryInv
<1>7. DirInv'
  <2>1. /\ ~ thread[p] \/ \E r \in Slot : /\ Active(r) /\ ~ thread[r]
                                        /\ pgdir[r] = d
        /\ \A t \in Slot : dir[t] # None => dir[t] # d
    BY <1>5 DEF Good, Parts, DirInv
  <2>2. \A t \in Slot : Active(t) => t # q
    BY <1>2 DEF Active
  <2>3. \E r \in Slot : /\ Active(r) /\ ~ thread[r] /\ r # q /\ pgdir[r] = d
    BY <1>5, <2>1, <2>2
  <2>4. \A t \in Slot : thread[t] \in BOOLEAN
    BY DEF Good, TypeOK
  <2>5. ASSUME NEW t \in Slot PROVE CopyOwn(t)'
    BY <1>1, <1>2, <1>3, <1>4, <1>5, <2>1 DEF Good, Parts, DirInv, CopyOwn
  <2>6. ASSUME NEW t \in Slot, Held(t)' PROVE FamilyOwn(t)'
    <3>1. CASE t = q
      BY <1>3, <1>4, <1>5, <2>3, <3>1 DEF FamilyOwn
    <3>2. CASE t # q
      <4>1. FamilyOwn(t)
        BY <1>4, <2>6, <3>2 DEF Good, Parts, DirInv, FamilyOwn
      <4> QED
        BY <1>3, <1>4, <2>2, <3>2, <4>1 DEF FamilyOwn
    <3> QED
      BY <3>1, <3>2
  <2> QED
    BY <2>5, <2>6 DEF DirInv, CopyOwn, FamilyOwn
<1>8. FreeDirs'
  BY <1>2, <1>3, <1>4, <1>5 DEF Good, Parts, FreeDirs
<1>9. SizeInv'
  <2>1. SizesAgree'
    BY <1>3, <1>4, <1>5 DEF Good, Parts, SizeInv, SizesAgree
  <2>2. \A t \in Slot : pc'[t] # "user" => t # q
    BY <1>2
  <2>3. ~ Making(q)
    BY <1>2 DEF Making
  <2> QED
    BY <1>2, <1>3, <1>4, <2>1, <2>2, <2>3 DEF Good, Parts, SizeInv
<1>10. PageInv'
  <2>1. \A t \in Slot : pc'[t] # "user" => t # q
    BY <1>2
  <2> QED
    BY <1>2, <1>3, <1>4, <1>5, <2>1 DEF Good, Parts, PageInv, PageRange
<1>11. OwnedInv'
  BY <1>2, <1>3, <1>4 DEF Good, Parts, OwnedInv
<1> QED
  BY <1>6, <1>7, <1>8, <1>9, <1>10, <1>11 DEF Parts

LEMMA ExitParts == ASSUME Good, NEW p \in Slot, Exit(p) PROVE Parts'
<1>1. /\ UNCHANGED <<pgdir, sz, thread, pages, addr, np, reg, dir, i, pc>>
      /\ pc[p] = "user" /\ state[p] = "ACTIVE"
      /\ \A t \in Slot : state'[t] = IF t = p THEN "ZOMBIE" ELSE state[t]
      /\ \A t \in Slot : owned'[t] = IF t = p THEN {} ELSE owned[t]
  BY DEF Exit, Active, Good, TypeOK, memVars, localVars
<1>2. ~ thread[p] => \A t \in Slot \ {p} : Held(t) => pgdir[t] # pgdir[p]
  BY DEF Exit, Siblings, Held
<1>3. \A t \in Slot : /\ (Making(t)' <=> Making(t)) /\ (Held(t)' <=> Held(t))
                      /\ Active(t)' <=> Active(t) /\ t # p
  BY <1>1 DEF Making, Held, Active
<1>4. EntryInv'
  <2>1. \A t \in Slot : Making(t) => np[t] \in Slot \ {p}
    BY <1>1 DEF Good, TypeOK, Parts, EntryInv
  <2> QED
    BY <1>1, <1>3, <2>1 DEF Good, Parts, EntryInv
<1>5. DirInv'
  <2>1. \A t \in Slot : thread[t] \in BOOLEAN
    BY DEF Good, TypeOK
  <2> QED
    BY <1>1, <1>2, <1>3, <2>1 DEF Good, Parts, DirInv
<1>6. FreeDirs'
  BY <1>1, <1>3 DEF Good, Parts, FreeDirs
<1>7. SizeInv'
  BY <1>1, <1>3 DEF Good, Parts, SizeInv, SizesAgree
<1>8. PageInv'
  BY <1>1, <1>3 DEF Good, Parts, PageInv, PageRange
<1>9. OwnedInv'
  BY <1>1, <1>3 DEF Good, Parts, OwnedInv
<1> QED
  BY <1>4, <1>5, <1>6, <1>7, <1>8, <1>9 DEF Parts

\* A copy that fails is freed, the rest of the memory stays.
LEMMA CopyFailsParts == ASSUME Good, NEW p \in Slot, CopyFails(p) PROVE Parts'
<1> DEFINE q == np[p]
<1>1. pc[p] \in {"fork", "copy"} /\ ForkOver(p)
  BY DEF CopyFails
<1>2. /\ q \in Slot /\ q # p /\ state[q] = "EMBRYO"
      /\ pc[q] = "user" /\ owned[q] = {} /\ dir[q] = None
      /\ \A t \in Slot \ {p} : Making(t) => np[t] # q
      /\ \A t \in Slot : pc'[t] = IF t = p THEN "user" ELSE pc[t]
      /\ \A t \in Slot : np'[t] = IF t = p THEN p ELSE np[t]
      /\ \A t \in Slot : reg'[t] = IF t = p THEN 0 ELSE reg[t]
      /\ \A t \in Slot : dir'[t] = IF t = p THEN None ELSE dir[t]
      /\ \A t \in Slot : i'[t] = IF t = p THEN 0 ELSE i[t]
      /\ UNCHANGED <<addr, owned>>
      /\ \A t \in Slot : Making(t)' <=> Making(t) /\ t # p
  BY <1>1, ForkOverFacts
<1>3. /\ UNCHANGED <<pgdir, sz, thread>>
      /\ \A t \in Slot : state'[t] = IF t = q THEN "UNUSED" ELSE state[t]
  BY <1>2 DEF CopyFails, Good, TypeOK
<1>4. \A t \in Slot : (Held(t)' <=> Held(t)) /\ (Active(t)' <=> Active(t))
  BY <1>2, <1>3 DEF Held, Active
<1>5. \A e \in Pgdir : pages'[e] = IF e = dir[p] THEN {} ELSE pages[e]
  <2>1. CASE pc[p] = "fork"
    <3>1. UNCHANGED pages /\ dir[p] = None
      BY <2>1 DEF CopyFails, memVars, Good, Parts, DirInv
    <3> QED
      BY <3>1, Constants
  <2>2. CASE pc[p] = "copy"
    BY <2>2 DEF CopyFails, Dealloc, Good, TypeOK
  <2> QED
    BY <1>1, <2>1, <2>2
<1>6. /\ \A t \in Slot : Held(t) => pgdir[t] \in Pgdir /\ pgdir[t] # dir[p]
      /\ \A t \in Slot : pc[t] \in {"copy", "publish"} => dir[t] \in Pgdir
      /\ \A t \in Slot \ {p} : pc[t] \in {"copy", "publish"} => dir[t] # dir[p]
      /\ \A t \in Slot : Making(t) \/ Active(t) => Held(t)
  BY DEF Good, TypeOK, Parts, DirInv, EntryInv, Held, Active, Making
<1>7. EntryInv'
  <2>1. \A t \in Slot \ {p} : Making(t) => np[t] \in Slot \ {q}
    BY <1>2 DEF Good, TypeOK
  <2>2. \A t \in Slot : pc'[t] # "user" => pc[t] = pc'[t] /\ t # p
    BY <1>2
  <2>3. \A t \in Slot : pc[t] \in {"publish", "load", "store"} => Making(t)
    BY DEF Making
  <2> QED
    BY <1>2, <1>3, <1>4, <2>1, <2>2, <2>3 DEF Good, Parts, EntryInv
<1>8. DirInv'
  BY <1>2, <1>3, <1>4 DEF Good, Parts, DirInv
<1>9. FreeDirs'
  BY <1>2, <1>3, <1>4, <1>5 DEF Good, Parts, FreeDirs
<1>10. SizeInv'
  BY <1>2, <1>3, <1>4 DEF Good, Parts, SizeInv, SizesAgree
<1>11. PageInv'
  <2>1. \A t \in Slot : Held(t) => pages'[pgdir[t]] = pages[pgdir[t]]
    BY <1>5, <1>6
  <2>2. \A t \in Slot \ {p} :
          pc[t] \in {"copy", "publish"} => pages'[dir[t]] = pages[dir[t]]
    BY <1>5, <1>6
  <2> QED
    BY <1>2, <1>3, <1>4, <1>6, <2>1, <2>2 DEF Good, Parts, PageInv, PageRange
<1>12. OwnedInv'
  BY <1>2, <1>3, <1>4 DEF Good, Parts, OwnedInv
<1> QED
  BY <1>7, <1>8, <1>9, <1>10, <1>11, <1>12 DEF Parts

\* wait() frees a directory that nobody uses any more; join() frees none, and the
\* process of the thread is still there.
LEMMA ReapParts == ASSUME Good, NEW p \in Slot, Reap(p) PROVE Parts'
<1> DEFINE d == pgdir[p]
<1>1. /\ UNCHANGED <<pgdir, sz, thread, addr, np, reg, dir, i, pc, owned>>
      /\ state[p] = "ZOMBIE"
      /\ \A t \in Slot : state'[t] = IF t = p THEN "UNUSED" ELSE state[t]
  BY DEF Reap, Good, TypeOK, localVars
<1>2. \A t \in Slot : /\ (Making(t)' <=> Making(t)) /\ (Active(t)' <=> Active(t))
                      /\ Held(t)' <=> Held(t) /\ t # p
  BY <1>1 DEF Making, Held, Active
<1>3. /\ Held(p) /\ ~ Active(p) /\ d \in Pgdir
      /\ \A t \in Slot : dir[t] # d
  <2>1. Held(p) /\ ~ Active(p)
    BY <1>1 DEF Held, Active
  <2> QED
    BY <2>1 DEF Good, TypeOK, Parts, DirInv
<1>4. ~ thread[p] => \A t \in Slot \ {p} : Held(t) => pgdir[t] # d
  BY <1>3 DEF Good, Parts, DirInv, Active, Held
<1>5. thread[p] => \E t \in Slot \ {p} : Held(t) /\ pgdir[t] = d
  BY <1>3 DEF Good, Parts, DirInv, Active, Held
<1>6. /\ thread[p] => pages' = pages
      /\ ~ thread[p] => \A e \in Pgdir : pages'[e] = IF e = d THEN {} ELSE pages[e]
  BY DEF Reap, memVars, Dealloc, Good, TypeOK
<1>7. \A t \in Slot : Active(t) \/ Making(t) => Held(t) /\ t # p
  BY <1>1, <1>3 DEF Good, Parts, EntryInv, Making, Held, Active
<1>8. EntryInv'
  <2>1. \A t \in Slot : Making(t) => np[t] \in Slot \ {p}
    BY <1>1 DEF Good, TypeOK, Parts, EntryInv
  <2> QED
    BY <1>1, <1>2, <2>1 DEF Good, Parts, EntryInv
<1>9. DirInv'
  BY <1>1, <1>2 DEF Good, Parts, DirInv
<1>10. FreeDirs'
  BY <1>1, <1>2, <1>5, <1>6 DEF Good, Parts, FreeDirs
<1>11. SizeInv'
  BY <1>1, <1>2 DEF Good, Parts, SizeInv, SizesAgree
<1>12. PageInv'
  <2>1. \A t \in Slot : Active(t) \/ Making(t) => pages'[pgdir[t]] = pages[pgdir[t]]
    BY <1>4, <1>6, <1>7 DEF Good, TypeOK, Parts, DirInv
  <2>2. \A t \in Slot :
          pc[t] \in {"copy", "publish"} => pages'[dir[t]] = pages[dir[t]]
    BY <1>3, <1>6 DEF Good, TypeOK, Parts, DirInv
  <2> QED
    BY <1>1, <1>2, <2>1, <2>2 DEF Good, Parts, PageInv, PageRange
<1>13. OwnedInv'
  BY <1>1, <1>2 DEF Good, Parts, OwnedInv
<1> QED
  BY <1>8, <1>9, <1>10, <1>11, <1>12, <1>13 DEF Parts

-----------------------------------------------------------------------------
(* growproc() *)

\* What all the ways through it have in common: the directory maps pages below the
\* new size only, and all of them if it has page 0.
Resized(p, new) ==
  LET d == pgdir[p] IN
  /\ Growing(p) /\ Return(p)
  /\ new > 0
  /\ \A t \in Slot : /\ pgdir[t] # d => sz'[t] = sz[t]
                     /\ Active(t) /\ pgdir[t] = d => sz'[t] = new
  /\ \A e \in Pgdir \ {d} : pages'[e] = pages[e]
  /\ pages'[d] \subseteq PageRange(0, new)
  /\ 0 \in pages'[d] => PageRange(0, new) \subseteq pages'[d]
  /\ \A t \in Slot : /\ owned'[t] # {} => Active(t) /\ pgdir[t] \in Serial
                     /\ pgdir[t] # d => owned'[t] = owned[t]
                     /\ pgdir[t] = d => \A b \in owned'[t] : b < new
  /\ \A t, u \in Slot : t # u /\ pgdir[t] = d /\ pgdir[u] = d
                        => owned'[t] \cap owned'[u] = {}

LEMMA ResizedParts == ASSUME Good, NEW p \in Slot, NEW new, Resized(p, new) PROVE Parts'
<1> DEFINE d == pgdir[p]
<1>1. /\ UNCHANGED <<state, pgdir, thread, np, reg, dir, i>>
      /\ pc[p] = "grow" /\ Active(p) /\ Held(p) /\ d \in Pgdir
      /\ \A t \in Slot : pc'[t] = IF t = p THEN "user" ELSE pc[t]
      /\ \A t \in Slot \ {p} : addr'[t] = addr[t]
  BY DEF Resized, Growing, Return, Goto, Good, TypeOK, Parts, EntryInv, DirInv,
     Held, Active
<1>2. \A t \in Slot : (Making(t)' <=> Making(t)) /\ (Held(t)' <=> Held(t))
                      /\ (Active(t)' <=> Active(t))
  BY <1>1 DEF Making, Held, Active
<1>3. /\ \A t \in Slot : Making(t) => pgdir[t] # d /\ pgdir[t] \in Pgdir
      /\ \A t \in Slot : dir[t] # d
      /\ \A t \in Slot : Active(t) => pgdir[t] \in Pgdir
      /\ \A t \in Slot : pc[t] \in {"copy", "publish"} => dir[t] \in Pgdir
  <2>1. \A t \in Slot : Making(t) => Active(t)
    BY DEF Good, Parts, EntryInv, Making
  <2>2. \A t \in Slot : Active(t) => pgdir[t] \in Pgdir
    BY DEF Good, TypeOK, Parts, DirInv, Active, Held
  <2> QED
    BY <1>1, <2>1, <2>2 DEF Good, TypeOK, Parts, SizeInv, DirInv
<1>4. EntryInv'
  BY <1>1, <1>2 DEF Good, Parts, EntryInv
<1>5. DirInv'
  BY <1>1, <1>2 DEF Good, Parts, DirInv
<1>6. FreeDirs'
  BY <1>1, <1>2 DEF Good, Parts, FreeDirs, Resized
<1>7. SizeInv'
  <2>1. SizesAgree'
    BY <1>1, <1>2 DEF Resized, Good, Parts, SizeInv, SizesAgree
  <2>2. \A t \in Slot : pc[t] \in {"copy", "publish", "store"} => sz'[t] = sz[t]
    BY <1>3 DEF Resized, Making
  <2> QED
    BY <1>1, <1>2, <2>1, <2>2 DEF Good, Parts, SizeInv
<1>8. PageInv'
  <2>1. \A t \in Slot : Making(t) => pages'[pgdir[t]] = pages[pgdir[t]]
    BY <1>3 DEF Resized
  <2>2. \A t \in Slot :
          pc[t] \in {"copy", "publish"} => pages'[dir[t]] = pages[dir[t]]
    BY <1>3 DEF Resized
  <2>3. \A t \in Slot : Active(t) =>
          /\ sz'[t] > 0
          /\ pages'[pgdir[t]] \subseteq PageRange(0, sz'[t])
          /\ 0 \in pages'[pgdir[t]] => PageRange(0, sz'[t]) \subseteq pages'[pgdir[t]]
    BY <1>3 DEF Resized, Good, Parts, PageInv
  <2> QED
    BY <1>1, <1>2, <2>1, <2>2, <2>3 DEF Good, Parts, PageInv, PageRange
<1>9. OwnedInv'
  <2>1. \A t \in Slot : owned'[t] # {} => Active(t) /\ pgdir[t] \in Serial
    BY DEF Resized
  <2>2. \A t \in Slot : \A b \in owned'[t] : b < sz'[t]
    <3>1. \A t \in Slot : pgdir[t] = d => \A b \in owned'[t] : b < sz'[t]
      BY <2>1 DEF Resized
    <3>2. \A t \in Slot : pgdir[t] # d => \A b \in owned'[t] : b < sz'[t]
      BY DEF Resized, Good, Parts, OwnedInv
    <3> QED
      BY <3>1, <3>2
  <2>3. \A t, u \in Slot : t # u /\ pgdir[t] = pgdir[u] => owned'[t] \cap owned'[u] = {}
    BY DEF Resized, Good, Parts, OwnedInv
  <2>4. ASSUME NEW t \in Slot, pc'[t] = "grow", pgdir[t] \in Serial
        PROVE  /\ addr'[t] = sz'[t]
               /\ \A u \in Slot \ {t} : pgdir[u] = pgdir[t] => pc'[u] # "grow"
    <3>1. t # p /\ pc[t] = "grow"
      BY <1>1, <2>4
    <3>2. pgdir[t] # d
      BY <1>1, <2>4, <3>1 DEF Good, Parts, OwnedInv
    <3> QED
      BY <1>1, <2>4, <3>1, <3>2 DEF Resized, Good, Parts, OwnedInv
  <2> QED
    BY <1>1, <1>2, <2>1, <2>2, <2>3, <2>4 DEF OwnedInv
<1> QED
  BY <1>4, <1>5, <1>6, <1>7, <1>8, <1>9 DEF Parts

\* What every case of growproc() starts from.
LEMMA GrowingFacts ==
  ASSUME Good, NEW p \in Slot, Growing(p)
  PROVE  LET d == pgdir[p] IN
         /\ Active(p) /\ d \in Pgdir
         /\ sz[p] \in Nat /\ sz[p] <= USERTOP /\ sz[p] > 0
         /\ n[p] \in Int
         /\ pages[d] \subseteq PageRange(0, sz[p])
         /\ 0 \in pages[d] => PageRange(0, sz[p]) \subseteq pages[d]
         /\ \A t \in Slot : Active(t) /\ pgdir[t] = d => sz[t] = sz[p]
         /\ \A t \in Slot : owned[t] # {} => Active(t) /\ pgdir[t] \in Serial
         /\ \A t \in Slot : pgdir[t] = d => \A b \in owned[t] : b \in Nat /\ b < sz[p]
         /\ \A t, u \in Slot : t # u /\ pgdir[t] = d /\ pgdir[u] = d
                                 => owned[t] \cap owned[u] = {}
         /\ d \in Serial => addr[p] = sz[p]
<1>1. Active(p) /\ pc[p] = "grow"
  BY DEF Growing, Good, Parts, EntryInv
<1>2. pgdir[p] \in Pgdir
  BY <1>1 DEF Good, TypeOK, Parts, DirInv, Held, Active
<1>3. sz[p] \in Nat /\ sz[p] <= USERTOP
  BY Constants DEF Good, TypeOK, Size
<1>4. n[p] \in Int
  <2>1. n[p] \in Delta \cup {0}
    BY DEF Good, TypeOK
  <2>2. Delta \subseteq Int /\ 0 \in Int
    BY AddressSpaceAssumption
  <2> QED
    BY <2>1, <2>2
<1>5. /\ sz[p] > 0
      /\ pages[pgdir[p]] \subseteq PageRange(0, sz[p])
      /\ 0 \in pages[pgdir[p]] => PageRange(0, sz[p]) \subseteq pages[pgdir[p]]
  BY <1>1 DEF Good, Parts, PageInv
<1>6. \A t \in Slot : Active(t) /\ pgdir[t] = pgdir[p] => sz[t] = sz[p]
  BY <1>1 DEF Good, Parts, SizeInv, SizesAgree
<1>7. /\ \A t \in Slot : owned[t] # {} => Active(t) /\ pgdir[t] \in Serial
      /\ \A t, u \in Slot : t # u /\ pgdir[t] = pgdir[p] /\ pgdir[u] = pgdir[p]
                              => owned[t] \cap owned[u] = {}
      /\ pgdir[p] \in Serial => addr[p] = sz[p]
  BY <1>1 DEF Good, Parts, OwnedInv
<1>8. \A t \in Slot : pgdir[t] = pgdir[p] => \A b \in owned[t] : b \in Nat /\ b < sz[p]
  <2>1. \A t \in Slot : \A b \in owned[t] : b \in Nat /\ b < sz[t]
    BY DEF Good, TypeOK, Parts, OwnedInv
  <2> QED
    BY <1>6, <1>7, <2>1
<1> QED
  BY <1>1, <1>2, <1>3, <1>4, <1>5, <1>6, <1>7, <1>8

\* The new size is within bounds, and mappages() finds no page mapped.
LEMMA GrowFacts ==
  ASSUME Good, NEW p \in Slot, Grow(p)
  PROVE  LET d == pgdir[p]  new == sz[p] + n[p]  fresh == PageRange(sz[p], new) IN
         /\ new \in Nat /\ sz[p] <= new /\ new <= USERTOP
         /\ fresh \in SUBSET PageNo
         /\ fresh \cap pages[d] = {}
         /\ Cardinality(fresh) <= free
         /\ pages' = [pages EXCEPT ![d] = @ \cup fresh]
         /\ free' = free - Cardinality(fresh)
         /\ sz' = [q \in Slot |-> IF pgdir[q] = d THEN new ELSE sz[q]]
         /\ owned' = IF d \in Serial
                       THEN [owned EXCEPT ![p] = @ \cup sz[p] .. new - 1]
                       ELSE owned
         /\ Return(p)
<1> DEFINE d == pgdir[p]
           new == sz[p] + n[p]
           fresh == PageRange(sz[p], new)
<1>1. Growing(p) /\ n[p] > 0 /\ NewSize(p) <= USERTOP
  BY DEF Grow
<1>2. /\ sz[p] \in Nat /\ n[p] \in Int
      /\ pages[d] \subseteq PageRange(0, sz[p])
      /\ d \in Serial => addr[p] = sz[p]
  BY <1>1, GrowingFacts
<1>3. NewSize(p) = new
  BY <1>1, <1>2, NewSizes DEF NewSize, Good
<1>4. new \in Nat /\ sz[p] <= new /\ new <= USERTOP
  BY <1>1, <1>2, <1>3
<1>5. fresh \in SUBSET PageNo /\ fresh \cap pages[d] = {}
  BY <1>2, <1>4, Ranges
<1>6. /\ Cardinality(fresh) <= free
      /\ pages' = [pages EXCEPT ![d] = @ \cup fresh]
      /\ free' = free - Cardinality(fresh)
      /\ SetSizes(p, new)
      /\ owned' = IF d \in Serial
                    THEN [owned EXCEPT ![p] = @ \cup addr[p] .. addr[p] + n[p] - 1]
                    ELSE owned
      /\ Return(p)
  BY <1>3, <1>5 DEF Grow
<1>7. addr[p] = sz[p] => addr[p] + n[p] - 1 = new - 1
  BY <1>2
<1>8. owned' = IF d \in Serial THEN [owned EXCEPT ![p] = @ \cup sz[p] .. new - 1]
                                ELSE owned
  BY <1>2, <1>6, <1>7
<1>9. sz' = [q \in Slot |-> IF pgdir[q] = d THEN new ELSE sz[q]]
  BY <1>6 DEF SetSizes
<1> HIDE DEF new, fresh
<1> QED
  BY <1>4, <1>5, <1>6, <1>8, <1>9 DEF new, fresh

LEMMA GrowParts == ASSUME Good, NEW p \in Slot, Grow(p) PROVE Parts'
<1> DEFINE d == pgdir[p]
           s == sz[p]
           new == s + n[p]
<1>1. Growing(p) /\ n[p] > 0
  BY DEF Grow
<1>2. /\ Active(p) /\ d \in Pgdir
      /\ s \in Nat /\ s > 0 /\ n[p] \in Int
      /\ pages[d] \subseteq PageRange(0, s)
      /\ 0 \in pages[d] => PageRange(0, s) \subseteq pages[d]
      /\ \A t \in Slot : owned[t] # {} => Active(t) /\ pgdir[t] \in Serial
      /\ \A t \in Slot : pgdir[t] = d => \A b \in owned[t] : b \in Nat /\ b < s
      /\ \A t, u \in Slot : t # u /\ pgdir[t] = d /\ pgdir[u] = d
                              => owned[t] \cap owned[u] = {}
  BY <1>1, GrowingFacts
<1>3. /\ new \in Nat /\ s <= new
      /\ pages' = [pages EXCEPT ![d] = @ \cup PageRange(s, new)]
      /\ sz' = [q \in Slot |-> IF pgdir[q] = d THEN new ELSE sz[q]]
      /\ owned' = IF d \in Serial
                    THEN [owned EXCEPT ![p] = @ \cup s .. new - 1]
                    ELSE owned
      /\ Return(p)
  BY GrowFacts
<1>4. /\ PageRange(0, s) \cup PageRange(s, new) = PageRange(0, new)
      /\ 0 \notin PageRange(s, new)
  BY <1>2, <1>3, Ranges
<1>5. /\ \A e \in Pgdir \ {d} : pages'[e] = pages[e]
      /\ pages'[d] = pages[d] \cup PageRange(s, new)
  BY <1>2, <1>3 DEF Good, TypeOK
<1>6. \A t \in Slot : /\ pgdir[t] # d => sz'[t] = sz[t]
                      /\ pgdir[t] = d => sz'[t] = new
  BY <1>3
<1>7. \A t \in Slot : owned'[t] = IF t = p /\ d \in Serial
                                    THEN owned[t] \cup s .. new - 1
                                    ELSE owned[t]
  BY <1>3 DEF Good, TypeOK
<1>8. \A t \in Slot : /\ owned'[t] # {} => Active(t) /\ pgdir[t] \in Serial
                      /\ pgdir[t] # d => owned'[t] = owned[t]
  BY <1>2, <1>7
<1>9. \A t \in Slot : pgdir[t] = d => \A b \in owned'[t] : b < new
  BY <1>2, <1>3, <1>7
<1>10. \A t, u \in Slot : t # u /\ pgdir[t] = d /\ pgdir[u] = d
                            => owned'[t] \cap owned'[u] = {}
  BY <1>2, <1>3, <1>7
<1>11. /\ pages'[d] \subseteq PageRange(0, new)
       /\ 0 \in pages'[d] => PageRange(0, new) \subseteq pages'[d]
  BY <1>2, <1>4, <1>5
<1>12. Resized(p, new)
  BY <1>1, <1>2, <1>3, <1>5, <1>6, <1>8, <1>9, <1>10, <1>11 DEF Resized
<1> QED
  BY <1>12, ResizedParts

\* Growing fails: what allocuvm() takes back was not there before.
LEMMA GrowFailsParts == ASSUME Good, NEW p \in Slot, GrowFails(p) PROVE Parts'
<1> DEFINE d == pgdir[p]
           s == sz[p]
<1>1. Growing(p) /\ n[p] > 0 /\ UNCHANGED <<sz, owned>> /\ Return(p)
  BY DEF GrowFails
<1>2. /\ Active(p) /\ d \in Pgdir
      /\ s \in Nat /\ s > 0 /\ n[p] \in Int
      /\ pages[d] \subseteq PageRange(0, s)
      /\ 0 \in pages[d] => PageRange(0, s) \subseteq pages[d]
      /\ \A t \in Slot : Active(t) /\ pgdir[t] = d => sz[t] = s
      /\ \A t \in Slot : owned[t] # {} => Active(t) /\ pgdir[t] \in Serial
      /\ \A t \in Slot : pgdir[t] = d => \A b \in owned[t] : b \in Nat /\ b < s
      /\ \A t, u \in Slot : t # u /\ pgdir[t] = d /\ pgdir[u] = d
                              => owned[t] \cap owned[u] = {}
  BY <1>1, GrowingFacts
<1>3. NewSize(p) = s + n[p]
  BY <1>1, <1>2, NewSizes DEF NewSize, Good
<1>4. PageRange(0, s) \cap PageRange(s, NewSize(p)) = {}
  BY <1>1, <1>2, <1>3, Ranges
<1>5. \A e \in Pgdir : pages'[e] = pages[e]
  <2>1. CASE UNCHANGED memVars
    BY <2>1 DEF memVars
  <2>2. CASE Dealloc(d, PageRange(s, NewSize(p)))
    BY <1>2, <1>4, <2>2 DEF Dealloc, Good, TypeOK
  <2> QED
    BY <2>1, <2>2 DEF GrowFails
<1>6. Resized(p, s)
  BY <1>1, <1>2, <1>5 DEF Resized
<1> QED
  BY <1>6, ResizedParts

\* The sizes that deallocuvm() is called with.
LEMMA ShrinkFacts ==
  ASSUME Good, NEW p \in Slot, Shrink(p)
  PROVE  \E new \in Nat :
           /\ new > 0 /\ new <= sz[p]
           /\ Dealloc(pgdir[p], PageRange(new, sz[p]))
           /\ SetSizes(p, new)
           /\ owned' = [q \in Slot |-> IF pgdir[q] = pgdir[p]
                                         THEN {b \in owned[q] : b < new}
                                         ELSE owned[q]]
<1> DEFINE new == IF NewSize(p) >= sz[p] THEN sz[p] ELSE NewSize(p)
<1>1. /\ Growing(p) /\ n[p] <= 0
      /\ new # 0 \/ n[p] = 0
      /\ Dealloc(pgdir[p], PageRange(new, sz[p]))
      /\ SetSizes(p, new)
      /\ owned' = [q \in Slot |-> IF pgdir[q] = pgdir[p]
                                    THEN {b \in owned[q] : b < new}
                                    ELSE owned[q]]
  BY DEF Shrink
<1>2. sz[p] \in Nat /\ sz[p] > 0 /\ n[p] \in Int
  BY <1>1, GrowingFacts
<1>3. /\ n[p] >= 0 => NewSize(p) = sz[p] + n[p]
      /\ n[p] < 0 => \/ NewSize(p) = sz[p] + n[p] /\ NewSize(p) >= 0
                     \/ NewSize(p) \in Nat /\ NewSize(p) > sz[p]
  BY NewSizes DEF NewSize, Good
<1>4. new \in Nat /\ new > 0 /\ new <= sz[p]
  BY <1>1, <1>2, <1>3
<1> HIDE DEF new
<1> QED
  BY <1>1, <1>4

LEMMA ShrinkParts == ASSUME Good, NEW p \in Slot, Shrink(p) PROVE Parts'
<1> DEFINE d == pgdir[p]
           s == sz[p]
<1>1. Growing(p) /\ Return(p)
  BY DEF Shrink
<1>2. PICK new \in Nat :
        /\ new > 0 /\ new <= s
        /\ Dealloc(d, PageRange(new, s))
        /\ SetSizes(p, new)
        /\ owned' = [q \in Slot |-> IF pgdir[q] = d
                                      THEN {b \in owned[q] : b < new}
                                      ELSE owned[q]]
  BY ShrinkFacts
<1>3. /\ d \in Pgdir /\ s \in Nat
      /\ pages[d] \subseteq PageRange(0, s)
      /\ 0 \in pages[d] => PageRange(0, s) \subseteq pages[d]
      /\ \A t \in Slot : owned[t] # {} => Active(t) /\ pgdir[t] \in Serial
      /\ \A t, u \in Slot : t # u /\ pgdir[t] = d /\ pgdir[u] = d
                              => owned[t] \cap owned[u] = {}
  BY <1>1, GrowingFacts
<1>4. /\ PageRange(0, s) \ PageRange(new, s) = PageRange(0, new)
      /\ 0 \notin PageRange(new, s)
  BY <1>2, <1>3, Ranges
<1>5. /\ \A e \in Pgdir \ {d} : pages'[e] = pages[e]
      /\ pages'[d] = pages[d] \ PageRange(new, s)
  BY <1>2, <1>3 DEF Dealloc, Good, TypeOK
<1>6. \A t \in Slot : /\ pgdir[t] # d => sz'[t] = sz[t]
                      /\ pgdir[t] = d => sz'[t] = new
  BY <1>2 DEF SetSizes
<1>7. \A t \in Slot : owned'[t] = IF pgdir[t] = d THEN {b \in owned[t] : b < new}
                                                  ELSE owned[t]
  BY <1>2
<1>8. \A t \in Slot : /\ owned'[t] # {} => Active(t) /\ pgdir[t] \in Serial
                      /\ pgdir[t] # d => owned'[t] = owned[t]
                      /\ pgdir[t] = d => \A b \in owned'[t] : b < new
  BY <1>3, <1>7
<1>9. \A t, u \in Slot : t # u /\ pgdir[t] = d /\ pgdir[u] = d
                           => owned'[t] \cap owned'[u] = {}
  BY <1>3, <1>7
<1>10. /\ pages'[d] \subseteq PageRange(0, new)
       /\ 0 \in pages'[d] => PageRange(0, new) \subseteq pages'[d]
  BY <1>3, <1>4, <1>5
<1>11. Resized(p, new)
  BY <1>1, <1>2, <1>3, <1>5, <1>6, <1>8, <1>9, <1>10 DEF Resized
<1> QED
  BY <1>11, ResizedParts

\* Every page is gone, though the size stays.
LEMMA ShrinkToZeroParts == ASSUME Good, NEW p \in Slot, ShrinkToZero(p) PROVE Parts'
<1> DEFINE d == pgdir[p]
           s == sz[p]
<1>1. /\ Growing(p) /\ UNCHANGED <<sz, owned>> /\ Return(p)
      /\ Dealloc(d, PageRange(0, s))
  BY DEF ShrinkToZero
<1>2. /\ Active(p) /\ d \in Pgdir
      /\ s \in Nat /\ s > 0
      /\ pages[d] \subseteq PageRange(0, s)
      /\ \A t \in Slot : Active(t) /\ pgdir[t] = d => sz[t] = s
      /\ \A t \in Slot : owned[t] # {} => Active(t) /\ pgdir[t] \in Serial
      /\ \A t \in Slot : pgdir[t] = d => \A b \in owned[t] : b \in Nat /\ b < s
      /\ \A t, u \in Slot : t # u /\ pgdir[t] = d /\ pgdir[u] = d
                              => owned[t] \cap owned[u] = {}
  BY <1>1, GrowingFacts
<1>3. /\ \A e \in Pgdir \ {d} : pages'[e] = pages[e]
      /\ pages'[d] = {}
  BY <1>1, <1>2 DEF Dealloc, Good, TypeOK
<1>4. Resized(p, s)
  BY <1>1, <1>2, <1>3 DEF Resized
<1> QED
  BY <1>4, ResizedParts

-----------------------------------------------------------------------------
(* Types and frames *)

Sound == TypeOK /\ ~ panicked /\ Balance

LEMMA LocalSound ==
  ASSUME Good, NEW p \in Slot,
         \/ Sbrk(p) \/ EnterFork(p) \/ EnterClone(p) \/ CopyBegin(p) \/ CopyDone(p)
         \/ CloneShare(p) \/ CloneLoad(p) \/ Exit(p)
  PROVE  Sound'
<1> USE DEF Goto, tableVars, memVars, localVars
<1>1. UNCHANGED <<pages, free, panicked>>
  BY DEF Sbrk, EnterFork, EnterClone, Allocate, CopyBegin, CopyDone, CloneShare,
     CloneLoad, Exit
<1>2. Balance' /\ ~ panicked'
  BY <1>1 DEF Good, Balance, PagesOf
<1>3. TypeOK'
  <2> USE DEF Good, TypeOK
  <2>1. CASE Sbrk(p)
    BY <2>1 DEF Sbrk
  <2>2. CASE EnterFork(p) \/ EnterClone(p)
    <3>1. PICK q \in Slot : Allocate(p, q)
      BY <2>2 DEF EnterFork, EnterClone
    <3>2. PICK l \in {"fork", "clone"} : pc' = [pc EXCEPT ![p] = l]
      BY <2>2 DEF EnterFork, EnterClone
    <3> QED
      BY <3>1, <3>2 DEF Allocate
  <2>3. CASE CopyBegin(p)
    BY <2>3 DEF CopyBegin
  <2>4. CASE CopyDone(p)
    BY <2>4 DEF CopyDone
  <2>5. CASE CloneShare(p)
    BY <2>5 DEF CloneShare
  <2>6. CASE CloneLoad(p)
    BY <2>6 DEF CloneLoad
  <2>7. CASE Exit(p)
    BY <2>7 DEF Exit
  <2> QED
    BY <2>1, <2>2, <2>3, <2>4, <2>5, <2>6, <2>7
<1> QED
  BY <1>2, <1>3 DEF Sound

LEMMA PublishSound ==
  ASSUME Good, NEW p \in Slot, ForkPublish(p) \/ ClonePublish(p)
  PROVE  Sound'
<1>1. UNCHANGED <<pages, free, panicked>>
  BY DEF ForkPublish, ClonePublish, ForkOver, memVars
<1>2. Balance' /\ ~ panicked'
  BY <1>1 DEF Good, Balance, PagesOf
<1>3. TypeOK'
  <2> USE DEF Good, TypeOK, ForkOver, Goto, memVars
  <2>1. 0 \in Size /\ np[p] \in Slot /\ sz[p] \in Size /\ reg[p] \in Size
    BY Constants DEF Size
  <2>2. CASE ForkPublish(p)
    BY <2>1, <2>2 DEF ForkPublish
  <2>3. CASE ClonePublish(p)
    BY <2>1, <2>3 DEF ClonePublish
  <2> QED
    BY <2>2, <2>3
<1> QED
  BY <1>2, <1>3 DEF Sound

LEMMA CopyPageSound == ASSUME Good, NEW p \in Slot, CopyPage(p) PROVE Sound'
<1> DEFINE d == dir[p]
<1>1. /\ i[p] \in PageRange(0, reg[p])
      /\ d \in Pgdir /\ i[p] \notin pages[d]
      /\ free > 0
      /\ pages' = [pages EXCEPT ![d] = @ \cup {i[p]}]
      /\ free' = free - 1
      /\ i' = [i EXCEPT ![p] = @ + 1]
      /\ UNCHANGED <<tableVars, n, addr, np, reg, dir, pc, owned, panicked>>
  BY CopyPageFacts
<1>2. /\ {i[p]} \in SUBSET PageNo /\ {i[p]} \cap pages[d] = {}
      /\ Cardinality({i[p]}) = 1
  BY <1>1, FS_Singleton DEF PageRange
<1>3. free \in Nat
  BY Constants DEF Good, TypeOK
<1> DEFINE fresh == {i[p]}
<1>4. /\ fresh \in SUBSET PageNo /\ fresh \cap pages[d] = {}
      /\ Cardinality(fresh) <= free /\ free' = free - Cardinality(fresh)
      /\ pages' = [pages EXCEPT ![d] = @ \cup fresh]
  BY <1>1, <1>2, <1>3
<1>5. Balance' /\ free' \in 0 .. Frames /\ pages' \in [Pgdir -> SUBSET PageNo]
  <2> HIDE DEF fresh, d
  <2>1. d \in Pgdir
    BY <1>1 DEF d
  <2> QED
    BY <1>4, <2>1, MapBalance DEF Good
<1>6. TypeOK'
  BY <1>1, <1>5 DEF Good, TypeOK, tableVars
<1> QED
  BY <1>1, <1>5, <1>6 DEF Sound, Good

LEMMA FreeSound ==
  ASSUME Good, NEW p \in Slot, CopyFails(p) \/ Reap(p)
  PROVE  Sound'
<1>1. Balance' /\ free' \in 0 .. Frames /\ pages' \in [Pgdir -> SUBSET PageNo]
  <2>1. CASE UNCHANGED memVars
    BY <2>1 DEF memVars, Good, TypeOK, Balance, PagesOf
  <2>2. CASE pc[p] = "copy" /\ Dealloc(dir[p], PageNo)
    <3>1. dir[p] \in Pgdir
      BY <2>2 DEF Good, TypeOK, Parts, DirInv
    <3> QED
      BY <2>2, <3>1, DeallocBalance DEF Good
  <2>3. CASE state[p] = "ZOMBIE" /\ Dealloc(pgdir[p], PageNo)
    <3>1. pgdir[p] \in Pgdir
      BY <2>3 DEF Good, TypeOK, Parts, DirInv, Held
    <3> QED
      BY <2>3, <3>1, DeallocBalance DEF Good
  <2> QED
    BY <2>1, <2>2, <2>3 DEF CopyFails, Reap
<1>2. TypeOK' /\ ~ panicked'
  <2> USE DEF Good, TypeOK, ForkOver, Goto
  <2>1. CASE CopyFails(p)
    <3>1. 0 \in Size
      BY Constants DEF Size
    <3> QED
      BY <1>1, <2>1, <3>1 DEF CopyFails
  <2>2. CASE Reap(p)
    BY <1>1, <2>2 DEF Reap, localVars
  <2> QED
    BY <2>1, <2>2
<1> QED
  BY <1>1, <1>2 DEF Sound

LEMMA ReturnTypes ==
  ASSUME Good, NEW p \in Slot, Return(p),
         free' \in 0 .. Frames, pages' \in [Pgdir -> SUBSET PageNo],
         sz' \in [Slot -> Size], owned' \in [Slot -> SUBSET Nat]
  PROVE  TypeOK' /\ ~ panicked'
<1>1. 0 \in Size
  BY Constants DEF Size
<1> QED
  BY <1>1 DEF Good, TypeOK, Return, Goto

LEMMA GrowSound == ASSUME Good, NEW p \in Slot, Grow(p) PROVE Sound'
<1> DEFINE d == pgdir[p]
           new == sz[p] + n[p]
           fresh == PageRange(sz[p], new)
<1>1. /\ new \in Nat /\ sz[p] <= new /\ new <= USERTOP
      /\ fresh \in SUBSET PageNo
      /\ fresh \cap pages[d] = {}
      /\ Cardinality(fresh) <= free
      /\ pages' = [pages EXCEPT ![d] = @ \cup fresh]
      /\ free' = free - Cardinality(fresh)
      /\ sz' = [q \in Slot |-> IF pgdir[q] = d THEN new ELSE sz[q]]
      /\ owned' = IF d \in Serial
                    THEN [owned EXCEPT ![p] = @ \cup sz[p] .. new - 1]
                    ELSE owned
      /\ Return(p)
  BY GrowFacts
<1>2. d \in Pgdir /\ sz[p] \in Nat
  BY GrowingFacts DEF Grow
<1>3. sz' \in [Slot -> Size]
  BY <1>1, Constants DEF Good, TypeOK, Size
<1>4. sz[p] .. new - 1 \in SUBSET Nat
  BY <1>1, <1>2
<1> HIDE DEF new, fresh
<1>5. Balance' /\ free' \in 0 .. Frames /\ pages' \in [Pgdir -> SUBSET PageNo]
  BY <1>1, <1>2, MapBalance DEF Good
<1>6. owned' \in [Slot -> SUBSET Nat]
  BY <1>1, <1>4 DEF Good, TypeOK
<1> QED
  BY <1>1, <1>3, <1>5, <1>6, ReturnTypes DEF Sound

LEMMA ReleaseSound ==
  ASSUME Good, NEW p \in Slot, GrowFails(p) \/ Shrink(p) \/ ShrinkToZero(p)
  PROVE  Sound'
<1>1. Growing(p) /\ Return(p)
  BY DEF GrowFails, Shrink, ShrinkToZero
<1>2. pgdir[p] \in Pgdir /\ sz[p] \in Nat /\ sz[p] <= USERTOP
  BY <1>1, GrowingFacts
<1>3. Balance' /\ free' \in 0 .. Frames /\ pages' \in [Pgdir -> SUBSET PageNo]
  <2>1. CASE UNCHANGED memVars
    BY <2>1 DEF memVars, Good, TypeOK, Balance, PagesOf
  <2>2. ASSUME NEW gone, Dealloc(pgdir[p], gone)
        PROVE  Balance' /\ free' \in 0 .. Frames /\ pages' \in [Pgdir -> SUBSET PageNo]
    BY <1>2, <2>2, DeallocBalance DEF Good
  <2> QED
    BY <2>1, <2>2 DEF GrowFails, Shrink, ShrinkToZero
<1>4. sz' \in [Slot -> Size] /\ owned' \in [Slot -> SUBSET Nat]
  <2>1. CASE UNCHANGED <<sz, owned>>
    BY <2>1 DEF Good, TypeOK
  <2>2. CASE Shrink(p)
    <3>1. PICK new \in Nat :
            /\ new > 0 /\ new <= sz[p]
            /\ SetSizes(p, new)
            /\ owned' = [q \in Slot |-> IF pgdir[q] = pgdir[p]
                                          THEN {b \in owned[q] : b < new}
                                          ELSE owned[q]]
      BY <2>2, ShrinkFacts
    <3>2. new \in Size
      BY <1>2, <3>1, Constants DEF Size
    <3> QED
      BY <3>1, <3>2 DEF SetSizes, Good, TypeOK
  <2> QED
    BY <2>1, <2>2 DEF GrowFails, ShrinkToZero
<1> QED
  BY <1>1, <1>3, <1>4, ReturnTypes DEF Sound

-----------------------------------------------------------------------------
(* The invariant *)

LEMMA InitGood == ASSUME Init PROVE TypeOK /\ ~ panicked /\ Balance /\ Parts
<1>1. PICK d \in Pgdir :
        /\ pgdir = [p \in Slot |-> IF p = 1 THEN d ELSE None]
        /\ pages = [e \in Pgdir |-> IF e = d THEN {0} ELSE {}]
  BY DEF Init
<1>2. 1 \in Slot /\ None \notin Pgdir /\ PGSIZE \in Nat /\ PGSIZE > 0 /\ Frames \in Nat \ {0}
      /\ PGSIZE <= USERTOP /\ USERTOP \in Nat
  BY AddressSpaceAssumption
<1>3. /\ \A p \in Slot : /\ state[p] = IF p = 1 THEN "ACTIVE" ELSE "UNUSED"
                         /\ pc[p] = "user" /\ dir[p] = None /\ i[p] = 0
                         /\ owned[p] = {} /\ ~ thread[p]
                         /\ pgdir[p] = IF p = 1 THEN d ELSE None
                         /\ sz[p] = IF p = 1 THEN PGSIZE ELSE 0
      /\ \A e \in Pgdir : pages[e] = IF e = d THEN {0} ELSE {}
  BY <1>1 DEF Init
<1>4. TypeOK /\ ~ panicked
  <2>1. 0 \in Size /\ PGSIZE \in Size /\ {0} \in SUBSET PageNo
    BY <1>2, PageNumbers DEF Size
  <2>2. Frames - 1 \in 0 .. Frames
    BY <1>2
  <2> QED
    BY <1>1, <1>2, <2>1, <2>2 DEF Init, TypeOK
<1>5. Balance
  <2>1. PagesOf(Pgdir) = {<<d, 0>>}
    BY <1>3, PageNumbers DEF PagesOf
  <2>2. Cardinality(PagesOf(Pgdir)) = 1
    BY <2>1, FS_Singleton
  <2>3. free = Frames - 1
    BY DEF Init
  <2> QED
    BY <1>2, <2>2, <2>3 DEF Balance
<1>6. \A p \in Slot : /\ ~ Making(p) /\ (Held(p) <=> p = 1) /\ (Active(p) <=> p = 1)
  BY <1>3 DEF Making, Held, Active
<1>7. EntryInv /\ DirInv /\ FreeDirs /\ SizeInv /\ OwnedInv
  <2>1. EntryInv
    BY <1>3, <1>6 DEF EntryInv
  <2>2. DirInv
    BY <1>2, <1>3, <1>6 DEF DirInv
  <2>3. FreeDirs
    BY <1>2, <1>3, <1>6 DEF FreeDirs
  <2>4. SizeInv
    BY <1>3, <1>6 DEF SizeInv, SizesAgree
  <2>5. OwnedInv
    BY <1>3, <1>6 DEF OwnedInv
  <2> QED
    BY <2>1, <2>2, <2>3, <2>4, <2>5
<1>8. PageRange(0, PGSIZE) = {0}
  <2>1. \A k \in Nat : k * PGSIZE < PGSIZE <=> k = 0
    BY <1>2
  <2>2. \A k \in Nat : 0 <= k * PGSIZE
    BY <1>2
  <2> QED
    BY <2>1, <2>2, PageNumbers DEF PageRange
<1>9. PageInv
  BY <1>2, <1>3, <1>6, <1>8 DEF PageInv
<1> QED
  BY <1>4, <1>5, <1>7, <1>9 DEF Parts

LEMMA NextGood == ASSUME Good, [Next]_vars PROVE Sound' /\ Parts'
<1>1. ASSUME NEW p \in Slot, Step(p) PROVE Sound' /\ Parts'
  <2>1. CASE Sbrk(p)
    BY <2>1, LocalSound, SbrkParts
  <2>2. CASE Grow(p)
    BY <2>2, GrowSound, GrowParts
  <2>3. CASE GrowFails(p)
    BY <2>3, ReleaseSound, GrowFailsParts
  <2>4. CASE Shrink(p)
    BY <2>4, ReleaseSound, ShrinkParts
  <2>5. CASE ShrinkToZero(p)
    BY <2>5, ReleaseSound, ShrinkToZeroParts
  <2>6. CASE EnterFork(p)
    BY <2>6, LocalSound, EnterParts
  <2>7. CASE CopyBegin(p)
    BY <2>7, LocalSound, CopyBeginParts
  <2>8. CASE CopyPage(p)
    BY <2>8, CopyPageSound, CopyPageParts
  <2>9. CASE CopyFails(p)
    BY <2>9, FreeSound, CopyFailsParts
  <2>10. CASE CopyDone(p)
    BY <2>10, LocalSound, CopyDoneParts
  <2>11. CASE ForkPublish(p)
    BY <2>11, PublishSound, ForkPublishParts
  <2>12. CASE EnterClone(p)
    BY <2>12, LocalSound, EnterParts
  <2>13. CASE CloneShare(p)
    BY <2>13, LocalSound, CloneShareParts
  <2>14. CASE CloneLoad(p)
    BY <2>14, LocalSound, CloneLoadParts
  <2>15. CASE ClonePublish(p)
    BY <2>15, PublishSound, ClonePublishParts
  <2>16. CASE Exit(p)
    BY <2>16, LocalSound, ExitParts
  <2>17. CASE Reap(p)
    BY <2>17, FreeSound, ReapParts
  <2> QED
    BY <1>1, <2>1, <2>2, <2>3, <2>4, <2>5, <2>6, <2>7, <2>8, <2>9, <2>10, <2>11,
       <2>12, <2>13, <2>14, <2>15, <2>16, <2>17 DEF Step
<1>2. CASE UNCHANGED vars
  <2>1. Sound'
    BY <1>2 DEF Good, Sound, TypeOK, Balance, PagesOf, vars, tableVars, memVars, localVars
  <2>2. /\ UNCHANGED <<state, pgdir, sz, thread, pages, pc, addr, np, reg, dir, i, owned>>
        /\ \A t \in Slot : (Making(t)' <=> Making(t)) /\ (Held(t)' <=> Held(t))
                           /\ (Active(t)' <=> Active(t))
    BY <1>2 DEF Making, Held, Active, vars, tableVars, memVars, localVars
  <2>3. EntryInv' /\ DirInv' /\ FreeDirs'
    BY <2>2 DEF Good, Parts, EntryInv, DirInv, FreeDirs
  <2>4. SizeInv' /\ OwnedInv'
    BY <2>2 DEF Good, Parts, SizeInv, SizesAgree, OwnedInv
  <2>5. PageInv'
    BY <2>2 DEF Good, Parts, PageInv, PageRange
  <2> QED
    BY <2>1, <2>3, <2>4, <2>5 DEF Parts
<1> QED
  BY <1>1, <1>2 DEF Next

\* MemoryInv is inductive where no thread calls sbrk() while another one forks or
\* clones (QuietSbrk); AddressSpaceClone.cfg shows how it breaks otherwise.
THEOREM MemoryInvariant == ASSUME QuietSbrk = TRUE PROVE Spec => []MemoryInv
<1>1. MemoryInv <=> Good
  BY FramesForm DEF MemoryInv, Good, Parts
<1>2. ASSUME Init PROVE MemoryInv
  BY <1>1, <1>2, InitGood DEF Good
<1>3. ASSUME MemoryInv, [Next]_vars PROVE MemoryInv'
  <2>1. TypeOK' /\ ~ panicked' /\ Balance' /\ Parts'
    BY <1>1, <1>3, NextGood DEF Sound
  <2>2. TypeOK' => (FramesExact <=> Balance /\ FreeDirs)'
    BY FramesForm, PTL
  <2> QED
    BY <2>1, <2>2 DEF MemoryInv, Parts
<1> QED
  BY <1>2, <1>3, PTL DEF Spec

\* The size that a process and its threads have, each in its own entry, is the same
\* whatever sbrk(), fork() and clone() do, whose loads and stores of it are not
\* atomic (growproc's last loop, proc.c).
THEOREM SizesAlwaysAgree == ASSUME QuietSbrk = TRUE PROVE Spec => []SizesAgree
<1>1. MemoryInv => SizesAgree
  BY DEF MemoryInv, SizeInv
<1> QED
  BY <1>1, MemoryInvariant, PTL

\* Whatever becomes of a growth, a shrinking or a copy, page frames are free or
\* mapped once, a running program has exactly the pages below its size, and neither
\* mappages() nor copyuvm() panics.
THEOREM MemoryAlwaysExact == ASSUME QuietSbrk = TRUE PROVE Spec => []MemoryExact
<1>1. MemoryInv => PagesMatch
  BY DEF MemoryInv, PageInv, PagesMatch
<1>2. MemoryInv => MemoryExact
  BY <1>1 DEF MemoryInv, MemoryExact
<1> QED
  BY <1>2, MemoryInvariant, PTL

\* Where calls of sbrk() are serial, as malloc() of threads with a lock makes them,
\* no two threads get the same byte, and each byte is in a page that is mapped.
THEOREM OwnedAlwaysApart == ASSUME QuietSbrk = TRUE PROVE Spec => []OwnedApart
<1>1. ASSUME MemoryInv, NEW p \in Slot, Active(p), 0 \in pages[pgdir[p]],
             NEW b \in owned[p]
      PROVE  b \div PGSIZE \in pages[pgdir[p]]
  <2>1. b \in Nat /\ b < sz[p] /\ sz[p] \in Nat /\ sz[p] <= USERTOP
    BY <1>1, Constants DEF MemoryInv, TypeOK, Size, OwnedInv
  <2> DEFINE k == b \div PGSIZE
  <2>2. k \in Nat /\ k * PGSIZE <= b
    BY <2>1, Constants
  <2>3. k < USERTOP \div PGSIZE
    <3> HIDE DEF k
    <3>1. k * PGSIZE < PGSIZE * (USERTOP \div PGSIZE)
      BY <2>1, <2>2, PageNumbers, Constants
    <3> DEFINE top == USERTOP \div PGSIZE
    <3>2. top \in Nat
      BY PageNumbers
    <3> HIDE DEF top
    <3>3. PGSIZE * k < PGSIZE * top
      BY <2>2, <3>1, Constants DEF top
    <3>4. k < top
      BY <2>2, <3>2, <3>3, Constants
    <3> QED
      BY <3>4 DEF top
  <2>4. k \in PageNo
    BY <2>2, <2>3, PageNumbers DEF PageNo
  <2>5. k \in PageRange(0, sz[p])
    <3> HIDE DEF k
    <3>1. k * PGSIZE \in Nat
      BY <2>2, Constants
    <3> QED
      BY <2>1, <2>2, <2>4, <3>1 DEF PageRange
  <2> HIDE DEF k
  <2>6. k \in pages[pgdir[p]]
    BY <1>1, <2>5 DEF MemoryInv, PageInv
  <2> QED
    BY <2>6 DEF k
<1>2. MemoryInv => \A p, q \in Slot :
                     p # q /\ pgdir[p] = pgdir[q] => owned[p] \cap owned[q] = {}
  BY DEF MemoryInv, OwnedInv
<1>3. MemoryInv => OwnedApart
  BY <1>1, <1>2 DEF OwnedApart
<1> QED
  BY <1>3, MemoryInvariant, PTL
=============================================================================
