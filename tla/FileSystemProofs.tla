-------------------------- MODULE FileSystemProofs --------------------------
(* Theorems about FileSystem, for every number of processes, names, inodes *)
(* and cache entries, and for all programs and crashes.                    *)
EXTENDS FileSystem, FiniteSetTheorems, SequenceTheorems, WellFoundedInduction,
        NaturalsInduction, TLAPS

-----------------------------------------------------------------------------
(* Sets and sequences *)

LEMMA Sets ==
  /\ Slot \subseteq Nat /\ 0 \notin Slot /\ 1 \in Slot
  /\ Inum \subseteq Nat /\ 0 \notin Inum /\ ROOTINO \in Inum
  /\ IsFiniteSet(Proc) /\ NoProc \notin Proc
  /\ {"/", ".."} \cap Name = {}
BY FileSystemAssumption DEF FileSystemAssumption, Slot, Inum, ROOTINO

Is(b) == IF b THEN 1 ELSE 0
Eq(x, s) == IF x = s THEN 1 ELSE 0

LEMMA EqFacts == /\ \A x, s : Eq(x, s) \in Nat
                 /\ \A s \in Slot : Eq(0, s) = 0 /\ Eq(s, s) = 1
BY Sets DEF Eq

\* How often slot s is in a list of at most two.
In(puts, s) == Is(puts # <<>> /\ Head(puts) = s) + Is(Len(puts) = 2 /\ puts[2] = s)

LEMMA InNat == \A l, s : In(l, s) \in Nat
BY DEF In, Is

LEMMA ShortLists ==
  /\ <<>> \in Seq(Slot) /\ Len(<<>>) = 0 /\ \A s : In(<<>>, s) = 0
  /\ \A x \in Slot :
       /\ <<x>> \in Seq(Slot) /\ Len(<<x>>) = 1 /\ <<x>> # <<>>
       /\ Head(<<x>>) = x /\ Tail(<<x>>) = <<>>
       /\ \A s : In(<<x>>, s) = Eq(x, s)
  /\ \A x, y \in Slot :
       /\ <<x, y>> \in Seq(Slot) /\ Len(<<x, y>>) = 2 /\ <<x, y>> # <<>>
       /\ Head(<<x, y>>) = x /\ Tail(<<x, y>>) = <<y>>
       /\ Append(<<x>>, y) = <<x, y>> /\ Append(<<>>, y) = <<y>>
       /\ \A s : In(<<x, y>>, s) = Eq(x, s) + Eq(y, s)
<1>1. <<>> \in Seq(Slot) /\ Len(<<>>) = 0 /\ \A s : In(<<>>, s) = 0
  BY DEF In, Is, Eq
<1>2. ASSUME NEW x \in Slot
      PROVE  /\ <<x>> \in Seq(Slot) /\ Len(<<x>>) = 1 /\ <<x>> # <<>>
             /\ Head(<<x>>) = x /\ Tail(<<x>>) = <<>>
             /\ \A s : In(<<x>>, s) = Eq(x, s)
  <2>1. <<x>> \in Seq(Slot) /\ Len(<<x>>) = 1 /\ <<x>> # <<>>
    OBVIOUS
  <2>2. Head(<<x>>) = x /\ Tail(<<x>>) = <<>>
    OBVIOUS
  <2> QED
    BY <2>1, <2>2 DEF In, Is, Eq
<1>3. ASSUME NEW x \in Slot, NEW y \in Slot
      PROVE  /\ <<x, y>> \in Seq(Slot) /\ Len(<<x, y>>) = 2 /\ <<x, y>> # <<>>
             /\ Head(<<x, y>>) = x /\ Tail(<<x, y>>) = <<y>>
             /\ Append(<<x>>, y) = <<x, y>> /\ Append(<<>>, y) = <<y>>
             /\ \A s : In(<<x, y>>, s) = Eq(x, s) + Eq(y, s)
  <2>1. <<x, y>> \in Seq(Slot) /\ Len(<<x, y>>) = 2 /\ <<x, y>> # <<>>
    OBVIOUS
  <2>2. Head(<<x, y>>) = x /\ Tail(<<x, y>>) = <<y>> /\ <<x, y>>[2] = y
    OBVIOUS
  <2>3. Append(<<x>>, y) = <<x, y>>
    <3>1. /\ Append(<<x>>, y) \in Seq(Slot) /\ Len(Append(<<x>>, y)) = 2
          /\ Append(<<x>>, y)[1] = x /\ Append(<<x>>, y)[2] = y
      BY <1>2, AppendProperties
    <3>2. <<x, y>>[1] = x /\ <<x, y>>[2] = y /\ 1 .. 2 = {1, 2}
      OBVIOUS
    <3> QED
      BY <2>1, <3>1, <3>2, SeqEqual
  <2>4. Append(<<>>, y) = <<y>>
    OBVIOUS
  <2> QED
    BY <2>1, <2>2, <2>3, <2>4 DEF In, Is, Eq
<1> QED
  BY <1>1, <1>2, <1>3

LEMMA IsShort ==
  ASSUME NEW l \in Seq(Slot), Len(l) <= 2
  PROVE  l = <<>> \/ (\E x \in Slot : l = <<x>>) \/ (\E x, y \in Slot : l = <<x, y>>)
<1>1. /\ Len(l) \in Nat /\ DOMAIN l = 1 .. Len(l)
      /\ \A i \in 1 .. Len(l) : l[i] \in Slot
  BY ElementOfSeq
<1>2. CASE Len(l) = 0
  BY <1>2, EmptySeq
<1>3. CASE Len(l) = 1
  <2>1. l = <<l[1]>> /\ l[1] \in Slot
    BY <1>1, <1>3
  <2> QED
    BY <2>1
<1>4. CASE Len(l) = 2
  <2>1. l = <<l[1], l[2]>> /\ l[1] \in Slot /\ l[2] \in Slot
    BY <1>1, <1>4
  <2> QED
    BY <2>1
<1> QED
  BY <1>1, <1>2, <1>3, <1>4

\* The head and the rest of a path.
LEMMA PathParts ==
  ASSUME NEW path \in Path, path # <<>>, \A i \in 1 .. Len(path) : path[i] # "/"
  PROVE  /\ Head(path) \in Name \cup {".."} /\ Tail(path) \in Path
         /\ \A i \in 1 .. Len(Tail(path)) : Tail(path)[i] # "/"
<1>1. Len(path) \in Nat \ {0} /\ Head(path) = path[1] /\ path[1] \in Name \cup {"/", ".."}
  BY HeadTailProperties, ElementOfSeq, EmptySeq DEF Path
<1>2. /\ Tail(path) \in Path /\ Len(Tail(path)) = Len(path) - 1
      /\ \A i \in 1 .. Len(path) - 1 : Tail(path)[i] = path[i + 1]
  BY HeadTailProperties DEF Path
<1>3. \A i \in 1 .. Len(path) - 1 : i + 1 \in 1 .. Len(path)
  BY <1>1
<1> QED
  BY <1>1, <1>2, <1>3

-----------------------------------------------------------------------------
(* The variables that hold a slot are counted *)

\* A set of processes changes by one process at most.
LEMMA One ==
  ASSUME NEW p \in Proc, NEW S \in SUBSET Proc, NEW T \in SUBSET Proc,
         \A r \in Proc \ {p} : r \in S <=> r \in T
  PROVE  /\ Cardinality(S) \in Nat /\ Cardinality(T) \in Nat
         /\ Cardinality(T) = Cardinality(S) + Is(p \in T) - Is(p \in S)
         /\ Cardinality(S) >= Is(p \in S)
<1> DEFINE R == S \ {p}
<1>1. IsFiniteSet(S) /\ IsFiniteSet(T) /\ IsFiniteSet(R) /\ p \notin R
  BY Sets, FS_Subset
<1>2. Cardinality(S) \in Nat /\ Cardinality(T) \in Nat /\ Cardinality(R) \in Nat
  BY <1>1, FS_CardinalityType
<1>3. Cardinality(R \cup {p}) = Cardinality(R) + 1
  BY <1>1, FS_AddElement
<1>4. (p \in S => S = R \cup {p}) /\ (p \notin S => S = R)
  OBVIOUS
<1>5. (p \in T => T = R \cup {p}) /\ (p \notin T => T = R)
  OBVIOUS
<1>6. /\ Is(p \in S) = IF p \in S THEN 1 ELSE 0
      /\ Is(p \in T) = IF p \in T THEN 1 ELSE 0
  BY DEF Is
<1> HIDE DEF R
<1>7. Cardinality(S) = Cardinality(R) + Is(p \in S) /\ Is(p \in S) \in {0, 1}
  <2>1. CASE p \in S
    BY <1>2, <1>3, <1>4, <1>6, <2>1
  <2>2. CASE p \notin S
    BY <1>2, <1>4, <1>6, <2>2
  <2> QED
    BY <2>1, <2>2
<1>8. Cardinality(T) = Cardinality(R) + Is(p \in T) /\ Is(p \in T) \in {0, 1}
  <2>1. CASE p \in T
    BY <1>2, <1>3, <1>5, <1>6, <2>1
  <2>2. CASE p \notin T
    BY <1>2, <1>5, <1>6, <2>2
  <2> QED
    BY <2>1, <2>2
<1> QED
  BY <1>2, <1>7, <1>8

\* How many variables of a process are slot s.
IpSlot(q) == IF q.pc = "iget" THEN 0 ELSE q.ip

Weight(q, s) ==
  Eq(q.dp, s) + Eq(IpSlot(q), s) + Eq(q.file, s) + Eq(q.cwd, s)
  + In(q.puts, s)

\* Holders of FileSystem, with f for proc.
HoldersOf(f, s) ==
  Cardinality({r \in Proc : f[r].dp = s})
  + Cardinality({r \in Proc : f[r].ip = s /\ f[r].pc # "iget"})
  + Cardinality({r \in Proc : f[r].file = s})
  + Cardinality({r \in Proc : f[r].cwd = s})
  + Cardinality({r \in Proc : f[r].puts # <<>> /\ Head(f[r].puts) = s})
  + Cardinality({r \in Proc : Len(f[r].puts) = 2 /\ f[r].puts[2] = s})

LEMMA Recount ==
  ASSUME NEW p \in Proc, NEW f, NEW g, \A r \in Proc \ {p} : g[r] = f[r], NEW s \in Slot
  PROVE  /\ HoldersOf(f, s) \in Nat /\ HoldersOf(g, s) \in Nat
         /\ Weight(f[p], s) \in Nat /\ Weight(g[p], s) \in Nat
         /\ HoldersOf(g, s) = HoldersOf(f, s) + Weight(g[p], s) - Weight(f[p], s)
         /\ HoldersOf(f, s) >= Weight(f[p], s)
<1> DEFINE A == {r \in Proc : f[r].dp = s}
           B == {r \in Proc : f[r].ip = s /\ f[r].pc # "iget"}
           C == {r \in Proc : f[r].file = s}
           D == {r \in Proc : f[r].cwd = s}
           E == {r \in Proc : f[r].puts # <<>> /\ Head(f[r].puts) = s}
           F == {r \in Proc : Len(f[r].puts) = 2 /\ f[r].puts[2] = s}
           A2 == {r \in Proc : g[r].dp = s}
           B2 == {r \in Proc : g[r].ip = s /\ g[r].pc # "iget"}
           C2 == {r \in Proc : g[r].file = s}
           D2 == {r \in Proc : g[r].cwd = s}
           E2 == {r \in Proc : g[r].puts # <<>> /\ Head(g[r].puts) = s}
           F2 == {r \in Proc : Len(g[r].puts) = 2 /\ g[r].puts[2] = s}
<1>2. /\ HoldersOf(f, s) = Cardinality(A) + Cardinality(B) + Cardinality(C)
                           + Cardinality(D) + Cardinality(E) + Cardinality(F)
      /\ HoldersOf(g, s) = Cardinality(A2) + Cardinality(B2) + Cardinality(C2)
                           + Cardinality(D2) + Cardinality(E2) + Cardinality(F2)
  BY DEF HoldersOf
<1>3. /\ \A r \in Proc \ {p} : /\ r \in A <=> r \in A2
                               /\ r \in B <=> r \in B2
                               /\ r \in C <=> r \in C2
                               /\ r \in D <=> r \in D2
                               /\ r \in E <=> r \in E2
                               /\ r \in F <=> r \in F2
      /\ {A, B, C, D, E, F, A2, B2, C2, D2, E2, F2} \subseteq SUBSET Proc
  OBVIOUS
<1>4. /\ Weight(f[p], s) = Is(p \in A) + Is(p \in B) + Is(p \in C) + Is(p \in D)
                           + (Is(p \in E) + Is(p \in F))
      /\ Weight(g[p], s) = Is(p \in A2) + Is(p \in B2) + Is(p \in C2) + Is(p \in D2)
                           + (Is(p \in E2) + Is(p \in F2))
  <2>1. /\ Eq(f[p].dp, s) = Is(p \in A) /\ Eq(g[p].dp, s) = Is(p \in A2)
        /\ Eq(f[p].file, s) = Is(p \in C) /\ Eq(g[p].file, s) = Is(p \in C2)
        /\ Eq(f[p].cwd, s) = Is(p \in D) /\ Eq(g[p].cwd, s) = Is(p \in D2)
    BY DEF Eq, Is
  <2>2. Eq(IpSlot(f[p]), s) = Is(p \in B) /\ Eq(IpSlot(g[p]), s) = Is(p \in B2)
    BY Sets DEF Eq, Is, IpSlot
  <2>3. /\ In(f[p].puts, s) = Is(p \in E) + Is(p \in F)
        /\ In(g[p].puts, s) = Is(p \in E2) + Is(p \in F2)
    BY DEF In
  <2> HIDE DEF A, B, C, D, E, F, A2, B2, C2, D2, E2, F2
  <2> QED
    BY <2>1, <2>2, <2>3 DEF Weight
<1> HIDE DEF A, B, C, D, E, F, A2, B2, C2, D2, E2, F2
<1> DEFINE a == Is(p \in A)   a2 == Is(p \in A2)
           b == Is(p \in B)   b2 == Is(p \in B2)
           c == Is(p \in C)   c2 == Is(p \in C2)
           d == Is(p \in D)   d2 == Is(p \in D2)
           e == Is(p \in E)   e2 == Is(p \in E2)
           h == Is(p \in F)   h2 == Is(p \in F2)
<1>5. /\ a \in Nat /\ b \in Nat /\ c \in Nat
      /\ d \in Nat /\ e \in Nat /\ h \in Nat
      /\ a2 \in Nat /\ b2 \in Nat /\ c2 \in Nat
      /\ d2 \in Nat /\ e2 \in Nat /\ h2 \in Nat
  BY DEF Is
<1>6. /\ Cardinality(A) \in Nat /\ Cardinality(A2) \in Nat
      /\ Cardinality(A2) = Cardinality(A) + a2 - a /\ Cardinality(A) >= a
  BY <1>3, One
<1>7. /\ Cardinality(B) \in Nat /\ Cardinality(B2) \in Nat
      /\ Cardinality(B2) = Cardinality(B) + b2 - b /\ Cardinality(B) >= b
  BY <1>3, One
<1>8. /\ Cardinality(C) \in Nat /\ Cardinality(C2) \in Nat
      /\ Cardinality(C2) = Cardinality(C) + c2 - c /\ Cardinality(C) >= c
  BY <1>3, One
<1>9. /\ Cardinality(D) \in Nat /\ Cardinality(D2) \in Nat
      /\ Cardinality(D2) = Cardinality(D) + d2 - d /\ Cardinality(D) >= d
  BY <1>3, One
<1>10. /\ Cardinality(E) \in Nat /\ Cardinality(E2) \in Nat
      /\ Cardinality(E2) = Cardinality(E) + e2 - e /\ Cardinality(E) >= e
  BY <1>3, One
<1>11. /\ Cardinality(F) \in Nat /\ Cardinality(F2) \in Nat
      /\ Cardinality(F2) = Cardinality(F) + h2 - h /\ Cardinality(F) >= h
  BY <1>3, One
<1>12. /\ Weight(f[p], s) = a + b + c + d + (e + h)
       /\ Weight(g[p], s) = a2 + b2 + c2 + d2 + (e2 + h2)
  BY <1>4
<1> HIDE DEF a, b, c, d, e, h, a2, b2, c2, d2, e2, h2
<1> QED
  BY <1>2, <1>5, <1>6, <1>7, <1>8, <1>9, <1>10, <1>11, <1>12

-----------------------------------------------------------------------------
(* A step of a process *)

Fits(q) == q \in Process /\ Len(q.puts) <= 2 /\ CallInv(q)

CacheOK(c) ==
  /\ c \in Caches
  /\ \A s \in Slot : c[s].ref > 0 => c[s].inum # 0
  /\ \A s, t \in Slot : c[s].ref > 0 /\ c[t].ref > 0 /\ c[s].inum = c[t].inum => s = t

Live(s) == s \in Slot /\ icache[s].ref > 0 /\ icache[s].inum \in Inum

LEMMA StepInv ==
  ASSUME TableInv, NEW p \in Proc, NEW q, NEW c, NEW d, Go(p, q, c, d),
         Fits(q), CacheOK(c), d \in Disks,
         \A s \in Slot : c[s].ref = icache[s].ref + Weight(q, s) - Weight(proc[p], s)
  PROVE  TableInv'
<1>1. proc' = [proc EXCEPT ![p] = q] /\ icache' = c /\ disk' = d
  BY DEF Go
<1>2. proc \in [Proc -> Process] /\ q \in Process
  BY DEF TableInv, Fits
<1>3. \A r \in Proc : proc'[r] = IF r = p THEN q ELSE proc[r]
  BY <1>1, <1>2
<1>4. proc' \in [Proc -> Process]
  BY <1>1, <1>2
<1>5. \A r \in Proc : CallInv(proc'[r]) /\ Len(proc'[r].puts) <= 2
  BY <1>3 DEF TableInv, RefsExact, Fits
<1>6. \A s \in Slot : icache'[s].ref = Holders(s)'
  <2> SUFFICES ASSUME NEW s \in Slot PROVE c[s].ref = Holders(s)'
    BY <1>1
  <2>1. icache[s].ref = HoldersOf(proc, s) /\ Holders(s)' = HoldersOf(proc', s)
    BY DEF TableInv, RefsExact, Holders, HoldersOf
  <2>2. HoldersOf(proc', s) = HoldersOf(proc, s) + Weight(proc'[p], s) - Weight(proc[p], s)
    BY <1>3, Recount
  <2> QED
    BY <1>3, <2>1, <2>2
<1>7. RefsExact'
  BY <1>1, <1>5, <1>6 DEF RefsExact, CacheOK
<1> QED
  BY <1>1, <1>4, <1>5, <1>7 DEF TableInv, CacheOK

\* What a process holds is cached.
LEMMA Held ==
  ASSUME TableInv, NEW p \in Proc
  PROVE  /\ Fits(proc[p])
         /\ proc[p].dp # 0 => Live(proc[p].dp)
         /\ proc[p].ip # 0 /\ proc[p].pc # "iget" => Live(proc[p].ip)
         /\ proc[p].file # 0 => Live(proc[p].file)
         /\ Live(proc[p].cwd)
         /\ proc[p].puts # <<>> => Live(Head(proc[p].puts))
         /\ Len(proc[p].puts) = 2 => Live(proc[p].puts[2])
<1>1. Fits(proc[p])
  BY DEF TableInv, RefsExact, Fits
<1>2. /\ proc[p].dp \in Pointer /\ proc[p].file \in Pointer /\ proc[p].cwd \in Pointer
      /\ proc[p].puts \in Seq(Slot) /\ proc[p].cwd # 0
      /\ proc[p].pc # "iget" => proc[p].ip \in Pointer
  BY <1>1 DEF Fits, Process, CallInv
<1>3. proc[p].puts # <<>> => Head(proc[p].puts) \in Slot
  BY <1>2, HeadTailProperties
<1>5. Len(proc[p].puts) = 2 => proc[p].puts[2] \in Slot
  BY <1>2, ElementOfSeq
<1>4. ASSUME NEW s \in Slot,
             \/ proc[p].dp = s
             \/ proc[p].ip = s /\ proc[p].pc # "iget"
             \/ proc[p].file = s
             \/ proc[p].cwd = s
             \/ proc[p].puts # <<>> /\ Head(proc[p].puts) = s
             \/ Len(proc[p].puts) = 2 /\ proc[p].puts[2] = s
      PROVE  Live(s)
  <2>1. /\ Holders(s) \in Nat /\ Holders(s) >= Weight(proc[p], s)
    <3>1. HoldersOf(proc, s) \in Nat /\ HoldersOf(proc, s) >= Weight(proc[p], s)
      BY Recount
    <3> QED
      BY <3>1 DEF Holders, HoldersOf
  <2>2. Weight(proc[p], s) \in Nat /\ Weight(proc[p], s) >= 1
    <3> DEFINE a == Eq(proc[p].dp, s)   b == Eq(IpSlot(proc[p]), s)
               c == Eq(proc[p].file, s) d == Eq(proc[p].cwd, s)
               e == Is(proc[p].puts # <<>> /\ Head(proc[p].puts) = s)
               f == Is(Len(proc[p].puts) = 2 /\ proc[p].puts[2] = s)
    <3>1. Weight(proc[p], s) = a + b + c + d + (e + f)
      BY DEF Weight, In
    <3>2. /\ a \in Nat /\ b \in Nat /\ c \in Nat
          /\ d \in Nat /\ e \in Nat /\ f \in Nat
      BY EqFacts DEF Is
    <3>3. a = 1 \/ b = 1 \/ c = 1 \/ d = 1 \/ e = 1 \/ f = 1
      BY <1>4 DEF Is, Eq, IpSlot
    <3> HIDE DEF a, b, c, d, e, f
    <3> QED
      BY <3>1, <3>2, <3>3
  <2>3. icache[s].ref = Holders(s) /\ icache \in Caches
    BY DEF TableInv, RefsExact
  <2>4. icache[s].ref > 0
    BY <2>1, <2>2, <2>3
  <2> QED
    BY <2>3, <2>4 DEF TableInv, Live, Caches
<1> QED
  BY <1>1, <1>2, <1>3, <1>4, <1>5, Sets DEF Pointer

-----------------------------------------------------------------------------
(* The cache and the disk after an operation *)

\* The caches that hold the same inodes as often as c.
Alike(c) ==
  {e \in Caches : \A s \in Slot : e[s].ref = c[s].ref /\ e[s].inum = c[s].inum}

LEMMA AlikeOK == ASSUME NEW c, CacheOK(c), NEW e \in Alike(c) PROVE CacheOK(e)
BY DEF Alike, CacheOK

LEMMA Edited ==
  ASSUME NEW c \in Caches, NEW s \in Slot, disk \in Disks, c[s].inum # 0
  PROVE  /\ c \in Alike(c)
         /\ \A q \in Proc \cup {NoProc} : /\ Ilock(c, s, q) \in Alike(c)
                                          /\ [c EXCEPT ![s].busy = q] \in Alike(c)
         /\ Iunlock(c, s) \in Alike(c)
         /\ \A n \in Int : /\ AddLink(c, s, n) \in Alike(c)
                           /\ [c EXCEPT ![s].nlink = n] \in Alike(c)
         /\ [c EXCEPT ![s].type = "free"] \in Alike(c)
         /\ [c EXCEPT ![s].valid = FALSE, ![s].busy = NoProc] \in Alike(c)
<1> DEFINE Record == [inum : Inum \cup {0}, ref : Nat, valid : BOOLEAN,
                      type : Type, nlink : Int, busy : Proc \cup {NoProc}]
<1>1. c \in [Slot -> Record] /\ c[s] \in Record /\ c[s].inum \in Inum
  BY DEF Caches
<1>2. ASSUME NEW x \in Record, x.ref = c[s].ref, x.inum = c[s].inum
      PROVE  [c EXCEPT ![s] = x] \in Alike(c)
  BY <1>1, <1>2 DEF Alike, Caches
<1>3. disk[c[s].inum].type \in Type /\ disk[c[s].inum].nlink \in Int
  BY <1>1 DEF Disks
<1>4. c \in Alike(c)
  BY DEF Alike
<1>5. ASSUME NEW q \in Proc \cup {NoProc} PROVE Ilock(c, s, q) \in Alike(c)
  <2> DEFINE x == [c[s] EXCEPT !.busy = q, !.valid = TRUE,
                               !.type = IF c[s].valid THEN @ ELSE disk[c[s].inum].type,
                               !.nlink = IF c[s].valid THEN @ ELSE disk[c[s].inum].nlink]
  <2>1. x \in Record /\ x.ref = c[s].ref /\ x.inum = c[s].inum
    BY <1>1, <1>3
  <2> QED
    BY <1>2, <2>1 DEF Ilock
<1>6. ASSUME NEW q \in Proc \cup {NoProc} PROVE [c EXCEPT ![s].busy = q] \in Alike(c)
  <2> DEFINE x == [c[s] EXCEPT !.busy = q]
  <2>1. x \in Record /\ x.ref = c[s].ref /\ x.inum = c[s].inum
    BY <1>1
  <2> QED
    BY <1>2, <2>1
<1>7. Iunlock(c, s) \in Alike(c)
  BY <1>6 DEF Iunlock
<1>8. ASSUME NEW n \in Int PROVE AddLink(c, s, n) \in Alike(c)
  <2> DEFINE x == [c[s] EXCEPT !.nlink = @ + n]
  <2>1. x \in Record /\ x.ref = c[s].ref /\ x.inum = c[s].inum
    BY <1>1
  <2> QED
    BY <1>2, <2>1 DEF AddLink
<1>9. ASSUME NEW n \in Int PROVE [c EXCEPT ![s].nlink = n] \in Alike(c)
  <2> DEFINE x == [c[s] EXCEPT !.nlink = n]
  <2>1. x \in Record /\ x.ref = c[s].ref /\ x.inum = c[s].inum
    BY <1>1
  <2> QED
    BY <1>2, <2>1
<1>10. [c EXCEPT ![s].type = "free"] \in Alike(c)
  <2> DEFINE x == [c[s] EXCEPT !.type = "free"]
  <2>1. x \in Record /\ x.ref = c[s].ref /\ x.inum = c[s].inum
    BY <1>1 DEF Type
  <2> QED
    BY <1>2, <2>1
<1>11. [c EXCEPT ![s].valid = FALSE, ![s].busy = NoProc] \in Alike(c)
  <2> DEFINE x == [c[s] EXCEPT !.valid = FALSE, !.busy = NoProc]
  <2>1. x \in Record /\ x.ref = c[s].ref /\ x.inum = c[s].inum
    BY <1>1
  <2>2. [c EXCEPT ![s].valid = FALSE, ![s].busy = NoProc] = [c EXCEPT ![s] = x]
    BY <1>1
  <2> QED
    BY <1>2, <2>1, <2>2
<1> QED
  BY <1>4, <1>5, <1>6, <1>7, <1>8, <1>9, <1>10, <1>11

LEMMA LeastIn ==
  ASSUME NEW T \in SUBSET Nat, T # {}
  PROVE  \E x \in T : \A y \in T : x <= y
<1>1. PICK x \in T : \A y \in T : ~ (<<y, x>> \in OpToRel(<, Nat))
  BY NatLessThanWellFounded, WFMin
<1>2. ASSUME NEW y \in T PROVE x <= y
  <2>1. ~ (y < x)
    BY <1>1 DEF OpToRel
  <2> QED
    BY <2>1
<1> QED
  BY <1>2

\* iget() takes the slot that has the inode, or an unused one if none has.
LEMMA Got ==
  ASSUME NEW c, CacheOK(c), NEW k \in Inum, SlotsFor(c, k) # {}
  PROVE  /\ SlotOf(c, k) \in Slot /\ CacheOK(Iget(c, k))
         /\ Iget(c, k)[SlotOf(c, k)].inum = k
         /\ \A s \in Slot : Iget(c, k)[s].ref = c[s].ref + Eq(SlotOf(c, k), s)
<1> DEFINE Record == [inum : Inum \cup {0}, ref : Nat, valid : BOOLEAN,
                      type : Type, nlink : Int, busy : Proc \cup {NoProc}]
           t == SlotOf(c, k)
           x == IF c[t].ref > 0 THEN [c[t] EXCEPT !.ref = @ + 1]
                ELSE [c[t] EXCEPT !.inum = k, !.ref = 1, !.valid = FALSE, !.busy = NoProc]
<1>1. t \in SlotsFor(c, k)
  <2>1. SlotsFor(c, k) \in SUBSET Nat
    BY Sets DEF SlotsFor
  <2> QED
    BY <2>1, LeastIn DEF SlotOf
<1>2. c \in [Slot -> Record] /\ t \in Slot /\ c[t] \in Record
  BY <1>1 DEF SlotsFor, CacheOK, Caches
<1>3. \/ c[t].ref > 0 /\ c[t].inum = k
      \/ c[t].ref = 0 /\ \A s \in Slot : c[s].ref > 0 => c[s].inum # k
  BY <1>1 DEF SlotsFor
<1> HIDE DEF t
<1>4. Iget(c, k) = [c EXCEPT ![t] = x]
  BY DEF Iget, t
<1>5. x \in Record /\ x.inum = k /\ x.ref = c[t].ref + 1
  <2>1. CASE c[t].ref > 0
    <3>1. x = [c[t] EXCEPT !.ref = c[t].ref + 1] /\ c[t].inum = k
      BY <1>2, <1>3, <2>1
    <3> QED
      BY <1>2, <3>1
  <2>2. CASE c[t].ref = 0
    <3>1. x = [c[t] EXCEPT !.inum = k, !.ref = 1, !.valid = FALSE, !.busy = NoProc]
      BY <2>2
    <3> HIDE DEF x
    <3>2. /\ x = [c[t] EXCEPT !.inum = x.inum, !.ref = x.ref, !.valid = x.valid, !.busy = x.busy]
          /\ x.inum = k /\ x.ref = 1 /\ x.valid = FALSE /\ x.busy = NoProc
      BY <1>2, <3>1
    <3>3. x.inum \in Inum \cup {0} /\ x.ref \in Nat /\ x.busy \in Proc \cup {NoProc}
      BY <3>2
    <3>4. x.valid \in BOOLEAN
      BY <3>2
    <3>5. x \in Record
      BY <1>2, <3>2, <3>3, <3>4
    <3> QED
      BY <2>2, <3>2, <3>5
  <2> QED
    BY <1>2, <2>1, <2>2
<1> HIDE DEF x
<1>6. \A s \in Slot : Iget(c, k)[s] = IF s = t THEN x ELSE c[s]
  BY <1>2, <1>4
<1>7. Iget(c, k) \in Caches
  BY <1>2, <1>4, <1>5 DEF Caches
<1>8. \A s \in Slot : Iget(c, k)[s].ref = c[s].ref + Eq(t, s)
  <2> SUFFICES ASSUME NEW s \in Slot PROVE Iget(c, k)[s].ref = c[s].ref + Eq(t, s)
    OBVIOUS
  <2>1. c[s].ref \in Nat
    BY <1>2
  <2>2. CASE s = t
    BY <1>5, <1>6, <2>1, <2>2 DEF Eq
  <2>3. CASE s # t
    BY <1>6, <2>1, <2>3 DEF Eq
  <2> QED
    BY <2>2, <2>3
<1>9. \A s \in Slot : Iget(c, k)[s].ref > 0 => Iget(c, k)[s].inum # 0
  BY <1>5, <1>6, Sets DEF CacheOK
<1>10. ASSUME NEW s \in Slot, NEW r \in Slot,
              Iget(c, k)[s].ref > 0, Iget(c, k)[r].ref > 0,
              Iget(c, k)[s].inum = Iget(c, k)[r].inum
       PROVE  s = r
  <2>1. CASE s # t /\ r # t
    BY <1>6, <1>10, <2>1 DEF CacheOK
  <2>2. CASE s = t /\ r # t
    BY <1>2, <1>3, <1>5, <1>6, <1>10, <2>2 DEF CacheOK
  <2>3. CASE s # t /\ r = t
    BY <1>2, <1>3, <1>5, <1>6, <1>10, <2>3 DEF CacheOK
  <2> QED
    BY <2>1, <2>2, <2>3
<1> QED
  BY <1>2, <1>5, <1>6, <1>7, <1>8, <1>9, <1>10 DEF t, CacheOK

LEMMA Counted ==
  ASSUME NEW c, CacheOK(c), NEW t \in Slot, c[t].ref > 0
  PROVE  /\ CacheOK(Idup(c, t)) /\ CacheOK(Unreferenced(c, t))
         /\ \A s \in Slot : /\ Idup(c, t)[s].ref = c[s].ref + Eq(t, s)
                            /\ Unreferenced(c, t)[s].ref = c[s].ref - Eq(t, s)
<1> DEFINE Record == [inum : Inum \cup {0}, ref : Nat, valid : BOOLEAN,
                      type : Type, nlink : Int, busy : Proc \cup {NoProc}]
<1>1. c \in [Slot -> Record] /\ c[t] \in Record /\ c[t].inum # 0
  BY DEF CacheOK, Caches
<1>2. ASSUME NEW x \in Record, x.inum = c[t].inum
      PROVE  /\ CacheOK([c EXCEPT ![t] = x])
             /\ \A s \in Slot : [c EXCEPT ![t] = x][s].ref = IF t = s THEN x.ref ELSE c[s].ref
  BY <1>1, <1>2 DEF CacheOK, Caches
<1>3. \A s \in Slot : Eq(t, s) = IF t = s THEN 1 ELSE 0
  BY DEF Eq
<1>4. \A s \in Slot : c[s].ref \in Nat
  BY <1>1
<1>5. /\ CacheOK(Idup(c, t))
      /\ \A s \in Slot : Idup(c, t)[s].ref = c[s].ref + Eq(t, s)
  <2> DEFINE x == [c[t] EXCEPT !.ref = @ + 1]
  <2>1. x \in Record /\ x.inum = c[t].inum /\ x.ref = c[t].ref + 1
    BY <1>1
  <2>2. Idup(c, t) = [c EXCEPT ![t] = x]
    BY DEF Idup
  <2> HIDE DEF x
  <2>3. CacheOK(Idup(c, t))
    BY <1>2, <2>1, <2>2
  <2>4. \A s \in Slot : Idup(c, t)[s].ref = IF t = s THEN x.ref ELSE c[s].ref
    BY <1>2, <2>1, <2>2
  <2>5. ASSUME NEW s \in Slot PROVE Idup(c, t)[s].ref = c[s].ref + Eq(t, s)
    BY <1>3, <1>4, <2>1, <2>4
  <2> QED
    BY <2>3, <2>5
<1>6. /\ CacheOK(Unreferenced(c, t))
      /\ \A s \in Slot : Unreferenced(c, t)[s].ref = c[s].ref - Eq(t, s)
  <2> DEFINE x == [c[t] EXCEPT !.ref = @ - 1]
  <2>1. x \in Record /\ x.inum = c[t].inum /\ x.ref = c[t].ref - 1
    BY <1>1
  <2>2. Unreferenced(c, t) = [c EXCEPT ![t] = x]
    BY DEF Unreferenced
  <2> HIDE DEF x
  <2>3. CacheOK(Unreferenced(c, t))
    BY <1>2, <2>1, <2>2
  <2>4. \A s \in Slot : Unreferenced(c, t)[s].ref = IF t = s THEN x.ref ELSE c[s].ref
    BY <1>2, <2>1, <2>2
  <2>5. ASSUME NEW s \in Slot PROVE Unreferenced(c, t)[s].ref = c[s].ref - Eq(t, s)
    BY <1>3, <1>4, <2>1, <2>4
  <2> QED
    BY <2>3, <2>5
<1> QED
  BY <1>5, <1>6

LEMMA Written ==
  ASSUME NEW d \in Disks, NEW c \in Caches, NEW s \in Slot, c[s].inum # 0
  PROVE  /\ Iupdate(d, c, s) \in Disks
         /\ icache[s].inum \in Inum =>
              \A name \in Name \cup {".."} : \A k \in Inum \cup {0} :
                WriteEntry(d, s, name, k) \in Disks
         /\ \A k \in Inum : [d EXCEPT ![k].entries = NoEntries] \in Disks
         /\ \A k \in Inum : \A type \in Type :
              [d EXCEPT ![k] = [type |-> type, nlink |-> 0, entries |-> NoEntries]] \in Disks
<1>1. /\ c[s].inum \in Inum /\ c[s].type \in Type /\ c[s].nlink \in Int
  BY DEF Caches
<1>2. NoEntries \in [Name \cup {".."} -> Inum \cup {0}]
  BY DEF NoEntries
<1>3. Iupdate(d, c, s) \in Disks
  BY <1>1 DEF Iupdate, Disks
<1>4. ASSUME icache[s].inum \in Inum, NEW name \in Name \cup {".."}, NEW k \in Inum \cup {0}
      PROVE  WriteEntry(d, s, name, k) \in Disks
  BY <1>4 DEF WriteEntry, Disks
<1>5. ASSUME NEW k \in Inum PROVE [d EXCEPT ![k].entries = NoEntries] \in Disks
  BY <1>2 DEF Disks
<1>6. ASSUME NEW k \in Inum, NEW type \in Type
      PROVE  [d EXCEPT ![k] = [type |-> type, nlink |-> 0, entries |-> NoEntries]] \in Disks
  <2> DEFINE x == [type |-> type, nlink |-> 0, entries |-> NoEntries]
  <2>1. x \in [type : Type, nlink : Int, entries : [Name \cup {".."} -> Inum \cup {0}]]
    BY <1>2
  <2> HIDE DEF x
  <2>2. [d EXCEPT ![k] = x] \in Disks
    BY <2>1 DEF Disks
  <2> QED
    BY <2>2 DEF x
<1> QED
  BY <1>3, <1>4, <1>5, <1>6

-----------------------------------------------------------------------------
(* Calls go on and end *)

\* A process between two steps with nothing but puts left to do, or nothing at all.
Idle(q) ==
  q \in Process /\ q.cwd # 0 /\ q.iput = "start" /\ q.pc # "iget"

\* The slots that a process holds.
Weighs(r, dp, ip, file, cwd, puts) ==
  \A s \in Slot :
    Weight(r, s) = Eq(dp, s) + Eq(ip, s) + Eq(file, s) + Eq(cwd, s) + In(puts, s)

Few(puts) == puts \in Seq(Slot) /\ Len(puts) <= 2

LEMMA Returns ==
  ASSUME NEW q, Idle(q), NEW puts, Few(puts)
  PROVE  Fits(Return(q, puts)) /\ Weighs(Return(q, puts), 0, 0, q.file, q.cwd, puts)
<1> DEFINE r == Return(q, puts)
<1>1. <<>> \in Path /\ Len(<<>>) = 0
  BY EmptySeq DEF Path
<1>2. /\ r.call = "none" /\ r.pc = "user" /\ r.path = <<>> /\ r.new = <<>>
      /\ r.dp = 0 /\ r.ip = 0 /\ r.puts = puts /\ r.iput = "start"
      /\ r.file = q.file /\ r.cwd = q.cwd
  BY DEF Return, Idle, Process
<1>3. r \in Process
  BY <1>1 DEF Return, Idle, Process, Few, Pointer
<1> HIDE DEF r
<1>4. CallInv(r)
  BY <1>1, <1>2 DEF CallInv, Idle, Pointer
<1>5. Weighs(r, 0, 0, q.file, q.cwd, puts)
  BY <1>2 DEF Weighs, Weight, IpSlot
<1>6. Fits(r)
  BY <1>2, <1>3, <1>4 DEF Fits, Few
<1> QED
  BY <1>5, <1>6 DEF r

\* The second path of link is still there, and open has no file yet.
Prepared(q) ==
  /\ \A i \in 2 .. Len(q.new) : q.new[i] # "/"
  /\ q.ip \in Pointer /\ (q.ip # 0 => q.call = "link")

LEMMA Fails ==
  ASSUME NEW q, Idle(q), Prepared(q), NEW puts, Few(puts)
  PROVE  Fits(Fail(q, puts)) /\ Weighs(Fail(q, puts), 0, q.ip, q.file, q.cwd, puts)
<1>1. CASE q.call = "link" /\ q.ip # 0
  <2> DEFINE r == [q EXCEPT !.pc = "bad", !.path = <<>>, !.dp = 0, !.puts = puts]
  <2>1. Fail(q, puts) = r
    BY <1>1 DEF Fail
  <2>2. <<>> \in Path /\ Len(<<>>) = 0
    BY EmptySeq DEF Path
  <2>3. /\ r.call = "link" /\ r.pc = "bad" /\ r.path = <<>> /\ r.new = q.new
        /\ r.dp = 0 /\ r.ip = q.ip /\ r.puts = puts /\ r.iput = "start"
        /\ r.file = q.file /\ r.cwd = q.cwd
    BY <1>1 DEF Idle, Process
  <2>4. r \in Process
    BY <2>2 DEF Idle, Process, Few, Pointer
  <2> HIDE DEF r
  <2>5. CallInv(r)
    BY <1>1, <2>2, <2>3 DEF CallInv, Idle, Prepared
  <2>6. Weighs(r, 0, q.ip, q.file, q.cwd, puts)
    BY <2>3 DEF Weighs, Weight, IpSlot
  <2> QED
    BY <2>1, <2>3, <2>4, <2>5, <2>6 DEF Fits, Few
<1>2. CASE ~ (q.call = "link" /\ q.ip # 0)
  <2>1. Fail(q, puts) = Return(q, puts) /\ q.ip = 0
    BY <1>2 DEF Fail, Prepared
  <2> QED
    BY <2>1, Returns
<1> QED
  BY <1>1, <1>2

\* A process that looks up a path and is in the directory dp.
Looking(q) ==
  /\ Idle(q) /\ Prepared(q)
  /\ q.dp \in Slot /\ Len(q.puts) <= 1 /\ q.call # "none"
  /\ \A i \in 1 .. Len(q.path) : q.path[i] # "/"
  /\ q.call = "link" /\ q.ip = 0 => q.new # <<>>
  /\ q.call \in {"creat", "open"} => q.file = 0

LEMMA Looks ==
  ASSUME NEW q, Looking(q)
  PROVE  Fits(Looked(q)) /\ Weighs(Looked(q), q.dp, q.ip, q.file, q.cwd, q.puts)
<1>1. q.puts \in Seq(Slot)
  BY DEF Looking, Idle, Process
<1>2. CASE q.path # <<>>
  <2> DEFINE r == [q EXCEPT !.pc = "walk"]
  <2>1. Looked(q) = r
    BY <1>2 DEF Looked
  <2>2. /\ r.call = q.call /\ r.pc = "walk" /\ r.path = q.path /\ r.new = q.new
        /\ r.dp = q.dp /\ r.ip = q.ip /\ r.puts = q.puts /\ r.iput = "start"
        /\ r.file = q.file /\ r.cwd = q.cwd
    BY DEF Looking, Idle, Process
  <2>3. r \in Process
    BY DEF Looking, Idle, Process
  <2> HIDE DEF r
  <2>4. CallInv(r)
    BY <1>2, <2>2, Sets DEF CallInv, Looking, Idle, Prepared
  <2>5. Weighs(r, q.dp, q.ip, q.file, q.cwd, q.puts)
    BY <2>2 DEF Weighs, Weight, IpSlot
  <2>6. Len(r.puts) <= 2
    BY <1>1, <2>2, LenProperties DEF Looking
  <2> QED
    BY <2>1, <2>3, <2>4, <2>5, <2>6 DEF Fits
<1>3. CASE q.path = <<>> /\ IsParent(q)
  <2> DEFINE l == Append(q.puts, q.dp)
  <2>1. Looked(q) = Fail(q, l)
    BY <1>3 DEF Looked
  <2>2. /\ Few(l)
        /\ \A s \in Slot : In(l, s) = In(q.puts, s) + Eq(q.dp, s)
    <3>1. q.dp \in Slot /\ Len(<<>>) = 0
      BY ShortLists DEF Looking
    <3>2. CASE q.puts = <<>>
      <4>1. l = <<q.dp>>
        BY <3>1, <3>2, ShortLists
      <4> HIDE DEF l
      <4>2. /\ l \in Seq(Slot) /\ Len(l) <= 2
            /\ \A s : In(l, s) = Eq(q.dp, s) /\ In(q.puts, s) = 0
        BY <3>1, <3>2, <4>1, ShortLists
      <4> QED
        BY <4>2, EqFacts DEF Few
    <3>3. CASE \E x \in Slot : q.puts = <<x>>
      <4>1. PICK x \in Slot : q.puts = <<x>>
        BY <3>3
      <4>2. l = <<x, q.dp>>
        BY <3>1, <4>1, ShortLists
      <4> HIDE DEF l
      <4>3. /\ l \in Seq(Slot) /\ Len(l) <= 2
            /\ \A s : In(l, s) = Eq(x, s) + Eq(q.dp, s) /\ In(q.puts, s) = Eq(x, s)
        <5>1. /\ <<x, q.dp>> \in Seq(Slot) /\ Len(<<x, q.dp>>) = 2
              /\ \A s : In(<<x, q.dp>>, s) = Eq(x, s) + Eq(q.dp, s)
              /\ \A s : In(<<x>>, s) = Eq(x, s)
          BY <3>1, ShortLists, Zenon
        <5> QED
          BY <4>1, <4>2, <5>1
      <4> QED
        BY <4>3, EqFacts DEF Few
    <3>4. CASE \E x, y \in Slot : q.puts = <<x, y>>
      BY <3>4, ShortLists DEF Looking
    <3>5. Len(q.puts) \in Nat /\ Len(q.puts) <= 1
      BY <1>1, LenProperties DEF Looking
    <3> QED
      BY <1>1, <3>2, <3>3, <3>4, <3>5, IsShort
  <2> HIDE DEF l
  <2>3. Fits(Fail(q, l)) /\ Weighs(Fail(q, l), 0, q.ip, q.file, q.cwd, l)
    BY <2>2, Fails DEF Looking
  <2>4. ASSUME NEW s \in Slot
        PROVE  Weight(Fail(q, l), s) =
                 Eq(q.dp, s) + Eq(q.ip, s) + Eq(q.file, s) + Eq(q.cwd, s) + In(q.puts, s)
    <3>1. Weight(Fail(q, l), s) = Eq(0, s) + Eq(q.ip, s) + Eq(q.file, s) + Eq(q.cwd, s) + In(l, s)
      BY <2>3 DEF Weighs
    <3>2. In(l, s) = In(q.puts, s) + Eq(q.dp, s)
      BY <2>2
    <3> QED
      BY <3>1, <3>2, InNat, EqFacts
  <2> QED
    BY <2>1, <2>3, <2>4 DEF Weighs
<1>4. CASE q.path = <<>> /\ ~ IsParent(q)
  <2> DEFINE r == [q EXCEPT !.ip = q.dp, !.dp = 0,
                            !.pc = IF q.call = "link" THEN "count" ELSE q.call]
  <2>1. Looked(q) = r
    BY <1>4 DEF Looked
  <2>2. q.call \in {"link", "open", "chdir"} /\ q.ip = 0 /\ q.dp # 0
    BY <1>4, Sets DEF IsParent, Looking, Prepared, Idle, Process
  <2>3. /\ r.call = q.call /\ r.path = <<>> /\ r.new = q.new
        /\ r.pc = IF q.call = "link" THEN "count" ELSE q.call
        /\ r.dp = 0 /\ r.ip = q.dp /\ r.puts = q.puts /\ r.iput = "start"
        /\ r.file = q.file /\ r.cwd = q.cwd
    BY <1>4 DEF Looking, Idle, Process
  <2>4. r \in Process
    <3>1. PICK pc : pc = IF q.call = "link" THEN "count" ELSE q.call
      OBVIOUS
    <3>2. pc \in {"count", "open", "chdir"}
      BY <2>2, <3>1
    <3>3. q \in Process /\ q.dp \in Pointer /\ 0 \in Pointer
      BY DEF Looking, Idle, Pointer
    <3>4. r = [q EXCEPT !.ip = q.dp, !.dp = 0, !.pc = pc]
      BY <3>1
    <3> HIDE DEF r
    <3> QED
      BY <3>2, <3>3, <3>4 DEF Process
  <2> HIDE DEF r
  <2>5. CallInv(r)
    BY <1>4, <2>2, <2>3 DEF CallInv, Looking, Idle, Prepared, Pointer
  <2>6. ASSUME NEW s \in Slot
        PROVE  Weight(r, s) =
                 Eq(q.dp, s) + Eq(q.ip, s) + Eq(q.file, s) + Eq(q.cwd, s) + In(q.puts, s)
    <3>1. r.pc # "iget"
      BY <2>2, <2>3
    <3>2. Weight(r, s) = Eq(0, s) + Eq(q.dp, s) + Eq(q.file, s) + Eq(q.cwd, s) + In(q.puts, s)
      BY <2>3, <3>1 DEF Weight, IpSlot
    <3> QED
      BY <2>2, <3>2, EqFacts
  <2>7. Len(r.puts) <= 2
    BY <1>1, <2>3, LenProperties DEF Looking
  <2> QED
    BY <2>1, <2>4, <2>5, <2>6, <2>7 DEF Fits, Weighs
<1> QED
  BY <1>2, <1>3, <1>4

LEMMA Opens ==
  ASSUME NEW q, Idle(q), NEW puts, Few(puts), NEW x \in Slot
  PROVE  /\ Fits([Return(q, puts) EXCEPT !.file = x])
         /\ Weighs([Return(q, puts) EXCEPT !.file = x], 0, 0, x, q.cwd, puts)
         /\ Fits([Return(q, puts) EXCEPT !.cwd = x])
         /\ Weighs([Return(q, puts) EXCEPT !.cwd = x], 0, 0, q.file, x, puts)
<1>1. PICK a : a = [q EXCEPT !.file = x]
  OBVIOUS
<1>2. PICK b : b = [q EXCEPT !.cwd = x]
  OBVIOUS
<1>3. Idle(a) /\ a.file = x /\ a.cwd = q.cwd
  BY <1>1 DEF Idle, Process, Pointer
<1>4. Idle(b) /\ b.file = q.file /\ b.cwd = x
  BY <1>2, Sets DEF Idle, Process, Pointer
<1>5. [Return(q, puts) EXCEPT !.file = x] = Return(a, puts)
  BY <1>1 DEF Return, Idle, Process
<1>6. [Return(q, puts) EXCEPT !.cwd = x] = Return(b, puts)
  BY <1>2 DEF Return, Idle, Process
<1>7. Fits(Return(a, puts)) /\ Weighs(Return(a, puts), 0, 0, x, q.cwd, puts)
  BY <1>3, Returns
<1>8. Fits(Return(b, puts)) /\ Weighs(Return(b, puts), 0, 0, q.file, x, puts)
  BY <1>4, Returns
<1> QED
  BY <1>5, <1>6, <1>7, <1>8

-----------------------------------------------------------------------------
(* Every step preserves the invariant *)

LEMMA Halts == ASSUME TableInv, UNCHANGED <<disk, icache, proc>> PROVE TableInv'
<1>1. \A s : Holders(s)' = Holders(s)
  BY DEF Holders
<1>2. RefsExact'
  BY <1>1 DEF TableInv, RefsExact
<1> QED
  BY <1>2 DEF TableInv

\* The cache as it is, and what a process holds before a step.
LEMMA Now ==
  ASSUME TableInv, NEW p \in Proc
  PROVE  /\ CacheOK(icache) /\ icache \in Caches /\ icache \in Alike(icache) /\ disk \in Disks
         /\ \A s \in Slot : icache[s].ref \in Nat
         /\ Weighs(proc[p], proc[p].dp, IpSlot(proc[p]), proc[p].file, proc[p].cwd,
                   proc[p].puts)
         /\ proc[p].puts = <<>> => /\ proc[p].iput = "start"
                                   /\ proc[p].pc # "iget" => Idle(proc[p])
<1>1. /\ icache \in Caches /\ disk \in Disks /\ proc[p] \in Process /\ CallInv(proc[p])
  BY DEF TableInv
<1>2. CacheOK(icache) /\ icache \in Alike(icache)
  BY <1>1 DEF TableInv, RefsExact, CacheOK, Alike
<1>3. \A s \in Slot : icache[s].ref \in Nat
  BY <1>1 DEF Caches
<1>4. Weighs(proc[p], proc[p].dp, IpSlot(proc[p]), proc[p].file, proc[p].cwd, proc[p].puts)
  BY DEF Weighs, Weight
<1>5. proc[p].puts = <<>> => /\ proc[p].iput = "start"
                             /\ proc[p].pc # "iget" => Idle(proc[p])
  BY <1>1 DEF CallInv, Idle
<1> QED
  BY <1>1, <1>2, <1>3, <1>4, <1>5

\* A step in which a process holds what it held.
LEMMA Steady ==
  ASSUME TableInv, NEW p \in Proc, NEW q, NEW c, NEW d, Go(p, q, c, d),
         Fits(q), c \in Alike(icache), d \in Disks,
         \A s \in Slot : Weight(q, s) = Weight(proc[p], s)
  PROVE  TableInv'
<1>1. CacheOK(icache) /\ \A s \in Slot : icache[s].ref \in Nat
  BY Now
<1>2. CacheOK(c) /\ \A s \in Slot : c[s].ref = icache[s].ref
  BY <1>1, AlikeOK DEF Alike
<1>3. ASSUME NEW s \in Slot
      PROVE  c[s].ref = icache[s].ref + Weight(q, s) - Weight(proc[p], s)
  <2>1. Weight(proc[p], s) \in Nat
    <3>1. \A r \in Proc \ {p} : proc[r] = proc[r]
      OBVIOUS
    <3> QED
      BY <3>1, Recount
  <2> QED
    BY <1>1, <1>2, <2>1
<1> QED
  BY <1>2, <1>3, StepInv

LEMMA CloseInv == ASSUME TableInv, NEW p \in Proc, Close(p) PROVE TableInv'
<1>1. PICK q : q = [proc[p] EXCEPT !.file = 0, !.puts = <<proc[p].file>>]
  OBVIOUS
<1>2. /\ Go(p, q, icache, disk) /\ proc[p].pc = "user" /\ proc[p].puts = <<>>
      /\ proc[p].file # 0
  BY <1>1 DEF Close, At
<1>3. Fits(proc[p]) /\ proc[p].file \in Slot /\ Idle(proc[p])
  BY <1>2, Held, Now DEF Live
<1>4. /\ q.call = proc[p].call /\ q.pc = "user" /\ q.path = proc[p].path
      /\ q.new = proc[p].new /\ q.dp = proc[p].dp /\ q.ip = proc[p].ip
      /\ q.puts = <<proc[p].file>> /\ q.iput = "start" /\ q.file = 0 /\ q.cwd = proc[p].cwd
  BY <1>1, <1>2, <1>3 DEF Idle, Process
<1>5. q \in Process
  BY <1>1, <1>3, ShortLists DEF Idle, Process, Pointer
<1>6. Fits(q)
  BY <1>2, <1>3, <1>4, <1>5, ShortLists DEF Fits, CallInv
<1>7. ASSUME NEW s \in Slot PROVE Weight(q, s) = Weight(proc[p], s)
  <2>1. /\ Weight(q, s) = Eq(proc[p].dp, s) + Eq(proc[p].ip, s) + Eq(0, s)
                          + Eq(proc[p].cwd, s) + In(<<proc[p].file>>, s)
        /\ Weight(proc[p], s) = Eq(proc[p].dp, s) + Eq(proc[p].ip, s) + Eq(proc[p].file, s)
                                + Eq(proc[p].cwd, s) + In(<<>>, s)
    BY <1>2, <1>4 DEF Weight, IpSlot
  <2>2. In(<<>>, s) = 0 /\ In(<<proc[p].file>>, s) = Eq(proc[p].file, s)
    BY <1>3, ShortLists
  <2> QED
    BY <2>1, <2>2, EqFacts
<1> QED
  BY <1>2, <1>6, <1>7, Now, Steady

\* iput() gives back one reference, and the process holds the inode no longer.
LEMMA Puts ==
  ASSUME TableInv, NEW p \in Proc, proc[p].puts # <<>>, NEW c \in Alike(icache), NEW d \in Disks,
         Go(p, Put(proc[p]), Unreferenced(c, Head(proc[p].puts)), d)
  PROVE  TableInv'
<1> DEFINE q == Put(proc[p])
           t == Head(proc[p].puts)
           l == proc[p].puts
<1>1. /\ Fits(proc[p]) /\ t \in Slot /\ icache[t].ref > 0
      /\ CacheOK(icache) /\ \A s \in Slot : icache[s].ref \in Nat
  BY Held, Now DEF Live
<1>2. l \in Seq(Slot) /\ Len(l) <= 2
  BY <1>1 DEF Fits, Process
<1>3. /\ Tail(l) \in Seq(Slot) /\ Len(Tail(l)) <= 2
      /\ \A s : In(l, s) = Eq(t, s) + In(Tail(l), s)
  <2>1. CASE \E x \in Slot : l = <<x>>
    <3>1. PICK x \in Slot : l = <<x>>
      BY <2>1
    <3>2. /\ Head(<<x>>) = x /\ Tail(<<x>>) = <<>>
          /\ \A s : In(<<x>>, s) = Eq(x, s) /\ In(<<>>, s) = 0
          /\ <<>> \in Seq(Slot) /\ Len(<<>>) = 0
      BY ShortLists, Zenon
    <3> QED
      BY <3>1, <3>2, EqFacts
  <2>2. CASE \E x, y \in Slot : l = <<x, y>>
    <3>1. PICK x \in Slot : \E y \in Slot : l = <<x, y>>
      BY <2>2
    <3>2. PICK y \in Slot : l = <<x, y>>
      BY <3>1
    <3>3. /\ Head(<<x, y>>) = x /\ Tail(<<x, y>>) = <<y>>
          /\ \A s : In(<<x, y>>, s) = Eq(x, s) + Eq(y, s) /\ In(<<y>>, s) = Eq(y, s)
          /\ <<y>> \in Seq(Slot) /\ Len(<<y>>) = 1
      BY ShortLists, Zenon
    <3> QED
      BY <3>2, <3>3
  <2> QED
    BY <1>2, <2>1, <2>2, IsShort
<1>4. /\ q.call = proc[p].call /\ q.pc = proc[p].pc /\ q.path = proc[p].path
      /\ q.new = proc[p].new /\ q.dp = proc[p].dp /\ q.ip = proc[p].ip
      /\ q.puts = Tail(l) /\ q.iput = "start" /\ q.file = proc[p].file
      /\ q.cwd = proc[p].cwd
  BY <1>1 DEF Put, Fits, Process
<1>5. q \in Process
  BY <1>1, <1>3 DEF Put, Fits, Process
<1> HIDE DEF q, l
<1>6. CallInv(q)
  BY <1>1, <1>4 DEF Fits, CallInv, IsParent
<1>7. ASSUME NEW s \in Slot PROVE Weight(proc[p], s) = Weight(q, s) + Eq(t, s)
  <2>1. /\ Weight(q, s) = Eq(proc[p].dp, s) + Eq(IpSlot(proc[p]), s) + Eq(proc[p].file, s)
                          + Eq(proc[p].cwd, s) + In(Tail(l), s)
        /\ Weight(proc[p], s) = Eq(proc[p].dp, s) + Eq(IpSlot(proc[p]), s)
                                + Eq(proc[p].file, s) + Eq(proc[p].cwd, s) + In(l, s)
    BY <1>4 DEF Weight, IpSlot, l
  <2>2. Weight(q, s) \in Nat
    BY <2>1, EqFacts, InNat
  <2> QED
    BY <1>3, <2>1, <2>2, EqFacts, InNat
<1>8. CacheOK(c) /\ c[t].ref > 0 /\ \A s \in Slot : c[s].ref = icache[s].ref
  BY <1>1, AlikeOK DEF Alike
<1>9. CacheOK(Unreferenced(c, t))
  BY <1>1, <1>8, Counted
<1>10. ASSUME NEW s \in Slot
       PROVE  Unreferenced(c, t)[s].ref = icache[s].ref + Weight(q, s) - Weight(proc[p], s)
  <2>1. Unreferenced(c, t)[s].ref = icache[s].ref - Eq(t, s)
    BY <1>1, <1>8, Counted
  <2>2. Weight(q, s) \in Nat
    BY EqFacts, InNat DEF Weight
  <2> QED
    BY <1>1, <1>7, <2>1, <2>2, EqFacts
<1>11. Go(p, q, Unreferenced(c, t), d) /\ Fits(q)
  BY <1>3, <1>4, <1>5, <1>6 DEF Fits, q
<1> QED
  BY <1>9, <1>10, <1>11, StepInv

LEMMA IputMoves ==
  ASSUME NEW q, Fits(q), q.puts # <<>>, NEW x \in {"free", "forget"}
  PROVE  /\ Fits([q EXCEPT !.iput = x])
         /\ \A s \in Slot : Weight([q EXCEPT !.iput = x], s) = Weight(q, s)
<1> DEFINE r == [q EXCEPT !.iput = x]
<1>1. /\ r.call = q.call /\ r.pc = q.pc /\ r.path = q.path
      /\ r.new = q.new /\ r.dp = q.dp /\ r.ip = q.ip
      /\ r.puts = q.puts /\ r.iput = x /\ r.file = q.file /\ r.cwd = q.cwd
  BY DEF Fits, Process
<1>2. r \in Process
  BY DEF Fits, Process
<1> HIDE DEF r
<1>3. CallInv(r)
  BY <1>1 DEF Fits, CallInv, IsParent
<1>4. \A s \in Slot : Weight(r, s) = Weight(q, s)
  BY <1>1 DEF Weight, IpSlot
<1>5. Fits(r)
  BY <1>1, <1>2, <1>3 DEF Fits
<1> QED
  BY <1>4, <1>5 DEF r

LEMMA IputInv == ASSUME TableInv, NEW p \in Proc, Iput(p) PROVE TableInv'
<1> DEFINE s == Head(proc[p].puts)
<1>1. proc[p].puts # <<>> /\ Fits(proc[p]) /\ Live(s) /\ icache \in Alike(icache)
      /\ icache \in Caches /\ disk \in Disks
  BY Held, Now DEF Iput
<1>2. CASE ~ Dead(icache, s)
  BY <1>1, <1>2, Puts DEF Iput
<1>3. CASE Dead(icache, s) /\ icache[s].busy # NoProc
  BY <1>3, Halts DEF Iput, Panic
<1>4. CASE Dead(icache, s) /\ icache[s].busy = NoProc
  <2>1. PICK q : q = [proc[p] EXCEPT !.iput = "free"]
    OBVIOUS
  <2>2. Go(p, q, [icache EXCEPT ![s].busy = p], disk)
    BY <1>4, <2>1 DEF Iput
  <2>3. [icache EXCEPT ![s].busy = p] \in Alike(icache)
    BY <1>1, Edited, Sets DEF Live
  <2>4. Fits(q) /\ \A r \in Slot : Weight(q, r) = Weight(proc[p], r)
    BY <1>1, <2>1, IputMoves
  <2> QED
    BY <1>1, <2>2, <2>3, <2>4, Steady
<1> QED
  BY <1>2, <1>3, <1>4

LEMMA IputFreeInv == ASSUME TableInv, NEW p \in Proc, IputFree(p) PROVE TableInv'
<1> DEFINE s == Head(proc[p].puts)
           c == [icache EXCEPT ![s].type = "free"]
           d == [disk EXCEPT ![icache[s].inum].entries = NoEntries]
<1>1. /\ proc[p].puts # <<>> /\ Fits(proc[p]) /\ Live(s) /\ icache \in Alike(icache)
      /\ icache \in Caches /\ disk \in Disks
  BY Held, Now, Zenon DEF IputFree, Fits, CallInv
<1>2. PICK q : q = [proc[p] EXCEPT !.iput = "forget"]
  OBVIOUS
<1>3. Fits(q) /\ \A r \in Slot : Weight(q, r) = Weight(proc[p], r)
  BY <1>1, <1>2, IputMoves
<1>4. c \in Alike(icache) /\ d \in Disks
  BY <1>1, Edited, Written, Sets DEF Live
<1>5. c \in Caches /\ c[s].inum # 0
  BY <1>1, <1>4, Sets DEF Alike, Live
<1>6. Iupdate(d, c, s) \in Disks
  BY <1>1, <1>4, <1>5, Written DEF Live
<1>7. Go(p, q, c, Iupdate(d, c, s))
  BY <1>2, Zenon DEF IputFree
<1> HIDE DEF c, d
<1> QED
  BY <1>3, <1>4, <1>6, <1>7, Steady

LEMMA IputForgetInv == ASSUME TableInv, NEW p \in Proc, IputForget(p) PROVE TableInv'
<1> DEFINE s == Head(proc[p].puts)
           c == [icache EXCEPT ![s].valid = FALSE, ![s].busy = NoProc]
<1>1. /\ proc[p].puts # <<>> /\ Live(s) /\ icache \in Caches /\ disk \in Disks
  BY Held, Now DEF IputForget, Fits, CallInv
<1>2. c \in Alike(icache)
  BY <1>1, Edited, Sets DEF Live
<1>3. Go(p, Put(proc[p]), Unreferenced(c, s), disk)
  BY DEF IputForget
<1> HIDE DEF c
<1> QED
  BY <1>1, <1>2, <1>3, Puts

\* A lookup comes to the directory q.dp, which c has got.
LEMMA Enters ==
  ASSUME TableInv, NEW p \in Proc, NEW q, Looking(q), NEW c, CacheOK(c),
         Go(p, Looked(q), c, disk),
         \A s \in Slot : c[s].ref = icache[s].ref + Eq(q.dp, s),
         \A s \in Slot :
           Weight(proc[p], s) = Eq(q.ip, s) + Eq(q.file, s) + Eq(q.cwd, s) + In(q.puts, s)
  PROVE  TableInv'
<1>1. Fits(Looked(q)) /\ Weighs(Looked(q), q.dp, q.ip, q.file, q.cwd, q.puts)
  BY Looks
<1>2. disk \in Disks /\ \A s \in Slot : icache[s].ref \in Nat
  BY Now
<1>3. ASSUME NEW s \in Slot
      PROVE  c[s].ref = icache[s].ref + Weight(Looked(q), s) - Weight(proc[p], s)
  <2>1. Weight(Looked(q), s) =
          Eq(q.dp, s) + Eq(q.ip, s) + Eq(q.file, s) + Eq(q.cwd, s) + In(q.puts, s)
    BY <1>1 DEF Weighs
  <2>2. Weight(proc[p], s) = Eq(q.ip, s) + Eq(q.file, s) + Eq(q.cwd, s) + In(q.puts, s)
    OBVIOUS
  <2> QED
    BY <1>2, <2>1, <2>2, EqFacts, InNat
<1> QED
  BY <1>1, <1>2, <1>3, StepInv

LEMMA StartWalkInv ==
  ASSUME TableInv, NEW p \in Proc, NEW q, NEW path \in Path, StartWalk(p, q, path),
         path # <<>>, \A i \in 2 .. Len(path) : path[i] # "/",
         Idle(q), Prepared(q), q.puts = <<>>, q.call # "none", Live(q.cwd),
         q.call = "link" /\ q.ip = 0 => q.new # <<>>,
         q.call \in {"creat", "open"} => q.file = 0,
         \A s \in Slot : Weight(proc[p], s) = Eq(q.ip, s) + Eq(q.file, s) + Eq(q.cwd, s)
  PROVE  TableInv'
<1>1. CacheOK(icache)
  BY Now
<1>2. ASSUME NEW s \in Slot
      PROVE  Weight(proc[p], s) =
               Eq(q.ip, s) + Eq(q.file, s) + Eq(q.cwd, s) + In(q.puts, s)
  <2>1. In(q.puts, s) = 0
    BY ShortLists
  <2> QED
    BY <2>1, EqFacts
<1>3. Len(q.puts) <= 1
  BY ShortLists
<1>4. CASE Head(path) = "/" /\ SlotsFor(icache, ROOTINO) = {}
  BY <1>4, Halts DEF StartWalk, Getting, Panic
<1>5. CASE Head(path) = "/" /\ SlotsFor(icache, ROOTINO) # {}
  <2>1. PICK r : r = [q EXCEPT !.dp = SlotOf(icache, ROOTINO), !.path = Tail(path)]
    OBVIOUS
  <2>2. /\ SlotOf(icache, ROOTINO) \in Slot /\ CacheOK(Iget(icache, ROOTINO))
        /\ \A s \in Slot : Iget(icache, ROOTINO)[s].ref =
             icache[s].ref + Eq(SlotOf(icache, ROOTINO), s)
    BY <1>1, <1>5, Sets, Got
  <2>3. /\ Tail(path) \in Path /\ \A i \in 1 .. Len(Tail(path)) : Tail(path)[i] # "/"
    <3>1. /\ Tail(path) \in Path /\ Len(Tail(path)) = Len(path) - 1 /\ Len(path) \in Nat
          /\ \A i \in 1 .. Len(Tail(path)) : Tail(path)[i] = path[i + 1]
      BY HeadTailProperties, LenProperties DEF Path
    <3>2. \A i \in 1 .. Len(path) - 1 : i + 1 \in 2 .. Len(path)
      BY <3>1
    <3> QED
      BY <3>1, <3>2
  <2>4. /\ r.call = q.call /\ r.path = Tail(path) /\ r.new = q.new
        /\ r.dp = SlotOf(icache, ROOTINO) /\ r.ip = q.ip /\ r.puts = q.puts
        /\ r.iput = "start" /\ r.file = q.file /\ r.cwd = q.cwd /\ r.pc = q.pc
    BY <2>1 DEF Idle, Process
  <2>5. r \in Process
    BY <2>1, <2>2, <2>3 DEF Idle, Process, Pointer
  <2>6. Looking(r)
    BY <1>3, <2>2, <2>3, <2>4, <2>5 DEF Looking, Idle, Prepared
  <2>7. Go(p, Looked(r), Iget(icache, ROOTINO), disk)
    BY <1>5, <2>1 DEF StartWalk, Getting
  <2>8. \A s \in Slot : Iget(icache, ROOTINO)[s].ref = icache[s].ref + Eq(r.dp, s)
    BY <2>2, <2>4
  <2>9. \A s \in Slot :
          Weight(proc[p], s) = Eq(r.ip, s) + Eq(r.file, s) + Eq(r.cwd, s) + In(r.puts, s)
    BY <1>2, <2>4
  <2> QED
    BY <2>2, <2>6, <2>7, <2>8, <2>9, Enters
<1>6. CASE Head(path) # "/"
  <2>1. PICK r : r = [q EXCEPT !.dp = q.cwd, !.path = path]
    OBVIOUS
  <2>2. /\ q.cwd \in Slot /\ CacheOK(Idup(icache, q.cwd))
        /\ \A s \in Slot : Idup(icache, q.cwd)[s].ref = icache[s].ref + Eq(q.cwd, s)
    BY <1>1, Counted DEF Live
  <2>3. \A i \in 1 .. Len(path) : path[i] # "/"
    <3>1. Head(path) = path[1] /\ Len(path) \in Nat
      BY LenProperties DEF Path
    <3> QED
      BY <1>6, <3>1
  <2>4. /\ r.call = q.call /\ r.path = path /\ r.new = q.new
        /\ r.dp = q.cwd /\ r.ip = q.ip /\ r.puts = q.puts
        /\ r.iput = "start" /\ r.file = q.file /\ r.cwd = q.cwd /\ r.pc = q.pc
    BY <2>1 DEF Idle, Process
  <2>5. r \in Process
    BY <2>1, <2>2 DEF Idle, Process, Pointer
  <2>6. Looking(r)
    BY <1>3, <2>2, <2>3, <2>4, <2>5 DEF Looking, Idle, Prepared
  <2>7. Go(p, Looked(r), Idup(icache, q.cwd), disk)
    BY <1>6, <2>1 DEF StartWalk
  <2>8. \A s \in Slot : Idup(icache, q.cwd)[s].ref = icache[s].ref + Eq(r.dp, s)
    BY <2>2, <2>4
  <2>9. \A s \in Slot :
          Weight(proc[p], s) = Eq(r.ip, s) + Eq(r.file, s) + Eq(r.cwd, s) + In(r.puts, s)
    BY <1>2, <2>4
  <2> QED
    BY <2>2, <2>6, <2>7, <2>8, <2>9, Enters
<1> QED
  BY <1>4, <1>5, <1>6

LEMMA CallStepInv == ASSUME TableInv, NEW p \in Proc, Call(p) PROVE TableInv'
<1>1. PICK c \in Calls :
        /\ At(p, "user")
        /\ c.call \in {"creat", "open"} => proc[p].file = 0
        /\ StartWalk(p, [proc[p] EXCEPT !.call = c.call, !.new = c.new], c.path)
  BY DEF Call
<1>2. PICK q : q = [proc[p] EXCEPT !.call = c.call, !.new = c.new]
  OBVIOUS
<1>3. /\ c.call \in {"creat", "mkdir", "link", "unlink", "open", "chdir"}
      /\ c.path \in Path /\ c.path # <<>> /\ c.new \in Path
      /\ c.call = "link" => c.new # <<>>
      /\ \A i \in 2 .. Len(c.path) : c.path[i] # "/"
      /\ \A i \in 2 .. Len(c.new) : c.new[i] # "/"
  BY <1>1, FileSystemAssumption DEF FileSystemAssumption
<1>4. /\ Fits(proc[p]) /\ Live(proc[p].cwd) /\ proc[p].pc = "user" /\ proc[p].puts = <<>>
      /\ Idle(proc[p])
  BY <1>1, Held, Now DEF At
<1>5. /\ q.call = c.call /\ q.pc = "user" /\ q.path = proc[p].path /\ q.new = c.new
      /\ q.dp = proc[p].dp /\ q.ip = 0 /\ q.puts = <<>> /\ q.iput = "start"
      /\ q.file = proc[p].file /\ q.cwd = proc[p].cwd /\ proc[p].dp = 0 /\ proc[p].ip = 0
  BY <1>2, <1>4 DEF Idle, Process, Fits, CallInv
<1>6. q \in Process
  BY <1>2, <1>3, <1>4 DEF Idle, Process
<1>7. Idle(q) /\ Prepared(q)
  BY <1>3, <1>4, <1>5, <1>6 DEF Idle, Prepared, Pointer
<1>8. ASSUME NEW s \in Slot
      PROVE  Weight(proc[p], s) = Eq(q.ip, s) + Eq(q.file, s) + Eq(q.cwd, s)
  <2>1. Weight(proc[p], s) =
          Eq(0, s) + Eq(0, s) + Eq(q.file, s) + Eq(q.cwd, s) + In(<<>>, s)
    BY <1>4, <1>5 DEF Weight, IpSlot
  <2>2. In(<<>>, s) = 0 /\ Eq(q.ip, s) = 0 /\ Eq(0, s) = 0
    BY <1>5, ShortLists, EqFacts
  <2> QED
    BY <2>1, <2>2, EqFacts
<1>9. StartWalk(p, q, c.path)
  BY <1>1, <1>2
<1> QED
  BY <1>1, <1>3, <1>4, <1>5, <1>7, <1>8, <1>9, StartWalkInv

LEMMA Lists ==
  /\ Few(<<>>) /\ \A s : In(<<>>, s) = 0
  /\ \A x \in Slot : Few(<<x>>) /\ \A s : In(<<x>>, s) = Eq(x, s)
  /\ \A x, y \in Slot : Few(<<x, y>>) /\ \A s : In(<<x, y>>, s) = Eq(x, s) + Eq(y, s)
<1>1. Few(<<>>) /\ \A s : In(<<>>, s) = 0
  BY ShortLists DEF Few
<1>2. ASSUME NEW x \in Slot PROVE Few(<<x>>) /\ \A s : In(<<x>>, s) = Eq(x, s)
  BY ShortLists DEF Few
<1>3. ASSUME NEW x \in Slot, NEW y \in Slot
      PROVE  Few(<<x, y>>) /\ \A s : In(<<x, y>>, s) = Eq(x, s) + Eq(y, s)
  <2>1. <<x, y>> \in Seq(Slot) /\ Len(<<x, y>>) = 2
    BY ShortLists, Zenon
  <2>2. \A s : In(<<x, y>>, s) = Eq(x, s) + Eq(y, s)
    BY ShortLists, Zenon
  <2> QED
    BY <2>1, <2>2 DEF Few
<1> QED
  BY <1>1, <1>2, <1>3

\* What a process holds that has nothing left to put.
LEMMA NowAt ==
  ASSUME TableInv, NEW p \in Proc, proc[p].puts = <<>>, proc[p].pc # "iget"
  PROVE  /\ Idle(proc[p])
         /\ \A s \in Slot : Weight(proc[p], s) =
              Eq(proc[p].dp, s) + Eq(proc[p].ip, s) + Eq(proc[p].file, s) + Eq(proc[p].cwd, s)
<1>1. Idle(proc[p])
  BY Now
<1>2. ASSUME NEW s \in Slot
      PROVE  Weight(proc[p], s) =
               Eq(proc[p].dp, s) + Eq(proc[p].ip, s) + Eq(proc[p].file, s) + Eq(proc[p].cwd, s)
  <2>1. Weight(proc[p], s) = Eq(proc[p].dp, s) + Eq(proc[p].ip, s) + Eq(proc[p].file, s)
                             + Eq(proc[p].cwd, s) + In(<<>>, s)
    BY DEF Weight, IpSlot
  <2> QED
    BY <2>1, Lists, EqFacts
<1> QED
  BY <1>1, <1>2

\* The call is over: its inodes are to be put.
LEMMA Ends ==
  ASSUME TableInv, NEW p \in Proc, proc[p].puts = <<>>, proc[p].pc # "iget",
         NEW l, Few(l), \A s \in Slot : In(l, s) = Eq(proc[p].dp, s) + Eq(proc[p].ip, s),
         NEW c \in Alike(icache), NEW d \in Disks, Go(p, Return(proc[p], l), c, d)
  PROVE  TableInv'
<1>1. /\ Fits(Return(proc[p], l))
      /\ Weighs(Return(proc[p], l), 0, 0, proc[p].file, proc[p].cwd, l)
  BY NowAt, Returns
<1>2. ASSUME NEW s \in Slot PROVE Weight(Return(proc[p], l), s) = Weight(proc[p], s)
  <2>1. Weight(Return(proc[p], l), s) =
          Eq(0, s) + Eq(0, s) + Eq(proc[p].file, s) + Eq(proc[p].cwd, s) + In(l, s)
    BY <1>1 DEF Weighs
  <2>2. Weight(proc[p], s) =
          Eq(proc[p].dp, s) + Eq(proc[p].ip, s) + Eq(proc[p].file, s) + Eq(proc[p].cwd, s)
    BY NowAt
  <2>3. In(l, s) = Eq(proc[p].dp, s) + Eq(proc[p].ip, s) /\ Eq(0, s) = 0
    BY EqFacts
  <2> QED
    BY <2>1, <2>2, <2>3, EqFacts
<1> QED
  BY <1>1, <1>2, Steady

\* The lookup fails: the directory is to be put.
LEMMA FailsNow ==
  ASSUME TableInv, NEW p \in Proc, proc[p].puts = <<>>, proc[p].pc \in {"walk", "parent"},
         NEW c \in Alike(icache), NEW d \in Disks, Go(p, Fail(proc[p], <<proc[p].dp>>), c, d)
  PROVE  TableInv'
<1>1. /\ Fits(proc[p]) /\ Idle(proc[p]) /\ proc[p].dp \in Slot
  BY Held, NowAt DEF Fits, CallInv, Live
<1>2. Prepared(proc[p])
  BY <1>1 DEF Fits, CallInv, Prepared
<1> DEFINE l == <<proc[p].dp>>
<1>3. Few(l) /\ \A s : In(l, s) = Eq(proc[p].dp, s)
  BY <1>1, Lists
<1> HIDE DEF l
<1>4. /\ Fits(Fail(proc[p], l))
      /\ Weighs(Fail(proc[p], l), 0, proc[p].ip, proc[p].file, proc[p].cwd, l)
  BY <1>1, <1>2, <1>3, Fails
<1>5. ASSUME NEW s \in Slot PROVE Weight(Fail(proc[p], l), s) = Weight(proc[p], s)
  <2>1. Weight(Fail(proc[p], l), s) =
          Eq(0, s) + Eq(proc[p].ip, s) + Eq(proc[p].file, s) + Eq(proc[p].cwd, s) + In(l, s)
    BY <1>4 DEF Weighs
  <2>2. Weight(proc[p], s) =
          Eq(proc[p].dp, s) + Eq(proc[p].ip, s) + Eq(proc[p].file, s) + Eq(proc[p].cwd, s)
    BY NowAt
  <2> QED
    BY <1>3, <2>1, <2>2, EqFacts
<1>6. Go(p, Fail(proc[p], l), c, d)
  BY DEF l
<1> QED
  BY <1>4, <1>5, <1>6, Steady

LEMMA LinkAgainInv == ASSUME TableInv, NEW p \in Proc, LinkAgain(p) PROVE TableInv'
<1>1. PICK q : q = [proc[p] EXCEPT !.new = <<>>]
  OBVIOUS
<1>2. /\ Fits(proc[p]) /\ Live(proc[p].cwd) /\ proc[p].pc = "again" /\ proc[p].puts = <<>>
      /\ Idle(proc[p])
  BY Held, Now DEF At, LinkAgain
<1>3. <<>> \in Path /\ Len(<<>>) = 0
  BY EmptySeq DEF Path
<1>4. /\ q.call = "link" /\ q.pc = "again" /\ q.new = <<>>
      /\ q.ip = proc[p].ip /\ q.puts = <<>> /\ q.iput = "start"
      /\ q.file = proc[p].file /\ q.cwd = proc[p].cwd /\ proc[p].dp = 0
      /\ proc[p].ip # 0 /\ proc[p].ip \in Pointer
  BY <1>1, <1>2 DEF Idle, Process, Fits, CallInv
<1>5. q \in Process
  BY <1>1, <1>2, <1>3 DEF Idle, Process
<1>6. Idle(q) /\ Prepared(q)
  BY <1>2, <1>3, <1>4, <1>5 DEF Idle, Prepared
<1>7. ASSUME NEW s \in Slot
      PROVE  Weight(proc[p], s) = Eq(q.ip, s) + Eq(q.file, s) + Eq(q.cwd, s)
  <2>1. Weight(proc[p], s) = Eq(0, s) + Eq(q.ip, s) + Eq(q.file, s) + Eq(q.cwd, s)
    BY <1>2, <1>4, NowAt
  <2> QED
    BY <2>1, EqFacts
<1>8. /\ StartWalk(p, q, proc[p].new) /\ proc[p].new \in Path /\ proc[p].new # <<>>
      /\ \A i \in 2 .. Len(proc[p].new) : proc[p].new[i] # "/"
  BY <1>1, <1>2 DEF LinkAgain, Fits, CallInv, Process
<1> QED
  BY <1>2, <1>4, <1>6, <1>7, <1>8, StartWalkInv

LEMMA WalkInv == ASSUME TableInv, NEW p \in Proc, Walk(p) PROVE TableInv'
<1> DEFINE q == proc[p]
           s == q.dp
           here == Ilock(icache, s, NoProc)
           child == Entry(s, Head(q.path))
<1>1. /\ q.pc = "walk" /\ q.puts = <<>> /\ Fits(q) /\ Idle(q) /\ q.path # <<>>
      /\ Live(s)
  BY Held, NowAt DEF Walk, At, Fits, CallInv
<1>2. /\ CacheOK(icache) /\ icache \in Caches /\ disk \in Disks /\ icache \in Alike(icache)
  BY Now
<1>3. here \in Alike(icache) /\ CacheOK(here)
  <2>1. here \in Alike(icache)
    BY <1>1, <1>2, Edited, Sets DEF Live
  <2> QED
    BY <1>2, <2>1, AlikeOK
<1>4. /\ Head(q.path) \in Name \cup {".."} /\ Tail(q.path) \in Path
      /\ \A i \in 1 .. Len(Tail(q.path)) : Tail(q.path)[i] # "/"
  BY <1>1, PathParts DEF Fits, CallInv, Process
<1>5. child \in Inum \cup {0}
  BY <1>1, <1>2, <1>4 DEF Live, Entry, Disks
<1> HIDE DEF here, child
<1>6. \/ UNCHANGED <<disk, icache, proc>>
      \/ Go(p, Fail(q, <<s>>), here, disk)
      \/ IsParent(q) /\ Go(p, [q EXCEPT !.pc = "parent"], here, disk)
      \/ /\ child # 0 /\ SlotsFor(here, child) # {}
         /\ Go(p, Looked([q EXCEPT !.dp = SlotOf(here, child), !.path = Tail(@),
                                   !.puts = <<s>>]), Iget(here, child), disk)
  BY DEF Walk, Locking, Getting, Panic, here, child
<1>7. CASE UNCHANGED <<disk, icache, proc>>
  BY <1>7, Halts
<1>8. CASE Go(p, Fail(q, <<s>>), here, disk)
  BY <1>1, <1>2, <1>3, <1>8, FailsNow
<1>9. CASE IsParent(q) /\ Go(p, [q EXCEPT !.pc = "parent"], here, disk)
  <2>1. PICK r : r = [q EXCEPT !.pc = "parent"]
    OBVIOUS
  <2>2. /\ r.call = q.call /\ r.pc = "parent" /\ r.path = q.path /\ r.new = q.new
        /\ r.dp = q.dp /\ r.ip = q.ip /\ r.puts = q.puts /\ r.iput = q.iput
        /\ r.file = q.file /\ r.cwd = q.cwd
    BY <1>1, <2>1 DEF Idle, Process
  <2>3. r \in Process
    BY <1>1, <2>1 DEF Idle, Process
  <2>4. CallInv(r)
    BY <1>1, <1>9, <2>2 DEF Fits, CallInv, IsParent
  <2>5. Fits(r) /\ \A t \in Slot : Weight(r, t) = Weight(q, t)
    BY <1>1, <2>2, <2>3, <2>4 DEF Fits, Weight, IpSlot
  <2>6. Go(p, r, here, disk)
    BY <1>9, <2>1
  <2> QED
    BY <1>2, <1>3, <2>5, <2>6, Steady
<1>10. CASE /\ child # 0 /\ SlotsFor(here, child) # {}
            /\ Go(p, Looked([q EXCEPT !.dp = SlotOf(here, child), !.path = Tail(@),
                                      !.puts = <<s>>]), Iget(here, child), disk)
  <2> DEFINE t == SlotOf(here, child)
  <2>1. PICK r : r = [q EXCEPT !.dp = t, !.path = Tail(q.path), !.puts = <<s>>]
    OBVIOUS
  <2>2. /\ t \in Slot /\ CacheOK(Iget(here, child))
        /\ \A k \in Slot : Iget(here, child)[k].ref = here[k].ref + Eq(t, k)
    BY <1>3, <1>5, <1>10, Got
  <2>3. \A k \in Slot : here[k].ref = icache[k].ref
    BY <1>3 DEF Alike
  <2>4. <<s>> \in Seq(Slot) /\ Len(<<s>>) = 1 /\ \A k : In(<<s>>, k) = Eq(s, k)
    BY <1>1, ShortLists DEF Live
  <2>5. Go(p, Looked(r), Iget(here, child), disk)
    BY <1>10, <2>1
  <2> HIDE DEF t
  <2>6. /\ r.call = q.call /\ r.pc = "walk" /\ r.path = Tail(q.path) /\ r.new = q.new
        /\ r.dp = t /\ r.ip = q.ip /\ r.puts = <<s>> /\ r.iput = "start"
        /\ r.file = q.file /\ r.cwd = q.cwd
    BY <1>1, <2>1 DEF Idle, Process
  <2>7. r \in Process
    BY <1>1, <1>4, <2>1, <2>2, <2>4 DEF Idle, Process, Pointer
  <2>8. Looking(r)
    BY <1>1, <1>4, <2>2, <2>4, <2>6, <2>7 DEF Looking, Idle, Prepared, Fits, CallInv
  <2>9. \A k \in Slot : Iget(here, child)[k].ref = icache[k].ref + Eq(r.dp, k)
    BY <2>2, <2>3, <2>6
  <2>10. ASSUME NEW k \in Slot
         PROVE  Weight(q, k) = Eq(r.ip, k) + Eq(r.file, k) + Eq(r.cwd, k) + In(r.puts, k)
    <3>1. Weight(q, k) = Eq(s, k) + Eq(q.ip, k) + Eq(q.file, k) + Eq(q.cwd, k)
      BY <1>1, NowAt
    <3>2. In(r.puts, k) = Eq(s, k)
      BY <2>4, <2>6
    <3> QED
      BY <2>6, <3>1, <3>2, EqFacts
  <2> QED
    BY <2>2, <2>5, <2>8, <2>9, <2>10, Enters
<1> QED
  BY <1>6, <1>7, <1>8, <1>9, <1>10

LEMMA AlikeTrans ==
  ASSUME NEW c, NEW e \in Alike(c), NEW f \in Alike(e) PROVE f \in Alike(c)
BY DEF Alike

\* A step within a call: what was held in dp and ip still is, or is to be put.
LEMMA Moves ==
  ASSUME TableInv, NEW p \in Proc, proc[p].puts = <<>>, proc[p].pc # "iget",
         NEW q \in Process, CallInv(q), Few(q.puts), q.pc # "iget",
         q.file = proc[p].file, q.cwd = proc[p].cwd,
         \A s \in Slot : Eq(q.dp, s) + Eq(q.ip, s) + In(q.puts, s) =
                           Eq(proc[p].dp, s) + Eq(proc[p].ip, s),
         NEW c \in Alike(icache), NEW d \in Disks, Go(p, q, c, d)
  PROVE  TableInv'
<1>1. Fits(q)
  BY DEF Fits, Few
<1>2. ASSUME NEW s \in Slot PROVE Weight(q, s) = Weight(proc[p], s)
  <2>1. Weight(q, s) = Eq(q.dp, s) + Eq(q.ip, s) + Eq(proc[p].file, s)
                       + Eq(proc[p].cwd, s) + In(q.puts, s)
    BY DEF Weight, IpSlot
  <2>2. Weight(proc[p], s) =
          Eq(proc[p].dp, s) + Eq(proc[p].ip, s) + Eq(proc[p].file, s) + Eq(proc[p].cwd, s)
    BY NowAt
  <2>3. Eq(q.dp, s) + Eq(q.ip, s) + In(q.puts, s) =
          Eq(proc[p].dp, s) + Eq(proc[p].ip, s)
    OBVIOUS
  <2> QED
    BY <2>1, <2>2, <2>3, EqFacts, InNat
<1> QED
  BY <1>1, <1>2, Steady

\* open() has its inode.
LEMMA OpenStep ==
  ASSUME TableInv, NEW p \in Proc, proc[p].puts = <<>>, proc[p].pc # "iget",
         proc[p].file = 0, proc[p].dp = 0, proc[p].ip \in Slot,
         NEW c \in Alike(icache), NEW d \in Disks, Open(p, proc[p], c, d)
  PROVE  TableInv'
<1> DEFINE q == proc[p]
<1>1. /\ Idle(q)
      /\ \A s \in Slot : Weight(q, s) = Eq(q.dp, s) + Eq(q.ip, s) + Eq(q.file, s) + Eq(q.cwd, s)
  BY NowAt
<1>2. CASE Go(p, [Return(q, <<>>) EXCEPT !.file = q.ip], c, d)
  <2>1. PICK r : r = [Return(q, <<>>) EXCEPT !.file = q.ip]
    OBVIOUS
  <2>2. Few(<<>>)
    BY Lists
  <2>3. Fits(r) /\ Weighs(r, 0, 0, q.ip, q.cwd, <<>>)
    BY <1>1, <2>1, <2>2, Opens
  <2>4. ASSUME NEW s \in Slot PROVE Weight(r, s) = Weight(q, s)
    <3>1. Weight(r, s) = Eq(0, s) + Eq(0, s) + Eq(q.ip, s) + Eq(q.cwd, s) + In(<<>>, s)
      BY <2>3 DEF Weighs
    <3>2. Weight(q, s) = Eq(0, s) + Eq(q.ip, s) + Eq(0, s) + Eq(q.cwd, s)
      BY <1>1
    <3> QED
      BY <3>1, <3>2, Lists, EqFacts
  <2> QED
    BY <1>2, <2>1, <2>3, <2>4, Steady
<1>3. CASE Go(p, Return(q, <<q.ip>>), c, d)
  <2>1. Few(<<q.ip>>) /\ \A s \in Slot : In(<<q.ip>>, s) = Eq(q.dp, s) + Eq(q.ip, s)
    BY Lists, EqFacts
  <2> QED
    BY <1>3, <2>1, Ends
<1>4. Append(<<>>, q.ip) = <<q.ip>>
  BY ShortLists
<1> QED
  BY <1>2, <1>3, <1>4 DEF Open

LEMMA CreateLookupInv == ASSUME TableInv, NEW p \in Proc, CreateLookup(p) PROVE TableInv'
<1> DEFINE q == proc[p]
           here == Ilock(icache, q.dp, NoProc)
           mine == Ilock(icache, q.dp, p)
           child == Entry(q.dp, Head(q.path))
<1>1. /\ q.pc = "parent" /\ q.puts = <<>> /\ Fits(q) /\ Idle(q) /\ q.path # <<>>
      /\ Live(q.dp) /\ q.call \in {"creat", "mkdir"} /\ q.ip = 0
  BY Held, NowAt DEF CreateLookup, At, Fits, CallInv
<1>2. /\ CacheOK(icache) /\ icache \in Caches /\ disk \in Disks /\ icache \in Alike(icache)
      /\ \A s \in Slot : icache[s].ref \in Nat
  BY Now
<1>3. here \in Alike(icache) /\ CacheOK(here) /\ mine \in Alike(icache)
  <2>1. here \in Alike(icache) /\ mine \in Alike(icache)
    BY <1>1, <1>2, Edited, Sets DEF Live
  <2> QED
    BY <1>2, <2>1, AlikeOK
<1>4. Head(q.path) \in Name \cup {".."}
  BY <1>1, PathParts DEF Fits, CallInv, Process
<1>5. child \in Inum \cup {0}
  BY <1>1, <1>2, <1>4 DEF Live, Entry, Disks
<1>6. <<>> \in Path /\ Len(<<>>) = 0
  BY EmptySeq DEF Path
<1> HIDE DEF here, child, mine
<1>7. \/ UNCHANGED <<disk, icache, proc>>
      \/ Go(p, [q EXCEPT !.pc = "ialloc"], mine, disk)
      \/ /\ child # 0 /\ SlotsFor(here, child) # {}
         /\ Go(p, [q EXCEPT !.pc = "found", !.path = <<>>, !.ip = SlotOf(here, child),
                            !.dp = 0, !.puts = <<q.dp>>],
               Iget(here, child), disk)
  BY DEF CreateLookup, Locking, Getting, Panic, here, child, mine
<1>8. CASE Go(p, [q EXCEPT !.pc = "ialloc"], mine, disk)
  <2>1. PICK r : r = [q EXCEPT !.pc = "ialloc"]
    OBVIOUS
  <2>2. /\ r.call = q.call /\ r.pc = "ialloc" /\ r.path = q.path /\ r.new = q.new
        /\ r.dp = q.dp /\ r.ip = q.ip /\ r.puts = <<>> /\ r.iput = q.iput
        /\ r.file = q.file /\ r.cwd = q.cwd
    BY <1>1, <2>1 DEF Idle, Process
  <2>3. r \in Process
    BY <1>1, <2>1 DEF Idle, Process
  <2>4. CallInv(r)
    BY <1>1, <2>2 DEF Fits, CallInv
  <2>5. Few(r.puts) /\ \A s \in Slot : Eq(r.dp, s) + Eq(r.ip, s) + In(r.puts, s) =
                                         Eq(q.dp, s) + Eq(q.ip, s)
    BY <2>2, Lists, EqFacts
  <2> QED
    BY <1>1, <1>2, <1>3, <1>8, <2>1, <2>2, <2>3, <2>4, <2>5, Moves
<1>9. CASE /\ child # 0 /\ SlotsFor(here, child) # {}
           /\ Go(p, [q EXCEPT !.pc = "found", !.path = <<>>, !.ip = SlotOf(here, child),
                              !.dp = 0, !.puts = <<q.dp>>],
                 Iget(here, child), disk)
  <2> DEFINE t == SlotOf(here, child)
  <2>1. PICK r : r = [q EXCEPT !.pc = "found", !.path = <<>>, !.ip = t,
                               !.dp = 0, !.puts = <<q.dp>>]
    OBVIOUS
  <2>2. /\ t \in Slot /\ CacheOK(Iget(here, child))
        /\ \A k \in Slot : Iget(here, child)[k].ref = here[k].ref + Eq(t, k)
    BY <1>3, <1>5, <1>9, Got
  <2>3. \A k \in Slot : here[k].ref = icache[k].ref
    BY <1>3 DEF Alike
  <2>4. <<q.dp>> \in Seq(Slot) /\ Len(<<q.dp>>) = 1 /\ \A k : In(<<q.dp>>, k) = Eq(q.dp, k)
    BY <1>1, ShortLists DEF Live
  <2>5. Go(p, r, Iget(here, child), disk)
    BY <1>9, <2>1
  <2> HIDE DEF t
  <2>6. /\ r.call = q.call /\ r.pc = "found" /\ r.path = <<>> /\ r.new = q.new
        /\ r.dp = 0 /\ r.ip = t /\ r.puts = <<q.dp>> /\ r.iput = "start"
        /\ r.file = q.file /\ r.cwd = q.cwd
    BY <1>1, <2>1 DEF Idle, Process
  <2>7. r \in Process
    BY <1>1, <1>6, <2>1, <2>2, <2>4 DEF Idle, Process, Pointer
  <2>8. CallInv(r)
    BY <1>1, <1>6, <2>2, <2>6, Sets DEF Fits, CallInv, Pointer
  <2>9. Fits(r)
    BY <2>4, <2>6, <2>7, <2>8 DEF Fits
  <2>10. ASSUME NEW k \in Slot
         PROVE  Iget(here, child)[k].ref = icache[k].ref + Weight(r, k) - Weight(q, k)
    <3>1. Weight(q, k) = Eq(q.dp, k) + Eq(0, k) + Eq(q.file, k) + Eq(q.cwd, k)
      BY <1>1, NowAt
    <3>2. Weight(r, k) = Eq(0, k) + Eq(t, k) + Eq(q.file, k) + Eq(q.cwd, k) + Eq(q.dp, k)
      BY <2>4, <2>6 DEF Weight, IpSlot
    <3>3. Iget(here, child)[k].ref = icache[k].ref + Eq(t, k) /\ icache[k].ref \in Nat
      BY <1>2, <2>2, <2>3
    <3> QED
      BY <3>1, <3>2, <3>3, EqFacts
  <2> QED
    BY <1>2, <2>2, <2>5, <2>9, <2>10, StepInv
<1> QED
  BY <1>7, <1>8, <1>9, Halts

\* The operations on a cache that is like icache.
LEMMA Edits ==
  ASSUME TableInv, NEW e \in Alike(icache), NEW s, Live(s)
  PROVE  /\ \A q \in Proc \cup {NoProc} : Ilock(e, s, q) \in Alike(icache)
         /\ Iunlock(e, s) \in Alike(icache)
         /\ \A n \in Int : /\ AddLink(e, s, n) \in Alike(icache)
                           /\ [e EXCEPT ![s].nlink = n] \in Alike(icache)
<1>1. e \in Caches /\ s \in Slot /\ e[s].inum # 0 /\ disk \in Disks
  BY Sets DEF TableInv, Alike, Live
<1>2. /\ \A q \in Proc \cup {NoProc} : Ilock(e, s, q) \in Alike(e)
      /\ Iunlock(e, s) \in Alike(e)
      /\ \A n \in Int : AddLink(e, s, n) \in Alike(e) /\ [e EXCEPT ![s].nlink = n] \in Alike(e)
  BY <1>1, Edited
<1> QED
  BY <1>2, AlikeTrans

LEMMA Counts ==
  ASSUME TableInv, NEW e \in Alike(icache), NEW s, Live(s)
  PROVE  AddLink(e, s, 1) \in Alike(icache) /\ AddLink(e, s, -1) \in Alike(icache)
<1>1. \A n \in Int : AddLink(e, s, n) \in Alike(icache)
  BY Edits
<1>2. 1 \in Int /\ -1 \in Int
  OBVIOUS
<1> QED
  BY <1>1, <1>2

LEMMA Writes ==
  ASSUME TableInv, NEW e \in Alike(icache), NEW s, Live(s), NEW d \in Disks
  PROVE  /\ Iupdate(d, e, s) \in Disks
         /\ \A name \in Name \cup {".."} : \A k \in Inum \cup {0} :
              WriteEntry(d, s, name, k) \in Disks
<1>1. e \in Caches /\ s \in Slot /\ e[s].inum # 0 /\ icache[s].inum \in Inum
  BY Sets DEF Alike, Live
<1> QED
  BY <1>1, Written

LEMMA CreateFoundInv == ASSUME TableInv, NEW p \in Proc, CreateFound(p) PROVE TableInv'
<1> DEFINE q == proc[p]
           here == Ilock(icache, q.ip, NoProc)
<1>1. /\ q.pc = "found" /\ q.puts = <<>> /\ Fits(q) /\ Live(q.ip) /\ q.dp = 0
      /\ q.call = "creat" => q.file = 0
  BY Held DEF CreateFound, At, Fits, CallInv
<1>2. here \in Alike(icache) /\ disk \in Disks
  BY <1>1, Edits, Now
<1>3. Few(<<q.ip>>) /\ \A s \in Slot : In(<<q.ip>>, s) = Eq(q.dp, s) + Eq(q.ip, s)
  BY <1>1, Lists, EqFacts DEF Live
<1> HIDE DEF here
<1>4. \/ UNCHANGED <<disk, icache, proc>>
      \/ q.call = "creat" /\ Open(p, q, here, disk)
      \/ Go(p, Return(q, <<q.ip>>), here, disk)
  BY DEF CreateFound, Locking, Panic, here
<1>5. CASE q.call = "creat" /\ Open(p, q, here, disk)
  BY <1>1, <1>2, <1>5, OpenStep DEF Live
<1>6. CASE Go(p, Return(q, <<q.ip>>), here, disk)
  BY <1>1, <1>2, <1>3, <1>6, Ends
<1> QED
  BY <1>4, <1>5, <1>6, Halts

LEMMA IallocInv == ASSUME TableInv, NEW p \in Proc, Ialloc(p) PROVE TableInv'
<1> DEFINE q == proc[p]
<1>1. /\ q.pc = "ialloc" /\ q.puts = <<>> /\ Fits(q) /\ q.ip = 0
      /\ icache \in Alike(icache) /\ disk \in Disks
  BY Held, Now DEF Ialloc, At, Fits, CallInv
<1>2. CASE UNCHANGED <<disk, icache, proc>>
  BY <1>2, Halts
<1>3. CASE \E k \in Inum :
             Go(p, [q EXCEPT !.pc = "iget", !.ip = k], icache,
                [disk EXCEPT ![k] = [type    |-> IF q.call = "mkdir" THEN "dir" ELSE "file",
                                     nlink   |-> 0,
                                     entries |-> NoEntries]])
  <2>1. PICK k \in Inum :
               Go(p, [q EXCEPT !.pc = "iget", !.ip = k], icache,
                  [disk EXCEPT ![k] = [type    |-> IF q.call = "mkdir" THEN "dir" ELSE "file",
                                       nlink   |-> 0,
                                       entries |-> NoEntries]])
    BY <1>3
  <2>2. PICK r : r = [q EXCEPT !.pc = "iget", !.ip = k]
    OBVIOUS
  <2>3. PICK type \in Type : type = IF q.call = "mkdir" THEN "dir" ELSE "file"
    BY DEF Type
  <2>4. [disk EXCEPT ![k] = [type |-> type, nlink |-> 0, entries |-> NoEntries]] \in Disks
    <3>1. \E c \in Caches : \E s \in Slot : c[s].inum # 0
      <4>1. Live(q.cwd)
        BY Held
      <4> QED
        BY <4>1, Now, Sets DEF Live
    <3> QED
      BY <1>1, <3>1, Written
  <2>5. /\ r.call = q.call /\ r.pc = "iget" /\ r.path = q.path /\ r.new = q.new
        /\ r.dp = q.dp /\ r.ip = k /\ r.puts = q.puts /\ r.iput = q.iput
        /\ r.file = q.file /\ r.cwd = q.cwd
    BY <1>1, <2>2 DEF Fits, Process
  <2>6. r \in Process
    BY <1>1, <2>2 DEF Fits, Process
  <2>7. CallInv(r)
    BY <1>1, <2>5, Sets DEF Fits, CallInv
  <2>8. Fits(r) /\ \A s \in Slot : Weight(r, s) = Weight(q, s)
    BY <1>1, <2>5, <2>6, <2>7 DEF Fits, Weight, IpSlot
  <2> QED
    BY <1>1, <2>1, <2>2, <2>3, <2>4, <2>8, Steady
<1> QED
  BY <1>2, <1>3 DEF Ialloc, Panic

LEMMA IallocGetInv == ASSUME TableInv, NEW p \in Proc, IallocGet(p) PROVE TableInv'
<1> DEFINE q == proc[p]
           t == SlotOf(icache, q.ip)
<1>1. /\ q.pc = "iget" /\ q.puts = <<>> /\ Fits(q) /\ q.ip \in Inum
      /\ CacheOK(icache) /\ disk \in Disks /\ \A s \in Slot : icache[s].ref \in Nat
  BY Held, Now DEF IallocGet, At, Fits, CallInv
<1>2. CASE SlotsFor(icache, q.ip) = {}
  BY <1>2, Halts DEF IallocGet, Getting, Panic
<1>3. CASE SlotsFor(icache, q.ip) # {}
  <2>1. /\ t \in Slot /\ CacheOK(Iget(icache, q.ip))
        /\ \A s \in Slot : Iget(icache, q.ip)[s].ref = icache[s].ref + Eq(t, s)
    BY <1>1, <1>3, Got
  <2>2. PICK r : r = [q EXCEPT !.pc = "init", !.ip = t]
    OBVIOUS
  <2>3. Go(p, r, Iget(icache, q.ip), disk)
    BY <1>3, <2>2 DEF IallocGet, Getting
  <2> HIDE DEF t
  <2>4. /\ r.call = q.call /\ r.pc = "init" /\ r.path = q.path /\ r.new = q.new
        /\ r.dp = q.dp /\ r.ip = t /\ r.puts = q.puts /\ r.iput = q.iput
        /\ r.file = q.file /\ r.cwd = q.cwd
    BY <1>1, <2>2 DEF Fits, Process
  <2>5. r \in Process
    BY <1>1, <2>1, <2>2 DEF Fits, Process, Pointer
  <2>6. CallInv(r)
    BY <1>1, <2>1, <2>4, Sets DEF Fits, CallInv, Pointer
  <2>7. Fits(r)
    BY <1>1, <2>4, <2>5, <2>6 DEF Fits
  <2>8. ASSUME NEW s \in Slot
        PROVE  Iget(icache, q.ip)[s].ref = icache[s].ref + Weight(r, s) - Weight(q, s)
    <3>1. Weight(q, s) = Eq(q.dp, s) + Eq(0, s) + Eq(q.file, s) + Eq(q.cwd, s) + In(<<>>, s)
      BY <1>1 DEF Weight, IpSlot
    <3>2. Weight(r, s) = Eq(q.dp, s) + Eq(t, s) + Eq(q.file, s) + Eq(q.cwd, s) + In(<<>>, s)
      BY <1>1, <2>4 DEF Weight, IpSlot
    <3>3. Iget(icache, q.ip)[s].ref = icache[s].ref + Eq(t, s) /\ icache[s].ref \in Nat
      BY <1>1, <2>1
    <3>4. In(<<>>, s) = 0 /\ Eq(0, s) = 0
      BY Lists, EqFacts
    <3>5. Weight(r, s) = Weight(q, s) + Eq(t, s) /\ Weight(q, s) \in Nat
      BY <3>1, <3>2, <3>4, EqFacts
    <3> QED
      BY <3>3, <3>5, EqFacts
  <2> QED
    BY <1>1, <2>1, <2>3, <2>7, <2>8, StepInv
<1> QED
  BY <1>2, <1>3

\* A step of create() or unlink() that keeps both of its inodes.
LEMMA Makes ==
  ASSUME TableInv, NEW p \in Proc, proc[p].puts = <<>>, proc[p].pc \in {"init", "nest", "dots"},
         NEW x \in {"nest", "dots", "enter"}, NEW c \in Alike(icache), NEW d \in Disks,
         Go(p, [proc[p] EXCEPT !.pc = x], c, d)
  PROVE  TableInv'
<1> DEFINE q == proc[p]
<1>1. PICK r : r = [q EXCEPT !.pc = x]
  OBVIOUS
<1>2. Fits(q)
  BY Held
<1>3. /\ r.call = q.call /\ r.pc = x /\ r.path = q.path /\ r.new = q.new
      /\ r.dp = q.dp /\ r.ip = q.ip /\ r.puts = <<>> /\ r.iput = q.iput
      /\ r.file = q.file /\ r.cwd = q.cwd
  BY <1>1, <1>2 DEF Fits, Process
<1>4. r \in Process
  BY <1>1, <1>2 DEF Fits, Process
<1>5. CallInv(r)
  BY <1>2, <1>3 DEF Fits, CallInv
<1>6. Few(r.puts) /\ \A s \in Slot : Eq(r.dp, s) + Eq(r.ip, s) + In(r.puts, s) =
                                       Eq(q.dp, s) + Eq(q.ip, s)
  BY <1>3, Lists, EqFacts
<1> QED
  BY <1>1, <1>3, <1>4, <1>5, <1>6, Moves

\* The parent directory is to be put, the inode is kept.
LEMMA Leaves ==
  ASSUME TableInv, NEW p \in Proc, proc[p].puts = <<>>,
         proc[p].pc \in {"enter", "child", "unnest"}, NEW x \in {"made", "unname"},
         NEW c \in Alike(icache), NEW d \in Disks,
         Go(p, [proc[p] EXCEPT !.pc = x, !.path = <<>>, !.dp = 0, !.puts = <<proc[p].dp>>],
            c, d)
  PROVE  TableInv'
<1> DEFINE q == proc[p]
<1>1. PICK r : r = [q EXCEPT !.pc = x, !.path = <<>>, !.dp = 0, !.puts = <<q.dp>>]
  OBVIOUS
<1>2. Fits(q) /\ q.dp \in Slot
  BY Held DEF Fits, CallInv, Live
<1>3. /\ r.call = q.call /\ r.pc = x /\ r.path = <<>> /\ r.new = q.new
      /\ r.dp = 0 /\ r.ip = q.ip /\ r.puts = <<q.dp>> /\ r.iput = q.iput
      /\ r.file = q.file /\ r.cwd = q.cwd
  BY <1>1, <1>2 DEF Fits, Process
<1>4. <<>> \in Path /\ Len(<<>>) = 0 /\ <<q.dp>> \in Seq(Slot)
  BY <1>2, EmptySeq, ShortLists DEF Path
<1>5. r \in Process
  BY <1>1, <1>2, <1>4 DEF Fits, Process, Pointer
<1>6. CallInv(r)
  BY <1>2, <1>3, <1>4 DEF Fits, CallInv
<1>7. Few(r.puts) /\ \A s \in Slot : Eq(r.dp, s) + Eq(r.ip, s) + In(r.puts, s) =
                                       Eq(q.dp, s) + Eq(q.ip, s)
  <2>1. Few(r.puts) /\ \A s : In(r.puts, s) = Eq(q.dp, s)
    BY <1>2, <1>3, Lists
  <2> QED
    BY <1>3, <2>1, EqFacts
<1> QED
  BY <1>1, <1>3, <1>5, <1>6, <1>7, Moves

LEMMA CreateInitInv == ASSUME TableInv, NEW p \in Proc, CreateInit(p) PROVE TableInv'
<1> DEFINE q == proc[p]
           c == [Ilock(icache, q.ip, p) EXCEPT ![q.ip].nlink = 1]
           x == IF q.call = "mkdir" THEN "nest" ELSE "enter"
<1>1. q.pc = "init" /\ q.puts = <<>> /\ Live(q.ip)
  BY Held DEF CreateInit, At, Fits, CallInv
<1>2. c \in Alike(icache)
  <2>1. PICK e : e = Ilock(icache, q.ip, p)
    OBVIOUS
  <2>2. e \in Alike(icache) /\ 1 \in Int
    BY <1>1, <2>1, Now, Edits
  <2>3. [e EXCEPT ![q.ip].nlink = 1] \in Alike(icache)
    BY <1>1, <2>2, Edits
  <2> QED
    BY <2>1, <2>3
<1>3. Iupdate(disk, c, q.ip) \in Disks
  BY <1>1, <1>2, Now, Writes
<1>4. \/ UNCHANGED <<disk, icache, proc>>
      \/ Go(p, [q EXCEPT !.pc = x], c, Iupdate(disk, c, q.ip))
  BY DEF CreateInit, Locking, Panic
<1> HIDE DEF c
<1>5. CASE Go(p, [q EXCEPT !.pc = x], c, Iupdate(disk, c, q.ip))
  BY <1>1, <1>2, <1>3, <1>5, Makes
<1> QED
  BY <1>4, <1>5, Halts

LEMMA CreateNestInv == ASSUME TableInv, NEW p \in Proc, CreateNest(p) PROVE TableInv'
<1> DEFINE q == proc[p]
           c == AddLink(icache, q.dp, 1)
<1>1. q.pc = "nest" /\ q.puts = <<>> /\ Live(q.dp)
  BY Held DEF CreateNest, At, Fits, CallInv
<1>2. c \in Alike(icache)
  BY <1>1, Now, Counts
<1>3. Iupdate(disk, c, q.dp) \in Disks
  BY <1>1, <1>2, Now, Writes
<1>4. Go(p, [q EXCEPT !.pc = "dots"], c, Iupdate(disk, c, q.dp))
  BY DEF CreateNest
<1> HIDE DEF c
<1> QED
  BY <1>1, <1>2, <1>3, <1>4, Makes

LEMMA CreateDotsInv == ASSUME TableInv, NEW p \in Proc, CreateDots(p) PROVE TableInv'
<1> DEFINE q == proc[p]
           d == WriteEntry(disk, q.ip, "..", icache[q.dp].inum)
<1>1. q.pc = "dots" /\ q.puts = <<>> /\ Live(q.dp) /\ Live(q.ip)
  BY Held DEF CreateDots, At, Fits, CallInv
<1>2. icache[q.dp].inum \in Inum \cup {0}
  BY <1>1 DEF Live
<1>3. d \in Disks /\ icache \in Alike(icache)
  BY <1>1, <1>2, Now, Writes
<1>4. Go(p, [q EXCEPT !.pc = "enter"], icache, d)
  BY DEF CreateDots
<1> HIDE DEF d
<1> QED
  BY <1>1, <1>3, <1>4, Makes

LEMMA CreateEnterInv == ASSUME TableInv, NEW p \in Proc, CreateEnter(p) PROVE TableInv'
<1> DEFINE q == proc[p]
           d == WriteEntry(disk, q.dp, Head(q.path), icache[q.ip].inum)
<1>1. /\ q.pc = "enter" /\ q.puts = <<>> /\ Live(q.dp) /\ Live(q.ip)
      /\ Fits(q) /\ q.path # <<>>
  BY Held DEF CreateEnter, At, Fits, CallInv
<1>2. Head(q.path) \in Name \cup {".."}
  BY <1>1, PathParts DEF Fits, CallInv, Process
<1>3. icache[q.ip].inum \in Inum \cup {0}
  BY <1>1 DEF Live
<1>4. d \in Disks /\ Iunlock(icache, q.dp) \in Alike(icache)
  BY <1>1, <1>2, <1>3, Now, Writes, Edits
<1>5. Go(p, [q EXCEPT !.pc = "made", !.path = <<>>, !.dp = 0, !.puts = <<q.dp>>],
         Iunlock(icache, q.dp), d)
  BY DEF CreateEnter
<1> HIDE DEF d
<1> QED
  BY <1>1, <1>4, <1>5, Leaves, Zenon

LEMMA CreateMadeInv == ASSUME TableInv, NEW p \in Proc, CreateMade(p) PROVE TableInv'
<1> DEFINE q == proc[p]
           c == Iunlock(icache, q.ip)
<1>1. /\ q.pc = "made" /\ q.puts = <<>> /\ Live(q.ip) /\ q.dp = 0
      /\ q.call = "creat" => q.file = 0
  BY Held DEF CreateMade, At, Fits, CallInv
<1>2. c \in Alike(icache) /\ disk \in Disks
  BY <1>1, Now, Edits
<1>3. Few(<<q.ip>>) /\ \A s \in Slot : In(<<q.ip>>, s) = Eq(q.dp, s) + Eq(q.ip, s)
  BY <1>1, Lists, EqFacts DEF Live
<1>4. CASE q.call = "creat" /\ Open(p, q, c, disk)
  BY <1>1, <1>2, <1>4, OpenStep DEF Live
<1>5. CASE Go(p, Return(q, <<q.ip>>), c, disk)
  BY <1>1, <1>2, <1>3, <1>5, Ends
<1> QED
  BY <1>4, <1>5 DEF CreateMade

LEMMA OpenFoundInv == ASSUME TableInv, NEW p \in Proc, OpenFound(p) PROVE TableInv'
<1> DEFINE q == proc[p]
           c == Ilock(icache, q.ip, NoProc)
<1>1. /\ q.pc = "open" /\ q.puts = <<>> /\ Live(q.ip) /\ q.dp = 0 /\ q.file = 0
  BY Held DEF OpenFound, At, Fits, CallInv
<1>2. c \in Alike(icache) /\ disk \in Disks
  BY <1>1, Now, Edits
<1>3. UNCHANGED <<disk, icache, proc>> \/ Open(p, q, c, disk)
  BY DEF OpenFound, Locking, Panic
<1>4. CASE Open(p, q, c, disk)
  BY <1>1, <1>2, <1>4, OpenStep DEF Live
<1> QED
  BY <1>3, <1>4, Halts

LEMMA ChdirInv == ASSUME TableInv, NEW p \in Proc, Chdir(p) PROVE TableInv'
<1> DEFINE q == proc[p]
           c == Ilock(icache, q.ip, NoProc)
<1>1. q.pc = "chdir" /\ q.puts = <<>> /\ Live(q.ip) /\ Live(q.cwd) /\ q.dp = 0
  BY Held DEF Chdir, At, Fits, CallInv
<1>2. c \in Alike(icache) /\ disk \in Disks
  BY <1>1, Now, Edits
<1> HIDE DEF c
<1>3. \/ UNCHANGED <<disk, icache, proc>>
      \/ Go(p, Return(q, <<q.ip>>), c, disk)
      \/ Go(p, [Return(q, <<q.cwd>>) EXCEPT !.cwd = q.ip], c, disk)
  BY DEF Chdir, Locking, Panic, c
<1>4. CASE Go(p, Return(q, <<q.ip>>), c, disk)
  <2>1. Few(<<q.ip>>) /\ \A s \in Slot : In(<<q.ip>>, s) = Eq(q.dp, s) + Eq(q.ip, s)
    BY <1>1, Lists, EqFacts DEF Live
  <2> QED
    BY <1>1, <1>2, <1>4, <2>1, Ends
<1>5. CASE Go(p, [Return(q, <<q.cwd>>) EXCEPT !.cwd = q.ip], c, disk)
  <2>1. PICK l : l = <<q.cwd>>
    OBVIOUS
  <2>2. Few(l) /\ \A s : In(l, s) = Eq(q.cwd, s)
    BY <1>1, <2>1, Lists DEF Live
  <2>3. PICK r : r = [Return(q, l) EXCEPT !.cwd = q.ip]
    OBVIOUS
  <2>4. Fits(r) /\ Weighs(r, 0, 0, q.file, q.ip, l)
    BY <1>1, <2>2, <2>3, Opens, NowAt DEF Live
  <2>5. ASSUME NEW s \in Slot PROVE Weight(r, s) = Weight(q, s)
    <3>1. Weight(r, s) = Eq(0, s) + Eq(0, s) + Eq(q.file, s) + Eq(q.ip, s) + In(l, s)
      BY <2>4 DEF Weighs
    <3>2. Weight(q, s) = Eq(0, s) + Eq(q.ip, s) + Eq(q.file, s) + Eq(q.cwd, s)
      BY <1>1, NowAt
    <3> QED
      BY <2>2, <3>1, <3>2, EqFacts
  <2>6. Go(p, r, c, disk)
    BY <1>5, <2>1, <2>3
  <2> QED
    BY <1>2, <2>4, <2>5, <2>6, Steady
<1> QED
  BY <1>3, <1>4, <1>5, Halts

LEMMA UnlinkLookupInv == ASSUME TableInv, NEW p \in Proc, UnlinkLookup(p) PROVE TableInv'
<1> DEFINE q == proc[p]
           child == Entry(q.dp, Head(q.path))
           here == Ilock(icache, q.dp, p)
<1>1. /\ q.pc = "parent" /\ q.puts = <<>> /\ Fits(q) /\ q.call = "unlink"
      /\ q.ip = 0 /\ Live(q.dp) /\ q.path # <<>> /\ Idle(q)
  BY Held, NowAt DEF UnlinkLookup, At, Fits, CallInv
<1>2. CacheOK(icache) /\ disk \in Disks /\ \A s \in Slot : icache[s].ref \in Nat
  BY Now
<1>3. here \in Alike(icache) /\ Iunlock(here, q.dp) \in Alike(icache) /\ CacheOK(here)
  <2>1. PICK e : e = here
    OBVIOUS
  <2>2. e \in Alike(icache)
    BY <1>1, <2>1, Now, Edits
  <2>3. Iunlock(e, q.dp) \in Alike(icache)
    BY <1>1, <2>2, Edits
  <2> QED
    BY <1>2, <2>1, <2>2, <2>3, AlikeOK
<1>4. child \in Inum \cup {0}
  <2>1. Head(q.path) \in Name \cup {".."}
    BY <1>1, PathParts DEF Fits, CallInv, Process
  <2> QED
    BY <1>1, <1>2, <2>1 DEF Live, Entry, Disks
<1> HIDE DEF here, child
<1>5. \/ UNCHANGED <<disk, icache, proc>>
      \/ Go(p, Return(q, <<q.dp>>), Iunlock(here, q.dp), disk)
      \/ /\ child # 0 /\ SlotsFor(here, child) # {}
         /\ Go(p, [q EXCEPT !.pc = "child", !.ip = SlotOf(here, child)],
               Iget(here, child), disk)
  BY DEF UnlinkLookup, Locking, Getting, Panic, here, child
<1>6. CASE Go(p, Return(q, <<q.dp>>), Iunlock(here, q.dp), disk)
  <2>1. Few(<<q.dp>>) /\ \A s \in Slot : In(<<q.dp>>, s) = Eq(q.dp, s) + Eq(q.ip, s)
    BY <1>1, Lists, EqFacts DEF Live
  <2> QED
    BY <1>1, <1>2, <1>3, <1>6, <2>1, Ends
<1>7. CASE /\ child # 0 /\ SlotsFor(here, child) # {}
           /\ Go(p, [q EXCEPT !.pc = "child", !.ip = SlotOf(here, child)],
                 Iget(here, child), disk)
  <2> DEFINE t == SlotOf(here, child)
  <2>1. PICK r : r = [q EXCEPT !.pc = "child", !.ip = t]
    OBVIOUS
  <2>2. /\ t \in Slot /\ CacheOK(Iget(here, child))
        /\ \A k \in Slot : Iget(here, child)[k].ref = here[k].ref + Eq(t, k)
    BY <1>3, <1>4, <1>7, Got
  <2>3. \A k \in Slot : here[k].ref = icache[k].ref
    BY <1>3 DEF Alike
  <2>4. Go(p, r, Iget(here, child), disk)
    BY <1>7, <2>1
  <2> HIDE DEF t
  <2>5. /\ r.call = q.call /\ r.pc = "child" /\ r.path = q.path /\ r.new = q.new
        /\ r.dp = q.dp /\ r.ip = t /\ r.puts = <<>> /\ r.iput = "start"
        /\ r.file = q.file /\ r.cwd = q.cwd
    BY <1>1, <2>1 DEF Idle, Process
  <2>6. r \in Process
    BY <1>1, <2>1, <2>2 DEF Idle, Process, Pointer
  <2>7. CallInv(r)
    BY <1>1, <2>2, <2>5, Sets DEF Fits, CallInv, Pointer
  <2>8. Fits(r)
    BY <2>5, <2>6, <2>7, Lists DEF Fits, Few
  <2>9. ASSUME NEW k \in Slot
        PROVE  Iget(here, child)[k].ref = icache[k].ref + Weight(r, k) - Weight(q, k)
    <3>1. Weight(q, k) = Eq(q.dp, k) + Eq(0, k) + Eq(q.file, k) + Eq(q.cwd, k)
      BY <1>1, NowAt
    <3>2. Weight(r, k) = Eq(q.dp, k) + Eq(t, k) + Eq(q.file, k) + Eq(q.cwd, k) + In(<<>>, k)
      BY <2>5 DEF Weight, IpSlot
    <3>3. Iget(here, child)[k].ref = icache[k].ref + Eq(t, k) /\ icache[k].ref \in Nat
      BY <1>2, <2>2, <2>3
    <3>4. In(<<>>, k) = 0
      BY Lists
    <3> QED
      BY <3>1, <3>2, <3>3, <3>4, EqFacts
  <2> QED
    BY <1>2, <2>2, <2>4, <2>8, <2>9, StepInv
<1> QED
  BY <1>5, <1>6, <1>7, Halts

LEMMA UnlinkEraseInv == ASSUME TableInv, NEW p \in Proc, UnlinkErase(p) PROVE TableInv'
<1> DEFINE q == proc[p]
           c == Ilock(icache, q.ip, p)
           erased == WriteEntry(disk, q.dp, Head(q.path), 0)
<1>1. /\ q.pc = "child" /\ q.puts = <<>> /\ Fits(q) /\ Live(q.ip) /\ Live(q.dp)
      /\ q.path # <<>> /\ disk \in Disks /\ Idle(q)
  BY Held, Now, NowAt DEF UnlinkErase, At, Fits, CallInv
<1>2. erased \in Disks
  <2>1. Head(q.path) \in Name \cup {".."} /\ 0 \in Inum \cup {0}
    BY <1>1, PathParts DEF Fits, CallInv, Process
  <2> QED
    BY <1>1, <2>1, Now, Writes
<1>3. c \in Alike(icache)
  BY <1>1, Now, Edits
<1> HIDE DEF c, erased
<1>4. Iunlock(c, q.dp) \in Alike(icache) /\ Iunlock(Iunlock(c, q.ip), q.dp) \in Alike(icache)
  <2>1. PICK e : e = Iunlock(c, q.ip)
    OBVIOUS
  <2>2. e \in Alike(icache) /\ Iunlock(c, q.dp) \in Alike(icache)
    BY <1>1, <1>3, <2>1, Edits
  <2>3. Iunlock(e, q.dp) \in Alike(icache)
    BY <1>1, <2>2, Edits
  <2> QED
    BY <2>1, <2>2, <2>3
<1>5. \/ UNCHANGED <<disk, icache, proc>>
      \/ Go(p, Return(q, <<q.ip, q.dp>>), Iunlock(Iunlock(c, q.ip), q.dp), disk)
      \/ Go(p, [q EXCEPT !.pc = "unnest", !.path = <<>>], c, erased)
      \/ Go(p, [q EXCEPT !.pc = "unname", !.path = <<>>, !.dp = 0, !.puts = <<q.dp>>],
            Iunlock(c, q.dp), erased)
  BY DEF UnlinkErase, Locking, Panic, c, erased
<1>6. CASE Go(p, Return(q, <<q.ip, q.dp>>), Iunlock(Iunlock(c, q.ip), q.dp), disk)
  <2>1. /\ Few(<<q.ip, q.dp>>)
        /\ \A s \in Slot : In(<<q.ip, q.dp>>, s) = Eq(q.dp, s) + Eq(q.ip, s)
    BY <1>1, Lists, EqFacts DEF Live
  <2> QED
    BY <1>1, <1>4, <1>6, <2>1, Ends
<1>7. CASE Go(p, [q EXCEPT !.pc = "unnest", !.path = <<>>], c, erased)
  <2>1. PICK r : r = [q EXCEPT !.pc = "unnest", !.path = <<>>]
    OBVIOUS
  <2>2. /\ r.call = q.call /\ r.pc = "unnest" /\ r.path = <<>> /\ r.new = q.new
        /\ r.dp = q.dp /\ r.ip = q.ip /\ r.puts = <<>> /\ r.iput = q.iput
        /\ r.file = q.file /\ r.cwd = q.cwd
    BY <1>1, <2>1 DEF Idle, Process
  <2>3. <<>> \in Path /\ Len(<<>>) = 0
    BY EmptySeq DEF Path
  <2>4. r \in Process
    BY <1>1, <2>1, <2>3 DEF Idle, Process
  <2>5. CallInv(r)
    BY <1>1, <2>2, <2>3 DEF Fits, CallInv
  <2>6. Few(r.puts) /\ \A s \in Slot : Eq(r.dp, s) + Eq(r.ip, s) + In(r.puts, s) =
                                         Eq(q.dp, s) + Eq(q.ip, s)
    BY <2>2, Lists, EqFacts
  <2> QED
    BY <1>1, <1>2, <1>3, <1>7, <2>1, <2>2, <2>4, <2>5, <2>6, Moves
<1>8. CASE Go(p, [q EXCEPT !.pc = "unname", !.path = <<>>, !.dp = 0, !.puts = <<q.dp>>],
              Iunlock(c, q.dp), erased)
  BY <1>1, <1>2, <1>4, <1>8, Leaves, Zenon
<1> QED
  BY <1>5, <1>6, <1>7, <1>8, Halts

LEMMA UnlinkNestInv == ASSUME TableInv, NEW p \in Proc, UnlinkNest(p) PROVE TableInv'
<1> DEFINE q == proc[p]
           c == AddLink(icache, q.dp, -1)
<1>1. /\ q.pc = "unnest" /\ q.puts = <<>> /\ Live(q.dp) /\ q.path = <<>> /\ q \in Process
  BY Held DEF UnlinkNest, At, Fits, CallInv
<1>2. c \in Alike(icache)
  BY <1>1, Now, Counts
<1>3. Iupdate(disk, c, q.dp) \in Disks
  BY <1>1, <1>2, Now, Writes
<1>4. Go(p, [q EXCEPT !.pc = "unname", !.dp = 0, !.puts = <<q.dp>>],
         Iunlock(c, q.dp), Iupdate(disk, c, q.dp))
  BY DEF UnlinkNest
<1> HIDE DEF c
<1>5. Iunlock(c, q.dp) \in Alike(icache)
  BY <1>1, <1>2, Edits
<1>6. [q EXCEPT !.pc = "unname", !.dp = 0, !.puts = <<q.dp>>] =
        [q EXCEPT !.pc = "unname", !.path = <<>>, !.dp = 0, !.puts = <<q.dp>>]
  BY <1>1 DEF Process
<1> QED
  BY <1>1, <1>3, <1>4, <1>5, <1>6, Leaves, Zenon

LEMMA UnlinkCountInv == ASSUME TableInv, NEW p \in Proc, UnlinkCount(p) PROVE TableInv'
<1> DEFINE q == proc[p]
           c == AddLink(icache, q.ip, -1)
<1>1. q.pc = "unname" /\ q.puts = <<>> /\ Live(q.ip) /\ q.dp = 0
  BY Held DEF UnlinkCount, At, Fits, CallInv
<1>2. c \in Alike(icache)
  BY <1>1, Now, Counts
<1>3. Iupdate(disk, c, q.ip) \in Disks
  BY <1>1, <1>2, Now, Writes
<1>4. Go(p, Return(q, <<q.ip>>), Iunlock(c, q.ip), Iupdate(disk, c, q.ip))
  BY DEF UnlinkCount
<1> HIDE DEF c
<1>5. Iunlock(c, q.ip) \in Alike(icache)
  BY <1>1, <1>2, Edits
<1>6. Few(<<q.ip>>) /\ \A s \in Slot : In(<<q.ip>>, s) = Eq(q.dp, s) + Eq(q.ip, s)
  BY <1>1, Lists, EqFacts DEF Live
<1> QED
  BY <1>1, <1>3, <1>4, <1>5, <1>6, Ends

LEMMA LinkCountInv == ASSUME TableInv, NEW p \in Proc, LinkCount(p) PROVE TableInv'
<1> DEFINE q == proc[p]
           here == Ilock(icache, q.ip, NoProc)
           c == AddLink(here, q.ip, 1)
<1>1. /\ q.pc = "count" /\ q.puts = <<>> /\ Live(q.ip) /\ q.dp = 0 /\ Fits(q)
      /\ disk \in Disks /\ Idle(q)
  BY Held, Now, NowAt DEF LinkCount, At, Fits, CallInv
<1>2. here \in Alike(icache)
  BY <1>1, Now, Edits
<1>3. c \in Alike(icache)
  <2> HIDE DEF here
  <2> QED
    BY <1>1, <1>2, Counts
<1>4. Iupdate(disk, c, q.ip) \in Disks
  <2> HIDE DEF c
  <2> QED
    BY <1>1, <1>3, Now, Writes
<1>5. \/ UNCHANGED <<disk, icache, proc>>
      \/ Go(p, Return(q, <<q.ip>>), here, disk)
      \/ Go(p, [q EXCEPT !.pc = "again"], c, Iupdate(disk, c, q.ip))
  BY DEF LinkCount, Locking, Panic
<1> HIDE DEF here, c
<1>6. CASE Go(p, Return(q, <<q.ip>>), here, disk)
  <2>1. Few(<<q.ip>>) /\ \A s \in Slot : In(<<q.ip>>, s) = Eq(q.dp, s) + Eq(q.ip, s)
    BY <1>1, Lists, EqFacts DEF Live
  <2> QED
    BY <1>1, <1>2, <1>6, <2>1, Ends
<1>7. CASE Go(p, [q EXCEPT !.pc = "again"], c, Iupdate(disk, c, q.ip))
  <2>1. PICK r : r = [q EXCEPT !.pc = "again"]
    OBVIOUS
  <2>2. /\ r.call = q.call /\ r.pc = "again" /\ r.path = q.path /\ r.new = q.new
        /\ r.dp = q.dp /\ r.ip = q.ip /\ r.puts = <<>> /\ r.iput = q.iput
        /\ r.file = q.file /\ r.cwd = q.cwd
    BY <1>1, <2>1 DEF Idle, Process
  <2>3. r \in Process
    BY <1>1, <2>1 DEF Idle, Process
  <2>4. CallInv(r)
    BY <1>1, <2>2 DEF Fits, CallInv
  <2>5. Few(r.puts) /\ \A s \in Slot : Eq(r.dp, s) + Eq(r.ip, s) + In(r.puts, s) =
                                         Eq(q.dp, s) + Eq(q.ip, s)
    BY <2>2, Lists, EqFacts
  <2> QED
    BY <1>1, <1>3, <1>4, <1>7, <2>1, <2>2, <2>3, <2>4, <2>5, Moves
<1> QED
  BY <1>5, <1>6, <1>7, Halts

LEMMA LinkEnterInv == ASSUME TableInv, NEW p \in Proc, LinkEnter(p) PROVE TableInv'
<1> DEFINE q == proc[p]
           here == Ilock(icache, q.dp, NoProc)
           d == WriteEntry(disk, q.dp, Head(q.path), icache[q.ip].inum)
<1>1. /\ q.pc = "parent" /\ q.puts = <<>> /\ Fits(q) /\ q.call = "link"
      /\ Live(q.dp) /\ q.path # <<>> /\ disk \in Disks
      /\ q.ip # 0 /\ Live(q.ip)
  BY Held, Now DEF LinkEnter, At, Fits, CallInv, IsParent
<1>2. here \in Alike(icache)
  BY <1>1, Now, Edits
<1>3. d \in Disks
  <2>1. Head(q.path) \in Name \cup {".."}
    BY <1>1, PathParts DEF Fits, CallInv, Process
  <2>2. icache[q.ip].inum \in Inum \cup {0}
    BY <1>1 DEF Live
  <2> QED
    BY <1>1, <2>1, <2>2, Now, Writes
<1> HIDE DEF here, d
<1>4. \/ UNCHANGED <<disk, icache, proc>>
      \/ Go(p, Fail(q, <<q.dp>>), here, disk)
      \/ Go(p, Return(q, <<q.dp, q.ip>>), here, d)
  BY DEF LinkEnter, Locking, Panic, here, d
<1>5. CASE Go(p, Fail(q, <<q.dp>>), here, disk)
  BY <1>1, <1>2, <1>5, FailsNow
<1>6. CASE Go(p, Return(q, <<q.dp, q.ip>>), here, d)
  <2>1. /\ Few(<<q.dp, q.ip>>)
        /\ \A s \in Slot : In(<<q.dp, q.ip>>, s) = Eq(q.dp, s) + Eq(q.ip, s)
    BY <1>1, Lists DEF Live
  <2> QED
    BY <1>1, <1>2, <1>3, <1>6, <2>1, Ends
<1> QED
  BY <1>4, <1>5, <1>6, Halts

LEMMA LinkBadInv == ASSUME TableInv, NEW p \in Proc, LinkBad(p) PROVE TableInv'
<1> DEFINE q == proc[p]
           here == Ilock(icache, q.ip, NoProc)
           c == AddLink(here, q.ip, -1)
<1>1. q.pc = "bad" /\ q.puts = <<>> /\ Live(q.ip) /\ q.dp = 0
  BY Held DEF LinkBad, At, Fits, CallInv
<1>2. here \in Alike(icache)
  BY <1>1, Now, Edits
<1>3. c \in Alike(icache)
  <2> HIDE DEF here
  <2> QED
    BY <1>1, <1>2, Counts
<1>4. Iupdate(disk, c, q.ip) \in Disks
  <2> HIDE DEF c
  <2> QED
    BY <1>1, <1>3, Now, Writes
<1>5. \/ UNCHANGED <<disk, icache, proc>>
      \/ Go(p, Return(q, <<q.ip>>), c, Iupdate(disk, c, q.ip))
  BY DEF LinkBad, Locking, Panic
<1> HIDE DEF c
<1>6. Few(<<q.ip>>) /\ \A s \in Slot : In(<<q.ip>>, s) = Eq(q.dp, s) + Eq(q.ip, s)
  BY <1>1, Lists, EqFacts DEF Live
<1> QED
  BY <1>1, <1>3, <1>4, <1>5, <1>6, Ends, Halts

-----------------------------------------------------------------------------
(* The machine boots, and the theorem *)

\* After a boot every process holds the root directory once, as its own.
LEMMA Boots ==
  ASSUME NEW f, f = [p \in Proc |-> BootProc], NEW s \in Slot
  PROVE  HoldersOf(f, s) = IF s = 1 THEN Cardinality(Proc) ELSE 0
<1>1. \A p \in Proc : /\ f[p].dp = 0 /\ f[p].ip = 0 /\ f[p].file = 0 /\ f[p].cwd = 1
                      /\ f[p].puts = <<>> /\ f[p].pc = "user"
  BY DEF BootProc
<1>2. s # 0 /\ Len(<<>>) = 0
  BY Sets, EmptySeq
<1>3. /\ {r \in Proc : f[r].dp = s} = {}
      /\ {r \in Proc : f[r].ip = s /\ f[r].pc # "iget"} = {}
      /\ {r \in Proc : f[r].file = s} = {}
      /\ {r \in Proc : f[r].puts # <<>> /\ Head(f[r].puts) = s} = {}
      /\ {r \in Proc : Len(f[r].puts) = 2 /\ f[r].puts[2] = s} = {}
  BY <1>1, <1>2
<1>4. {r \in Proc : f[r].cwd = s} = IF s = 1 THEN Proc ELSE {}
  BY <1>1
<1>5. Cardinality({}) = 0 /\ Cardinality(Proc) \in Nat
  BY Sets, FS_EmptySet, FS_CardinalityType
<1>6. Cardinality({r \in Proc : f[r].cwd = s}) = IF s = 1 THEN Cardinality(Proc) ELSE 0
  BY <1>4, <1>5
<1>7. HoldersOf(f, s) = 0 + 0 + 0 + Cardinality({r \in Proc : f[r].cwd = s}) + 0 + 0
  BY <1>3, <1>5 DEF HoldersOf
<1> QED
  BY <1>5, <1>6, <1>7

Booted == disk \in Disks /\ icache = BootCache /\ proc = [p \in Proc |-> BootProc]

LEMMA BootInv == Booted => TableInv
<1> SUFFICES ASSUME Booted PROVE TableInv
  OBVIOUS
<1>1. ROOTINO \in Inum /\ 1 \in Slot /\ Cardinality(Proc) \in Nat
  BY Sets, FS_CardinalityType
<1>2. icache \in Caches
  <2> DEFINE Record == [inum : Inum \cup {0}, ref : Nat, valid : BOOLEAN, type : Type,
                        nlink : Int, busy : Proc \cup {NoProc}]
  <2>1. NoInode \in Record
    BY DEF NoInode, Type
  <2>2. [NoInode EXCEPT !.inum = ROOTINO, !.ref = Cardinality(Proc)] \in Record
    BY <1>1, <2>1
  <2> HIDE DEF Record
  <2>3. BootCache \in [Slot -> Record]
    BY <2>1, <2>2 DEF BootCache
  <2> QED
    BY <2>3 DEF Caches, Booted, Record
<1>3. <<>> \in Path /\ <<>> \in Seq(Slot) /\ Len(<<>>) = 0
  BY EmptySeq DEF Path
<1>4. BootProc \in Process /\ BootProc.puts = <<>>
  <2>1. 0 \in Pointer /\ 1 \in Pointer
    BY <1>1 DEF Pointer
  <2> QED
    BY <1>3, <2>1 DEF BootProc, Process
<1>5. CallInv(BootProc)
  BY <1>3, Sets DEF BootProc, CallInv, Pointer
<1>6. proc \in [Proc -> Process] /\ \A p \in Proc : proc[p] = BootProc
  BY <1>4 DEF Booted
<1>7. \A s \in Slot : icache[s].ref = IF s = 1 THEN Cardinality(Proc) ELSE 0
  BY DEF BootCache, NoInode, Booted
<1>8. \A s \in Slot : icache[s].ref > 0 => s = 1 /\ icache[s].inum = ROOTINO
  BY <1>7 DEF BootCache, NoInode, Booted
<1>9. \A s \in Slot : Holders(s) = IF s = 1 THEN Cardinality(Proc) ELSE 0
  <2>1. \A s \in Slot : HoldersOf(proc, s) = IF s = 1 THEN Cardinality(Proc) ELSE 0
    BY Boots DEF Booted
  <2> QED
    BY <2>1 DEF Holders, HoldersOf
<1>10. RefsExact
  BY <1>3, <1>4, <1>6, <1>7, <1>8, <1>9 DEF RefsExact
<1>11. \A s \in Slot : icache[s].ref > 0 => icache[s].inum # 0
  BY <1>1, <1>8, Sets
<1> QED
  BY <1>2, <1>5, <1>6, <1>10, <1>11 DEF TableInv, Booted

LEMMA InitInv == Init => TableInv
<1> SUFFICES ASSUME Init PROVE TableInv
  OBVIOUS
<1>1. disk \in Disks
  <2> DEFINE Entries == [Name \cup {".."} -> Inum \cup {0}]
             Inode == [type : Type, nlink : Int, entries : Entries]
  <2>1. NoEntries \in Entries /\ [NoEntries EXCEPT ![".."] = ROOTINO] \in Entries
    BY Sets DEF NoEntries
  <2> HIDE DEF Entries
  <2>2. \A k \in Inum : disk[k] \in Inode
    BY <2>1 DEF Init, Type
  <2>3. disk \in [Inum -> Inode]
    BY <2>2 DEF Init
  <2> QED
    BY <2>3 DEF Disks, Entries
<1> QED
  BY <1>1, BootInv DEF Init, Booted

LEMMA CrashInv == TableInv /\ Crash => TableInv'
<1>1. TableInv /\ Crash => Booted'
  BY DEF TableInv, Crash, Booted
<1> QED
  BY <1>1, BootInv, PTL

LEMMA NextInv == TableInv /\ [Next]_vars => TableInv'
<1> SUFFICES ASSUME TableInv, [Next]_vars PROVE TableInv'
  OBVIOUS
<1>1. ASSUME NEW p \in Proc, Step(p) PROVE TableInv'
  <2>1. CASE Call(p) \/ Close(p)
    BY <2>1, CallStepInv, CloseInv
  <2>2. CASE Iput(p) \/ IputFree(p) \/ IputForget(p) \/ Walk(p)
    BY <2>2, IputInv, IputFreeInv, IputForgetInv, WalkInv
  <2>3. CASE \/ CreateLookup(p) \/ CreateFound(p) \/ Ialloc(p) \/ IallocGet(p)
             \/ CreateInit(p)
    BY <2>3, CreateLookupInv, CreateFoundInv, IallocInv, IallocGetInv, CreateInitInv
  <2>4. CASE CreateNest(p) \/ CreateDots(p) \/ CreateEnter(p) \/ CreateMade(p)
    BY <2>4, CreateNestInv, CreateDotsInv, CreateEnterInv, CreateMadeInv
  <2>5. CASE OpenFound(p) \/ Chdir(p)
    BY <2>5, OpenFoundInv, ChdirInv
  <2>6. CASE UnlinkLookup(p) \/ UnlinkErase(p) \/ UnlinkNest(p) \/ UnlinkCount(p)
    BY <2>6, UnlinkLookupInv, UnlinkEraseInv, UnlinkNestInv, UnlinkCountInv
  <2>7. CASE LinkCount(p) \/ LinkAgain(p) \/ LinkEnter(p) \/ LinkBad(p)
    BY <2>7, LinkCountInv, LinkAgainInv, LinkEnterInv, LinkBadInv
  <2> QED
    BY <1>1, <2>1, <2>2, <2>3, <2>4, <2>5, <2>6, <2>7 DEF Step
<1>2. CASE Crash
  BY <1>2, CrashInv
<1>3. CASE UNCHANGED vars
  BY <1>3, Halts DEF vars
<1> QED
  BY <1>1, <1>2, <1>3 DEF Next

\* At every place of a system call a process holds exactly the inodes that fs.c and
\* sysfile.c have it hold there (CallInv), and the cache is as RefsExact says.
THEOREM TablesCorrect == Spec => []TableInv
BY InitInv, NextInv, PTL DEF Spec

\* The reference count that iget(), idup() and iput() keep of a cached inode is at
\* all times the number of variables that hold it: namex(), create(), open, mkdir,
\* link, unlink, chdir and close put each inode they got exactly once on each of
\* their paths, and iget() never caches an inode twice, so its lock is one lock.
THEOREM RefsAlwaysExact == Spec => []RefsExact
<1>1. TableInv => RefsExact
  BY DEF TableInv
<1> QED
  BY <1>1, TablesCorrect, PTL

-----------------------------------------------------------------------------
(* What processes have, and who has a slot *)

\* The slots that a process has are cached.
LEMMA HasLive ==
  ASSUME TableInv, NEW r \in Proc
  PROVE  /\ \A s \in Slot : Uses(proc[r], s) \/ Kills(proc[r], s) \/ s \in Locked(proc[r]) =>
              Live(s)
         /\ proc[r].pc \in {"init", "nest", "dots", "enter"} =>
              Live(proc[r].ip) /\ New(icache, proc[r]) = icache[proc[r].ip].inum
         /\ New(icache, proc[r]) \in Inum \cup {0}
         /\ New(icache, proc[r]) # 0 => proc[r].pc \in {"iget", "init", "nest", "dots", "enter"}
<1>1. Fits(proc[r])
  BY Held
<1>2. \A s \in Slot : Uses(proc[r], s) => Live(s)
  BY <1>1, Held, Sets DEF Uses
<1>3. \A s \in Slot : Kills(proc[r], s) => Live(s)
  BY <1>1, Held, Sets DEF Kills, Fits, CallInv
<1>4. \A s \in Slot : s \in Locked(proc[r]) => Live(s)
  BY <1>1, <1>3, Held, Sets DEF Locked, Kills, Fits, CallInv
<1>5. proc[r].pc \in {"init", "nest", "dots", "enter"} => Live(proc[r].ip)
  BY <1>1, Held, Sets DEF Fits, CallInv
<1>6. proc[r].pc = "iget" => proc[r].ip \in Inum
  BY <1>1 DEF Fits, CallInv
<1> QED
  BY <1>2, <1>3, <1>4, <1>5, <1>6 DEF New, Live

\* What a process between two puts uses, by the list of what it has yet to put.
LEMMA UsesOf ==
  ASSUME NEW q, q.iput = "start"
  PROVE  /\ \A s : ~ Kills(q, s)
         /\ q.puts = <<>> => \A s \in Slot : Uses(q, s) <=>
              s \in {q.dp, q.file, q.cwd} \/ (s = q.ip /\ q.pc \notin {"iget", "init", "nest",
                                                                     "dots", "enter"})
         /\ \A x \in Slot : q.puts = <<x>> => \A s \in Slot : Uses(q, s) <=>
              s \in {q.dp, q.file, q.cwd, x} \/ (s = q.ip /\ q.pc \notin {"iget", "init", "nest",
                                                                        "dots", "enter"})
         /\ \A x, y \in Slot : q.puts = <<x, y>> => \A s \in Slot : Uses(q, s) <=>
              s \in {q.dp, q.file, q.cwd, x, y} \/ (s = q.ip /\ q.pc \notin {"iget", "init", "nest",
                                                                           "dots", "enter"})
<1>1. \A s : ~ Kills(q, s)
  BY DEF Kills
<1>2. Len(<<>>) = 0
  OBVIOUS
<1>3. q.puts = <<>> => \A s \in Slot : Uses(q, s) <=>
        s \in {q.dp, q.file, q.cwd} \/ (s = q.ip /\ q.pc \notin {"iget", "init", "nest",
                                                               "dots", "enter"})
  BY <1>2 DEF Uses
<1>4. ASSUME NEW x \in Slot, q.puts = <<x>>
      PROVE  \A s \in Slot : Uses(q, s) <=>
               s \in {q.dp, q.file, q.cwd, x} \/ (s = q.ip /\ q.pc \notin {"iget", "init", "nest",
                                                                         "dots", "enter"})
  <2>1. q.puts # <<>> /\ Head(q.puts) = x /\ Len(q.puts) = 1
    BY <1>4, ShortLists
  <2> QED
    BY <2>1 DEF Uses
<1>5. ASSUME NEW x \in Slot, NEW y \in Slot, q.puts = <<x, y>>
      PROVE  \A s \in Slot : Uses(q, s) <=>
               s \in {q.dp, q.file, q.cwd, x, y} \/ (s = q.ip /\ q.pc \notin {"iget", "init",
                                                                "nest", "dots", "enter"})
  <2>1. q.puts # <<>> /\ Head(q.puts) = x /\ Len(q.puts) = 2 /\ q.puts[2] = y
    BY <1>5, ShortLists
  <2> QED
    BY <2>1 DEF Uses
<1> QED
  BY <1>1, <1>3, <1>4, <1>5

\* An inode that nobody frees is as the disk has it.
LEMMA Agreed ==
  ASSUME TableInv, TreeInv, NEW s \in Slot, icache[s].ref > 0,
         \A r \in Proc : Kills(proc[r], s) => proc[r].iput = "free"
  PROVE  /\ disk[icache[s].inum].type # "free"
         /\ icache[s].valid => /\ icache[s].type = disk[icache[s].inum].type
                               /\ icache[s].nlink = disk[icache[s].inum].nlink
BY DEF TreeInv, CacheInv

\* An inode that is not locked, or that a process uses, is not freed.
LEMMA NotKilled ==
  ASSUME TableInv, TreeInv, NEW s \in Slot,
         icache[s].busy = NoProc \/ \E p \in Proc : Uses(proc[p], s)
  PROVE  \A r \in Proc : ~ Kills(proc[r], s)
<1>1. \A r \in Proc : Kills(proc[r], s) => s \in Locked(proc[r])
  BY DEF Kills, Locked
<1>2. CASE icache[s].busy = NoProc
  BY <1>1, <1>2, Sets DEF TreeInv, LockInv
<1>3. CASE \E p \in Proc : Uses(proc[p], s)
  BY <1>3 DEF TreeInv, RoleInv
<1> QED
  BY <1>2, <1>3

\* What ilock() finds: the inode is allocated, so the kernel does not halt.
LEMMA Locks ==
  ASSUME TableInv, TreeInv, NEW s \in Slot, icache[s].ref > 0,
         NEW A, Locking(s, A)
  PROVE  /\ A /\ icache[s].busy = NoProc
         /\ \A r \in Proc : ~ Kills(proc[r], s) /\ s \notin Locked(proc[r])
         /\ disk[icache[s].inum].type # "free"
         /\ icache[s].valid => /\ icache[s].type = disk[icache[s].inum].type
                               /\ icache[s].nlink = disk[icache[s].inum].nlink
<1>1. icache[s].busy = NoProc
  BY DEF Locking
<1>2. \A r \in Proc : ~ Kills(proc[r], s)
  BY <1>1, NotKilled
<1>3. /\ disk[icache[s].inum].type # "free"
      /\ icache[s].valid => /\ icache[s].type = disk[icache[s].inum].type
                            /\ icache[s].nlink = disk[icache[s].inum].nlink
  BY <1>2, Agreed
<1>4. \A r \in Proc : s \notin Locked(proc[r])
  BY <1>1, Sets DEF TreeInv, LockInv
<1> QED
  BY <1>1, <1>2, <1>3, <1>4 DEF Locking

-----------------------------------------------------------------------------
(* What a step does to the parts of the invariant *)

\* The inodes that processes have stay in their slots.
Frame(c) == \A s \in Slot : icache[s].ref > 0 => c[s].inum = icache[s].inum

LEMMA After ==
  ASSUME TableInv, NEW p \in Proc, NEW q, NEW c, NEW d, Go(p, q, c, d)
  PROVE  /\ icache' = c /\ disk' = d /\ panicked' = panicked /\ crashes' = crashes
         /\ proc'[p] = q /\ \A r \in Proc \ {p} : proc'[r] = proc[r]
BY DEF Go, TableInv

LEMMA NewSame ==
  ASSUME TableInv, NEW c, Frame(c), NEW r \in Proc
  PROVE  New(c, proc[r]) = New(icache, proc[r])
BY HasLive DEF New, Frame, Live

\* q has the locks, and nothing else is changed of them.
LockOK(p, q, c) ==
  /\ \A s \in Slot : s \in Locked(q) <=> c[s].busy = p
  /\ \A s \in Slot : \A r \in Proc \ {p} : c[s].busy = r <=> icache[s].busy = r
  /\ \A s \in Slot : c[s].busy # NoProc => c[s].valid

LEMMA LockStep ==
  ASSUME TableInv, TreeInv, NEW p \in Proc, NEW q, NEW c, NEW d, Go(p, q, c, d), LockOK(p, q, c)
  PROVE  LockInv'
BY After DEF LockOK, LockInv, TreeInv

\* No other process makes or frees the inode in slot s.
Spare(p, c, s) ==
  \A r \in Proc \ {p} : New(icache, proc[r]) # c[s].inum /\ ~ Kills(proc[r], s)

RoleOK(p, q, c) ==
  /\ Frame(c)
  /\ \A s \in Slot : Uses(q, s) =>
       /\ Uses(proc[p], s) \/ Spare(p, c, s)
       /\ New(c, q) # c[s].inum /\ ~ Kills(q, s)
  /\ New(c, q) # 0 =>
       /\ New(c, q) = New(icache, proc[p])
       /\ q.pc \notin {"iget", "init"} =>
            \A r \in Proc, s \in Slot : Kills(proc[r], s) => icache[s].inum # New(c, q)
  /\ \A s \in Slot : Kills(q, s) =>
       Kills(proc[p], s) /\ q.pc = proc[p].pc /\ q.iput \in {proc[p].iput, "forget"}

LEMMA RoleStep ==
  ASSUME TableInv, TreeInv, NEW p \in Proc, NEW q, NEW c, NEW d, Go(p, q, c, d), RoleOK(p, q, c)
  PROVE  RoleInv'
<1>1. /\ icache' = c /\ proc'[p] = q /\ \A r \in Proc \ {p} : proc'[r] = proc[r]
  BY After
<1>2. \A r \in Proc : New(c, proc[r]) = New(icache, proc[r])
  BY NewSame DEF RoleOK
<1>3. \A r \in Proc, s \in Slot : Uses(proc[r], s) \/ Kills(proc[r], s) =>
        c[s].inum = icache[s].inum
  BY HasLive DEF RoleOK, Frame, Live
<1>4. ASSUME NEW r \in Proc, NEW u \in Proc, NEW s \in Slot, Uses(proc'[r], s)
      PROVE  New(c, proc'[u]) # c[s].inum /\ ~ Kills(proc'[u], s)
  <2>1. CASE r # p /\ u # p
    BY <1>1, <1>2, <1>3, <1>4, <2>1 DEF TreeInv, RoleInv
  <2>2. CASE r = p /\ u = p
    BY <1>1, <1>4, <2>2 DEF RoleOK
  <2>3. CASE r = p /\ u # p
    <3>1. CASE Uses(proc[p], s)
      BY <1>1, <1>2, <1>3, <2>3, <3>1 DEF TreeInv, RoleInv
    <3>2. CASE Spare(p, c, s)
      BY <1>1, <1>2, <2>3, <3>2 DEF Spare
    <3> QED
      BY <1>1, <1>4, <2>3, <3>1, <3>2 DEF RoleOK
  <2>4. CASE r # p /\ u = p
    <3>1. Uses(proc[r], s)
      BY <1>1, <1>4, <2>4
    <3>2. New(icache, proc[p]) # icache[s].inum /\ ~ Kills(proc[p], s)
      BY <3>1 DEF TreeInv, RoleInv
    <3>3. c[s].inum = icache[s].inum /\ c[s].inum # 0
      BY <1>3, <3>1, HasLive, Sets DEF Live
    <3> QED
      BY <1>1, <2>4, <3>2, <3>3 DEF RoleOK
  <2> QED
    BY <2>1, <2>2, <2>3, <2>4
<1>5. ASSUME NEW r \in Proc, NEW u \in Proc,
             New(c, proc'[r]) = New(c, proc'[u]), New(c, proc'[r]) # 0
      PROVE  r = u
  <2>1. ASSUME NEW v \in Proc, New(c, proc'[v]) # 0
        PROVE  New(c, proc'[v]) = New(icache, proc[v])
    BY <1>1, <1>2, <2>1 DEF RoleOK
  <2> QED
    BY <1>5, <2>1 DEF TreeInv, RoleInv
<1>6. ASSUME NEW r \in Proc, NEW u \in Proc, NEW s \in Slot,
             Kills(proc'[r], s), New(c, proc'[u]) = c[s].inum
      PROVE  proc'[r].iput = "forget" /\ proc'[u].pc \in {"iget", "init"}
  <2>1. /\ Kills(proc[r], s) /\ proc'[r].iput \in {proc[r].iput, "forget"}
        /\ r = p => q.pc = proc[p].pc
    BY <1>1, <1>6 DEF RoleOK
  <2>2. c[s].inum = icache[s].inum /\ c[s].inum # 0
    BY <1>3, <2>1, HasLive, Sets DEF Live
  <2>3. New(icache, proc[u]) = icache[s].inum
    BY <1>1, <1>2, <1>6, <2>2 DEF RoleOK
  <2>4. proc[r].iput = "forget" /\ proc[u].pc \in {"iget", "init"}
    BY <2>1, <2>3 DEF TreeInv, RoleInv
  <2>5. u = p => q.pc \in {"iget", "init"}
    BY <1>1, <1>6, <2>1, <2>2 DEF RoleOK
  <2> QED
    BY <1>1, <2>1, <2>4, <2>5
<1> QED
  BY <1>1, <1>4, <1>5, <1>6 DEF RoleInv

\* A slot is kept as it is, read from the disk or written to it, or taken for an inode.
Kept(c, d, s) ==
  /\ c[s].valid = icache[s].valid /\ c[s].type = icache[s].type /\ c[s].nlink = icache[s].nlink
  /\ c[s].ref > 0 => icache[s].ref > 0 /\ c[s].inum = icache[s].inum
  /\ icache[s].ref > 0 => d[icache[s].inum].nlink = disk[icache[s].inum].nlink
Read(c, d, s) ==
  /\ c[s].inum \in Inum /\ d[c[s].inum].type # "free"
  /\ c[s].type = d[c[s].inum].type /\ c[s].nlink = d[c[s].inum].nlink
  /\ \A r \in Proc : ~ Kills(proc[r], s)
Taken(c, d, s) ==
  /\ c[s].inum \in Inum /\ d[c[s].inum].type # "free"
  /\ ~ c[s].valid /\ c[s].nlink = icache[s].nlink

CachedOK(c, d) == \A s \in Slot : Kept(c, d, s) \/ Read(c, d, s) \/ Taken(c, d, s)

LEMMA CacheStep ==
  ASSUME TableInv, TreeInv, NEW p \in Proc, NEW q, NEW c, NEW d, Go(p, q, c, d),
         CachedOK(c, d), proc[p].iput # "forget",
         \A k \in Inum : d[k].type = disk[k].type /\ d[k].nlink >= 0
  PROVE  CacheInv'
<1>1. /\ icache' = c /\ disk' = d /\ proc'[p] = q /\ \A r \in Proc \ {p} : proc'[r] = proc[r]
  BY After
<1> SUFFICES ASSUME NEW s \in Slot
             PROVE  /\ c[s].nlink >= 0
                    /\ c[s].ref > 0 /\ (\A r \in Proc : Kills(proc'[r], s) => proc'[r].iput = "free") =>
                         /\ d[c[s].inum].type # "free"
                         /\ c[s].valid => /\ c[s].type = d[c[s].inum].type
                                          /\ c[s].nlink = d[c[s].inum].nlink
  BY <1>1 DEF CacheInv
<1>2. CASE Kept(c, d, s)
  <2>1. c[s].nlink >= 0
    BY <1>2 DEF Kept, TreeInv, CacheInv
  <2>2. ASSUME c[s].ref > 0, \A r \in Proc : Kills(proc'[r], s) => proc'[r].iput = "free"
        PROVE  /\ d[c[s].inum].type # "free"
               /\ c[s].valid => /\ c[s].type = d[c[s].inum].type
                                /\ c[s].nlink = d[c[s].inum].nlink
    <3>1. icache[s].ref > 0 /\ c[s].inum = icache[s].inum /\ icache[s].inum \in Inum
      BY <1>2, <2>2 DEF Kept, TableInv, Caches
    <3>2. \A r \in Proc : Kills(proc[r], s) => proc[r].iput = "free"
      <4>1. proc[p].iput \in {"start", "free"}
        BY DEF TableInv, Process
      <4> QED
        BY <1>1, <2>2, <4>1 DEF Kills
    <3> QED
      BY <1>2, <3>1, <3>2, Agreed DEF Kept
  <2> QED
    BY <2>1, <2>2
<1>3. CASE Read(c, d, s)
  BY <1>3 DEF Read
<1>4. CASE Taken(c, d, s)
  BY <1>4 DEF Taken, TreeInv, CacheInv
<1> QED
  BY <1>2, <1>3, <1>4 DEF CachedOK

LEMMA DeadStep ==
  ASSUME TableInv, TreeInv, NEW p \in Proc, NEW q, NEW c, NEW d, Go(p, q, c, d),
         RoleOK(p, q, c), CachedOK(c, d),
         \A r \in Proc, s \in Slot : Kills(proc[r], s) => NamesOf(d, icache[s].inum) = {}
  PROVE  DeadInv'
<1>1. /\ icache' = c /\ disk' = d /\ proc'[p] = q /\ \A r \in Proc \ {p} : proc'[r] = proc[r]
  BY After
<1> SUFFICES ASSUME NEW r \in Proc, NEW s \in Slot, Kills(proc'[r], s)
             PROVE  /\ c[s].inum # ROOTINO
                    /\ NamesOf(d, c[s].inum) = {}
                    /\ proc'[r].iput = "free" => c[s].nlink = 0
  BY <1>1 DEF DeadInv
<1>2. /\ Kills(proc[r], s) /\ proc'[r].iput \in {proc[r].iput, "forget"}
  BY <1>1 DEF RoleOK
<1>3. c[s].inum = icache[s].inum
  BY <1>2, HasLive DEF RoleOK, Frame, Live
<1>4. c[s].nlink = icache[s].nlink
  BY <1>2 DEF CachedOK, Kept, Read, Taken
<1> QED
  BY <1>2, <1>3, <1>4 DEF TreeInv, DeadInv

\* What the other processes know stays true on a disk with the same files, and the
\* same names in the directories that they have.
LEMMA KnowsSame ==
  ASSUME TableInv, TreeInv, NEW r \in Proc, NEW c, Frame(c), NEW d,
         \A k \in Inum : d[k].type = disk[k].type /\ d[k].entries = disk[k].entries
  PROVE  Knows(c, d, proc[r])
<1> DEFINE q == proc[r]
<1>1. New(c, q) = New(icache, q) /\ New(c, q) \in Inum \cup {0}
  BY NewSame, HasLive
<1>2. \A k \in Inum : NamesOf(d, k) = NamesOf(disk, k)
  BY DEF NamesOf
<1>3. Fits(q) /\ Knows(icache, disk, q)
  BY Held DEF TreeInv, KnowsInv
<1>4. q.dp # 0 => c[q.dp].inum = icache[q.dp].inum /\ icache[q.dp].inum \in Inum
  BY Held DEF Live, Frame
<1>5. q.ip # 0 /\ q.pc # "iget" => c[q.ip].inum = icache[q.ip].inum /\ icache[q.ip].inum \in Inum
  BY Held DEF Live, Frame
<1>6. q.pc \in {"parent", "ialloc", "iget", "init", "nest", "dots", "enter", "child",
                "unnest"} => q.dp # 0
  BY <1>3 DEF Fits, CallInv
<1>7. q.pc = "child" => q.ip # 0
  BY <1>3 DEF Fits, CallInv
<1>8. New(c, q) # 0 =>
        /\ q.call \in {"creat", "mkdir"}
        /\ New(c, q) # ROOTINO
        /\ d[New(c, q)].type = IF q.call = "mkdir" THEN "dir" ELSE "file"
        /\ \A n \in Name : d[New(c, q)].entries[n] = 0
        /\ NamesOf(d, New(c, q)) = {}
  BY <1>1, <1>2, <1>3 DEF Knows
<1>9. q.pc = "enter" /\ q.call = "mkdir" => d[New(c, q)].entries[".."] = c[q.dp].inum
  <2>1. q.pc = "enter" => New(c, q) # 0
    BY <1>1, HasLive, Sets DEF Live
  <2> QED
    BY <1>1, <1>3, <1>4, <1>6, <2>1 DEF Knows
<1>10. q.pc = "child" => d[c[q.dp].inum].entries[Head(q.path)] = c[q.ip].inum
  BY <1>3, <1>4, <1>5, <1>6, <1>7 DEF Knows
<1>11. q.call = "link" /\ q.ip # 0 /\ q.pc \in {"again", "walk", "parent", "bad"} =>
         d[c[q.ip].inum].type # "dir"
  BY <1>3, <1>5 DEF Knows
<1> QED
  BY <1>3, <1>4, <1>6, <1>8, <1>9, <1>10, <1>11 DEF Knows

-----------------------------------------------------------------------------
(* Links are counted *)

Debt(f, c, k) ==
  Cardinality({p \in Proc : Owes(c, f[p], k)}) + Cardinality({p \in Proc : OwesUp(c, f[p], k)})
Due(c, q, k) ==
  (IF Owes(c, q, k) THEN 1 ELSE 0) + (IF OwesUp(c, q, k) THEN 1 ELSE 0)
Names(d, k) == Cardinality(NamesOf(d, k))
Subs(d, k) == IF d[k].type = "dir" THEN Cardinality(SubdirsOf(d, k)) ELSE 0
Root(k) == IF k = ROOTINO THEN 1 ELSE 0

\* What the other processes owe is the same.
LEMMA OwesSame ==
  ASSUME TableInv, NEW c, Frame(c), NEW r \in Proc, NEW k
  PROVE  /\ Owes(c, proc[r], k) <=> Owes(icache, proc[r], k)
         /\ OwesUp(c, proc[r], k) <=> OwesUp(icache, proc[r], k)
<1>1. Fits(proc[r])
  BY Held
<1>2. /\ proc[r].dp # 0 => c[proc[r].dp].inum = icache[proc[r].dp].inum
      /\ proc[r].ip # 0 /\ proc[r].pc # "iget" => c[proc[r].ip].inum = icache[proc[r].ip].inum
  BY Held DEF Live, Frame
<1>3. proc[r].pc \in {"dots", "unnest", "enter"} => proc[r].dp # 0
  BY <1>1 DEF Fits, CallInv
<1> QED
  BY <1>2, <1>3 DEF Owes, OwesUp

LEMMA DebtStep ==
  ASSUME TableInv, NEW p \in Proc, NEW q, NEW c, NEW d, Go(p, q, c, d), Frame(c), NEW k
  PROVE  /\ Debt(proc, icache, k) \in Nat /\ Debt(proc', c, k) \in Nat
         /\ Due(c, q, k) \in Nat /\ Due(icache, proc[p], k) \in Nat
         /\ Debt(proc', c, k) = Debt(proc, icache, k) + Due(c, q, k) - Due(icache, proc[p], k)
         /\ Debt(proc, icache, k) >= Due(icache, proc[p], k)
<1> DEFINE A == {r \in Proc : Owes(icache, proc[r], k)}
           B == {r \in Proc : OwesUp(icache, proc[r], k)}
           A2 == {r \in Proc : Owes(c, proc'[r], k)}
           B2 == {r \in Proc : OwesUp(c, proc'[r], k)}
<1>1. proc'[p] = q /\ \A r \in Proc \ {p} : proc'[r] = proc[r]
  BY After
<1>2. /\ \A r \in Proc \ {p} : (r \in A <=> r \in A2) /\ (r \in B <=> r \in B2)
      /\ {A, B, A2, B2} \subseteq SUBSET Proc
  BY <1>1, OwesSame
<1>3. /\ Due(icache, proc[p], k) = Is(p \in A) + Is(p \in B)
      /\ Due(c, q, k) = Is(p \in A2) + Is(p \in B2)
  BY <1>1 DEF Due, Is
<1>4. /\ Debt(proc, icache, k) = Cardinality(A) + Cardinality(B)
      /\ Debt(proc', c, k) = Cardinality(A2) + Cardinality(B2)
  BY DEF Debt
<1> HIDE DEF A, B, A2, B2
<1> DEFINE a == Is(p \in A)   a2 == Is(p \in A2)
           b == Is(p \in B)   b2 == Is(p \in B2)
<1>5. a \in Nat /\ b \in Nat /\ a2 \in Nat /\ b2 \in Nat
  BY DEF Is
<1>6. /\ Cardinality(A) \in Nat /\ Cardinality(A2) \in Nat
      /\ Cardinality(A2) = Cardinality(A) + a2 - a /\ Cardinality(A) >= a
  BY <1>2, One
<1>7. /\ Cardinality(B) \in Nat /\ Cardinality(B2) \in Nat
      /\ Cardinality(B2) = Cardinality(B) + b2 - b /\ Cardinality(B) >= b
  BY <1>2, One
<1>8. Due(icache, proc[p], k) = a + b /\ Due(c, q, k) = a2 + b2
  BY <1>3
<1> HIDE DEF a, b, a2, b2
<1> QED
  BY <1>4, <1>5, <1>6, <1>7, <1>8

LEMMA Finite ==
  /\ \A d, k : IsFiniteSet(NamesOf(d, k)) /\ IsFiniteSet(SubdirsOf(d, k))
  /\ \A d, k : Names(d, k) \in Nat /\ Subs(d, k) \in Nat
  /\ \A k : Root(k) \in Nat
<1>1. IsFiniteSet(Inum) /\ IsFiniteSet(Name)
  <2>1. 1 \in Int /\ NINODES \in Int
    BY FileSystemAssumption DEF FileSystemAssumption
  <2> QED
    BY <2>1, FS_Interval, FileSystemAssumption DEF FileSystemAssumption, Inum
<1>2. IsFiniteSet(Inum \X Name)
  BY <1>1, FS_Product
<1>3. ASSUME NEW d, NEW k
      PROVE  IsFiniteSet(NamesOf(d, k)) /\ IsFiniteSet(SubdirsOf(d, k))
  <2>1. NamesOf(d, k) \in SUBSET (Inum \X Name) /\ SubdirsOf(d, k) \in SUBSET Name
    BY DEF NamesOf, SubdirsOf
  <2> QED
    BY <1>1, <1>2, <2>1, FS_Subset
<1>4. ASSUME NEW d, NEW k PROVE Names(d, k) \in Nat /\ Subs(d, k) \in Nat
  BY <1>3, FS_CardinalityType DEF Names, Subs
<1> QED
  BY <1>3, <1>4 DEF Root

\* No process but p owes a link to inode k.
Unowed(p, k) ==
  \A r \in Proc \ {p} : ~ Owes(icache, proc[r], k) /\ ~ OwesUp(icache, proc[r], k)

LEMMA DebtOne ==
  ASSUME TableInv, NEW p \in Proc, NEW k, Unowed(p, k)
  PROVE  Debt(proc, icache, k) = Due(icache, proc[p], k)
<1> DEFINE A == {r \in Proc : Owes(icache, proc[r], k)}
           B == {r \in Proc : OwesUp(icache, proc[r], k)}
           None == {r \in Proc : FALSE}
<1>1. /\ \A r \in Proc \ {p} : (r \in None <=> r \in A) /\ (r \in None <=> r \in B)
      /\ {A, B, None} \subseteq SUBSET Proc /\ p \notin None
  BY DEF Unowed
<1>2. Cardinality(None) = 0
  <2>1. None = {}
    OBVIOUS
  <2> QED
    BY <2>1, FS_EmptySet
<1>3. /\ Due(icache, proc[p], k) = Is(p \in A) + Is(p \in B)
      /\ Debt(proc, icache, k) = Cardinality(A) + Cardinality(B)
  BY DEF Due, Is, Debt
<1> HIDE DEF A, B, None
<1>4. Is(p \in None) = 0 /\ Is(p \in A) \in Nat /\ Is(p \in B) \in Nat
  BY <1>1 DEF Is
<1>5. Cardinality(A) = Cardinality(None) + Is(p \in A) - Is(p \in None)
  BY <1>1, One
<1>6. Cardinality(B) = Cardinality(None) + Is(p \in B) - Is(p \in None)
  BY <1>1, One
<1> QED
  BY <1>2, <1>3, <1>4, <1>5, <1>6

\* The links of k on disk d are counted if no more of them are used up than before, or
\* if p has counted them all.
Paid(p, q, c, d, k) ==
  \/ d[k].nlink - Names(d, k) - Subs(d, k) - Due(c, q, k) >=
       disk[k].nlink - Names(disk, k) - Subs(disk, k) - Due(icache, proc[p], k)
  \/ /\ Unowed(p, k)
     /\ d[k].nlink >= Names(d, k) + Subs(d, k) + Root(k) + Due(c, q, k)

LEMMA CountStep ==
  ASSUME TableInv, TreeInv, NEW p \in Proc, NEW q, NEW c, NEW d \in Disks, Go(p, q, c, d), Frame(c),
         \A k \in Inum : Paid(p, q, c, d, k)
  PROVE  CountInv' /\ \A k \in Inum : d[k].nlink >= 0
<1>1. icache' = c /\ disk' = d
  BY After
<1>2. ASSUME NEW k \in Inum
      PROVE  /\ d[k].nlink >= Names(d, k) + Subs(d, k) + Root(k) + Debt(proc', c, k)
             /\ d[k].nlink >= 0
  <2>1. disk[k].nlink >= Names(disk, k) + Subs(disk, k) + Root(k) + Debt(proc, icache, k)
    <3>1. disk[k].nlink >= Names(disk, k) + Subs(disk, k) + Root(k)
             + Cardinality({r \in Proc : Owes(icache, proc[r], k)})
             + Cardinality({r \in Proc : OwesUp(icache, proc[r], k)})
      BY DEF TreeInv, CountInv, Names, Subs, Root
    <3>2. /\ {r \in Proc : Owes(icache, proc[r], k)} \in SUBSET Proc
          /\ {r \in Proc : OwesUp(icache, proc[r], k)} \in SUBSET Proc
      OBVIOUS
    <3>3. /\ Cardinality({r \in Proc : Owes(icache, proc[r], k)}) \in Nat
          /\ Cardinality({r \in Proc : OwesUp(icache, proc[r], k)}) \in Nat
      BY <3>2, Sets, FS_Subset, FS_CardinalityType
    <3> QED
      BY <3>1, <3>3, Finite DEF Debt
  <2>2. /\ Debt(proc, icache, k) \in Nat /\ Debt(proc', c, k) \in Nat
        /\ Due(c, q, k) \in Nat /\ Due(icache, proc[p], k) \in Nat
        /\ Debt(proc', c, k) = Debt(proc, icache, k) + Due(c, q, k) - Due(icache, proc[p], k)
    BY DebtStep
  <2>3. disk[k].nlink \in Int /\ d[k].nlink \in Int
    BY DEF TableInv, Disks
  <2>4. /\ Names(d, k) \in Nat /\ Subs(d, k) \in Nat /\ Root(k) \in Nat
        /\ Names(disk, k) \in Nat /\ Subs(disk, k) \in Nat
    BY Finite
  <2>5. CASE d[k].nlink - Names(d, k) - Subs(d, k) - Due(c, q, k) >=
              disk[k].nlink - Names(disk, k) - Subs(disk, k) - Due(icache, proc[p], k)
    BY <2>1, <2>2, <2>3, <2>4, <2>5
  <2>6. CASE /\ Unowed(p, k)
             /\ d[k].nlink >= Names(d, k) + Subs(d, k) + Root(k) + Due(c, q, k)
    <3>1. Debt(proc, icache, k) = Due(icache, proc[p], k)
      BY <2>6, DebtOne
    <3>2. d[k].nlink >= Names(d, k) + Subs(d, k) + Root(k) + Due(c, q, k)
      BY <2>6
    <3> QED
      BY <2>2, <2>3, <2>4, <3>1, <3>2
  <2> QED
    BY <2>5, <2>6 DEF Paid
<1>3. CountInv'
  <2> SUFFICES ASSUME NEW k \in Inum
               PROVE  d[k].nlink >= Cardinality(NamesOf(d, k))
                        + (IF d[k].type = "dir" THEN Cardinality(SubdirsOf(d, k)) ELSE 0)
                        + (IF k = ROOTINO THEN 1 ELSE 0)
                        + Cardinality({r \in Proc : Owes(c, proc'[r], k)})
                        + Cardinality({r \in Proc : OwesUp(c, proc'[r], k)})
    BY <1>1 DEF CountInv
  <2>1. d[k].nlink >= Names(d, k) + Subs(d, k) + Root(k)
             + (Cardinality({r \in Proc : Owes(c, proc'[r], k)})
                + Cardinality({r \in Proc : OwesUp(c, proc'[r], k)}))
    BY <1>2 DEF Debt
  <2>2. /\ {r \in Proc : Owes(c, proc'[r], k)} \in SUBSET Proc
        /\ {r \in Proc : OwesUp(c, proc'[r], k)} \in SUBSET Proc
    OBVIOUS
  <2>3. /\ Cardinality({r \in Proc : Owes(c, proc'[r], k)}) \in Nat
        /\ Cardinality({r \in Proc : OwesUp(c, proc'[r], k)}) \in Nat
    BY <2>2, Sets, FS_Subset, FS_CardinalityType
  <2>4. d[k].nlink \in Int /\ Names(d, k) \in Nat /\ Subs(d, k) \in Nat /\ Root(k) \in Nat
    BY Finite DEF Disks
  <2>5. /\ Names(d, k) = Cardinality(NamesOf(d, k))
        /\ Subs(d, k) = IF d[k].type = "dir" THEN Cardinality(SubdirsOf(d, k)) ELSE 0
        /\ Root(k) = IF k = ROOTINO THEN 1 ELSE 0
    BY DEF Names, Subs, Root
  <2> QED
    BY <2>1, <2>3, <2>4, <2>5
<1> QED
  BY <1>2, <1>3

-----------------------------------------------------------------------------
(* Steps that leave the disk alone *)

LEMMA UsedLive == TableInv => \A r \in Proc, s \in Slot : Uses(proc[r], s) => Live(s)
BY HasLive

LEMMA RefsCount == TableInv => \A s \in Slot : icache[s].ref = HoldersOf(proc, s)
BY DEF TableInv, RefsExact, Holders, HoldersOf

LEMMA NextTables ==
  TableInv' => /\ (\A r \in Proc, s \in Slot : Uses(proc[r], s) => Live(s))'
               /\ (\A s \in Slot : icache[s].ref = HoldersOf(proc, s))'
<1>1. TableInv' => (\A r \in Proc, s \in Slot : Uses(proc[r], s) => Live(s))'
  BY UsedLive, PTL
<1>2. TableInv' => (\A s \in Slot : icache[s].ref = HoldersOf(proc, s))'
  BY RefsCount, PTL
<1> QED
  BY <1>1, <1>2

\* A process that makes or frees nothing uses what it holds.
Calm(q) == q.iput = "start" /\ q.pc \notin {"iget", "init", "nest", "dots", "enter"}

LEMMA UsesWeight ==
  ASSUME NEW q, Calm(q), NEW s \in Slot
  PROVE  Weight(q, s) \in Nat /\ (Uses(q, s) <=> Weight(q, s) # 0)
<1> DEFINE a == Eq(q.dp, s)    b == Eq(q.ip, s)    x == Eq(q.file, s)
           y == Eq(q.cwd, s)   g == Is(q.puts # <<>> /\ Head(q.puts) = s)
           h == Is(Len(q.puts) = 2 /\ q.puts[2] = s)
<1>1. Weight(q, s) = a + b + x + y + (g + h)
  BY DEF Weight, In, IpSlot, Calm
<1>2. /\ a \in Nat /\ b \in Nat /\ x \in Nat /\ y \in Nat /\ g \in Nat /\ h \in Nat
      /\ (a # 0 <=> q.dp = s) /\ (b # 0 <=> q.ip = s) /\ (x # 0 <=> q.file = s)
      /\ (y # 0 <=> q.cwd = s)
      /\ g # 0 <=> (q.puts # <<>> /\ Head(q.puts) = s)
      /\ h # 0 <=> (Len(q.puts) = 2 /\ q.puts[2] = s)
  <2>1. \A z : Eq(z, s) \in Nat /\ (Eq(z, s) # 0 <=> z = s)
    BY DEF Eq
  <2>3. a \in Nat /\ b \in Nat /\ x \in Nat /\ y \in Nat
        /\ (a # 0 <=> q.dp = s) /\ (b # 0 <=> q.ip = s) /\ (x # 0 <=> q.file = s)
        /\ (y # 0 <=> q.cwd = s)
    BY <2>1
  <2>4. g \in Nat /\ (g # 0 <=> (q.puts # <<>> /\ Head(q.puts) = s))
    BY DEF Is
  <2>5. h \in Nat /\ (h # 0 <=> (Len(q.puts) = 2 /\ q.puts[2] = s))
    BY DEF Is
  <2> QED
    BY <2>3, <2>4, <2>5
<1> HIDE DEF a, b, x, y, g, h
<1>3. Weight(q, s) # 0 <=> a # 0 \/ b # 0 \/ x # 0 \/ y # 0 \/ g # 0 \/ h # 0
  BY <1>1, <1>2
<1>4. Uses(q, s) <=> a # 0 \/ b # 0 \/ x # 0 \/ y # 0 \/ g # 0 \/ h # 0
  BY <1>2 DEF Uses, Calm
<1>5. Weight(q, s) \in Nat
  BY <1>1, <1>2
<1> QED
  BY <1>3, <1>4, <1>5

\* What a calm process uses after a step it used before, or has taken a reference to.
LEMMA UsedBefore ==
  ASSUME TableInv, TableInv', NEW p \in Proc, NEW q, NEW c, NEW d, Go(p, q, c, d),
         Calm(proc[p]), Calm(q), NEW s \in Slot, Uses(q, s)
  PROVE  Uses(proc[p], s) \/ c[s].ref > icache[s].ref
<1>1. /\ icache' = c /\ proc'[p] = q /\ \A r \in Proc \ {p} : proc'[r] = proc[r]
  BY After
<1>2. icache[s].ref = HoldersOf(proc, s)
  BY RefsCount
<1>3. c[s].ref = HoldersOf(proc', s)
  <2>1. (\A x \in Slot : icache[x].ref = HoldersOf(proc, x))'
    BY NextTables
  <2> QED
    BY <1>1, <2>1 DEF HoldersOf
<1>4. /\ HoldersOf(proc, s) \in Nat /\ HoldersOf(proc', s) \in Nat
      /\ Weight(proc'[p], s) \in Nat /\ Weight(proc[p], s) \in Nat
      /\ HoldersOf(proc', s) = HoldersOf(proc, s) + Weight(proc'[p], s) - Weight(proc[p], s)
  BY <1>1, Recount
<1>5. Weight(q, s) # 0 /\ (Weight(proc[p], s) # 0 => Uses(proc[p], s))
  BY UsesWeight
<1> QED
  BY <1>1, <1>2, <1>3, <1>4, <1>5

LEMMA CalmRole ==
  ASSUME TableInv, TableInv', TreeInv, NEW p \in Proc, NEW q, NEW c, NEW d, Go(p, q, c, d),
         Calm(proc[p]), Calm(q), Frame(c),
         \A s \in Slot : c[s].ref > icache[s].ref => Uses(proc[p], s) \/ Spare(p, c, s)
  PROVE  RoleOK(p, q, c)
<1>1. icache' = c /\ proc'[p] = q
  BY After
<1>2. New(c, q) = 0 /\ \A s \in Slot : ~ Kills(q, s)
  BY DEF Calm, New, Kills
<1>3. ASSUME NEW s \in Slot, Uses(q, s) PROVE c[s].inum # 0
  <2>1. (\A r \in Proc, x \in Slot : Uses(proc[r], x) => Live(x))'
    BY NextTables
  <2>2. (Live(s))'
    BY <1>1, <1>3, <2>1 DEF Uses
  <2> QED
    BY <1>1, <2>2, Sets DEF Live
<1>4. ASSUME NEW s \in Slot, Uses(q, s) PROVE Uses(proc[p], s) \/ Spare(p, c, s)
  BY <1>4, UsedBefore
<1> QED
  BY <1>2, <1>3, <1>4 DEF RoleOK

\* A step that does not allocate or free an inode.
LEMMA Moved ==
  ASSUME TableInv, TreeInv, NEW p \in Proc, NEW q, NEW c, NEW d \in Disks, Go(p, q, c, d),
         LockOK(p, q, c), RoleOK(p, q, c), CachedOK(c, d), proc[p].iput # "forget",
         \A k \in Inum : d[k].type = disk[k].type,
         \A k \in Inum : Paid(p, q, c, d, k),
         Knows(c, d, q), \A r \in Proc \ {p} : Knows(c, d, proc[r]),
         \A r \in Proc, s \in Slot : Kills(proc[r], s) => NamesOf(d, icache[s].inum) = {},
         Shape(d)
  PROVE  TreeInv'
<1>1. /\ icache' = c /\ disk' = d /\ panicked' = panicked /\ crashes' = crashes
      /\ proc'[p] = q /\ \A r \in Proc \ {p} : proc'[r] = proc[r]
  BY After
<1>2. CountInv' /\ \A k \in Inum : d[k].nlink >= 0
  BY CountStep DEF RoleOK
<1>3. LockInv'
  BY LockStep
<1>4. RoleInv'
  BY RoleStep
<1>5. DeadInv'
  BY DeadStep
<1>6. CacheInv'
  BY <1>2, CacheStep
<1>7. KnowsInv'
  BY <1>1 DEF KnowsInv
<1>8. Shape(disk)'
  BY <1>1 DEF Shape, NamesOf
<1>9. RunInv'
  BY <1>1 DEF TreeInv, RunInv
<1> QED
  BY <1>2, <1>3, <1>4, <1>5, <1>6, <1>7, <1>8, <1>9 DEF TreeInv

\* A step that changes link counts only.
LEMMA Recounts ==
  ASSUME TableInv, TreeInv, NEW p \in Proc, NEW q, NEW c, NEW d \in Disks, Go(p, q, c, d),
         LockOK(p, q, c), RoleOK(p, q, c), CachedOK(c, d), proc[p].iput # "forget",
         \A k \in Inum : d[k].type = disk[k].type /\ d[k].entries = disk[k].entries,
         \A k \in Inum :
           \/ d[k].nlink - Due(c, q, k) >= disk[k].nlink - Due(icache, proc[p], k)
           \/ /\ Unowed(p, k)
              /\ d[k].nlink >= Names(disk, k) + Subs(disk, k) + Root(k) + Due(c, q, k),
         Knows(c, d, q)
  PROVE  TreeInv'
<1>1. \A k : NamesOf(d, k) = NamesOf(disk, k)
  BY DEF NamesOf
<1>2. \A k \in Inum : Names(d, k) = Names(disk, k)
  BY <1>1 DEF Names
<1>3. ASSUME NEW k \in Inum PROVE Subs(d, k) = Subs(disk, k)
  <2>1. SubdirsOf(d, k) = SubdirsOf(disk, k)
    <3>1. \A n \in Name : disk[k].entries[n] \in Inum \cup {0}
      BY DEF TableInv, Disks
    <3> QED
      BY <3>1 DEF SubdirsOf
  <2> QED
    BY <2>1 DEF Subs
<1>4. ASSUME NEW k \in Inum PROVE Paid(p, q, c, d, k)
  <2>1. /\ Names(d, k) = Names(disk, k) /\ Subs(d, k) = Subs(disk, k)
        /\ Names(disk, k) \in Nat /\ Subs(disk, k) \in Nat
    BY <1>2, <1>3, Finite
  <2>2. disk[k].nlink \in Int /\ d[k].nlink \in Int
    BY DEF TableInv, Disks
  <2>3. Due(c, q, k) \in Nat /\ Due(icache, proc[p], k) \in Nat
    BY DEF Due
  <2>4. CASE d[k].nlink - Due(c, q, k) >= disk[k].nlink - Due(icache, proc[p], k)
    <3>1. d[k].nlink - Names(d, k) - Subs(d, k) - Due(c, q, k) >=
            disk[k].nlink - Names(disk, k) - Subs(disk, k) - Due(icache, proc[p], k)
      BY <2>1, <2>2, <2>3, <2>4
    <3> QED
      BY <3>1 DEF Paid
  <2>5. CASE /\ Unowed(p, k)
             /\ d[k].nlink >= Names(disk, k) + Subs(disk, k) + Root(k) + Due(c, q, k)
    BY <2>1, <2>5 DEF Paid
  <2> QED
    BY <2>4, <2>5
<1>5. Frame(c)
  BY DEF RoleOK
<1>6. \A r \in Proc : Knows(c, d, proc[r])
  BY <1>5, KnowsSame
<1>8. Shape(d)
  <2>1. Shape(disk)
    BY DEF TreeInv
  <2> QED
    BY <1>1, <2>1, Sets DEF Shape
<1>9. \A r \in Proc, s \in Slot : Kills(proc[r], s) => NamesOf(d, icache[s].inum) = {}
  BY <1>1 DEF TreeInv, DeadInv
<1> QED
  BY <1>4, <1>6, <1>8, <1>9, Moved

LEMMA Same ==
  ASSUME TableInv, TreeInv, NEW p \in Proc, NEW q, NEW c, Go(p, q, c, disk),
         LockOK(p, q, c), RoleOK(p, q, c), CachedOK(c, disk), proc[p].iput # "forget",
         Knows(c, disk, q), \A k \in Inum : Due(c, q, k) <= Due(icache, proc[p], k)
  PROVE  TreeInv'
<1>1. disk \in Disks
  BY DEF TableInv
<1>2. ASSUME NEW k \in Inum
      PROVE  disk[k].nlink - Due(c, q, k) >= disk[k].nlink - Due(icache, proc[p], k)
  <2>1. Due(c, q, k) \in Nat /\ Due(icache, proc[p], k) \in Nat
    BY DEF Due
  <2>2. disk[k].nlink \in Int /\ Due(c, q, k) <= Due(icache, proc[p], k)
    BY <1>1 DEF Disks
  <2> QED
    BY <2>1, <2>2
<1> QED
  BY <1>1, <1>2, Recounts

\* A cache in which one inode may have been locked or unlocked, and read from the disk.
Reads(c, s) ==
  /\ c \in Alike(icache)
  /\ Live(s) /\ (c[s] = icache[s] \/ (Read(c, disk, s) /\ c[s].valid))
  /\ \A t \in Slot : t # s => c[t] = icache[t]

LEMMA ReadsSelf == ASSUME TableInv, NEW s, Live(s) PROVE Reads(icache, s)
<1>1. icache \in Alike(icache)
  BY DEF TableInv, Alike
<1>2. \A t \in Slot : t # s => icache[t] = icache[t]
  OBVIOUS
<1> QED
  BY <1>1, <1>2 DEF Reads

LEMMA Reading ==
  ASSUME TableInv, TreeInv, NEW s, Live(s), icache[s].busy = NoProc,
         NEW x \in Proc \cup {NoProc}, NEW c, c = Ilock(icache, s, x)
  PROVE  /\ Reads(c, s) /\ Read(c, disk, s) /\ c[s].valid /\ c[s].busy = x
         /\ disk[icache[s].inum].type # "free" /\ c[s].inum = icache[s].inum
         /\ c[s].type = disk[icache[s].inum].type
         /\ Iunlock(c, s) = Ilock(icache, s, NoProc)
<1>1. icache \in Caches /\ s \in Slot /\ icache[s].ref > 0 /\ icache[s].inum \in Inum
      /\ disk \in Disks
  BY DEF TableInv, Live
<1>2. \A r \in Proc : ~ Kills(proc[r], s)
  BY <1>1, NotKilled
<1>3. /\ disk[icache[s].inum].type # "free"
      /\ icache[s].valid => /\ icache[s].type = disk[icache[s].inum].type
                            /\ icache[s].nlink = disk[icache[s].inum].nlink
  BY <1>1, <1>2, Agreed
<1>4. c \in Alike(icache)
  BY <1>1, Sets, Edited
<1> DEFINE y == [icache[s] EXCEPT !.busy = x, !.valid = TRUE,
                               !.type = IF icache[s].valid THEN @ ELSE disk[icache[s].inum].type,
                               !.nlink = IF icache[s].valid THEN @ ELSE disk[icache[s].inum].nlink]
<1>5. c = [icache EXCEPT ![s] = y]
  BY DEF Ilock
<1>6. c[s] = y /\ \A t \in Slot : t # s => c[t] = icache[t]
  BY <1>1, <1>5 DEF Caches
<1>7. /\ y.busy = x /\ y.valid = TRUE /\ y.inum = icache[s].inum
      /\ y.type = IF icache[s].valid THEN icache[s].type ELSE disk[icache[s].inum].type
      /\ y.nlink = IF icache[s].valid THEN icache[s].nlink ELSE disk[icache[s].inum].nlink
  BY <1>1 DEF Caches
<1>8. Read(c, disk, s) /\ c[s].valid
  BY <1>1, <1>2, <1>3, <1>6, <1>7 DEF Read
<1>9. Iunlock(c, s) = Ilock(icache, s, NoProc)
  <2>1. Iunlock(c, s) = [icache EXCEPT ![s] = [y EXCEPT !.busy = NoProc]]
    BY <1>1, <1>5 DEF Iunlock, Caches
  <2>2. [y EXCEPT !.busy = NoProc] =
          [icache[s] EXCEPT !.busy = NoProc, !.valid = TRUE,
             !.type = IF icache[s].valid THEN @ ELSE disk[icache[s].inum].type,
             !.nlink = IF icache[s].valid THEN @ ELSE disk[icache[s].inum].nlink]
    BY <1>1 DEF Caches
  <2> QED
    BY <2>1, <2>2 DEF Ilock
<1> QED
  BY <1>1, <1>3, <1>4, <1>6, <1>7, <1>8, <1>9 DEF Reads, Live

LEMMA ReadsOK ==
  ASSUME TableInv, NEW s, NEW c, Reads(c, s)
  PROVE  Frame(c) /\ CachedOK(c, disk) /\ \A t \in Slot : c[t].ref = icache[t].ref
BY DEF Reads, Frame, CachedOK, Kept, Alike

\* A slot that is not in use is not locked.
LEMMA Unused ==
  ASSUME TableInv, TreeInv, NEW s \in Slot, ~ (icache[s].ref > 0)
  PROVE  icache[s].busy = NoProc
<1>1. icache[s].busy \in Proc \cup {NoProc}
  BY DEF TableInv, Caches
<1>2. \A r \in Proc : s \notin Locked(proc[r])
  BY HasLive DEF Live
<1> QED
  BY <1>1, <1>2 DEF TreeInv, LockInv

\* What iget() of an allocated inode makes of such a cache.
LEMMA Gets ==
  ASSUME TableInv, TreeInv, NEW s, NEW c, Reads(c, s), NEW k \in Inum, SlotsFor(c, k) # {},
         disk[k].type # "free"
  PROVE  /\ SlotOf(c, k) \in Slot /\ Iget(c, k)[SlotOf(c, k)].inum = k
         /\ Frame(Iget(c, k)) /\ CachedOK(Iget(c, k), disk)
         /\ \A t \in Slot : Iget(c, k)[t].busy = c[t].busy
         /\ \A t \in Slot : Iget(c, k)[t].busy # NoProc /\ c[t].valid => Iget(c, k)[t].valid
         /\ \A t \in Slot : Iget(c, k)[t].ref > icache[t].ref =>
              t = SlotOf(c, k) /\ (icache[t].ref > 0 => icache[t].inum = k)
<1> DEFINE t == SlotOf(c, k)   e == Iget(c, k)
<1>1. c \in Caches /\ CacheOK(c) /\ \A x \in Slot : c[x].ref = icache[x].ref /\ c[x].inum = icache[x].inum
  BY AlikeOK DEF Reads, Alike, TableInv, CacheOK, RefsExact
<1>2. /\ t \in Slot /\ e[t].inum = k
      /\ \A x \in Slot : e[x].ref = c[x].ref + Eq(t, x)
  BY <1>1, Got
<1>3. e = [c EXCEPT ![t] = IF c[t].ref > 0 THEN [c[t] EXCEPT !.ref = @ + 1]
                ELSE [c[t] EXCEPT !.inum = k, !.ref = 1, !.valid = FALSE, !.busy = NoProc]]
  BY DEF Iget
<1> HIDE DEF t, e
<1>4. \A x \in Slot : x # t => e[x] = c[x]
  BY <1>1, <1>2, <1>3 DEF Caches
<1>5. CASE c[t].ref > 0
  <2>1. e[t] = [c[t] EXCEPT !.ref = @ + 1]
    BY <1>1, <1>2, <1>3, <1>5 DEF Caches
  <2>2. /\ e[t].inum = c[t].inum /\ e[t].valid = c[t].valid /\ e[t].type = c[t].type
        /\ e[t].nlink = c[t].nlink /\ e[t].busy = c[t].busy
    BY <1>1, <1>2, <2>1 DEF Caches
  <2>3. \A x \in Slot : /\ e[x].inum = c[x].inum /\ e[x].valid = c[x].valid
                        /\ e[x].type = c[x].type /\ e[x].nlink = c[x].nlink /\ e[x].busy = c[x].busy
    BY <1>4, <2>2
  <2>4. Frame(e)
    BY <1>1, <2>3 DEF Frame
  <2>5. CachedOK(e, disk)
    <3> SUFFICES ASSUME NEW x \in Slot PROVE Kept(e, disk, x) \/ Read(e, disk, x)
      BY DEF CachedOK
    <3>1. c[x] = icache[x] \/ Read(c, disk, x)
      BY DEF Reads
    <3>2. CASE Read(c, disk, x)
      BY <2>3, <3>2 DEF Read
    <3>3. CASE c[x] = icache[x]
      <4>1. e[x].ref > 0 => icache[x].ref > 0
        BY <1>1, <1>2, <1>4, <1>5
      <4> QED
        BY <2>3, <3>3, <4>1 DEF Kept
    <3> QED
      BY <3>1, <3>2, <3>3
  <2>6. icache[t].inum = k
    BY <1>1, <1>2, <2>2
  <2>7. \A x \in Slot : e[x].ref > icache[x].ref => x = t
    <3> SUFFICES ASSUME NEW x \in Slot, x # t PROVE ~ (e[x].ref > icache[x].ref)
      OBVIOUS
    <3>1. icache[x].ref \in Nat /\ e[x].ref = icache[x].ref
      BY <1>1, <1>4 DEF TableInv, Caches
    <3> QED
      BY <3>1
  <2> QED
    BY <1>2, <2>3, <2>4, <2>5, <2>6, <2>7 DEF t, e
<1>6. CASE ~ (c[t].ref > 0)
  <2>1. e[t] = [c[t] EXCEPT !.inum = k, !.ref = 1, !.valid = FALSE, !.busy = NoProc]
    BY <1>1, <1>2, <1>3, <1>6 DEF Caches
  <2>2. /\ e[t].inum = k /\ e[t].valid = FALSE /\ e[t].nlink = c[t].nlink /\ e[t].busy = NoProc
    BY <1>1, <1>2, <2>1 DEF Caches
  <2>3. c[t] = icache[t] /\ icache[t].busy = NoProc /\ ~ (icache[t].ref > 0)
    <3>1. ~ (icache[t].ref > 0)
      BY <1>1, <1>2, <1>6
    <3> QED
      BY <1>2, <3>1, Unused DEF Reads, Live
  <2>4. Frame(e)
    BY <1>1, <1>4, <2>3 DEF Frame
  <2>5. CachedOK(e, disk)
    <3> SUFFICES ASSUME NEW x \in Slot PROVE Kept(e, disk, x) \/ Read(e, disk, x) \/ Taken(e, disk, x)
      BY DEF CachedOK
    <3>1. CASE x = t
      BY <2>2, <2>3, <3>1 DEF Taken
    <3>2. CASE x # t
      <4>1. e[x] = c[x] /\ (c[x] = icache[x] \/ Read(c, disk, x))
        BY <1>4, <3>2 DEF Reads
      <4> QED
        BY <4>1 DEF Read, Kept
    <3> QED
      BY <3>1, <3>2
  <2>6. \A x \in Slot : e[x].ref > icache[x].ref => x = t
    <3> SUFFICES ASSUME NEW x \in Slot, x # t PROVE ~ (e[x].ref > icache[x].ref)
      OBVIOUS
    <3>1. icache[x].ref \in Nat /\ e[x].ref = icache[x].ref
      BY <1>1, <1>4 DEF TableInv, Caches
    <3> QED
      BY <3>1
  <2>7. \A x \in Slot : e[x].busy = c[x].busy /\ (e[x].busy # NoProc /\ c[x].valid => e[x].valid)
    BY <1>4, <2>2, <2>3
  <2> QED
    BY <1>2, <2>3, <2>4, <2>5, <2>6, <2>7 DEF t, e
<1> QED
  BY <1>5, <1>6

\* An inode that a name leads to, or the root, is not made or freed by anybody.
LEMMA SpareInode ==
  ASSUME TableInv, TreeInv, NEW k \in Inum, k = ROOTINO \/ NamesOf(disk, k) # {}
  PROVE  /\ disk[k].type # "free"
         /\ \A r \in Proc : New(icache, proc[r]) # k
         /\ \A r \in Proc, s \in Slot : Kills(proc[r], s) => icache[s].inum # k
<1>1. disk[k].type # "free"
  BY DEF TreeInv, Shape
<1>2. \A r \in Proc : New(icache, proc[r]) # k
  BY Sets DEF TreeInv, KnowsInv, Knows
<1>3. \A r \in Proc, s \in Slot : Kills(proc[r], s) => icache[s].inum # k
  BY DEF TreeInv, DeadInv
<1> QED
  BY <1>1, <1>2, <1>3

\* So what iget() returns of it is used by more processes, but not made or freed.
LEMMA GetsSpare ==
  ASSUME TableInv, TreeInv, NEW p \in Proc, NEW s, NEW c, Reads(c, s), NEW k \in Inum,
         SlotsFor(c, k) # {}, k = ROOTINO \/ NamesOf(disk, k) # {}
  PROVE  \A t \in Slot : Iget(c, k)[t].ref > icache[t].ref => Spare(p, Iget(c, k), t)
<1> SUFFICES ASSUME NEW t \in Slot, Iget(c, k)[t].ref > icache[t].ref, NEW r \in Proc
             PROVE  New(icache, proc[r]) # Iget(c, k)[t].inum /\ ~ Kills(proc[r], t)
  BY DEF Spare
<1>1. /\ Iget(c, k)[t].inum = k
      /\ icache[t].ref > 0 => icache[t].inum = k
  BY SpareInode, Gets
<1>2. Kills(proc[r], t) => icache[t].ref > 0
  BY HasLive DEF Live
<1> QED
  BY <1>1, <1>2, SpareInode

\* The name of an entry of a directory is one of the inode's.
LEMMA EntryNames ==
  ASSUME NEW d, NEW j \in Inum, d[j].type = "dir", NEW n \in Name
  PROVE  <<j, n>> \in NamesOf(d, d[j].entries[n])
BY DEF NamesOf

\* A process that has no inode locked.
Loose(q) ==
  /\ q.iput = "start"
  /\ q.pc \in {"user", "walk", "parent", "found", "open", "chdir", "count", "again", "bad"}

\* link has counted the name that it will write.
Linking(q) == q.call = "link" /\ q.ip # 0 /\ q.pc \in {"again", "walk", "parent", "bad"}

NoDots(q) ==
  /\ \A i \in 1 .. Len(q.path) : q.path[i] # ".."
  /\ \A i \in 1 .. Len(q.new) : q.new[i] # ".."

LEMMA LooseFacts ==
  ASSUME NEW q, Loose(q), Fits(q)
  PROVE  /\ Calm(q) /\ Locked(q) = {}
         /\ \A c, k : Owes(c, q, k) <=> Linking(q) /\ c[q.ip].inum = k
         /\ \A c, k : ~ OwesUp(c, q, k)
         /\ \A c : New(c, q) = 0
<1>1. Calm(q) /\ Locked(q) = {}
  BY DEF Loose, Calm, Locked
<1>2. q.pc \in {"again", "bad"} => q.call = "link"
  BY DEF Fits, CallInv
<1>3. \A c, k : Owes(c, q, k) <=> Linking(q) /\ c[q.ip].inum = k
  BY <1>2 DEF Loose, Owes, Linking
<1>4. \A c, k : ~ OwesUp(c, q, k)
  BY DEF Loose, OwesUp
<1> QED
  BY <1>1, <1>3, <1>4 DEF New, Loose

\* The cache after iget(), ilock() with iunlock(), and the like by process p.
Undisturbed(p, c) ==
  /\ Frame(c) /\ CachedOK(c, disk)
  /\ \A s \in Slot : c[s].busy = icache[s].busy /\ (c[s].busy # NoProc => c[s].valid)
  /\ \A s \in Slot : c[s].ref > icache[s].ref => Uses(proc[p], s) \/ Spare(p, c, s)

LEMMA StillUndisturbed ==
  ASSUME TableInv, TreeInv, NEW p \in Proc PROVE Undisturbed(p, icache)
<1>1. Frame(icache) /\ CachedOK(icache, disk)
  BY DEF Frame, CachedOK, Kept
<1>2. \A x \in Slot : icache[x].busy # NoProc => icache[x].valid
  BY DEF TreeInv, LockInv
<1>3. \A x \in Slot : ~ (icache[x].ref > icache[x].ref)
  BY DEF TableInv, Caches
<1> QED
  BY <1>1, <1>2, <1>3 DEF Undisturbed

LEMMA Peeks ==
  ASSUME TableInv, TreeInv, NEW p \in Proc, NEW s, Live(s), icache[s].busy = NoProc
  PROVE  LET c == Ilock(icache, s, NoProc) IN
           /\ Undisturbed(p, c) /\ Reads(c, s)
           /\ c[s].type = disk[icache[s].inum].type /\ c[s].inum = icache[s].inum
<1> PICK c : c = Ilock(icache, s, NoProc)
  OBVIOUS
<1>1. /\ Reads(c, s) /\ c[s].busy = NoProc /\ c[s].inum = icache[s].inum
      /\ c[s].type = disk[icache[s].inum].type
  BY Reading
<1>2. Frame(c) /\ CachedOK(c, disk) /\ \A t \in Slot : c[t].ref = icache[t].ref
  BY <1>1, ReadsOK
<1>3. \A t \in Slot : ~ (c[t].ref > icache[t].ref)
  BY <1>2 DEF TableInv, Caches
<1>4. \A t \in Slot : c[t].busy = icache[t].busy /\ (c[t].busy # NoProc => c[t].valid)
  BY <1>1 DEF Reads, TreeInv, LockInv
<1> QED
  BY <1>1, <1>2, <1>3, <1>4 DEF Undisturbed

LEMMA Finds ==
  ASSUME TableInv, TreeInv, NEW p \in Proc, NEW s, NEW c, Reads(c, s), Undisturbed(p, c),
         NEW k \in Inum, SlotsFor(c, k) # {}, k = ROOTINO \/ NamesOf(disk, k) # {}
  PROVE  /\ SlotOf(c, k) \in Slot /\ Iget(c, k)[SlotOf(c, k)].inum = k
         /\ Undisturbed(p, Iget(c, k))
<1>1. disk[k].type # "free"
  BY SpareInode
<1>2. /\ SlotOf(c, k) \in Slot /\ Iget(c, k)[SlotOf(c, k)].inum = k
      /\ Frame(Iget(c, k)) /\ CachedOK(Iget(c, k), disk)
      /\ \A t \in Slot : Iget(c, k)[t].busy = c[t].busy
      /\ \A t \in Slot : Iget(c, k)[t].busy # NoProc /\ c[t].valid => Iget(c, k)[t].valid
  BY <1>1, Gets
<1>3. \A t \in Slot : Iget(c, k)[t].ref > icache[t].ref => Spare(p, Iget(c, k), t)
  BY GetsSpare
<1> QED
  BY <1>2, <1>3 DEF Undisturbed

LEMMA Loosely ==
  ASSUME TableInv, TableInv', TreeInv, NEW p \in Proc, NEW q, NEW c, Go(p, q, c, disk),
         Loose(proc[p]), Loose(q), NoDots(q), Undisturbed(p, c),
         q.pc = "parent" => disk[c[q.dp].inum].type = "dir",
         Linking(q) => Linking(proc[p]) /\ q.ip = proc[p].ip
  PROVE  TreeInv'
<1>1. Fits(proc[p]) /\ Fits(q)
  <2>1. \A r \in Proc : Fits(proc'[r])
    BY DEF TableInv, RefsExact, Fits
  <2> QED
    BY <2>1, Held, After
<1>0. /\ Frame(c) /\ CachedOK(c, disk)
      /\ \A s \in Slot : c[s].busy = icache[s].busy /\ (c[s].busy # NoProc => c[s].valid)
      /\ \A s \in Slot : c[s].ref > icache[s].ref => Uses(proc[p], s) \/ Spare(p, c, s)
  BY DEF Undisturbed
<1>2. Calm(proc[p]) /\ Calm(q) /\ Locked(proc[p]) = {} /\ Locked(q) = {}
  BY <1>1, LooseFacts
<1>3. LockOK(p, q, c)
  BY <1>2, <1>0 DEF LockOK, TreeInv, LockInv
<1>4. RoleOK(p, q, c)
  BY <1>2, <1>0, CalmRole
<1>5. Linking(q) => c[q.ip].inum = icache[q.ip].inum /\ icache[q.ip].inum \in Inum
  <2>1. Linking(proc[p]) => Live(proc[p].ip)
    BY Held DEF Linking
  <2> QED
    BY <1>0, <2>1 DEF Live, Frame
<1>6. Knows(c, disk, q)
  <2>1. Linking(q) => disk[c[q.ip].inum].type # "dir"
    BY <1>5 DEF TreeInv, KnowsInv, Knows, Linking
  <2>2. New(c, q) = 0
    BY <1>1, LooseFacts
  <2> QED
    BY <2>1, <2>2 DEF Knows, NoDots, Loose, Linking
<1>7. \A k \in Inum : Due(c, q, k) <= Due(icache, proc[p], k)
  <2> SUFFICES ASSUME NEW k \in Inum PROVE Due(c, q, k) <= Due(icache, proc[p], k)
    OBVIOUS
  <2>1. Owes(c, q, k) => Owes(icache, proc[p], k)
    BY <1>1, <1>5, LooseFacts
  <2>2. ~ OwesUp(c, q, k) /\ ~ OwesUp(icache, proc[p], k)
    BY <1>1, LooseFacts
  <2> QED
    BY <2>1, <2>2 DEF Due
<1>8. proc[p].iput # "forget"
  BY DEF Loose
<1> QED
  BY <1>3, <1>4, <1>6, <1>7, <1>8, <1>0, Same

LEMMA FullStops == ASSUME TreeInv, Panic("full") PROVE TreeInv'
<1>1. UNCHANGED <<disk, icache, proc>> /\ panicked' = "full" /\ crashes' = crashes
  BY DEF Panic
<1>2. LockInv' /\ RoleInv' /\ DeadInv' /\ CacheInv'
  BY <1>1 DEF TreeInv, LockInv, RoleInv, DeadInv, CacheInv, NamesOf
<1>3. KnowsInv' /\ CountInv'
  BY <1>1 DEF TreeInv, KnowsInv, CountInv
<1>4. Shape(disk)' /\ RunInv'
  BY <1>1 DEF TreeInv, Shape, RunInv, NamesOf
<1> QED
  BY <1>2, <1>3, <1>4 DEF TreeInv

\* The rest of a path has no ".." either.
LEMMA TailDots ==
  ASSUME NEW path \in Path, path # <<>>, \A i \in 1 .. Len(path) : path[i] # ".."
  PROVE  /\ Head(path) # ".."
         /\ \A i \in 1 .. Len(Tail(path)) : Tail(path)[i] # ".."
<1>1. Len(path) \in Nat \ {0} /\ Head(path) = path[1]
  BY HeadTailProperties, EmptySeq DEF Path
<1>2. /\ Len(Tail(path)) = Len(path) - 1
      /\ \A i \in 1 .. Len(path) - 1 : Tail(path)[i] = path[i + 1]
  BY HeadTailProperties DEF Path
<1>3. \A i \in 1 .. Len(path) - 1 : i + 1 \in 1 .. Len(path)
  BY <1>1
<1> QED
  BY <1>1, <1>2, <1>3

LEMMA ReturnLoose ==
  ASSUME NEW q \in Process, q.iput = "start", NEW puts
  PROVE  /\ Loose(Return(q, puts)) /\ NoDots(Return(q, puts)) /\ ~ Linking(Return(q, puts))
         /\ Return(q, puts).pc = "user"
<1>1. Len(<<>>) = 0
  OBVIOUS
<1>2. LET r == Return(q, puts) IN /\ r.call = "none" /\ r.pc = "user" /\ r.path = <<>>
                                  /\ r.new = <<>> /\ r.iput = "start"
  BY DEF Return, Process
<1> QED
  BY <1>1, <1>2 DEF Loose, NoDots, Linking

LEMMA FailLoose ==
  ASSUME NEW q \in Process, q.iput = "start", NoDots(q), NEW puts
  PROVE  /\ Loose(Fail(q, puts)) /\ NoDots(Fail(q, puts)) /\ Fail(q, puts).pc # "parent"
         /\ Linking(Fail(q, puts)) => q.call = "link" /\ q.ip # 0 /\ Fail(q, puts).ip = q.ip
<1>1. CASE q.call = "link" /\ q.ip # 0
  <2> DEFINE r == [q EXCEPT !.pc = "bad", !.path = <<>>, !.dp = 0, !.puts = puts]
  <2>1. Fail(q, puts) = r
    BY <1>1 DEF Fail
  <2>2. r.pc = "bad" /\ r.path = <<>> /\ r.new = q.new /\ r.ip = q.ip /\ r.iput = "start"
    BY DEF Process
  <2>3. Len(<<>>) = 0
    OBVIOUS
  <2> HIDE DEF r
  <2>4. Loose(r) /\ NoDots(r) /\ r.pc # "parent" /\ r.ip = q.ip
    BY <2>2, <2>3 DEF Loose, NoDots
  <2> QED
    BY <1>1, <2>1, <2>4
<1>2. CASE ~ (q.call = "link" /\ q.ip # 0)
  <2>1. Fail(q, puts) = Return(q, puts)
    BY <1>2 DEF Fail
  <2> QED
    BY <2>1, ReturnLoose
<1> QED
  BY <1>1, <1>2

LEMMA LookedLoose ==
  ASSUME NEW q \in Process, q.iput = "start", NoDots(q), q.call # "none"
  PROVE  /\ Loose(Looked(q)) /\ NoDots(Looked(q)) /\ Looked(q).pc # "parent"
         /\ Linking(Looked(q)) => q.call = "link" /\ q.ip # 0 /\ Looked(q).ip = q.ip
<1>1. CASE q.path # <<>>
  <2> DEFINE r == [q EXCEPT !.pc = "walk"]
  <2>1. Looked(q) = r
    BY <1>1 DEF Looked
  <2>2. /\ r.call = q.call /\ r.pc = "walk" /\ r.path = q.path /\ r.new = q.new
        /\ r.ip = q.ip /\ r.iput = "start"
    BY DEF Process
  <2> HIDE DEF r
  <2> QED
    BY <2>1, <2>2 DEF Loose, NoDots, Linking
<1>2. CASE q.path = <<>> /\ IsParent(q)
  <2>1. Looked(q) = Fail(q, Append(q.puts, q.dp))
    BY <1>2 DEF Looked
  <2> QED
    BY <2>1, FailLoose
<1>3. CASE q.path = <<>> /\ ~ IsParent(q)
  <2> DEFINE x == IF q.call = "link" THEN "count" ELSE q.call
             r == [q EXCEPT !.ip = q.dp, !.dp = 0, !.pc = x]
  <2>1. Looked(q) = r
    BY <1>3 DEF Looked
  <2>2. x \in {"count", "open", "chdir"}
    BY <1>3 DEF IsParent, Process
  <2>3. r.pc = x /\ r.path = q.path /\ r.new = q.new /\ r.iput = "start"
    BY DEF Process
  <2> HIDE DEF r, x
  <2> QED
    BY <2>1, <2>2, <2>3 DEF Loose, NoDots, Linking
<1> QED
  BY <1>1, <1>2, <1>3

LEMMA StartsWalk ==
  ASSUME TableInv, TableInv', TreeInv, NEW p \in Proc, Loose(proc[p]),
         NEW q \in Process, NEW path \in Path, path # <<>>, StartWalk(p, q, path),
         \A i \in 1 .. Len(path) : path[i] # "..",
         \A i \in 1 .. Len(q.new) : q.new[i] # "..",
         q.iput = "start", q.call # "none", q.cwd = proc[p].cwd,
         q.call = "link" /\ q.ip # 0 => Linking(proc[p]) /\ q.ip = proc[p].ip
  PROVE  TreeInv'
<1> DEFINE s == proc[p].cwd
<1>1. Live(s) /\ Reads(icache, s) /\ ROOTINO \in Inum
  BY Held, Sets, ReadsSelf
<1>2. ASSUME NEW r \in Process, NEW dp \in Slot, NEW rest \in Path,
             r = [q EXCEPT !.dp = dp, !.path = rest],
             \A i \in 1 .. Len(rest) : rest[i] # "..",
             NEW c, Go(p, Looked(r), c, disk), Undisturbed(p, c)
      PROVE  TreeInv'
  <2>1. /\ r.iput = "start" /\ r.call = q.call /\ r.ip = q.ip /\ r.new = q.new /\ r.path = rest
    BY <1>2 DEF Process
  <2>2. NoDots(r)
    BY <1>2, <2>1 DEF NoDots
  <2>3. /\ Loose(Looked(r)) /\ NoDots(Looked(r)) /\ Looked(r).pc # "parent"
        /\ Linking(Looked(r)) => Linking(proc[p]) /\ Looked(r).ip = proc[p].ip
    BY <2>1, <2>2, LookedLoose
  <2> QED
    BY <1>2, <2>3, Loosely
<1>3. CASE Head(path) = "/" /\ SlotsFor(icache, ROOTINO) = {}
  BY <1>3, FullStops DEF StartWalk, Getting
<1>4. CASE Head(path) = "/" /\ SlotsFor(icache, ROOTINO) # {}
  <2> DEFINE t == SlotOf(icache, ROOTINO)   c == Iget(icache, ROOTINO)
             r == [q EXCEPT !.dp = t, !.path = Tail(path)]
  <2>1. Go(p, Looked(r), c, disk)
    BY <1>4 DEF StartWalk, Getting
  <2>2. Undisturbed(p, icache)
    BY StillUndisturbed
  <2>3. t \in Slot /\ Undisturbed(p, c)
    BY <1>1, <1>4, <2>2, Finds
  <2>4. /\ Tail(path) \in Path /\ \A i \in 1 .. Len(Tail(path)) : Tail(path)[i] # ".."
    BY TailDots, HeadTailProperties DEF Path
  <2> HIDE DEF t, c
  <2>5. r \in Process
    BY <2>3, <2>4 DEF Process, Pointer
  <2> HIDE DEF r
  <2>6. r = [q EXCEPT !.dp = t, !.path = Tail(path)]
    BY DEF r
  <2> QED
    BY <1>2, <2>1, <2>3, <2>4, <2>5, <2>6
<1>5. CASE Head(path) # "/"
  <2> DEFINE c == Idup(icache, s)
             r == [q EXCEPT !.dp = s, !.path = path]
  <2>1. Go(p, Looked(r), c, disk)
    BY <1>5 DEF StartWalk
  <2>2. /\ \A x \in Slot : c[x].ref = icache[x].ref + Eq(s, x)
        /\ \A x \in Slot : /\ c[x].busy = icache[x].busy /\ c[x].valid = icache[x].valid
                           /\ c[x].inum = icache[x].inum /\ c[x].type = icache[x].type
                           /\ c[x].nlink = icache[x].nlink
    <3>1. \A x \in Slot : c[x].ref = icache[x].ref + Eq(s, x)
      BY <1>1, Now, Counted DEF Live
    <3>2. icache \in Caches
      BY DEF TableInv
    <3> QED
      BY <3>1, <3>2 DEF Idup, Caches
  <2>3. r \in Process
    BY <1>1 DEF Process, Pointer, Live
  <2> HIDE DEF c, r
  <2>4. Frame(c) /\ CachedOK(c, disk)
    <3>1. \A x \in Slot : c[x].ref > 0 => icache[x].ref > 0
      <4> SUFFICES ASSUME NEW x \in Slot, c[x].ref > 0 PROVE icache[x].ref > 0
        OBVIOUS
      <4>1. CASE x = s
        BY <1>1, <4>1 DEF Live
      <4>2. CASE x # s
        BY <2>2, <4>2 DEF Eq, TableInv, Caches
      <4> QED
        BY <4>1, <4>2
    <3> QED
      BY <2>2, <3>1 DEF Frame, CachedOK, Kept
  <2>5. \A x \in Slot : c[x].ref > icache[x].ref => Uses(proc[p], x)
    <3> SUFFICES ASSUME NEW x \in Slot, x # s PROVE ~ (c[x].ref > icache[x].ref)
      BY DEF Uses
    <3>1. icache[x].ref \in Nat /\ c[x].ref = icache[x].ref
      BY <2>2 DEF Eq, TableInv, Caches
    <3> QED
      BY <3>1
  <2>6. \A x \in Slot : c[x].busy = icache[x].busy /\ (c[x].busy # NoProc => c[x].valid)
    BY <2>2 DEF TreeInv, LockInv
  <2>7. r = [q EXCEPT !.dp = s, !.path = path] /\ s \in Slot
    BY <1>1 DEF r, Live
  <2>8. Undisturbed(p, c)
    BY <2>4, <2>5, <2>6 DEF Undisturbed
  <2> QED
    BY <1>2, <2>1, <2>3, <2>7, <2>8
<1> QED
  BY <1>3, <1>4, <1>5

LEMMA CallTree ==
  ASSUME NoUp, TableInv, TableInv', TreeInv, NEW p \in Proc, Call(p) PROVE TreeInv'
<1>1. PICK c \in Calls :
        /\ At(p, "user")
        /\ StartWalk(p, [proc[p] EXCEPT !.call = c.call, !.new = c.new], c.path)
  BY DEF Call
<1>2. PICK q : q = [proc[p] EXCEPT !.call = c.call, !.new = c.new]
  OBVIOUS
<1>3. /\ c.call \in {"creat", "mkdir", "link", "unlink", "open", "chdir"}
      /\ c.path \in Path /\ c.path # <<>> /\ c.new \in Path
  BY <1>1, FileSystemAssumption DEF FileSystemAssumption
<1>4. /\ Fits(proc[p]) /\ proc[p].pc = "user" /\ proc[p].puts = <<>> /\ Idle(proc[p])
  BY <1>1, Held, Now DEF At
<1>5. /\ q.call = c.call /\ q.new = c.new /\ q.ip = 0 /\ q.iput = "start"
      /\ q.cwd = proc[p].cwd
  BY <1>2, <1>4 DEF Idle, Process, Fits, CallInv
<1>6. q \in Process
  BY <1>2, <1>3, <1>4 DEF Idle, Process
<1>7. Loose(proc[p])
  BY <1>4 DEF Loose, Idle
<1>8. /\ \A i \in 1 .. Len(c.path) : c.path[i] # ".."
      /\ \A i \in 1 .. Len(q.new) : q.new[i] # ".."
  BY <1>5 DEF NoUp
<1>9. StartWalk(p, q, c.path)
  BY <1>1, <1>2
<1> QED
  BY <1>3, <1>5, <1>6, <1>7, <1>8, <1>9, StartsWalk

LEMMA LinkAgainTree ==
  ASSUME TableInv, TableInv', TreeInv, NEW p \in Proc, LinkAgain(p) PROVE TreeInv'
<1>1. PICK q : q = [proc[p] EXCEPT !.new = <<>>]
  OBVIOUS
<1>2. /\ Fits(proc[p]) /\ proc[p].pc = "again" /\ proc[p].puts = <<>> /\ Idle(proc[p])
      /\ Knows(icache, disk, proc[p])
  BY Held, Now DEF At, LinkAgain, TreeInv, KnowsInv
<1>3. <<>> \in Path /\ Len(<<>>) = 0
  BY EmptySeq DEF Path
<1>4. /\ q.call = "link" /\ q.new = <<>> /\ q.ip = proc[p].ip /\ q.iput = "start"
      /\ q.cwd = proc[p].cwd /\ proc[p].call = "link"
  BY <1>1, <1>2 DEF Idle, Process, Fits, CallInv
<1>5. q \in Process
  BY <1>1, <1>2, <1>3 DEF Idle, Process
<1>6. Loose(proc[p]) /\ (q.ip # 0 => Linking(proc[p]))
  BY <1>2, <1>4 DEF Loose, Idle, Linking
<1>7. /\ proc[p].new \in Path /\ proc[p].new # <<>>
      /\ \A i \in 1 .. Len(proc[p].new) : proc[p].new[i] # ".."
      /\ \A i \in 1 .. Len(q.new) : q.new[i] # ".."
  <2>1. proc[p].new \in Path /\ proc[p].new # <<>>
    BY <1>2 DEF Fits, CallInv, Process
  <2>2. \A i \in 1 .. Len(proc[p].new) : proc[p].new[i] # ".."
    BY <1>2 DEF Knows
  <2>3. \A i \in 1 .. Len(q.new) : q.new[i] # ".."
    BY <1>3, <1>4
  <2> QED
    BY <2>1, <2>2, <2>3
<1>8. StartWalk(p, q, proc[p].new)
  BY <1>1 DEF LinkAgain
<1> QED
  BY <1>4, <1>5, <1>6, <1>7, <1>8, StartsWalk

LEMMA CloseTree ==
  ASSUME TableInv, TableInv', TreeInv, NEW p \in Proc, Close(p) PROVE TreeInv'
<1>1. PICK q : q = [proc[p] EXCEPT !.file = 0, !.puts = <<proc[p].file>>]
  OBVIOUS
<1>2. /\ Fits(proc[p]) /\ proc[p].pc = "user" /\ Idle(proc[p]) /\ Go(p, q, icache, disk)
      /\ Knows(icache, disk, proc[p])
  BY <1>1, Held, Now DEF At, Close, TreeInv, KnowsInv
<1>3. /\ q.pc = "user" /\ q.iput = "start" /\ q.path = proc[p].path /\ q.new = proc[p].new
  BY <1>1, <1>2 DEF Idle, Process
<1>4. Loose(proc[p]) /\ Loose(q) /\ NoDots(q) /\ ~ Linking(q)
  BY <1>2, <1>3 DEF Loose, NoDots, Linking, Idle, Knows
<1>5. Undisturbed(p, icache)
  BY StillUndisturbed
<1> QED
  BY <1>2, <1>3, <1>4, <1>5, Loosely

LEMMA WalkTree ==
  ASSUME TableInv, TableInv', TreeInv, NEW p \in Proc, Walk(p) PROVE TreeInv'
<1> DEFINE q == proc[p]
           s == q.dp
           here == Ilock(icache, s, NoProc)
           child == Entry(s, Head(q.path))
<1>1. /\ q.pc = "walk" /\ q.puts = <<>> /\ Fits(q) /\ Idle(q) /\ q.path # <<>>
      /\ Live(s) /\ Knows(icache, disk, q)
  BY Held, NowAt DEF Walk, At, Fits, CallInv, TreeInv, KnowsInv
<1>2. /\ q.call # "none" /\ Loose(q) /\ NoDots(q)
      /\ q.call = "link" /\ q.ip # 0 => Linking(q)
  BY <1>1 DEF Fits, CallInv, Loose, Idle, NoDots, Knows, Linking
<1>3. icache[s].busy = NoProc
  BY DEF Walk, Locking
<1>4. /\ Undisturbed(p, here) /\ Reads(here, s)
      /\ here[s].type = disk[icache[s].inum].type /\ here[s].inum = icache[s].inum
  BY <1>1, <1>3, Peeks
<1>5. /\ Head(q.path) \in Name /\ Tail(q.path) \in Path
      /\ \A i \in 1 .. Len(Tail(q.path)) : Tail(q.path)[i] # ".."
  <2>1. Head(q.path) \in Name \cup {".."} /\ Tail(q.path) \in Path
    BY <1>1, PathParts DEF Fits, CallInv, Process
  <2>2. /\ Head(q.path) # ".."
        /\ \A i \in 1 .. Len(Tail(q.path)) : Tail(q.path)[i] # ".."
    BY <1>1, TailDots DEF Knows, Fits, Process
  <2> QED
    BY <2>1, <2>2
<1>6. child \in Inum \cup {0}
  BY <1>1, <1>5 DEF Live, Entry, Disks, TableInv
<1> HIDE DEF here, child
<1>7. \/ Go(p, Fail(q, <<s>>), here, disk)
      \/ /\ here[s].type = "dir" /\ Go(p, [q EXCEPT !.pc = "parent"], here, disk)
      \/ Panic("full")
      \/ /\ here[s].type = "dir" /\ child # 0 /\ SlotsFor(here, child) # {}
         /\ Go(p, Looked([q EXCEPT !.dp = SlotOf(here, child), !.path = Tail(@),
                                   !.puts = <<s>>]), Iget(here, child), disk)
  <2>1. icache[s].ref > 0 /\ s \in Slot
    BY <1>1 DEF Live
  <2>2. ~ (~ icache[s].valid /\ disk[icache[s].inum].type = "free")
    <3>1. \A r \in Proc : ~ Kills(proc[r], s)
      BY <1>3, <2>1, NotKilled
    <3> QED
      BY <2>1, <3>1, Agreed
  <2> QED
    BY <2>2 DEF Walk, Locking, Getting, here, child
<1>8. CASE Go(p, Fail(q, <<s>>), here, disk)
  <2>1. /\ Loose(Fail(q, <<s>>)) /\ NoDots(Fail(q, <<s>>)) /\ Fail(q, <<s>>).pc # "parent"
        /\ Linking(Fail(q, <<s>>)) => Linking(q) /\ Fail(q, <<s>>).ip = q.ip
    BY <1>1, <1>2, FailLoose DEF Idle
  <2> QED
    BY <1>2, <1>4, <1>8, <2>1, Loosely
<1>9. CASE here[s].type = "dir" /\ Go(p, [q EXCEPT !.pc = "parent"], here, disk)
  <2>1. PICK r : r = [q EXCEPT !.pc = "parent"]
    OBVIOUS
  <2>2. /\ r.call = q.call /\ r.pc = "parent" /\ r.path = q.path /\ r.new = q.new
        /\ r.dp = q.dp /\ r.ip = q.ip /\ r.iput = "start"
    BY <1>1, <2>1 DEF Idle, Process
  <2>3. Loose(r) /\ NoDots(r) /\ (Linking(r) => Linking(q) /\ r.ip = q.ip)
    BY <1>2, <2>2 DEF Loose, NoDots, Linking
  <2>4. disk[here[r.dp].inum].type = "dir"
    BY <1>4, <1>9, <2>2
  <2> QED
    BY <1>2, <1>4, <1>9, <2>1, <2>3, <2>4, Loosely
<1>10. CASE /\ here[s].type = "dir" /\ child # 0 /\ SlotsFor(here, child) # {}
            /\ Go(p, Looked([q EXCEPT !.dp = SlotOf(here, child), !.path = Tail(@),
                                      !.puts = <<s>>]), Iget(here, child), disk)
  <2> DEFINE t == SlotOf(here, child)
  <2>1. PICK r : r = [q EXCEPT !.dp = t, !.path = Tail(q.path), !.puts = <<s>>]
    OBVIOUS
  <2>2. child \in Inum /\ NamesOf(disk, child) # {}
    BY <1>1, <1>4, <1>5, <1>6, <1>10, EntryNames, Zenon DEF child, Entry, Live
  <2>3. t \in Slot /\ Undisturbed(p, Iget(here, child))
    BY <1>4, <1>10, <2>2, Finds
  <2>4. <<s>> \in Seq(Slot)
    BY <1>1, ShortLists DEF Live
  <2>5. Go(p, Looked(r), Iget(here, child), disk)
    BY <1>10, <2>1
  <2> HIDE DEF t
  <2>6. /\ r.call = q.call /\ r.path = Tail(q.path) /\ r.new = q.new
        /\ r.ip = q.ip /\ r.iput = "start"
    BY <1>1, <2>1 DEF Idle, Process
  <2>7. r \in Process
    BY <1>1, <1>5, <2>1, <2>3, <2>4 DEF Idle, Process, Pointer
  <2>8. NoDots(r)
    BY <1>2, <1>5, <2>6 DEF NoDots
  <2>9. /\ Loose(Looked(r)) /\ NoDots(Looked(r)) /\ Looked(r).pc # "parent"
        /\ Linking(Looked(r)) => Linking(q) /\ Looked(r).ip = q.ip
    BY <1>2, <2>6, <2>7, <2>8, LookedLoose
  <2> QED
    BY <1>2, <2>3, <2>5, <2>9, Loosely
<1> QED
  BY <1>7, <1>8, <1>9, <1>10, FullStops

\* A call ends.
LEMMA EndsTree ==
  ASSUME TableInv, TableInv', TreeInv, NEW p \in Proc, Loose(proc[p]), NEW l, NEW c,
         Undisturbed(p, c),
         \/ Go(p, Return(proc[p], l), c, disk)
         \/ \E x : Go(p, [Return(proc[p], l) EXCEPT !.file = x], c, disk)
         \/ \E x : Go(p, [Return(proc[p], l) EXCEPT !.cwd = x], c, disk)
  PROVE  TreeInv'
<1> DEFINE e == Return(proc[p], l)
<1>1. Loose(e) /\ NoDots(e) /\ ~ Linking(e) /\ e.pc = "user"
  BY ReturnLoose DEF TableInv, Loose
<1>2. PICK r : Go(p, r, c, disk) /\ (r = e \/ (\E x : r = [e EXCEPT !.file = x])
                                       \/ (\E x : r = [e EXCEPT !.cwd = x]))
  OBVIOUS
<1>a. {"pc", "iput", "path", "new", "ip", "call"} \subseteq DOMAIN e
  <2>1. DOMAIN e = DOMAIN proc[p]
    BY DEF Return
  <2>2. proc[p] \in Process
    BY DEF TableInv
  <2>3. {"pc", "iput", "path", "new", "ip", "call"} \subseteq DOMAIN proc[p]
    BY <2>2 DEF Process
  <2> QED
    BY <2>1, <2>3
<1> HIDE DEF e
<1>3. /\ r.pc = e.pc /\ r.iput = e.iput /\ r.path = e.path /\ r.new = e.new /\ r.ip = e.ip
      /\ r.call = e.call
  <2>1. CASE r = e
    BY <2>1
  <2>2. CASE \E x : r = [e EXCEPT !.file = x]
    BY <1>a, <2>2
  <2>3. CASE \E x : r = [e EXCEPT !.cwd = x]
    BY <1>a, <2>3
  <2> QED
    BY <1>2, <2>1, <2>2, <2>3
<1>4. Loose(r) /\ NoDots(r) /\ ~ Linking(r) /\ r.pc # "parent"
  BY <1>1, <1>3 DEF Loose, NoDots, Linking
<1> QED
  BY <1>2, <1>4, Loosely

\* A call that only looks at an inode goes on with the inode unlocked again, unless the
\* kernel halts.
LEMMA Looking1 ==
  ASSUME TableInv, TreeInv, NEW p \in Proc, NEW s, Live(s), NEW A, Locking(s, A)
  PROVE  /\ A /\ Undisturbed(p, Ilock(icache, s, NoProc))
         /\ Reads(Ilock(icache, s, NoProc), s)
         /\ Ilock(icache, s, NoProc)[s].type = disk[icache[s].inum].type
<1>1. s \in Slot /\ icache[s].ref > 0
  BY DEF Live
<1>2. A /\ icache[s].busy = NoProc
  BY <1>1, Locks
<1> QED
  BY <1>2, Peeks

LEMMA CreateFoundTree ==
  ASSUME TableInv, TableInv', TreeInv, NEW p \in Proc, CreateFound(p) PROVE TreeInv'
<1> DEFINE q == proc[p]   here == Ilock(icache, q.ip, NoProc)
<1>1. /\ q.pc = "found" /\ q.puts = <<>> /\ Fits(q) /\ Idle(q) /\ Live(q.ip)
  BY Held, NowAt DEF CreateFound, At, Fits, CallInv
<1>2. Loose(q)
  BY <1>1 DEF Loose, Idle
<1>3. /\ \/ Open(p, q, here, disk)
         \/ Go(p, Return(q, <<q.ip>>), here, disk)
      /\ Undisturbed(p, here)
  <2>1. Locking(q.ip, IF q.call = "creat" /\ here[q.ip].type = "file"
                      THEN Open(p, q, here, disk)
                      ELSE Go(p, Return(q, <<q.ip>>), here, disk))
    BY DEF CreateFound
  <2> HIDE DEF here
  <2>2. /\ IF q.call = "creat" /\ here[q.ip].type = "file"
           THEN Open(p, q, here, disk) ELSE Go(p, Return(q, <<q.ip>>), here, disk)
        /\ Undisturbed(p, here)
    BY <1>1, <2>1, Looking1 DEF here
  <2> QED
    BY <2>2
<1> HIDE DEF here
<1>4. \/ Go(p, Return(q, <<q.ip>>), here, disk)
      \/ Go(p, Return(q, Append(q.puts, q.ip)), here, disk)
      \/ \E x : Go(p, [Return(q, q.puts) EXCEPT !.file = x], here, disk)
  BY <1>3 DEF Open
<1> QED
  BY <1>2, <1>3, <1>4, EndsTree

LEMMA OpenFoundTree ==
  ASSUME TableInv, TableInv', TreeInv, NEW p \in Proc, OpenFound(p) PROVE TreeInv'
<1> DEFINE q == proc[p]   here == Ilock(icache, q.ip, NoProc)
<1>1. /\ q.pc = "open" /\ q.puts = <<>> /\ Fits(q) /\ Idle(q) /\ Live(q.ip)
  BY Held, NowAt DEF OpenFound, At, Fits, CallInv
<1>2. Loose(q)
  BY <1>1 DEF Loose, Idle
<1>3. Open(p, q, here, disk) /\ Undisturbed(p, here)
  <2>1. Locking(q.ip, Open(p, q, here, disk))
    BY DEF OpenFound
  <2> QED
    BY <1>1, <2>1, Looking1
<1> HIDE DEF here
<1>4. \/ Go(p, Return(q, Append(q.puts, q.ip)), here, disk)
      \/ \E x : Go(p, [Return(q, q.puts) EXCEPT !.file = x], here, disk)
  BY <1>3 DEF Open
<1> QED
  BY <1>2, <1>3, <1>4, EndsTree

LEMMA ChdirTree ==
  ASSUME TableInv, TableInv', TreeInv, NEW p \in Proc, Chdir(p) PROVE TreeInv'
<1> DEFINE q == proc[p]   here == Ilock(icache, q.ip, NoProc)
           A == IF here[q.ip].type # "dir" THEN Go(p, Return(q, <<q.ip>>), here, disk)
                ELSE Go(p, [Return(q, <<q.cwd>>) EXCEPT !.cwd = q.ip], here, disk)
<1>1. /\ q.pc = "chdir" /\ q.puts = <<>> /\ Fits(q) /\ Idle(q) /\ Live(q.ip)
  BY Held, NowAt DEF Chdir, At, Fits, CallInv
<1>2. Loose(q)
  BY <1>1 DEF Loose, Idle
<1>3. Locking(q.ip, A)
  BY DEF Chdir
<1>4. A /\ Undisturbed(p, here)
  <2> HIDE DEF A
  <2> QED
    BY <1>1, <1>3, Looking1
<1> HIDE DEF here
<1>5. \/ Go(p, Return(q, <<q.ip>>), here, disk)
      \/ \E x : Go(p, [Return(q, <<q.cwd>>) EXCEPT !.cwd = x], here, disk)
  BY <1>4
<1> QED
  BY <1>2, <1>4, <1>5, EndsTree

-----------------------------------------------------------------------------
(* Steps that lock or unlock *)

\* A step with one inode of the process that it read from the disk.
LEMMA Locked1 ==
  ASSUME TableInv, TreeInv, NEW p \in Proc, NEW s, Live(s), icache[s].busy = NoProc,
         NEW q, NEW c, Reads(c, s), c[s].valid, c[s].busy = p,
         Locked(proc[p]) = {}, Locked(q) = {s}
  PROVE  LockOK(p, q, c) /\ Frame(c) /\ CachedOK(c, disk) /\ \A t \in Slot : c[t].ref = icache[t].ref
<1>1. Frame(c) /\ CachedOK(c, disk) /\ \A t \in Slot : c[t].ref = icache[t].ref
  BY ReadsOK
<1>2. \A t \in Slot : t # s => c[t] = icache[t]
  BY DEF Reads
<1>3. s \in Slot /\ p # NoProc
  BY Sets DEF Live
<1>4. \A t \in Slot : icache[t].busy # p
  BY DEF TreeInv, LockInv
<1>5. \A t \in Slot : t \in Locked(q) <=> c[t].busy = p
  BY <1>2, <1>4
<1>6. \A t \in Slot : \A r \in Proc \ {p} : c[t].busy = r <=> icache[t].busy = r
  BY <1>2, Sets
<1>7. \A t \in Slot : c[t].busy # NoProc => c[t].valid
  BY <1>2 DEF TreeInv, LockInv
<1> QED
  BY <1>1, <1>5, <1>6, <1>7 DEF LockOK

\* What the operations on a cache change.
LEMMA Fields ==
  ASSUME NEW c \in Caches, NEW s \in Slot
  PROVE  /\ \A t \in Slot : t # s => Iunlock(c, s)[t] = c[t]
         /\ /\ Iunlock(c, s)[s].inum = c[s].inum /\ Iunlock(c, s)[s].ref = c[s].ref
            /\ Iunlock(c, s)[s].valid = c[s].valid /\ Iunlock(c, s)[s].type = c[s].type
            /\ Iunlock(c, s)[s].nlink = c[s].nlink /\ Iunlock(c, s)[s].busy = NoProc
         /\ \A n \in Int :
              /\ \A t \in Slot : t # s => AddLink(c, s, n)[t] = c[t]
              /\ AddLink(c, s, n)[s].inum = c[s].inum /\ AddLink(c, s, n)[s].ref = c[s].ref
              /\ AddLink(c, s, n)[s].valid = c[s].valid /\ AddLink(c, s, n)[s].type = c[s].type
              /\ AddLink(c, s, n)[s].nlink = c[s].nlink + n /\ AddLink(c, s, n)[s].busy = c[s].busy
BY DEF Caches, Iunlock, AddLink

\* To lock for itself, a process that has no lock.
LEMMA CreateLookupTree ==
  ASSUME TableInv, TableInv', TreeInv, NEW p \in Proc, CreateLookup(p) PROVE TreeInv'
<1> DEFINE q == proc[p]   s == q.dp
           here == Ilock(icache, s, NoProc)
           mine == Ilock(icache, s, p)
           child == Entry(s, Head(q.path))
<1>1. /\ q.pc = "parent" /\ q.puts = <<>> /\ Fits(q) /\ Idle(q) /\ q.path # <<>>
      /\ Live(s) /\ q.call \in {"creat", "mkdir"} /\ q.ip = 0 /\ Knows(icache, disk, q)
  BY Held, NowAt DEF CreateLookup, At, Fits, CallInv, TreeInv, KnowsInv
<1>2. Loose(q) /\ NoDots(q)
  BY <1>1 DEF Loose, Idle, NoDots, Knows
<1>3. Head(q.path) \in Name
  <2>1. Head(q.path) \in Name \cup {".."}
    BY <1>1, PathParts DEF Fits, CallInv, Process
  <2>2. Head(q.path) # ".."
    BY <1>1, TailDots DEF Knows, Fits, Process
  <2> QED
    BY <2>1, <2>2
<1>4. child \in Inum \cup {0}
  BY <1>1, <1>3 DEF Live, Entry, Disks, TableInv
<1>5. disk[icache[s].inum].type = "dir"
  BY <1>1 DEF Knows
<1> DEFINE A == IF child = 0
                THEN Go(p, [q EXCEPT !.pc = "ialloc"], mine, disk)
                ELSE Getting(here, child,
                       Go(p, [q EXCEPT !.pc = "found", !.path = <<>>, !.ip = SlotOf(here, child),
                                       !.dp = 0, !.puts = <<s>>],
                          Iget(here, child), disk))
<1>6. Locking(s, A)
  BY DEF CreateLookup
<1>7. A /\ Undisturbed(p, here) /\ Reads(here, s) /\ icache[s].busy = NoProc
  <2> HIDE DEF A
  <2>1. icache[s].busy = NoProc
    BY <1>6 DEF Locking
  <2> QED
    BY <1>1, <1>6, <2>1, Looking1
<1> HIDE DEF here, child, mine
<1>8. \/ Go(p, [q EXCEPT !.pc = "ialloc"], mine, disk)
      \/ Panic("full")
      \/ /\ child # 0 /\ SlotsFor(here, child) # {}
         /\ Go(p, [q EXCEPT !.pc = "found", !.path = <<>>, !.ip = SlotOf(here, child),
                            !.dp = 0, !.puts = <<s>>],
               Iget(here, child), disk)
  BY <1>7 DEF Getting
<1>9. CASE Go(p, [q EXCEPT !.pc = "ialloc"], mine, disk)
  <2>1. PICK r : r = [q EXCEPT !.pc = "ialloc"]
    OBVIOUS
  <2>2. /\ r.call = q.call /\ r.pc = "ialloc" /\ r.path = q.path /\ r.new = q.new
        /\ r.dp = s /\ r.ip = 0 /\ r.puts = <<>> /\ r.iput = "start"
        /\ r.file = q.file /\ r.cwd = q.cwd
    BY <1>1, <2>1 DEF Idle, Process
  <2>3. Reads(mine, s) /\ mine[s].valid /\ mine[s].busy = p
    BY <1>1, <1>7, Sets, Reading DEF mine
  <2>4. s \in Slot /\ Locked(q) = {} /\ Locked(r) = {s} /\ Calm(q) /\ Calm(r)
    BY <1>1, <1>2, <2>2, LooseFacts DEF Locked, Calm, Live
  <2>5. LockOK(p, r, mine) /\ Frame(mine) /\ CachedOK(mine, disk)
        /\ \A t \in Slot : mine[t].ref = icache[t].ref
    <3>1. Live(s) /\ icache[s].busy = NoProc /\ Locked(q) = {} /\ Locked(r) = {s}
      BY <1>1, <1>7, <2>4
    <3> HIDE DEF s
    <3> QED
      BY <2>3, <3>1, Locked1
  <2>6. \A t \in Slot : ~ (mine[t].ref > icache[t].ref)
    BY <2>5 DEF TableInv, Caches
  <2>7. Go(p, r, mine, disk)
    BY <1>9, <2>1
  <2>8. RoleOK(p, r, mine)
    BY <2>4, <2>5, <2>6, <2>7, CalmRole
  <2>9. Knows(mine, disk, r)
    <3>1. mine[s].inum = icache[s].inum /\ New(mine, r) = 0
      BY <1>1, <2>2, <2>5 DEF Frame, Live, New
    <3> QED
      BY <1>1, <1>2, <1>5, <2>2, <3>1 DEF Knows, NoDots
  <2>10. \A k \in Inum : Due(mine, r, k) <= Due(icache, q, k)
    BY <2>2 DEF Due, Owes, OwesUp
  <2>11. q.iput # "forget"
    BY <1>2 DEF Loose
  <2> QED
    BY <2>5, <2>7, <2>8, <2>9, <2>10, <2>11, Same
<1>10. CASE /\ child # 0 /\ SlotsFor(here, child) # {}
            /\ Go(p, [q EXCEPT !.pc = "found", !.path = <<>>, !.ip = SlotOf(here, child),
                               !.dp = 0, !.puts = <<s>>],
                  Iget(here, child), disk)
  <2>1. PICK r : r = [q EXCEPT !.pc = "found", !.path = <<>>, !.ip = SlotOf(here, child),
                               !.dp = 0, !.puts = <<s>>]
    OBVIOUS
  <2>2. child \in Inum /\ NamesOf(disk, child) # {}
    BY <1>1, <1>3, <1>4, <1>5, <1>10, EntryNames, Zenon DEF child, Entry, Live
  <2>3. Undisturbed(p, Iget(here, child))
    BY <1>7, <1>10, <2>2, Finds
  <2>4. /\ r.call = q.call /\ r.pc = "found" /\ r.path = <<>> /\ r.new = q.new /\ r.iput = "start"
    BY <1>1, <2>1 DEF Idle, Process
  <2>5. Len(<<>>) = 0
    OBVIOUS
  <2>6. Loose(r) /\ NoDots(r) /\ ~ Linking(r)
    BY <1>1, <1>2, <2>4, <2>5 DEF Loose, NoDots, Linking
  <2>7. Go(p, r, Iget(here, child), disk)
    BY <1>10, <2>1
  <2> QED
    BY <1>2, <2>3, <2>4, <2>6, <2>7, Loosely
<1> QED
  BY <1>8, <1>9, <1>10, FullStops

LEMMA UnlinkLookupTree ==
  ASSUME TableInv, TableInv', TreeInv, NEW p \in Proc, UnlinkLookup(p) PROVE TreeInv'
<1> DEFINE q == proc[p]   s == q.dp
           here == Ilock(icache, s, p)
           child == Entry(s, Head(q.path))
<1>1. /\ q.pc = "parent" /\ q.puts = <<>> /\ Fits(q) /\ Idle(q) /\ q.path # <<>>
      /\ Live(s) /\ q.call = "unlink" /\ q.ip = 0 /\ Knows(icache, disk, q)
  BY Held, NowAt DEF UnlinkLookup, At, Fits, CallInv, TreeInv, KnowsInv
<1>2. Loose(q) /\ NoDots(q)
  BY <1>1 DEF Loose, Idle, NoDots, Knows
<1>3. Head(q.path) \in Name
  <2>1. Head(q.path) \in Name \cup {".."}
    BY <1>1, PathParts DEF Fits, CallInv, Process
  <2>2. Head(q.path) # ".."
    BY <1>1, TailDots DEF Knows, Fits, Process
  <2> QED
    BY <2>1, <2>2
<1>4. child \in Inum \cup {0}
  BY <1>1, <1>3 DEF Live, Entry, Disks, TableInv
<1>5. disk[icache[s].inum].type = "dir"
  BY <1>1 DEF Knows
<1> DEFINE A == IF Head(q.path) = ".." \/ child = 0
                THEN Go(p, Return(q, <<s>>), Iunlock(here, s), disk)
                ELSE Getting(here, child,
                       Go(p, [q EXCEPT !.pc = "child", !.ip = SlotOf(here, child)],
                          Iget(here, child), disk))
<1>6. Locking(s, A)
  BY DEF UnlinkLookup
<1>7. A /\ Undisturbed(p, Ilock(icache, s, NoProc)) /\ icache[s].busy = NoProc
  <2> HIDE DEF A
  <2>1. icache[s].busy = NoProc
    BY <1>6 DEF Locking
  <2> QED
    BY <1>1, <1>6, <2>1, Looking1
<1>8. /\ Reads(here, s) /\ here[s].valid /\ here[s].busy = p
      /\ Iunlock(here, s) = Ilock(icache, s, NoProc)
  BY <1>1, <1>7, Sets, Reading
<1> HIDE DEF here, child
<1>9. \/ Go(p, Return(q, <<s>>), Ilock(icache, s, NoProc), disk)
      \/ Panic("full")
      \/ /\ child # 0 /\ SlotsFor(here, child) # {}
         /\ Go(p, [q EXCEPT !.pc = "child", !.ip = SlotOf(here, child)],
               Iget(here, child), disk)
  BY <1>7, <1>8 DEF Getting
<1>10. CASE Go(p, Return(q, <<s>>), Ilock(icache, s, NoProc), disk)
  BY <1>2, <1>7, <1>10, EndsTree
<1>11. CASE /\ child # 0 /\ SlotsFor(here, child) # {}
            /\ Go(p, [q EXCEPT !.pc = "child", !.ip = SlotOf(here, child)],
                  Iget(here, child), disk)
  <2>1. PICK t : t = SlotOf(here, child)
    OBVIOUS
  <2>2. PICK c : c = Iget(here, child)
    OBVIOUS
  <2>3. PICK r : r = [q EXCEPT !.pc = "child", !.ip = t]
    OBVIOUS
  <2>4. /\ r.call = q.call /\ r.pc = "child" /\ r.path = q.path /\ r.new = q.new
        /\ r.dp = s /\ r.ip = t /\ r.puts = <<>> /\ r.iput = "start"
        /\ r.file = q.file /\ r.cwd = q.cwd
    BY <1>1, <2>3 DEF Idle, Process
  <2>5. child \in Inum /\ NamesOf(disk, child) # {}
    BY <1>1, <1>3, <1>4, <1>5, <1>11, EntryNames, Zenon DEF child, Entry, Live
  <2>6. disk[child].type # "free"
    BY <2>5, SpareInode
  <2>7. /\ t \in Slot /\ c[t].inum = child /\ Frame(c) /\ CachedOK(c, disk)
        /\ \A x \in Slot : c[x].busy = here[x].busy
        /\ \A x \in Slot : c[x].busy # NoProc /\ here[x].valid => c[x].valid
    BY <1>8, <1>11, <2>1, <2>2, <2>5, <2>6, Gets
  <2>8. \A x \in Slot : c[x].ref > icache[x].ref => Spare(p, c, x)
    BY <1>8, <1>11, <2>2, <2>5, GetsSpare
  <2>9. Go(p, r, c, disk)
    BY <1>11, <2>1, <2>2, <2>3
  <2>10. s \in Slot /\ Locked(q) = {} /\ Locked(r) = {s} /\ Calm(q) /\ Calm(r)
    BY <1>1, <1>2, <2>4, LooseFacts DEF Locked, Calm, Live
  <2>11. RoleOK(p, r, c)
    BY <2>7, <2>8, <2>9, <2>10, CalmRole
  <2>12. LockOK(p, r, c)
    <3>1. LockOK(p, r, here)
      <4>1. Live(s) /\ icache[s].busy = NoProc /\ Locked(q) = {} /\ Locked(r) = {s}
        BY <1>1, <1>7, <2>10
      <4> HIDE DEF s
      <4> QED
        BY <1>8, <4>1, Locked1
    <3> QED
      BY <2>7, <3>1 DEF LockOK
  <2>13. Knows(c, disk, r)
    <3>1. c[s].inum = icache[s].inum /\ New(c, r) = 0
      BY <1>1, <2>4, <2>7 DEF Frame, Live, New
    <3>2. disk[icache[s].inum].entries[Head(q.path)] = child
      BY DEF child, Entry
    <3> QED
      BY <1>1, <1>2, <1>5, <2>4, <2>7, <3>1, <3>2 DEF Knows, NoDots
  <2>14. \A k \in Inum : Due(c, r, k) <= Due(icache, q, k)
    BY <1>1, <2>4 DEF Due, Owes, OwesUp
  <2>15. q.iput # "forget"
    BY <1>2 DEF Loose
  <2> QED
    BY <2>7, <2>9, <2>11, <2>12, <2>13, <2>14, <2>15, Same
<1> QED
  BY <1>9, <1>10, <1>11, FullStops

LEMMA IallocGetTree ==
  ASSUME TableInv, TableInv', TreeInv, NEW p \in Proc, IallocGet(p) PROVE TreeInv'
<1> DEFINE q == proc[p]   k == q.ip
<1>1. /\ q.pc = "iget" /\ q.puts = <<>> /\ Fits(q) /\ q \in Process /\ q.iput = "start"
      /\ Live(q.dp) /\ Knows(icache, disk, q) /\ k \in Inum
  BY Held DEF IallocGet, At, Fits, CallInv, TreeInv, KnowsInv
<1>2. New(icache, q) = k /\ k # 0 /\ disk[k].type # "free"
  BY <1>1, Sets DEF New, Knows
<1>3. CASE SlotsFor(icache, k) = {}
  BY <1>3, FullStops DEF IallocGet, Getting
<1>4. CASE SlotsFor(icache, k) # {}
  <2>1. PICK t : t = SlotOf(icache, k)
    OBVIOUS
  <2>2. PICK c : c = Iget(icache, k)
    OBVIOUS
  <2>3. PICK r : r = [q EXCEPT !.pc = "init", !.ip = t]
    OBVIOUS
  <2>4. /\ r.call = q.call /\ r.pc = "init" /\ r.path = q.path /\ r.new = q.new
        /\ r.dp = q.dp /\ r.ip = t /\ r.puts = <<>> /\ r.iput = "start"
        /\ r.file = q.file /\ r.cwd = q.cwd
    BY <1>1, <2>3 DEF Process
  <2>5. Go(p, r, c, disk)
    BY <1>4, <2>1, <2>2, <2>3 DEF IallocGet, Getting
  <2>6. Reads(icache, q.dp)
    BY <1>1, ReadsSelf
  <2>7. /\ t \in Slot /\ c[t].inum = k /\ Frame(c) /\ CachedOK(c, disk)
        /\ \A x \in Slot : c[x].busy = icache[x].busy
        /\ \A x \in Slot : c[x].busy # NoProc /\ icache[x].valid => c[x].valid
    BY <1>1, <1>2, <1>4, <2>1, <2>2, <2>6, Gets
  <2>8. Locked(r) = Locked(q)
    BY <1>1, <2>4 DEF Locked
  <2>9. LockOK(p, r, c)
    BY <2>7, <2>8 DEF LockOK, TreeInv, LockInv
  <2>10. New(c, r) = k
    BY <2>4, <2>7 DEF New
  <2>11. RoleOK(p, r, c)
    <3>1. ASSUME NEW s \in Slot, Uses(r, s) PROVE Uses(q, s) /\ k # c[s].inum
      <4>1. Uses(q, s)
        <5>1. Len(<<>>) = 0
          OBVIOUS
        <5> QED
          BY <1>1, <2>4, <3>1, <5>1 DEF Uses
      <4>2. New(icache, q) # icache[s].inum /\ Live(s)
        BY <4>1, HasLive DEF TreeInv, RoleInv
      <4> QED
        BY <1>2, <2>7, <4>1, <4>2 DEF Frame, Live
    <3>2. \A s \in Slot : ~ Kills(r, s)
      BY <2>4 DEF Kills
    <3> QED
      BY <1>2, <2>4, <2>7, <2>10, <3>1, <3>2 DEF RoleOK
  <2>12. Knows(c, disk, r)
    <3>1. c[r.dp].inum = icache[q.dp].inum
      BY <1>1, <2>4, <2>7 DEF Frame, Live
    <3> QED
      BY <1>1, <1>2, <2>4, <2>10, <3>1 DEF Knows
  <2>13. \A x \in Inum : Due(c, r, x) <= Due(icache, q, x)
    <3>1. q.call \in {"creat", "mkdir"}
      BY <1>1, <1>2 DEF Knows
    <3> QED
      BY <1>1, <2>4, <3>1 DEF Due, Owes, OwesUp
  <2> QED
    BY <1>1, <2>5, <2>7, <2>9, <2>11, <2>12, <2>13, Same
<1> QED
  BY <1>3, <1>4

\* An inode that a process unlocks.
LEMMA Unlocks ==
  ASSUME TableInv, TreeInv, NEW p \in Proc, NEW q, NEW s \in Slot, NEW c,
         s \in Locked(proc[p]), Locked(q) = Locked(proc[p]) \ {s},
         c[s].busy = NoProc,
         \A t \in Slot : t # s => c[t].busy = icache[t].busy /\ (icache[t].valid => c[t].valid)
  PROVE  LockOK(p, q, c)
<1>1. icache[s].busy = p /\ p # NoProc
  BY Sets DEF TreeInv, LockInv
<1>2. \A t \in Slot : t \in Locked(q) <=> c[t].busy = p
  BY <1>1 DEF TreeInv, LockInv
<1>3. \A t \in Slot : \A r \in Proc \ {p} : c[t].busy = r <=> icache[t].busy = r
  BY <1>1, Sets
<1>4. \A t \in Slot : c[t].busy # NoProc => c[t].valid
  BY DEF TreeInv, LockInv
<1> QED
  BY <1>2, <1>3, <1>4 DEF LockOK

\* A process that ends its call knows nothing.
LEMMA UserKnows ==
  ASSUME NEW q, q.pc = "user", q.call = "none", q.path = <<>>, q.new = <<>>, NEW c, NEW d
  PROVE  Knows(c, d, q) /\ \A k : Due(c, q, k) = 0
<1>1. Len(<<>>) = 0
  OBVIOUS
<1>2. New(c, q) = 0
  BY DEF New
<1>3. Knows(c, d, q)
  BY <1>1, <1>2 DEF Knows
<1> QED
  BY <1>3 DEF Due, Owes, OwesUp

\* What Return() and Open() make of a process.
LEMMA Returned ==
  ASSUME NEW q \in Process, q.iput = "start", NEW l, NEW r,
         \/ r = Return(q, l)
         \/ \E x : r = [Return(q, l) EXCEPT !.file = x]
         \/ \E x : r = [Return(q, l) EXCEPT !.cwd = x]
  PROVE  /\ r.pc = "user" /\ r.call = "none" /\ r.path = <<>> /\ r.new = <<>>
         /\ r.iput = "start" /\ Calm(r) /\ Locked(r) = {}
<1>1. /\ r.pc = "user" /\ r.call = "none" /\ r.path = <<>> /\ r.new = <<>>
      /\ r.iput = "start"
  BY DEF Return, Process
<1> QED
  BY <1>1 DEF Calm, Locked

LEMMA CreateMadeTree ==
  ASSUME TableInv, TableInv', TreeInv, NEW p \in Proc, CreateMade(p) PROVE TreeInv'
<1> DEFINE q == proc[p]   s == q.ip   c == Iunlock(icache, s)
<1>1. /\ q.pc = "made" /\ q.puts = <<>> /\ Fits(q) /\ Idle(q) /\ Live(s)
  BY Held, NowAt DEF CreateMade, At, Fits, CallInv
<1>2. \/ Go(p, Return(q, <<s>>), c, disk)
      \/ Go(p, Return(q, Append(q.puts, q.ip)), c, disk)
      \/ Go(p, [Return(q, q.puts) EXCEPT !.file = q.ip], c, disk)
  BY DEF CreateMade, Open
<1>3. PICK r, l : /\ Go(p, r, c, disk)
                  /\ r = Return(q, l) \/ (\E x : r = [Return(q, l) EXCEPT !.file = x])
  BY <1>2
<1>4. s \in Slot /\ icache \in Caches /\ q \in Process /\ q.iput = "start"
  BY <1>1 DEF Live, TableInv, Idle
<1>5. /\ r.pc = "user" /\ r.call = "none" /\ r.path = <<>> /\ r.new = <<>>
      /\ r.iput = "start" /\ Calm(r) /\ Locked(r) = {}
  BY <1>3, <1>4, Returned
<1>6. Calm(q) /\ Locked(q) = {s}
  BY <1>1, <1>4 DEF Calm, Locked
<1>7. /\ \A t \in Slot : t # s => c[t] = icache[t]
      /\ c[s].busy = NoProc /\ c[s].inum = icache[s].inum /\ c[s].ref = icache[s].ref
      /\ c[s].valid = icache[s].valid /\ c[s].type = icache[s].type
      /\ c[s].nlink = icache[s].nlink
  BY <1>4, Fields
<1> HIDE DEF c
<1>8. LockOK(p, r, c)
  BY <1>4, <1>5, <1>6, <1>7, Unlocks
<1>9. Frame(c) /\ CachedOK(c, disk) /\ \A t \in Slot : c[t].ref = icache[t].ref
  BY <1>7 DEF Frame, CachedOK, Kept
<1>10. RoleOK(p, r, c)
  <2>1. \A t \in Slot : ~ (c[t].ref > icache[t].ref)
    BY <1>4, <1>9 DEF Caches
  <2> QED
    BY <1>3, <1>5, <1>6, <1>9, <2>1, CalmRole
<1>11. Knows(c, disk, r) /\ \A k \in Inum : Due(c, r, k) <= Due(icache, q, k)
  <2>1. Knows(c, disk, r) /\ \A k : Due(c, r, k) = 0
    BY <1>5, UserKnows
  <2>2. \A k : Due(icache, q, k) \in Nat
    BY DEF Due
  <2> HIDE DEF q
  <2> QED
    BY <2>1, <2>2
<1> QED
  BY <1>3, <1>4, <1>8, <1>9, <1>10, <1>11, Same

-----------------------------------------------------------------------------
(* iput() *)

\* The slots that a process has, and how often.
LEMMA Holds ==
  ASSUME NEW q, NEW s \in Slot, q.puts \in Seq(Slot)
  PROVE  /\ Weight(q, s) \in Nat
         /\ Uses(q, s) \/ (q.puts # <<>> /\ Head(q.puts) = s) \/ (q.ip = s /\ q.pc # "iget") =>
              Weight(q, s) >= 1
         /\ /\ q.puts # <<>> /\ Head(q.puts) = s
            /\ \/ q.dp = s \/ q.file = s \/ q.cwd = s
               \/ q.ip = s /\ q.pc # "iget"
               \/ Len(q.puts) = 2 /\ q.puts[2] = s
            => Weight(q, s) >= 2
         /\ Weight(q, s) # 0 => Uses(q, s) \/ (q.puts # <<>> /\ Head(q.puts) = s)
                                \/ (q.ip = s /\ q.pc # "iget")
<1> DEFINE a == Eq(q.dp, s)    b == Eq(IpSlot(q), s)    x == Eq(q.file, s)
           y == Eq(q.cwd, s)   g == Is(q.puts # <<>> /\ Head(q.puts) = s)
           h == Is(Len(q.puts) = 2 /\ q.puts[2] = s)
<1>1. Weight(q, s) = a + b + x + y + (g + h)
  BY DEF Weight, In
<1>2. /\ a \in Nat /\ b \in Nat /\ x \in Nat /\ y \in Nat /\ g \in Nat /\ h \in Nat
      /\ (a # 0 <=> q.dp = s) /\ (b # 0 <=> q.ip = s /\ q.pc # "iget") /\ (x # 0 <=> q.file = s)
      /\ (y # 0 <=> q.cwd = s)
      /\ (g # 0 <=> q.puts # <<>> /\ Head(q.puts) = s)
      /\ (h # 0 <=> Len(q.puts) = 2 /\ q.puts[2] = s)
  <2>1. \A z : Eq(z, s) \in Nat /\ (Eq(z, s) # 0 <=> z = s)
    BY DEF Eq
  <2>2. b # 0 <=> q.ip = s /\ q.pc # "iget"
    BY <2>1, Sets DEF IpSlot
  <2>3. g \in Nat /\ (g # 0 <=> q.puts # <<>> /\ Head(q.puts) = s)
    BY DEF Is
  <2>4. h \in Nat /\ (h # 0 <=> Len(q.puts) = 2 /\ q.puts[2] = s)
    BY DEF Is
  <2>5. /\ a \in Nat /\ b \in Nat /\ x \in Nat /\ y \in Nat
        /\ (a # 0 <=> q.dp = s) /\ (x # 0 <=> q.file = s) /\ (y # 0 <=> q.cwd = s)
    BY <2>1
  <2> HIDE DEF a, b, x, y, g, h
  <2> QED
    BY <2>2, <2>3, <2>4, <2>5
<1>3. Uses(q, s) => a # 0 \/ b # 0 \/ x # 0 \/ y # 0 \/ g # 0 \/ h # 0
  <2> HIDE DEF a, b, x, y, g, h
  <2> QED
    BY <1>2 DEF Uses
<1>4. a # 0 \/ x # 0 \/ y # 0 \/ h # 0 => Uses(q, s)
  <2> HIDE DEF a, b, x, y, g, h
  <2> QED
    BY <1>2 DEF Uses
<1> HIDE DEF a, b, x, y, g, h
<1>5. Weight(q, s) \in Nat
  BY <1>1, <1>2
<1>6. Uses(q, s) \/ (q.puts # <<>> /\ Head(q.puts) = s) \/ (q.ip = s /\ q.pc # "iget") =>
        Weight(q, s) >= 1
  <2>1. Uses(q, s) \/ (q.puts # <<>> /\ Head(q.puts) = s) \/ (q.ip = s /\ q.pc # "iget") =>
        a # 0 \/ b # 0 \/ x # 0 \/ y # 0 \/ g # 0 \/ h # 0
    BY <1>2, <1>3
  <2> QED
    BY <1>1, <1>2, <2>1
<1>7. ASSUME q.puts # <<>>, Head(q.puts) = s,
             \/ q.dp = s \/ q.file = s \/ q.cwd = s
             \/ q.ip = s /\ q.pc # "iget"
             \/ Len(q.puts) = 2 /\ q.puts[2] = s
      PROVE  Weight(q, s) >= 2
  <2>1. g # 0 /\ (a # 0 \/ b # 0 \/ x # 0 \/ y # 0 \/ h # 0)
    BY <1>2, <1>7
  <2> QED
    BY <1>1, <1>2, <2>1
<1>8. Weight(q, s) # 0 => Uses(q, s) \/ (q.puts # <<>> /\ Head(q.puts) = s)
                                \/ (q.ip = s /\ q.pc # "iget")
  <2>1. Weight(q, s) # 0 => a # 0 \/ b # 0 \/ x # 0 \/ y # 0 \/ g # 0 \/ h # 0
    BY <1>1, <1>2
  <2> QED
    BY <1>2, <1>4, <2>1
<1> QED
  BY <1>5, <1>6, <1>7, <1>8

\* Two processes hold a slot no oftener than it is referred to.
LEMMA TwoHold ==
  ASSUME TableInv, NEW p \in Proc, NEW r \in Proc, p # r, NEW s \in Slot
  PROVE  icache[s].ref >= Weight(proc[p], s) + Weight(proc[r], s)
<1> DEFINE blank == [dp |-> 0, ip |-> 0, file |-> 0, cwd |-> 0, pc |-> "user", puts |-> <<>>]
<1>1. PICK g : g = [proc EXCEPT ![p] = blank]
  OBVIOUS
<1>2. g[p] = blank /\ \A u \in Proc \ {p} : g[u] = proc[u]
  BY <1>1 DEF TableInv
<1>3. Weight(blank, s) = 0
  <2>1. Eq(0, s) = 0 /\ In(<<>>, s) = 0
    BY EqFacts, ShortLists
  <2> QED
    BY <2>1 DEF Weight, IpSlot
<1> HIDE DEF blank
<1>4. /\ HoldersOf(proc, s) \in Nat /\ Weight(proc[p], s) \in Nat /\ HoldersOf(g, s) \in Nat
      /\ HoldersOf(g, s) = HoldersOf(proc, s) + Weight(g[p], s) - Weight(proc[p], s)
  BY <1>2, Recount
<1>5. HoldersOf(g, s) >= Weight(g[r], s) /\ Weight(g[r], s) \in Nat
  BY Recount
<1>6. icache[s].ref = HoldersOf(proc, s)
  BY RefsCount
<1> QED
  BY <1>2, <1>3, <1>4, <1>5, <1>6

\* A process is at the same place of its call.
InPlace(q, r) ==
  /\ r.call = q.call /\ r.pc = q.pc /\ r.path = q.path /\ r.new = q.new
  /\ r.dp = q.dp /\ r.ip = q.ip /\ r.file = q.file /\ r.cwd = q.cwd

LEMMA SamePlace ==
  ASSUME NEW q, NEW r, InPlace(q, r)
  PROVE  /\ \A c : New(c, r) = New(c, q)
         /\ \A c, d : Knows(c, d, q) => Knows(c, d, r)
         /\ \A c, k : Due(c, r, k) = Due(c, q, k)
         /\ \A c, k : (Owes(c, r, k) <=> Owes(c, q, k)) /\ (OwesUp(c, r, k) <=> OwesUp(c, q, k))
<1>1. \A c : New(c, r) = New(c, q)
  BY DEF New, InPlace
<1>2. \A c, d : Knows(c, d, q) => Knows(c, d, r)
  BY <1>1 DEF Knows, InPlace
<1>3. \A c, k : (Owes(c, r, k) <=> Owes(c, q, k)) /\ (OwesUp(c, r, k) <=> OwesUp(c, q, k))
  BY DEF Owes, OwesUp, InPlace
<1>4. \A c, k : Due(c, r, k) = Due(c, q, k)
  BY <1>3 DEF Due
<1> QED
  BY <1>1, <1>2, <1>3, <1>4

LEMMA PutPlace ==
  ASSUME NEW q, Fits(q), q.puts # <<>>
  PROVE  /\ InPlace(q, Put(q)) /\ Put(q).iput = "start" /\ Put(q).puts = Tail(q.puts)
         /\ \A s \in Slot : Uses(Put(q), s) => Uses(q, s)
<1>1. q \in Process /\ q.puts \in Seq(Slot) /\ Len(q.puts) <= 2
  BY DEF Fits, Process
<1>2. InPlace(q, Put(q)) /\ Put(q).iput = "start" /\ Put(q).puts = Tail(q.puts)
  BY <1>1 DEF InPlace, Put, Process
<1>3. PICK r : r = Put(q)
  OBVIOUS
<1>4. \/ r.puts = <<>>
      \/ Len(q.puts) = 2 /\ r.puts = <<q.puts[2]>> /\ q.puts[2] \in Slot
  <2>1. CASE \E x \in Slot : q.puts = <<x>>
    BY <1>2, <1>3, <2>1, ShortLists
  <2>2. CASE \E x, y \in Slot : q.puts = <<x, y>>
    <3>1. PICK x \in Slot, y \in Slot : q.puts = <<x, y>>
      BY <2>2
    <3>2. Len(q.puts) = 2 /\ q.puts[2] = y /\ Tail(q.puts) = <<y>>
      BY <3>1, ShortLists
    <3> QED
      BY <1>2, <1>3, <3>2
  <2> QED
    BY <1>1, <2>1, <2>2, IsShort
<1>5. ASSUME NEW s \in Slot, Uses(r, s) PROVE Uses(q, s)
  <2>1. CASE r.puts = <<>>
    <3>1. Len(<<>>) = 0
      OBVIOUS
    <3> QED
      BY <1>2, <1>3, <1>5, <2>1, <3>1 DEF Uses, InPlace
  <2>2. CASE Len(q.puts) = 2 /\ r.puts = <<q.puts[2]>> /\ q.puts[2] \in Slot
    <3>1. r.puts # <<>> /\ Head(r.puts) = q.puts[2] /\ Len(r.puts) = 1
      BY <2>2, ShortLists
    <3> QED
      BY <1>2, <1>3, <1>5, <2>2, <3>1 DEF Uses, InPlace
  <2> QED
    BY <1>4, <2>1, <2>2
<1> QED
  BY <1>2, <1>3, <1>5

LEMMA IputTree ==
  ASSUME TableInv, TableInv', TreeInv, NEW p \in Proc, Iput(p),
         ~ Dead(icache, Head(proc[p].puts))
  PROVE  TreeInv'
<1> DEFINE q == proc[p]   s == Head(q.puts)   r == Put(q)   c == Unreferenced(icache, s)
<1>1. /\ q.puts # <<>> /\ q.iput = "start" /\ Go(p, r, c, disk)
      /\ Fits(q) /\ Live(s) /\ Knows(icache, disk, q)
  BY Held DEF Iput, TreeInv, KnowsInv
<1>2. /\ InPlace(q, r) /\ r.iput = "start" /\ \A t \in Slot : Uses(r, t) => Uses(q, t)
  BY <1>1, PutPlace
<1>3. /\ \A t \in Slot : /\ c[t].inum = icache[t].inum /\ c[t].valid = icache[t].valid
                         /\ c[t].type = icache[t].type /\ c[t].nlink = icache[t].nlink
                         /\ c[t].busy = icache[t].busy
      /\ \A t \in Slot : c[t].ref > 0 => icache[t].ref > 0
  <2>1. \A t \in Slot : /\ c[t].inum = icache[t].inum /\ c[t].valid = icache[t].valid
                        /\ c[t].type = icache[t].type /\ c[t].nlink = icache[t].nlink
                        /\ c[t].busy = icache[t].busy
    BY <1>1 DEF Unreferenced, Live, TableInv, Caches
  <2>2. ASSUME NEW t \in Slot, c[t].ref > 0 PROVE icache[t].ref > 0
    <3>1. CASE t = s
      BY <1>1, <3>1 DEF Live
    <3>2. CASE t # s
      BY <1>1, <2>2, <3>2 DEF Unreferenced, Live, TableInv, Caches
    <3> QED
      BY <3>1, <3>2
  <2> QED
    BY <2>1, <2>2
<1>4. Frame(c) /\ CachedOK(c, disk)
  BY <1>3 DEF Frame, CachedOK, Kept
<1>5. LockOK(p, r, c)
  <2>1. Locked(r) = Locked(q)
    BY <1>1, <1>2 DEF Locked, InPlace
  <2> QED
    BY <1>3, <2>1 DEF LockOK, TreeInv, LockInv
<1>6. New(c, r) = New(icache, q) /\ Knows(c, disk, r)
      /\ \A k \in Inum : Due(c, r, k) = Due(icache, q, k)
  <2>1. Knows(c, disk, q) /\ New(c, q) = New(icache, q)
    BY <1>4, KnowsSame, NewSame
  <2>2. \A k : Due(c, q, k) = Due(icache, q, k)
    BY <1>4, OwesSame DEF Due
  <2> QED
    BY <1>2, <2>1, <2>2, SamePlace
<1>7. RoleOK(p, r, c)
  <2>1. ASSUME NEW t \in Slot, Uses(r, t)
        PROVE  Uses(q, t) /\ New(c, r) # c[t].inum
    BY <1>2, <1>3, <1>6, <2>1 DEF TreeInv, RoleInv
  <2>2. \A t \in Slot : ~ Kills(r, t)
    BY <1>2 DEF Kills
  <2>3. New(c, r) # 0 =>
          (q.pc \notin {"iget", "init"} =>
            \A u \in Proc, t \in Slot : Kills(proc[u], t) => icache[t].inum # New(c, r))
    BY <1>6 DEF TreeInv, RoleInv
  <2> QED
    BY <1>2, <1>4, <1>6, <2>1, <2>2, <2>3 DEF RoleOK, InPlace
<1>8. \A k \in Inum : Due(c, r, k) <= Due(icache, q, k)
  <2>1. \A k : Due(icache, q, k) \in Nat
    BY DEF Due
  <2> HIDE DEF q, r, c
  <2> QED
    BY <1>6, <2>1
<1> QED
  BY <1>1, <1>4, <1>5, <1>6, <1>7, <1>8, Same

\* What iput() knows of an inode that it will free: nobody else has it, and no name
\* leads to it.
LEMMA LastPut ==
  ASSUME TableInv, TreeInv, NEW p \in Proc, proc[p].puts # <<>>, proc[p].iput = "start",
         NEW s, s = Head(proc[p].puts), Dead(icache, s)
  PROVE  /\ Live(s) /\ icache[s].busy = NoProc /\ icache[s].valid
         /\ icache[s].nlink = 0
         /\ \A r \in Proc \ {p} : ~ Uses(proc[r], s) /\ ~ Kills(proc[r], s)
         /\ ~ \/ proc[p].dp = s \/ proc[p].file = s \/ proc[p].cwd = s
              \/ proc[p].ip = s /\ proc[p].pc # "iget"
              \/ Len(proc[p].puts) = 2 /\ proc[p].puts[2] = s
         /\ icache[s].inum # ROOTINO /\ NamesOf(disk, icache[s].inum) = {}
         /\ disk[icache[s].inum].type # "free" /\ icache[s].type = disk[icache[s].inum].type
         /\ disk[icache[s].inum].nlink = 0
<1> DEFINE q == proc[p]   k == icache[s].inum
<1>1. /\ Live(s) /\ s \in Slot /\ icache[s].ref = 1 /\ icache[s].valid /\ icache[s].nlink = 0
      /\ k \in Inum
  BY Held DEF Dead, Live
<1>2. \A r \in Proc : proc[r].puts \in Seq(Slot)
  BY DEF TableInv, Process
<1>3. Weight(q, s) \in Nat /\ Weight(q, s) >= 1 /\ icache[s].ref >= Weight(q, s)
  <2>1. Weight(q, s) \in Nat /\ Weight(q, s) >= 1
    BY <1>1, <1>2, Holds
  <2>2. HoldersOf(proc, s) >= Weight(q, s)
    BY <1>1, Recount
  <2>3. icache[s].ref = HoldersOf(proc, s)
    BY <1>1, RefsCount
  <2> QED
    BY <2>1, <2>2, <2>3
<1>4. ~ \/ q.dp = s \/ q.file = s \/ q.cwd = s
        \/ q.ip = s /\ q.pc # "iget"
        \/ Len(q.puts) = 2 /\ q.puts[2] = s
  <2> SUFFICES ASSUME \/ q.dp = s \/ q.file = s \/ q.cwd = s
                      \/ q.ip = s /\ q.pc # "iget"
                      \/ Len(q.puts) = 2 /\ q.puts[2] = s
               PROVE  FALSE
    OBVIOUS
  <2>1. Weight(q, s) >= 2
    BY <1>1, <1>2, Holds
  <2> QED
    BY <1>1, <1>3, <2>1
<1>5. ASSUME NEW r \in Proc \ {p} PROVE Weight(proc[r], s) = 0
  <2>1. icache[s].ref >= Weight(q, s) + Weight(proc[r], s) /\ Weight(proc[r], s) \in Nat
    <3>1. p # r /\ r \in Proc
      BY <1>5
    <3> QED
      BY <1>1, <1>2, <3>1, TwoHold, Holds
  <2> QED
    BY <1>1, <1>3, <2>1
<1>6. ASSUME NEW r \in Proc \ {p} PROVE ~ Uses(proc[r], s) /\ s \notin Locked(proc[r])
  <2>1. ~ (Uses(proc[r], s) \/ (proc[r].puts # <<>> /\ Head(proc[r].puts) = s)
                            \/ (proc[r].ip = s /\ proc[r].pc # "iget"))
    <3>1. Weight(proc[r], s) = 0 /\ r \in Proc
      BY <1>5, <1>6
    <3> QED
      BY <1>1, <1>2, <3>1, Holds
  <2>2. proc[r].iput # "start" => proc[r].puts # <<>>
    BY DEF TableInv, CallInv
  <2> QED
    BY <2>1, <2>2 DEF Locked, Uses
<1>7. s \notin Locked(q)
  BY <1>4 DEF Locked
<1>8. icache[s].busy = NoProc
  <2>1. \A r \in Proc : s \notin Locked(proc[r])
    BY <1>6, <1>7
  <2>2. icache[s].busy \in Proc \cup {NoProc}
    BY <1>1 DEF TableInv, Caches
  <2> QED
    BY <1>1, <2>1, <2>2 DEF TreeInv, LockInv
<1>9. \A r \in Proc : ~ Kills(proc[r], s)
  BY <1>1, <1>8, NotKilled
<1>10. disk[k].type # "free" /\ icache[s].type = disk[k].type /\ disk[k].nlink = 0
  BY <1>1, <1>9, Agreed
<1>11. k # ROOTINO /\ NamesOf(disk, k) = {}
  <2>1. disk[k].nlink >= Names(disk, k) + Subs(disk, k) + Root(k)
                           + Cardinality({r \in Proc : Owes(icache, proc[r], k)})
                           + Cardinality({r \in Proc : OwesUp(icache, proc[r], k)})
    BY <1>1 DEF TreeInv, CountInv, Names, Subs, Root
  <2>2. /\ Cardinality({r \in Proc : Owes(icache, proc[r], k)}) \in Nat
        /\ Cardinality({r \in Proc : OwesUp(icache, proc[r], k)}) \in Nat
    <3>1. /\ {r \in Proc : Owes(icache, proc[r], k)} \in SUBSET Proc
          /\ {r \in Proc : OwesUp(icache, proc[r], k)} \in SUBSET Proc
      OBVIOUS
    <3> QED
      BY <3>1, Sets, FS_Subset, FS_CardinalityType
  <2>3. Names(disk, k) = 0 /\ Root(k) = 0
    <3>1. Names(disk, k) \in Nat /\ Subs(disk, k) \in Nat /\ Root(k) \in Nat
      BY Finite
    <3>2. disk[k].nlink = 0
      BY <1>10
    <3> QED
      BY <2>1, <2>2, <3>1, <3>2
  <2>4. k # ROOTINO
    BY <2>3 DEF Root
  <2>5. NamesOf(disk, k) = {}
    BY <2>3, Finite, FS_EmptySet DEF Names
  <2> QED
    BY <2>4, <2>5
<1> QED
  BY <1>1, <1>4, <1>6, <1>8, <1>9, <1>10, <1>11

LEMMA IputDeadTree ==
  ASSUME TableInv, TableInv', TreeInv, NEW p \in Proc, Iput(p),
         Dead(icache, Head(proc[p].puts))
  PROVE  TreeInv'
<1> DEFINE q == proc[p]   s == Head(q.puts)   k == icache[s].inum
           r == [q EXCEPT !.iput = "free"]
           c == [icache EXCEPT ![s].busy = p]
<1>1. /\ q.puts # <<>> /\ q.iput = "start" /\ Fits(q) /\ Knows(icache, disk, q)
  BY Held DEF Iput, TreeInv, KnowsInv
<1>2. /\ Live(s) /\ icache[s].busy = NoProc /\ icache[s].valid
      /\ icache[s].nlink = 0
      /\ \A u \in Proc \ {p} : ~ Uses(proc[u], s) /\ ~ Kills(proc[u], s)
      /\ ~ \/ q.dp = s \/ q.file = s \/ q.cwd = s
           \/ q.ip = s /\ q.pc # "iget"
           \/ Len(q.puts) = 2 /\ q.puts[2] = s
      /\ k # ROOTINO /\ NamesOf(disk, k) = {}
      /\ disk[k].type # "free" /\ icache[s].type = disk[k].type /\ disk[k].nlink = 0
  BY <1>1, LastPut
<1>3. Go(p, r, c, disk)
  BY <1>2 DEF Iput
<1>4. /\ InPlace(q, r) /\ r.iput = "free" /\ r.puts = q.puts
  BY <1>1 DEF InPlace, Fits, Process
<1>5. /\ \A t \in Slot : /\ c[t].inum = icache[t].inum /\ c[t].valid = icache[t].valid
                         /\ c[t].type = icache[t].type /\ c[t].nlink = icache[t].nlink
                         /\ c[t].ref = icache[t].ref
                         /\ t # s => c[t].busy = icache[t].busy
      /\ c[s].busy = p
  BY <1>2 DEF Live, TableInv, Caches
<1>6. Frame(c) /\ s \in Slot
  BY <1>2, <1>5, Zenon DEF Frame, Live
<1>7. /\ icache' = c /\ disk' = disk /\ panicked' = panicked /\ crashes' = crashes
      /\ proc'[p] = r /\ \A u \in Proc \ {p} : proc'[u] = proc[u]
  BY <1>3, After
<1> HIDE DEF c, r
<1>8. \A u \in Proc : New(c, proc'[u]) = New(icache, proc[u])
  BY <1>4, <1>6, <1>7, NewSame, SamePlace
<1>9. \A t \in Slot : Uses(r, t) => Uses(q, t) /\ t # s
  BY <1>1, <1>2, <1>4 DEF Uses, InPlace
<1>10. \A u \in Proc : \A t \in Slot : Kills(proc'[u], t) <=> (u = p /\ t = s) \/ (u # p /\ Kills(proc[u], t))
  BY <1>1, <1>4, <1>6, <1>7 DEF Kills
<1>11. Uses(q, s)
  BY <1>1 DEF Uses
<1>12. LockInv'
  <2>1. \A t \in Slot : t \in Locked(r) <=> t \in Locked(q) \/ t = s
    BY <1>1, <1>4, <1>6 DEF Locked, InPlace
  <2>2. p # NoProc
    BY Sets
  <2>3. LockOK(p, r, c)
    BY <1>2, <1>5, <1>6, <2>1, <2>2, Sets DEF LockOK, TreeInv, LockInv
  <2> QED
    BY <1>3, <2>3, LockStep
<1>13. RoleInv'
  <2>1. ASSUME NEW u \in Proc, NEW v \in Proc, NEW t \in Slot, Uses(proc'[u], t)
        PROVE  New(c, proc'[v]) # c[t].inum /\ ~ Kills(proc'[v], t)
    <3>1. Uses(proc[u], t) /\ t # s
      BY <1>2, <1>7, <1>9, <2>1
    <3>2. New(icache, proc[v]) # icache[t].inum /\ ~ Kills(proc[v], t)
      BY <3>1 DEF TreeInv, RoleInv
    <3> QED
      BY <1>5, <1>8, <1>10, <3>1, <3>2
  <2>2. ASSUME NEW u \in Proc, NEW v \in Proc,
               New(c, proc'[u]) = New(c, proc'[v]), New(c, proc'[u]) # 0
        PROVE  u = v
    BY <1>8, <2>2 DEF TreeInv, RoleInv
  <2>3. ASSUME NEW u \in Proc, NEW v \in Proc, NEW t \in Slot,
               Kills(proc'[u], t), New(c, proc'[v]) = c[t].inum
        PROVE  proc'[u].iput = "forget" /\ proc'[v].pc \in {"iget", "init"}
    <3>1. New(icache, proc[v]) = icache[t].inum
      BY <1>5, <1>8, <2>3
    <3>2. t # s
      BY <1>11, <3>1 DEF TreeInv, RoleInv
    <3>3. u # p /\ Kills(proc[u], t)
      BY <1>10, <2>3, <3>2
    <3>4. proc[u].iput = "forget" /\ proc[v].pc \in {"iget", "init"}
      BY <3>1, <3>3 DEF TreeInv, RoleInv
    <3> QED
      BY <1>4, <1>7, <3>3, <3>4 DEF InPlace
  <2> QED
    BY <1>7, <2>1, <2>2, <2>3 DEF RoleInv
<1>14. DeadInv'
  <2> SUFFICES ASSUME NEW u \in Proc, NEW t \in Slot, Kills(proc'[u], t)
               PROVE  /\ c[t].inum # ROOTINO
                      /\ NamesOf(disk, c[t].inum) = {}
                      /\ proc'[u].iput = "free" => c[t].nlink = 0
    BY <1>7 DEF DeadInv
  <2>1. CASE u = p
    BY <1>2, <1>5, <1>10, <2>1
  <2>2. CASE u # p
    BY <1>5, <1>7, <1>10, <2>2 DEF TreeInv, DeadInv
  <2> QED
    BY <2>1, <2>2
<1>15. CacheInv'
  <2> SUFFICES ASSUME NEW t \in Slot
               PROVE  /\ c[t].nlink >= 0
                      /\ c[t].ref > 0 /\ (\A u \in Proc : Kills(proc'[u], t) => proc'[u].iput = "free") =>
                           /\ disk[c[t].inum].type # "free"
                           /\ c[t].valid => /\ c[t].type = disk[c[t].inum].type
                                            /\ c[t].nlink = disk[c[t].inum].nlink
    BY <1>7 DEF CacheInv
  <2>1. CASE t = s
    <3>1. /\ c[s].nlink = icache[s].nlink /\ c[s].inum = icache[s].inum
          /\ c[s].type = icache[s].type
      BY <1>5, <1>6
    <3>2. /\ icache[s].nlink = 0 /\ disk[icache[s].inum].nlink = 0
          /\ disk[icache[s].inum].type # "free" /\ icache[s].type = disk[icache[s].inum].type
      BY <1>2
    <3> QED
      BY <2>1, <3>1, <3>2
  <2>2. CASE t # s
    <3>1. \A u \in Proc : Kills(proc[u], t) => u # p
      BY <1>1 DEF Kills
    <3>2. (\A u \in Proc : Kills(proc'[u], t) => proc'[u].iput = "free") =>
            (\A u \in Proc : Kills(proc[u], t) => proc[u].iput = "free")
      BY <1>7, <1>10, <3>1
    <3> QED
      BY <1>5, <3>2 DEF TreeInv, CacheInv
  <2> QED
    BY <2>1, <2>2
<1>16. KnowsInv'
  <2>1. \A u \in Proc : Knows(c, disk, proc[u])
    BY <1>6, KnowsSame
  <2>2. Knows(c, disk, r)
    BY <1>4, <2>1, SamePlace
  <2> QED
    BY <1>7, <2>1, <2>2 DEF KnowsInv
<1>17. CountInv'
  <2>1. \A u \in Proc : \A x : (Owes(c, proc'[u], x) <=> Owes(icache, proc[u], x))
                               /\ (OwesUp(c, proc'[u], x) <=> OwesUp(icache, proc[u], x))
    BY <1>4, <1>6, <1>7, OwesSame, SamePlace
  <2>2. \A x : {u \in Proc : Owes(c, proc'[u], x)} = {u \in Proc : Owes(icache, proc[u], x)}
    BY <2>1
  <2>3. \A x : {u \in Proc : OwesUp(c, proc'[u], x)} = {u \in Proc : OwesUp(icache, proc[u], x)}
    BY <2>1
  <2> QED
    BY <1>7, <2>2, <2>3 DEF CountInv, TreeInv
<1>18. Shape(disk)' /\ RunInv'
  BY <1>7 DEF TreeInv, Shape, RunInv, NamesOf
<1> QED
  BY <1>12, <1>13, <1>14, <1>15, <1>16, <1>17, <1>18 DEF TreeInv

\* A disk on which an inode has no more names, or a directory fewer in it.
LEMMA Fewer ==
  ASSUME NEW d, NEW e, NEW k
  PROVE  /\ NamesOf(e, k) \subseteq NamesOf(d, k) => Names(e, k) <= Names(d, k)
         /\ d[k].type = "dir" /\ SubdirsOf(e, k) \subseteq SubdirsOf(d, k) =>
              Subs(e, k) <= Subs(d, k)
<1>1. NamesOf(e, k) \subseteq NamesOf(d, k) => Names(e, k) <= Names(d, k)
  BY Finite, FS_Subset DEF Names
<1>2. SubdirsOf(e, k) \subseteq SubdirsOf(d, k) =>
        Cardinality(SubdirsOf(e, k)) <= Cardinality(SubdirsOf(d, k))
  BY Finite, FS_Subset
<1>3. Cardinality(SubdirsOf(d, k)) \in Nat
  BY Finite, FS_CardinalityType
<1> QED
  BY <1>1, <1>2, <1>3 DEF Subs

\* The inode of a process's slot is the only one with its number.
LEMMA OneSlot ==
  ASSUME TableInv, NEW s, Live(s), NEW t, Live(t), s # t
  PROVE  icache[s].inum # icache[t].inum
BY DEF TableInv, RefsExact, Live

\* An inode that iput() frees: p has it locked, and nobody else frees it.
LEMMA Freeing ==
  ASSUME TableInv, TreeInv, NEW p \in Proc, proc[p].iput # "start",
         NEW s, s = Head(proc[p].puts)
  PROVE  /\ Live(s) /\ Kills(proc[p], s) /\ icache[s].busy = p /\ icache[s].valid
         /\ \A r \in Proc : Kills(proc[r], s) => r = p
         /\ \A r \in Proc, t \in Slot : Uses(proc[r], t) =>
              t # s /\ icache[t].inum # icache[s].inum
         /\ icache[s].inum # ROOTINO /\ NamesOf(disk, icache[s].inum) = {}
         /\ proc[p].iput = "free" => icache[s].nlink = 0
<1>1. Live(s) /\ s \in Slot
  BY Held DEF Fits, CallInv, Live
<1>2. Kills(proc[p], s)
  BY DEF Kills
<1>3. \A r \in Proc : Kills(proc[r], s) => icache[s].busy = r
  BY <1>1 DEF Kills, Locked, TreeInv, LockInv
<1>4. p # NoProc
  BY Sets
<1>5. ASSUME NEW r \in Proc, NEW t \in Slot, Uses(proc[r], t)
      PROVE  t # s /\ icache[t].inum # icache[s].inum
  <2>1. t # s
    BY <1>2, <1>5 DEF TreeInv, RoleInv
  <2>2. Live(t)
    BY <1>5, HasLive
  <2> QED
    BY <1>1, <2>1, <2>2, OneSlot
<1> QED
  BY <1>1, <1>2, <1>3, <1>4, <1>5 DEF TreeInv, LockInv, DeadInv

\* What others know of inodes that are not inode k, if that is cleared on the disk.
LEMMA KnowsGone ==
  ASSUME TableInv, TreeInv, NEW r \in Proc, NEW c, Frame(c), NEW d, NEW k \in Inum,
         \A j \in Inum \ {k} : d[j] = disk[j],
         \A j \in Inum : NamesOf(d, j) \subseteq NamesOf(disk, j),
         New(icache, proc[r]) # k,
         \A t \in Slot : Uses(proc[r], t) => icache[t].inum # k
  PROVE  Knows(c, d, proc[r])
<1> DEFINE q == proc[r]
<1>1. New(c, q) = New(icache, q) /\ New(c, q) \in Inum \cup {0}
  BY NewSame, HasLive
<1>3. Fits(q) /\ Knows(icache, disk, q)
  BY Held DEF TreeInv, KnowsInv
<1>4. q.dp # 0 => /\ c[q.dp].inum = icache[q.dp].inum /\ icache[q.dp].inum \in Inum
                  /\ d[icache[q.dp].inum] = disk[icache[q.dp].inum]
  BY Held DEF Live, Frame, Uses
<1>5. q.ip # 0 /\ q.pc \notin {"iget", "init", "nest", "dots", "enter"} =>
        /\ c[q.ip].inum = icache[q.ip].inum /\ icache[q.ip].inum \in Inum
        /\ d[icache[q.ip].inum] = disk[icache[q.ip].inum]
  BY Held DEF Live, Frame, Uses
<1>6. q.pc \in {"parent", "ialloc", "iget", "init", "nest", "dots", "enter", "child",
                "unnest"} => q.dp # 0
  BY <1>3 DEF Fits, CallInv
<1>7. q.pc = "child" => q.ip # 0
  BY <1>3 DEF Fits, CallInv
<1>8. New(c, q) # 0 =>
        /\ q.call \in {"creat", "mkdir"}
        /\ New(c, q) # ROOTINO
        /\ d[New(c, q)] = disk[New(c, q)]
        /\ d[New(c, q)].type = IF q.call = "mkdir" THEN "dir" ELSE "file"
        /\ \A n \in Name : d[New(c, q)].entries[n] = 0
        /\ NamesOf(d, New(c, q)) = {}
  BY <1>1, <1>3 DEF Knows
<1>9. q.pc = "enter" /\ q.call = "mkdir" => d[New(c, q)].entries[".."] = c[q.dp].inum
  <2>1. q.pc = "enter" => New(c, q) # 0
    BY <1>1, HasLive, Sets DEF Live
  <2> QED
    BY <1>1, <1>3, <1>4, <1>6, <1>8, <2>1 DEF Knows
<1>10. q.pc = "child" => d[c[q.dp].inum].entries[Head(q.path)] = c[q.ip].inum
  BY <1>3, <1>4, <1>5, <1>6, <1>7 DEF Knows
<1>11. q.call = "link" /\ q.ip # 0 /\ q.pc \in {"again", "walk", "parent", "bad"} =>
         d[c[q.ip].inum].type # "dir"
  BY <1>3, <1>5 DEF Knows
<1> QED
  BY <1>3, <1>4, <1>6, <1>8, <1>9, <1>10, <1>11 DEF Knows

LEMMA IputFreeTree ==
  ASSUME TableInv, TableInv', TreeInv, NEW p \in Proc, IputFree(p) PROVE TreeInv'
<1> DEFINE q == proc[p]   s == Head(q.puts)   k == icache[s].inum
           r == [q EXCEPT !.iput = "forget"]
           c == [icache EXCEPT ![s].type = "free"]
           d == Iupdate([disk EXCEPT ![k].entries = NoEntries], c, s)
<1>1. /\ q.iput = "free" /\ Fits(q) /\ Knows(icache, disk, q) /\ Go(p, r, c, d)
  BY Held DEF IputFree, TreeInv, KnowsInv
<1>2. /\ Live(s) /\ Kills(q, s) /\ icache[s].busy = p /\ icache[s].valid
      /\ \A u \in Proc : Kills(proc[u], s) => u = p
      /\ \A u \in Proc, t \in Slot : Uses(proc[u], t) => t # s /\ icache[t].inum # k
      /\ k # ROOTINO /\ NamesOf(disk, k) = {} /\ icache[s].nlink = 0
  <2>1. q.iput # "start" /\ q.iput = "free" /\ s = Head(q.puts)
    BY <1>1
  <2> HIDE DEF s
  <2> QED
    BY <2>1, Freeing
<1>3. disk[k].type # "free" /\ disk[k].nlink = 0
  <2>1. s \in Slot /\ icache[s].ref > 0
    BY <1>2 DEF Live
  <2>2. \A u \in Proc : Kills(proc[u], s) => proc[u].iput = "free"
    <3>1. \A u \in Proc : Kills(proc[u], s) => u = p
      BY <1>2
    <3>2. proc[p].iput = "free"
      BY <1>1
    <3> QED
      BY <3>1, <3>2
  <2> QED
    BY <1>2, <2>1, <2>2, Agreed
<1>4. /\ InPlace(q, r) /\ r.iput = "forget" /\ r.puts = q.puts
  BY <1>1 DEF InPlace, Fits, Process
<1>5. \A t \in Slot : /\ c[t].inum = icache[t].inum /\ c[t].valid = icache[t].valid
                      /\ c[t].nlink = icache[t].nlink
                      /\ c[t].ref = icache[t].ref /\ c[t].busy = icache[t].busy
                      /\ t # s => c[t] = icache[t]
  BY <1>2 DEF Live, TableInv, Caches
<1>6. /\ d[k].type = "free" /\ d[k].nlink = 0 /\ d[k].entries = NoEntries
      /\ \A j \in Inum \ {k} : d[j] = disk[j]
  <2>1. c[s].type = "free" /\ c[s].nlink = 0 /\ c[s].inum = k /\ k \in Inum
    BY <1>2, <1>5 DEF Live, TableInv, Caches
  <2> HIDE DEF c, k
  <2> QED
    BY <2>1 DEF Iupdate, TableInv, Disks
<1>7. Frame(c) /\ s \in Slot /\ k \in Inum /\ d \in Disks
  <2>1. disk' \in Disks
    BY DEF TableInv
  <2> HIDE DEF c, d
  <2> QED
    BY <1>1, <1>2, <1>5, <2>1, After DEF Frame, Live
<1>8. /\ icache' = c /\ disk' = d /\ panicked' = panicked /\ crashes' = crashes
      /\ proc'[p] = r /\ \A u \in Proc \ {p} : proc'[u] = proc[u]
  BY <1>1, After, Zenon
<1> HIDE DEF c, d, r
<1>9. /\ \A j \in Inum : NamesOf(d, j) \subseteq NamesOf(disk, j)
      /\ \A j \in Inum : d[j].type # "free" => j # k /\ d[j] = disk[j]
  <2>1. \A j \in Inum : d[j].type # "free" => j # k /\ d[j] = disk[j]
    BY <1>6
  <2>2. ASSUME NEW j \in Inum, NEW x \in NamesOf(d, j) PROVE x \in NamesOf(disk, j)
    <3>1. x \in Inum \X Name /\ d[x[1]].type = "dir" /\ d[x[1]].entries[x[2]] = j
      BY <2>2 DEF NamesOf
    <3>2. x[1] \in Inum
      BY <3>1
    <3>3. d[x[1]] = disk[x[1]]
      BY <2>1, <3>1, <3>2
    <3> QED
      BY <3>1, <3>3 DEF NamesOf
  <2> QED
    BY <2>1, <2>2
<1>10. \A u \in Proc : New(icache, proc[u]) # k
  BY <1>1, <1>2, <1>7 DEF TreeInv, RoleInv
<1>11. \A u \in Proc : Knows(c, d, proc'[u])
  <2>1. \A u \in Proc : Knows(c, d, proc[u])
    BY <1>2, <1>6, <1>7, <1>9, <1>10, KnowsGone
  <2>2. Knows(c, d, r)
    BY <1>4, <2>1, SamePlace
  <2> QED
    BY <1>8, <2>1, <2>2
<1>12. LockInv'
  <2>1. Locked(r) = Locked(q)
    BY <1>1, <1>4 DEF Locked, InPlace
  <2>2. LockOK(p, r, c)
    BY <1>5, <2>1 DEF LockOK, TreeInv, LockInv
  <2> QED
    BY <1>1, <2>2, LockStep
<1>13. \A t \in Slot : /\ Uses(r, t) <=> Uses(q, t)
                       /\ Kills(r, t) <=> Kills(q, t)
  BY <1>1, <1>4 DEF Uses, Kills, InPlace
<1>14. New(c, r) = New(icache, q)
  BY <1>4, <1>7, NewSame, SamePlace
<1>15. RoleInv'
  <2>1. RoleOK(p, r, c)
    <3>1. \A t \in Slot : Uses(r, t) => Uses(q, t) /\ New(c, r) # c[t].inum /\ ~ Kills(r, t)
      BY <1>5, <1>13, <1>14 DEF TreeInv, RoleInv
    <3>2. New(c, r) # 0 =>
            (q.pc \notin {"iget", "init"} =>
              \A u \in Proc, t \in Slot : Kills(proc[u], t) => icache[t].inum # New(c, r))
      BY <1>14 DEF TreeInv, RoleInv
    <3> QED
      BY <1>4, <1>7, <1>13, <1>14, <3>1, <3>2 DEF RoleOK, InPlace
  <2> QED
    BY <1>1, <2>1, RoleStep
<1>16. DeadInv'
  <2> SUFFICES ASSUME NEW u \in Proc, NEW t \in Slot, Kills(proc'[u], t)
               PROVE  /\ c[t].inum # ROOTINO
                      /\ NamesOf(d, c[t].inum) = {}
                      /\ proc'[u].iput = "free" => c[t].nlink = 0
    BY <1>8 DEF DeadInv
  <2>1. Kills(proc[u], t) /\ (proc'[u].iput = "free" => proc[u].iput = "free")
    BY <1>4, <1>8, <1>13
  <2>2. icache[t].inum \in Inum
    BY <2>1, HasLive DEF Live
  <2> QED
    BY <1>5, <1>9, <2>1, <2>2 DEF TreeInv, DeadInv
<1>17. CacheInv'
  <2> SUFFICES ASSUME NEW t \in Slot
               PROVE  /\ c[t].nlink >= 0
                      /\ c[t].ref > 0 /\ (\A u \in Proc : Kills(proc'[u], t) => proc'[u].iput = "free") =>
                           /\ d[c[t].inum].type # "free"
                           /\ c[t].valid => /\ c[t].type = d[c[t].inum].type
                                            /\ c[t].nlink = d[c[t].inum].nlink
    BY <1>8 DEF CacheInv
  <2>1. c[t].nlink >= 0
    BY <1>5 DEF TreeInv, CacheInv
  <2>2. ASSUME c[t].ref > 0, \A u \in Proc : Kills(proc'[u], t) => proc'[u].iput = "free"
        PROVE  /\ d[c[t].inum].type # "free"
               /\ c[t].valid => /\ c[t].type = d[c[t].inum].type
                                /\ c[t].nlink = d[c[t].inum].nlink
    <3>1. t # s
      BY <1>2, <1>4, <1>8, <1>13, <2>2
    <3>2. Live(t)
      BY <1>5, <2>2 DEF Live, TableInv, Caches
    <3>3. icache[t].inum # k /\ icache[t].inum \in Inum
      BY <1>2, <3>1, <3>2, OneSlot DEF Live
    <3>4. \A u \in Proc : Kills(proc[u], t) => proc[u].iput = "free"
      BY <1>1, <1>4, <1>8, <1>13, <2>2
    <3> QED
      BY <1>5, <1>6, <2>2, <3>1, <3>3, <3>4 DEF TreeInv, CacheInv
  <2> QED
    BY <2>1, <2>2
<1>18. CountInv'
  <2>1. \A j : Due(c, r, j) = Due(icache, q, j)
    <3>1. \A j : Due(c, q, j) = Due(icache, q, j)
      BY <1>7, OwesSame DEF Due
    <3> QED
      BY <1>4, <3>1, SamePlace
  <2>2. ASSUME NEW j \in Inum PROVE Paid(p, r, c, d, j)
    <3>0. /\ Names(d, j) \in Nat /\ Subs(d, j) \in Nat /\ Names(disk, j) \in Nat
          /\ Subs(disk, j) \in Nat /\ disk[j].nlink \in Int /\ d[j].nlink \in Int
          /\ Due(icache, q, j) \in Nat
      BY <1>7, Finite DEF TableInv, Disks, Due
    <3>1. Names(d, j) <= Names(disk, j)
      BY <1>9, Fewer
    <3>2. CASE j = k
      <4>1. Subs(d, j) = 0
        BY <1>6, <3>2 DEF Subs
      <4>2. disk[j].nlink = d[j].nlink
        BY <1>3, <1>6, <3>2
      <4>3. d[j].nlink - Names(d, j) - Subs(d, j) - Due(c, r, j) >=
              disk[j].nlink - Names(disk, j) - Subs(disk, j) - Due(icache, q, j)
        <5> HIDE DEF q
        <5> QED
          BY <2>1, <3>0, <3>1, <4>1, <4>2
      <4> QED
        BY <4>3 DEF Paid
    <3>3. CASE j # k
      <4>1. d[j] = disk[j]
        BY <1>6, <3>3
      <4>2. Subs(d, j) <= Subs(disk, j)
        <5>1. SubdirsOf(d, j) \subseteq SubdirsOf(disk, j)
          <6>1. \A n \in Name : disk[j].entries[n] \in Inum \cup {0}
            BY DEF TableInv, Disks
          <6> QED
            BY <1>9, <4>1, <6>1 DEF SubdirsOf
        <5>2. CASE disk[j].type = "dir"
          BY <5>1, <5>2, Fewer
        <5>3. CASE disk[j].type # "dir"
          BY <4>1, <5>3 DEF Subs
        <5> QED
          BY <5>2, <5>3
      <4>3. d[j].nlink - Names(d, j) - Subs(d, j) - Due(c, r, j) >=
              disk[j].nlink - Names(disk, j) - Subs(disk, j) - Due(icache, q, j)
        <5>1. d[j].nlink = disk[j].nlink
          BY <4>1
        <5> HIDE DEF q
        <5> QED
          BY <2>1, <3>0, <3>1, <4>2, <5>1
      <4> QED
        BY <4>3 DEF Paid
    <3> QED
      BY <3>2, <3>3
  <2> QED
    BY <1>1, <1>7, <2>2, CountStep
<1>19. Shape(d)
  <2>1. d[ROOTINO].type # "free"
    BY <1>2, <1>6, Sets DEF TreeInv, Shape
  <2>2. \A j \in Inum : NamesOf(d, j) # {} => d[j].type # "free"
    BY <1>2, <1>6, <1>9 DEF TreeInv, Shape
  <2>3. \A j \in Inum : d[j].type = "dir" /\ j # ROOTINO =>
          \A x, y \in NamesOf(d, j) : x = y /\ d[j].entries[".."] = x[1]
    BY <1>9 DEF TreeInv, Shape
  <2>4. \A i, j \in Inum : d[i].type = "dir" /\ d[j].type = "dir" =>
          \A n, m \in Name : ~ (d[i].entries[n] = j /\ d[j].entries[m] = i)
    BY <1>9 DEF TreeInv, Shape
  <2> QED
    BY <2>1, <2>2, <2>3, <2>4 DEF Shape
<1>20. Shape(disk)' /\ RunInv' /\ KnowsInv'
  BY <1>8, <1>11, <1>19 DEF TreeInv, Shape, RunInv, NamesOf, KnowsInv
<1> QED
  BY <1>12, <1>15, <1>16, <1>17, <1>18, <1>20 DEF TreeInv

\* A slot that is referred to is held by a process.
LEMMA HeldBySome ==
  ASSUME NEW f, NEW s, HoldersOf(f, s) # 0
  PROVE  \E r \in Proc :
           \/ f[r].dp = s
           \/ f[r].ip = s /\ f[r].pc # "iget"
           \/ f[r].file = s
           \/ f[r].cwd = s
           \/ f[r].puts # <<>> /\ Head(f[r].puts) = s
           \/ Len(f[r].puts) = 2 /\ f[r].puts[2] = s
<1> SUFFICES ASSUME \A r \in Proc :
                      ~ \/ f[r].dp = s
                        \/ f[r].ip = s /\ f[r].pc # "iget"
                        \/ f[r].file = s
                        \/ f[r].cwd = s
                        \/ f[r].puts # <<>> /\ Head(f[r].puts) = s
                        \/ Len(f[r].puts) = 2 /\ f[r].puts[2] = s
             PROVE  FALSE
  OBVIOUS
<1>1. /\ {r \in Proc : f[r].dp = s} = {}
      /\ {r \in Proc : f[r].ip = s /\ f[r].pc # "iget"} = {}
      /\ {r \in Proc : f[r].file = s} = {}
      /\ {r \in Proc : f[r].cwd = s} = {}
      /\ {r \in Proc : f[r].puts # <<>> /\ Head(f[r].puts) = s} = {}
      /\ {r \in Proc : Len(f[r].puts) = 2 /\ f[r].puts[2] = s} = {}
  OBVIOUS
<1>2. Cardinality({}) = 0
  BY FS_EmptySet
<1>3. HoldersOf(f, s) = 0 + 0 + 0 + 0 + 0 + 0
  BY <1>1, <1>2 DEF HoldersOf
<1> QED
  BY <1>3

LEMMA IputForgetTree ==
  ASSUME TableInv, TableInv', TreeInv, NEW p \in Proc, IputForget(p) PROVE TreeInv'
<1> DEFINE q == proc[p]   s == Head(q.puts)   k == icache[s].inum
           r == Put(q)
           c == Unreferenced([icache EXCEPT ![s].valid = FALSE, ![s].busy = NoProc], s)
<1>1. /\ q.iput = "forget" /\ q.puts # <<>> /\ Fits(q) /\ Knows(icache, disk, q)
      /\ Go(p, r, c, disk)
  BY Held DEF IputForget, TreeInv, KnowsInv, Fits, CallInv
<1>2. /\ Live(s) /\ Kills(q, s) /\ icache[s].busy = p /\ icache[s].valid
      /\ \A u \in Proc : Kills(proc[u], s) => u = p
      /\ \A u \in Proc, t \in Slot : Uses(proc[u], t) => t # s /\ icache[t].inum # k
  <2>1. q.iput # "start" /\ q.iput = "forget" /\ s = Head(q.puts)
    BY <1>1
  <2> HIDE DEF s
  <2> QED
    BY <2>1, Freeing
<1>3. InPlace(q, r) /\ r.iput = "start" /\ \A t \in Slot : Uses(r, t) => Uses(q, t)
  BY <1>1, PutPlace
<1>4. /\ \A t \in Slot : /\ c[t].inum = icache[t].inum /\ c[t].nlink = icache[t].nlink
                         /\ t # s => c[t] = icache[t]
      /\ c[s].busy = NoProc /\ c[s].valid = FALSE
  BY <1>2 DEF Unreferenced, Live, TableInv, Caches
<1>5. Frame(c) /\ s \in Slot /\ k \in Inum
  <2> HIDE DEF c
  <2> QED
    BY <1>2, <1>4 DEF Frame, Live
<1>6. /\ icache' = c /\ disk' = disk /\ panicked' = panicked /\ crashes' = crashes
      /\ proc'[p] = r /\ \A u \in Proc \ {p} : proc'[u] = proc[u]
  BY <1>1, After
<1> HIDE DEF c, r
<1>7. New(c, r) = New(icache, q)
  BY <1>3, <1>5, NewSame, SamePlace
<1>8. LockInv'
  <2>1. ~ (s = q.ip /\ q.pc \in {"nest", "dots", "enter", "made", "unnest", "unname"})
    <3> SUFFICES ASSUME s = q.ip, q.pc \in {"nest", "dots", "enter", "made", "unnest", "unname"}
                 PROVE  FALSE
      OBVIOUS
    <3>1. CASE q.pc \in {"made", "unnest", "unname"}
      BY <1>2, <1>5, <3>1 DEF Uses
    <3>2. CASE q.pc \in {"nest", "dots", "enter"}
      BY <1>2, <1>5, <3>2 DEF New, TreeInv, RoleInv
    <3> QED
      BY <3>1, <3>2
  <2>2. q.dp # s
    BY <1>2, <1>5 DEF Uses
  <2>3. s \in Locked(q) /\ Locked(r) = Locked(q) \ {s}
    BY <1>1, <1>3, <1>5, <2>1, <2>2 DEF Locked, InPlace
  <2>4. LockOK(p, r, c)
    <3>1. \A t \in Slot : t # s => c[t].busy = icache[t].busy /\ (icache[t].valid => c[t].valid)
      BY <1>4
    <3> HIDE DEF s
    <3> QED
      BY <1>4, <1>5, <2>3, <3>1, Unlocks
  <2> QED
    BY <1>1, <2>4, LockStep
<1>9. RoleInv'
  <2>1. \A t \in Slot : Uses(r, t) => Uses(q, t) /\ New(c, r) # c[t].inum
    BY <1>3, <1>4, <1>7 DEF TreeInv, RoleInv
  <2>2. \A t \in Slot : ~ Kills(r, t)
    BY <1>3 DEF Kills
  <2>3. New(c, r) # 0 =>
          (q.pc \notin {"iget", "init"} =>
            \A u \in Proc, t \in Slot : Kills(proc[u], t) => icache[t].inum # New(c, r))
    BY <1>7 DEF TreeInv, RoleInv
  <2>4. RoleOK(p, r, c)
    BY <1>3, <1>5, <1>7, <2>1, <2>2, <2>3 DEF RoleOK, InPlace
  <2> QED
    BY <1>1, <2>4, RoleStep
<1>10. \A u \in Proc, t \in Slot : Kills(proc'[u], t) <=> t # s /\ u # p /\ Kills(proc[u], t)
  BY <1>2, <1>3, <1>6 DEF Kills
<1>11. DeadInv'
  <2> SUFFICES ASSUME NEW u \in Proc, NEW t \in Slot, Kills(proc'[u], t)
               PROVE  /\ c[t].inum # ROOTINO
                      /\ NamesOf(disk, c[t].inum) = {}
                      /\ proc'[u].iput = "free" => c[t].nlink = 0
    BY <1>6 DEF DeadInv
  <2> QED
    BY <1>4, <1>6, <1>10 DEF TreeInv, DeadInv
<1>12. c[s].ref > 0 => disk[k].type # "free"
  <2> SUFFICES ASSUME c[s].ref > 0 PROVE disk[k].type # "free"
    OBVIOUS
  <2>1. HoldersOf(proc', s) # 0
    <3>1. (\A x \in Slot : icache[x].ref = HoldersOf(proc, x))'
      BY NextTables
    <3>2. c[s].ref = HoldersOf(proc', s)
      BY <1>5, <1>6, <3>1 DEF HoldersOf
    <3> QED
      BY <3>2
  <2>2. PICK u \in Proc :
           \/ proc'[u].dp = s
           \/ proc'[u].ip = s /\ proc'[u].pc # "iget"
           \/ proc'[u].file = s
           \/ proc'[u].cwd = s
           \/ proc'[u].puts # <<>> /\ Head(proc'[u].puts) = s
           \/ Len(proc'[u].puts) = 2 /\ proc'[u].puts[2] = s
    <3> HIDE DEF s
    <3> QED
      BY <2>1, HeldBySome
  <2>3. ~ Uses(proc'[u], s) /\ ~ Kills(proc'[u], s)
    <3>1. Uses(proc'[u], s) => Uses(proc[u], s)
      BY <1>3, <1>5, <1>6
    <3> QED
      BY <1>2, <1>5, <1>10, <3>1
  <2>4. proc'[u].ip = s /\ proc'[u].pc \in {"init", "nest", "dots", "enter"}
    BY <2>2, <2>3 DEF Uses, Kills
  <2>5. proc[u].ip = s /\ proc[u].pc \in {"init", "nest", "dots", "enter"}
    BY <1>3, <1>6, <2>4 DEF InPlace
  <2>6. New(icache, proc[u]) = k /\ k # 0
    BY <1>5, <2>5, Sets DEF New
  <2> QED
    BY <2>6 DEF TreeInv, KnowsInv, Knows
<1>13. CacheInv'
  <2> SUFFICES ASSUME NEW t \in Slot
               PROVE  /\ c[t].nlink >= 0
                      /\ c[t].ref > 0 /\ (\A u \in Proc : Kills(proc'[u], t) => proc'[u].iput = "free") =>
                           /\ disk[c[t].inum].type # "free"
                           /\ c[t].valid => /\ c[t].type = disk[c[t].inum].type
                                            /\ c[t].nlink = disk[c[t].inum].nlink
    BY <1>6 DEF CacheInv
  <2>1. CASE t = s
    BY <1>4, <1>12, <2>1 DEF TreeInv, CacheInv
  <2>2. CASE t # s
    <3>1. \A u \in Proc : Kills(proc[u], t) => u # p
      BY <2>2 DEF Kills
    <3>2. (\A u \in Proc : Kills(proc'[u], t) => proc'[u].iput = "free") =>
            (\A u \in Proc : Kills(proc[u], t) => proc[u].iput = "free")
      BY <1>6, <1>10, <2>2, <3>1
    <3> QED
      BY <1>4, <2>2, <3>2 DEF TreeInv, CacheInv
  <2> QED
    BY <2>1, <2>2
<1>14. KnowsInv'
  <2>1. \A u \in Proc : Knows(c, disk, proc[u])
    BY <1>5, KnowsSame
  <2>2. Knows(c, disk, r)
    BY <1>3, <2>1, SamePlace
  <2> QED
    BY <1>6, <2>1, <2>2 DEF KnowsInv
<1>15. CountInv'
  <2>1. \A u \in Proc : \A x : (Owes(c, proc'[u], x) <=> Owes(icache, proc[u], x))
                               /\ (OwesUp(c, proc'[u], x) <=> OwesUp(icache, proc[u], x))
    BY <1>3, <1>5, <1>6, OwesSame, SamePlace
  <2>2. \A x : {u \in Proc : Owes(c, proc'[u], x)} = {u \in Proc : Owes(icache, proc[u], x)}
    BY <2>1
  <2>3. \A x : {u \in Proc : OwesUp(c, proc'[u], x)} = {u \in Proc : OwesUp(icache, proc[u], x)}
    BY <2>1
  <2> QED
    BY <1>6, <2>2, <2>3 DEF CountInv, TreeInv
<1>16. Shape(disk)' /\ RunInv'
  BY <1>6 DEF TreeInv, Shape, RunInv, NamesOf
<1> QED
  BY <1>8, <1>9, <1>11, <1>13, <1>14, <1>15, <1>16 DEF TreeInv

-----------------------------------------------------------------------------
(* Steps that count links *)

\* The inode in slot s, which nobody frees, is written to the disk with a new count.
LEMMA Updates ==
  ASSUME TableInv, TreeInv, NEW s, Live(s), NEW c \in Alike(icache),
         \A t \in Slot : t # s => /\ c[t].valid = icache[t].valid /\ c[t].type = icache[t].type
                                  /\ c[t].nlink = icache[t].nlink,
         c[s].type = disk[icache[s].inum].type, disk[icache[s].inum].type # "free",
         \A r \in Proc : ~ Kills(proc[r], s),
         NEW e, e[s].inum = c[s].inum, e[s].type = c[s].type, e[s].nlink = c[s].nlink,
         NEW d, d = Iupdate(disk, e, s)
  PROVE  /\ Frame(c) /\ CachedOK(c, d) /\ \A t \in Slot : c[t].ref = icache[t].ref
         /\ \A j \in Inum : d[j].type = disk[j].type /\ d[j].entries = disk[j].entries
         /\ \A j \in Inum : j # icache[s].inum => d[j].nlink = disk[j].nlink
         /\ d[icache[s].inum].nlink = c[s].nlink
<1> DEFINE k == icache[s].inum
<1>1. /\ s \in Slot /\ icache[s].ref > 0 /\ k \in Inum
      /\ \A t \in Slot : c[t].ref = icache[t].ref /\ c[t].inum = icache[t].inum
  BY DEF Live, Alike
<1>2. /\ \A j \in Inum : d[j].type = disk[j].type /\ d[j].entries = disk[j].entries
      /\ \A j \in Inum : j # k => d[j].nlink = disk[j].nlink
      /\ d[k].nlink = c[s].nlink
  BY <1>1 DEF Iupdate, TableInv, Disks
<1>3. Frame(c)
  BY <1>1 DEF Frame
<1>4. ASSUME NEW t \in Slot PROVE Kept(c, d, t) \/ Read(c, d, t)
  <2>1. CASE t = s
    BY <1>1, <1>2, <2>1 DEF Read
  <2>2. CASE t # s
    <3>1. icache[t].ref > 0 => icache[t].inum \in Inum /\ icache[t].inum # k
      <4>1. icache[t].ref > 0 => Live(t)
        BY DEF Live, TableInv, Caches
      <4> QED
        BY <2>2, <4>1, OneSlot DEF Live
    <3> QED
      BY <1>1, <1>2, <2>2, <3>1 DEF Kept
  <2> QED
    BY <2>1, <2>2
<1> QED
  BY <1>1, <1>2, <1>3, <1>4 DEF CachedOK

\* n for inode k alone.
Only(j, k, n) == IF j = k THEN n ELSE 0

\* A count that is added for a link that will be there, or taken back.
LEMMA Balanced ==
  ASSUME TableInv, NEW p \in Proc, NEW q, NEW c, NEW d \in Disks, NEW k, NEW n \in Int,
         \A j \in Inum : d[j].nlink = disk[j].nlink + Only(j, k, n),
         \A j \in Inum : Due(c, q, j) = Due(icache, proc[p], j) + Only(j, k, n)
  PROVE  \A j \in Inum :
           d[j].nlink - Due(c, q, j) >= disk[j].nlink - Due(icache, proc[p], j)
<1> SUFFICES ASSUME NEW j \in Inum
             PROVE  d[j].nlink - Due(c, q, j) >= disk[j].nlink - Due(icache, proc[p], j)
  OBVIOUS
<1>1. PICK m \in Int : m = Only(j, k, n)
  BY DEF Only
<1>2. d[j].nlink = disk[j].nlink + m /\ Due(c, q, j) = Due(icache, proc[p], j) + m
  BY <1>1
<1>3. Due(icache, proc[p], j) \in Nat /\ disk[j].nlink \in Int
  BY DEF Due, TableInv, Disks
<1> QED
  BY <1>2, <1>3

LEMMA LinkCountTree ==
  ASSUME TableInv, TableInv', TreeInv, NEW p \in Proc, LinkCount(p) PROVE TreeInv'
<1> DEFINE q == proc[p]   s == q.ip   k == icache[s].inum
           here == Ilock(icache, s, NoProc)
           c == AddLink(here, s, 1)
           d == Iupdate(disk, c, s)
           A == IF here[s].type = "dir" THEN Go(p, Return(q, <<s>>), here, disk)
                ELSE Go(p, [q EXCEPT !.pc = "again"], c, d)
<1>1. /\ q.pc = "count" /\ q.puts = <<>> /\ Fits(q) /\ Idle(q) /\ Live(s)
      /\ Knows(icache, disk, q) /\ q.call = "link" /\ q.ip # 0 /\ q.path = <<>>
  BY Held, NowAt DEF LinkCount, At, Fits, CallInv, TreeInv, KnowsInv
<1>2. Loose(q)
  BY <1>1 DEF Loose, Idle
<1>3. A /\ Undisturbed(p, here) /\ Reads(here, s) /\ here[s].type = disk[k].type
      /\ icache[s].busy = NoProc
  <2>1. Locking(s, A)
    BY DEF LinkCount
  <2>2. icache[s].busy = NoProc
    BY <2>1 DEF Locking
  <2> HIDE DEF A
  <2> QED
    BY <1>1, <2>1, <2>2, Looking1
<1>4. CASE Go(p, Return(q, <<s>>), here, disk)
  <2> HIDE DEF here
  <2> QED
    BY <1>2, <1>3, <1>4, EndsTree
<1>5. CASE here[s].type # "dir" /\ Go(p, [q EXCEPT !.pc = "again"], c, d)
  <2>1. PICK r : r = [q EXCEPT !.pc = "again"]
    OBVIOUS
  <2>2. /\ r.call = "link" /\ r.pc = "again" /\ r.path = <<>> /\ r.new = q.new
        /\ r.dp = q.dp /\ r.ip = s /\ r.puts = <<>> /\ r.iput = "start"
        /\ r.file = q.file /\ r.cwd = q.cwd
    BY <1>1, <2>1 DEF Idle, Process
  <2>3. here \in Alike(icache) /\ here \in Caches /\ s \in Slot /\ k \in Inum
    BY <1>1, <1>3 DEF Reads, Alike, Live
  <2>4. Read(here, disk, s)
    <3>1. Live(s) /\ icache[s].busy = NoProc /\ NoProc \in Proc \cup {NoProc}
      BY <1>1, <1>3
    <3> HIDE DEF s
    <3> QED
      BY <3>1, Reading DEF here
  <2> HIDE DEF here
  <2>5. /\ \A t \in Slot : t # s => c[t] = here[t] /\ here[t] = icache[t]
        /\ c[s].inum = here[s].inum /\ c[s].ref = here[s].ref /\ c[s].valid = here[s].valid
        /\ c[s].type = here[s].type /\ c[s].nlink = here[s].nlink + 1
        /\ c[s].busy = here[s].busy
    BY <1>3, <2>3, Fields DEF Reads
  <2>6. c \in Alike(icache)
    BY <1>1, <2>3, Counts
  <2>7. /\ disk[k].type # "free" /\ here[s].nlink = disk[k].nlink /\ here[s].inum = k
        /\ \A u \in Proc : ~ Kills(proc[u], s)
    BY <2>3, <2>4 DEF Read, Alike
  <2> HIDE DEF c
  <2>8. /\ Frame(c) /\ CachedOK(c, d) /\ \A t \in Slot : c[t].ref = icache[t].ref
        /\ \A j \in Inum : d[j].type = disk[j].type /\ d[j].entries = disk[j].entries
        /\ \A j \in Inum : j # k => d[j].nlink = disk[j].nlink
        /\ d[k].nlink = c[s].nlink
    <3>1. Live(s) /\ d = Iupdate(disk, c, s)
      BY <1>1
    <3>2. /\ c[s].type = disk[k].type
          /\ \A t \in Slot : t # s => /\ c[t].valid = icache[t].valid /\ c[t].type = icache[t].type
                                      /\ c[t].nlink = icache[t].nlink
      BY <1>3, <2>5
    <3> HIDE DEF d, s
    <3> QED
      BY <2>6, <2>7, <3>1, <3>2, Updates
  <2> HIDE DEF d
  <2>9. d \in Disks /\ Go(p, r, c, d)
    <3>1. disk' \in Disks /\ Go(p, r, c, d)
      BY <1>5, <2>1 DEF TableInv
    <3> QED
      BY <3>1, After
  <2>10. Loose(r)
    BY <2>2 DEF Loose
  <2>11. Calm(q) /\ Calm(r) /\ Locked(q) = {} /\ Locked(r) = {}
    BY <1>2, <2>10 DEF Loose, Calm, Locked
  <2>12. LockOK(p, r, c)
    BY <1>3, <2>5, <2>11 DEF LockOK, Undisturbed, TreeInv, LockInv
  <2>13. RoleOK(p, r, c)
    <3>1. \A t \in Slot : ~ (c[t].ref > icache[t].ref)
      BY <2>8 DEF TableInv, Caches
    <3> QED
      BY <2>8, <2>9, <2>11, <3>1, CalmRole
  <2>14. Knows(c, d, r)
    <3>1. New(c, r) = 0 /\ c[r.ip].inum = k
      BY <2>2, <2>5, <2>7 DEF New
    <3>2. d[c[r.ip].inum].type # "dir"
      BY <1>3, <1>5, <2>3, <2>8, <3>1
    <3> QED
      BY <1>1, <2>2, <3>1, <3>2 DEF Knows
  <2>15. \A j \in Inum : d[j].nlink = disk[j].nlink + Only(j, k, 1)
    <3> SUFFICES ASSUME NEW j \in Inum PROVE d[j].nlink = disk[j].nlink + Only(j, k, 1)
      OBVIOUS
    <3>1. disk[j].nlink \in Int
      BY DEF TableInv, Disks
    <3> QED
      BY <2>5, <2>7, <2>8, <3>1 DEF Only
  <2>16. \A j \in Inum : Due(c, r, j) = Due(icache, q, j) + Only(j, k, 1)
    <3> SUFFICES ASSUME NEW j \in Inum
                 PROVE  Due(c, r, j) = Due(icache, q, j) + Only(j, k, 1)
      OBVIOUS
    <3>1. c[r.ip].inum = k /\ r.ip # 0
      BY <1>1, <2>2, <2>5, <2>7
    <3>2. ~ Owes(icache, q, j) /\ ~ OwesUp(icache, q, j) /\ ~ OwesUp(c, r, j)
      BY <1>1, <2>2 DEF Owes, OwesUp
    <3>3. Owes(c, r, j) <=> j = k
      BY <2>2, <3>1 DEF Owes
    <3> QED
      BY <3>2, <3>3 DEF Due, Only
  <2>17. \A j \in Inum : d[j].nlink - Due(c, r, j) >= disk[j].nlink - Due(icache, q, j)
    <3>1. 1 \in Int
      OBVIOUS
    <3> HIDE DEF k
    <3> QED
      BY <2>9, <2>15, <2>16, <3>1, Balanced
  <2>18. q.iput # "forget"
    BY <1>2 DEF Loose
  <2> QED
    BY <2>8, <2>9, <2>12, <2>13, <2>14, <2>17, <2>18, Recounts
<1> QED
  BY <1>3, <1>4, <1>5

LEMMA LinkBadTree ==
  ASSUME TableInv, TableInv', TreeInv, NEW p \in Proc, LinkBad(p) PROVE TreeInv'
<1> DEFINE q == proc[p]   s == q.ip   k == icache[s].inum
           here == Ilock(icache, s, NoProc)
           c == AddLink(here, s, -1)
           d == Iupdate(disk, c, s)
           A == Go(p, Return(q, <<s>>), c, d)
<1>1. /\ q.pc = "bad" /\ q.puts = <<>> /\ Fits(q) /\ Idle(q) /\ Live(s) /\ q.ip # 0
  BY Held, NowAt DEF LinkBad, At, Fits, CallInv
<1>2. Loose(q) /\ q \in Process /\ q.iput = "start"
  BY <1>1 DEF Loose, Idle
<1>3. A /\ Undisturbed(p, here) /\ Reads(here, s) /\ here[s].type = disk[k].type
      /\ icache[s].busy = NoProc
  <2>1. Locking(s, A)
    BY DEF LinkBad
  <2>2. icache[s].busy = NoProc
    BY <2>1 DEF Locking
  <2> HIDE DEF A
  <2> QED
    BY <1>1, <2>1, <2>2, Looking1
<1>4. PICK r : r = Return(q, <<s>>)
  OBVIOUS
<1>5. /\ r.pc = "user" /\ r.call = "none" /\ r.path = <<>> /\ r.new = <<>>
      /\ r.iput = "start" /\ Calm(r) /\ Locked(r) = {}
  BY <1>2, <1>4, Returned
<1>6. here \in Alike(icache) /\ here \in Caches /\ s \in Slot /\ k \in Inum
  BY <1>1, <1>3 DEF Reads, Alike, Live
<1>7. Read(here, disk, s)
  <2>1. Live(s) /\ icache[s].busy = NoProc /\ NoProc \in Proc \cup {NoProc}
    BY <1>1, <1>3
  <2> HIDE DEF s
  <2> QED
    BY <2>1, Reading DEF here
<1>8. Go(p, r, c, d)
  BY <1>3, <1>4
<1> HIDE DEF here
<1>9. /\ \A t \in Slot : t # s => c[t] = here[t] /\ here[t] = icache[t]
      /\ c[s].inum = here[s].inum /\ c[s].ref = here[s].ref /\ c[s].valid = here[s].valid
      /\ c[s].type = here[s].type /\ c[s].nlink = here[s].nlink + (-1)
      /\ c[s].busy = here[s].busy
  <2>1. -1 \in Int
    OBVIOUS
  <2> QED
    BY <1>3, <1>6, <2>1, Fields DEF Reads
<1>10. c \in Alike(icache)
  BY <1>1, <1>6, Counts
<1>11. /\ disk[k].type # "free" /\ here[s].nlink = disk[k].nlink /\ here[s].inum = k
       /\ \A u \in Proc : ~ Kills(proc[u], s)
  BY <1>6, <1>7 DEF Read, Alike
<1> HIDE DEF c
<1>12. /\ Frame(c) /\ CachedOK(c, d) /\ \A t \in Slot : c[t].ref = icache[t].ref
       /\ \A j \in Inum : d[j].type = disk[j].type /\ d[j].entries = disk[j].entries
       /\ \A j \in Inum : j # k => d[j].nlink = disk[j].nlink
       /\ d[k].nlink = c[s].nlink
  <2>1. Live(s) /\ d = Iupdate(disk, c, s)
    BY <1>1
  <2>2. /\ c[s].type = disk[k].type
        /\ \A t \in Slot : t # s => /\ c[t].valid = icache[t].valid /\ c[t].type = icache[t].type
                                    /\ c[t].nlink = icache[t].nlink
    BY <1>3, <1>9
  <2> HIDE DEF d, s
  <2> QED
    BY <1>10, <1>11, <2>1, <2>2, Updates
<1> HIDE DEF d
<1>13. d \in Disks
  <2>1. disk' \in Disks
    BY DEF TableInv
  <2> QED
    BY <1>8, <2>1, After
<1>14. Calm(q) /\ Locked(q) = {}
  BY <1>2 DEF Loose, Calm, Locked
<1>15. LockOK(p, r, c)
  BY <1>3, <1>5, <1>9, <1>14 DEF LockOK, Undisturbed, TreeInv, LockInv
<1>16. RoleOK(p, r, c)
  <2>1. \A t \in Slot : ~ (c[t].ref > icache[t].ref)
    BY <1>12 DEF TableInv, Caches
  <2> QED
    BY <1>5, <1>8, <1>12, <1>14, <2>1, CalmRole
<1>17. Knows(c, d, r) /\ \A j : Due(c, r, j) = 0
  BY <1>5, UserKnows
<1>18. \A j \in Inum : d[j].nlink = disk[j].nlink + Only(j, k, -1)
  <2> SUFFICES ASSUME NEW j \in Inum PROVE d[j].nlink = disk[j].nlink + Only(j, k, -1)
    OBVIOUS
  <2>1. disk[j].nlink \in Int
    BY DEF TableInv, Disks
  <2> QED
    BY <1>9, <1>11, <1>12, <2>1 DEF Only
<1>19. \A j \in Inum : Due(c, r, j) = Due(icache, q, j) + Only(j, k, -1)
  <2> SUFFICES ASSUME NEW j \in Inum PROVE Due(c, r, j) = Due(icache, q, j) + Only(j, k, -1)
    OBVIOUS
  <2>1. ~ OwesUp(icache, q, j)
    BY <1>1 DEF OwesUp
  <2>2. Owes(icache, q, j) <=> j = k
    BY <1>1 DEF Owes
  <2>3. Due(icache, q, j) = (IF j = k THEN 1 ELSE 0)
    BY <2>1, <2>2 DEF Due
  <2> QED
    BY <1>17, <2>3 DEF Only
<1>20. \A j \in Inum : d[j].nlink - Due(c, r, j) >= disk[j].nlink - Due(icache, q, j)
  <2>1. -1 \in Int
    OBVIOUS
  <2> HIDE DEF k
  <2> QED
    BY <1>13, <1>18, <1>19, <2>1, Balanced
<1>21. q.iput # "forget"
  BY <1>2
<1> QED
  BY <1>8, <1>12, <1>13, <1>15, <1>16, <1>17, <1>20, <1>21, Recounts

\* What a process with a parent directory and the inode of a name in it has.
LEMMA Parents ==
  ASSUME TableInv, TreeInv, NEW p \in Proc, proc[p].puts = <<>>,
         proc[p].pc \in {"parent", "ialloc", "init", "nest", "dots", "enter", "child"}
  PROVE  /\ Fits(proc[p]) /\ Idle(proc[p]) /\ Live(proc[p].dp) /\ proc[p].path # <<>>
         /\ Head(proc[p].path) \in Name
         /\ Knows(icache, disk, proc[p])
         /\ disk[icache[proc[p].dp].inum].type = "dir"
<1> DEFINE q == proc[p]
<1>1. Fits(q) /\ Idle(q) /\ Live(q.dp) /\ q.path # <<>> /\ Knows(icache, disk, q)
  BY Held, NowAt DEF Fits, CallInv, TreeInv, KnowsInv
<1>2. Head(q.path) \in Name \cup {".."}
  BY <1>1, PathParts DEF Fits, CallInv, Process
<1>3. Head(q.path) # ".."
  BY <1>1, TailDots DEF Knows, Fits, Process
<1>4. disk[icache[q.dp].inum].type = "dir"
  BY <1>1 DEF Knows
<1> QED
  BY <1>1, <1>2, <1>3, <1>4

\* A directory that a process has locked is as the disk has it, and nobody frees it.
LEMMA LockedHere ==
  ASSUME TableInv, TreeInv, NEW p \in Proc, NEW s, Live(s), s \in Locked(proc[p]),
         Uses(proc[p], s) \/ proc[p].iput = "start"
  PROVE  /\ icache[s].busy = p /\ icache[s].valid
         /\ \A r \in Proc : ~ Kills(proc[r], s)
         /\ \A r \in Proc \ {p} : s \notin Locked(proc[r])
         /\ disk[icache[s].inum].type # "free"
         /\ icache[s].type = disk[icache[s].inum].type
         /\ icache[s].nlink = disk[icache[s].inum].nlink
<1>1. s \in Slot /\ icache[s].ref > 0 /\ p # NoProc
  BY Sets DEF Live
<1>2. icache[s].busy = p /\ icache[s].valid
  BY <1>1 DEF TreeInv, LockInv
<1>3. \A r \in Proc : s \in Locked(proc[r]) => r = p
  BY <1>1, <1>2 DEF TreeInv, LockInv
<1>4. \A r \in Proc : Kills(proc[r], s) => s \in Locked(proc[r])
  BY <1>1 DEF Kills, Locked
<1>5. \A r \in Proc : ~ Kills(proc[r], s)
  <2>1. Uses(proc[p], s) => \A r \in Proc : ~ Kills(proc[r], s)
    BY <1>1, NotKilled
  <2>2. proc[p].iput = "start" => ~ Kills(proc[p], s)
    BY DEF Kills
  <2> QED
    BY <1>3, <1>4, <2>1, <2>2
<1> QED
  BY <1>1, <1>2, <1>3, <1>5, Agreed

-----------------------------------------------------------------------------
(* Steps that write an entry of a directory *)

\* One more or one less in a set of names.
LEMMA Plus ==
  ASSUME NEW S, NEW T, IsFiniteSet(T), NEW x, S \subseteq T \cup {x}
  PROVE  Cardinality(S) \in Nat /\ Cardinality(T) \in Nat /\ Cardinality(S) <= Cardinality(T) + 1
<1>1. IsFiniteSet(T \cup {x}) /\ Cardinality(T) \in Nat
  BY FS_AddElement, FS_CardinalityType
<1>2. Cardinality(T \cup {x}) <= Cardinality(T) + 1
  <2>1. Cardinality(T \cup {x}) = IF x \in T THEN Cardinality(T) ELSE Cardinality(T) + 1
    BY FS_AddElement
  <2> QED
    BY <1>1, <2>1
<1>3. /\ IsFiniteSet(S) /\ Cardinality(S) \in Nat /\ Cardinality(T \cup {x}) \in Nat
      /\ Cardinality(S) <= Cardinality(T \cup {x})
  BY <1>1, FS_Subset, FS_CardinalityType
<1> QED
  BY <1>1, <1>2, <1>3

LEMMA Minus ==
  ASSUME NEW S, NEW T, IsFiniteSet(T), NEW x \in T, S \subseteq T \ {x}
  PROVE  Cardinality(S) \in Nat /\ Cardinality(T) \in Nat /\ Cardinality(S) <= Cardinality(T) - 1
<1>1. IsFiniteSet(T \ {x}) /\ Cardinality(T) \in Nat
  BY FS_RemoveElement, FS_CardinalityType
<1>2. Cardinality(T \ {x}) = Cardinality(T) - 1
  BY FS_RemoveElement
<1>3. /\ IsFiniteSet(S) /\ Cardinality(S) \in Nat
      /\ Cardinality(S) <= Cardinality(T \ {x})
  BY <1>1, FS_Subset, FS_CardinalityType
<1> QED
  BY <1>1, <1>2, <1>3

\* m more names of inode k, n more directories in b, and p owes so many fewer.
LEMMA Pays ==
  ASSUME TableInv, NEW p \in Proc, NEW q, NEW c, NEW d \in Disks, NEW k, NEW b,
         NEW m \in Int, NEW n \in Int,
         \A j \in Inum : d[j].nlink = disk[j].nlink,
         \A j \in Inum : Names(d, j) <= Names(disk, j) + Only(j, k, m),
         \A j \in Inum : Subs(d, j) <= Subs(disk, j) + Only(j, b, n),
         \A j \in Inum : Due(c, q, j) + Only(j, k, m) + Only(j, b, n) <= Due(icache, proc[p], j)
  PROVE  \A j \in Inum : Paid(p, q, c, d, j)
<1> SUFFICES ASSUME NEW j \in Inum PROVE Paid(p, q, c, d, j)
  OBVIOUS
<1>1. Only(j, k, m) \in Int /\ Only(j, b, n) \in Int
  BY DEF Only
<1>2. Due(icache, proc[p], j) \in Nat /\ Due(c, q, j) \in Nat /\ disk[j].nlink \in Int
  BY DEF Due, TableInv, Disks
<1>3. /\ Names(d, j) \in Nat /\ Names(disk, j) \in Nat
      /\ Subs(d, j) \in Nat /\ Subs(disk, j) \in Nat
  BY Finite
<1>4. /\ d[j].nlink = disk[j].nlink
      /\ Names(d, j) <= Names(disk, j) + Only(j, k, m)
      /\ Subs(d, j) <= Subs(disk, j) + Only(j, b, n)
      /\ Due(c, q, j) + Only(j, k, m) + Only(j, b, n) <= Due(icache, proc[p], j)
  OBVIOUS
<1>5. d[j].nlink - Names(d, j) - Subs(d, j) - Due(c, q, j) >=
        disk[j].nlink - Names(disk, j) - Subs(disk, j) - Due(icache, proc[p], j)
  BY <1>1, <1>2, <1>3, <1>4
<1> QED
  BY <1>5 DEF Paid

\* An entry is erased.
LEMMA Erased ==
  ASSUME TableInv, TreeInv, NEW b \in Inum, NEW k \in Inum, NEW name \in Name,
         disk[b].type = "dir", disk[b].entries[name] = k,
         NEW d, d = [disk EXCEPT ![b].entries[name] = 0]
  PROVE  /\ \A j \in Inum : d[j].type = disk[j].type /\ d[j].nlink = disk[j].nlink
         /\ \A j \in Inum : j # b => d[j].entries = disk[j].entries
         /\ \A j \in Inum : NamesOf(d, j) \subseteq NamesOf(disk, j)
         /\ \A j \in Inum : Names(d, j) <= Names(disk, j) + Only(j, k, -1)
         /\ \A j \in Inum : Subs(d, j) <= Subs(disk, j)
         /\ disk[k].type = "dir" =>
              \A j \in Inum : Subs(d, j) <= Subs(disk, j) + Only(j, b, -1)
         /\ Shape(d) /\ b # k
<1>1. /\ \A j \in Inum : /\ d[j].type = disk[j].type /\ d[j].nlink = disk[j].nlink
                         /\ j # b => d[j].entries = disk[j].entries
      /\ d[b].entries[name] = 0
      /\ \A n \in Name \cup {".."} : n # name => d[b].entries[n] = disk[b].entries[n]
  BY DEF TableInv, Disks
<1>2. \A j \in Inum : \A n \in Name \cup {".."} :
        d[j].entries[n] = disk[j].entries[n] \/ (j = b /\ n = name /\ d[j].entries[n] = 0)
  BY <1>1
<1>3. \A j \in Inum : \A x \in NamesOf(d, j) : x \in NamesOf(disk, j) /\ x # <<b, name>>
  <2> SUFFICES ASSUME NEW j \in Inum, NEW x \in NamesOf(d, j)
               PROVE  x \in NamesOf(disk, j) /\ x # <<b, name>>
    OBVIOUS
  <2>1. /\ x \in Inum \X Name /\ d[x[1]].type = "dir" /\ d[x[1]].entries[x[2]] = j
        /\ x[1] \in Inum /\ x[2] \in Name
    BY DEF NamesOf
  <2>2. x # <<b, name>>
    BY <1>1, <2>1, Sets
  <2>3. d[x[1]].entries[x[2]] = disk[x[1]].entries[x[2]]
    BY <1>2, <2>1, Sets
  <2> QED
    BY <1>1, <2>1, <2>2, <2>3 DEF NamesOf
<1>4. <<b, name>> \in NamesOf(disk, k)
  BY EntryNames
<1>5. \A j \in Inum : Names(d, j) <= Names(disk, j) + Only(j, k, -1)
  <2> SUFFICES ASSUME NEW j \in Inum PROVE Names(d, j) <= Names(disk, j) + Only(j, k, -1)
    OBVIOUS
  <2>1. CASE j = k
    <3>1. /\ Names(d, j) \in Nat /\ Names(disk, j) \in Nat /\ Names(d, j) <= Names(disk, j) - 1
      <4>1. NamesOf(d, k) \subseteq NamesOf(disk, k) \ {<<b, name>>}
        BY <1>3
      <4>2. IsFiniteSet(NamesOf(disk, k))
        BY Finite
      <4>3. /\ Cardinality(NamesOf(d, k)) \in Nat /\ Cardinality(NamesOf(disk, k)) \in Nat
            /\ Cardinality(NamesOf(d, k)) <= Cardinality(NamesOf(disk, k)) - 1
        BY <1>4, <4>1, <4>2, Minus
      <4> QED
        BY <2>1, <4>3 DEF Names
    <3> QED
      BY <2>1, <3>1 DEF Only
  <2>2. CASE j # k
    <3>1. Names(d, j) <= Names(disk, j) /\ Names(disk, j) \in Nat
      BY <1>3, Fewer, Finite
    <3> QED
      BY <2>2, <3>1 DEF Only
  <2> QED
    BY <2>1, <2>2
<1>6. \A j \in Inum : SubdirsOf(d, j) \subseteq SubdirsOf(disk, j)
  <2>1. \A j \in Inum : \A n \in Name : disk[j].entries[n] \in Inum \cup {0}
    BY DEF TableInv, Disks
  <2> QED
    BY <1>1, <1>2, <2>1 DEF SubdirsOf
<1>7. \A j \in Inum : Subs(d, j) <= Subs(disk, j)
  <2> SUFFICES ASSUME NEW j \in Inum PROVE Subs(d, j) <= Subs(disk, j)
    OBVIOUS
  <2>1. CASE disk[j].type = "dir"
    BY <1>6, <2>1, Fewer
  <2>2. CASE disk[j].type # "dir"
    BY <1>1, <2>2 DEF Subs
  <2> QED
    BY <2>1, <2>2
<1>8. disk[k].type = "dir" => \A j \in Inum : Subs(d, j) <= Subs(disk, j) + Only(j, b, -1)
  <2> SUFFICES ASSUME disk[k].type = "dir", NEW j \in Inum
               PROVE  Subs(d, j) <= Subs(disk, j) + Only(j, b, -1)
    OBVIOUS
  <2>1. CASE j = b
    <3>1. name \in SubdirsOf(disk, b) /\ name \notin SubdirsOf(d, b)
      BY <1>1, Sets DEF SubdirsOf
    <3>2. SubdirsOf(d, b) \subseteq SubdirsOf(disk, b) \ {name}
      BY <1>6, <3>1
    <3>3. /\ Cardinality(SubdirsOf(d, b)) \in Nat /\ Cardinality(SubdirsOf(disk, b)) \in Nat
          /\ Cardinality(SubdirsOf(d, b)) <= Cardinality(SubdirsOf(disk, b)) - 1
      BY <3>1, <3>2, Finite, Minus
    <3> QED
      BY <1>1, <2>1, <3>3 DEF Subs, Only
  <2>2. CASE j # b
    <3>1. Subs(d, j) <= Subs(disk, j) /\ Subs(disk, j) \in Nat
      BY <1>7, Finite
    <3> QED
      BY <2>2, <3>1 DEF Only
  <2> QED
    BY <2>1, <2>2
<1>9. Shape(disk)
  BY DEF TreeInv
<1>10. b # k
  BY <1>9 DEF Shape
<1>11. Shape(d)
  <2>1. d[ROOTINO].type # "free" /\ \A j \in Inum : NamesOf(d, j) # {} => d[j].type # "free"
    BY <1>1, <1>3, <1>9, Sets DEF Shape
  <2>2. \A j \in Inum : d[j].type = "dir" /\ j # ROOTINO =>
          \A x, y \in NamesOf(d, j) : x = y /\ d[j].entries[".."] = x[1]
    <3>1. \A j \in Inum : d[j].entries[".."] = disk[j].entries[".."]
      BY <1>1, <1>2, Sets
    <3> QED
      BY <1>1, <1>3, <1>9, <3>1 DEF Shape
  <2>3. \A i, j \in Inum : d[i].type = "dir" /\ d[j].type = "dir" =>
          \A n, m \in Name : ~ (d[i].entries[n] = j /\ d[j].entries[m] = i)
    <3>1. \A i, j \in Inum : \A n \in Name : d[i].entries[n] = j => disk[i].entries[n] = j
      BY <1>2, Sets
    <3> QED
      BY <1>1, <1>9, <3>1 DEF Shape
  <2> QED
    BY <2>1, <2>2, <2>3 DEF Shape
<1> QED
  BY <1>1, <1>3, <1>5, <1>7, <1>8, <1>10, <1>11

\* An entry for inode k is written into directory b, perhaps over another.
Entering(b, k, name, d) ==
  /\ b \in Inum /\ k \in Inum /\ name \in Name
  /\ disk[b].type = "dir" /\ disk[k].type # "free" /\ b # k
  /\ disk[k].type = "dir" =>
       /\ k # ROOTINO /\ NamesOf(disk, k) = {} /\ disk[k].entries[".."] = b
       /\ \A n \in Name : disk[k].entries[n] = 0
  /\ d = [disk EXCEPT ![b].entries[name] = k]

LEMMA Entered ==
  ASSUME TableInv, TreeInv, NEW b, NEW k, NEW name, NEW d, Entering(b, k, name, d)
  PROVE  /\ \A j \in Inum : d[j].type = disk[j].type /\ d[j].nlink = disk[j].nlink
         /\ \A j \in Inum : j # b => d[j].entries = disk[j].entries
         /\ \A j \in Inum : j # k => NamesOf(d, j) \subseteq NamesOf(disk, j)
         /\ \A j \in Inum : Names(d, j) <= Names(disk, j) + Only(j, k, 1)
         /\ \A j \in Inum : Subs(d, j) <= Subs(disk, j) + Only(j, b, 1)
         /\ disk[k].type # "dir" => \A j \in Inum : Subs(d, j) <= Subs(disk, j)
         /\ Shape(d)
<1> SUFFICES
      ASSUME b \in Inum, k \in Inum, name \in Name,
             disk[b].type = "dir", disk[k].type # "free", b # k,
             disk[k].type = "dir" =>
               /\ k # ROOTINO /\ NamesOf(disk, k) = {} /\ disk[k].entries[".."] = b
               /\ \A n \in Name : disk[k].entries[n] = 0,
             d = [disk EXCEPT ![b].entries[name] = k]
      PROVE  /\ \A j \in Inum : d[j].type = disk[j].type /\ d[j].nlink = disk[j].nlink
             /\ \A j \in Inum : j # b => d[j].entries = disk[j].entries
             /\ \A j \in Inum : j # k => NamesOf(d, j) \subseteq NamesOf(disk, j)
             /\ \A j \in Inum : Names(d, j) <= Names(disk, j) + Only(j, k, 1)
             /\ \A j \in Inum : Subs(d, j) <= Subs(disk, j) + Only(j, b, 1)
             /\ disk[k].type # "dir" => \A j \in Inum : Subs(d, j) <= Subs(disk, j)
             /\ Shape(d)
  BY DEF Entering
<1>1. /\ \A j \in Inum : /\ d[j].type = disk[j].type /\ d[j].nlink = disk[j].nlink
                         /\ j # b => d[j].entries = disk[j].entries
      /\ d[b].entries[name] = k
      /\ \A n \in Name \cup {".."} : n # name => d[b].entries[n] = disk[b].entries[n]
  BY DEF TableInv, Disks
<1>2. \A j \in Inum : \A n \in Name \cup {".."} :
        d[j].entries[n] = disk[j].entries[n] \/ (j = b /\ n = name /\ d[j].entries[n] = k)
  BY <1>1
<1>3. \A j \in Inum : \A x \in NamesOf(d, j) :
        x \in NamesOf(disk, j) \/ (j = k /\ x = <<b, name>>)
  <2> SUFFICES ASSUME NEW j \in Inum, NEW x \in NamesOf(d, j)
               PROVE  x \in NamesOf(disk, j) \/ (j = k /\ x = <<b, name>>)
    OBVIOUS
  <2>1. /\ x \in Inum \X Name /\ d[x[1]].type = "dir" /\ d[x[1]].entries[x[2]] = j
        /\ x[1] \in Inum /\ x[2] \in Name
    BY DEF NamesOf
  <2>2. CASE d[x[1]].entries[x[2]] = disk[x[1]].entries[x[2]]
    BY <1>1, <2>1, <2>2 DEF NamesOf
  <2>3. CASE x[1] = b /\ x[2] = name /\ d[x[1]].entries[x[2]] = k
    BY <2>1, <2>3
  <2> QED
    BY <1>2, <2>1, <2>2, <2>3
<1>4. \A j \in Inum : Names(d, j) <= Names(disk, j) + Only(j, k, 1)
  <2> SUFFICES ASSUME NEW j \in Inum PROVE Names(d, j) <= Names(disk, j) + Only(j, k, 1)
    OBVIOUS
  <2>1. CASE j = k
    <3>1. NamesOf(d, k) \subseteq NamesOf(disk, k) \cup {<<b, name>>}
      BY <1>3
    <3>2. IsFiniteSet(NamesOf(disk, k))
      BY Finite
    <3>3. /\ Cardinality(NamesOf(d, k)) \in Nat /\ Cardinality(NamesOf(disk, k)) \in Nat
          /\ Cardinality(NamesOf(d, k)) <= Cardinality(NamesOf(disk, k)) + 1
      BY <3>1, <3>2, Plus
    <3> QED
      BY <2>1, <3>3 DEF Names, Only
  <2>2. CASE j # k
    <3>1. Names(d, j) <= Names(disk, j) /\ Names(disk, j) \in Nat
      BY <1>3, <2>2, Fewer, Finite
    <3> QED
      BY <2>2, <3>1 DEF Only
  <2> QED
    BY <2>1, <2>2
<1>5. \A j \in Inum : \A n \in SubdirsOf(d, j) :
        n \in SubdirsOf(disk, j) \/ (j = b /\ n = name /\ disk[k].type = "dir")
  <2>1. \A j \in Inum : \A n \in Name : disk[j].entries[n] \in Inum \cup {0}
    BY DEF TableInv, Disks
  <2> QED
    BY <1>1, <1>2, <2>1 DEF SubdirsOf
<1>6. \A j \in Inum : j # b \/ disk[k].type # "dir" => Subs(d, j) <= Subs(disk, j)
  <2> SUFFICES ASSUME NEW j \in Inum, j # b \/ disk[k].type # "dir"
               PROVE  Subs(d, j) <= Subs(disk, j)
    OBVIOUS
  <2>1. CASE disk[j].type = "dir"
    <3>1. SubdirsOf(d, j) \subseteq SubdirsOf(disk, j)
      BY <1>5
    <3> QED
      BY <2>1, <3>1, Fewer
  <2>2. CASE disk[j].type # "dir"
    BY <1>1, <2>2 DEF Subs
  <2> QED
    BY <2>1, <2>2
<1>7. \A j \in Inum : Subs(d, j) <= Subs(disk, j) + Only(j, b, 1)
  <2> SUFFICES ASSUME NEW j \in Inum PROVE Subs(d, j) <= Subs(disk, j) + Only(j, b, 1)
    OBVIOUS
  <2>1. CASE j = b
    <3>1. SubdirsOf(d, b) \subseteq SubdirsOf(disk, b) \cup {name}
      BY <1>5
    <3>2. IsFiniteSet(SubdirsOf(disk, b))
      BY Finite
    <3>3. /\ Cardinality(SubdirsOf(d, b)) \in Nat /\ Cardinality(SubdirsOf(disk, b)) \in Nat
          /\ Cardinality(SubdirsOf(d, b)) <= Cardinality(SubdirsOf(disk, b)) + 1
      BY <3>1, <3>2, Plus
    <3> QED
      BY <1>1, <2>1, <3>3 DEF Subs, Only
  <2>2. CASE j # b
    <3>1. Subs(d, j) <= Subs(disk, j) /\ Subs(disk, j) \in Nat
      BY <1>6, <2>2, Finite
    <3> QED
      BY <2>2, <3>1 DEF Only
  <2> QED
    BY <2>1, <2>2
<1>8. Shape(disk)
  BY DEF TreeInv
<1>9. Shape(d)
  <2>1. d[ROOTINO].type # "free" /\ \A j \in Inum : NamesOf(d, j) # {} => d[j].type # "free"
    BY <1>1, <1>3, <1>8, Sets DEF Shape
  <2>2. \A j \in Inum : d[j].type = "dir" /\ j # ROOTINO =>
          \A x, y \in NamesOf(d, j) : x = y /\ d[j].entries[".."] = x[1]
    <3> SUFFICES ASSUME NEW j \in Inum, d[j].type = "dir", j # ROOTINO,
                        NEW x \in NamesOf(d, j), NEW y \in NamesOf(d, j)
                 PROVE  x = y /\ d[j].entries[".."] = x[1]
      OBVIOUS
    <3>1. d[j].entries[".."] = disk[j].entries[".."]
      BY <1>1, <1>2, Sets
    <3>2. CASE j = k
      <4>1. x = <<b, name>> /\ y = <<b, name>> /\ disk[j].entries[".."] = b
        BY <1>1, <1>3, <3>2
      <4> QED
        BY <3>1, <4>1
    <3>3. CASE j # k
      <4>1. x \in NamesOf(disk, j) /\ y \in NamesOf(disk, j) /\ disk[j].type = "dir"
        BY <1>1, <1>3, <3>3
      <4> QED
        BY <1>8, <3>1, <4>1 DEF Shape
    <3> QED
      BY <3>2, <3>3
  <2>3. \A i, j \in Inum : d[i].type = "dir" /\ d[j].type = "dir" =>
          \A n, m \in Name : ~ (d[i].entries[n] = j /\ d[j].entries[m] = i)
    <3>1. \A i, j \in Inum : \A n \in Name : d[i].entries[n] = j =>
            disk[i].entries[n] = j \/ (i = b /\ j = k)
      BY <1>2, Sets
    <3>2. disk[k].type = "dir" => \A n \in Name : d[k].entries[n] = 0
      BY <1>1
    <3> QED
      BY <1>1, <1>8, <3>1, <3>2, Sets DEF Shape
  <2> QED
    BY <2>1, <2>2, <2>3 DEF Shape
<1> QED
  BY <1>1, <1>3, <1>4, <1>6, <1>7, <1>9

\* What another process knows does not depend on the entries of inode b, which it
\* neither makes nor looks for a name in.
LEMMA KnowsBut ==
  ASSUME TableInv, TreeInv, NEW r \in Proc, NEW c, Frame(c), NEW d, NEW b \in Inum,
         \A j \in Inum : d[j].type = disk[j].type,
         \A j \in Inum : j # b => d[j].entries = disk[j].entries,
         New(icache, proc[r]) # b,
         New(icache, proc[r]) # 0 => NamesOf(d, New(icache, proc[r])) = {},
         proc[r].pc = "child" => icache[proc[r].dp].inum # b
  PROVE  Knows(c, d, proc[r])
<1> DEFINE q == proc[r]
<1>1. New(c, q) = New(icache, q) /\ New(c, q) \in Inum \cup {0}
  BY NewSame, HasLive
<1>3. Fits(q) /\ Knows(icache, disk, q)
  BY Held DEF TreeInv, KnowsInv
<1>4. q.dp # 0 => c[q.dp].inum = icache[q.dp].inum /\ icache[q.dp].inum \in Inum
  BY Held DEF Live, Frame
<1>5. q.ip # 0 /\ q.pc # "iget" => c[q.ip].inum = icache[q.ip].inum /\ icache[q.ip].inum \in Inum
  BY Held DEF Live, Frame
<1>6. q.pc \in {"parent", "ialloc", "iget", "init", "nest", "dots", "enter", "child",
                "unnest"} => q.dp # 0
  BY <1>3 DEF Fits, CallInv
<1>7. q.pc = "child" => q.ip # 0
  BY <1>3 DEF Fits, CallInv
<1>8. New(c, q) # 0 =>
        /\ q.call \in {"creat", "mkdir"}
        /\ New(c, q) # ROOTINO
        /\ d[New(c, q)].entries = disk[New(c, q)].entries
        /\ d[New(c, q)].type = IF q.call = "mkdir" THEN "dir" ELSE "file"
        /\ \A n \in Name : d[New(c, q)].entries[n] = 0
        /\ NamesOf(d, New(c, q)) = {}
  BY <1>1, <1>3 DEF Knows
<1>9. q.pc = "enter" /\ q.call = "mkdir" => d[New(c, q)].entries[".."] = c[q.dp].inum
  <2>1. q.pc = "enter" => New(c, q) # 0
    BY <1>1, HasLive, Sets DEF Live
  <2> QED
    BY <1>1, <1>3, <1>4, <1>6, <1>8, <2>1 DEF Knows
<1>10. q.pc = "child" => d[c[q.dp].inum].entries[Head(q.path)] = c[q.ip].inum
  BY <1>3, <1>4, <1>5, <1>6, <1>7 DEF Knows
<1>11. q.call = "link" /\ q.ip # 0 /\ q.pc \in {"again", "walk", "parent", "bad"} =>
         d[c[q.ip].inum].type # "dir"
  BY <1>3, <1>5 DEF Knows
<1> QED
  BY <1>3, <1>4, <1>6, <1>8, <1>9, <1>10, <1>11 DEF Knows

\* The disk d has other entries in directory b only, and more names of inode k only.
Rewrites(d, b, k) ==
  /\ \A j \in Inum : d[j].type = disk[j].type
  /\ \A j \in Inum : j # b => d[j].entries = disk[j].entries
  /\ \A j \in Inum : j # k => NamesOf(d, j) \subseteq NamesOf(disk, j)

\* No other process than p makes inode k.
OthersOf(p, k) == \A r \in Proc \ {p} : New(icache, proc[r]) # k

\* So none of the others does when p writes an entry of a directory that it has locked.
LEMMA OthersKnow ==
  ASSUME TableInv, TreeInv, NEW p \in Proc, proc[p].iput = "start", NEW s, Live(s),
         s \in Locked(proc[p]), Uses(proc[p], s),
         NEW c, Frame(c), NEW d, NEW k, Rewrites(d, icache[s].inum, k), OthersOf(p, k)
  PROVE  \A r \in Proc \ {p} : Knows(c, d, proc[r])
<1> SUFFICES ASSUME NEW r \in Proc \ {p} PROVE Knows(c, d, proc[r])
  OBVIOUS
<1> DEFINE b == icache[s].inum
<1>1. /\ b \in Inum /\ s \in Slot /\ r \in Proc /\ r # p
      /\ \A j \in Inum : d[j].type = disk[j].type
      /\ \A j \in Inum : j # b => d[j].entries = disk[j].entries
      /\ \A j \in Inum : j # k => NamesOf(d, j) \subseteq NamesOf(disk, j)
      /\ New(icache, proc[r]) # k
  BY DEF Live, Rewrites, OthersOf
<1>2. New(icache, proc[r]) # b
  BY <1>1 DEF TreeInv, RoleInv
<1>3. New(icache, proc[r]) # 0 => NamesOf(d, New(icache, proc[r])) = {}
  <2>1. New(icache, proc[r]) \in Inum \cup {0}
    BY <1>1, HasLive
  <2>2. New(icache, proc[r]) # 0 => NamesOf(disk, New(icache, proc[r])) = {}
    BY <1>1 DEF TreeInv, KnowsInv, Knows
  <2> QED
    BY <1>1, <2>1, <2>2
<1>4. proc[r].pc = "child" => icache[proc[r].dp].inum # b
  <2> SUFFICES ASSUME proc[r].pc = "child" PROVE icache[proc[r].dp].inum # b
    OBVIOUS
  <2>1. Live(proc[r].dp)
    BY <1>1, Held DEF Fits, CallInv
  <2>2. proc[r].dp \in Locked(proc[r])
    BY <2>1 DEF Locked, Live
  <2>3. s \notin Locked(proc[r])
    BY <1>1, LockedHere
  <2> QED
    BY <2>1, <2>2, <2>3, OneSlot
<1> QED
  BY <1>1, <1>2, <1>3, <1>4, KnowsBut

\* A directory in which unlink has found a name, and the inode of the name.
LEMMA Children ==
  ASSUME TableInv, TreeInv, NEW p \in Proc, At(p, "child"), NEW b, NEW k, NEW name,
         b = icache[proc[p].dp].inum, k = icache[proc[p].ip].inum, name = Head(proc[p].path)
  PROVE  /\ Live(proc[p].dp) /\ Live(proc[p].ip) /\ Idle(proc[p]) /\ Fits(proc[p])
         /\ b \in Inum /\ k \in Inum /\ name \in Name /\ b # k /\ proc[p].dp # proc[p].ip
         /\ disk[b].type = "dir" /\ disk[b].entries[name] = k
         /\ disk[k].nlink >= 1
         /\ Locked(proc[p]) = {proc[p].dp} /\ Calm(proc[p])
         /\ Knows(icache, disk, proc[p])
         /\ \A j : Due(icache, proc[p], j) = 0
<1> DEFINE q == proc[p]
<1>1. q.pc = "child" /\ q.puts = <<>>
  BY DEF At
<1>2. /\ Live(q.dp) /\ Live(q.ip) /\ Idle(q) /\ Fits(q) /\ Knows(icache, disk, q)
      /\ name \in Name /\ disk[b].type = "dir"
  BY <1>1, Parents, Held DEF Fits, CallInv
<1>3. b \in Inum /\ k \in Inum
  BY <1>2 DEF Live
<1>4. disk[b].entries[name] = k
  BY <1>1, <1>2 DEF Knows
<1>5. b # k
  BY <1>2, <1>3, <1>4 DEF TreeInv, Shape
<1>6. disk[k].nlink >= 1
  <2>1. disk[k].nlink >= Names(disk, k) + Subs(disk, k) + Root(k)
                           + Cardinality({r \in Proc : Owes(icache, proc[r], k)})
                           + Cardinality({r \in Proc : OwesUp(icache, proc[r], k)})
    BY <1>3 DEF TreeInv, CountInv, Names, Subs, Root
  <2>2. /\ Cardinality({r \in Proc : Owes(icache, proc[r], k)}) \in Nat
        /\ Cardinality({r \in Proc : OwesUp(icache, proc[r], k)}) \in Nat
    <3>1. /\ {r \in Proc : Owes(icache, proc[r], k)} \in SUBSET Proc
          /\ {r \in Proc : OwesUp(icache, proc[r], k)} \in SUBSET Proc
      OBVIOUS
    <3> QED
      BY <3>1, Sets, FS_Subset, FS_CardinalityType
  <2>3. Names(disk, k) # 0
    <3>1. <<b, name>> \in NamesOf(disk, k)
      BY <1>2, <1>3, <1>4, EntryNames
    <3> QED
      BY <3>1, Finite, FS_EmptySet DEF Names
  <2>4. Names(disk, k) \in Nat /\ Subs(disk, k) \in Nat /\ Root(k) \in Nat /\ disk[k].nlink \in Int
    BY <1>3, Finite DEF TableInv, Disks
  <2> QED
    BY <2>1, <2>2, <2>3, <2>4
<1>7. Locked(q) = {q.dp} /\ Calm(q)
  BY <1>1, <1>2 DEF Locked, Calm, Idle, Live
<1>8. \A j : Due(icache, q, j) = 0
  BY <1>1 DEF Due, Owes, OwesUp
<1> QED
  BY <1>2, <1>3, <1>4, <1>5, <1>6, <1>7, <1>8

\* A write of an entry leaves the cache as good as it was.
LEMMA CachedSame ==
  ASSUME TableInv, NEW c, CachedOK(c, disk), NEW d,
         \A j \in Inum : d[j].type = disk[j].type /\ d[j].nlink = disk[j].nlink
  PROVE  CachedOK(c, d)
<1> SUFFICES ASSUME NEW s \in Slot PROVE Kept(c, d, s) \/ Read(c, d, s) \/ Taken(c, d, s)
  BY DEF CachedOK
<1>1. icache[s].ref > 0 => icache[s].inum \in Inum
  BY DEF TableInv, Caches
<1>2. Kept(c, disk, s) => Kept(c, d, s)
  BY <1>1 DEF Kept
<1>3. Read(c, disk, s) => Read(c, d, s)
  BY DEF Read
<1>4. Taken(c, disk, s) => Taken(c, d, s)
  BY DEF Taken
<1> QED
  BY <1>2, <1>3, <1>4 DEF CachedOK

\* Of the cache c only the lock of slot s is given up.
LEMMA CachedUnlock ==
  ASSUME TableInv, NEW c \in Caches, NEW d, CachedOK(c, d), Frame(c), NEW s \in Slot
  PROVE  CachedOK(Iunlock(c, s), d) /\ Frame(Iunlock(c, s))
<1> DEFINE e == Iunlock(c, s)
<1>1. \A t \in Slot : /\ e[t].inum = c[t].inum /\ e[t].ref = c[t].ref /\ e[t].valid = c[t].valid
                      /\ e[t].type = c[t].type /\ e[t].nlink = c[t].nlink
  BY Fields
<1> HIDE DEF e
<1>2. Frame(e)
  BY <1>1 DEF Frame
<1>3. CachedOK(e, d)
  <2> SUFFICES ASSUME NEW t \in Slot PROVE Kept(e, d, t) \/ Read(e, d, t) \/ Taken(e, d, t)
    BY DEF CachedOK
  <2>1. CASE Kept(c, d, t)
    BY <1>1, <2>1 DEF Kept
  <2>2. CASE Read(c, d, t)
    BY <1>1, <2>2 DEF Read
  <2>3. CASE Taken(c, d, t)
    BY <1>1, <2>3 DEF Taken
  <2> QED
    BY <2>1, <2>2, <2>3 DEF CachedOK
<1> QED
  BY <1>2, <1>3 DEF e

\* No inode is freed whose names are among those of before.
LEMMA StillDead ==
  ASSUME TableInv, TreeInv, NEW d,
         \A j \in Inum : NamesOf(d, j) \subseteq NamesOf(disk, j)
  PROVE  \A r \in Proc, s \in Slot : Kills(proc[r], s) => NamesOf(d, icache[s].inum) = {}
<1> SUFFICES ASSUME NEW r \in Proc, NEW s \in Slot, Kills(proc[r], s)
             PROVE  NamesOf(d, icache[s].inum) = {}
  OBVIOUS
<1>1. Live(s)
  BY HasLive
<1>2. icache[s].inum \in Inum
  BY <1>1 DEF Live
<1>3. NamesOf(disk, icache[s].inum) = {}
  BY DEF TreeInv, DeadInv
<1> QED
  BY <1>2, <1>3

\* unlink() has locked the inode of the name, which is counted at least once.
LEMMA ChildLocked ==
  ASSUME TableInv, TreeInv, NEW p \in Proc, At(p, "child"), NEW s, s = proc[p].ip,
         NEW A, NEW c, c = Ilock(icache, s, p),
         Locking(s, IF c[s].nlink < 1 THEN Panic("bad") ELSE A)
  PROVE  /\ A /\ icache[s].busy = NoProc /\ c \in Alike(icache) /\ c \in Caches
         /\ Frame(c) /\ CachedOK(c, disk) /\ \A t \in Slot : c[t].ref = icache[t].ref
         /\ \A t \in Slot : t # s => c[t] = icache[t]
         /\ c[s].inum = icache[s].inum /\ c[s].busy = p /\ c[s].valid
         /\ c[s].type = disk[icache[s].inum].type
         /\ Iunlock(c, s) = Ilock(icache, s, NoProc)
         /\ \A r \in Proc : New(icache, proc[r]) # icache[s].inum
<1> DEFINE B == IF c[s].nlink < 1 THEN Panic("bad") ELSE A
<1>1. Live(s) /\ disk[icache[s].inum].nlink >= 1 /\ s = proc[p].ip /\ proc[p].pc = "child"
  BY Children DEF At
<1>2. B /\ icache[s].busy = NoProc
  <2>1. Locking(s, B)
    OBVIOUS
  <2>2. s \in Slot /\ icache[s].ref > 0
    BY <1>1 DEF Live
  <2> HIDE DEF B
  <2> QED
    BY <2>1, <2>2, Locks
<1>3. /\ Reads(c, s) /\ Read(c, disk, s) /\ c[s].valid /\ c[s].busy = p
      /\ c[s].inum = icache[s].inum /\ c[s].type = disk[icache[s].inum].type
      /\ Iunlock(c, s) = Ilock(icache, s, NoProc)
  <2>1. p \in Proc \cup {NoProc}
    OBVIOUS
  <2> QED
    BY <1>1, <1>2, <2>1, Reading
<1>4. A
  <2>1. c[s].nlink = disk[icache[s].inum].nlink
    BY <1>3 DEF Read
  <2>2. ~ (c[s].nlink < 1)
    BY <1>1, <2>1, SMT DEF TableInv, Disks, Live
  <2> QED
    BY <1>2, <2>2
<1>5. Frame(c) /\ CachedOK(c, disk) /\ \A t \in Slot : c[t].ref = icache[t].ref
  BY <1>3, ReadsOK
<1>6. Uses(proc[p], s)
  BY <1>1 DEF Uses
<1>7. \A r \in Proc : New(icache, proc[r]) # icache[s].inum
  BY <1>1, <1>6 DEF TreeInv, RoleInv, Live
<1> QED
  BY <1>2, <1>3, <1>4, <1>5, <1>7 DEF Reads, Alike

\* The directory is not empty.
LEMMA EraseFull ==
  ASSUME TableInv, TableInv', TreeInv, NEW p \in Proc, At(p, "child"), NEW q, q = proc[p],
         NEW c, c = Ilock(icache, q.ip, p),
         Go(p, Return(q, <<q.ip, q.dp>>), Iunlock(Iunlock(c, q.ip), q.dp), disk),
         icache[q.ip].busy = NoProc, Iunlock(c, q.ip) = Ilock(icache, q.ip, NoProc)
  PROVE  TreeInv'
<1> DEFINE s == q.ip   x == q.dp   h == Ilock(icache, s, NoProc)   e == Iunlock(h, x)
<1>1. /\ Live(x) /\ Live(s) /\ s # x /\ Fits(q) /\ Idle(q) /\ Locked(q) = {x} /\ Calm(q)
      /\ \A j : Due(icache, q, j) = 0
  BY Children
<1>2. q \in Process /\ q.iput = "start" /\ s \in Slot /\ x \in Slot
  BY <1>1 DEF Idle, Fits, Live
<1>3. PICK r : r = Return(q, <<s, x>>)
  OBVIOUS
<1>4. Go(p, r, e, disk)
  BY <1>3
<1>5. /\ r.pc = "user" /\ r.call = "none" /\ r.path = <<>> /\ r.new = <<>>
      /\ r.iput = "start" /\ Calm(r) /\ Locked(r) = {}
  BY <1>2, <1>3, Returned
<1>6. /\ Reads(h, s) /\ h[s].valid /\ h[s].busy = NoProc
      /\ h \in Alike(icache) /\ h \in Caches
      /\ \A t \in Slot : t # s => h[t] = icache[t]
  <2>1. NoProc \in Proc \cup {NoProc} /\ Live(s) /\ icache[s].busy = NoProc
    BY <1>1
  <2>2. Reads(h, s) /\ h[s].valid /\ h[s].busy = NoProc
    BY <2>1, Reading
  <2> QED
    BY <2>2 DEF Reads, Alike
<1> HIDE DEF h
<1>7. /\ \A t \in Slot : t # x => e[t] = h[t]
      /\ e[x].busy = NoProc
      /\ \A t \in Slot : e[t].ref = h[t].ref
  BY <1>2, <1>6, Fields
<1>8. Frame(h) /\ CachedOK(h, disk) /\ \A t \in Slot : h[t].ref = icache[t].ref
  BY <1>6, ReadsOK
<1>9. CachedOK(e, disk) /\ Frame(e)
  BY <1>2, <1>6, <1>8, CachedUnlock
<1> HIDE DEF e
<1>10. LockOK(p, r, e)
  <2>1. \A t \in Slot : t # x => e[t].busy = icache[t].busy /\ (icache[t].valid => e[t].valid)
    BY <1>6, <1>7, <1>1
  <2>2. x \in Locked(q) /\ Locked(r) = Locked(q) \ {x}
    BY <1>1, <1>5
  <2> HIDE DEF x
  <2> QED
    BY <1>2, <1>7, <2>1, <2>2, Unlocks
<1>11. RoleOK(p, r, e)
  <2>1. \A t \in Slot : ~ (e[t].ref > icache[t].ref)
    BY <1>7, <1>8 DEF TableInv, Caches
  <2> QED
    BY <1>1, <1>4, <1>5, <1>9, <2>1, CalmRole
<1>12. Knows(e, disk, r) /\ \A k \in Inum : Due(e, r, k) <= Due(icache, q, k)
  <2>1. Knows(e, disk, r) /\ \A k : Due(e, r, k) = 0
    BY <1>5, UserKnows
  <2> QED
    BY <1>1, <2>1
<1> QED
  BY <1>2, <1>4, <1>9, <1>10, <1>11, <1>12, Same

\* Where the lock of a slot changes, p takes it or gives it up.
LEMMA Relocks ==
  ASSUME TableInv, TreeInv, NEW p \in Proc, NEW q, NEW c,
         \A t \in Slot :
           \/ /\ c[t].busy = icache[t].busy /\ (icache[t].valid => c[t].valid)
              /\ t \in Locked(q) <=> t \in Locked(proc[p])
           \/ /\ t \in Locked(q) /\ c[t].busy = p /\ c[t].valid
              /\ icache[t].busy \in {p, NoProc}
           \/ /\ t \notin Locked(q) /\ c[t].busy = NoProc
              /\ icache[t].busy \in {p, NoProc}
  PROVE  LockOK(p, q, c)
<1> SUFFICES ASSUME NEW t \in Slot
             PROVE  /\ t \in Locked(q) <=> c[t].busy = p
                    /\ \A r \in Proc \ {p} : c[t].busy = r <=> icache[t].busy = r
                    /\ c[t].busy # NoProc => c[t].valid
  BY DEF LockOK
<1>1. /\ t \in Locked(proc[p]) <=> icache[t].busy = p
      /\ icache[t].busy # NoProc => icache[t].valid
  BY DEF TreeInv, LockInv
<1>2. NoProc \notin Proc
  BY Sets
<1> QED
  BY <1>1, <1>2

\* The directory is empty: its name is erased, and the parent is yet to be counted down.
LEMMA EraseDir ==
  ASSUME TableInv, TableInv', TreeInv, NEW p \in Proc, At(p, "child"), NEW q, q = proc[p],
         NEW c, c \in Caches, Frame(c), CachedOK(c, disk),
         \A t \in Slot : c[t].ref = icache[t].ref,
         \A t \in Slot : t # q.ip => c[t] = icache[t],
         c[q.ip].inum = icache[q.ip].inum, c[q.ip].busy = p, c[q.ip].valid,
         icache[q.ip].busy = NoProc,
         \A r \in Proc : New(icache, proc[r]) # icache[q.ip].inum,
         disk[icache[q.ip].inum].type = "dir",
         NEW d, d = WriteEntry(disk, q.dp, Head(q.path), 0),
         Go(p, [q EXCEPT !.pc = "unnest", !.path = <<>>], c, d)
  PROVE  TreeInv'
<1> DEFINE s == q.ip   x == q.dp
<1>1. PICK b, k, name : b = icache[x].inum /\ k = icache[s].inum /\ name = Head(q.path)
  OBVIOUS
<1>2. /\ Live(x) /\ Live(s) /\ s # x /\ Fits(q) /\ Idle(q) /\ Locked(q) = {x} /\ Calm(q)
      /\ b \in Inum /\ k \in Inum /\ name \in Name /\ b # k
      /\ disk[b].type = "dir" /\ disk[b].entries[name] = k
      /\ Knows(icache, disk, q) /\ \A j : Due(icache, q, j) = 0
  BY <1>1, Children
<1>3. q \in Process /\ q.iput = "start" /\ s \in Slot /\ x \in Slot /\ q.puts = <<>> /\ q.pc = "child"
  BY <1>2 DEF Idle, Fits, Live, At
<1>4. PICK r : r = [q EXCEPT !.pc = "unnest", !.path = <<>>]
  OBVIOUS
<1>5. /\ r.pc = "unnest" /\ r.path = <<>> /\ r.new = q.new /\ r.call = q.call /\ r.dp = x
      /\ r.ip = s /\ r.iput = "start" /\ r.puts = q.puts
  BY <1>3, <1>4 DEF Process
<1>6. Go(p, r, c, d)
  BY <1>4
<1>7. d \in Disks
  <2>1. disk' \in Disks
    BY DEF TableInv
  <2> QED
    BY <1>6, <2>1, After
<1>8. d = [disk EXCEPT ![b].entries[name] = 0]
  BY <1>1, Zenon DEF WriteEntry
<1>9. /\ \A j \in Inum : d[j].type = disk[j].type /\ d[j].nlink = disk[j].nlink
      /\ \A j \in Inum : j # b => d[j].entries = disk[j].entries
      /\ \A j \in Inum : NamesOf(d, j) \subseteq NamesOf(disk, j)
      /\ \A j \in Inum : Names(d, j) <= Names(disk, j) + Only(j, k, -1)
      /\ \A j \in Inum : Subs(d, j) <= Subs(disk, j) + Only(j, b, -1)
      /\ Shape(d)
  <2>1. disk[k].type = "dir"
    BY <1>1
  <2>2. /\ b \in Inum /\ k \in Inum /\ name \in Name
        /\ disk[b].type = "dir" /\ disk[b].entries[name] = k
    BY <1>2
  <2> QED
    BY <1>8, <2>1, <2>2, Erased
<1> HIDE DEF s, x
<1>10. Calm(r) /\ Locked(r) = {s, x}
  BY <1>3, <1>5 DEF Calm, Locked
<1>11. \A t \in Slot : t # s => c[t] = icache[t]
  BY DEF s
<1>12. /\ c[s].inum = k /\ c[s].busy = p /\ c[s].valid /\ icache[s].busy = NoProc
       /\ c[x].inum = b /\ p # NoProc
  BY <1>1, <1>2, <1>3, <1>11, Sets DEF s
<1>13. LockOK(p, r, c)
  <2>1. s \in Locked(r) /\ c[s].busy = p /\ c[s].valid /\ icache[s].busy \in {p, NoProc}
    BY <1>10, <1>12
  <2>2. \A t \in Slot : t # s => /\ c[t] = icache[t]
                                 /\ (t \in Locked(r) <=> t \in Locked(proc[p]))
    BY <1>2, <1>10, <1>11
  <2> QED
    BY <2>1, <2>2, Relocks
<1>14. RoleOK(p, r, c)
  <2>1. \A t \in Slot : ~ (c[t].ref > icache[t].ref)
    BY DEF TableInv, Caches
  <2> QED
    BY <1>2, <1>6, <1>10, <2>1, CalmRole
<1>15. CachedOK(c, d)
  BY <1>9, CachedSame
<1>16. \A j \in Inum : Paid(p, r, c, d, j)
  <2>1. \A j \in Inum : Due(c, r, j) + Only(j, k, -1) + Only(j, b, -1) <= Due(icache, proc[p], j)
    <3> SUFFICES ASSUME NEW j \in Inum
                 PROVE  Due(c, r, j) + Only(j, k, -1) + Only(j, b, -1) <= 0
      BY <1>2
    <3>1. Owes(c, r, j) <=> j = k
      BY <1>5, <1>3, <1>12, Sets DEF Owes
    <3>2. OwesUp(c, r, j) <=> j = b
      BY <1>5, <1>12 DEF OwesUp
    <3> QED
      BY <3>1, <3>2 DEF Due, Only
  <2>2. -1 \in Int
    OBVIOUS
  <2>3. \A j \in Inum : d[j].nlink = disk[j].nlink
    BY <1>9
  <2> QED
    BY <1>7, <1>9, <2>1, <2>2, <2>3, Pays
<1>17. Knows(c, d, r)
  <2>1. New(c, r) = 0
    BY <1>5 DEF New
  <2>2. d[c[r.dp].inum].type = "dir"
    BY <1>2, <1>5, <1>9, <1>12
  <2>3. \A i \in 1 .. Len(r.new) : r.new[i] # ".."
    BY <1>2, <1>5 DEF Knows
  <2>4. \A i \in 1 .. Len(r.path) : r.path[i] # ".."
    BY <1>5
  <2>5. r.dp # r.ip
    BY <1>2, <1>5 DEF s, x
  <2> QED
    BY <1>5, <2>1, <2>2, <2>3, <2>4, <2>5 DEF Knows
<1>18. \A u \in Proc \ {p} : Knows(c, d, proc[u])
  <2>1. Live(x) /\ x \in Locked(proc[p]) /\ proc[p].iput = "start"
    BY <1>2, <1>3 DEF x
  <2>2. Uses(proc[p], x)
    BY DEF Uses, x
  <2>3. OthersOf(p, k)
    BY <1>1 DEF OthersOf, s
  <2>4. Frame(c)
    OBVIOUS
  <2>5. Rewrites(d, icache[x].inum, k)
    BY <1>1, <1>9 DEF Rewrites, x
  <2> QED
    BY <2>1, <2>2, <2>3, <2>4, <2>5, OthersKnow
<1>19. \A u \in Proc, t \in Slot : Kills(proc[u], t) => NamesOf(d, icache[t].inum) = {}
  BY <1>9, StillDead
<1>20. proc[p].iput # "forget" /\ \A j \in Inum : d[j].type = disk[j].type
  BY <1>3, <1>9
<1> QED
  BY <1>6, <1>7, <1>9, <1>13, <1>14, <1>15, <1>16, <1>17, <1>18, <1>19, <1>20, Moved

\* The inode is a file: the parent is put as its name is erased.
LEMMA EraseFile ==
  ASSUME TableInv, TableInv', TreeInv, NEW p \in Proc, At(p, "child"), NEW q, q = proc[p],
         NEW c, c \in Caches, Frame(c), CachedOK(c, disk),
         \A t \in Slot : c[t].ref = icache[t].ref,
         \A t \in Slot : t # q.ip => c[t] = icache[t],
         c[q.ip].inum = icache[q.ip].inum, c[q.ip].busy = p, c[q.ip].valid,
         icache[q.ip].busy = NoProc,
         \A r \in Proc : New(icache, proc[r]) # icache[q.ip].inum,
         NEW d, d = WriteEntry(disk, q.dp, Head(q.path), 0),
         Go(p, [q EXCEPT !.pc = "unname", !.path = <<>>, !.dp = 0, !.puts = <<q.dp>>],
            Iunlock(c, q.dp), d)
  PROVE  TreeInv'
<1> DEFINE s == q.ip   x == q.dp   e == Iunlock(c, x)
<1>1. PICK b, k, name : b = icache[x].inum /\ k = icache[s].inum /\ name = Head(q.path)
  OBVIOUS
<1>2. /\ Live(x) /\ Live(s) /\ s # x /\ Fits(q) /\ Idle(q) /\ Locked(q) = {x} /\ Calm(q)
      /\ b \in Inum /\ k \in Inum /\ name \in Name /\ b # k
      /\ disk[b].type = "dir" /\ disk[b].entries[name] = k
      /\ Knows(icache, disk, q) /\ \A j : Due(icache, q, j) = 0
  BY <1>1, Children
<1>3. q \in Process /\ q.iput = "start" /\ s \in Slot /\ x \in Slot /\ q.puts = <<>> /\ q.pc = "child"
  BY <1>2 DEF Idle, Fits, Live, At
<1>4. PICK r : r = [q EXCEPT !.pc = "unname", !.path = <<>>, !.dp = 0, !.puts = <<x>>]
  OBVIOUS
<1>5. /\ r.pc = "unname" /\ r.path = <<>> /\ r.new = q.new /\ r.call = q.call /\ r.dp = 0
      /\ r.ip = s /\ r.iput = "start" /\ r.puts = <<x>>
  BY <1>3, <1>4 DEF Process
<1>6. Go(p, r, e, d)
  BY <1>4
<1>7. d \in Disks
  <2>1. disk' \in Disks
    BY DEF TableInv
  <2> QED
    BY <1>6, <2>1, After
<1>8. d = [disk EXCEPT ![b].entries[name] = 0]
  BY <1>1, Zenon DEF WriteEntry
<1>9. /\ \A j \in Inum : d[j].type = disk[j].type /\ d[j].nlink = disk[j].nlink
      /\ \A j \in Inum : j # b => d[j].entries = disk[j].entries
      /\ \A j \in Inum : NamesOf(d, j) \subseteq NamesOf(disk, j)
      /\ \A j \in Inum : Names(d, j) <= Names(disk, j) + Only(j, k, -1)
      /\ \A j \in Inum : Subs(d, j) <= Subs(disk, j)
      /\ Shape(d)
  <2>1. /\ b \in Inum /\ k \in Inum /\ name \in Name
        /\ disk[b].type = "dir" /\ disk[b].entries[name] = k
    BY <1>2
  <2> QED
    BY <1>8, <2>1, Erased
<1> HIDE DEF s, x
<1>10. Calm(r) /\ Locked(r) = {s}
  BY <1>3, <1>5, Sets DEF Calm, Locked
<1>11. \A t \in Slot : t # s => c[t] = icache[t]
  BY DEF s
<1>12. /\ c[s].inum = k /\ c[s].busy = p /\ c[s].valid /\ icache[s].busy = NoProc
       /\ p # NoProc
  BY <1>1, Sets DEF s
<1>13. /\ \A t \in Slot : t # x => e[t] = c[t]
       /\ e[x].busy = NoProc /\ \A t \in Slot : e[t].ref = c[t].ref
  BY <1>3, Fields
<1>14. CachedOK(c, d)
  BY <1>9, CachedSame
<1>15. CachedOK(e, d) /\ Frame(e)
  BY <1>3, <1>14, CachedUnlock
<1> HIDE DEF e
<1>16. e[s].inum = k
  BY <1>2, <1>3, <1>12, <1>13
<1>17. LockOK(p, r, e)
  <2>1. s \in Locked(r) /\ e[s].busy = p /\ e[s].valid /\ icache[s].busy \in {p, NoProc}
    BY <1>2, <1>3, <1>10, <1>12, <1>13
  <2>2. \A t \in Slot \ {s, x} : /\ e[t].busy = icache[t].busy
                                  /\ (icache[t].valid => e[t].valid)
                                  /\ (t \in Locked(r) <=> t \in Locked(proc[p]))
    BY <1>2, <1>10, <1>11, <1>13
  <2>3. x \notin Locked(r) /\ e[x].busy = NoProc /\ icache[x].busy \in {p, NoProc}
    <3>1. x \in Locked(proc[p]) /\ x \in Slot
      BY <1>2, <1>3
    <3> QED
      BY <1>2, <1>10, <1>13, <3>1 DEF TreeInv, LockInv
  <2>4. \A t \in Slot :
          \/ /\ e[t].busy = icache[t].busy /\ (icache[t].valid => e[t].valid)
             /\ (t \in Locked(r) <=> t \in Locked(proc[p]))
          \/ /\ t \in Locked(r) /\ e[t].busy = p /\ e[t].valid
             /\ icache[t].busy \in {p, NoProc}
          \/ /\ t \notin Locked(r) /\ e[t].busy = NoProc
             /\ icache[t].busy \in {p, NoProc}
    <3> SUFFICES ASSUME NEW t \in Slot
          PROVE
          \/ /\ e[t].busy = icache[t].busy /\ (icache[t].valid => e[t].valid)
             /\ (t \in Locked(r) <=> t \in Locked(proc[p]))
          \/ /\ t \in Locked(r) /\ e[t].busy = p /\ e[t].valid
             /\ icache[t].busy \in {p, NoProc}
          \/ /\ t \notin Locked(r) /\ e[t].busy = NoProc
             /\ icache[t].busy \in {p, NoProc}
      OBVIOUS
    <3>1. CASE t = s
      BY <2>1, <3>1
    <3>2. CASE t = x
      BY <2>3, <3>2
    <3>3. CASE t \notin {s, x}
      BY <2>2, <3>3
    <3> QED
      BY <3>1, <3>2, <3>3
  <2> QED
    BY <2>4, Relocks
<1>18. RoleOK(p, r, e)
  <2>1. \A t \in Slot : ~ (e[t].ref > icache[t].ref)
    BY <1>13 DEF TableInv, Caches
  <2> QED
    BY <1>2, <1>6, <1>10, <1>15, <2>1, CalmRole
<1>19. \A j \in Inum : Paid(p, r, e, d, j)
  <2>1. \A j \in Inum : Due(e, r, j) + Only(j, k, -1) + Only(j, b, 0) <= Due(icache, proc[p], j)
    <3> SUFFICES ASSUME NEW j \in Inum
                 PROVE  Due(e, r, j) + Only(j, k, -1) + Only(j, b, 0) <= 0
      BY <1>2
    <3>1. Owes(e, r, j) <=> j = k
      BY <1>5, <1>3, <1>16, Sets DEF Owes
    <3>2. ~ OwesUp(e, r, j)
      BY <1>5 DEF OwesUp
    <3> QED
      BY <3>1, <3>2 DEF Due, Only
  <2>2. -1 \in Int /\ 0 \in Int
    OBVIOUS
  <2>3. \A j \in Inum : d[j].nlink = disk[j].nlink
    BY <1>9
  <2>4. \A j \in Inum : Subs(d, j) <= Subs(disk, j) + Only(j, b, 0)
    <3> SUFFICES ASSUME NEW j \in Inum PROVE Subs(d, j) <= Subs(disk, j) + Only(j, b, 0)
      OBVIOUS
    <3>1. Subs(d, j) \in Nat /\ Subs(disk, j) \in Nat /\ Subs(d, j) <= Subs(disk, j)
      BY <1>9, Finite
    <3> QED
      BY <3>1 DEF Only
  <2> QED
    BY <1>7, <1>9, <2>1, <2>2, <2>3, <2>4, Pays
<1>20. Knows(e, d, r)
  <2>1. New(e, r) = 0
    BY <1>5 DEF New
  <2>2. \A i \in 1 .. Len(r.new) : r.new[i] # ".."
    BY <1>2, <1>5 DEF Knows
  <2>3. \A i \in 1 .. Len(r.path) : r.path[i] # ".."
    BY <1>5
  <2> QED
    BY <1>5, <2>1, <2>2, <2>3 DEF Knows
<1>21. \A u \in Proc \ {p} : Knows(e, d, proc[u])
  <2>1. Live(x) /\ x \in Locked(proc[p]) /\ proc[p].iput = "start"
    BY <1>2, <1>3 DEF x
  <2>2. Uses(proc[p], x)
    BY DEF Uses, x
  <2>3. OthersOf(p, k)
    BY <1>1 DEF OthersOf, s
  <2>4. Frame(e)
    BY <1>15
  <2>5. Rewrites(d, icache[x].inum, k)
    BY <1>1, <1>9 DEF Rewrites, x
  <2> QED
    BY <2>1, <2>2, <2>3, <2>4, <2>5, OthersKnow
<1>22. \A u \in Proc, t \in Slot : Kills(proc[u], t) => NamesOf(d, icache[t].inum) = {}
  BY <1>9, StillDead
<1>23. proc[p].iput # "forget" /\ \A j \in Inum : d[j].type = disk[j].type
  BY <1>3, <1>9
<1> QED
  BY <1>6, <1>7, <1>9, <1>15, <1>17, <1>18, <1>19, <1>20, <1>21, <1>22, <1>23, Moved

LEMMA UnlinkEraseTree ==
  ASSUME TableInv, TableInv', TreeInv, NEW p \in Proc, UnlinkErase(p) PROVE TreeInv'
<1> DEFINE q == proc[p]   s == q.ip   c == Ilock(icache, s, p)
           d == WriteEntry(disk, q.dp, Head(q.path), 0)
           A == IF c[s].type = "dir" /\ ~IsEmpty(s)
                THEN Go(p, Return(q, <<q.ip, q.dp>>), Iunlock(Iunlock(c, q.ip), q.dp), disk)
                ELSE IF c[s].type = "dir"
                THEN Go(p, [q EXCEPT !.pc = "unnest", !.path = <<>>], c, d)
                ELSE Go(p, [q EXCEPT !.pc = "unname", !.path = <<>>, !.dp = 0, !.puts = <<q.dp>>],
                        Iunlock(c, q.dp), d)
<1>1. At(p, "child") /\ Locking(s, IF c[s].nlink < 1 THEN Panic("bad") ELSE A)
  BY DEF UnlinkErase
<1>2. PICK t, e, B : t = s /\ e = c /\ B = A
  OBVIOUS
<1>3. t = proc[p].ip /\ e = Ilock(icache, t, p)
      /\ Locking(t, IF e[t].nlink < 1 THEN Panic("bad") ELSE B)
  BY <1>1, <1>2
<1>4. /\ B /\ icache[s].busy = NoProc /\ c \in Alike(icache) /\ c \in Caches
      /\ Frame(c) /\ CachedOK(c, disk) /\ \A u \in Slot : c[u].ref = icache[u].ref
      /\ \A u \in Slot : u # s => c[u] = icache[u]
      /\ c[s].inum = icache[s].inum /\ c[s].busy = p /\ c[s].valid
      /\ c[s].type = disk[icache[s].inum].type
      /\ Iunlock(c, s) = Ilock(icache, s, NoProc)
      /\ \A r \in Proc : New(icache, proc[r]) # icache[s].inum
  <2> HIDE DEF s, c, A
  <2>1. /\ B /\ icache[t].busy = NoProc /\ e \in Alike(icache) /\ e \in Caches
        /\ Frame(e) /\ CachedOK(e, disk) /\ \A u \in Slot : e[u].ref = icache[u].ref
        /\ \A u \in Slot : u # t => e[u] = icache[u]
        /\ e[t].inum = icache[t].inum /\ e[t].busy = p /\ e[t].valid
        /\ e[t].type = disk[icache[t].inum].type
        /\ Iunlock(e, t) = Ilock(icache, t, NoProc)
        /\ \A r \in Proc : New(icache, proc[r]) # icache[t].inum
    BY <1>1, <1>3, ChildLocked
  <2> QED
    BY <1>2, <2>1
<1>5. A
  BY <1>2, <1>4
<1>6. CASE c[s].type = "dir" /\ ~IsEmpty(s)
  BY <1>1, <1>4, <1>5, <1>6, EraseFull
<1>7. CASE c[s].type = "dir" /\ IsEmpty(s)
  <2>1. Go(p, [q EXCEPT !.pc = "unnest", !.path = <<>>], c, d)
    BY <1>5, <1>7
  <2>2. disk[icache[q.ip].inum].type = "dir"
    BY <1>4, <1>7
  <2> HIDE DEF c, d
  <2> QED
    BY <1>1, <1>4, <2>1, <2>2, EraseDir, Zenon DEF d
<1>8. CASE c[s].type # "dir"
  <2>1. Go(p, [q EXCEPT !.pc = "unname", !.path = <<>>, !.dp = 0, !.puts = <<q.dp>>],
           Iunlock(c, q.dp), d)
    BY <1>5, <1>8
  <2> HIDE DEF c, d
  <2> QED
    BY <1>1, <1>4, <2>1, EraseFile, Zenon DEF d
<1> QED
  BY <1>6, <1>7, <1>8

-----------------------------------------------------------------------------
(* Steps that count an inode up or down *)

\* p adds n to the link count of an inode that it has locked.
LEMMA CountLocked ==
  ASSUME TableInv, TreeInv, NEW p \in Proc, NEW s, Live(s), s \in Locked(proc[p]),
         Uses(proc[p], s), NEW n \in Int, NEW c, c = AddLink(icache, s, n),
         NEW e, e[s].inum = c[s].inum, e[s].type = c[s].type, e[s].nlink = c[s].nlink,
         NEW d, d = Iupdate(disk, e, s)
  PROVE  /\ c \in Alike(icache) /\ c \in Caches /\ Frame(c) /\ CachedOK(c, d)
         /\ \A t \in Slot : c[t].ref = icache[t].ref
         /\ \A t \in Slot : t # s => c[t] = icache[t]
         /\ c[s].inum = icache[s].inum /\ c[s].busy = p /\ c[s].valid
         /\ \A j \in Inum : d[j].type = disk[j].type /\ d[j].entries = disk[j].entries
         /\ \A j \in Inum : d[j].nlink = disk[j].nlink + Only(j, icache[s].inum, n)
<1>1. /\ icache[s].busy = p /\ icache[s].valid
      /\ \A r \in Proc : ~ Kills(proc[r], s)
      /\ disk[icache[s].inum].type # "free"
      /\ icache[s].type = disk[icache[s].inum].type
      /\ icache[s].nlink = disk[icache[s].inum].nlink
  BY LockedHere
<1>2. s \in Slot /\ icache \in Caches /\ icache[s].inum \in Inum
  BY DEF Live, TableInv
<1>3. /\ \A t \in Slot : t # s => c[t] = icache[t]
      /\ c[s].inum = icache[s].inum /\ c[s].ref = icache[s].ref /\ c[s].valid = icache[s].valid
      /\ c[s].type = icache[s].type /\ c[s].nlink = icache[s].nlink + n
      /\ c[s].busy = icache[s].busy
  BY <1>2, Fields
<1>4. icache \in Alike(icache)
  BY Now
<1>5. c \in Alike(icache)
  BY <1>4, Edits
<1>6. c \in Caches
  BY <1>5 DEF Alike
<1>7. /\ c[s].type = disk[icache[s].inum].type
      /\ \A t \in Slot : t # s => /\ c[t].valid = icache[t].valid /\ c[t].type = icache[t].type
                                  /\ c[t].nlink = icache[t].nlink
  BY <1>1, <1>3
<1>8. /\ Frame(c) /\ CachedOK(c, d) /\ \A t \in Slot : c[t].ref = icache[t].ref
      /\ \A j \in Inum : d[j].type = disk[j].type /\ d[j].entries = disk[j].entries
      /\ \A j \in Inum : j # icache[s].inum => d[j].nlink = disk[j].nlink
      /\ d[icache[s].inum].nlink = c[s].nlink
  BY <1>1, <1>5, <1>7, Updates
<1>9. \A j \in Inum : d[j].nlink = disk[j].nlink + Only(j, icache[s].inum, n)
  <2> SUFFICES ASSUME NEW j \in Inum
               PROVE  d[j].nlink = disk[j].nlink + Only(j, icache[s].inum, n)
    OBVIOUS
  <2>1. disk[j].nlink \in Int
    BY DEF TableInv, Disks
  <2>2. CASE j = icache[s].inum
    BY <1>1, <1>3, <1>8, <2>2 DEF Only
  <2>3. CASE j # icache[s].inum
    BY <1>8, <2>1, <2>3 DEF Only
  <2> QED
    BY <2>2, <2>3
<1> QED
  BY <1>1, <1>3, <1>5, <1>6, <1>8, <1>9

LEMMA UnlinkCountTree ==
  ASSUME TableInv, TableInv', TreeInv, NEW p \in Proc, UnlinkCount(p) PROVE TreeInv'
<1> DEFINE q == proc[p]   s == q.ip   k == icache[s].inum
           c == AddLink(icache, s, -1)   e == Iunlock(c, s)   d == Iupdate(disk, c, s)
<1>1. /\ q.pc = "unname" /\ q.puts = <<>> /\ Fits(q) /\ Idle(q) /\ Live(s) /\ q.ip # 0
  BY Held, NowAt DEF UnlinkCount, At, Fits, CallInv
<1>2. PICK r : r = Return(q, <<s>>)
  OBVIOUS
<1>3. Go(p, r, e, d)
  BY <1>2 DEF UnlinkCount
<1>4. q \in Process /\ q.iput = "start" /\ s \in Slot /\ k \in Inum
  BY <1>1 DEF Idle, Live
<1>5. /\ r.pc = "user" /\ r.call = "none" /\ r.path = <<>> /\ r.new = <<>>
      /\ r.iput = "start" /\ Calm(r) /\ Locked(r) = {}
  BY <1>2, <1>4, Returned
<1>6. Calm(q) /\ Locked(q) = {s} /\ Uses(q, s)
  BY <1>1, <1>4, Sets DEF Calm, Locked, Uses, Fits, CallInv
<1>7. /\ c \in Alike(icache) /\ c \in Caches /\ Frame(c) /\ CachedOK(c, d)
      /\ \A t \in Slot : c[t].ref = icache[t].ref
      /\ \A t \in Slot : t # s => c[t] = icache[t]
      /\ c[s].inum = icache[s].inum /\ c[s].busy = p /\ c[s].valid
      /\ \A j \in Inum : d[j].type = disk[j].type /\ d[j].entries = disk[j].entries
      /\ \A j \in Inum : d[j].nlink = disk[j].nlink + Only(j, k, -1)
  <2>1. Live(s) /\ s \in Locked(proc[p]) /\ Uses(proc[p], s) /\ -1 \in Int
        /\ c = AddLink(icache, s, -1) /\ d = Iupdate(disk, c, s)
    BY <1>1, <1>6
  <2> HIDE DEF s, c, d
  <2> QED
    BY <2>1, CountLocked
<1>8. d \in Disks
  <2>1. disk' \in Disks
    BY DEF TableInv
  <2> QED
    BY <1>3, <2>1, After
<1> HIDE DEF c, d
<1>9. CachedOK(e, d) /\ Frame(e)
  BY <1>4, <1>7, CachedUnlock
<1>10. /\ \A t \in Slot : t # s => e[t] = c[t]
       /\ e[s].busy = NoProc /\ \A t \in Slot : e[t].ref = c[t].ref
  BY <1>4, <1>7, Fields
<1> HIDE DEF e
<1>11. LockOK(p, r, e)
  <2>1. \A t \in Slot : t # s => e[t].busy = icache[t].busy /\ (icache[t].valid => e[t].valid)
    BY <1>7, <1>10
  <2>2. s \in Locked(proc[p]) /\ Locked(r) = Locked(proc[p]) \ {s}
    BY <1>5, <1>6
  <2> HIDE DEF s
  <2> QED
    BY <1>4, <1>10, <2>1, <2>2, Unlocks
<1>12. RoleOK(p, r, e)
  <2>1. \A t \in Slot : ~ (e[t].ref > icache[t].ref)
    BY <1>7, <1>10 DEF TableInv, Caches
  <2> QED
    BY <1>3, <1>5, <1>6, <1>9, <2>1, CalmRole
<1>13. Knows(e, d, r) /\ \A j : Due(e, r, j) = 0
  BY <1>5, UserKnows
<1>14. \A j \in Inum : Due(e, r, j) = Due(icache, q, j) + Only(j, k, -1)
  <2> SUFFICES ASSUME NEW j \in Inum PROVE Due(e, r, j) = Due(icache, q, j) + Only(j, k, -1)
    OBVIOUS
  <2>1. ~ OwesUp(icache, q, j)
    BY <1>1 DEF OwesUp
  <2>2. Owes(icache, q, j) <=> j = k
    BY <1>1 DEF Owes
  <2>3. Due(icache, q, j) = (IF j = k THEN 1 ELSE 0)
    BY <2>1, <2>2 DEF Due
  <2> QED
    BY <1>13, <2>3 DEF Only
<1>15. \A j \in Inum : d[j].nlink - Due(e, r, j) >= disk[j].nlink - Due(icache, q, j)
  <2>1. -1 \in Int /\ \A j \in Inum : d[j].nlink = disk[j].nlink + Only(j, k, -1)
    BY <1>7
  <2> HIDE DEF k
  <2> QED
    BY <1>8, <1>14, <2>1, Balanced
<1>16. q.iput # "forget"
  BY <1>4
<1>17. \A j \in Inum : d[j].type = disk[j].type /\ d[j].entries = disk[j].entries
  BY <1>7
<1> QED
  BY <1>3, <1>8, <1>9, <1>11, <1>12, <1>13, <1>15, <1>16, <1>17, Recounts

LEMMA UnlinkNestTree ==
  ASSUME TableInv, TableInv', TreeInv, NEW p \in Proc, UnlinkNest(p) PROVE TreeInv'
<1> DEFINE q == proc[p]   s == q.dp   k == icache[s].inum
           c == AddLink(icache, s, -1)   e == Iunlock(c, s)   d == Iupdate(disk, c, s)
<1>1. /\ q.pc = "unnest" /\ q.puts = <<>> /\ Fits(q) /\ Idle(q) /\ Live(s) /\ Live(q.ip)
      /\ q.ip # 0 /\ q.path = <<>>
  BY Held, NowAt DEF UnlinkNest, At, Fits, CallInv
<1>2. PICK r : r = [q EXCEPT !.pc = "unname", !.dp = 0, !.puts = <<s>>]
  OBVIOUS
<1>3. Go(p, r, e, d)
  BY <1>2 DEF UnlinkNest
<1>4. /\ q \in Process /\ q.iput = "start" /\ s \in Slot /\ k \in Inum /\ q.ip \in Slot
      /\ Knows(icache, disk, q) /\ s # q.ip
  BY <1>1 DEF Idle, Live, TreeInv, KnowsInv, Knows
<1>5. /\ r.pc = "unname" /\ r.path = <<>> /\ r.new = q.new /\ r.call = q.call
      /\ r.iput = "start" /\ r.dp = 0 /\ r.ip = q.ip /\ r.puts = <<s>>
  BY <1>1, <1>2, <1>4 DEF Process
<1>6. Calm(q) /\ Locked(q) = {s, q.ip} /\ Uses(q, s) /\ Calm(r) /\ Locked(r) = {q.ip}
  BY <1>1, <1>4, <1>5, Sets DEF Calm, Locked, Uses
<1>7. /\ c \in Alike(icache) /\ c \in Caches /\ Frame(c) /\ CachedOK(c, d)
      /\ \A t \in Slot : c[t].ref = icache[t].ref
      /\ \A t \in Slot : t # s => c[t] = icache[t]
      /\ c[s].inum = icache[s].inum /\ c[s].busy = p /\ c[s].valid
      /\ \A j \in Inum : d[j].type = disk[j].type /\ d[j].entries = disk[j].entries
      /\ \A j \in Inum : d[j].nlink = disk[j].nlink + Only(j, k, -1)
  <2>1. Live(s) /\ s \in Locked(proc[p]) /\ Uses(proc[p], s) /\ -1 \in Int
        /\ c = AddLink(icache, s, -1) /\ d = Iupdate(disk, c, s)
    BY <1>1, <1>6
  <2> HIDE DEF s, c, d
  <2> QED
    BY <2>1, CountLocked
<1>8. d \in Disks
  <2>1. disk' \in Disks
    BY DEF TableInv
  <2> QED
    BY <1>3, <2>1, After
<1> HIDE DEF c, d
<1>9. CachedOK(e, d) /\ Frame(e)
  BY <1>4, <1>7, CachedUnlock
<1>10. /\ \A t \in Slot : t # s => e[t] = c[t]
       /\ e[s].busy = NoProc /\ \A t \in Slot : e[t].ref = c[t].ref
  BY <1>4, <1>7, Fields
<1> HIDE DEF e
<1>11. LockOK(p, r, e)
  <2>1. \A t \in Slot : t # s => e[t].busy = icache[t].busy /\ (icache[t].valid => e[t].valid)
    BY <1>7, <1>10
  <2>2. s \in Locked(proc[p]) /\ Locked(r) = Locked(proc[p]) \ {s}
    BY <1>4, <1>6
  <2> HIDE DEF s
  <2> QED
    BY <1>4, <1>10, <2>1, <2>2, Unlocks
<1>12. RoleOK(p, r, e)
  <2>1. \A t \in Slot : ~ (e[t].ref > icache[t].ref)
    BY <1>7, <1>10 DEF TableInv, Caches
  <2> QED
    BY <1>3, <1>6, <1>9, <2>1, CalmRole
<1>13. Knows(e, d, r)
  <2>1. New(e, r) = 0
    BY <1>5 DEF New
  <2>2. \A i \in 1 .. Len(r.new) : r.new[i] # ".."
    BY <1>4, <1>5 DEF Knows
  <2>3. \A i \in 1 .. Len(r.path) : r.path[i] # ".."
    BY <1>5
  <2> QED
    BY <1>5, <2>1, <2>2, <2>3 DEF Knows
<1>14. \A j \in Inum : Due(e, r, j) = Due(icache, q, j) + Only(j, k, -1)
  <2> SUFFICES ASSUME NEW j \in Inum PROVE Due(e, r, j) = Due(icache, q, j) + Only(j, k, -1)
    OBVIOUS
  <2>1. OwesUp(icache, q, j) <=> j = k
    BY <1>1 DEF OwesUp
  <2>2. Owes(icache, q, j) <=> j = icache[q.ip].inum
    BY <1>1 DEF Owes
  <2>3. ~ OwesUp(e, r, j)
    BY <1>5 DEF OwesUp
  <2>4. Owes(e, r, j) <=> j = icache[q.ip].inum
    BY <1>1, <1>4, <1>5, <1>7, <1>10 DEF Owes
  <2> HIDE DEF k
  <2> QED
    BY <2>1, <2>2, <2>3, <2>4 DEF Only, Due
<1>15. \A j \in Inum : d[j].nlink - Due(e, r, j) >= disk[j].nlink - Due(icache, q, j)
  <2>1. -1 \in Int /\ \A j \in Inum : d[j].nlink = disk[j].nlink + Only(j, k, -1)
    BY <1>7
  <2> HIDE DEF k
  <2> QED
    BY <1>8, <1>14, <2>1, Balanced
<1>16. q.iput # "forget"
  BY <1>4
<1>17. \A j \in Inum : d[j].type = disk[j].type /\ d[j].entries = disk[j].entries
  BY <1>7
<1> QED
  BY <1>3, <1>8, <1>9, <1>11, <1>12, <1>13, <1>15, <1>16, <1>17, Recounts

\* create() goes on with the inode that it makes.
LEMMA MakesOn ==
  ASSUME TableInv, TreeInv, NEW p \in Proc, proc[p].puts = <<>>,
         proc[p].pc \in {"init", "nest", "dots"},
         proc[p].pc = "init" => icache[proc[p].ip].busy = NoProc,
         NEW x \in {"nest", "dots", "enter"}, NEW r, r = [proc[p] EXCEPT !.pc = x],
         NEW c, Frame(c)
  PROVE  /\ r.pc = x /\ r.path = proc[p].path /\ r.new = proc[p].new /\ r.call = proc[p].call
         /\ r.dp = proc[p].dp /\ r.ip = proc[p].ip /\ r.puts = <<>> /\ r.iput = "start"
         /\ RoleOK(p, r, c) /\ New(c, r) = icache[proc[p].ip].inum
         /\ Live(proc[p].ip) /\ icache[proc[p].dp].inum # icache[proc[p].ip].inum
         /\ Locked(r) = {proc[p].dp, proc[p].ip}
<1> DEFINE q == proc[p]   k == icache[q.ip].inum
<1>1. q \in Process /\ q.iput = "start" /\ Live(q.ip) /\ Live(q.dp)
  BY Held, NowAt DEF Fits, CallInv, Idle
<1>2. /\ r.pc = x /\ r.path = q.path /\ r.new = q.new /\ r.call = q.call
      /\ r.dp = q.dp /\ r.ip = q.ip /\ r.puts = <<>> /\ r.iput = "start"
      /\ r.file = q.file /\ r.cwd = q.cwd
  BY <1>1 DEF Process
<1>3. New(icache, q) = k /\ New(c, r) = k /\ k \in Inum /\ k # 0
  BY <1>1, <1>2, Sets DEF New, Frame, Live
<1>4. \A s \in Slot : ~ Kills(r, s) /\ (Uses(r, s) <=> Uses(q, s))
  BY <1>1, <1>2 DEF Kills, Uses
<1>5. \A s \in Slot : Uses(q, s) => icache[s].inum # k /\ c[s].inum = icache[s].inum
  BY <1>3, UsedLive DEF TreeInv, RoleInv, Live, Frame
<1>6. \A u \in Proc, s \in Slot : Kills(proc[u], s) => icache[s].inum # k
  <2> SUFFICES ASSUME NEW u \in Proc, NEW s \in Slot, Kills(proc[u], s), icache[s].inum = k
               PROVE  FALSE
    OBVIOUS
  <2>1. q.pc = "init"
    BY <1>3 DEF TreeInv, RoleInv
  <2>2. Live(s) /\ s = q.ip
    BY <1>1, HasLive, OneSlot
  <2>3. s \in Locked(proc[u])
    BY DEF Kills, Locked
  <2> QED
    BY <2>1, <2>2, <2>3, Sets DEF TreeInv, LockInv
<1>7. Uses(q, q.dp)
  BY DEF Uses
<1>8. RoleOK(p, r, c)
  BY <1>3, <1>4, <1>5, <1>6 DEF RoleOK
<1>9. Locked(r) = {q.dp, q.ip}
  BY <1>1, <1>2 DEF Locked, Live
<1>10. icache[q.dp].inum # k
  BY <1>1, <1>5, <1>7 DEF Live
<1> QED
  BY <1>1, <1>2, <1>3, <1>8, <1>9, <1>10

LEMMA CreateNestTree ==
  ASSUME TableInv, TableInv', TreeInv, NEW p \in Proc, CreateNest(p) PROVE TreeInv'
<1> DEFINE q == proc[p]   s == q.dp   b == icache[s].inum   k == icache[q.ip].inum
           c == AddLink(icache, s, 1)   d == Iupdate(disk, c, s)
<1>1. /\ q.pc = "nest" /\ q.puts = <<>> /\ Fits(q) /\ Idle(q) /\ Live(s)
      /\ Knows(icache, disk, q) /\ q.iput = "start" /\ Live(q.ip) /\ q.ip # 0
  BY Parents, Held, NowAt DEF CreateNest, At, Idle, Fits, CallInv
<1>2. PICK r : r = [q EXCEPT !.pc = "dots"]
  OBVIOUS
<1>3. Go(p, r, c, d)
  BY <1>2 DEF CreateNest
<1>4. s \in Slot /\ b \in Inum /\ q.ip \in Slot
  BY <1>1 DEF Live
<1>5. s \in Locked(q) /\ Uses(q, s) /\ Locked(q) = {s, q.ip}
  BY <1>1, <1>4 DEF Locked, Uses
<1>6. /\ c \in Alike(icache) /\ c \in Caches /\ Frame(c) /\ CachedOK(c, d)
      /\ \A t \in Slot : c[t].ref = icache[t].ref
      /\ \A t \in Slot : t # s => c[t] = icache[t]
      /\ c[s].inum = icache[s].inum /\ c[s].busy = p /\ c[s].valid
      /\ \A j \in Inum : d[j].type = disk[j].type /\ d[j].entries = disk[j].entries
      /\ \A j \in Inum : d[j].nlink = disk[j].nlink + Only(j, b, 1)
  <2>1. Live(s) /\ s \in Locked(proc[p]) /\ Uses(proc[p], s) /\ 1 \in Int
        /\ c = AddLink(icache, s, 1) /\ d = Iupdate(disk, c, s)
    BY <1>1, <1>5
  <2> HIDE DEF s, c, d
  <2> QED
    BY <2>1, CountLocked
<1>7. d \in Disks
  <2>1. disk' \in Disks
    BY DEF TableInv
  <2> QED
    BY <1>3, <2>1, After
<1> HIDE DEF c, d
<1>8. /\ r.pc = "dots" /\ r.path = q.path /\ r.new = q.new /\ r.call = q.call
      /\ r.dp = s /\ r.ip = q.ip /\ r.puts = <<>> /\ r.iput = "start"
      /\ RoleOK(p, r, c) /\ New(c, r) = k /\ Live(q.ip) /\ b # k
      /\ Locked(r) = {s, q.ip}
  <2>1. "dots" \in {"nest", "dots", "enter"} /\ q.pc \in {"init", "nest", "dots"} /\ q.pc # "init"
    BY <1>1
  <2> QED
    BY <1>1, <1>2, <1>6, <2>1, MakesOn
<1>9. LockOK(p, r, c)
  <2> SUFFICES ASSUME NEW t \in Slot
               PROVE  /\ c[t].busy = icache[t].busy /\ (icache[t].valid => c[t].valid)
                      /\ (t \in Locked(r) <=> t \in Locked(proc[p]))
    BY Relocks
  <2>1. icache[s].busy = p
    BY <1>4, <1>5 DEF TreeInv, LockInv
  <2>2. CASE t = s
    BY <1>5, <1>6, <1>8, <2>1, <2>2
  <2>3. CASE t # s
    BY <1>5, <1>6, <1>8, <2>3
  <2> QED
    BY <2>2, <2>3
<1>10. Knows(c, d, r)
  <2>1. Knows(c, d, q)
    BY <1>1, <1>6, KnowsSame
  <2>2. New(c, q) = k /\ New(c, r) = k
    BY <1>1, <1>6, <1>8 DEF New, Frame, Live
  <2> QED
    BY <1>1, <1>8, <2>1, <2>2 DEF Knows
<1>11. \A j \in Inum : Due(c, r, j) = Due(icache, q, j) + Only(j, b, 1)
  <2> SUFFICES ASSUME NEW j \in Inum PROVE Due(c, r, j) = Due(icache, q, j) + Only(j, b, 1)
    OBVIOUS
  <2>1. ~ OwesUp(icache, q, j)
    BY <1>1 DEF OwesUp
  <2>2. Owes(icache, q, j) <=> j = k
    BY <1>1 DEF Owes
  <2>3. OwesUp(c, r, j) <=> j = b
    BY <1>6, <1>8 DEF OwesUp
  <2>4. c[q.ip].inum = k
    BY <1>1, <1>6 DEF Frame, Live
  <2>5. Owes(c, r, j) <=> j = k
    BY <1>1, <1>8, <2>4 DEF Owes
  <2> HIDE DEF b, k
  <2> QED
    BY <2>1, <2>2, <2>3, <2>5 DEF Only, Due
<1>12. \A j \in Inum : d[j].nlink - Due(c, r, j) >= disk[j].nlink - Due(icache, q, j)
  <2>1. 1 \in Int /\ \A j \in Inum : d[j].nlink = disk[j].nlink + Only(j, b, 1)
    BY <1>6
  <2> HIDE DEF b
  <2> QED
    BY <1>7, <1>11, <2>1, Balanced
<1>13. q.iput # "forget"
  BY <1>1
<1>14. \A j \in Inum : d[j].type = disk[j].type /\ d[j].entries = disk[j].entries
  BY <1>6
<1> QED
  BY <1>3, <1>6, <1>7, <1>8, <1>9, <1>10, <1>12, <1>13, <1>14, Recounts

\* No other process has counted a link of the inode that p makes.
LEMMA NewUnowed ==
  ASSUME TableInv, TreeInv, NEW p \in Proc, NEW k, New(icache, proc[p]) = k, k # 0
  PROVE  /\ Unowed(p, k) /\ k \in Inum /\ k # ROOTINO
         /\ Names(disk, k) = 0 /\ Subs(disk, k) = 0 /\ Root(k) = 0
<1>1. /\ k \in Inum /\ k # ROOTINO /\ NamesOf(disk, k) = {}
      /\ \A n \in Name : disk[k].entries[n] = 0
  BY HasLive DEF TreeInv, KnowsInv, Knows
<1>2. Names(disk, k) = 0 /\ Root(k) = 0
  BY <1>1, FS_EmptySet DEF Names, Root
<1>3. Subs(disk, k) = 0
  <2>1. SubdirsOf(disk, k) = {}
    BY <1>1 DEF SubdirsOf
  <2> QED
    BY <2>1, FS_EmptySet DEF Subs
<1>4. Unowed(p, k)
  <2> SUFFICES ASSUME NEW r \in Proc \ {p}
               PROVE  ~ Owes(icache, proc[r], k) /\ ~ OwesUp(icache, proc[r], k)
    BY DEF Unowed
  <2>1. r \in Proc /\ r # p /\ New(icache, proc[r]) # k
    BY DEF TreeInv, RoleInv
  <2>2. \A s \in Slot : Uses(proc[r], s) => icache[s].inum # k
    BY <2>1 DEF TreeInv, RoleInv
  <2>3. ASSUME Owes(icache, proc[r], k) PROVE FALSE
    <3>1. proc[r].ip # 0 /\ icache[proc[r].ip].inum = k /\ proc[r].pc # "iget"
      BY <2>3 DEF Owes
    <3>2. proc[r].ip \in Slot
      BY <2>1, <3>1, Held DEF Live
    <3>3. proc[r].pc \notin {"init", "nest", "dots", "enter"}
      BY <2>1, <3>1 DEF New
    <3>4. Uses(proc[r], proc[r].ip)
      BY <3>1, <3>3 DEF Uses
    <3> QED
      BY <2>2, <3>1, <3>2, <3>4
  <2>4. ASSUME OwesUp(icache, proc[r], k) PROVE FALSE
    <3>1. proc[r].dp # 0
      BY <2>1, <2>4, Held DEF OwesUp, Fits, CallInv
    <3>2. proc[r].dp \in Slot /\ Uses(proc[r], proc[r].dp)
      BY <2>1, <3>1, Held DEF Live, Uses
    <3> QED
      BY <2>2, <2>4, <3>2 DEF OwesUp
  <2> QED
    BY <2>3, <2>4
<1> QED
  BY <1>1, <1>2, <1>3, <1>4

LEMMA CreateInitTree ==
  ASSUME TableInv, TableInv', TreeInv, NEW p \in Proc, CreateInit(p) PROVE TreeInv'
<1> DEFINE q == proc[p]   s == q.ip   k == icache[s].inum
           here == Ilock(icache, s, p)
           c == [here EXCEPT ![s].nlink = 1]
           d == Iupdate(disk, c, s)
           x == IF q.call = "mkdir" THEN "nest" ELSE "enter"
           r == [q EXCEPT !.pc = x]
           A == Go(p, r, c, d)
<1>1. /\ q.pc = "init" /\ q.puts = <<>> /\ Fits(q) /\ Idle(q) /\ Live(s) /\ Live(q.dp)
      /\ Knows(icache, disk, q) /\ q.iput = "start" /\ q.dp # 0
  BY Parents, Held, NowAt DEF CreateInit, At, Idle, Fits, CallInv
<1>2. A /\ icache[s].busy = NoProc /\ \A u \in Proc : ~ Kills(proc[u], s)
  <2>1. Locking(s, A)
    BY DEF CreateInit
  <2>2. s \in Slot /\ icache[s].ref > 0
    BY <1>1 DEF Live
  <2> HIDE DEF A, s
  <2> QED
    BY <2>1, <2>2, Locks
<1>3. s \in Slot /\ k \in Inum /\ q.ip # 0 /\ k # 0
  BY <1>1, Sets DEF Live
<1>4. /\ Reads(here, s) /\ here[s].valid /\ here[s].busy = p /\ here[s].inum = k
      /\ here[s].type = disk[k].type /\ disk[k].type # "free"
      /\ here \in Alike(icache) /\ here \in Caches
      /\ \A t \in Slot : t # s => here[t] = icache[t]
  <2>1. p \in Proc \cup {NoProc} /\ Live(s) /\ icache[s].busy = NoProc
    BY <1>1, <1>2
  <2>2. /\ Reads(here, s) /\ here[s].valid /\ here[s].busy = p /\ here[s].inum = k
        /\ here[s].type = disk[k].type /\ disk[k].type # "free"
    BY <2>1, Reading
  <2> QED
    BY <2>2 DEF Reads, Alike
<1>5. c \in Alike(icache)
  <2>1. 1 \in Int
    OBVIOUS
  <2> QED
    BY <1>1, <1>4, <2>1, Edits
<1>6. /\ \A t \in Slot : t # s => c[t] = here[t]
      /\ c[s].inum = k /\ c[s].valid /\ c[s].busy = p /\ c[s].type = disk[k].type
      /\ c[s].nlink = 1
  BY <1>3, <1>4 DEF Caches
<1> HIDE DEF here, x, r
<1>7. Go(p, r, c, d)
  BY <1>2
<1> HIDE DEF c
<1>8. /\ Frame(c) /\ CachedOK(c, d) /\ \A t \in Slot : c[t].ref = icache[t].ref
      /\ \A j \in Inum : d[j].type = disk[j].type /\ d[j].entries = disk[j].entries
      /\ \A j \in Inum : j # k => d[j].nlink = disk[j].nlink
      /\ d[k].nlink = c[s].nlink
  <2>1. Live(s) /\ d = Iupdate(disk, c, s) /\ \A u \in Proc : ~ Kills(proc[u], s)
    BY <1>1, <1>2
  <2>2. /\ c[s].type = disk[k].type /\ disk[k].type # "free"
        /\ \A t \in Slot : t # s => /\ c[t].valid = icache[t].valid /\ c[t].type = icache[t].type
                                    /\ c[t].nlink = icache[t].nlink
    BY <1>4, <1>6
  <2> HIDE DEF d, s
  <2> QED
    BY <1>5, <2>1, <2>2, Updates
<1> HIDE DEF d
<1>9. d \in Disks
  <2>1. disk' \in Disks
    BY DEF TableInv
  <2> QED
    BY <1>7, <2>1, After
<1>10. /\ r.pc = x /\ r.path = q.path /\ r.new = q.new /\ r.call = q.call
       /\ r.dp = q.dp /\ r.ip = q.ip /\ r.puts = <<>> /\ r.iput = "start"
       /\ RoleOK(p, r, c) /\ New(c, r) = k /\ icache[q.dp].inum # k
       /\ Locked(r) = {q.dp, s}
  <2>1. x \in {"nest", "dots", "enter"} /\ q.pc \in {"init", "nest", "dots"} /\ Frame(c)
    BY <1>1, <1>8 DEF x
  <2> QED
    BY <1>1, <1>2, <2>1, MakesOn DEF r
<1>11. Locked(q) = {q.dp} /\ q.dp \in Slot /\ q.dp # s
  <2>1. Locked(q) = {q.dp}
    BY <1>1 DEF Locked, Live
  <2> QED
    BY <1>1, <1>10, <2>1 DEF Live
<1>12. LockOK(p, r, c)
  <2>1. s \in Locked(r) /\ c[s].busy = p /\ c[s].valid /\ icache[s].busy \in {p, NoProc}
    BY <1>2, <1>6, <1>10
  <2>2. \A t \in Slot : t # s => /\ c[t] = icache[t]
                                 /\ (t \in Locked(r) <=> t \in Locked(proc[p]))
    BY <1>4, <1>6, <1>10, <1>11
  <2> QED
    BY <2>1, <2>2, Relocks
<1>13. Knows(c, d, r)
  <2>1. Knows(c, d, q)
    BY <1>8, KnowsSame
  <2>2. New(c, q) = k /\ New(c, r) = k
    BY <1>1, <1>6, <1>10 DEF New
  <2>3. (r.pc = "nest" /\ r.call = "mkdir") \/ (r.pc = "enter" /\ r.call # "mkdir")
    BY <1>10 DEF x
  <2> QED
    BY <1>1, <1>3, <1>10, <2>1, <2>2, <2>3 DEF Knows
<1>14. New(icache, q) = k /\ \A j : Due(icache, q, j) = 0
  BY <1>1 DEF New, Due, Owes, OwesUp
<1>15. \A j \in Inum : Due(c, r, j) = Only(j, k, 1)
  <2> SUFFICES ASSUME NEW j \in Inum PROVE Due(c, r, j) = Only(j, k, 1)
    OBVIOUS
  <2>1. r.pc = "nest" \/ (r.pc = "enter" /\ r.call # "mkdir")
    BY <1>10 DEF x
  <2>2. ~ OwesUp(c, r, j)
    BY <2>1 DEF OwesUp
  <2>3. Owes(c, r, j) <=> j = k
    BY <1>3, <1>6, <1>10, <2>1 DEF Owes
  <2> HIDE DEF k
  <2> QED
    BY <2>2, <2>3 DEF Due, Only
<1>16. \A j \in Inum :
         \/ d[j].nlink - Due(c, r, j) >= disk[j].nlink - Due(icache, q, j)
         \/ /\ Unowed(p, j)
            /\ d[j].nlink >= Names(disk, j) + Subs(disk, j) + Root(j) + Due(c, r, j)
  <2> SUFFICES ASSUME NEW j \in Inum
      PROVE
         \/ d[j].nlink - Due(c, r, j) >= disk[j].nlink - Due(icache, q, j)
         \/ /\ Unowed(p, j)
            /\ d[j].nlink >= Names(disk, j) + Subs(disk, j) + Root(j) + Due(c, r, j)
    OBVIOUS
  <2>1. CASE j = k
    <3>1. Unowed(p, k) /\ Names(disk, k) = 0 /\ Subs(disk, k) = 0 /\ Root(k) = 0
      BY <1>3, <1>14, NewUnowed
    <3>2. Due(c, r, k) = 1 /\ d[k].nlink = 1
      BY <1>3, <1>6, <1>8, <1>15 DEF Only
    <3> HIDE DEF k
    <3> QED
      BY <2>1, <3>1, <3>2
  <2>2. CASE j # k
    <3>1. Due(c, r, j) = 0 /\ Due(icache, q, j) = 0
      BY <1>14, <1>15, <2>2 DEF Only
    <3>2. d[j].nlink = disk[j].nlink /\ disk[j].nlink \in Int
      BY <1>8, <2>2 DEF TableInv, Disks
    <3> QED
      BY <3>1, <3>2
  <2> QED
    BY <2>1, <2>2
<1>17. q.iput # "forget"
  BY <1>1
<1>18. \A j \in Inum : d[j].type = disk[j].type /\ d[j].entries = disk[j].entries
  BY <1>8
<1> QED
  BY <1>7, <1>8, <1>9, <1>10, <1>12, <1>13, <1>16, <1>17, <1>18, Recounts

-----------------------------------------------------------------------------
(* Steps that enter a name *)

\* Entries other than ".." are what they were.
LEMMA SameNames ==
  ASSUME TableInv, NEW d, \A j \in Inum : d[j].type = disk[j].type,
         \A j \in Inum : \A n \in Name : d[j].entries[n] = disk[j].entries[n]
  PROVE  /\ \A k : NamesOf(d, k) = NamesOf(disk, k)
         /\ \A k \in Inum : SubdirsOf(d, k) = SubdirsOf(disk, k)
         /\ \A k : Names(d, k) = Names(disk, k)
         /\ \A k \in Inum : Subs(d, k) = Subs(disk, k)
<1>1. \A k : NamesOf(d, k) = NamesOf(disk, k)
  <2> SUFFICES ASSUME NEW k PROVE NamesOf(d, k) = NamesOf(disk, k)
    OBVIOUS
  <2>1. \A x \in Inum \X Name : /\ d[x[1]].type = disk[x[1]].type
                                /\ d[x[1]].entries[x[2]] = disk[x[1]].entries[x[2]]
    OBVIOUS
  <2> QED
    BY <2>1 DEF NamesOf
<1>2. \A k \in Inum : SubdirsOf(d, k) = SubdirsOf(disk, k)
  <2> SUFFICES ASSUME NEW k \in Inum PROVE SubdirsOf(d, k) = SubdirsOf(disk, k)
    OBVIOUS
  <2>1. \A n \in Name : /\ d[k].entries[n] = disk[k].entries[n]
                        /\ disk[k].entries[n] \in Inum \cup {0}
    BY DEF TableInv, Disks
  <2> QED
    BY <2>1 DEF SubdirsOf
<1> QED
  BY <1>1, <1>2 DEF Names, Subs

LEMMA CreateDotsTree ==
  ASSUME TableInv, TableInv', TreeInv, NEW p \in Proc, CreateDots(p) PROVE TreeInv'
<1> DEFINE q == proc[p]   b == icache[q.dp].inum   k == icache[q.ip].inum
           d == WriteEntry(disk, q.ip, "..", b)
<1>1. /\ q.pc = "dots" /\ q.puts = <<>> /\ Fits(q) /\ Idle(q) /\ Live(q.dp) /\ Live(q.ip)
      /\ Knows(icache, disk, q) /\ q.iput = "start" /\ q.ip # 0
  BY Parents, Held, NowAt DEF CreateDots, At, Idle, Fits, CallInv
<1>2. PICK r : r = [q EXCEPT !.pc = "enter"]
  OBVIOUS
<1>3. Go(p, r, icache, d)
  BY <1>2 DEF CreateDots
<1>4. d \in Disks
  <2>1. disk' \in Disks
    BY DEF TableInv
  <2> QED
    BY <1>3, <2>1, After
<1>5. /\ b \in Inum /\ k \in Inum /\ q.dp \in Slot /\ q.ip \in Slot
      /\ New(icache, q) = k /\ k # 0
  BY <1>1, Sets DEF Live, New
<1>6. Frame(icache) /\ CachedOK(icache, disk)
  BY <1>1, ReadsSelf, ReadsOK
<1>7. /\ r.pc = "enter" /\ r.path = q.path /\ r.new = q.new /\ r.call = q.call
      /\ r.dp = q.dp /\ r.ip = q.ip /\ r.puts = <<>> /\ r.iput = "start"
      /\ RoleOK(p, r, icache) /\ New(icache, r) = k /\ b # k
      /\ Locked(r) = {q.dp, q.ip}
  <2>1. "enter" \in {"nest", "dots", "enter"} /\ q.pc \in {"init", "nest", "dots"} /\ q.pc # "init"
    BY <1>1
  <2> QED
    BY <1>1, <1>2, <1>6, <2>1, MakesOn
<1>8. /\ \A j \in Inum : d[j].type = disk[j].type /\ d[j].nlink = disk[j].nlink
      /\ \A j \in Inum : j # k => d[j].entries = disk[j].entries
      /\ d[k].entries[".."] = b
      /\ \A j \in Inum : \A n \in Name : d[j].entries[n] = disk[j].entries[n]
  <2>1. disk \in Disks /\ ".." \notin Name
    BY Sets DEF TableInv
  <2>2. d = [disk EXCEPT ![k].entries[".."] = b]
    BY DEF WriteEntry
  <2> HIDE DEF d
  <2> QED
    BY <1>5, <2>1, <2>2 DEF Disks
<1> HIDE DEF d
<1>9. /\ \A j : NamesOf(d, j) = NamesOf(disk, j)
      /\ \A j : Names(d, j) = Names(disk, j)
      /\ \A j \in Inum : Subs(d, j) = Subs(disk, j)
  BY <1>8, SameNames
<1>10. Locked(q) = {q.dp, q.ip}
  BY <1>1, <1>5 DEF Locked
<1>11. LockOK(p, r, icache)
  BY <1>7, <1>10, Relocks
<1>12. CachedOK(icache, d)
  BY <1>6, <1>8, CachedSame
<1>13. q.call = "mkdir"
  BY <1>1 DEF Knows
<1>14. \A j \in Inum : Paid(p, r, icache, d, j)
  <2> SUFFICES ASSUME NEW j \in Inum PROVE Paid(p, r, icache, d, j)
    OBVIOUS
  <2>1. Owes(icache, r, j) <=> Owes(icache, q, j)
    BY <1>1, <1>7 DEF Owes
  <2>2. OwesUp(icache, r, j) <=> OwesUp(icache, q, j)
    BY <1>1, <1>7, <1>13 DEF OwesUp
  <2>3. Due(icache, r, j) = Due(icache, q, j) /\ Due(icache, q, j) \in Nat
    BY <2>1, <2>2 DEF Due
  <2>4. /\ d[j].nlink = disk[j].nlink /\ Names(d, j) = Names(disk, j) /\ Subs(d, j) = Subs(disk, j)
        /\ disk[j].nlink \in Int
    BY <1>8, <1>9 DEF TableInv, Disks
  <2>5. Names(disk, j) \in Nat /\ Subs(disk, j) \in Nat
    BY Finite
  <2>6. d[j].nlink - Names(d, j) - Subs(d, j) - Due(icache, r, j) >=
          disk[j].nlink - Names(disk, j) - Subs(disk, j) - Due(icache, proc[p], j)
    BY <2>3, <2>4, <2>5
  <2> QED
    BY <2>6 DEF Paid
<1>15. Knows(icache, d, r)
  <2>1. New(icache, r) = k /\ New(icache, q) = k
    BY <1>5, <1>7
  <2>2. d[b].type = "dir" /\ d[k].type = disk[k].type
    BY <1>1, <1>5, <1>8 DEF Knows
  <2>3. /\ \A i \in 1 .. Len(r.path) : r.path[i] # ".."
        /\ \A i \in 1 .. Len(r.new) : r.new[i] # ".."
    BY <1>1, <1>7 DEF Knows
  <2>4. /\ k # ROOTINO /\ disk[k].type = (IF q.call = "mkdir" THEN "dir" ELSE "file")
        /\ \A n \in Name : disk[k].entries[n] = 0
        /\ NamesOf(disk, k) = {}
    BY <1>1, <1>5 DEF Knows
  <2>6. r.pc = "enter" /\ r.call = "mkdir" /\ icache[r.dp].inum = b
    BY <1>7, <1>13
  <2>7. k \in Inum /\ d[k].entries[".."] = b
    BY <1>5, <1>8
  <2>8. NamesOf(d, k) = {} /\ (\A n \in Name : d[k].entries[n] = 0)
    BY <1>8, <1>9, <2>4, <2>7
  <2> HIDE DEF k, b, d
  <2>5. /\ New(icache, r) # ROOTINO
        /\ d[New(icache, r)].type = (IF r.call = "mkdir" THEN "dir" ELSE "file")
        /\ \A n \in Name : d[New(icache, r)].entries[n] = 0
        /\ NamesOf(d, New(icache, r)) = {}
        /\ d[New(icache, r)].entries[".."] = icache[r.dp].inum
        /\ d[icache[r.dp].inum].type = "dir"
    BY <1>13, <2>1, <2>2, <2>4, <2>6, <2>7, <2>8
  <2> QED
    BY <2>3, <2>5, <2>6 DEF Knows
<1>16. \A u \in Proc \ {p} : Knows(icache, d, proc[u])
  <2> SUFFICES ASSUME NEW u \in Proc \ {p} PROVE Knows(icache, d, proc[u])
    OBVIOUS
  <2>1. u \in Proc /\ New(icache, proc[u]) # k
    BY <1>5 DEF TreeInv, RoleInv
  <2>2. New(icache, proc[u]) # 0 => NamesOf(d, New(icache, proc[u])) = {}
    BY <1>9, <2>1 DEF TreeInv, KnowsInv, Knows
  <2>3. proc[u].pc = "child" => icache[proc[u].dp].inum # k
    <3> SUFFICES ASSUME proc[u].pc = "child" PROVE icache[proc[u].dp].inum # k
      OBVIOUS
    <3>1. proc[u].dp \in Slot /\ Uses(proc[u], proc[u].dp)
      BY <2>1, Held DEF Fits, CallInv, Uses, Live
    <3> QED
      BY <1>5, <2>1, <3>1 DEF TreeInv, RoleInv
  <2> QED
    BY <1>5, <1>6, <1>8, <2>1, <2>2, <2>3, KnowsBut
<1>17. \A u \in Proc, t \in Slot : Kills(proc[u], t) => NamesOf(d, icache[t].inum) = {}
  BY <1>9 DEF TreeInv, DeadInv
<1>18. Shape(d)
  <2>1. NamesOf(disk, k) = {} /\ Shape(disk)
    BY <1>1, <1>5 DEF Knows, TreeInv
  <2>2. d[ROOTINO].type # "free"
    BY <1>8, <2>1, Sets DEF Shape
  <2>3. \A j \in Inum : NamesOf(d, j) # {} => d[j].type # "free"
    BY <1>8, <1>9, <2>1 DEF Shape
  <2>4. \A j \in Inum : d[j].type = "dir" /\ j # ROOTINO =>
          \A x, y \in NamesOf(d, j) : x = y /\ d[j].entries[".."] = x[1]
    BY <1>8, <1>9, <2>1 DEF Shape
  <2>5. \A i, j \in Inum : d[i].type = "dir" /\ d[j].type = "dir" =>
          \A n, m \in Name : ~ (d[i].entries[n] = j /\ d[j].entries[m] = i)
    BY <1>8, <2>1 DEF Shape
  <2> QED
    BY <2>2, <2>3, <2>4, <2>5 DEF Shape
<1>19. proc[p].iput # "forget" /\ \A j \in Inum : d[j].type = disk[j].type
  BY <1>1, <1>8
<1> QED
  BY <1>3, <1>4, <1>7, <1>11, <1>12, <1>14, <1>15, <1>16, <1>17, <1>18, <1>19, Moved

LEMMA StillDeadBut ==
  ASSUME TableInv, TreeInv, NEW d, NEW k,
         \A j \in Inum : j # k => NamesOf(d, j) \subseteq NamesOf(disk, j),
         \A r \in Proc, s \in Slot : Kills(proc[r], s) => icache[s].inum # k
  PROVE  \A r \in Proc, s \in Slot : Kills(proc[r], s) => NamesOf(d, icache[s].inum) = {}
<1> SUFFICES ASSUME NEW r \in Proc, NEW s \in Slot, Kills(proc[r], s)
             PROVE  NamesOf(d, icache[s].inum) = {}
  OBVIOUS
<1>1. Live(s)
  BY HasLive
<1>2. icache[s].inum \in Inum /\ icache[s].inum # k
  BY <1>1 DEF Live
<1>3. NamesOf(disk, icache[s].inum) = {}
  BY DEF TreeInv, DeadInv
<1> QED
  BY <1>2, <1>3

LEMMA CreateEnterTree ==
  ASSUME TableInv, TableInv', TreeInv, NEW p \in Proc, CreateEnter(p) PROVE TreeInv'
<1> DEFINE q == proc[p]   s == q.ip   x == q.dp   b == icache[x].inum   k == icache[s].inum
           e == Iunlock(icache, x)
           d == WriteEntry(disk, x, Head(q.path), k)
<1>1. /\ q.pc = "enter" /\ q.puts = <<>> /\ Fits(q) /\ Idle(q) /\ Live(x) /\ Live(s)
      /\ Knows(icache, disk, q) /\ q.iput = "start" /\ s # 0 /\ q.ip # 0
      /\ Head(q.path) \in Name /\ disk[b].type = "dir" /\ q \in Process
  BY Parents, Held, NowAt DEF CreateEnter, At, Idle, Fits, CallInv
<1>2. PICK r : r = [q EXCEPT !.pc = "made", !.path = <<>>, !.dp = 0, !.puts = <<x>>]
  OBVIOUS
<1>3. Go(p, r, e, d)
  BY <1>2 DEF CreateEnter
<1>4. d \in Disks
  <2>1. disk' \in Disks
    BY DEF TableInv
  <2> QED
    BY <1>3, <2>1, After
<1>5. /\ b \in Inum /\ k \in Inum /\ x \in Slot /\ s \in Slot
      /\ New(icache, q) = k /\ k # 0 /\ b # 0
  BY <1>1, Sets DEF Live, New
<1>6. /\ r.pc = "made" /\ r.path = <<>> /\ r.new = q.new /\ r.call = q.call
      /\ r.dp = 0 /\ r.ip = s /\ r.puts = <<x>> /\ r.iput = "start"
      /\ r.file = q.file /\ r.cwd = q.cwd
  BY <1>1, <1>2 DEF Process
<1>7. \A t \in Slot : Uses(q, t) => icache[t].inum # k
  BY <1>5 DEF TreeInv, RoleInv
<1>8. Uses(q, x) /\ b # k /\ x # s
  BY <1>5, <1>7 DEF Uses
<1>9. Locked(q) = {x, s} /\ Locked(r) = {s}
  BY <1>1, <1>5, <1>6, Sets DEF Locked
<1>10. \A u \in Proc, t \in Slot : Kills(proc[u], t) => icache[t].inum # k
  BY <1>1, <1>5 DEF TreeInv, RoleInv
<1>11. \A u \in Proc \ {p} : New(icache, proc[u]) # k
  BY <1>5 DEF TreeInv, RoleInv
<1>12. /\ k # ROOTINO /\ NamesOf(disk, k) = {} /\ \A n \in Name : disk[k].entries[n] = 0
       /\ disk[k].type = (IF q.call = "mkdir" THEN "dir" ELSE "file")
       /\ q.call = "mkdir" => disk[k].entries[".."] = b
  BY <1>1, <1>5 DEF Knows
<1>13. /\ \A j \in Inum : d[j].type = disk[j].type /\ d[j].nlink = disk[j].nlink
       /\ \A j \in Inum : j # b => d[j].entries = disk[j].entries
       /\ \A j \in Inum : j # k => NamesOf(d, j) \subseteq NamesOf(disk, j)
       /\ \A j \in Inum : Names(d, j) <= Names(disk, j) + Only(j, k, 1)
       /\ \A j \in Inum : Subs(d, j) <= Subs(disk, j) + Only(j, b, 1)
       /\ disk[k].type # "dir" => \A j \in Inum : Subs(d, j) <= Subs(disk, j)
       /\ Shape(d)
  <2>1. d = [disk EXCEPT ![b].entries[Head(q.path)] = k]
    BY DEF WriteEntry
  <2>2. Head(q.path) \in Name /\ disk[b].type = "dir" /\ disk[k].type # "free" /\ b # k
    BY <1>1, <1>8, <1>12
  <2>3. disk[k].type = "dir" =>
           /\ k # ROOTINO /\ NamesOf(disk, k) = {} /\ disk[k].entries[".."] = b
           /\ \A n \in Name : disk[k].entries[n] = 0
    BY <1>12
  <2>4. Entering(b, k, Head(q.path), d)
    BY <1>5, <2>1, <2>2, <2>3, Zenon DEF Entering
  <2> HIDE DEF b, k, d, q
  <2> QED
    BY <2>4, Entered
<1> HIDE DEF d
<1>14. Frame(icache) /\ CachedOK(icache, disk) /\ icache \in Caches
  BY <1>1, ReadsSelf, ReadsOK DEF TableInv
<1>15. CachedOK(icache, d)
  BY <1>13, <1>14, CachedSame
<1>16. CachedOK(e, d) /\ Frame(e)
  BY <1>5, <1>14, <1>15, CachedUnlock
<1>17. /\ \A t \in Slot : t # x => e[t] = icache[t]
       /\ e[x].busy = NoProc /\ e[x].inum = b
  BY <1>5, <1>14, Fields
<1> HIDE DEF e
<1>18. LockOK(p, r, e)
  <2>1. \A t \in Slot : t # x => e[t].busy = icache[t].busy /\ (icache[t].valid => e[t].valid)
    BY <1>17
  <2>2. x \in Locked(proc[p]) /\ Locked(r) = Locked(proc[p]) \ {x}
    BY <1>8, <1>9
  <2> HIDE DEF x
  <2> QED
    BY <1>5, <1>17, <2>1, <2>2, Unlocks
<1>19. New(e, r) = 0 /\ \A t \in Slot : ~ Kills(r, t)
  BY <1>6 DEF New, Kills
<1>20. RoleOK(p, r, e)
  <2>1. \A t \in Slot : Uses(r, t) => (Uses(q, t) \/ t = s)
    <3> SUFFICES ASSUME NEW t \in Slot, Uses(r, t), ~ (t = s) PROVE Uses(q, t)
      OBVIOUS
    <3>1. r.puts # <<>> /\ Head(r.puts) = x /\ Len(r.puts) # 2 /\ t # 0
      BY <1>5, <1>6, ShortLists, Sets
    <3>2. x = q.dp
      OBVIOUS
    <3> HIDE DEF q, s, x
    <3> QED
      BY <1>6, <3>1, <3>2 DEF Uses
  <2>2. Spare(p, e, s)
    BY <1>5, <1>8, <1>10, <1>11, <1>17 DEF Spare
  <2>3. \A t \in Slot : Uses(r, t) => 0 # e[t].inum
    <3> SUFFICES ASSUME NEW t \in Slot, Uses(r, t) PROVE 0 # e[t].inum
      OBVIOUS
    <3>1. Live(t)
      BY <1>1, <2>1, UsedLive
    <3> QED
      BY <1>16, <3>1, Sets DEF Frame, Live
  <2> QED
    BY <1>16, <1>19, <2>1, <2>2, <2>3 DEF RoleOK
<1>21. \A j \in Inum : Paid(p, r, e, d, j)
  <2>1. PICK n \in {0, 1} : n = (IF q.call = "mkdir" THEN 1 ELSE 0)
    OBVIOUS
  <2>2. \A j \in Inum : Due(e, r, j) + Only(j, k, 1) + Only(j, b, n) <= Due(icache, proc[p], j)
    <3> SUFFICES ASSUME NEW j \in Inum
                 PROVE  Due(e, r, j) + Only(j, k, 1) + Only(j, b, n) <= Due(icache, q, j)
      OBVIOUS
    <3>1. ~ Owes(e, r, j) /\ ~ OwesUp(e, r, j)
      BY <1>6 DEF Owes, OwesUp
    <3>2. Owes(icache, q, j) <=> j = k
      BY <1>1 DEF Owes
    <3>3. OwesUp(icache, q, j) <=> (q.call = "mkdir" /\ j = b)
      BY <1>1 DEF OwesUp
    <3>4. Due(e, r, j) = 0
      BY <3>1 DEF Due
    <3>5. Due(icache, q, j) = Only(j, k, 1) + Only(j, b, n)
      <4> HIDE DEF k, b
      <4>1. CASE q.call = "mkdir"
        BY <2>1, <3>2, <3>3, <4>1 DEF Due, Only
      <4>2. CASE q.call # "mkdir"
        BY <2>1, <3>2, <3>3, <4>2 DEF Due, Only
      <4> QED
        BY <4>1, <4>2
    <3>6. Only(j, k, 1) \in Int /\ Only(j, b, n) \in Int
      BY <2>1 DEF Only
    <3> QED
      BY <3>4, <3>5, <3>6
  <2>3. \A j \in Inum : Subs(d, j) <= Subs(disk, j) + Only(j, b, n)
    <3>1. CASE q.call = "mkdir"
      BY <1>13, <2>1, <3>1
    <3>2. CASE q.call # "mkdir"
      <4> SUFFICES ASSUME NEW j \in Inum PROVE Subs(d, j) <= Subs(disk, j) + Only(j, b, n)
        OBVIOUS
      <4>1. n = 0 /\ Subs(d, j) <= Subs(disk, j)
        BY <1>12, <1>13, <2>1, <3>2
      <4>2. Subs(d, j) \in Nat /\ Subs(disk, j) \in Nat
        BY Finite
      <4> QED
        BY <4>1, <4>2 DEF Only
    <3> QED
      BY <3>1, <3>2
  <2>4. 1 \in Int /\ n \in Int
    BY <2>1
  <2>5. /\ \A j \in Inum : d[j].nlink = disk[j].nlink
        /\ \A j \in Inum : Names(d, j) <= Names(disk, j) + Only(j, k, 1)
    BY <1>13
  <2> HIDE DEF b, k
  <2> QED
    BY <1>4, <2>2, <2>3, <2>4, <2>5, Pays
<1>22. Knows(e, d, r)
  <2>1. \A i \in 1 .. Len(r.new) : r.new[i] # ".."
    BY <1>1, <1>6 DEF Knows
  <2>2. \A i \in 1 .. Len(r.path) : r.path[i] # ".."
    BY <1>6
  <2> QED
    BY <1>6, <1>19, <2>1, <2>2 DEF Knows
<1>23. \A u \in Proc \ {p} : Knows(e, d, proc[u])
  <2>1. Live(x) /\ x \in Locked(proc[p]) /\ proc[p].iput = "start" /\ Uses(proc[p], x)
    BY <1>1, <1>8, <1>9
  <2>2. OthersOf(p, k)
    BY <1>11 DEF OthersOf
  <2>3. Rewrites(d, icache[x].inum, k)
    BY <1>13 DEF Rewrites
  <2> HIDE DEF x, k
  <2> QED
    BY <1>16, <2>1, <2>2, <2>3, OthersKnow
<1>24. \A u \in Proc, t \in Slot : Kills(proc[u], t) => NamesOf(d, icache[t].inum) = {}
  <2>1. \A j \in Inum : j # k => NamesOf(d, j) \subseteq NamesOf(disk, j)
    BY <1>13
  <2> HIDE DEF k
  <2> QED
    BY <1>10, <2>1, StillDeadBut
<1>25. proc[p].iput # "forget" /\ \A j \in Inum : d[j].type = disk[j].type
  BY <1>1, <1>13
<1>26. Shape(d)
  BY <1>13
<1> QED
  BY <1>3, <1>4, <1>16, <1>18, <1>20, <1>21, <1>22, <1>23, <1>24, <1>25, <1>26, Moved

LEMMA LinkEnterTree ==
  ASSUME TableInv, TableInv', TreeInv, NEW p \in Proc, LinkEnter(p) PROVE TreeInv'
<1> DEFINE q == proc[p]   s == q.ip   x == q.dp   b == icache[x].inum   k == icache[s].inum
           name == Head(q.path)
           here == Ilock(icache, x, NoProc)
           d == WriteEntry(disk, x, name, k)
           A == IF Entry(x, name) # 0 THEN Go(p, Fail(q, <<x>>), here, disk)
                ELSE Go(p, Return(q, <<x, s>>), here, d)
<1>1. /\ q.pc = "parent" /\ q.puts = <<>> /\ q.call = "link" /\ Fits(q) /\ Idle(q) /\ Live(x)
      /\ Knows(icache, disk, q) /\ name \in Name /\ disk[b].type = "dir"
  BY Parents DEF LinkEnter, At
<1>2. q.ip # 0 /\ Live(s) /\ q \in Process /\ q.iput = "start"
  BY <1>1, Held DEF Fits, CallInv, IsParent, Idle
<1>3. Loose(q) /\ NoDots(q) /\ Linking(q) /\ Calm(q) /\ Locked(q) = {}
  <2>1. Loose(q) /\ NoDots(q) /\ Linking(q)
    BY <1>1, <1>2 DEF Loose, NoDots, Linking, Knows
  <2> QED
    BY <1>1, <2>1, LooseFacts
<1>4. A /\ Undisturbed(p, here) /\ icache[x].busy = NoProc
  <2>1. Locking(x, A)
    BY DEF LinkEnter
  <2>2. icache[x].busy = NoProc
    BY <2>1 DEF Locking
  <2> HIDE DEF A, x
  <2> QED
    BY <1>1, <2>1, <2>2, Looking1
<1> HIDE DEF here
<1>5. CASE Go(p, Fail(q, <<x>>), here, disk)
  <2>1. PICK r : r = Fail(q, <<x>>)
    OBVIOUS
  <2>2. /\ Loose(r) /\ NoDots(r) /\ r.pc # "parent"
        /\ Linking(r) => Linking(q) /\ r.ip = q.ip
    BY <1>2, <1>3, <2>1, FailLoose
  <2> QED
    BY <1>3, <1>4, <1>5, <2>1, <2>2, Loosely
<1>6. CASE Go(p, Return(q, <<x, s>>), here, d)
  <2>1. PICK r : r = Return(q, <<x, s>>)
    OBVIOUS
  <2>2. Go(p, r, here, d)
    BY <1>6, <2>1
  <2>3. d \in Disks
    <3>1. disk' \in Disks
      BY DEF TableInv
    <3> QED
      BY <2>2, <3>1, After
  <2>4. /\ r.pc = "user" /\ r.call = "none" /\ r.path = <<>> /\ r.new = <<>>
        /\ r.iput = "start" /\ Calm(r) /\ Locked(r) = {}
    BY <1>2, <2>1, Returned
  <2>5. b \in Inum /\ k \in Inum /\ x \in Slot /\ s \in Slot
    BY <1>1, <1>2 DEF Live
  <2>6. Uses(q, x) /\ Uses(q, s)
    BY <1>1 DEF Uses
  <2>7. /\ \A u \in Proc : New(icache, proc[u]) # k /\ New(icache, proc[u]) # b
        /\ \A u \in Proc : ~ Kills(proc[u], s)
    BY <2>5, <2>6 DEF TreeInv, RoleInv
  <2>8. disk[k].type # "dir" /\ disk[k].type # "free"
    <3>1. disk[k].type # "dir"
      BY <1>1, <1>2 DEF Knows
    <3>2. disk[icache[s].inum].type # "free"
      BY <1>2, <2>5, <2>7, Agreed DEF Live
    <3> QED
      BY <3>1, <3>2
  <2>9. \A u \in Proc, t \in Slot : Kills(proc[u], t) => icache[t].inum # k
    <3> SUFFICES ASSUME NEW u \in Proc, NEW t \in Slot, Kills(proc[u], t) PROVE icache[t].inum # k
      OBVIOUS
    <3>1. Live(t) /\ t # s
      BY <2>7, HasLive
    <3> QED
      BY <1>2, <3>1, OneSlot
  <2>10. /\ \A j \in Inum : d[j].type = disk[j].type /\ d[j].nlink = disk[j].nlink
         /\ \A j \in Inum : j # b => d[j].entries = disk[j].entries
         /\ \A j \in Inum : j # k => NamesOf(d, j) \subseteq NamesOf(disk, j)
         /\ \A j \in Inum : Names(d, j) <= Names(disk, j) + Only(j, k, 1)
         /\ \A j \in Inum : Subs(d, j) <= Subs(disk, j)
         /\ Shape(d)
    <3>1. d = [disk EXCEPT ![b].entries[name] = k]
      BY DEF WriteEntry
    <3>2. Entering(b, k, name, d)
      BY <1>1, <2>5, <2>8, <3>1, Zenon DEF Entering
    <3> HIDE DEF b, k, d, name
    <3> QED
      BY <2>8, <3>2, Entered
  <2> HIDE DEF d
  <2>11. CachedOK(here, d) /\ Frame(here)
    BY <1>4, <2>10, CachedSame DEF Undisturbed
  <2>12. LockOK(p, r, here)
    <3> SUFFICES ASSUME NEW t \in Slot
                 PROVE  /\ here[t].busy = icache[t].busy /\ (icache[t].valid => here[t].valid)
                        /\ (t \in Locked(r) <=> t \in Locked(proc[p]))
      BY Relocks
    <3>1. icache[t].valid => here[t].valid
      BY DEF here, Ilock, TableInv, Caches
    <3> QED
      BY <1>3, <1>4, <2>4, <3>1 DEF Undisturbed
  <2>13. RoleOK(p, r, here)
    BY <1>3, <1>4, <2>2, <2>4, <2>11, CalmRole DEF Undisturbed
  <2>14. Knows(here, d, r) /\ \A j : Due(here, r, j) = 0
    BY <2>4, UserKnows
  <2>15. \A j \in Inum : Paid(p, r, here, d, j)
    <3>1. \A j \in Inum : Due(here, r, j) + Only(j, k, 1) + Only(j, b, 0) <= Due(icache, proc[p], j)
      <4> SUFFICES ASSUME NEW j \in Inum
                   PROVE  Due(here, r, j) + Only(j, k, 1) + Only(j, b, 0) <= Due(icache, proc[p], j)
        OBVIOUS
      <4>1. Owes(icache, q, j) <=> j = k
        BY <1>1, <1>2 DEF Owes
      <4>2. ~ OwesUp(icache, q, j)
        BY <1>1 DEF OwesUp
      <4>3. Due(icache, q, j) = (IF j = k THEN 1 ELSE 0)
        BY <4>1, <4>2 DEF Due
      <4>4. Due(here, r, j) = 0
        BY <2>14
      <4> HIDE DEF k, b
      <4> QED
        BY <4>3, <4>4 DEF Only
    <3>2. 1 \in Int /\ 0 \in Int
      OBVIOUS
    <3>3. /\ \A j \in Inum : d[j].nlink = disk[j].nlink
          /\ \A j \in Inum : Names(d, j) <= Names(disk, j) + Only(j, k, 1)
      BY <2>10
    <3>4. \A j \in Inum : Subs(d, j) <= Subs(disk, j) + Only(j, b, 0)
      <4> SUFFICES ASSUME NEW j \in Inum PROVE Subs(d, j) <= Subs(disk, j) + Only(j, b, 0)
        OBVIOUS
      <4>1. Subs(d, j) \in Nat /\ Subs(disk, j) \in Nat /\ Subs(d, j) <= Subs(disk, j)
        BY <2>10, Finite
      <4> QED
        BY <4>1 DEF Only
    <3> HIDE DEF b, k
    <3> QED
      BY <2>3, <3>1, <3>2, <3>3, <3>4, Pays
  <2>16. \A u \in Proc \ {p} : Knows(here, d, proc[u])
    <3> SUFFICES ASSUME NEW u \in Proc \ {p} PROVE Knows(here, d, proc[u])
      OBVIOUS
    <3>1. u \in Proc /\ New(icache, proc[u]) # b /\ New(icache, proc[u]) # k
      BY <2>7
    <3>2. New(icache, proc[u]) # 0 => NamesOf(d, New(icache, proc[u])) = {}
      <4>1. New(icache, proc[u]) \in Inum \cup {0}
        BY <3>1, HasLive
      <4>2. New(icache, proc[u]) # 0 => NamesOf(disk, New(icache, proc[u])) = {}
        BY <3>1 DEF TreeInv, KnowsInv, Knows
      <4> QED
        BY <2>10, <3>1, <4>1, <4>2
    <3>3. proc[u].pc = "child" => icache[proc[u].dp].inum # b
      <4> SUFFICES ASSUME proc[u].pc = "child" PROVE icache[proc[u].dp].inum # b
        OBVIOUS
      <4>1. Live(proc[u].dp)
        BY <3>1, Held DEF Fits, CallInv
      <4>2. proc[u].dp \in Locked(proc[u]) /\ proc[u].dp \in Slot
        BY <4>1 DEF Locked, Live
      <4>3. proc[u].dp # x
        <5>1. \A t \in Slot : t \in Locked(proc[u]) => icache[t].busy = u
          BY <3>1 DEF TreeInv, LockInv
        <5>2. u # NoProc /\ icache[proc[u].dp].busy = u
          BY <3>1, <4>2, <5>1, Sets
        <5> QED
          BY <1>4, <5>2
      <4> QED
        BY <1>1, <4>1, <4>3, OneSlot
    <3>4. /\ \A j \in Inum : d[j].type = disk[j].type
          /\ \A j \in Inum : j # b => d[j].entries = disk[j].entries
      BY <2>10
    <3> HIDE DEF b
    <3> QED
      BY <2>5, <2>11, <3>1, <3>2, <3>3, <3>4, KnowsBut
  <2>17. \A u \in Proc, t \in Slot : Kills(proc[u], t) => NamesOf(d, icache[t].inum) = {}
    <3>1. \A j \in Inum : j # k => NamesOf(d, j) \subseteq NamesOf(disk, j)
      BY <2>10
    <3> HIDE DEF k
    <3> QED
      BY <2>9, <3>1, StillDeadBut
  <2>18. proc[p].iput # "forget" /\ \A j \in Inum : d[j].type = disk[j].type
    BY <1>2, <2>10
  <2>19. Shape(d)
    BY <2>10
  <2> QED
    BY <2>2, <2>3, <2>11, <2>12, <2>13, <2>14, <2>15, <2>16, <2>17, <2>18, <2>19, Moved
<1> QED
  BY <1>4, <1>5, <1>6

-----------------------------------------------------------------------------
(* ialloc() *)

\* A free inode is used by nobody; iput() may not have forgotten it yet.
LEMMA FreeInode ==
  ASSUME TableInv, TreeInv, NEW k \in Inum, disk[k].type = "free"
  PROVE  /\ k # ROOTINO /\ NamesOf(disk, k) = {}
         /\ \A r \in Proc : New(icache, proc[r]) # k
         /\ \A s \in Slot : Live(s) /\ icache[s].inum = k =>
              \E r \in Proc : Kills(proc[r], s) /\ proc[r].iput # "free"
         /\ \A r \in Proc, s \in Slot : Uses(proc[r], s) => icache[s].inum # k
         /\ \A r \in Proc, s \in Slot : Kills(proc[r], s) /\ icache[s].inum = k =>
              proc[r].iput = "forget"
         /\ \A r \in Proc : ~ Owes(icache, proc[r], k) /\ ~ OwesUp(icache, proc[r], k)
<1>1. k # ROOTINO /\ NamesOf(disk, k) = {}
  BY DEF TreeInv, Shape
<1>2. \A r \in Proc : New(icache, proc[r]) # k
  <2> SUFFICES ASSUME NEW r \in Proc, New(icache, proc[r]) = k PROVE FALSE
    OBVIOUS
  <2>1. New(icache, proc[r]) # 0 /\ Knows(icache, disk, proc[r])
    BY Sets DEF TreeInv, KnowsInv
  <2>2. disk[k].type = (IF proc[r].call = "mkdir" THEN "dir" ELSE "file")
    BY <2>1 DEF Knows
  <2> QED
    BY <2>2
<1>3. \A s \in Slot : Live(s) /\ icache[s].inum = k =>
              \E r \in Proc : Kills(proc[r], s) /\ proc[r].iput # "free"
  BY DEF Live, TreeInv, CacheInv
<1>4. \A r \in Proc, s \in Slot : Uses(proc[r], s) => icache[s].inum # k
  <2> SUFFICES ASSUME NEW r \in Proc, NEW s \in Slot, Uses(proc[r], s) PROVE icache[s].inum # k
    OBVIOUS
  <2>1. Live(s)
    BY UsedLive
  <2>2. \A u \in Proc : ~ Kills(proc[u], s)
    BY DEF TreeInv, RoleInv
  <2> QED
    BY <1>3, <2>1, <2>2
<1>5. \A r \in Proc, s \in Slot : Kills(proc[r], s) /\ icache[s].inum = k =>
              proc[r].iput = "forget"
  <2> SUFFICES ASSUME NEW r \in Proc, NEW s \in Slot, Kills(proc[r], s), icache[s].inum = k
               PROVE  proc[r].iput = "forget"
    OBVIOUS
  <2>1. Live(s)
    BY HasLive
  <2>2. PICK u \in Proc : Kills(proc[u], s) /\ proc[u].iput # "free"
    BY <1>3, <2>1
  <2>3. s \in Locked(proc[u]) /\ s \in Locked(proc[r])
    BY <2>2 DEF Kills, Locked
  <2>4. u = r
    BY <2>3 DEF TreeInv, LockInv
  <2>5. proc[u].iput \in {"start", "free", "forget"}
    BY DEF TableInv, Process
  <2> QED
    BY <2>2, <2>4, <2>5 DEF Kills
<1>6. \A r \in Proc : ~ Owes(icache, proc[r], k) /\ ~ OwesUp(icache, proc[r], k)
  <2> SUFFICES ASSUME NEW r \in Proc
               PROVE  ~ Owes(icache, proc[r], k) /\ ~ OwesUp(icache, proc[r], k)
    OBVIOUS
  <2>1. New(icache, proc[r]) # k
    BY <1>2
  <2>2. \A s \in Slot : Uses(proc[r], s) => icache[s].inum # k
    BY <1>4
  <2>3. ASSUME Owes(icache, proc[r], k) PROVE FALSE
    <3>1. proc[r].ip # 0 /\ icache[proc[r].ip].inum = k /\ proc[r].pc # "iget"
      BY <2>3 DEF Owes
    <3>2. proc[r].ip \in Slot
      BY <3>1, Held DEF Live
    <3>3. proc[r].pc \notin {"init", "nest", "dots", "enter"}
      BY <2>1, <3>1 DEF New
    <3>4. Uses(proc[r], proc[r].ip)
      BY <3>1, <3>3 DEF Uses
    <3> QED
      BY <2>2, <3>1, <3>2, <3>4
  <2>4. ASSUME OwesUp(icache, proc[r], k) PROVE FALSE
    <3>1. proc[r].dp # 0
      BY <2>4, Held DEF OwesUp, Fits, CallInv
    <3>2. proc[r].dp \in Slot /\ Uses(proc[r], proc[r].dp)
      BY <3>1, Held DEF Live, Uses
    <3> QED
      BY <2>2, <2>4, <3>2 DEF OwesUp
  <2> QED
    BY <2>3, <2>4
<1> QED
  BY <1>1, <1>2, <1>3, <1>4, <1>5, <1>6

\* A free inode is written anew, without entries.
Allocating(k, type, d) ==
  /\ k \in Inum /\ disk[k].type = "free" /\ type \in {"file", "dir"}
  /\ d = [disk EXCEPT ![k] = [type |-> type, nlink |-> 0, entries |-> NoEntries]]

LEMMA Allocated ==
  ASSUME TableInv, TreeInv, NEW k, NEW type, NEW d, Allocating(k, type, d)
  PROVE  /\ \A j \in Inum \ {k} : d[j] = disk[j]
         /\ d[k].type = type /\ d[k].nlink = 0 /\ \A n \in Name : d[k].entries[n] = 0
         /\ \A j \in Inum : NamesOf(d, j) = NamesOf(disk, j)
         /\ \A j \in Inum \ {k} : Subs(d, j) = Subs(disk, j)
         /\ Subs(d, k) = 0
         /\ Shape(d)
<1> USE DEF Allocating
<1>1. /\ \A j \in Inum \ {k} : d[j] = disk[j]
      /\ d[k].type = type /\ d[k].nlink = 0 /\ \A n \in Name : d[k].entries[n] = 0
  BY DEF TableInv, Disks, NoEntries
<1>2. k # ROOTINO /\ NamesOf(disk, k) = {} /\ 0 \notin Inum /\ ROOTINO \in Inum
  BY FreeInode, Sets
<1>3. \A j \in Inum : NamesOf(d, j) = NamesOf(disk, j)
  <2> SUFFICES ASSUME NEW j \in Inum, NEW x \in Inum \X Name
               PROVE  (d[x[1]].type = "dir" /\ d[x[1]].entries[x[2]] = j)
                      <=> (disk[x[1]].type = "dir" /\ disk[x[1]].entries[x[2]] = j)
    BY DEF NamesOf
  <2>1. x[1] \in Inum /\ x[2] \in Name
    OBVIOUS
  <2>2. CASE x[1] = k
    BY <1>1, <1>2, <2>1, <2>2
  <2>3. CASE x[1] # k
    BY <1>1, <2>1, <2>3
  <2> QED
    BY <2>2, <2>3
<1>4. \A i \in Inum, n \in Name : i # k /\ disk[i].type = "dir" => disk[i].entries[n] # k
  <2> SUFFICES ASSUME NEW i \in Inum, NEW n \in Name, disk[i].type = "dir",
                      disk[i].entries[n] = k
               PROVE  FALSE
    OBVIOUS
  <2>1. <<i, n>> \in NamesOf(disk, k)
    BY EntryNames
  <2> QED
    BY <1>2, <2>1
<1>5. \A j \in Inum \ {k} : Subs(d, j) = Subs(disk, j)
  <2> SUFFICES ASSUME NEW j \in Inum \ {k}, disk[j].type = "dir"
               PROVE  SubdirsOf(d, j) = SubdirsOf(disk, j)
    BY <1>1 DEF Subs
  <2>1. d[j] = disk[j]
    BY <1>1
  <2>2. \A n \in Name : disk[j].entries[n] \in (Inum \ {k}) \cup {0}
    BY <1>4 DEF TableInv, Disks
  <2>3. \A n \in Name : disk[j].entries[n] # 0 => d[disk[j].entries[n]] = disk[disk[j].entries[n]]
    BY <1>1, <2>2
  <2> QED
    BY <2>1, <2>3 DEF SubdirsOf
<1>6. Subs(d, k) = 0
  <2>1. SubdirsOf(d, k) = {}
    BY <1>1 DEF SubdirsOf
  <2> QED
    BY <2>1, FS_EmptySet DEF Subs
<1>7. Shape(d)
  <2>1. Shape(disk)
    BY DEF TreeInv
  <2>2. d[ROOTINO].type # "free"
    BY <1>1, <1>2, <2>1 DEF Shape
  <2>3. \A j \in Inum : NamesOf(d, j) # {} => d[j].type # "free"
    BY <1>1, <1>2, <1>3, <2>1 DEF Shape
  <2>4. \A j \in Inum : d[j].type = "dir" /\ j # ROOTINO =>
          \A x, y \in NamesOf(d, j) : x = y /\ d[j].entries[".."] = x[1]
    <3> SUFFICES ASSUME NEW j \in Inum, d[j].type = "dir", j # ROOTINO,
                        NEW x \in NamesOf(d, j), NEW y \in NamesOf(d, j)
                 PROVE  x = y /\ d[j].entries[".."] = x[1]
      OBVIOUS
    <3>1. j # k /\ x \in NamesOf(disk, j) /\ y \in NamesOf(disk, j)
      BY <1>2, <1>3
    <3>2. d[j] = disk[j]
      BY <1>1, <3>1
    <3> QED
      BY <2>1, <3>1, <3>2 DEF Shape
  <2>5. \A i, j \in Inum : d[i].type = "dir" /\ d[j].type = "dir" =>
          \A n, m \in Name : ~ (d[i].entries[n] = j /\ d[j].entries[m] = i)
    <3> SUFFICES ASSUME NEW i \in Inum, NEW j \in Inum, d[i].type = "dir", d[j].type = "dir",
                        NEW n \in Name, NEW m \in Name, d[i].entries[n] = j, d[j].entries[m] = i
                 PROVE  FALSE
      OBVIOUS
    <3>1. i # k /\ j # k
      BY <1>1, <1>2
    <3>2. d[i] = disk[i] /\ d[j] = disk[j]
      BY <1>1, <3>1
    <3> QED
      BY <2>1, <3>2 DEF Shape
  <2> QED
    BY <2>2, <2>3, <2>4, <2>5 DEF Shape
<1> QED
  BY <1>1, <1>3, <1>5, <1>6, <1>7

LEMMA IallocTree ==
  ASSUME TableInv, TableInv', TreeInv, NEW p \in Proc, Ialloc(p) PROVE TreeInv'
<1> DEFINE q == proc[p]   x == q.dp   b == icache[x].inum
           type == IF q.call = "mkdir" THEN "dir" ELSE "file"
           D(k) == [disk EXCEPT ![k] = [type |-> type, nlink |-> 0, entries |-> NoEntries]]
           R(k) == [q EXCEPT !.pc = "iget", !.ip = k]
<1>1. /\ q.pc = "ialloc" /\ q.puts = <<>> /\ Fits(q) /\ Idle(q) /\ Live(x)
      /\ Knows(icache, disk, q) /\ disk[b].type = "dir" /\ q \in Process /\ q.iput = "start"
      /\ q.ip = 0
  BY Parents, Held DEF Ialloc, At, Fits, CallInv, Idle
<1>2. CASE Panic("full")
  BY <1>2, FullStops
<1>3. ASSUME NEW k \in Inum, disk[k].type = "free", Go(p, R(k), icache, D(k)) PROVE TreeInv'
  <2>1. PICK r : r = R(k)
    OBVIOUS
  <2>2. PICK d : d = D(k)
    OBVIOUS
  <2>3. Go(p, r, icache, d)
    BY <1>3, <2>1, <2>2
  <2>4. d \in Disks
    <3>1. disk' \in Disks
      BY DEF TableInv
    <3> QED
      BY <2>3, <3>1, After
  <2>5. /\ icache' = icache /\ disk' = d /\ panicked' = panicked /\ crashes' = crashes
        /\ proc'[p] = r /\ \A u \in Proc \ {p} : proc'[u] = proc[u]
    BY <2>3, After
  <2>6. /\ r.pc = "iget" /\ r.path = q.path /\ r.new = q.new /\ r.call = q.call
        /\ r.dp = x /\ r.ip = k /\ r.puts = <<>> /\ r.iput = "start"
        /\ r.file = q.file /\ r.cwd = q.cwd
    BY <1>1, <2>1 DEF Process
  <2>7. /\ k # ROOTINO /\ NamesOf(disk, k) = {} /\ k # 0
        /\ \A u \in Proc : New(icache, proc[u]) # k
        /\ \A s \in Slot : Live(s) /\ icache[s].inum = k =>
              \E u \in Proc : Kills(proc[u], s) /\ proc[u].iput # "free"
        /\ \A u \in Proc, s \in Slot : Uses(proc[u], s) => icache[s].inum # k
        /\ \A u \in Proc, s \in Slot : Kills(proc[u], s) /\ icache[s].inum = k =>
              proc[u].iput = "forget"
        /\ \A u \in Proc : ~ Owes(icache, proc[u], k) /\ ~ OwesUp(icache, proc[u], k)
    BY <1>3, FreeInode, Sets
  <2>8. type \in {"file", "dir"}
    OBVIOUS
  <2>9. /\ \A j \in Inum \ {k} : d[j] = disk[j]
        /\ d[k].type = type /\ d[k].nlink = 0 /\ \A n \in Name : d[k].entries[n] = 0
        /\ \A j \in Inum : NamesOf(d, j) = NamesOf(disk, j)
        /\ \A j \in Inum \ {k} : Subs(d, j) = Subs(disk, j)
        /\ Subs(d, k) = 0
        /\ Shape(d)
    <3>1. Allocating(k, type, d)
      BY <1>3, <2>2, <2>8 DEF Allocating
    <3> HIDE DEF type
    <3> QED
      BY <3>1, Allocated
  <2>10. Frame(icache) /\ \A t \in Slot : icache[t].inum \in Inum \cup {0}
    BY DEF Frame, TableInv, Caches
  <2>11. New(icache, r) = k /\ New(icache, q) = 0
    BY <1>1, <2>6 DEF New
  <2>12. \A s \in Slot : /\ Uses(r, s) <=> Uses(q, s)
                         /\ ~ Kills(r, s) /\ ~ Kills(q, s)
    BY <1>1, <2>6, Sets DEF Uses, Kills
  <2>13. LockInv'
    <3>1. Locked(r) = Locked(q)
      BY <1>1, <2>6 DEF Locked
    <3>2. LockOK(p, r, icache)
      BY <3>1, Relocks
    <3> QED
      BY <2>3, <3>2, LockStep
  <2>14. \A u \in Proc, s \in Slot : /\ Uses(proc'[u], s) <=> Uses(proc[u], s)
                                     /\ Kills(proc'[u], s) <=> Kills(proc[u], s)
    BY <2>5, <2>12
  <2>15. \A u \in Proc : New(icache, proc'[u]) = (IF u = p THEN k ELSE New(icache, proc[u]))
    BY <2>5, <2>11
  <2>16. RoleInv'
    <3>1. \A u, w \in Proc, s \in Slot :
            Uses(proc'[u], s) => New(icache, proc'[w]) # icache[s].inum /\ ~ Kills(proc'[w], s)
      BY <2>7, <2>14, <2>15 DEF TreeInv, RoleInv
    <3>2. \A u, w \in Proc :
            New(icache, proc'[u]) = New(icache, proc'[w]) /\ New(icache, proc'[u]) # 0 => u = w
      BY <2>7, <2>15 DEF TreeInv, RoleInv
    <3>3. \A u, w \in Proc, s \in Slot :
            Kills(proc'[u], s) /\ New(icache, proc'[w]) = icache[s].inum =>
              proc'[u].iput = "forget" /\ proc'[w].pc \in {"iget", "init"}
      <4> SUFFICES ASSUME NEW u \in Proc, NEW w \in Proc, NEW s \in Slot,
                          Kills(proc'[u], s), New(icache, proc'[w]) = icache[s].inum
                   PROVE  proc'[u].iput = "forget" /\ proc'[w].pc \in {"iget", "init"}
        OBVIOUS
      <4>1. u # p /\ proc'[u] = proc[u] /\ Kills(proc[u], s)
        BY <2>5, <2>12, <2>14
      <4>2. CASE w = p
        BY <2>5, <2>6, <2>7, <2>15, <4>1, <4>2
      <4>3. CASE w # p
        BY <2>5, <2>15, <4>1, <4>3 DEF TreeInv, RoleInv
      <4> QED
        BY <4>2, <4>3
    <3> QED
      BY <2>5, <3>1, <3>2, <3>3 DEF RoleInv
  <2>17. DeadInv'
    <3> SUFFICES ASSUME NEW u \in Proc, NEW s \in Slot, Kills(proc'[u], s)
                 PROVE  /\ icache[s].inum # ROOTINO
                        /\ NamesOf(d, icache[s].inum) = {}
                        /\ proc'[u].iput = "free" => icache[s].nlink = 0
      BY <2>5 DEF DeadInv
    <3>1. Kills(proc[u], s) /\ proc'[u] = proc[u]
      BY <2>5, <2>12, <2>14
    <3>2. icache[s].inum \in Inum
      BY <3>1, HasLive DEF Live
    <3> QED
      BY <2>9, <3>1, <3>2 DEF TreeInv, DeadInv
  <2>18. CacheInv'
    <3> SUFFICES ASSUME NEW s \in Slot
          PROVE  /\ icache[s].nlink >= 0
                 /\ icache[s].ref > 0 /\ (\A u \in Proc : Kills(proc'[u], s) => proc'[u].iput = "free") =>
                      /\ d[icache[s].inum].type # "free"
                      /\ icache[s].valid => /\ icache[s].type = d[icache[s].inum].type
                                            /\ icache[s].nlink = d[icache[s].inum].nlink
      BY <2>5 DEF CacheInv
    <3>1. icache[s].nlink >= 0
      BY DEF TreeInv, CacheInv
    <3>2. ASSUME icache[s].ref > 0, \A u \in Proc : Kills(proc'[u], s) => proc'[u].iput = "free"
          PROVE  /\ d[icache[s].inum].type # "free"
                 /\ icache[s].valid => /\ icache[s].type = d[icache[s].inum].type
                                       /\ icache[s].nlink = d[icache[s].inum].nlink
      <4>1. \A u \in Proc : Kills(proc[u], s) => proc[u].iput = "free"
        BY <2>5, <2>12, <2>14, <3>2
      <4>2. icache[s].inum # k /\ icache[s].inum \in Inum
        BY <2>7, <2>10, <3>2, <4>1 DEF Live, TableInv
      <4>3. d[icache[s].inum] = disk[icache[s].inum]
        BY <2>9, <4>2
      <4> QED
        BY <3>2, <4>1, <4>3, Agreed
    <3> QED
      BY <3>1, <3>2
  <2>19. KnowsInv'
    <3>1. \A u \in Proc \ {p} : Knows(icache, d, proc[u])
      <4>1. \A j \in Inum : NamesOf(d, j) \subseteq NamesOf(disk, j)
        BY <2>9
      <4> QED
        BY <2>7, <2>9, <2>10, <4>1, KnowsGone
    <3>2. Knows(icache, d, r)
      <4>1. /\ \A i \in 1 .. Len(r.path) : r.path[i] # ".."
            /\ \A i \in 1 .. Len(r.new) : r.new[i] # ".."
            /\ r.call \in {"creat", "mkdir"}
        BY <1>1, <2>6 DEF Knows
      <4>2. d[icache[r.dp].inum].type = "dir"
        <5>1. Uses(q, x)
          BY DEF Uses
        <5>2. b # k /\ b \in Inum
          BY <1>1, <2>7, <5>1 DEF Live
        <5> QED
          BY <1>1, <2>6, <2>9, <5>2
      <4>3. /\ k # ROOTINO /\ d[k].type = (IF r.call = "mkdir" THEN "dir" ELSE "file")
            /\ \A n \in Name : d[k].entries[n] = 0
            /\ NamesOf(d, k) = {}
        BY <2>6, <2>7, <2>9
      <4> QED
        BY <2>6, <2>11, <4>1, <4>2, <4>3 DEF Knows
    <3> QED
      BY <2>5, <3>1, <3>2 DEF KnowsInv
  <2>20. CountInv'
    <3> SUFFICES ASSUME NEW j \in Inum PROVE Paid(p, r, icache, d, j)
      BY <2>3, <2>4, <2>10, CountStep
    <3>1. Due(icache, r, j) = 0 /\ Due(icache, q, j) = 0
      BY <1>1, <2>6 DEF Due, Owes, OwesUp
    <3>2. Names(d, j) = Names(disk, j) /\ Names(disk, j) \in Nat /\ Subs(disk, j) \in Nat
      BY <2>9, Finite DEF Names
    <3>3. CASE j = k
      <4>1. Unowed(p, k)
        BY <2>7 DEF Unowed
      <4>2. Names(disk, k) = 0 /\ Root(k) = 0
        BY <2>7, FS_EmptySet DEF Names, Root
      <4>3. d[k].nlink >= Names(d, k) + Subs(d, k) + Root(k) + Due(icache, r, k)
        BY <2>9, <3>1, <3>2, <3>3, <4>2
      <4> QED
        BY <3>3, <4>1, <4>3 DEF Paid
    <3>4. CASE j # k
      <4>1. d[j].nlink = disk[j].nlink /\ Subs(d, j) = Subs(disk, j) /\ disk[j].nlink \in Int
        BY <2>9, <3>4 DEF TableInv, Disks
      <4>2. d[j].nlink - Names(d, j) - Subs(d, j) - Due(icache, r, j) >=
              disk[j].nlink - Names(disk, j) - Subs(disk, j) - Due(icache, proc[p], j)
        BY <3>1, <3>2, <4>1
      <4> QED
        BY <4>2 DEF Paid
    <3> QED
      BY <3>3, <3>4
  <2>21. Shape(disk)'
    BY <2>5, <2>9 DEF Shape, NamesOf
  <2>22. RunInv'
    BY <2>5 DEF TreeInv, RunInv
  <2> QED
    BY <2>13, <2>16, <2>17, <2>18, <2>19, <2>20, <2>21, <2>22 DEF TreeInv
<1> QED
  <2>1. Panic("full") \/ \E k \in Inum : disk[k].type = "free" /\ Go(p, R(k), icache, D(k))
    BY DEF Ialloc
  <2> HIDE DEF R, D
  <2> QED
    BY <1>2, <1>3, <2>1

-----------------------------------------------------------------------------
(* The machine boots and crashes; the invariant *)

\* A disk to boot from.
Bootable ==
  /\ \A k \in Inum : disk[k].nlink >= Names(disk, k) + Subs(disk, k) + Root(k)
  /\ Shape(disk)

LEMMA BootTree == Booted /\ Bootable /\ RunInv => TreeInv
<1> SUFFICES ASSUME Booted, Bootable, RunInv PROVE TreeInv
  OBVIOUS
<1>1. TableInv
  BY BootInv
<1>2. \A p \in Proc :
        /\ proc[p].pc = "user" /\ proc[p].call = "none" /\ proc[p].path = <<>>
        /\ proc[p].new = <<>> /\ proc[p].puts = <<>> /\ proc[p].iput = "start"
        /\ proc[p].dp = 0 /\ proc[p].ip = 0 /\ proc[p].file = 0 /\ proc[p].cwd = 1
  BY DEF Booted, BootProc
<1>3. /\ \A s \in Slot : icache[s].busy = NoProc /\ icache[s].valid = FALSE /\ icache[s].nlink = 0
      /\ \A s \in Slot : s # 1 => icache[s].ref = 0
      /\ 1 \in Slot => icache[1].inum = ROOTINO
  BY DEF Booted, BootCache, NoInode
<1>4. \A p \in Proc : New(icache, proc[p]) = 0 /\ \A s \in Slot : ~ Kills(proc[p], s)
  BY <1>2 DEF New, Kills
<1>5. \A p \in Proc, s \in Slot : Uses(proc[p], s) => s = 1
  <2>1. Len(<<>>) = 0
    OBVIOUS
  <2> QED
    BY <1>2, <2>1, Sets DEF Uses
<1>6. LockInv
  <2>1. \A p \in Proc : Locked(proc[p]) = {}
    BY <1>2, Sets DEF Locked
  <2> QED
    BY <1>3, <2>1, Sets DEF LockInv
<1>7. RoleInv
  BY <1>3, <1>4, <1>5, Sets DEF RoleInv
<1>8. DeadInv
  BY <1>4 DEF DeadInv
<1>9. CacheInv
  BY <1>3, Sets DEF CacheInv, Bootable, Shape
<1>10. KnowsInv
  BY <1>2, UserKnows DEF KnowsInv
<1>11. CountInv
  <2> SUFFICES ASSUME NEW k \in Inum
               PROVE  disk[k].nlink >= Cardinality(NamesOf(disk, k))
                        + (IF disk[k].type = "dir" THEN Cardinality(SubdirsOf(disk, k)) ELSE 0)
                        + (IF k = ROOTINO THEN 1 ELSE 0)
                        + Cardinality({p \in Proc : Owes(icache, proc[p], k)})
                        + Cardinality({p \in Proc : OwesUp(icache, proc[p], k)})
    BY DEF CountInv
  <2>1. /\ {p \in Proc : Owes(icache, proc[p], k)} = {}
        /\ {p \in Proc : OwesUp(icache, proc[p], k)} = {}
    BY <1>2 DEF Owes, OwesUp
  <2>2. /\ Cardinality({p \in Proc : Owes(icache, proc[p], k)}) = 0
        /\ Cardinality({p \in Proc : OwesUp(icache, proc[p], k)}) = 0
    BY <2>1, FS_EmptySet
  <2>3. disk[k].nlink \in Int /\ Names(disk, k) \in Nat /\ Subs(disk, k) \in Nat /\ Root(k) \in Nat
    BY Finite DEF Booted, Disks
  <2>4. disk[k].nlink >= Names(disk, k) + Subs(disk, k) + Root(k)
    BY DEF Bootable
  <2>5. /\ Names(disk, k) = Cardinality(NamesOf(disk, k))
        /\ Subs(disk, k) = (IF disk[k].type = "dir" THEN Cardinality(SubdirsOf(disk, k)) ELSE 0)
        /\ Root(k) = (IF k = ROOTINO THEN 1 ELSE 0)
    BY DEF Names, Subs, Root
  <2> QED
    BY <2>2, <2>3, <2>4, <2>5
<1> QED
  BY <1>6, <1>7, <1>8, <1>9, <1>10, <1>11 DEF TreeInv, Bootable

\* The links that are on the disk are counted on the disk.
LEMMA Covered ==
  ASSUME TableInv, TreeInv, NEW k \in Inum
  PROVE  /\ disk[k].nlink >= Names(disk, k) + Subs(disk, k) + Root(k) + Debt(proc, icache, k)
         /\ disk[k].nlink \in Int /\ Debt(proc, icache, k) \in Nat
<1> DEFINE A == {p \in Proc : Owes(icache, proc[p], k)}
           B == {p \in Proc : OwesUp(icache, proc[p], k)}
<1>1. disk[k].nlink \in Int
  BY DEF TableInv, Disks
<1>2. /\ Names(disk, k) = Cardinality(NamesOf(disk, k))
      /\ Subs(disk, k) = (IF disk[k].type = "dir" THEN Cardinality(SubdirsOf(disk, k)) ELSE 0)
      /\ Root(k) = (IF k = ROOTINO THEN 1 ELSE 0)
      /\ Debt(proc, icache, k) = Cardinality(A) + Cardinality(B)
  BY DEF Names, Subs, Root, Debt
<1>3. disk[k].nlink >= Names(disk, k) + Subs(disk, k) + Root(k) + Cardinality(A) + Cardinality(B)
  <2>1. disk[k].nlink >= Cardinality(NamesOf(disk, k))
          + (IF disk[k].type = "dir" THEN Cardinality(SubdirsOf(disk, k)) ELSE 0)
          + (IF k = ROOTINO THEN 1 ELSE 0) + Cardinality(A) + Cardinality(B)
    BY DEF TreeInv, CountInv
  <2> HIDE DEF A, B
  <2> QED
    BY <1>2, <2>1
<1>4. Cardinality(A) \in Nat /\ Cardinality(B) \in Nat
  <2>1. A \in SUBSET Proc /\ B \in SUBSET Proc
    OBVIOUS
  <2> QED
    BY <2>1, Sets, FS_Subset, FS_CardinalityType
<1>5. Names(disk, k) \in Nat /\ Subs(disk, k) \in Nat /\ Root(k) \in Nat
  BY Finite
<1> HIDE DEF A, B
<1>6. Debt(proc, icache, k) = Cardinality(A) + Cardinality(B)
  BY <1>2
<1> QED
  BY <1>1, <1>3, <1>4, <1>5, <1>6

LEMMA StillBootable == TableInv /\ TreeInv => Bootable
<1> SUFFICES ASSUME TableInv, TreeInv PROVE Bootable
  OBVIOUS
<1>1. ASSUME NEW k \in Inum
      PROVE  disk[k].nlink >= Names(disk, k) + Subs(disk, k) + Root(k)
  <2>1. Names(disk, k) \in Nat /\ Subs(disk, k) \in Nat /\ Root(k) \in Nat
    BY Finite
  <2> QED
    BY <2>1, Covered
<1> QED
  BY <1>1 DEF Bootable, TreeInv

LEMMA CrashTree == TableInv /\ TreeInv /\ Crash => TreeInv'
<1>1. TableInv /\ Crash => Booted'
  BY DEF TableInv, Crash, Booted
<1>2. Bootable /\ Crash => Bootable'
  BY DEF Crash, Bootable
<1>3. RunInv /\ Crash => RunInv'
  BY FileSystemAssumption DEF Crash, RunInv, FileSystemAssumption
<1>4. TreeInv => RunInv
  BY DEF TreeInv
<1> QED
  BY <1>1, <1>2, <1>3, <1>4, StillBootable, BootTree, PTL

LEMMA InitTree == Init => TreeInv
<1>1. ASSUME Init PROVE Booted /\ Bootable /\ RunInv
  <2>1. Booted
    BY <1>1, InitInv DEF Init, Booted, TableInv
  <2>2. RunInv
    BY <1>1, FileSystemAssumption DEF Init, RunInv, FileSystemAssumption
  <2>3. /\ \A k \in Inum : /\ disk[k].type = "dir" <=> k = ROOTINO
                           /\ disk[k].nlink = Root(k)
                           /\ disk[k].type \in {"dir", "free"}
        /\ \A k \in Inum, n \in Name : disk[k].entries[n] = 0
    BY <1>1, Sets DEF Init, NoEntries, Root
  <2>4. \A k \in Inum : NamesOf(disk, k) = {}
    <3> SUFFICES ASSUME NEW k \in Inum, NEW j \in Inum, NEW n \in Name PROVE disk[j].entries[n] # k
      BY DEF NamesOf
    <3> QED
      BY <2>3, Sets
  <2>5. \A k \in Inum : SubdirsOf(disk, k) = {}
    BY <2>3 DEF SubdirsOf
  <2>6. \A k \in Inum : Names(disk, k) = 0 /\ Subs(disk, k) = 0 /\ Root(k) \in Nat
    BY <2>4, <2>5, FS_EmptySet, Finite DEF Names, Subs
  <2>7. Shape(disk)
    BY <2>3, <2>4, Sets DEF Shape
  <2> QED
    BY <2>1, <2>2, <2>3, <2>6, <2>7 DEF Bootable
<1> QED
  BY <1>1, BootTree

LEMMA NextTree == NoUp /\ TableInv /\ TableInv' /\ TreeInv /\ [Next]_vars => TreeInv'
<1> SUFFICES ASSUME NoUp, TableInv, TableInv', TreeInv, [Next]_vars PROVE TreeInv'
  OBVIOUS
<1>1. ASSUME NEW p \in Proc, Step(p) PROVE TreeInv'
  <2>1. CASE Call(p) \/ Close(p)
    BY <2>1, CallTree, CloseTree
  <2>2. CASE Iput(p) \/ IputFree(p) \/ IputForget(p) \/ Walk(p)
    BY <2>2, IputTree, IputDeadTree, IputFreeTree, IputForgetTree, WalkTree
  <2>3. CASE \/ CreateLookup(p) \/ CreateFound(p) \/ Ialloc(p) \/ IallocGet(p)
             \/ CreateInit(p)
    BY <2>3, CreateLookupTree, CreateFoundTree, IallocTree, IallocGetTree, CreateInitTree
  <2>4. CASE CreateNest(p) \/ CreateDots(p) \/ CreateEnter(p) \/ CreateMade(p)
    BY <2>4, CreateNestTree, CreateDotsTree, CreateEnterTree, CreateMadeTree
  <2>5. CASE OpenFound(p) \/ Chdir(p)
    BY <2>5, OpenFoundTree, ChdirTree
  <2>6. CASE UnlinkLookup(p) \/ UnlinkErase(p) \/ UnlinkNest(p) \/ UnlinkCount(p)
    BY <2>6, UnlinkLookupTree, UnlinkEraseTree, UnlinkNestTree, UnlinkCountTree
  <2>7. CASE LinkCount(p) \/ LinkAgain(p) \/ LinkEnter(p) \/ LinkBad(p)
    BY <2>7, LinkCountTree, LinkAgainTree, LinkEnterTree, LinkBadTree
  <2> QED
    BY <1>1, <2>1, <2>2, <2>3, <2>4, <2>5, <2>6, <2>7 DEF Step
<1>2. CASE Crash
  BY <1>2, CrashTree
<1>3. CASE UNCHANGED vars
  <2>1. /\ disk' = disk /\ icache' = icache /\ proc' = proc
        /\ panicked' = panicked /\ crashes' = crashes
    BY <1>3 DEF vars
  <2> QED
    BY <2>1 DEF TreeInv, LockInv, RoleInv, DeadInv, CacheInv, KnowsInv, CountInv, RunInv
<1> QED
  BY <1>1, <1>2, <1>3 DEF Next

\* Between any two steps the locks, the cache, the disk and what each process knows
\* of them agree (TreeInv), when no program uses "..".
THEOREM TreeCorrect == ASSUME NoUp PROVE Spec => []TreeInv
<1>1. TableInv /\ TableInv' /\ TreeInv /\ [Next]_vars => TreeInv'
  BY NextTree
<1> QED
  BY <1>1, InitTree, TablesCorrect, PTL DEF Spec

\* The inode cache is true to the disk: what ilock() has read of an unlocked inode is
\* what the disk has, no inode that a program has open or stands in is freed or given
\* away by iput() and ialloc(), and no link count goes below zero.
THEOREM AlwaysIntact == ASSUME NoUp PROVE Spec => []Intact
<1>1. TableInv /\ TreeInv => Intact
  <2> SUFFICES ASSUME TableInv, TreeInv PROVE Intact
    OBVIOUS
  <2>1. TypeOK
    <3>1. \A k \in Inum : disk[k].nlink \in Nat
      <4> SUFFICES ASSUME NEW k \in Inum PROVE disk[k].nlink \in Nat
        OBVIOUS
      <4>1. Names(disk, k) \in Nat /\ Subs(disk, k) \in Nat /\ Root(k) \in Nat
        BY Finite
      <4> QED
        BY <4>1, Covered
    <3>2. \A s \in Slot : icache[s].nlink \in Nat
      BY DEF TreeInv, CacheInv, TableInv, Caches
    <3>3. disk \in [Inum -> [type : Type, nlink : Nat,
                             entries : [Name \cup {".."} -> Inum \cup {0}]]]
      BY <3>1 DEF TableInv, Disks
    <3>4. icache \in [Slot -> [inum : Inum \cup {0}, ref : Nat, valid : BOOLEAN,
                               type : Type, nlink : Nat, busy : Proc \cup {NoProc}]]
      BY <3>2 DEF TableInv, Caches
    <3> QED
      BY <3>3, <3>4 DEF TypeOK, TableInv, TreeInv, RunInv
  <2>2. CacheAgrees
    <3> SUFFICES ASSUME NEW s \in Slot, icache[s].ref > 0, icache[s].valid,
                        icache[s].busy = NoProc
                 PROVE  /\ icache[s].type = disk[icache[s].inum].type
                        /\ icache[s].nlink = disk[icache[s].inum].nlink
      BY DEF CacheAgrees
    <3> QED
      BY NotKilled, Agreed
  <2>3. OpenSurvives
    <3> SUFFICES ASSUME NEW p \in Proc, NEW s \in {proc[p].file, proc[p].cwd} \ {0}
                 PROVE  disk[icache[s].inum].type # "free"
      BY DEF OpenSurvives
    <3>1. s \in Slot
      BY DEF TableInv, Process, Pointer
    <3>2. Uses(proc[p], s)
      BY DEF Uses
    <3>3. icache[s].ref > 0
      BY <3>1, <3>2, HasLive DEF Live
    <3> QED
      BY <3>1, <3>2, <3>3, NotKilled, Agreed
  <2> QED
    BY <2>1, <2>2, <2>3 DEF Intact
<1> QED
  BY <1>1, TreeCorrect, TablesCorrect, PTL

\* A crash between any two writes leaves a disk that can be booted from: the order in
\* which create(), link and unlink write never has a name lead to a free inode, a link
\* count below the links there are, or a directory with two names.
THEOREM AlwaysCrashSafe == ASSUME NoUp PROVE Spec => []CrashSafe
<1>1. TableInv /\ TreeInv => CrashSafe
  <2> SUFFICES ASSUME TableInv, TreeInv, NEW k \in Inum
               PROVE  /\ NamesOf(disk, k) # {} => disk[k].type # "free"
                      /\ disk[k].nlink >= Cardinality(NamesOf(disk, k))
                           + IF disk[k].type = "dir" THEN Cardinality(SubdirsOf(disk, k)) ELSE 0
                      /\ disk[k].type = "dir" /\ k # ROOTINO =>
                           \A x \in NamesOf(disk, k) :
                             disk[k].entries[".."] = x[1] /\ Cardinality(NamesOf(disk, k)) = 1
    BY DEF CrashSafe
  <2>1. NamesOf(disk, k) # {} => disk[k].type # "free"
    BY DEF TreeInv, Shape
  <2>2. disk[k].nlink >= Cardinality(NamesOf(disk, k))
          + IF disk[k].type = "dir" THEN Cardinality(SubdirsOf(disk, k)) ELSE 0
    <3>1. Names(disk, k) \in Nat /\ Subs(disk, k) \in Nat /\ Root(k) \in Nat
      BY Finite
    <3>2. disk[k].nlink >= Names(disk, k) + Subs(disk, k)
      BY <3>1, Covered
    <3> QED
      BY <3>2 DEF Names, Subs
  <2>3. ASSUME disk[k].type = "dir", k # ROOTINO, NEW x \in NamesOf(disk, k)
        PROVE  disk[k].entries[".."] = x[1] /\ Cardinality(NamesOf(disk, k)) = 1
    <3>1. \A y \in NamesOf(disk, k) : x = y /\ disk[k].entries[".."] = x[1]
      BY <2>3 DEF TreeInv, Shape
    <3>2. NamesOf(disk, k) = {x}
      BY <3>1
    <3> QED
      BY <3>1, <3>2, FS_Singleton
  <2> QED
    BY <2>1, <2>2, <2>3
<1> QED
  BY <1>1, TreeCorrect, TablesCorrect, PTL

\* No two system calls wait for each other's inode locks, however many processes there
\* are, for create() locks only what no other process has and unlink goes from a
\* directory to what is in it; and the kernel does not halt by its own fault in ilock(),
\* iput() or sys_unlink().
THEOREM NeverGetsStuck == ASSUME NoUp PROVE Spec => []NeverStuck
<1>1. TableInv /\ TreeInv => NeverStuck
  <2> SUFFICES ASSUME TableInv, TreeInv PROVE NeverStuck
    OBVIOUS
  <2>1. NoPanic
    BY DEF NoPanic, TreeInv, RunInv
  <2>2. ASSUME NEW p \in Proc, NEW q \in Proc, Wants(p) # 0, Wants(q) # 0,
               icache[Wants(p)].busy = q
        PROVE  /\ At(q, "init") \/ At(q, "child")
               /\ Wants(p) = proc[q].dp /\ Wants(q) = proc[q].ip
               /\ Live(proc[q].dp)
    <3>1. Wants(p) \in Slot
      <4>1. /\ proc[p].dp \in Pointer
            /\ proc[p].pc # "iget" => proc[p].ip \in Pointer
        BY DEF TableInv, Process, CallInv
      <4> QED
        BY <2>2, <4>1 DEF Wants, Pointer
    <3>2. Wants(p) \in Locked(proc[q])
      BY <2>2, <3>1 DEF TreeInv, LockInv
    <3>3. proc[q].puts = <<>> /\ proc[q].iput = "start"
      BY <2>2 DEF Wants, TableInv, CallInv
    <3>4. proc[q].pc \in {"walk", "parent", "found", "init", "child", "open", "chdir", "count",
                          "bad"}
      BY <2>2 DEF Wants
    <3>5. proc[q].pc \in {"init", "child"} /\ Wants(p) = proc[q].dp
      BY <3>2, <3>3, <3>4 DEF Locked
    <3>6. Wants(q) = proc[q].ip
      BY <3>3, <3>5 DEF Wants
    <3>7. Live(proc[q].dp)
      BY <3>1, <3>2, <3>5, HasLive
    <3> QED
      BY <3>3, <3>5, <3>6, <3>7 DEF At
  <2>3. NoLockCycle
    <3> SUFFICES ASSUME NEW p \in Proc, NEW q \in Proc,
                        Wants(p) # 0, icache[Wants(p)].busy = q,
                        Wants(q) # 0, icache[Wants(q)].busy = p
                 PROVE  FALSE
      BY DEF NoLockCycle
    <3>1. /\ At(p, "init") \/ At(p, "child")
          /\ At(q, "init") \/ At(q, "child")
          /\ proc[p].ip = proc[q].dp /\ proc[q].ip = proc[p].dp
          /\ Live(proc[p].dp) /\ Live(proc[q].dp)
      BY <2>2
    <3>2. Uses(proc[p], proc[p].dp) /\ Uses(proc[q], proc[q].dp)
      BY DEF Uses
    <3>3. \A u, w \in Proc : Uses(proc[u], proc[u].dp) /\ Live(proc[u].dp)
                             /\ proc[w].ip = proc[u].dp => ~ At(w, "init")
      BY HasLive DEF TreeInv, RoleInv, Live, At
    <3>4. At(p, "child") /\ At(q, "child")
      BY <3>1, <3>2, <3>3
    <3> DEFINE j == icache[proc[p].dp].inum   k == icache[proc[q].dp].inum
               n == Head(proc[p].path)        m == Head(proc[q].path)
    <3>5. /\ j \in Inum /\ disk[j].type = "dir" /\ n \in Name /\ disk[j].entries[n] = k
      BY <3>1, <3>4, Children
    <3>6. /\ k \in Inum /\ disk[k].type = "dir" /\ m \in Name /\ disk[k].entries[m] = j
      BY <3>1, <3>4, Children
    <3> QED
      BY <3>5, <3>6 DEF TreeInv, Shape
  <2> QED
    BY <2>1, <2>3 DEF NeverStuck
<1> QED
  BY <1>1, TreeCorrect, TablesCorrect, PTL
=============================================================================
