-------------------------- MODULE FileTableProofs --------------------------
(* Theorems about FileTable, for every number of processes, files,         *)
(* descriptors, inodes and pages: a file is counted exactly as often as it *)
(* is referred to, inodes and pipe ends are given back once, and programs  *)
(* have descriptors of open files only.                                    *)
EXTENDS FileTable, FiniteSetTheorems, SequenceTheorems, WellFoundedInduction,
        NaturalsInduction, TLAPS

Good == FileTableAssumption /\ FileInv

-----------------------------------------------------------------------------
(* Sets and sequences *)

LEMMA Constants ==
  ASSUME FileTableAssumption
  PROVE  /\ NFILE \in Nat /\ NFILE > 0 /\ NOFILE \in Nat /\ NOFILE > 0
         /\ 0 \notin Inode /\ 0 \notin Page /\ 0 \notin Proc
         /\ Inode \cap Page = {} /\ IsFiniteSet(Proc)
         /\ File \subseteq Nat /\ 0 \notin File /\ IsFiniteSet(File)
         /\ Fd \subseteq Nat /\ IsFiniteSet(Fd)
         /\ 0 .. NOFILE \subseteq Nat /\ IsFiniteSet(0 .. NOFILE)
         /\ Fd \subseteq 0 .. NOFILE
         /\ {0, 1} \subseteq 0 .. NOFILE
<1>1. /\ NFILE \in Nat /\ NFILE > 0 /\ NOFILE \in Nat /\ NOFILE > 0
      /\ 0 \notin Inode /\ 0 \notin Page /\ 0 \notin Proc
      /\ Inode \cap Page = {} /\ IsFiniteSet(Proc)
  BY DEF FileTableAssumption
<1>2. File \subseteq Nat /\ 0 \notin File /\ IsFiniteSet(File)
  BY <1>1, FS_Interval DEF File
<1>3. Fd \subseteq Nat /\ IsFiniteSet(Fd)
  BY <1>1, FS_Interval DEF Fd
<1>4. /\ 0 .. NOFILE \subseteq Nat /\ IsFiniteSet(0 .. NOFILE)
      /\ Fd \subseteq 0 .. NOFILE
      /\ {0, 1} \subseteq 0 .. NOFILE
  BY <1>1, FS_Interval DEF Fd
<1> QED
  BY <1>1, <1>2, <1>3, <1>4

LEMMA MinIn == ASSUME NEW S \in SUBSET Nat, S # {} PROVE Min(S) \in S
<1>1. PICK x \in S : \A y \in S : ~ (<<y, x>> \in OpToRel(<, Nat))
  BY NatLessThanWellFounded, WFMin
<1>2. ASSUME NEW y \in S PROVE x <= y
  <2>1. ~ (y < x)
    BY <1>1 DEF OpToRel
  <2> QED
    BY <2>1
<1> QED
  BY <1>2 DEF Min

\* Two sets that differ in one element, or in one for another.
Grows(S, T) == \E x : x \notin S /\ T = S \cup {x}
Shrinks(S, T) == \E x \in S : T = S \ {x}
Swaps(S, T) == \E x \in S : \E y : y \notin S /\ T = (S \ {x}) \cup {y}

LEMMA Counting ==
  ASSUME NEW S, IsFiniteSet(S), NEW T
  PROVE  /\ Cardinality(S) \in Nat
         /\ Grows(S, T) => Cardinality(T) = Cardinality(S) + 1
         /\ Shrinks(S, T) => Cardinality(T) = Cardinality(S) - 1
         /\ Swaps(S, T) => Cardinality(T) = Cardinality(S)
<1>1. Cardinality(S) \in Nat
  BY FS_CardinalityType
<1>2. ASSUME Grows(S, T) PROVE Cardinality(T) = Cardinality(S) + 1
  BY <1>2, FS_AddElement DEF Grows
<1>3. ASSUME Shrinks(S, T) PROVE Cardinality(T) = Cardinality(S) - 1
  BY <1>3, FS_RemoveElement DEF Shrinks
<1>4. ASSUME Swaps(S, T) PROVE Cardinality(T) = Cardinality(S)
  <2>0. PICK x \in S : \E y : y \notin S /\ T = (S \ {x}) \cup {y}
    BY <1>4 DEF Swaps
  <2>1. PICK y : y \notin S /\ T = (S \ {x}) \cup {y}
    BY <2>0
  <2>2. IsFiniteSet(S \ {x}) /\ Cardinality(S \ {x}) = Cardinality(S) - 1
    BY FS_RemoveElement
  <2>3. Cardinality(T) = Cardinality(S \ {x}) + 1
    BY <2>1, <2>2, FS_AddElement
  <2> QED
    BY <1>1, <2>2, <2>3
<1> QED
  BY <1>1, <1>2, <1>3, <1>4

LEMMA AtLeastOne ==
  ASSUME NEW S, IsFiniteSet(S), NEW x \in S
  PROVE  Cardinality(S) \in Nat /\ Cardinality(S) >= 1
<1>1. Cardinality(S) \in Nat /\ Cardinality(S) # 0
  BY FS_CardinalityType, FS_EmptySet
<1> QED
  BY <1>1

LEMMA AtLeastTwo ==
  ASSUME NEW S, IsFiniteSet(S), NEW x \in S, NEW y \in S, x # y
  PROVE  Cardinality(S) >= 2
<1>1. Cardinality(S) \in Nat /\ Cardinality(S) >= 1
  BY AtLeastOne
<1>2. Cardinality(S) # 1
  BY FS_Singleton
<1> QED
  BY <1>1, <1>2

\* What is pending in a sequence of at most two files.
FromLast(s, k, f) == k < Len(s) /\ s[Len(s) - k] = f

LEMMA ShortSequences ==
  ASSUME NEW k \in Nat, NEW g, NEW f1, NEW f2
  PROVE  /\ ~ FromLast(<<>>, k, g)
         /\ FromLast(<<f1>>, k, g) <=> k = 0 /\ g = f1
         /\ FromLast(<<f1, f2>>, k, g) <=> (k = 0 /\ g = f2) \/ (k = 1 /\ g = f1)
<1>1. Len(<<>>) = 0 /\ Len(<<f1>>) = 1 /\ Len(<<f1, f2>>) = 2
  OBVIOUS
<1>2. <<f1>>[1] = f1 /\ <<f1, f2>>[1] = f1 /\ <<f1, f2>>[2] = f2
  OBVIOUS
<1>3. ~ FromLast(<<>>, k, g)
  BY <1>1 DEF FromLast
<1>4. FromLast(<<f1>>, k, g) <=> k = 0 /\ g = f1
  BY <1>1, <1>2 DEF FromLast
<1>5. FromLast(<<f1, f2>>, k, g) <=> (k = 0 /\ g = f2) \/ (k = 1 /\ g = f1)
  <2>1. k < 2 <=> k = 0 \/ k = 1
    OBVIOUS
  <2>2. k = 0 => 2 - k = 2
    OBVIOUS
  <2>3. k = 1 => 2 - k = 1
    OBVIOUS
  <2> QED
    BY <1>1, <1>2, <2>1, <2>2, <2>3 DEF FromLast
<1> QED
  BY <1>3, <1>4, <1>5

-----------------------------------------------------------------------------
(* References *)

Places == {"ofile", "rf", "wf", "todo"} \X Proc \X (0 .. NOFILE)

LEMMA PlacesFinite == ASSUME FileTableAssumption PROVE IsFiniteSet(Places)
<1> DEFINE A == {"ofile", "rf", "wf", "todo"}
           B == Proc \X (0 .. NOFILE)
           f == [x \in Places |-> <<x[1], <<x[2], x[3]>>>>]
<1>1. IsFiniteSet(B)
  BY Constants, FS_Product
<1>2. IsFiniteSet(A)
  <2>1. IsFiniteSet({} \cup {"ofile"})
    BY FS_EmptySet, FS_AddElement
  <2>2. IsFiniteSet(({} \cup {"ofile"}) \cup {"rf"})
    BY <2>1, FS_AddElement
  <2>3. IsFiniteSet((({} \cup {"ofile"}) \cup {"rf"}) \cup {"wf"})
    BY <2>2, FS_AddElement
  <2>4. IsFiniteSet(((({} \cup {"ofile"}) \cup {"rf"}) \cup {"wf"}) \cup {"todo"})
    BY <2>3, FS_AddElement
  <2>5. A = ((({} \cup {"ofile"}) \cup {"rf"}) \cup {"wf"}) \cup {"todo"}
    OBVIOUS
  <2> QED
    BY <2>4, <2>5
<1>3. IsFiniteSet(A \X B)
  BY <1>1, <1>2, FS_Product
<1>4. f \in Injection(Places, A \X B)
  <2>1. f \in [Places -> A \X B]
    BY DEF Places
  <2>2. ASSUME NEW x \in Places, NEW y \in Places, f[x] = f[y] PROVE x = y
    BY <2>2 DEF Places
  <2> QED
    BY <2>1, <2>2 DEF Injection, IsInjective
<1> HIDE DEF f, A, B
<1> QED
  BY <1>3, <1>4, FS_Injection

LEMMA ReferencesFinite ==
  ASSUME FileTableAssumption, NEW f
  PROVE  IsFiniteSet(References(f)) /\ Cardinality(References(f)) \in Nat
<1>1. References(f) \in SUBSET Places
  BY DEF References, Places
<1> QED
  BY <1>1, PlacesFinite, FS_Subset, FS_CardinalityType

LEMMA InReferences ==
  ASSUME NEW place \in {"ofile", "rf", "wf", "todo"}, NEW p \in Proc,
         NEW k \in 0 .. NOFILE, NEW f
  PROVE  <<place, p, k>> \in References(f) <=> Refers(place, p, k, f)
  BY DEF References

LEMMA PendingAre ==
  /\ \A q, k, g : Pending(q, k, g) <=> FromLast(todo[q], k, g)
  /\ \A q, k, g : Pending(q, k, g)' <=> FromLast(todo'[q], k, g)
  /\ \A k \in Nat : \A g : ~ FromLast(<<>>, k, g)
  /\ \A k \in Nat : \A g, f1 : FromLast(<<f1>>, k, g) <=> k = 0 /\ g = f1
  /\ \A k \in Nat : \A g, f1, f2 :
       FromLast(<<f1, f2>>, k, g) <=> (k = 0 /\ g = f2) \/ (k = 1 /\ g = f1)
<1>1. \A q, k, g : Pending(q, k, g) <=> FromLast(todo[q], k, g)
  BY DEF Pending, FromLast
<1>2. \A q, k, g : Pending(q, k, g)' <=> FromLast(todo'[q], k, g)
  BY DEF Pending, FromLast
<1> QED
  BY <1>1, <1>2, ShortSequences

LEMMA NothingPending ==
  ASSUME FileTableAssumption, NEW p \in Proc, todo[p] = <<>>
  PROVE  \A k \in 0 .. NOFILE : \A g : ~ Pending(p, k, g)
  BY PendingAre, Constants

\* Each reference counts.
LEMMA Counted ==
  ASSUME Good, NEW f \in File, NEW x \in References(f)
  PROVE  ftable[f].ref >= 1 /\ \A y \in References(f) : y # x => ftable[f].ref >= 2
<1>1. IsFiniteSet(References(f)) /\ ftable[f].ref = Cardinality(References(f))
  BY ReferencesFinite DEF Good, FileInv, RefsExact
<1> QED
  BY <1>1, AtLeastOne, AtLeastTwo

\* A file that is being made is known to the call that makes it only.
Holding(q, f) ==
  \/ pc[q] \in {"fill", "pipe", "kalloc"} /\ local[q].rf = f
  \/ pc[q] = "kalloc" /\ local[q].wf = f

LEMMA HeldFresh ==
  ASSUME Good, NEW q \in Proc, NEW f, Holding(q, f)
  PROVE  /\ f \in File /\ ftable[f].ref = 1 /\ ftable[f].type = "none"
         /\ todo[q] = <<>>
         /\ \A x \in References(f) : x[2] = q /\ x[1] # "todo"
         /\ \A r \in Proc : Holding(r, f) => r = q
<1>1. f \in File /\ ftable[f].ref = 1 /\ ftable[f].type = "none"
  BY DEF Good, FileInv, LocalInv, Holding, Fresh
<1>2. todo[q] = <<>>
  BY DEF Good, FileInv, CallInv, Holding
<1>3. ASSUME NEW r \in Proc, Holding(r, f)
      PROVE  \E x \in References(f) : x[2] = r /\ x[1] # "todo"
  <2>1. CASE pc[r] = "fill" /\ local[r].rf = f
    <3>1. PICK fd \in Fd : ofile[r][fd] = f
      BY <2>1 DEF Good, FileInv, LocalInv
    <3>2. <<"ofile", r, fd>> \in References(f)
      BY <2>1, <3>1, InReferences, Constants DEF Refers, Descriptor, Good
    <3> QED
      BY <3>2
  <2>2. CASE pc[r] \in {"pipe", "kalloc"} /\ local[r].rf = f
    <3>1. <<"rf", r, 0>> \in References(f)
      BY <2>2, InReferences, Constants DEF Refers, Good
    <3> QED
      BY <3>1
  <2>3. CASE pc[r] = "kalloc" /\ local[r].wf = f
    <3>1. <<"wf", r, 0>> \in References(f)
      BY <2>3, InReferences, Constants DEF Refers, Good
    <3> QED
      BY <3>1
  <2> QED
    BY <1>3, <2>1, <2>2, <2>3 DEF Holding
<1>4. PICK x \in References(f) : x[2] = q /\ x[1] # "todo"
  BY <1>3
<1>5. \A y \in References(f) : y = x
  BY <1>1, <1>4, Counted
<1> QED
  BY <1>1, <1>2, <1>3, <1>4, <1>5

\* How a step may change the count of a file and the references to it.
CountStep(f) ==
  \/ ftable'[f].ref = ftable[f].ref /\ References(f)' = References(f)
  \/ ftable'[f].ref = ftable[f].ref + 1 /\ Grows(References(f), References(f)')
  \/ ftable'[f].ref = ftable[f].ref - 1 /\ Shrinks(References(f), References(f)')
  \/ ftable'[f].ref = ftable[f].ref /\ Swaps(References(f), References(f)')

LEMMA RefsStep == ASSUME Good, \A f \in File : CountStep(f) PROVE RefsExact'
<1> SUFFICES ASSUME NEW f \in File
             PROVE  ftable'[f].ref = Cardinality(References(f)')
  BY DEF RefsExact
<1> DEFINE S == References(f)
           T == References(f)'
<1>1. IsFiniteSet(S) /\ ftable[f].ref = Cardinality(S)
  BY ReferencesFinite DEF Good, FileInv, RefsExact
<1>2. CountStep(f)
  OBVIOUS
<1> HIDE DEF S, T
<1> QED
  BY <1>1, <1>2, Counting DEF CountStep, S, T

-----------------------------------------------------------------------------
(* Inodes and ends of pipes *)

Ends == {"file"} \X File \cup {"copy"} \X Proc

FileHolds(f, type, w, obj) ==
  /\ ftable[f].ref > 0 /\ ftable[f].type = type /\ ftable[f].obj = obj
  /\ type = "pipe" => ftable[f].writable = w

CopyHolds(p, type, w, obj) ==
  /\ ff[p].type = type /\ ff[p].obj = obj
  /\ type = "pipe" => ff[p].writable = w

LEMMA HoldersForm ==
  ASSUME NEW type, NEW w, NEW obj
  PROVE  Holders(type, w, obj) =
           {<<"file", f>> : f \in {g \in File : FileHolds(g, type, w, obj)}}
           \cup {<<"copy", p>> : p \in {q \in Proc : CopyHolds(q, type, w, obj)}}
  BY DEF Holders, FileHolds, CopyHolds

LEMMA HoldersFinite ==
  ASSUME FileTableAssumption, NEW type, NEW w, NEW obj
  PROVE  IsFiniteSet(Holders(type, w, obj))
<1>1. IsFiniteSet({"file"} \X File) /\ IsFiniteSet({"copy"} \X Proc)
  BY Constants, FS_Singleton, FS_Product
<1>2. IsFiniteSet(Ends)
  BY <1>1, FS_Union DEF Ends
<1>3. Holders(type, w, obj) \subseteq Ends
  BY HoldersForm DEF Ends
<1> QED
  BY <1>2, <1>3, FS_Subset

\* The calls of open() that have a reference to an inode.
Opening(i) == {p \in Proc : local[p].ip = i}

InodeStep(i) ==
  LET H == Holders("inode", FALSE, i)
      O == Opening(i)
  IN \/ iref'[i] = iref[i] /\ O' = O /\ (H' = H \/ Swaps(H, H'))
     \/ iref'[i] = iref[i] /\ Shrinks(O, O') /\ Grows(H, H')
     \/ iref'[i] = iref[i] + 1 /\ Grows(O, O') /\ H' = H
     \/ iref'[i] = iref[i] - 1 /\ Shrinks(O, O') /\ H' = H
     \/ iref'[i] = iref[i] - 1 /\ O' = O /\ Shrinks(H, H')

EndStep(w, g) ==
  LET H == Holders("pipe", w, g)
      open == IF w THEN writeopen ELSE readopen
  IN \/ (g \in open' <=> g \in open) /\ (H' = H \/ Swaps(H, H'))
     \/ g \notin open /\ g \in open' /\ Grows(H, H')
     \/ g \in open /\ g \notin open' /\ Shrinks(H, H')

LEMMA ObjectsStep ==
  ASSUME Good, \A i \in Inode : InodeStep(i),
         \A w \in BOOLEAN, g \in Page : EndStep(w, g)
  PROVE  /\ ObjectsExact'
         /\ \A i \in Inode : iref'[i] \in Nat
<1>1. ASSUME NEW i \in Inode
      PROVE  /\ iref'[i] = Cardinality(Holders("inode", FALSE, i)')
                           + Cardinality({p \in Proc : local[p].ip = i}')
             /\ iref'[i] \in Nat
  <2> DEFINE H == Holders("inode", FALSE, i)
             O == Opening(i)
             H1 == Holders("inode", FALSE, i)'
             O1 == Opening(i)'
  <2>1. IsFiniteSet(H) /\ IsFiniteSet(O) /\ O1 = {p \in Proc : local[p].ip = i}'
    BY HoldersFinite, Constants, FS_Subset DEF Good, Opening
  <2>2. iref[i] = Cardinality(H) + Cardinality(O)
    BY DEF Good, FileInv, ObjectsExact, Opening
  <2>3. \/ iref'[i] = iref[i] /\ O1 = O /\ (H1 = H \/ Swaps(H, H1))
        \/ iref'[i] = iref[i] /\ Shrinks(O, O1) /\ Grows(H, H1)
        \/ iref'[i] = iref[i] + 1 /\ Grows(O, O1) /\ H1 = H
        \/ iref'[i] = iref[i] - 1 /\ Shrinks(O, O1) /\ H1 = H
        \/ iref'[i] = iref[i] - 1 /\ O1 = O /\ Shrinks(H, H1)
    BY DEF InodeStep
  <2>4. Shrinks(O, O1) => Cardinality(O) >= 1
    BY <2>1, AtLeastOne DEF Shrinks
  <2>5. Shrinks(H, H1) => Cardinality(H) >= 1
    BY <2>1, AtLeastOne DEF Shrinks
  <2> HIDE DEF H, O, H1, O1
  <2>6. /\ Cardinality(H) \in Nat
        /\ Grows(H, H1) => Cardinality(H1) = Cardinality(H) + 1
        /\ Shrinks(H, H1) => Cardinality(H1) = Cardinality(H) - 1
        /\ Swaps(H, H1) => Cardinality(H1) = Cardinality(H)
    BY <2>1, Counting
  <2>7. /\ Cardinality(O) \in Nat
        /\ Grows(O, O1) => Cardinality(O1) = Cardinality(O) + 1
        /\ Shrinks(O, O1) => Cardinality(O1) = Cardinality(O) - 1
    BY <2>1, Counting
  <2>8. iref'[i] = Cardinality(H1) + Cardinality(O1) /\ iref'[i] \in Nat
    BY <2>2, <2>3, <2>4, <2>5, <2>6, <2>7
  <2> QED
    BY <2>1, <2>8 DEF H1
<1>2. ASSUME NEW g \in Page, NEW w \in BOOLEAN
      PROVE  Cardinality(Holders("pipe", w, g)')
               = IF g \in (IF w THEN writeopen' ELSE readopen') THEN 1 ELSE 0
  <2> DEFINE H == Holders("pipe", w, g)
             H1 == Holders("pipe", w, g)'
             open == IF w THEN writeopen ELSE readopen
             open1 == IF w THEN writeopen' ELSE readopen'
  <2>1. IsFiniteSet(H)
    BY HoldersFinite DEF Good
  <2>2. Cardinality(H) = IF g \in open THEN 1 ELSE 0
    BY DEF Good, FileInv, ObjectsExact
  <2>3. \/ (g \in open1 <=> g \in open) /\ (H1 = H \/ Swaps(H, H1))
        \/ g \notin open /\ g \in open1 /\ Grows(H, H1)
        \/ g \in open /\ g \notin open1 /\ Shrinks(H, H1)
    BY DEF EndStep
  <2> HIDE DEF H, H1, open, open1
  <2>4. Cardinality(H1) = IF g \in open1 THEN 1 ELSE 0
    BY <2>1, <2>2, <2>3, Counting
  <2> QED
    BY <2>4 DEF H1, open1
<1> QED
  BY <1>1, <1>2 DEF ObjectsExact

\* A step that leaves alone what files refer to and which of them are open.
Steady ==
  /\ UNCHANGED <<ff, readopen, writeopen>>
  /\ \A f \in File :
       /\ ftable'[f].type = ftable[f].type
       /\ ftable'[f].obj = ftable[f].obj /\ ftable'[f].writable = ftable[f].writable
       /\ ftable[f].type # "none" => (ftable'[f].ref > 0 <=> ftable[f].ref > 0)

LEMMA SteadyHolders ==
  ASSUME Steady
  PROVE  \A type \in {"inode", "pipe"}, w \in BOOLEAN, obj \in Inode \cup Page :
           Holders(type, w, obj)' = Holders(type, w, obj)
<1> SUFFICES ASSUME NEW type \in {"inode", "pipe"}, NEW w \in BOOLEAN,
                    NEW obj \in Inode \cup Page
             PROVE  Holders(type, w, obj)' = Holders(type, w, obj)
  OBVIOUS
<1>1. \A f \in File : FileHolds(f, type, w, obj)' <=> FileHolds(f, type, w, obj)
  BY DEF Steady, FileHolds
<1>2. \A q \in Proc : CopyHolds(q, type, w, obj)' <=> CopyHolds(q, type, w, obj)
  BY DEF Steady, CopyHolds
<1>3. Holders(type, w, obj)' =
        {<<"file", f>> : f \in {g \in File : FileHolds(g, type, w, obj)'}}
        \cup {<<"copy", q>> : q \in {r \in Proc : CopyHolds(r, type, w, obj)'}}
  BY DEF Holders, FileHolds, CopyHolds
<1> QED
  BY <1>1, <1>2, <1>3, HoldersForm

LEMMA SteadyObjects ==
  ASSUME Good, Steady, UNCHANGED iref, \A q \in Proc : local'[q].ip = local[q].ip
  PROVE  ObjectsExact' /\ (\A i \in Inode : iref'[i] \in Nat) /\ KindInv'
<1>1. \A i \in Inode : Opening(i)' = Opening(i)
  BY DEF Opening
<1>2. \A i \in Inode : InodeStep(i)
  BY <1>1, SteadyHolders DEF InodeStep
<1>3. \A w \in BOOLEAN, g \in Page : EndStep(w, g)
  BY SteadyHolders DEF EndStep, Steady
<1>4. KindInv'
  BY DEF Good, FileInv, KindInv, Steady, Closed
<1> QED
  BY <1>2, <1>3, <1>4, ObjectsStep

\* Only the count of one file changes.
FileRecord == [ref : Nat, type : {"none", "inode", "pipe"}, writable : BOOLEAN,
               obj : Inode \cup Page \cup {0}]

SetRef(f, count) ==
  /\ ftable' \in [File -> FileRecord]
  /\ \A g \in File \ {f} : ftable'[g] = ftable[g]
  /\ ftable'[f].ref = count
  /\ ftable'[f].type = ftable[f].type
  /\ ftable'[f].obj = ftable[f].obj /\ ftable'[f].writable = ftable[f].writable

LEMMA RefChange ==
  ASSUME Good, NEW f \in File, NEW count \in Nat, ftable' = [ftable EXCEPT ![f].ref = count]
  PROVE  SetRef(f, count)
<1>1. ftable \in [File -> FileRecord] /\ ftable[f] \in FileRecord
  BY DEF Good, FileInv, TypeOK, FileRecord
<1> DEFINE new == [ftable[f] EXCEPT !.ref = count]
<1>2. /\ new \in FileRecord /\ new.ref = count /\ new.type = ftable[f].type
      /\ new.obj = ftable[f].obj /\ new.writable = ftable[f].writable
  BY <1>1 DEF FileRecord
<1>3. ftable' = [ftable EXCEPT ![f] = new]
  OBVIOUS
<1> HIDE DEF new
<1>4. ftable'[f] = new /\ \A g \in File \ {f} : ftable'[g] = ftable[g]
  BY <1>1, <1>3
<1>5. ftable' \in [File -> FileRecord]
  BY <1>1, <1>2, <1>3
<1> QED
  BY <1>2, <1>4, <1>5 DEF SetRef

LocalRecord == [rf : File \cup {0}, wf : File \cup {0}, ip : Inode \cup {0},
                child : Proc \cup {0}, fd : 0 .. NOFILE]

LEMMA LocalChange ==
  ASSUME Good, NEW p \in Proc
  PROVE  /\ local \in [Proc -> LocalRecord] /\ NoLocal \in LocalRecord
         /\ \A new : local' = [local EXCEPT ![p] = new] =>
              local'[p] = new /\ \A q \in Proc \ {p} : local'[q] = local[q]
         /\ \A new \in LocalRecord :
              local' = [local EXCEPT ![p] = new] => local' \in [Proc -> LocalRecord]
         /\ \A f \in File :
              /\ [local[p] EXCEPT !.rf = f] \in LocalRecord
              /\ [local[p] EXCEPT !.wf = f] \in LocalRecord
         /\ \A i \in Inode :
              local' = [local EXCEPT ![p].ip = i] => local' \in [Proc -> LocalRecord]
<1>1. local \in [Proc -> LocalRecord] /\ local[p] \in LocalRecord
  BY DEF Good, FileInv, TypeOK, LocalRecord
<1>2. NoLocal \in LocalRecord
  BY Constants DEF NoLocal, LocalRecord, Good
<1>3. \A f \in File : /\ [local[p] EXCEPT !.rf = f] \in LocalRecord
                      /\ [local[p] EXCEPT !.wf = f] \in LocalRecord
  BY <1>1 DEF LocalRecord
<1>4. \A i \in Inode : [local[p] EXCEPT !.ip = i] \in LocalRecord
  BY <1>1 DEF LocalRecord
<1> QED
  BY <1>1, <1>2, <1>3, <1>4

-----------------------------------------------------------------------------
(* What the other processes see of a step *)

CallOk(p) ==
  /\ p \notin running => pc[p] = "user" /\ todo[p] = <<>>
  /\ p \notin running /\ ~ Forking(p) => \A fd \in Fd : ofile[p][fd] = 0
  /\ todo[p] # <<>> => pc[p] \in {"user", "put", "exit"}
  /\ Len(todo[p]) <= 2
  /\ local[p].ip # 0 <=> pc[p] \in {"open", "put", "fill"}

LocalOk(p) ==
  /\ pc[p] \in {"fill", "pipe", "kalloc"} => Fresh(local[p].rf)
  /\ pc[p] = "kalloc" => Fresh(local[p].wf)
  /\ pc[p] = "fds" => /\ {local[p].rf, local[p].wf} \subseteq File
                      /\ ftable[local[p].rf].type = "pipe"
                      /\ ftable[local[p].wf].type = "pipe"
  /\ pc[p] \in {"kalloc", "fds"} => local[p].rf # local[p].wf
  /\ pc[p] = "fill" => \E fd \in Fd : ofile[p][fd] = local[p].rf
  /\ pc[p] = "dup" => /\ local[p].rf \in File /\ local[p].fd \in Fd
                      /\ ofile[p][local[p].fd] = local[p].rf
                      /\ \E old \in Fd \ {local[p].fd} : ofile[p][old] = local[p].rf

ForkOk(p) ==
  pc[p] = "fork" =>
    /\ local[p].child \in Proc \ running
    /\ \A q \in Proc \ {p} : pc[q] = "fork" => local[q].child # local[p].child
    /\ \A fd \in Fd : fd >= local[p].fd => ofile[local[p].child][fd] = 0

DescOk(p) ==
  \A fd \in Fd :
    ofile[p][fd] # 0 => \/ ftable[ofile[p][fd]].type # "none"
                        \/ pc[p] = "fill" /\ ofile[p][fd] = local[p].rf

ProcOk(p) == CallOk(p) /\ LocalOk(p) /\ ForkOk(p) /\ DescOk(p)

AllOk == \A p \in Proc : ProcOk(p)

LEMMA ProcForm == CallInv /\ LocalInv /\ DescInv <=> AllOk
<1>1. CallInv <=> \A p \in Proc : CallOk(p)
  BY DEF CallInv, CallOk
<1>2. LocalInv <=> \A p \in Proc : LocalOk(p) /\ ForkOk(p)
  BY DEF LocalInv, LocalOk, ForkOk
<1>3. DescInv <=> \A p \in Proc : DescOk(p)
  BY DEF DescInv, DescOk
<1> QED
  BY <1>1, <1>2, <1>3 DEF ProcOk, AllOk

\* The files that q has descriptors of, or has just made a pipe of.
Uses(q, f) ==
  \/ \E fd \in Fd : ofile[q][fd] = f
  \/ pc[q] = "fds" /\ f \in {local[q].rf, local[q].wf}

\* A step of p alone, which leaves files that others are making as they are, and files
\* that others use open.
Alone(p) ==
  /\ p \in running /\ running' = running
  /\ pc[p] # "fork" /\ pc'[p] # "fork"
  /\ \A q \in Proc \ {p} : /\ pc'[q] = pc[q] /\ todo'[q] = todo[q]
                           /\ local'[q] = local[q] /\ ofile'[q] = ofile[q]
  /\ \A q \in Proc \ {p}, f \in File :
       /\ Holding(q, f) => Fresh(f)'
       /\ Uses(q, f) /\ ftable[f].type # "none" => ftable'[f].type = ftable[f].type

LEMMA OthersOk ==
  ASSUME Good, NEW p \in Proc, Alone(p), NEW q \in Proc \ {p}
  PROVE  ProcOk(q)'
<1>1. ProcOk(q)
  BY ProcForm DEF Good, FileInv, AllOk
<1>2. /\ running' = running /\ running \subseteq Proc
      /\ pc'[q] = pc[q] /\ todo'[q] = todo[q] /\ local'[q] = local[q] /\ ofile'[q] = ofile[q]
  BY DEF Alone, Good, FileInv, TypeOK
<1>3. Forking(q)' <=> Forking(q)
  BY <1>2 DEF Alone, Forking
<1>4. CallOk(q)'
  BY <1>1, <1>2, <1>3 DEF ProcOk, CallOk
<1>5. LocalOk(q)'
  <2>1. LocalOk(q)
    BY <1>1 DEF ProcOk
  <2>2. /\ pc[q] \in {"fill", "pipe", "kalloc"} => Fresh(local[q].rf)'
        /\ pc[q] = "kalloc" => Fresh(local[q].wf)'
    BY <2>1 DEF Alone, Holding, LocalOk, Fresh
  <2>3. pc[q] = "fds" => /\ {local[q].rf, local[q].wf} \subseteq File
                         /\ ftable'[local[q].rf].type = "pipe"
                         /\ ftable'[local[q].wf].type = "pipe"
    BY <2>1 DEF Alone, Uses, LocalOk
  <2> QED
    BY <1>2, <2>1, <2>2, <2>3 DEF LocalOk, Fresh
<1>6. ForkOk(q)'
  <2>1. pc[q] = "fork" => local[q].child # p
    BY <1>1 DEF ProcOk, ForkOk, Alone
  <2>2. pc[q] = "fork" => /\ ofile'[local[q].child] = ofile[local[q].child]
                          /\ local[q].child \in Proc \ running
    BY <1>1, <2>1 DEF ProcOk, ForkOk, Alone
  <2> QED
    BY <1>1, <1>2, <2>2 DEF ProcOk, ForkOk, Alone
<1>7. DescOk(q)'
  <2>1. \A fd \in Fd : ofile[q][fd] # 0 => ofile[q][fd] \in File
    BY DEF Good, FileInv, TypeOK
  <2>2. \A fd \in Fd : ofile[q][fd] # 0 => Uses(q, ofile[q][fd])
    BY DEF Uses
  <2> QED
    BY <1>1, <1>2, <2>1, <2>2 DEF ProcOk, DescOk, Alone
<1> QED
  BY <1>4, <1>5, <1>6, <1>7 DEF ProcOk

\* What is left to show of any step.
LEMMA AnyStep ==
  ASSUME Good, TypeOK', ~ panicked', ObjectsExact', KindInv', FreshIsNone',
         \A q \in Proc : ProcOk(q)', \A f \in File : CountStep(f)
  PROVE  FileInv'
<1>1. AllOk'
  BY DEF AllOk
<1>2. (CallInv /\ LocalInv /\ DescInv)'
  BY <1>1, ProcForm, PTL
<1> QED
  BY <1>2, RefsStep DEF FileInv

\* What is left to show of a step of p alone.
LEMMA AloneStep ==
  ASSUME Good, NEW p \in Proc, Alone(p), TypeOK', ~ panicked', ObjectsExact', KindInv',
         FreshIsNone', ProcOk(p)', \A f \in File : CountStep(f)
  PROVE  FileInv'
<1>1. \A q \in Proc : ProcOk(q)'
  BY OthersOk
<1> QED
  BY <1>1, AnyStep

\* What is left to show of a step of p alone that opens or closes nothing.
LEMMA AloneInv ==
  ASSUME Good, NEW p \in Proc, Alone(p), Steady, UNCHANGED <<iref, panicked>>,
         local'[p].ip = local[p].ip,
         TypeOK', FreshIsNone', ProcOk(p)', \A f \in File : CountStep(f)
  PROVE  FileInv'
<1>1. \A q \in Proc : local'[q].ip = local[q].ip
  BY DEF Alone
<1>2. ObjectsExact' /\ KindInv'
  BY <1>1, SteadyObjects
<1>3. ~ panicked'
  BY DEF Good, FileInv
<1> QED
  BY <1>2, <1>3, AloneStep

\* A step that changes no reference to a file.
LEMMA SameCounts ==
  ASSUME Good, NEW p \in Proc, UNCHANGED <<ofile, todo>>,
         \A g \in File : ftable'[g].ref = ftable[g].ref,
         \A q \in Proc \ {p} : pc'[q] = pc[q] /\ local'[q] = local[q],
         pc[p] \notin {"pipe", "kalloc", "fds", "dup"},
         pc'[p] \notin {"pipe", "kalloc", "fds", "dup"}
  PROVE  \A g \in File : CountStep(g)
<1> TAKE g \in File
<1>1. \A q \in Proc, k \in 0 .. NOFILE :
        /\ Descriptor(q, k, g)' <=> Descriptor(q, k, g)
        /\ Pending(q, k, g)' <=> Pending(q, k, g)
  BY DEF Descriptor, Pending
<1>2. References(g)' = References(g)
  BY <1>1 DEF References, Refers
<1> QED
  BY <1>2 DEF CountStep

\* p gives up its descriptor fd, and will close the file.
GivesUp(p, fd) ==
  /\ pc[p] \in {"user", "exit"} /\ todo[p] = <<>> /\ ofile[p][fd] \in File
  /\ UNCHANGED <<ftable, pc>>
  /\ \A q \in Proc \ {p} : local'[q] = local[q]
  /\ \A q \in Proc : todo'[q] = IF q = p THEN <<ofile[p][fd]>> ELSE todo[q]
  /\ \A q \in Proc, k \in Fd :
       ofile'[q][k] = IF q = p /\ k = fd THEN 0 ELSE ofile[q][k]

LEMMA GivesUpCounts ==
  ASSUME Good, NEW p \in Proc, NEW fd \in Fd, GivesUp(p, fd)
  PROVE  \A g \in File : CountStep(g)
<1> TAKE g \in File
<1> DEFINE f == ofile[p][fd]
           x == <<"ofile", p, fd>>
           y == <<"todo", p, 0>>
<1>1. \A q \in Proc, k \in 0 .. NOFILE :
        Descriptor(q, k, g)' <=> Descriptor(q, k, g) /\ ~ (q = p /\ k = fd)
  BY Constants DEF GivesUp, Descriptor, Good
<1>2. \A q \in Proc, k \in 0 .. NOFILE :
        /\ Pending(q, k, g)' <=> Pending(q, k, g) \/ (q = p /\ k = 0 /\ g = f)
        /\ ~ Pending(p, k, g)
  BY PendingAre, Constants DEF GivesUp, Good
<1>3. References(g)' = IF g = f THEN (References(g) \ {x}) \cup {y} ELSE References(g)
  BY <1>1, <1>2, Constants DEF GivesUp, References, Refers, Good, Descriptor
<1>4. x \in References(f) /\ y \notin References(f)
  <2>1. Refers("ofile", p, fd, f) /\ ~ Refers("todo", p, 0, f)
    BY NothingPending, Constants DEF GivesUp, Refers, Descriptor, Good
  <2> QED
    BY <2>1, InReferences, Constants DEF Good
<1> QED
  BY <1>3, <1>4 DEF GivesUp, CountStep, Swaps

LEMMA HeldFreshOnes ==
  ASSUME Good PROVE \A q \in Proc, f \in File : Holding(q, f) => Fresh(f)
  BY HeldFresh DEF Fresh

-----------------------------------------------------------------------------
(* dup() and close() *)

LEMMA CloseInv == ASSUME Good, NEW p \in Proc, Close(p) PROVE FileInv'
<1>1. PICK fd \in Fd :
        /\ At(p, "user") /\ ofile[p][fd] # 0
        /\ ofile' = [ofile EXCEPT ![p][fd] = 0]
        /\ Return(p, <<ofile[p][fd]>>)
  BY DEF Close
<1> DEFINE f == ofile[p][fd]
<1>2. /\ f \in File /\ p \in running /\ pc[p] = "user" /\ todo[p] = <<>>
      /\ UNCHANGED <<ftable, running, ff, iref, readopen, writeopen, panicked, pc>>
      /\ \A q \in Proc : todo'[q] = IF q = p THEN <<f>> ELSE todo[q]
      /\ \A q \in Proc : local'[q] = IF q = p THEN NoLocal ELSE local[q]
      /\ \A q \in Proc, k \in Fd :
           ofile'[q][k] = IF q = p /\ k = fd THEN 0 ELSE ofile[q][k]
      /\ \A q \in Proc \ {p} : ofile'[q] = ofile[q]
  BY <1>1, Constants DEF Close, At, Return, Become, Objects, Good, FileInv, TypeOK
<1>3. TypeOK'
  BY <1>1, <1>2, Constants DEF Good, FileInv, TypeOK, Return, NoLocal
<1>4. local[p].ip = 0
  BY <1>2 DEF Good, FileInv, CallInv
<1>5. Steady
  BY <1>2 DEF Steady
<1>7. \A g \in File : CountStep(g)
  <2>1. GivesUp(p, fd)
    BY <1>2 DEF GivesUp
  <2> QED
    BY <2>1, GivesUpCounts
<1>8. Alone(p)
  <2>1. \A q \in Proc, h \in File : Holding(q, h) => Fresh(h)
    BY HeldFresh DEF Fresh
  <2> QED
    BY <1>2, <2>1 DEF Alone, Fresh
<1>9. ProcOk(p)'
  <2>1. ProcOk(p)
    BY ProcForm DEF Good, FileInv, AllOk
  <2>2. /\ p \in running' /\ pc'[p] = "user"
        /\ Len(todo'[p]) = 1 /\ local'[p].ip = 0
    BY <1>2 DEF NoLocal
  <2>3. CallOk(p)'
    BY <2>2 DEF CallOk
  <2>4. LocalOk(p)' /\ ForkOk(p)'
    BY <1>2 DEF LocalOk, ForkOk
  <2>5. DescOk(p)'
    BY <1>2, <2>1 DEF ProcOk, DescOk
  <2> QED
    BY <2>3, <2>4, <2>5 DEF ProcOk
<1>10. FreshIsNone'
  BY <1>2 DEF Good, FileInv, FreshIsNone
<1>11. UNCHANGED <<iref, panicked>> /\ local'[p].ip = local[p].ip
  BY <1>2, <1>4 DEF NoLocal
<1> QED
  BY <1>3, <1>5, <1>7, <1>8, <1>9, <1>10, <1>11, AloneInv

LEMMA DupInv == ASSUME Good, NEW p \in Proc, Dup(p) PROVE FileInv'
<1>1. PICK old \in Fd, fd \in FreeFds(ofile[p]) :
        /\ At(p, "user") /\ ofile[p][old] # 0
        /\ ofile' = [ofile EXCEPT ![p][fd] = ofile[p][old]]
        /\ local' = [local EXCEPT ![p] = [NoLocal EXCEPT !.rf = ofile[p][old], !.fd = fd]]
        /\ Become(p, "dup")
  BY DEF Dup
<1> DEFINE f == ofile[p][old]
<1>2. /\ fd \in Fd /\ ofile[p][fd] = 0 /\ fd # old
      /\ f \in File /\ p \in running /\ pc[p] = "user" /\ todo[p] = <<>>
      /\ UNCHANGED <<ftable, running, ff, iref, readopen, writeopen, panicked, todo>>
      /\ \A q \in Proc : pc'[q] = IF q = p THEN "dup" ELSE pc[q]
      /\ \A q \in Proc \ {p} : local'[q] = local[q]
      /\ local'[p].rf = f /\ local'[p].fd = fd /\ local'[p].ip = 0
      /\ \A q \in Proc, k \in Fd :
           ofile'[q][k] = IF q = p /\ k = fd THEN f ELSE ofile[q][k]
      /\ \A q \in Proc \ {p} : ofile'[q] = ofile[q]
  BY <1>1, Constants DEF Dup, At, Become, Objects, FreeFds, Good, FileInv, TypeOK, NoLocal
<1>3. TypeOK'
  BY <1>1, <1>2, Constants DEF Good, FileInv, TypeOK, Become, NoLocal
<1>4. Steady
  BY <1>2 DEF Steady
<1>5. ASSUME NEW g \in File PROVE CountStep(g)
  <2>1. \A q \in Proc, k \in 0 .. NOFILE : Descriptor(q, k, g)' <=> Descriptor(q, k, g)
    BY <1>2, Constants DEF Descriptor, Good
  <2>2. \A q \in Proc, k \in 0 .. NOFILE : Pending(q, k, g)' <=> Pending(q, k, g)
    BY <1>2 DEF Pending
  <2>3. References(g)' = References(g)
    BY <1>2, <2>1, <2>2 DEF References, Refers
  <2> QED
    BY <1>2, <2>3 DEF CountStep
<1>6. Alone(p)
  BY <1>2, HeldFreshOnes DEF Alone, Fresh
<1>7. ProcOk(p)'
  <2>1. ProcOk(p)
    BY ProcForm DEF Good, FileInv, AllOk
  <2>2. CallOk(p)'
    BY <1>2, <2>1 DEF ProcOk, CallOk
  <2>3. LocalOk(p)' /\ ForkOk(p)'
    BY <1>2 DEF LocalOk, ForkOk
  <2>4. DescOk(p)'
    BY <1>2, <2>1 DEF ProcOk, DescOk
  <2> QED
    BY <2>2, <2>3, <2>4 DEF ProcOk
<1>8. FreshIsNone' /\ local[p].ip = 0
  BY <1>2 DEF Good, FileInv, FreshIsNone, CallInv
<1> QED
  BY <1>2, <1>3, <1>4, <1>5, <1>6, <1>7, <1>8, AloneInv

\* A descriptor's file is open, but for one that open() is making.
LEMMA OpenFiles ==
  ASSUME Good, NEW p \in Proc, pc[p] # "fill", NEW fd \in Fd, ofile[p][fd] # 0
  PROVE  LET f == ofile[p][fd] IN
         f \in File /\ ftable[f].type # "none" /\ ftable[f].ref \in Nat /\ ftable[f].ref > 0
<1>1. ofile[p][fd] \in File
  BY DEF Good, FileInv, TypeOK
<1>2. ftable[ofile[p][fd]].type # "none"
  BY DEF Good, FileInv, DescInv
<1>3. ftable[ofile[p][fd]].ref \in Nat /\ ftable[ofile[p][fd]].ref # 0
  BY <1>1, <1>2 DEF Good, FileInv, TypeOK, FreshIsNone
<1> QED
  BY <1>1, <1>2, <1>3

LEMMA DupCountInv == ASSUME Good, NEW p \in Proc, DupCount(p) PROVE FileInv'
<1> DEFINE f == local[p].rf
           fd == local[p].fd
<1>1. /\ p \in running /\ pc[p] = "dup" /\ todo[p] = <<>>
      /\ Filedup(f) /\ Return(p, <<>>)
      /\ UNCHANGED <<ofile, running, ff, iref, readopen, writeopen>>
  BY DEF DupCount, At, Objects
<1>2. PICK old \in Fd \ {fd} : ofile[p][old] = f /\ fd \in Fd /\ ofile[p][fd] = f
  BY <1>1 DEF Good, FileInv, LocalInv
<1>3. /\ f \in File /\ f # 0 /\ ftable[f].type # "none"
      /\ ftable[f].ref \in Nat /\ ftable[f].ref > 0
  <2>1. f # 0
    BY <1>1, Constants DEF Good, FileInv, LocalInv
  <2> QED
    BY <1>1, <1>2, <2>1, OpenFiles
<1>4. ftable' = [ftable EXCEPT ![f].ref = ftable[f].ref + 1] /\ UNCHANGED panicked
  BY <1>1, <1>3 DEF Filedup
<1>5. /\ \A q \in Proc : pc'[q] = IF q = p THEN "user" ELSE pc[q]
      /\ \A q \in Proc \ {p} : local'[q] = local[q]
      /\ local'[p].ip = 0
      /\ todo' = todo
      /\ SetRef(f, ftable[f].ref + 1)
  <2>1. ftable[f].ref + 1 \in Nat
    BY <1>3
  <2>2. SetRef(f, ftable[f].ref + 1)
    BY <1>3, <1>4, <2>1, RefChange
  <2> QED
    BY <1>1, <2>2 DEF Return, Become, NoLocal, Good, FileInv, TypeOK
<1>6. TypeOK'
  BY <1>1, <1>4, <1>5, Constants DEF Good, FileInv, TypeOK, Return, Become, NoLocal, SetRef,
     FileRecord
<1>7. Steady
  BY <1>1, <1>3, <1>5 DEF Steady, SetRef
<1>8. ASSUME NEW g \in File PROVE CountStep(g)
  <2> DEFINE x == <<"ofile", p, fd>>
  <2>1. \A q \in Proc, k \in 0 .. NOFILE :
          Descriptor(q, k, g)' <=> Descriptor(q, k, g) \/ (q = p /\ k = fd /\ g = f)
    BY <1>1, <1>2, <1>5 DEF Descriptor
  <2>2. \A q \in Proc, k \in 0 .. NOFILE : Pending(q, k, g)' <=> Pending(q, k, g)
    BY <1>5 DEF Pending
  <2>3. References(g)' = IF g = f THEN References(g) \cup {x} ELSE References(g)
    BY <1>1, <1>2, <1>5, <2>1, <2>2, Constants DEF References, Refers, Good
  <2>4. x \notin References(f)
    <3>1. ~ Refers("ofile", p, fd, f)
      BY <1>1 DEF Refers, Descriptor
    <3> QED
      BY <1>2, <3>1, InReferences, Constants DEF Good
  <2> QED
    BY <1>5, <2>3, <2>4 DEF CountStep, Grows, SetRef
<1>9. Alone(p)
  <2>1. \A g \in File : ftable'[g].type = ftable[g].type
    BY <1>5 DEF SetRef
  <2>2. \A q \in Proc, g \in File : Holding(q, g) => g # f /\ Fresh(g)'
    BY <1>3, <1>5, HeldFreshOnes DEF Fresh, SetRef
  <2> QED
    BY <1>1, <1>5, <2>1, <2>2 DEF Alone
<1>10. ProcOk(p)'
  <2>1. ProcOk(p)
    BY ProcForm DEF Good, FileInv, AllOk
  <2>2. CallOk(p)'
    BY <1>1, <1>5, <2>1 DEF ProcOk, CallOk
  <2>3. LocalOk(p)' /\ ForkOk(p)'
    BY <1>5 DEF LocalOk, ForkOk
  <2>4. DescOk(p)'
    <3>1. \A g \in File : ftable'[g].type = ftable[g].type
      BY <1>5 DEF SetRef
    <3>2. \A k \in Fd : ofile[p][k] # 0 => ofile[p][k] \in File
      BY DEF Good, FileInv, TypeOK
    <3> QED
      BY <1>1, <2>1, <3>1, <3>2 DEF ProcOk, DescOk
  <2> QED
    BY <2>2, <2>3, <2>4 DEF ProcOk
<1>11. FreshIsNone' /\ local[p].ip = 0
  BY <1>1, <1>3, <1>5 DEF Good, FileInv, FreshIsNone, CallInv, SetRef
<1> QED
  BY <1>1, <1>4, <1>5, <1>6, <1>7, <1>8, <1>9, <1>10, <1>11, AloneInv

-----------------------------------------------------------------------------
(* open() *)

\* filealloc() finds an entry that nothing refers to.
LEMMA FreeFileFacts ==
  ASSUME Good
  PROVE  \/ FreeFile = 0
         \/ /\ FreeFile \in File
            /\ ftable[FreeFile].ref = 0 /\ ftable[FreeFile].type = "none"
            /\ References(FreeFile) = {}
<1> DEFINE S == {f \in File : ftable[f].ref = 0}
<1>1. CASE S = {}
  BY <1>1 DEF FreeFile
<1>2. CASE S # {}
  <2>1. S \in SUBSET Nat
    BY Constants DEF Good
  <2>2. Min(S) \in S
    <3> HIDE DEF S
    <3> QED
      BY <1>2, <2>1, MinIn
  <2>3. FreeFile = Min(S)
    BY <1>2 DEF FreeFile
  <2>4. FreeFile \in File /\ ftable[FreeFile].ref = 0
    BY <2>2, <2>3
  <2>5. ftable[FreeFile].type = "none"
    BY <2>4 DEF Good, FileInv, FreshIsNone
  <2>6. References(FreeFile) = {}
    BY <2>4, ReferencesFinite, FS_EmptySet DEF Good, FileInv, RefsExact
  <2> QED
    BY <2>4, <2>5, <2>6
<1> QED
  BY <1>1, <1>2

\* The entry is counted from now on, and is that of nobody else.
LEMMA FileallocFacts ==
  ASSUME Good, NEW f, f = FreeFile, f # 0, Filealloc(f)
  PROVE  /\ f \in File /\ SetRef(f, 1) /\ References(f) = {} /\ Fresh(f)'
         /\ ftable[f].type = "none" /\ ftable[f].ref = 0
         /\ \A q \in Proc, g \in File : Holding(q, g) => Fresh(g)'
         /\ \A g \in File : ftable'[g].type = ftable[g].type
         /\ FreshIsNone'
         /\ UNCHANGED <<ff, readopen, writeopen>> => Steady
<1>1. /\ f \in File /\ References(f) = {}
      /\ ftable[f].ref = 0 /\ ftable[f].type = "none"
  BY FreeFileFacts
<1>2. SetRef(f, 1)
  BY <1>1, RefChange DEF Filealloc
<1>3. \A g \in File : ftable'[g].type = ftable[g].type
  BY <1>2 DEF SetRef
<1>4. Fresh(f)'
  BY <1>1, <1>2 DEF Fresh, SetRef
<1>5. \A q \in Proc, g \in File : Holding(q, g) => Fresh(g)'
  <2>1. \A g \in File : Fresh(g) => g # f
    BY <1>1 DEF Fresh
  <2> QED
    BY <1>2, <1>3, <2>1, HeldFreshOnes DEF Fresh, SetRef
<1>6. FreshIsNone'
  BY <1>1, <1>2 DEF Good, FileInv, FreshIsNone, SetRef
<1>7. UNCHANGED <<ff, readopen, writeopen>> => Steady
  BY <1>1, <1>2 DEF Steady, SetRef
<1> QED
  BY <1>1, <1>2, <1>3, <1>4, <1>5, <1>6, <1>7

LEMMA OpenInv == ASSUME Good, NEW p \in Proc, Open(p) PROVE FileInv'
<1>1. PICK i \in Inode :
        /\ At(p, "user")
        /\ iref' = [iref EXCEPT ![i] = @ + 1]
        /\ local' = [local EXCEPT ![p].ip = i]
        /\ Become(p, "open")
  BY DEF Open
<1>2. /\ p \in running /\ pc[p] = "user" /\ todo[p] = <<>>
      /\ UNCHANGED <<ftable, ofile, running, todo, ff, readopen, writeopen, panicked>>
      /\ \A q \in Proc : pc'[q] = IF q = p THEN "open" ELSE pc[q]
      /\ \A q \in Proc \ {p} : local'[q] = local[q]
      /\ local'[p].ip = i
      /\ \A j \in Inode : iref'[j] = IF j = i THEN iref[i] + 1 ELSE iref[j]
      /\ i # 0
  BY <1>1, Constants DEF Open, At, Become, Good, FileInv, TypeOK
<1>3. local[p].ip = 0
  BY <1>2 DEF Good, FileInv, CallInv
<1>4. TypeOK'
  <2>1. local' \in [Proc -> LocalRecord]
    BY <1>1, LocalChange
  <2>2. iref' \in [Inode -> Nat]
    BY <1>1 DEF Good, FileInv, TypeOK
  <2> QED
    BY <1>1, <1>2, <2>1, <2>2 DEF Good, FileInv, TypeOK, Become, LocalRecord
<1>5. Steady
  BY <1>2 DEF Steady
<1>6. ObjectsExact' /\ KindInv'
  <2>1. \A j \in Inode : Opening(j)' = IF j = i THEN Opening(j) \cup {p} ELSE Opening(j)
    BY <1>2, <1>3, Constants DEF Opening, Good
  <2>2. p \notin Opening(i)
    BY <1>2, <1>3 DEF Opening
  <2>3. \A j \in Inode : InodeStep(j)
    BY <1>2, <1>5, <2>1, <2>2, SteadyHolders DEF InodeStep, Grows
  <2>4. \A w \in BOOLEAN, g \in Page : EndStep(w, g)
    BY <1>2, <1>5, SteadyHolders DEF EndStep
  <2>5. ObjectsExact'
    BY <2>3, <2>4, ObjectsStep
  <2> QED
    BY <1>2, <2>5 DEF Good, FileInv, KindInv
<1>7. \A g \in File : CountStep(g)
  BY <1>2, SameCounts
<1>8. Alone(p)
  BY <1>2, HeldFreshOnes DEF Alone, Fresh
<1>9. ProcOk(p)'
  <2>1. ProcOk(p)
    BY ProcForm DEF Good, FileInv, AllOk
  <2>2. CallOk(p)'
    BY <1>2, <2>1 DEF ProcOk, CallOk
  <2>3. LocalOk(p)' /\ ForkOk(p)'
    BY <1>2 DEF LocalOk, ForkOk
  <2>4. DescOk(p)'
    BY <1>2, <2>1 DEF ProcOk, DescOk
  <2> QED
    BY <2>2, <2>3, <2>4 DEF ProcOk
<1>10. FreshIsNone' /\ ~ panicked'
  BY <1>2 DEF Good, FileInv, FreshIsNone
<1> QED
  BY <1>4, <1>6, <1>7, <1>8, <1>9, <1>10, AloneStep

LEMMA OpenFailInv == ASSUME Good, NEW p \in Proc, OpenFail(p) PROVE FileInv'
<1> DEFINE i == local[p].ip
<1>1. /\ At(p, "put")
      /\ iref' = [iref EXCEPT ![i] = @ - 1]
      /\ Return(p, <<>>)
      /\ UNCHANGED <<ftable, ofile, running, ff, readopen, writeopen, panicked>>
  BY DEF OpenFail
<1>2. /\ i \in Inode /\ i # 0
      /\ p \in running /\ pc[p] = "put" /\ todo[p] = <<>>
      /\ UNCHANGED todo
      /\ \A q \in Proc : pc'[q] = IF q = p THEN "user" ELSE pc[q]
      /\ \A q \in Proc \ {p} : local'[q] = local[q]
      /\ local'[p].ip = 0
      /\ \A j \in Inode : iref'[j] = IF j = i THEN iref[i] - 1 ELSE iref[j]
  BY <1>1, Constants DEF At, Return, Become, NoLocal, Good, FileInv, TypeOK, CallInv
<1>3. Steady
  BY <1>1 DEF Steady
<1>4. /\ ObjectsExact' /\ KindInv'
      /\ \A j \in Inode : iref'[j] \in Nat
  <2>1. \A j \in Inode : Opening(j)' = IF j = i THEN Opening(j) \ {p} ELSE Opening(j)
    BY <1>2, Constants DEF Opening, Good
  <2>2. p \in Opening(i)
    BY <1>2 DEF Opening
  <2>3. \A j \in Inode : InodeStep(j)
    BY <1>2, <1>3, <2>1, <2>2, SteadyHolders DEF InodeStep, Shrinks
  <2>4. \A w \in BOOLEAN, g \in Page : EndStep(w, g)
    BY <1>1, <1>3, SteadyHolders DEF EndStep
  <2>5. ObjectsExact' /\ \A j \in Inode : iref'[j] \in Nat
    BY <2>3, <2>4, ObjectsStep
  <2> QED
    BY <1>1, <2>5 DEF Good, FileInv, KindInv
<1>5. TypeOK'
  <2>1. iref' \in [Inode -> Nat]
    BY <1>1, <1>2, <1>4 DEF Good, FileInv, TypeOK
  <2> QED
    BY <1>1, <1>2, <2>1, Constants DEF Good, FileInv, TypeOK, Return, Become, NoLocal
<1>6. \A g \in File : CountStep(g)
  BY <1>1, <1>2, SameCounts
<1>7. Alone(p)
  BY <1>1, <1>2, HeldFreshOnes DEF Alone, Fresh
<1>8. ProcOk(p)'
  <2>1. ProcOk(p)
    BY ProcForm DEF Good, FileInv, AllOk
  <2>2. CallOk(p)'
    BY <1>1, <1>2, <2>1 DEF ProcOk, CallOk
  <2>3. LocalOk(p)' /\ ForkOk(p)'
    BY <1>2 DEF LocalOk, ForkOk
  <2>4. DescOk(p)'
    BY <1>1, <1>2, <2>1 DEF ProcOk, DescOk
  <2> QED
    BY <2>2, <2>3, <2>4 DEF ProcOk
<1>9. FreshIsNone' /\ ~ panicked'
  BY <1>1 DEF Good, FileInv, FreshIsNone
<1> QED
  BY <1>4, <1>5, <1>6, <1>7, <1>8, <1>9, AloneStep

LEMMA OpenAllocInv == ASSUME Good, NEW p \in Proc, OpenAlloc(p) PROVE FileInv'
<1> DEFINE fds == FreeFds(ofile[p])
<1>0. PICK f : f = FreeFile
  OBVIOUS
<1>1. /\ p \in running /\ pc[p] = "open" /\ todo[p] = <<>> /\ Filealloc(f)
      /\ UNCHANGED <<running, ff, iref, readopen, writeopen, panicked>>
  BY <1>0 DEF OpenAlloc, At, Objects
<1>2. ProcOk(p)
  BY ProcForm DEF Good, FileInv, AllOk
<1>3. CASE f = 0
  <2>1. /\ UNCHANGED <<ftable, ofile, local, todo>>
        /\ pc' = [pc EXCEPT ![p] = "put"]
        /\ \A q \in Proc : pc'[q] = IF q = p THEN "put" ELSE pc[q]
    BY <1>0, <1>1, <1>3 DEF OpenAlloc, Filealloc, Become, Good, FileInv, TypeOK
  <2>2. TypeOK'
    BY <1>1, <2>1 DEF Good, FileInv, TypeOK
  <2>3. Steady /\ FreshIsNone'
    BY <1>1, <2>1 DEF Steady, Good, FileInv, FreshIsNone
  <2>4. \A g \in File : CountStep(g)
    BY <1>1, <2>1, SameCounts
  <2>5. Alone(p)
    BY <1>1, <2>1, HeldFreshOnes DEF Alone, Fresh
  <2>6. ProcOk(p)'
    <3>1. CallOk(p)'
      BY <1>1, <1>2, <2>1 DEF ProcOk, CallOk
    <3>2. LocalOk(p)' /\ ForkOk(p)'
      BY <2>1 DEF LocalOk, ForkOk
    <3>3. DescOk(p)'
      BY <1>1, <1>2, <2>1 DEF ProcOk, DescOk
    <3> QED
      BY <3>1, <3>2, <3>3 DEF ProcOk
  <2> QED
    BY <1>1, <2>1, <2>2, <2>3, <2>4, <2>5, <2>6, AloneInv
<1>4. CASE f # 0 /\ fds = {}
  <2>1. /\ UNCHANGED <<ofile, local>>
        /\ pc' = [pc EXCEPT ![p] = "put"] /\ todo' = [todo EXCEPT ![p] = <<f>>]
        /\ \A q \in Proc : pc'[q] = IF q = p THEN "put" ELSE pc[q]
        /\ \A q \in Proc : todo'[q] = IF q = p THEN <<f>> ELSE todo[q]
    BY <1>0, <1>1, <1>4 DEF OpenAlloc, Become, Good, FileInv, TypeOK
  <2>2. /\ f \in File /\ SetRef(f, 1) /\ References(f) = {} /\ ftable[f].ref = 0
        /\ \A q \in Proc, g \in File : Holding(q, g) => Fresh(g)'
        /\ \A g \in File : ftable'[g].type = ftable[g].type
        /\ FreshIsNone' /\ Steady
    BY <1>0, <1>1, <1>4, FileallocFacts
  <2>3. TypeOK'
    <3>1. ftable' \in [File -> FileRecord]
      BY <2>2 DEF SetRef
    <3>2. <<f>> \in Seq(File)
      BY <2>2
    <3> QED
      BY <1>1, <2>1, <3>1, <3>2 DEF Good, FileInv, TypeOK, FileRecord
  <2>4. ASSUME NEW g \in File PROVE CountStep(g)
    <3> DEFINE y == <<"todo", p, 0>>
    <3>1. \A q \in Proc, k \in 0 .. NOFILE : Descriptor(q, k, g)' <=> Descriptor(q, k, g)
      BY <1>1, <2>1 DEF Descriptor
    <3>2. \A q \in Proc, k \in 0 .. NOFILE :
            Pending(q, k, g)' <=> Pending(q, k, g) \/ (q = p /\ k = 0 /\ g = f)
      BY <1>1, <2>1, PendingAre, Constants DEF Good
    <3>3. References(g)' = IF g = f THEN References(g) \cup {y} ELSE References(g)
      BY <1>1, <2>1, <3>1, <3>2, Constants DEF References, Refers, Good
    <3>4. g = f => y \notin References(g)
      BY <2>2
    <3>5. g = f => Grows(References(g), References(g)')
      BY <3>3, <3>4 DEF Grows
    <3>6. ftable'[g].ref = IF g = f THEN ftable[g].ref + 1 ELSE ftable[g].ref
      BY <2>2 DEF SetRef
    <3> QED
      BY <3>3, <3>5, <3>6 DEF CountStep
  <2>5. Alone(p)
    BY <1>1, <2>1, <2>2 DEF Alone
  <2>6. ProcOk(p)'
    <3>1. CallOk(p)'
      BY <1>1, <1>2, <2>1 DEF ProcOk, CallOk
    <3>2. LocalOk(p)' /\ ForkOk(p)'
      BY <2>1 DEF LocalOk, ForkOk
    <3>3. DescOk(p)'
      <4>1. \A k \in Fd : ofile[p][k] # 0 => ofile[p][k] \in File
        BY DEF Good, FileInv, TypeOK
      <4> QED
        BY <1>1, <1>2, <2>1, <2>2, <4>1 DEF ProcOk, DescOk
    <3> QED
      BY <3>1, <3>2, <3>3 DEF ProcOk
  <2> QED
    BY <1>1, <2>1, <2>2, <2>3, <2>4, <2>5, <2>6, AloneInv
<1>5. CASE f # 0 /\ fds # {}
  <2>1. PICK fd \in fds :
          /\ ofile' = [ofile EXCEPT ![p][fd] = f]
          /\ local' = [local EXCEPT ![p].rf = f]
          /\ Become(p, "fill") /\ UNCHANGED todo
    BY <1>0, <1>5 DEF OpenAlloc
  <2>2. /\ f \in File /\ SetRef(f, 1) /\ References(f) = {} /\ ftable[f].ref = 0
        /\ Fresh(f)'
        /\ \A q \in Proc, g \in File : Holding(q, g) => Fresh(g)'
        /\ \A g \in File : ftable'[g].type = ftable[g].type
        /\ FreshIsNone' /\ Steady
    BY <1>0, <1>1, <1>5, FileallocFacts
  <2>3. fd \in Fd /\ ofile[p][fd] = 0
    BY <2>1 DEF FreeFds
  <2>4. /\ \A q \in Proc : pc'[q] = IF q = p THEN "fill" ELSE pc[q]
        /\ \A q \in Proc \ {p} : local'[q] = local[q]
        /\ local'[p].rf = f /\ local'[p].ip = local[p].ip
        /\ \A q \in Proc, k \in Fd :
             ofile'[q][k] = IF q = p /\ k = fd THEN f ELSE ofile[q][k]
        /\ \A q \in Proc \ {p} : ofile'[q] = ofile[q]
    <3>1. \A q \in Proc : pc'[q] = IF q = p THEN "fill" ELSE pc[q]
      BY <2>1 DEF Become, Good, FileInv, TypeOK
    <3>2. /\ \A q \in Proc \ {p} : local'[q] = local[q]
          /\ local'[p].rf = f /\ local'[p].ip = local[p].ip
      BY <2>1 DEF Good, FileInv, TypeOK
    <3> QED
      BY <2>1, <2>3, <3>1, <3>2 DEF Good, FileInv, TypeOK
  <2>5. TypeOK'
    <3>1. ftable' \in [File -> FileRecord]
      BY <2>2 DEF SetRef
    <3>2. local' \in [Proc -> LocalRecord]
      <4>1. [local[p] EXCEPT !.rf = f] \in LocalRecord
        BY <2>2, LocalChange
      <4>2. local' = [local EXCEPT ![p] = [local[p] EXCEPT !.rf = f]]
        BY <2>1
      <4> QED
        BY <4>1, <4>2, LocalChange
    <3>3. ofile' \in [Proc -> [Fd -> File \cup {0}]]
      BY <2>1, <2>2, <2>3 DEF Good, FileInv, TypeOK
    <3>4. pc' = [pc EXCEPT ![p] = "fill"]
      BY <2>1 DEF Become
    <3> QED
      BY <1>1, <2>1, <3>1, <3>2, <3>3, <3>4
         DEF Good, FileInv, TypeOK, FileRecord, LocalRecord
  <2>6. ASSUME NEW g \in File PROVE CountStep(g)
    <3> DEFINE x == <<"ofile", p, fd>>
    <3>1. \A q \in Proc, k \in 0 .. NOFILE :
            Descriptor(q, k, g)' <=> Descriptor(q, k, g) \/ (q = p /\ k = fd /\ g = f)
      BY <1>1, <2>3, <2>4, Constants DEF Descriptor, Good
    <3>2. \A q \in Proc, k \in 0 .. NOFILE : Pending(q, k, g)' <=> Pending(q, k, g)
      BY <2>1 DEF Pending
    <3>3. References(g)' = IF g = f THEN References(g) \cup {x} ELSE References(g)
      BY <1>1, <2>3, <2>4, <3>1, <3>2, Constants DEF References, Refers, Good
    <3>4. g = f => x \notin References(g)
      BY <2>2
    <3>5. g = f => Grows(References(g), References(g)')
      BY <3>3, <3>4 DEF Grows
    <3>6. ftable'[g].ref = IF g = f THEN ftable[g].ref + 1 ELSE ftable[g].ref
      BY <2>2 DEF SetRef
    <3> QED
      BY <3>3, <3>5, <3>6 DEF CountStep
  <2>7. Alone(p)
    BY <1>1, <2>1, <2>2, <2>4 DEF Alone
  <2>8. ProcOk(p)'
    <3>1. CallOk(p)'
      BY <1>1, <1>2, <2>1, <2>4 DEF ProcOk, CallOk
    <3>2. LocalOk(p)' /\ ForkOk(p)'
      BY <2>2, <2>3, <2>4 DEF LocalOk, ForkOk
    <3>3. DescOk(p)'
      <4>1. \A k \in Fd : ofile[p][k] # 0 => ofile[p][k] \in File
        BY DEF Good, FileInv, TypeOK
      <4> QED
        BY <1>1, <1>2, <2>2, <2>4, <4>1 DEF ProcOk, DescOk
    <3> QED
      BY <3>1, <3>2, <3>3 DEF ProcOk
  <2> QED
    BY <1>1, <2>2, <2>4, <2>5, <2>6, <2>7, <2>8, AloneInv
<1> QED
  BY <1>3, <1>4, <1>5

LEMMA OpenFillInv == ASSUME Good, NEW p \in Proc, OpenFill(p) PROVE FileInv'
<1>0. PICK f, i : f = local[p].rf /\ i = local[p].ip
  OBVIOUS
<1>1. PICK w \in BOOLEAN :
        /\ f = local[p].rf /\ i = local[p].ip
        /\ ftable' = [ftable EXCEPT ![f] =
                        [@ EXCEPT !.type = "inode", !.obj = i, !.writable = w]]
  BY <1>0 DEF OpenFill
<1>2. /\ p \in running /\ pc[p] = "fill" /\ todo[p] = <<>> /\ Return(p, <<>>)
      /\ UNCHANGED <<ofile, running, ff, iref, readopen, writeopen, panicked>>
  BY DEF OpenFill, At, Objects
<1>3. /\ f \in File /\ ftable[f].ref = 1 /\ ftable[f].type = "none"
      /\ \A q \in Proc \ {p} : ~ Holding(q, f)
  BY <1>1, <1>2, HeldFresh DEF Holding
<1>4. i \in Inode /\ i # 0
  BY <1>1, <1>2, Constants DEF Good, FileInv, TypeOK, CallInv
<1>5. /\ \A q \in Proc : pc'[q] = IF q = p THEN "user" ELSE pc[q]
      /\ \A q \in Proc \ {p} : local'[q] = local[q]
      /\ local'[p].ip = 0
      /\ todo' = todo
  BY <1>2 DEF Return, Become, NoLocal, Good, FileInv, TypeOK
<1>6. /\ ftable' \in [File -> FileRecord]
      /\ \A g \in File \ {f} : ftable'[g] = ftable[g]
      /\ ftable'[f].ref = 1 /\ ftable'[f].type = "inode" /\ ftable'[f].obj = i
  <2>1. ftable \in [File -> FileRecord] /\ ftable[f] \in FileRecord
    BY <1>3 DEF Good, FileInv, TypeOK, FileRecord
  <2> DEFINE new == [ftable[f] EXCEPT !.type = "inode", !.obj = i, !.writable = w]
  <2>2. new \in FileRecord /\ new.ref = 1 /\ new.type = "inode" /\ new.obj = i
    BY <1>3, <1>4, <2>1 DEF FileRecord
  <2>3. ftable' = [ftable EXCEPT ![f] = new]
    BY <1>1
  <2> HIDE DEF new
  <2> QED
    BY <1>3, <2>1, <2>2, <2>3
<1>7. TypeOK'
  BY <1>2, <1>5, <1>6, Constants DEF Good, FileInv, TypeOK, Return, Become, NoLocal, FileRecord
<1>8. /\ \A j \in Inode : InodeStep(j)
      /\ \A v \in BOOLEAN, g \in Page : EndStep(v, g)
  <2>1. ASSUME NEW type \in {"inode", "pipe"}, NEW v \in BOOLEAN, NEW obj \in Inode \cup Page
        PROVE  Holders(type, v, obj)' = IF type = "inode" /\ obj = i
                                        THEN Holders(type, v, obj) \cup {<<"file", f>>}
                                        ELSE Holders(type, v, obj)
    <3>1. \A g \in File : FileHolds(g, type, v, obj)'
                            <=> FileHolds(g, type, v, obj) \/ (g = f /\ type = "inode" /\ obj = i)
      BY <1>3, <1>6 DEF FileHolds
    <3>2. \A q \in Proc : CopyHolds(q, type, v, obj)' <=> CopyHolds(q, type, v, obj)
      BY <1>2 DEF CopyHolds
    <3>3. Holders(type, v, obj)' =
            {<<"file", g>> : g \in {h \in File : FileHolds(h, type, v, obj)'}}
            \cup {<<"copy", q>> : q \in {r \in Proc : CopyHolds(r, type, v, obj)'}}
      BY DEF Holders, FileHolds, CopyHolds
    <3> QED
      BY <1>3, <3>1, <3>2, <3>3, HoldersForm
  <2>2. <<"file", f>> \notin Holders("inode", FALSE, i)
    BY <1>3, HoldersForm DEF FileHolds
  <2>3. \A j \in Inode : Opening(j)' = IF j = i THEN Opening(j) \ {p} ELSE Opening(j)
    BY <1>1, <1>5, Constants DEF Opening, Good
  <2>4. p \in Opening(i)
    BY <1>1 DEF Opening
  <2>5. ASSUME NEW j \in Inode PROVE InodeStep(j)
    <3>1. CASE j = i
      BY <1>2, <2>1, <2>2, <2>3, <2>4, <3>1 DEF InodeStep, Grows, Shrinks
    <3>2. CASE j # i
      BY <1>2, <2>1, <2>3, <3>2 DEF InodeStep
    <3> QED
      BY <3>1, <3>2
  <2>6. \A v \in BOOLEAN, g \in Page : EndStep(v, g)
    BY <1>2, <2>1 DEF EndStep
  <2> QED
    BY <2>5, <2>6
<1>9. ObjectsExact' /\ KindInv'
  <2>1. ObjectsExact'
    BY <1>8, ObjectsStep
  <2> QED
    BY <1>2, <1>4, <1>6, <2>1 DEF Good, FileInv, KindInv, Closed
<1>10. \A g \in File : CountStep(g)
  <2>1. \A g \in File : ftable'[g].ref = ftable[g].ref
    BY <1>3, <1>6
  <2> QED
    BY <1>2, <1>5, <2>1, SameCounts
<1>11. Alone(p)
  <2>1. \A q \in Proc \ {p}, g \in File : Holding(q, g) => Fresh(g)'
    <3>1. \A q \in Proc \ {p}, g \in File : Holding(q, g) => g # f
      BY <1>3
    <3> QED
      BY <1>6, <3>1, HeldFreshOnes DEF Fresh
  <2>2. \A g \in File : ftable[g].type # "none" => ftable'[g].type = ftable[g].type
    BY <1>3, <1>6
  <2> QED
    BY <1>2, <1>5, <2>1, <2>2 DEF Alone
<1>12. ProcOk(p)'
  <2>1. ProcOk(p)
    BY ProcForm DEF Good, FileInv, AllOk
  <2>2. CallOk(p)'
    BY <1>2, <1>5, <2>1 DEF ProcOk, CallOk
  <2>3. LocalOk(p)' /\ ForkOk(p)'
    BY <1>5 DEF LocalOk, ForkOk
  <2>4. DescOk(p)'
    <3>1. \A k \in Fd : ofile[p][k] # 0 => ofile[p][k] \in File
      BY DEF Good, FileInv, TypeOK
    <3> QED
      BY <1>1, <1>2, <1>6, <2>1, <3>1 DEF ProcOk, DescOk
  <2> QED
    BY <2>2, <2>3, <2>4 DEF ProcOk
<1>13. FreshIsNone' /\ ~ panicked'
  BY <1>2, <1>6 DEF Good, FileInv, FreshIsNone
<1> QED
  BY <1>7, <1>9, <1>10, <1>11, <1>12, <1>13, AloneStep

-----------------------------------------------------------------------------
(* pipe() *)

LEMMA PipeBeginInv == ASSUME Good, NEW p \in Proc, PipeBegin(p) PROVE FileInv'
<1>0. PICK f : f = FreeFile
  OBVIOUS
<1>1. /\ p \in running /\ pc[p] = "user" /\ todo[p] = <<>> /\ Filealloc(f)
      /\ UNCHANGED <<ofile, running, ff, iref, readopen, writeopen, panicked>>
  BY <1>0 DEF PipeBegin, At, Objects
<1>2. ProcOk(p) /\ local[p].ip = 0
  BY <1>1, ProcForm DEF Good, FileInv, AllOk, CallInv
<1>3. CASE f = 0
  <2>1. /\ UNCHANGED <<ftable, todo, pc>>
        /\ local' = [local EXCEPT ![p] = NoLocal]
        /\ local'[p].ip = 0 /\ \A q \in Proc \ {p} : local'[q] = local[q]
    <3>1. UNCHANGED ftable /\ Return(p, <<>>)
      BY <1>0, <1>1, <1>3 DEF PipeBegin, Filealloc
    <3>2. UNCHANGED <<todo, pc>>
      BY <1>1, <3>1 DEF Return, Become, Good, FileInv, TypeOK
    <3>3. local' = [local EXCEPT ![p] = NoLocal] /\ NoLocal.ip = 0
      BY <3>1 DEF Return, NoLocal
    <3>4. local'[p] = NoLocal /\ \A q \in Proc \ {p} : local'[q] = local[q]
      BY <3>3, LocalChange
    <3> QED
      BY <3>1, <3>2, <3>3, <3>4
  <2>2. TypeOK'
    BY <1>1, <2>1, Constants DEF Good, FileInv, TypeOK, NoLocal
  <2>3. Steady /\ FreshIsNone'
    BY <1>1, <2>1 DEF Steady, Good, FileInv, FreshIsNone
  <2>4. \A g \in File : CountStep(g)
    BY <1>1, <2>1, SameCounts
  <2>5. Alone(p)
    BY <1>1, <2>1, HeldFreshOnes DEF Alone, Fresh
  <2>6. ProcOk(p)'
    <3>1. CallOk(p)'
      BY <1>1, <1>2, <2>1 DEF ProcOk, CallOk
    <3>2. LocalOk(p)' /\ ForkOk(p)'
      BY <1>1, <2>1 DEF LocalOk, ForkOk
    <3>3. DescOk(p)'
      BY <1>1, <1>2, <2>1 DEF ProcOk, DescOk
    <3> QED
      BY <3>1, <3>2, <3>3 DEF ProcOk
  <2> QED
    BY <1>1, <1>2, <2>1, <2>2, <2>3, <2>4, <2>5, <2>6, AloneInv
<1>4. CASE f # 0
  <2>1. /\ UNCHANGED todo
        /\ pc' = [pc EXCEPT ![p] = "pipe"] /\ local' = [local EXCEPT ![p].rf = f]
        /\ \A q \in Proc : pc'[q] = IF q = p THEN "pipe" ELSE pc[q]
        /\ \A q \in Proc \ {p} : local'[q] = local[q]
        /\ local'[p].rf = f /\ local'[p].ip = 0
    BY <1>0, <1>1, <1>2, <1>4 DEF PipeBegin, Become, Good, FileInv, TypeOK
  <2>2. /\ f \in File /\ SetRef(f, 1) /\ References(f) = {} /\ ftable[f].ref = 0
        /\ Fresh(f)'
        /\ \A q \in Proc, g \in File : Holding(q, g) => Fresh(g)'
        /\ \A g \in File : ftable'[g].type = ftable[g].type
        /\ FreshIsNone' /\ Steady
    BY <1>0, <1>1, <1>4, FileallocFacts
  <2>3. TypeOK'
    <3>1. ftable' \in [File -> FileRecord]
      BY <2>2 DEF SetRef
    <3>2. local' \in [Proc -> LocalRecord]
      <4>1. [local[p] EXCEPT !.rf = f] \in LocalRecord
        BY <2>2, LocalChange
      <4>2. local' = [local EXCEPT ![p] = [local[p] EXCEPT !.rf = f]]
        BY <2>1
      <4> QED
        BY <4>1, <4>2, LocalChange
    <3> QED
      BY <1>1, <2>1, <3>1, <3>2 DEF Good, FileInv, TypeOK, FileRecord, LocalRecord
  <2>4. ASSUME NEW g \in File PROVE CountStep(g)
    <3> DEFINE x == <<"rf", p, 0>>
    <3>1. \A q \in Proc, k \in 0 .. NOFILE : Descriptor(q, k, g)' <=> Descriptor(q, k, g)
      BY <1>1, <2>1 DEF Descriptor
    <3>2. \A q \in Proc, k \in 0 .. NOFILE : Pending(q, k, g)' <=> Pending(q, k, g)
      BY <2>1 DEF Pending
    <3>3. References(g)' = IF g = f THEN References(g) \cup {x} ELSE References(g)
      BY <1>1, <2>1, <3>1, <3>2, Constants DEF References, Refers, Good
    <3>4. g = f => x \notin References(g)
      BY <2>2
    <3>5. g = f => Grows(References(g), References(g)')
      BY <3>3, <3>4 DEF Grows
    <3>6. ftable'[g].ref = IF g = f THEN ftable[g].ref + 1 ELSE ftable[g].ref
      BY <2>2 DEF SetRef
    <3> QED
      BY <3>3, <3>5, <3>6 DEF CountStep
  <2>5. Alone(p)
    BY <1>1, <2>1, <2>2 DEF Alone
  <2>6. ProcOk(p)'
    <3>1. CallOk(p)'
      BY <1>1, <1>2, <2>1 DEF ProcOk, CallOk
    <3>2. LocalOk(p)' /\ ForkOk(p)'
      BY <2>1, <2>2 DEF LocalOk, ForkOk
    <3>3. DescOk(p)'
      <4>1. \A k \in Fd : ofile[p][k] # 0 => ofile[p][k] \in File
        BY DEF Good, FileInv, TypeOK
      <4> QED
        BY <1>1, <1>2, <2>1, <2>2, <4>1 DEF ProcOk, DescOk
    <3> QED
      BY <3>1, <3>2, <3>3 DEF ProcOk
  <2> QED
    BY <1>1, <1>2, <2>1, <2>2, <2>3, <2>4, <2>5, <2>6, AloneInv
<1> QED
  BY <1>3, <1>4

LEMMA PipeSecondInv == ASSUME Good, NEW p \in Proc, PipeSecond(p) PROVE FileInv'
<1>0. PICK f, rf : f = FreeFile /\ rf = local[p].rf
  OBVIOUS
<1>1. /\ p \in running /\ pc[p] = "pipe" /\ todo[p] = <<>> /\ Filealloc(f)
      /\ UNCHANGED <<ofile, running, ff, iref, readopen, writeopen, panicked>>
  BY <1>0 DEF PipeSecond, At, Objects
<1>2. ProcOk(p) /\ local[p].ip = 0
  BY <1>1, ProcForm DEF Good, FileInv, AllOk, CallInv
<1>3. rf \in File /\ ftable[rf].ref = 1 /\ Holding(p, rf)
  BY <1>0, <1>1, HeldFresh DEF Holding
<1>4. CASE f = 0
  <2>1. /\ UNCHANGED ftable
        /\ pc' = [pc EXCEPT ![p] = "user"] /\ todo' = [todo EXCEPT ![p] = <<rf>>]
        /\ local' = [local EXCEPT ![p] = NoLocal]
        /\ local'[p].ip = 0 /\ \A q \in Proc \ {p} : local'[q] = local[q]
        /\ \A q \in Proc : pc'[q] = IF q = p THEN "user" ELSE pc[q]
        /\ \A q \in Proc : todo'[q] = IF q = p THEN <<rf>> ELSE todo[q]
    BY <1>0, <1>1, <1>4
       DEF PipeSecond, Filealloc, Return, Become, NoLocal, Good, FileInv, TypeOK
  <2>2. TypeOK'
    <3>1. <<rf>> \in Seq(File)
      BY <1>3
    <3> QED
      BY <1>1, <2>1, <3>1, Constants DEF Good, FileInv, TypeOK, NoLocal
  <2>3. Steady /\ FreshIsNone'
    BY <1>1, <2>1 DEF Steady, Good, FileInv, FreshIsNone
  <2>4. ASSUME NEW g \in File PROVE CountStep(g)
    <3> DEFINE x == <<"rf", p, 0>>
               y == <<"todo", p, 0>>
    <3>1. \A q \in Proc, k \in 0 .. NOFILE : Descriptor(q, k, g)' <=> Descriptor(q, k, g)
      BY <1>1, <2>1 DEF Descriptor
    <3>2. \A q \in Proc, k \in 0 .. NOFILE :
            /\ Pending(q, k, g)' <=> Pending(q, k, g) \/ (q = p /\ k = 0 /\ g = rf)
            /\ ~ Pending(p, k, g)
      BY <1>1, <2>1, PendingAre, Constants DEF Good
    <3>3. References(g)' = IF g = rf THEN (References(g) \ {x}) \cup {y} ELSE References(g)
      BY <1>0, <1>1, <2>1, <3>1, <3>2, Constants DEF References, Refers, Good
    <3>4. x \in References(rf)
      BY <1>0, <1>1, InReferences, Constants DEF Refers, Good
    <3>5. y \notin References(g)
      BY <3>2, InReferences, Constants DEF Refers, Good
    <3>6. g = rf => Swaps(References(g), References(g)')
      BY <3>3, <3>4, <3>5 DEF Swaps
    <3> QED
      BY <2>1, <3>3, <3>6 DEF CountStep
  <2>5. Alone(p)
    BY <1>1, <2>1, HeldFreshOnes DEF Alone, Fresh
  <2>6. ProcOk(p)'
    <3>1. CallOk(p)'
      BY <1>1, <1>2, <2>1 DEF ProcOk, CallOk
    <3>2. LocalOk(p)' /\ ForkOk(p)'
      BY <1>1, <2>1 DEF LocalOk, ForkOk
    <3>3. DescOk(p)'
      BY <1>1, <1>2, <2>1 DEF ProcOk, DescOk
    <3> QED
      BY <3>1, <3>2, <3>3 DEF ProcOk
  <2> QED
    BY <1>1, <1>2, <2>1, <2>2, <2>3, <2>4, <2>5, <2>6, AloneInv
<1>5. CASE f # 0
  <2>1. /\ UNCHANGED todo
        /\ pc' = [pc EXCEPT ![p] = "kalloc"] /\ local' = [local EXCEPT ![p].wf = f]
        /\ \A q \in Proc : pc'[q] = IF q = p THEN "kalloc" ELSE pc[q]
        /\ \A q \in Proc \ {p} : local'[q] = local[q]
        /\ local'[p].rf = rf /\ local'[p].wf = f /\ local'[p].ip = 0
    BY <1>0, <1>1, <1>2, <1>5 DEF PipeSecond, Become, Good, FileInv, TypeOK
  <2>2. /\ f \in File /\ SetRef(f, 1) /\ References(f) = {} /\ ftable[f].ref = 0
        /\ Fresh(f)'
        /\ \A q \in Proc, g \in File : Holding(q, g) => Fresh(g)'
        /\ \A g \in File : ftable'[g].type = ftable[g].type
        /\ FreshIsNone' /\ Steady
    BY <1>0, <1>1, <1>5, FileallocFacts
  <2>3. TypeOK'
    <3>1. ftable' \in [File -> FileRecord]
      BY <2>2 DEF SetRef
    <3>2. local' \in [Proc -> LocalRecord]
      <4>1. [local[p] EXCEPT !.wf = f] \in LocalRecord
        BY <2>2, LocalChange
      <4>2. local' = [local EXCEPT ![p] = [local[p] EXCEPT !.wf = f]]
        BY <2>1
      <4> QED
        BY <4>1, <4>2, LocalChange
    <3> QED
      BY <1>1, <2>1, <3>1, <3>2 DEF Good, FileInv, TypeOK, FileRecord, LocalRecord
  <2>4. ASSUME NEW g \in File PROVE CountStep(g)
    <3> DEFINE x == <<"wf", p, 0>>
    <3>1. \A q \in Proc, k \in 0 .. NOFILE : Descriptor(q, k, g)' <=> Descriptor(q, k, g)
      BY <1>1, <2>1 DEF Descriptor
    <3>2. \A q \in Proc, k \in 0 .. NOFILE : Pending(q, k, g)' <=> Pending(q, k, g)
      BY <2>1 DEF Pending
    <3>3. References(g)' = IF g = f THEN References(g) \cup {x} ELSE References(g)
      BY <1>0, <1>1, <2>1, <3>1, <3>2, Constants DEF References, Refers, Good
    <3>4. g = f => x \notin References(g)
      BY <2>2
    <3>5. g = f => Grows(References(g), References(g)')
      BY <3>3, <3>4 DEF Grows
    <3>6. ftable'[g].ref = IF g = f THEN ftable[g].ref + 1 ELSE ftable[g].ref
      BY <2>2 DEF SetRef
    <3> QED
      BY <3>3, <3>5, <3>6 DEF CountStep
  <2>5. Alone(p)
    BY <1>1, <2>1, <2>2 DEF Alone
  <2>6. ProcOk(p)'
    <3>1. CallOk(p)'
      BY <1>1, <1>2, <2>1 DEF ProcOk, CallOk
    <3>2. Fresh(rf)' /\ rf # f
      BY <1>3, <2>2
    <3>3. LocalOk(p)' /\ ForkOk(p)'
      BY <2>1, <2>2, <3>2 DEF LocalOk, ForkOk
    <3>4. DescOk(p)'
      <4>1. \A k \in Fd : ofile[p][k] # 0 => ofile[p][k] \in File
        BY DEF Good, FileInv, TypeOK
      <4> QED
        BY <1>1, <1>2, <2>1, <2>2, <4>1 DEF ProcOk, DescOk
    <3> QED
      BY <3>1, <3>3, <3>4 DEF ProcOk
  <2> QED
    BY <1>1, <1>2, <2>1, <2>2, <2>3, <2>4, <2>5, <2>6, AloneInv
<1> QED
  BY <1>4, <1>5

\* pipe() fails with both files: it closes them.
LEMMA GiveBack ==
  ASSUME Good, NEW p \in Proc, NEW rf, NEW wf, rf = local[p].rf, wf = local[p].wf,
         p \in running, pc[p] \in {"kalloc", "fds"}, todo[p] = <<>>,
         UNCHANGED <<ftable, ofile, running, ff, iref, readopen, writeopen, panicked>>,
         Return(p, <<rf, wf>>)
  PROVE  FileInv'
<1>1. ProcOk(p) /\ local[p].ip = 0
  BY ProcForm DEF Good, FileInv, AllOk, CallInv
<1>2. rf \in File /\ wf \in File /\ rf # wf
  BY <1>1 DEF ProcOk, LocalOk, Fresh
<1>3. /\ pc' = [pc EXCEPT ![p] = "user"] /\ todo' = [todo EXCEPT ![p] = <<rf, wf>>]
      /\ local' = [local EXCEPT ![p] = NoLocal]
      /\ local'[p].ip = 0 /\ \A q \in Proc \ {p} : local'[q] = local[q]
      /\ \A q \in Proc : pc'[q] = IF q = p THEN "user" ELSE pc[q]
      /\ \A q \in Proc : todo'[q] = IF q = p THEN <<rf, wf>> ELSE todo[q]
  BY DEF Return, Become, NoLocal, Good, FileInv, TypeOK
<1>4. TypeOK'
  <2>1. <<rf, wf>> \in Seq(File)
    BY <1>2
  <2> QED
    BY <1>3, <2>1, Constants DEF Good, FileInv, TypeOK, NoLocal
<1>5. Steady /\ FreshIsNone'
  BY DEF Steady, Good, FileInv, FreshIsNone
<1>6. ASSUME NEW g \in File PROVE CountStep(g)
  <2> DEFINE x0 == <<"wf", p, 0>>
             y0 == <<"todo", p, 0>>
             x1 == <<"rf", p, 0>>
             y1 == <<"todo", p, 1>>
  <2>1. \A q \in Proc, k \in 0 .. NOFILE : Descriptor(q, k, g)' <=> Descriptor(q, k, g)
    BY <1>3 DEF Descriptor
  <2>2. \A q \in Proc, k \in 0 .. NOFILE :
          /\ Pending(q, k, g)' <=> \/ Pending(q, k, g)
                                   \/ q = p /\ k = 0 /\ g = wf
                                   \/ q = p /\ k = 1 /\ g = rf
          /\ ~ Pending(p, k, g)
    BY <1>3, PendingAre, Constants DEF Good
  <2>3. References(g)' = IF g = rf THEN (References(g) \ {x1}) \cup {y1}
                         ELSE IF g = wf THEN (References(g) \ {x0}) \cup {y0}
                         ELSE References(g)
    BY <1>2, <1>3, <2>1, <2>2, Constants DEF References, Refers, Good
  <2>4. x1 \in References(rf) /\ x0 \in References(wf)
    BY InReferences, Constants DEF Refers, Good
  <2>5. y0 \notin References(g) /\ y1 \notin References(g)
    BY <2>2, InReferences, Constants DEF Refers, Good
  <2>6. g \in {rf, wf} => Swaps(References(g), References(g)')
    BY <1>2, <2>3, <2>4, <2>5 DEF Swaps
  <2> QED
    BY <2>3, <2>6 DEF CountStep
<1>7. Alone(p)
  BY <1>3, HeldFreshOnes DEF Alone, Fresh
<1>8. ProcOk(p)'
  <2>1. CallOk(p)'
    BY <1>1, <1>3 DEF ProcOk, CallOk
  <2>2. LocalOk(p)' /\ ForkOk(p)'
    BY <1>3 DEF LocalOk, ForkOk
  <2>3. DescOk(p)'
    BY <1>1, <1>3 DEF ProcOk, DescOk
  <2> QED
    BY <2>1, <2>2, <2>3 DEF ProcOk
<1> QED
  BY <1>1, <1>3, <1>4, <1>5, <1>6, <1>7, <1>8, AloneInv

LEMMA PipeMakeInv == ASSUME Good, NEW p \in Proc, PipeMake(p) PROVE FileInv'
<1>0. PICK rf, wf : rf = local[p].rf /\ wf = local[p].wf
  OBVIOUS
<1> DEFINE end(w, page) == [ref |-> 1, type |-> "pipe", writable |-> w, obj |-> page]
<1>1. /\ p \in running /\ pc[p] = "kalloc" /\ todo[p] = <<>>
      /\ UNCHANGED <<ofile, running, ff, iref, panicked>>
  BY DEF PipeMake, At
<1>2. /\ rf \in File /\ ftable[rf].ref = 1 /\ ftable[rf].type = "none"
      /\ \A q \in Proc \ {p} : ~ Holding(q, rf)
  BY <1>0, <1>1, HeldFresh DEF Holding
<1>3. /\ wf \in File /\ ftable[wf].ref = 1 /\ ftable[wf].type = "none"
      /\ \A q \in Proc \ {p} : ~ Holding(q, wf)
  BY <1>0, <1>1, HeldFresh DEF Holding
<1>4. ProcOk(p) /\ local[p].ip = 0 /\ rf # wf
  BY <1>0, <1>1, ProcForm DEF Good, FileInv, AllOk, CallInv, LocalInv
<1>5. CASE Return(p, <<rf, wf>>) /\ UNCHANGED <<ftable, readopen, writeopen>>
  BY <1>0, <1>1, <1>5, GiveBack
<1>6. CASE \E page \in Page \ (readopen \cup writeopen) :
             /\ readopen' = readopen \cup {page}
             /\ writeopen' = writeopen \cup {page}
             /\ ftable' = [ftable EXCEPT ![rf] = end(FALSE, page), ![wf] = end(TRUE, page)]
             /\ Become(p, "fds")
             /\ UNCHANGED <<local, todo>>
  <2>1. PICK page \in Page \ (readopen \cup writeopen) :
             /\ readopen' = readopen \cup {page}
             /\ writeopen' = writeopen \cup {page}
             /\ ftable' = [ftable EXCEPT ![rf] = end(FALSE, page), ![wf] = end(TRUE, page)]
             /\ Become(p, "fds")
             /\ UNCHANGED <<local, todo>>
    BY <1>6
  <2>2. /\ ftable' \in [File -> FileRecord]
        /\ \A g \in File \ {rf, wf} : ftable'[g] = ftable[g]
        /\ ftable'[rf] = end(FALSE, page) /\ ftable'[wf] = end(TRUE, page)
    <3>1. ftable \in [File -> FileRecord]
      BY DEF Good, FileInv, TypeOK, FileRecord
    <3>2. end(FALSE, page) \in FileRecord /\ end(TRUE, page) \in FileRecord
      BY DEF FileRecord
    <3> HIDE DEF end
    <3> QED
      BY <1>2, <1>3, <1>4, <2>1, <3>1, <3>2
  <2>3. /\ \A g \in File : ftable'[g].ref = ftable[g].ref
        /\ \A g \in File \ {rf, wf} : ftable'[g].type = ftable[g].type
        /\ \A g \in File : ftable'[g].type = "none" => ftable[g].type = "none"
    BY <1>2, <1>3, <2>2
  <2>4. /\ pc' = [pc EXCEPT ![p] = "fds"]
        /\ \A q \in Proc : pc'[q] = IF q = p THEN "fds" ELSE pc[q]
        /\ UNCHANGED <<local, todo>>
    BY <2>1 DEF Become, Good, FileInv, TypeOK
  <2>5. TypeOK'
    BY <1>1, <2>1, <2>2, <2>4 DEF Good, FileInv, TypeOK, FileRecord
  <2>6. /\ \A j \in Inode : InodeStep(j)
        /\ \A v \in BOOLEAN, g \in Page : EndStep(v, g)
    <3>1. ASSUME NEW type \in {"inode", "pipe"}, NEW v \in BOOLEAN,
                 NEW obj \in Inode \cup Page
          PROVE  Holders(type, v, obj)' =
                   IF type = "pipe" /\ obj = page
                   THEN Holders(type, v, obj) \cup {<<"file", IF v THEN wf ELSE rf>>}
                   ELSE Holders(type, v, obj)
      <4>1. \A g \in File : FileHolds(g, type, v, obj)'
              <=> \/ FileHolds(g, type, v, obj)
                  \/ g = (IF v THEN wf ELSE rf) /\ type = "pipe" /\ obj = page
        <5> TAKE g \in File
        <5>1. CASE g \notin {rf, wf}
          BY <2>2, <5>1 DEF FileHolds
        <5>2. CASE g = rf
          <6>1. /\ ftable'[g].ref > 0 /\ ftable'[g].type = "pipe"
                /\ ftable'[g].obj = page /\ ftable'[g].writable = FALSE
            BY <2>2, <5>2
          <6>2. FileHolds(g, type, v, obj)' <=> type = "pipe" /\ obj = page /\ v = FALSE
            BY <6>1 DEF FileHolds
          <6>3. ~ FileHolds(g, type, v, obj)
            BY <1>2, <5>2 DEF FileHolds
          <6>4. g = (IF v THEN wf ELSE rf) <=> v = FALSE
            BY <1>4, <5>2
          <6> QED
            BY <6>2, <6>3, <6>4
        <5>3. CASE g = wf
          <6>1. /\ ftable'[g].ref > 0 /\ ftable'[g].type = "pipe"
                /\ ftable'[g].obj = page /\ ftable'[g].writable = TRUE
            BY <2>2, <5>3
          <6>2. FileHolds(g, type, v, obj)' <=> type = "pipe" /\ obj = page /\ v = TRUE
            BY <6>1 DEF FileHolds
          <6>3. ~ FileHolds(g, type, v, obj)
            BY <1>3, <5>3 DEF FileHolds
          <6>4. g = (IF v THEN wf ELSE rf) <=> v = TRUE
            BY <1>4, <5>3
          <6> QED
            BY <6>2, <6>3, <6>4
        <5> QED
          BY <5>1, <5>2, <5>3
      <4>2. \A q \in Proc : CopyHolds(q, type, v, obj)' <=> CopyHolds(q, type, v, obj)
        BY <1>1 DEF CopyHolds
      <4>3. Holders(type, v, obj)' =
              {<<"file", g>> : g \in {h \in File : FileHolds(h, type, v, obj)'}}
              \cup {<<"copy", q>> : q \in {r \in Proc : CopyHolds(r, type, v, obj)'}}
        BY DEF Holders, FileHolds, CopyHolds
      <4> QED
        BY <1>2, <1>3, <4>1, <4>2, <4>3, HoldersForm
    <3>2. \A v \in BOOLEAN : <<"file", IF v THEN wf ELSE rf>> \notin Holders("pipe", v, page)
      BY <1>2, <1>3, HoldersForm DEF FileHolds
    <3>3. \A j \in Inode : InodeStep(j)
      BY <1>1, <2>1, <3>1 DEF InodeStep, Opening
    <3>4. ASSUME NEW v \in BOOLEAN, NEW g \in Page PROVE EndStep(v, g)
      <4>1. CASE g = page
        BY <2>1, <3>1, <3>2, <4>1 DEF EndStep, Grows
      <4>2. CASE g # page
        BY <2>1, <3>1, <4>2 DEF EndStep
      <4> QED
        BY <4>1, <4>2
    <3> QED
      BY <3>3, <3>4
  <2>7. ObjectsExact' /\ KindInv'
    <3>1. ObjectsExact'
      BY <2>6, ObjectsStep
    <3> QED
      BY <1>1, <2>2, <3>1 DEF Good, FileInv, KindInv, Closed
  <2>8. ASSUME NEW g \in File PROVE CountStep(g)
    <3>1. \A q \in Proc, k \in 0 .. NOFILE : Descriptor(q, k, g)' <=> Descriptor(q, k, g)
      BY <1>1, <2>4 DEF Descriptor
    <3>2. \A q \in Proc, k \in 0 .. NOFILE : Pending(q, k, g)' <=> Pending(q, k, g)
      BY <2>4 DEF Pending
    <3>3. References(g)' = References(g)
      BY <1>1, <2>4, <3>1, <3>2 DEF References, Refers
    <3> QED
      BY <2>3, <3>3 DEF CountStep
  <2>9. Alone(p)
    <3>1. \A q \in Proc \ {p}, g \in File : Holding(q, g) => Fresh(g)'
      <4>1. \A q \in Proc \ {p}, g \in File : Holding(q, g) => g # rf /\ g # wf
        BY <1>2, <1>3
      <4> QED
        BY <2>2, <4>1, HeldFreshOnes DEF Fresh
    <3>2. \A g \in File : ftable[g].type # "none" => ftable'[g].type = ftable[g].type
      BY <1>2, <1>3, <2>3
    <3> QED
      BY <1>1, <2>4, <3>1, <3>2 DEF Alone
  <2>10. ProcOk(p)'
    <3>1. CallOk(p)'
      BY <1>1, <1>4, <2>1, <2>4 DEF ProcOk, CallOk
    <3>2. ftable'[rf].type = "pipe" /\ ftable'[wf].type = "pipe"
      BY <2>2
    <3>3. LocalOk(p)' /\ ForkOk(p)'
      BY <1>0, <1>2, <1>3, <1>4, <2>1, <2>4, <3>2 DEF LocalOk, ForkOk
    <3>4. DescOk(p)'
      <4>1. \A k \in Fd : ofile[p][k] # 0 => ofile[p][k] \in File
        BY DEF Good, FileInv, TypeOK
      <4> QED
        BY <1>1, <1>4, <2>3, <4>1 DEF ProcOk, DescOk
    <3> QED
      BY <3>1, <3>3, <3>4 DEF ProcOk
  <2>11. FreshIsNone' /\ ~ panicked'
    <3>1. \A g \in File : ftable'[g].ref = 0 => ftable'[g].type = "none"
      BY <1>2, <1>3, <2>2, <2>3 DEF Good, FileInv, FreshIsNone
    <3> QED
      BY <1>1, <3>1 DEF Good, FileInv, FreshIsNone
  <2> QED
    BY <2>5, <2>7, <2>8, <2>9, <2>10, <2>11, AloneStep
<1> QED
  BY <1>0, <1>5, <1>6 DEF PipeMake

LEMMA PipeFdsInv == ASSUME Good, NEW p \in Proc, PipeFds(p) PROVE FileInv'
<1>0. PICK rf, wf : rf = local[p].rf /\ wf = local[p].wf
  OBVIOUS
<1>1. /\ p \in running /\ pc[p] = "fds" /\ todo[p] = <<>>
      /\ UNCHANGED <<ftable, running, ff, iref, readopen, writeopen, panicked>>
  BY DEF PipeFds, At, Objects
<1>2. ProcOk(p) /\ local[p].ip = 0
  BY <1>1, ProcForm DEF Good, FileInv, AllOk, CallInv
<1>3. /\ rf \in File /\ wf \in File /\ rf # wf /\ rf # 0 /\ wf # 0
      /\ ftable[rf].type = "pipe" /\ ftable[wf].type = "pipe"
  BY <1>0, <1>1, <1>2, Constants DEF ProcOk, LocalOk, Good
<1>4. CASE UNCHANGED ofile /\ Return(p, <<rf, wf>>)
  BY <1>0, <1>1, <1>4, GiveBack
<1>5. CASE \E fd0 \in FreeFds(ofile[p]) :
             \E fd1 \in FreeFds([ofile[p] EXCEPT ![fd0] = rf]) :
               /\ ofile' = [ofile EXCEPT ![p] = [@ EXCEPT ![fd0] = rf, ![fd1] = wf]]
               /\ Return(p, <<>>)
  <2>1. PICK fd0 \in FreeFds(ofile[p]) :
             \E fd1 \in FreeFds([ofile[p] EXCEPT ![fd0] = rf]) :
               /\ ofile' = [ofile EXCEPT ![p] = [@ EXCEPT ![fd0] = rf, ![fd1] = wf]]
               /\ Return(p, <<>>)
    BY <1>5
  <2>2. PICK fd1 \in FreeFds([ofile[p] EXCEPT ![fd0] = rf]) :
               /\ ofile' = [ofile EXCEPT ![p] = [@ EXCEPT ![fd0] = rf, ![fd1] = wf]]
               /\ Return(p, <<>>)
    BY <2>1
  <2>3. ofile \in [Proc -> [Fd -> File \cup {0}]] /\ ofile[p] \in [Fd -> File \cup {0}]
    BY DEF Good, FileInv, TypeOK
  <2>4. fd0 \in Fd /\ fd1 \in Fd /\ fd0 # fd1 /\ ofile[p][fd0] = 0 /\ ofile[p][fd1] = 0
    BY <1>3, <2>1, <2>2, <2>3 DEF FreeFds
  <2> DEFINE table == [ofile[p] EXCEPT ![fd0] = rf, ![fd1] = wf]
  <2>5. /\ table \in [Fd -> File \cup {0}]
        /\ \A k \in Fd : table[k] = IF k = fd0 THEN rf ELSE IF k = fd1 THEN wf
                                    ELSE ofile[p][k]
    BY <1>3, <2>3, <2>4
  <2>6. ofile' = [ofile EXCEPT ![p] = table]
    BY <2>2
  <2> HIDE DEF table
  <2>7. /\ pc' = [pc EXCEPT ![p] = "user"] /\ UNCHANGED todo
        /\ local' = [local EXCEPT ![p] = NoLocal]
        /\ local'[p].ip = 0 /\ \A q \in Proc \ {p} : local'[q] = local[q]
        /\ \A q \in Proc : pc'[q] = IF q = p THEN "user" ELSE pc[q]
    BY <1>1, <2>2 DEF Return, Become, NoLocal, Good, FileInv, TypeOK
  <2>8. /\ \A q \in Proc \ {p} : ofile'[q] = ofile[q]
        /\ ofile'[p] = table
        /\ ofile' \in [Proc -> [Fd -> File \cup {0}]]
    BY <2>3, <2>5, <2>6
  <2>9. TypeOK'
    BY <1>1, <2>7, <2>8, Constants DEF Good, FileInv, TypeOK, NoLocal
  <2>10. Steady /\ FreshIsNone'
    BY <1>1 DEF Steady, Good, FileInv, FreshIsNone
  <2>11. ASSUME NEW g \in File PROVE CountStep(g)
    <3> DEFINE x0 == <<"rf", p, 0>>
               y0 == <<"ofile", p, fd0>>
               x1 == <<"wf", p, 0>>
               y1 == <<"ofile", p, fd1>>
    <3>1. \A q \in Proc, k \in 0 .. NOFILE :
            Descriptor(q, k, g)' <=> \/ Descriptor(q, k, g)
                                     \/ q = p /\ k = fd0 /\ g = rf
                                     \/ q = p /\ k = fd1 /\ g = wf
      BY <1>1, <2>4, <2>5, <2>7, <2>8, Constants DEF Descriptor, Good
    <3>2. \A q \in Proc, k \in 0 .. NOFILE : Pending(q, k, g)' <=> Pending(q, k, g)
      BY <2>7 DEF Pending
    <3>3. fd0 \in 0 .. NOFILE /\ fd1 \in 0 .. NOFILE
      BY <2>4, Constants DEF Good
    <3>4. References(g)' = IF g = rf THEN (References(g) \ {x0}) \cup {y0}
                           ELSE IF g = wf THEN (References(g) \ {x1}) \cup {y1}
                           ELSE References(g)
      BY <1>0, <1>1, <1>3, <2>7, <3>1, <3>2, <3>3, Constants DEF References, Refers, Good
    <3>5. x0 \in References(rf) /\ x1 \in References(wf)
      BY <1>0, <1>1, InReferences, Constants DEF Refers, Good
    <3>6. y0 \notin References(rf) /\ y1 \notin References(wf)
      BY <1>3, <2>4, <3>3, InReferences DEF Refers, Descriptor
    <3>7. g \in {rf, wf} => Swaps(References(g), References(g)')
      BY <1>3, <3>4, <3>5, <3>6 DEF Swaps
    <3> QED
      BY <1>1, <3>4, <3>7 DEF CountStep
  <2>12. Alone(p)
    BY <1>1, <2>7, <2>8, HeldFreshOnes DEF Alone, Fresh
  <2>13. ProcOk(p)'
    <3>1. CallOk(p)'
      BY <1>1, <1>2, <2>7 DEF ProcOk, CallOk
    <3>2. LocalOk(p)' /\ ForkOk(p)'
      BY <2>7 DEF LocalOk, ForkOk
    <3>3. DescOk(p)'
      BY <1>1, <1>2, <1>3, <2>5, <2>7, <2>8 DEF ProcOk, DescOk
    <3> QED
      BY <3>1, <3>2, <3>3 DEF ProcOk
  <2> QED
    BY <1>1, <1>2, <2>7, <2>9, <2>10, <2>11, <2>12, <2>13, AloneInv
<1> QED
  BY <1>0, <1>1, <1>4, <1>5 DEF PipeFds

-----------------------------------------------------------------------------
(* fileclose() *)

\* What somebody uses is counted for a descriptor, or in pipe().
LEMMA UsedCounts ==
  ASSUME Good, NEW q \in Proc, NEW f \in File, Uses(q, f)
  PROVE  \E y \in References(f) : y[1] # "todo"
<1>1. CASE pc[q] = "fds" /\ f \in {local[q].rf, local[q].wf}
  <2>1. Refers("rf", q, 0, f) \/ Refers("wf", q, 0, f)
    BY <1>1 DEF Refers
  <2>2. <<"rf", q, 0>> \in References(f) \/ <<"wf", q, 0>> \in References(f)
    BY <2>1, InReferences, Constants DEF Good
  <2> QED
    BY <2>2
<1>2. ASSUME NEW k \in Fd, Descriptor(q, k, f)
      PROVE  \E y \in References(f) : y[1] # "todo"
  <2>1. <<"ofile", q, k>> \in References(f)
    BY <1>2, InReferences, Constants DEF Refers, Good
  <2> QED
    BY <2>1
<1>3. ASSUME NEW fd \in Fd, ofile[q][fd] = f PROVE \E k \in Fd : Descriptor(q, k, f)
  <2>1. CASE pc[q] = "dup" /\ fd = local[q].fd
    BY <1>3, <2>1 DEF Descriptor, Good, FileInv, LocalInv
  <2>2. CASE ~ (pc[q] = "dup" /\ fd = local[q].fd)
    BY <1>3, <2>2 DEF Descriptor
  <2> QED
    BY <2>1, <2>2
<1> QED
  BY <1>1, <1>2, <1>3 DEF Uses

LEMMA CloseFileInv == ASSUME Good, NEW p \in Proc, CloseFile(p) PROVE FileInv'
<1>0. PICK f, k0 : f = Head(todo[p]) /\ k0 = Len(todo[p]) - 1
  OBVIOUS
<1> DEFINE x == <<"todo", p, k0>>
<1>1. /\ todo[p] # <<>> /\ ff[p] = Closed
      /\ UNCHANGED <<ofile, running, pc, local, iref, readopen, writeopen>>
  BY DEF CloseFile, Objects
<1>2. ProcOk(p)
  BY ProcForm DEF Good, FileInv, AllOk
<1>3. p \in running /\ pc[p] \in {"user", "put", "exit"}
  BY <1>1, <1>2 DEF ProcOk, CallOk
<1>4. /\ f \in File /\ k0 \in 0 .. NOFILE /\ k0 < Len(todo[p])
      /\ todo[p] \in Seq(File) /\ Pending(p, k0, f)
  <2>1. todo[p] \in Seq(File) /\ Len(todo[p]) <= 2
    BY <1>2 DEF Good, FileInv, TypeOK, ProcOk, CallOk
  <2>2. Len(todo[p]) \in {1, 2}
    <3>1. PICK n : n = Len(todo[p])
      OBVIOUS
    <3>2. n \in Nat /\ n # 0 /\ n <= 2
      BY <1>1, <2>1, <3>1, EmptySeq
    <3>3. n \in {1, 2}
      BY <3>2
    <3> QED
      BY <3>1, <3>3
  <2>3. k0 \in {0, 1} /\ k0 < Len(todo[p]) /\ Len(todo[p]) - k0 = 1
    BY <1>0, <2>2
  <2>4. f = todo[p][1] /\ f \in File
    BY <1>0, <1>1, <2>1
  <2> QED
    BY <2>1, <2>3, <2>4, Constants DEF Pending, Good
<1>5. x \in References(f)
  BY <1>4, InReferences DEF Refers
<1>6. ftable[f].ref \in Nat /\ ftable[f].ref >= 1
  BY <1>4, <1>5, Counted DEF Good, FileInv, TypeOK
<1> DEFINE last == ftable[f].ref = 1
<1>7. /\ todo' = [todo EXCEPT ![p] = Tail(todo[p])]
      /\ ff' = [ff EXCEPT ![p] = IF last /\ ftable[f].type # "none"
                                 THEN [ftable[f] EXCEPT !.ref = 0] ELSE ff[p]]
      /\ ftable' = [ftable EXCEPT ![f] = IF last THEN Closed
                                         ELSE [ftable[f] EXCEPT !.ref = ftable[f].ref - 1]]
      /\ UNCHANGED panicked
  <2>1. ~ (ftable[Head(todo[p])].ref < 1)
    BY <1>0, <1>6
  <2> QED
    BY <1>0, <2>1 DEF CloseFile
<1>8. /\ todo' \in [Proc -> Seq(File)]
      /\ \A q \in Proc \ {p} : todo'[q] = todo[q]
      /\ Len(todo'[p]) = k0
      /\ \A k \in 0 .. NOFILE : \A g : Pending(p, k, g)' <=> Pending(p, k, g) /\ k # k0
  <2>1. todo \in [Proc -> Seq(File)]
    BY DEF Good, FileInv, TypeOK
  <2>2. Tail(todo[p]) \in Seq(File) /\ Len(Tail(todo[p])) = k0
    BY <1>0, <1>1, <1>4
  <2>3. todo'[p] = Tail(todo[p])
    BY <1>7, <2>1
  <2>4. ASSUME NEW k \in 0 .. NOFILE, NEW g
        PROVE  Pending(p, k, g)' <=> Pending(p, k, g) /\ k # k0
    <3>1. k < k0 => /\ Len(todo[p]) - k = (k0 - k) + 1
                    /\ Tail(todo[p])[k0 - k] = todo[p][(k0 - k) + 1]
      BY <1>0, <1>1, <1>4, Constants DEF Good
    <3>2. k < Len(todo[p]) /\ k # k0 <=> k < k0
      BY <1>0, <1>4, Constants DEF Good
    <3> QED
      BY <2>2, <2>3, <3>1, <3>2 DEF Pending
  <2> QED
    BY <1>7, <2>1, <2>2, <2>3, <2>4
<1>9. \A g \in File : References(g)' = IF g = f THEN References(g) \ {x} ELSE References(g)
  <2> TAKE g \in File
  <2>1. \A q \in Proc, k \in 0 .. NOFILE : Descriptor(q, k, g)' <=> Descriptor(q, k, g)
    BY <1>1 DEF Descriptor
  <2>2. Pending(p, k0, g) => g = f
    BY <1>4 DEF Pending
  <2>3. \A q \in Proc, k \in 0 .. NOFILE :
          Pending(q, k, g)' <=> Pending(q, k, g) /\ ~ (q = p /\ k = k0)
    <3>1. \A q \in Proc \ {p} : \A k : Pending(q, k, g)' <=> Pending(q, k, g)
      BY <1>8 DEF Pending
    <3> QED
      BY <1>8, <3>1
  <2> QED
    BY <1>1, <1>4, <2>1, <2>2, <2>3 DEF References, Refers
<1>10. CASE ~ last
  <2>1. SetRef(f, ftable[f].ref - 1) /\ ftable[f].ref >= 2
    <3>1. ftable[f].ref >= 2 /\ ftable[f].ref - 1 \in Nat
      BY <1>6, <1>10
    <3>2. ftable' = [ftable EXCEPT ![f].ref = ftable[f].ref - 1]
      BY <1>7, <1>10
    <3> QED
      BY <1>4, <3>1, <3>2, RefChange
  <2>2. UNCHANGED ff
    BY <1>7, <1>10 DEF Good, FileInv, TypeOK
  <2>3. TypeOK'
    BY <1>1, <1>7, <1>8, <2>1, <2>2 DEF Good, FileInv, TypeOK, SetRef, FileRecord
  <2>4. Steady
    BY <1>1, <1>6, <2>1, <2>2 DEF Steady, SetRef
  <2>5. ASSUME NEW g \in File PROVE CountStep(g)
    BY <1>5, <1>9, <2>1 DEF CountStep, Shrinks, SetRef
  <2>6. \A g \in File : ftable'[g].type = ftable[g].type
    BY <2>1 DEF SetRef
  <2>7. Alone(p)
    <3>1. \A q \in Proc, g \in File : Holding(q, g) => g # f /\ Fresh(g)'
      BY <2>1, HeldFreshOnes DEF Fresh, SetRef
    <3> QED
      BY <1>1, <1>3, <1>8, <2>6, <3>1 DEF Alone
  <2>8. ProcOk(p)'
    <3>1. CallOk(p)'
      BY <1>1, <1>2, <1>3, <1>4, <1>8 DEF ProcOk, CallOk
    <3>2. LocalOk(p)' /\ ForkOk(p)'
      BY <1>1, <1>3 DEF LocalOk, ForkOk
    <3>3. DescOk(p)'
      <4>1. \A k \in Fd : ofile[p][k] # 0 => ofile[p][k] \in File
        BY DEF Good, FileInv, TypeOK
      <4> QED
        BY <1>1, <1>2, <2>6, <4>1 DEF ProcOk, DescOk
    <3> QED
      BY <3>1, <3>2, <3>3 DEF ProcOk
  <2>9. FreshIsNone'
    BY <1>6, <2>1 DEF Good, FileInv, FreshIsNone, SetRef
  <2> QED
    BY <1>1, <1>7, <2>3, <2>4, <2>5, <2>7, <2>8, <2>9, AloneInv
<1>11. CASE last
  <2> DEFINE copy == [ftable[f] EXCEPT !.ref = 0]
  <2>1. ftable \in [File -> FileRecord] /\ ff \in [Proc -> FileRecord] /\ Closed \in FileRecord
    BY DEF Good, FileInv, TypeOK, FileRecord, Closed
  <2>2. /\ copy \in FileRecord /\ copy.type = ftable[f].type /\ copy.obj = ftable[f].obj
        /\ copy.writable = ftable[f].writable
    BY <1>4, <2>1 DEF FileRecord
  <2> HIDE DEF copy
  <2>3. /\ ftable' \in [File -> FileRecord]
        /\ \A g \in File \ {f} : ftable'[g] = ftable[g]
        /\ ftable'[f] = Closed
    BY <1>4, <1>7, <1>11, <2>1
  <2>4. /\ ff' \in [Proc -> FileRecord]
        /\ \A q \in Proc \ {p} : ff'[q] = ff[q]
        /\ ff'[p] = IF ftable[f].type # "none" THEN copy ELSE Closed
    BY <1>1, <1>7, <1>11, <2>1, <2>2 DEF copy
  <2>5. TypeOK'
    BY <1>1, <1>7, <1>8, <2>3, <2>4 DEF Good, FileInv, TypeOK, FileRecord
  <2>6. /\ Closed.ref = 0 /\ Closed.type = "none"
    BY DEF Closed
  <2>7. \A q \in Proc : ~ Uses(q, f) /\ ~ Holding(q, f)
    <3> TAKE q \in Proc
    <3>1. ~ Uses(q, f)
      BY <1>4, <1>5, <1>6, <1>11, UsedCounts, Counted
    <3>2. ~ Holding(q, f)
      BY <1>4, <1>5, HeldFresh
    <3> QED
      BY <3>1, <3>2
  <2>8. /\ \A j \in Inode : InodeStep(j)
        /\ \A v \in BOOLEAN, g \in Page : EndStep(v, g)
    <3>1. ASSUME NEW type \in {"inode", "pipe"}, NEW v \in BOOLEAN,
                 NEW obj \in Inode \cup Page
          PROVE  LET H == Holders(type, v, obj) IN H' = H \/ Swaps(H, H')
      <4> DEFINE H == Holders(type, v, obj)
                 a == <<"file", f>>
                 b == <<"copy", p>>
      <4>1. \A g \in File : FileHolds(g, type, v, obj)' <=> FileHolds(g, type, v, obj) /\ g # f
        BY <2>3, <2>6 DEF FileHolds
      <4>2. /\ \A q \in Proc \ {p} : CopyHolds(q, type, v, obj)' <=> CopyHolds(q, type, v, obj)
            /\ ~ CopyHolds(p, type, v, obj)
            /\ CopyHolds(p, type, v, obj)' <=> FileHolds(f, type, v, obj)
        <5>1. \A q \in Proc \ {p} : CopyHolds(q, type, v, obj)' <=> CopyHolds(q, type, v, obj)
          BY <2>4 DEF CopyHolds
        <5>2. ~ CopyHolds(p, type, v, obj)
          BY <1>1, <2>6 DEF CopyHolds
        <5>3. CopyHolds(p, type, v, obj)' <=> FileHolds(f, type, v, obj)
          BY <1>6, <2>2, <2>4, <2>6 DEF CopyHolds, FileHolds
        <5> QED
          BY <5>1, <5>2, <5>3
      <4>3. H' = {<<"file", g>> : g \in {h \in File : FileHolds(h, type, v, obj)'}}
                 \cup {<<"copy", q>> : q \in {r \in Proc : CopyHolds(r, type, v, obj)'}}
        BY DEF Holders, FileHolds, CopyHolds
      <4>4. H = {<<"file", g>> : g \in {h \in File : FileHolds(h, type, v, obj)}}
                \cup {<<"copy", q>> : q \in {r \in Proc : CopyHolds(r, type, v, obj)}}
        BY HoldersForm
      <4>5. b \notin H /\ (a \in H <=> FileHolds(f, type, v, obj))
        BY <1>4, <4>2, <4>4
      <4>6. FileHolds(f, type, v, obj) => H' = (H \ {a}) \cup {b}
        BY <1>4, <4>1, <4>2, <4>3, <4>4
      <4>7. ~ FileHolds(f, type, v, obj) => H' = H
        BY <1>4, <4>1, <4>2, <4>3, <4>4
      <4> HIDE DEF H
      <4> QED
        BY <4>5, <4>6, <4>7 DEF Swaps, H
    <3>2. \A j \in Inode : InodeStep(j)
      BY <1>1, <3>1 DEF InodeStep, Opening
    <3>3. \A v \in BOOLEAN, g \in Page : EndStep(v, g)
      BY <1>1, <3>1 DEF EndStep
    <3> QED
      BY <3>2, <3>3
  <2>9. ObjectsExact' /\ KindInv'
    <3>1. ObjectsExact'
      BY <2>8, ObjectsStep
    <3>2. KindInv'
      BY <1>4, <2>2, <2>3, <2>4, <2>6 DEF Good, FileInv, KindInv
    <3> QED
      BY <3>1, <3>2
  <2>10. ASSUME NEW g \in File PROVE CountStep(g)
    BY <1>5, <1>9, <1>11, <2>3, <2>6 DEF CountStep, Shrinks
  <2>11. Alone(p)
    <3>1. \A q \in Proc, g \in File : Holding(q, g) => Fresh(g)'
      BY <2>3, <2>7, HeldFreshOnes DEF Fresh
    <3> QED
      BY <1>1, <1>3, <1>8, <2>3, <2>7, <3>1 DEF Alone
  <2>12. ProcOk(p)'
    <3>1. CallOk(p)'
      BY <1>1, <1>2, <1>3, <1>4, <1>8 DEF ProcOk, CallOk
    <3>2. LocalOk(p)' /\ ForkOk(p)'
      BY <1>1, <1>3 DEF LocalOk, ForkOk
    <3>3. DescOk(p)'
      <4>1. \A k \in Fd : ofile[p][k] # 0 => ofile[p][k] \in File \ {f}
        BY <2>7 DEF Good, FileInv, TypeOK, Uses
      <4> QED
        BY <1>1, <1>2, <2>3, <4>1 DEF ProcOk, DescOk
    <3> QED
      BY <3>1, <3>2, <3>3 DEF ProcOk
  <2>13. FreshIsNone' /\ ~ panicked'
    BY <1>7, <2>3, <2>6 DEF Good, FileInv, FreshIsNone
  <2> QED
    BY <2>5, <2>9, <2>10, <2>11, <2>12, <2>13, AloneStep
<1> QED
  BY <1>10, <1>11

LEMMA CloseObjectInv == ASSUME Good, NEW p \in Proc, CloseObject(p) PROVE FileInv'
<1>0. PICK obj, w : obj = ff[p].obj /\ w = ff[p].writable
  OBVIOUS
<1> DEFINE b == <<"copy", p>>
<1>1. /\ ff[p] # Closed /\ ff' = [ff EXCEPT ![p] = Closed]
      /\ UNCHANGED <<ftable, ofile, running, pc, local, todo, panicked>>
  BY DEF CloseObject
<1>2. /\ ff \in [Proc -> FileRecord] /\ Closed \in FileRecord
      /\ iref \in [Inode -> Nat] /\ readopen \subseteq Page /\ writeopen \subseteq Page
  BY DEF Good, FileInv, TypeOK, FileRecord, Closed
<1>3. /\ \A q \in Proc \ {p} : ff'[q] = ff[q]
      /\ ff'[p] = Closed /\ Closed.type = "none"
  BY <1>1, <1>2 DEF Closed
<1>4. w \in BOOLEAN /\ ff[p].type \in {"inode", "pipe"}
  BY <1>0, <1>1, <1>2 DEF Good, FileInv, KindInv, FileRecord
<1>5. ASSUME NEW type \in {"inode", "pipe"}, NEW v \in BOOLEAN, NEW o \in Inode \cup Page
      PROVE  /\ Holders(type, v, o)' = Holders(type, v, o) \ {b}
             /\ b \in Holders(type, v, o) <=> CopyHolds(p, type, v, o)
             /\ ~ CopyHolds(p, type, v, o) => Holders(type, v, o)' = Holders(type, v, o)
  <2>1. \A g \in File : FileHolds(g, type, v, o)' <=> FileHolds(g, type, v, o)
    BY <1>1 DEF FileHolds
  <2>2. \A q \in Proc : CopyHolds(q, type, v, o)' <=> CopyHolds(q, type, v, o) /\ q # p
    BY <1>3 DEF CopyHolds
  <2>3. Holders(type, v, o)' =
          {<<"file", g>> : g \in {h \in File : FileHolds(h, type, v, o)'}}
          \cup {<<"copy", q>> : q \in {r \in Proc : CopyHolds(r, type, v, o)'}}
    BY DEF Holders, FileHolds, CopyHolds
  <2> QED
    BY <2>1, <2>2, <2>3, HoldersForm
<1>6. \A i \in Inode : Opening(i)' = Opening(i)
  BY <1>1 DEF Opening
<1>7. /\ \A i \in Inode : InodeStep(i)
      /\ \A v \in BOOLEAN, g \in Page : EndStep(v, g)
      /\ readopen' \subseteq Page /\ writeopen' \subseteq Page
      /\ \E new : iref' = [iref EXCEPT ![obj] = new]
  <2>1. CASE ff[p].type = "inode"
    <3>1. iref' = [iref EXCEPT ![obj] = iref[obj] - 1] /\ UNCHANGED <<readopen, writeopen>>
      BY <1>0, <2>1 DEF CloseObject
    <3>2. obj \in Inode
      BY <1>0, <2>1 DEF Good, FileInv, KindInv
    <3>3. \A i \in Inode : iref'[i] = IF i = obj THEN iref[i] - 1 ELSE iref[i]
      BY <1>2, <3>1, <3>2
    <3>4. \A i \in Inode : CopyHolds(p, "inode", FALSE, i) <=> i = obj
      BY <1>0, <2>1 DEF CopyHolds
    <3>5. \A g \in Page, v \in BOOLEAN : ~ CopyHolds(p, "pipe", v, g)
      BY <2>1 DEF CopyHolds
    <3>6. ASSUME NEW i \in Inode PROVE InodeStep(i)
      <4>1. CASE i = obj
        BY <1>5, <1>6, <3>3, <3>4, <4>1 DEF InodeStep, Shrinks
      <4>2. CASE i # obj
        <5>1. Holders("inode", FALSE, i)' = Holders("inode", FALSE, i)
          BY <1>5, <3>4, <4>2
        <5> QED
          BY <1>6, <3>3, <4>2, <5>1 DEF InodeStep
      <4> QED
        BY <4>1, <4>2
    <3>7. ASSUME NEW v \in BOOLEAN, NEW g \in Page PROVE EndStep(v, g)
      <4>1. Holders("pipe", v, g)' = Holders("pipe", v, g)
        BY <1>5, <3>5
      <4> QED
        BY <3>1, <4>1 DEF EndStep
    <3> QED
      BY <1>2, <3>1, <3>6, <3>7
  <2>2. CASE ff[p].type = "pipe"
    <3>1. /\ UNCHANGED iref
          /\ readopen' = IF w THEN readopen ELSE readopen \ {obj}
          /\ writeopen' = IF w THEN writeopen \ {obj} ELSE writeopen
      BY <1>0, <1>4, <2>2 DEF CloseObject
    <3>2. obj \in Page
      BY <1>0, <2>2 DEF Good, FileInv, KindInv
    <3>3. \A i \in Inode : ~ CopyHolds(p, "inode", FALSE, i)
      BY <2>2 DEF CopyHolds
    <3>4. \A g \in Page, v \in BOOLEAN : CopyHolds(p, "pipe", v, g) <=> g = obj /\ v = w
      BY <1>0, <2>2 DEF CopyHolds
    <3>5. ASSUME NEW i \in Inode PROVE InodeStep(i)
      <4>1. Holders("inode", FALSE, i)' = Holders("inode", FALSE, i)
        BY <1>5, <3>3
      <4> QED
        BY <1>6, <3>1, <4>1 DEF InodeStep
    <3>6. ASSUME NEW v \in BOOLEAN, NEW g \in Page PROVE EndStep(v, g)
      <4> DEFINE open == IF v THEN writeopen ELSE readopen
                 open1 == IF v THEN writeopen' ELSE readopen'
      <4>1. CASE g = obj /\ v = w
        <5>1. b \in Holders("pipe", v, g) /\ Holders("pipe", v, g)' = Holders("pipe", v, g) \ {b}
          BY <1>5, <3>4, <4>1
        <5>2. g \in open
          <6>1. Cardinality(Holders("pipe", v, g)) >= 1
            BY <5>1, HoldersFinite, AtLeastOne DEF Good
          <6>2. Cardinality(Holders("pipe", v, g)) = IF g \in open THEN 1 ELSE 0
            BY DEF Good, FileInv, ObjectsExact
          <6> QED
            BY <6>1, <6>2
        <5>3. g \notin open1
          BY <3>1, <4>1
        <5> QED
          BY <5>1, <5>2, <5>3 DEF EndStep, Shrinks
      <4>2. CASE ~ (g = obj /\ v = w)
        <5>1. Holders("pipe", v, g)' = Holders("pipe", v, g)
          BY <1>5, <3>4, <4>2
        <5>2. g \in open1 <=> g \in open
          <6>1. CASE g # obj
            BY <3>1, <6>1
          <6>2. CASE v # w
            <7>1. (v = TRUE /\ w = FALSE) \/ (v = FALSE /\ w = TRUE)
              BY <1>4, <6>2
            <7> QED
              BY <3>1, <7>1
          <6> QED
            BY <4>2, <6>1, <6>2
        <5> QED
          BY <5>1, <5>2 DEF EndStep
      <4> QED
        BY <4>1, <4>2
    <3> QED
      BY <1>2, <3>1, <3>5, <3>6
  <2> QED
    BY <1>4, <2>1, <2>2
<1>8. ObjectsExact' /\ \A i \in Inode : iref'[i] \in Nat
  BY <1>7, ObjectsStep
<1>9. TypeOK'
  <2>1. iref' \in [Inode -> Nat]
    BY <1>2, <1>7, <1>8
  <2>2. ff' \in [Proc -> FileRecord]
    BY <1>1, <1>2
  <2> QED
    BY <1>1, <1>7, <2>1, <2>2 DEF Good, FileInv, TypeOK, FileRecord
<1>10. KindInv' /\ FreshIsNone' /\ ~ panicked'
  BY <1>1, <1>3 DEF Good, FileInv, KindInv, FreshIsNone
<1>11. \A q \in Proc : ProcOk(q)'
  <2>1. \A q \in Proc : ProcOk(q)
    BY ProcForm DEF Good, FileInv, AllOk
  <2> QED
    BY <1>1, <2>1 DEF ProcOk, CallOk, LocalOk, ForkOk, DescOk, Forking, Fresh
<1>12. \A g \in File : CountStep(g)
  <2> TAKE g \in File
  <2>1. References(g)' = References(g)
    BY <1>1 DEF References, Refers, Descriptor, Pending
  <2> QED
    BY <1>1, <2>1 DEF CountStep
<1> QED
  BY <1>8, <1>9, <1>10, <1>11, <1>12, AnyStep

-----------------------------------------------------------------------------
(* fork() and exit() *)

LEMMA ForkInv == ASSUME Good, NEW p \in Proc, Fork(p) PROVE FileInv'
<1>1. PICK c \in Proc \ running :
        /\ At(p, "user") /\ ~ Forking(c)
        /\ Become(p, "fork")
        /\ local' = [local EXCEPT ![p] = [NoLocal EXCEPT !.child = c]]
  BY DEF Fork
<1>2. /\ p \in running /\ pc[p] = "user" /\ todo[p] = <<>>
      /\ UNCHANGED <<ftable, ofile, running, todo, ff, iref, readopen, writeopen, panicked>>
  BY <1>1 DEF Fork, At, Objects
<1>3. /\ pc' = [pc EXCEPT ![p] = "fork"]
      /\ \A q \in Proc : pc'[q] = IF q = p THEN "fork" ELSE pc[q]
  BY <1>1 DEF Become, Good, FileInv, TypeOK
<1> DEFINE new == [NoLocal EXCEPT !.child = c]
<1>4. new \in LocalRecord /\ new.ip = 0 /\ new.child = c /\ new.fd = 0
  BY Constants DEF Good, LocalRecord, NoLocal
<1>5. local' = [local EXCEPT ![p] = new]
  BY <1>1
<1> HIDE DEF new
<1>6. /\ \A q \in Proc \ {p} : local'[q] = local[q]
      /\ local'[p].ip = 0 /\ local'[p].child = c /\ local'[p].fd = 0
      /\ local' \in [Proc -> LocalRecord]
  BY <1>4, <1>5, LocalChange
<1>7. \A q \in Proc : ProcOk(q)
  BY ProcForm DEF Good, FileInv, AllOk
<1>8. TypeOK'
  BY <1>2, <1>3, <1>6 DEF Good, FileInv, TypeOK, LocalRecord
<1>9. ObjectsExact' /\ KindInv'
  <2>1. Steady
    BY <1>2 DEF Steady
  <2>2. \A q \in Proc : local'[q].ip = local[q].ip
    BY <1>2, <1>6 DEF Good, FileInv, CallInv
  <2> QED
    BY <1>2, <2>1, <2>2, SteadyObjects
<1>10. \A g \in File : CountStep(g)
  BY <1>2, <1>3, <1>6, SameCounts
<1>11. FreshIsNone' /\ ~ panicked'
  BY <1>2 DEF Good, FileInv, FreshIsNone
<1>12. ASSUME NEW q \in Proc PROVE ProcOk(q)'
  <2>1. ProcOk(q) /\ p # c
    BY <1>2, <1>7
  <2>2. Forking(q) => Forking(q)'
    BY <1>2, <1>3, <1>6 DEF Forking, Good, FileInv, TypeOK
  <2>3. CallOk(q)'
    BY <1>2, <1>3, <1>6, <2>1, <2>2 DEF ProcOk, CallOk
  <2>4. LocalOk(q)'
    BY <1>2, <1>3, <1>6, <2>1 DEF ProcOk, LocalOk, Fresh
  <2>5. DescOk(q)'
    BY <1>2, <1>3, <1>6, <2>1 DEF ProcOk, DescOk
  <2>6. ForkOk(q)'
    <3>1. \A r \in Proc : pc[r] = "fork" => r \in running /\ local[r].child # c
      BY <1>1, <1>7 DEF ProcOk, CallOk, Forking
    <3>2. \A fd \in Fd : ofile[c][fd] = 0
      BY <1>1, <1>7 DEF ProcOk, CallOk
    <3>3. CASE q = p
      BY <1>2, <1>3, <1>6, <3>1, <3>2, <3>3 DEF ForkOk
    <3>4. CASE q # p
      BY <1>2, <1>3, <1>6, <2>1, <3>1, <3>4 DEF ProcOk, ForkOk
    <3> QED
      BY <3>3, <3>4
  <2> QED
    BY <2>3, <2>4, <2>5, <2>6 DEF ProcOk
<1> QED
  BY <1>8, <1>9, <1>10, <1>11, <1>12, AnyStep

LEMMA ForkCopyInv == ASSUME Good, NEW p \in Proc, ForkCopy(p) PROVE FileInv'
<1>0. PICK c, fd, f : c = local[p].child /\ fd = local[p].fd /\ f = ofile[p][fd]
  OBVIOUS
<1>1. /\ p \in running /\ pc[p] = "fork" /\ todo[p] = <<>>
      /\ fd < NOFILE /\ Filedup(f)
      /\ ofile' = [ofile EXCEPT ![c][fd] = f]
      /\ local' = [local EXCEPT ![p].fd = fd + 1]
      /\ UNCHANGED <<running, pc, todo, ff, iref, readopen, writeopen>>
  BY <1>0 DEF ForkCopy, At, Objects
<1>2. \A q \in Proc : ProcOk(q)
  BY ProcForm DEF Good, FileInv, AllOk
<1>3. fd \in Fd /\ fd \in Nat
  <2>1. fd \in 0 .. NOFILE
    BY <1>0 DEF Good, FileInv, TypeOK
  <2> QED
    BY <1>1, <2>1, Constants DEF Fd, Good
<1>4. /\ c \in Proc /\ c \notin running /\ c # p
      /\ pc[c] = "user" /\ todo[c] = <<>> /\ ofile[c][fd] = 0
  <2>1. c \in Proc /\ c \notin running
    BY <1>0, <1>1, <1>2 DEF ProcOk, ForkOk
  <2>2. pc[c] = "user" /\ todo[c] = <<>>
    BY <1>2, <2>1 DEF ProcOk, CallOk
  <2>3. ofile[c][fd] = 0
    BY <1>0, <1>1, <1>2, <1>3 DEF ProcOk, ForkOk
  <2> QED
    BY <1>1, <2>1, <2>2, <2>3
<1>5. f \in File \cup {0}
  BY <1>0, <1>3 DEF Good, FileInv, TypeOK
<1>6. f # 0 => /\ f \in File /\ ftable[f].type # "none"
               /\ ftable[f].ref \in Nat /\ ftable[f].ref > 0
  BY <1>0, <1>1, <1>3, OpenFiles
<1>7. /\ UNCHANGED panicked
      /\ f # 0 => SetRef(f, ftable[f].ref + 1)
      /\ f = 0 => UNCHANGED ftable
  <2>1. CASE f = 0
    BY <1>1, <2>1 DEF Filedup
  <2>2. CASE f # 0
    <3>1. ftable' = [ftable EXCEPT ![f].ref = ftable[f].ref + 1] /\ UNCHANGED panicked
      BY <1>1, <1>6, <2>2 DEF Filedup
    <3>2. ftable[f].ref + 1 \in Nat
      BY <1>6, <2>2
    <3> QED
      BY <1>6, <2>2, <3>1, <3>2, RefChange
  <2> QED
    BY <2>1, <2>2
<1>8. /\ ftable' \in [File -> FileRecord]
      /\ \A g \in File : /\ ftable'[g].type = ftable[g].type
                         /\ ftable'[g].ref = IF g = f THEN ftable[g].ref + 1 ELSE ftable[g].ref
      /\ Steady
  <2>1. ftable \in [File -> FileRecord]
    BY DEF Good, FileInv, TypeOK, FileRecord
  <2>2. CASE f = 0
    <3>1. \A g \in File : g # f
      BY <2>2, Constants DEF Good
    <3> QED
      BY <1>1, <1>7, <2>1, <2>2, <3>1 DEF Steady
  <2>3. CASE f # 0
    BY <1>1, <1>6, <1>7, <2>3 DEF Steady, SetRef
  <2> QED
    BY <2>2, <2>3
<1>9. /\ ofile' \in [Proc -> [Fd -> File \cup {0}]]
      /\ \A q \in Proc, k \in Fd :
           ofile'[q][k] = IF q = c /\ k = fd THEN f ELSE ofile[q][k]
      /\ \A q \in Proc \ {c} : ofile'[q] = ofile[q]
  BY <1>1, <1>3, <1>4, <1>5 DEF Good, FileInv, TypeOK
<1>10. /\ local' \in [Proc -> LocalRecord]
       /\ \A q \in Proc \ {p} : local'[q] = local[q]
       /\ local'[p].fd = fd + 1 /\ local'[p].child = c /\ local'[p].ip = local[p].ip
  <2>1. local[p] \in LocalRecord /\ fd + 1 \in 0 .. NOFILE
    BY <1>1, <1>3, Constants DEF Good, FileInv, TypeOK, LocalRecord
  <2> DEFINE new == [local[p] EXCEPT !.fd = fd + 1]
  <2>2. new \in LocalRecord /\ new.fd = fd + 1 /\ new.child = c /\ new.ip = local[p].ip
    BY <1>0, <2>1 DEF LocalRecord
  <2>3. local' = [local EXCEPT ![p] = new]
    BY <1>1
  <2> HIDE DEF new
  <2> QED
    BY <2>2, <2>3, LocalChange
<1>11. TypeOK'
  BY <1>1, <1>7, <1>8, <1>9, <1>10 DEF Good, FileInv, TypeOK, FileRecord, LocalRecord
<1>12. ObjectsExact' /\ KindInv'
  <2>1. \A q \in Proc : local'[q].ip = local[q].ip
    BY <1>10
  <2> QED
    BY <1>1, <1>8, <2>1, SteadyObjects
<1>13. ASSUME NEW g \in File PROVE CountStep(g)
  <2> DEFINE x == <<"ofile", c, fd>>
  <2>1. g # 0
    BY Constants DEF Good
  <2>2. \A q \in Proc, k \in 0 .. NOFILE :
          Descriptor(q, k, g)' <=> Descriptor(q, k, g) \/ (q = c /\ k = fd /\ g = f)
    BY <1>1, <1>3, <1>4, <1>9, <1>10, <2>1 DEF Descriptor
  <2>3. \A q \in Proc, k \in 0 .. NOFILE : Pending(q, k, g)' <=> Pending(q, k, g)
    BY <1>1 DEF Pending
  <2>4. fd \in 0 .. NOFILE
    BY <1>3, Constants DEF Good
  <2>5. References(g)' = IF g = f THEN References(g) \cup {x} ELSE References(g)
    BY <1>1, <1>4, <1>10, <2>2, <2>3, <2>4 DEF References, Refers
  <2>6. x \notin References(g)
    BY <1>4, <2>1, <2>4, InReferences DEF Refers, Descriptor
  <2> QED
    BY <1>8, <2>5, <2>6 DEF CountStep, Grows
<1>14. FreshIsNone' /\ ~ panicked'
  <2>1. \A g \in File : ftable'[g].ref = 0 => ftable'[g].type = "none"
    BY <1>6, <1>8, Constants DEF Good, FileInv, FreshIsNone
  <2> QED
    BY <1>7, <2>1 DEF Good, FileInv, FreshIsNone
<1>15. ASSUME NEW q \in Proc PROVE ProcOk(q)'
  <2>1. ProcOk(q) /\ ProcOk(p)
    BY <1>2
  <2>2. \A r \in Proc : Forking(r)' <=> Forking(r)
    BY <1>0, <1>1, <1>10 DEF Forking, Good, FileInv, TypeOK
  <2>3. Forking(c)
    BY <1>0, <1>1 DEF Forking
  <2>4. CallOk(q)'
    BY <1>1, <1>9, <1>10, <2>1, <2>2, <2>3 DEF ProcOk, CallOk
  <2>5. LocalOk(q)'
    <3>1. CASE q \in {p, c}
      BY <1>1, <1>4, <3>1 DEF LocalOk
    <3>2. CASE q \notin {p, c}
      <4>1. \A g \in File : Holding(q, g) => Fresh(g)'
        BY <1>6, <1>8, HeldFreshOnes, Constants DEF Fresh, Good
      <4>2. local'[q] = local[q] /\ ofile'[q] = ofile[q] /\ pc'[q] = pc[q]
        BY <1>1, <1>9, <1>10, <3>2
      <4>3. /\ pc[q] \in {"fill", "pipe", "kalloc"} => Fresh(local[q].rf)'
            /\ pc[q] = "kalloc" => Fresh(local[q].wf)'
        BY <2>1, <4>1, <4>2 DEF ProcOk, LocalOk, Holding, Fresh
      <4> QED
        BY <1>8, <2>1, <4>2, <4>3 DEF ProcOk, LocalOk, Fresh
    <3> QED
      BY <3>1, <3>2
  <2>6. DescOk(q)'
    <3>1. \A k \in Fd : ofile[q][k] # 0 => ofile[q][k] \in File
      BY DEF Good, FileInv, TypeOK
    <3> QED
      BY <1>1, <1>4, <1>6, <1>8, <1>9, <1>10, <2>1, <3>1 DEF ProcOk, DescOk
  <2>7. ForkOk(q)'
    <3>1. CASE q = p
      <4>1. \A k \in Fd : k >= fd + 1 => k >= fd /\ k # fd
        BY <1>3, Constants DEF Good
      <4> QED
        BY <1>0, <1>1, <1>4, <1>9, <1>10, <2>1, <3>1, <4>1 DEF ProcOk, ForkOk
    <3>2. CASE q # p
      <4>1. pc[q] = "fork" => local[q].child # c
        BY <1>0, <1>1, <2>1, <3>2 DEF ProcOk, ForkOk
      <4> QED
        BY <1>0, <1>1, <1>9, <1>10, <2>1, <3>2, <4>1 DEF ProcOk, ForkOk
    <3> QED
      BY <3>1, <3>2
  <2> QED
    BY <2>4, <2>5, <2>6, <2>7 DEF ProcOk
<1> QED
  BY <1>11, <1>12, <1>13, <1>14, <1>15, AnyStep

LEMMA ForkEndInv == ASSUME Good, NEW p \in Proc, ForkEnd(p) PROVE FileInv'
<1>0. PICK c : c = local[p].child
  OBVIOUS
<1>1. /\ p \in running /\ pc[p] = "fork" /\ todo[p] = <<>>
      /\ running' = running \cup {c} /\ Return(p, <<>>)
      /\ UNCHANGED <<ftable, ofile, ff, iref, readopen, writeopen, panicked>>
  BY <1>0 DEF ForkEnd, At, Objects
<1>2. /\ UNCHANGED todo
      /\ pc' = [pc EXCEPT ![p] = "user"] /\ local' = [local EXCEPT ![p] = NoLocal]
      /\ \A q \in Proc : pc'[q] = IF q = p THEN "user" ELSE pc[q]
      /\ \A q \in Proc \ {p} : local'[q] = local[q]
      /\ local'[p].ip = 0
  BY <1>1 DEF Return, Become, NoLocal, Good, FileInv, TypeOK
<1>3. \A q \in Proc : ProcOk(q)
  BY ProcForm DEF Good, FileInv, AllOk
<1>4. c \in Proc /\ c # p
  BY <1>0, <1>1, <1>3 DEF ProcOk, ForkOk
<1>5. TypeOK'
  BY <1>1, <1>2, <1>4, Constants DEF Good, FileInv, TypeOK, NoLocal
<1>6. ObjectsExact' /\ KindInv'
  <2>1. Steady
    BY <1>1 DEF Steady
  <2>2. \A q \in Proc : local'[q].ip = local[q].ip
    BY <1>1, <1>2 DEF Good, FileInv, CallInv
  <2> QED
    BY <1>1, <2>1, <2>2, SteadyObjects
<1>7. \A g \in File : CountStep(g)
  BY <1>1, <1>2, SameCounts
<1>8. FreshIsNone' /\ ~ panicked'
  BY <1>1 DEF Good, FileInv, FreshIsNone
<1>9. ASSUME NEW q \in Proc PROVE ProcOk(q)'
  <2>1. ProcOk(q)
    BY <1>3
  <2>2. Forking(q) /\ q # c => Forking(q)'
    BY <1>0, <1>1, <1>2 DEF Forking, Good, FileInv, TypeOK
  <2>3. CallOk(q)'
    BY <1>1, <1>2, <2>1, <2>2 DEF ProcOk, CallOk
  <2>4. LocalOk(q)'
    BY <1>1, <1>2, <2>1 DEF ProcOk, LocalOk, Fresh
  <2>5. DescOk(q)'
    BY <1>1, <1>2, <2>1 DEF ProcOk, DescOk
  <2>6. ForkOk(q)'
    <3>1. q # p /\ pc[q] = "fork" => local[q].child # c
      BY <1>0, <1>1, <2>1 DEF ProcOk, ForkOk
    <3> QED
      BY <1>1, <1>2, <2>1, <3>1 DEF ProcOk, ForkOk
  <2> QED
    BY <2>3, <2>4, <2>5, <2>6 DEF ProcOk
<1> QED
  BY <1>5, <1>6, <1>7, <1>8, <1>9, AnyStep

LEMMA ExitInv == ASSUME Good, NEW p \in Proc, Exit(p) PROVE FileInv'
<1>1. /\ p \in running /\ pc[p] = "user" /\ todo[p] = <<>>
      /\ pc' = [pc EXCEPT ![p] = "exit"]
      /\ UNCHANGED <<ftable, ofile, running, local, todo, ff, iref, readopen, writeopen,
                     panicked>>
  BY DEF Exit, At, Objects, Become
<1>2. \A q \in Proc : pc'[q] = IF q = p THEN "exit" ELSE pc[q]
  BY <1>1 DEF Good, FileInv, TypeOK
<1>3. TypeOK'
  BY <1>1 DEF Good, FileInv, TypeOK
<1>4. Steady /\ FreshIsNone'
  BY <1>1 DEF Steady, Good, FileInv, FreshIsNone
<1>5. \A g \in File : CountStep(g)
  BY <1>1, <1>2, SameCounts
<1>6. Alone(p)
  BY <1>1, <1>2, HeldFreshOnes DEF Alone, Fresh
<1>7. ProcOk(p)'
  <2>1. ProcOk(p)
    BY ProcForm DEF Good, FileInv, AllOk
  <2>2. CallOk(p)'
    BY <1>1, <1>2, <2>1 DEF ProcOk, CallOk
  <2>3. LocalOk(p)' /\ ForkOk(p)'
    BY <1>2 DEF LocalOk, ForkOk
  <2>4. DescOk(p)'
    BY <1>1, <1>2, <2>1 DEF ProcOk, DescOk
  <2> QED
    BY <2>2, <2>3, <2>4 DEF ProcOk
<1> QED
  BY <1>1, <1>3, <1>4, <1>5, <1>6, <1>7, AloneInv

LEMMA ExitCloseInv == ASSUME Good, NEW p \in Proc, ExitClose(p) PROVE FileInv'
<1> DEFINE open == {k \in Fd : ofile[p][k] # 0}
<1>1. /\ p \in running /\ pc[p] = "exit" /\ todo[p] = <<>>
      /\ UNCHANGED <<ftable, ff, iref, readopen, writeopen, panicked>>
  BY DEF ExitClose, At, Objects
<1>2. \A q \in Proc : ProcOk(q)
  BY ProcForm DEF Good, FileInv, AllOk
<1>3. Steady /\ FreshIsNone' /\ ~ panicked'
  BY <1>1 DEF Steady, Good, FileInv, FreshIsNone
<1>4. CASE open = {}
  <2>1. Return(p, <<>>) /\ running' = running \ {p} /\ UNCHANGED ofile
    BY <1>4 DEF ExitClose
  <2>2. /\ UNCHANGED todo
        /\ pc' = [pc EXCEPT ![p] = "user"] /\ local' = [local EXCEPT ![p] = NoLocal]
        /\ \A q \in Proc : pc'[q] = IF q = p THEN "user" ELSE pc[q]
        /\ \A q \in Proc \ {p} : local'[q] = local[q]
        /\ local'[p].ip = 0
    BY <1>1, <2>1 DEF Return, Become, NoLocal, Good, FileInv, TypeOK
  <2>3. TypeOK'
    BY <1>1, <2>1, <2>2, Constants DEF Good, FileInv, TypeOK, NoLocal
  <2>4. ObjectsExact' /\ KindInv'
    <3>1. \A q \in Proc : local'[q].ip = local[q].ip
      BY <1>1, <2>2 DEF Good, FileInv, CallInv
    <3> QED
      BY <1>1, <1>3, <3>1, SteadyObjects
  <2>5. \A g \in File : CountStep(g)
    BY <1>1, <2>1, <2>2, SameCounts
  <2>6. ASSUME NEW q \in Proc PROVE ProcOk(q)'
    <3>1. ProcOk(q)
      BY <1>2
    <3>2. Forking(q) => Forking(q)'
      BY <1>1, <2>1, <2>2 DEF Forking, Good, FileInv, TypeOK
    <3>3. CallOk(q)'
      BY <1>1, <1>4, <2>1, <2>2, <3>1, <3>2 DEF ProcOk, CallOk
    <3>4. LocalOk(q)'
      BY <1>1, <2>1, <2>2, <3>1 DEF ProcOk, LocalOk, Fresh
    <3>5. DescOk(q)'
      BY <1>1, <2>1, <2>2, <3>1 DEF ProcOk, DescOk
    <3>6. ForkOk(q)'
      BY <1>1, <2>1, <2>2, <3>1 DEF ProcOk, ForkOk
    <3> QED
      BY <3>3, <3>4, <3>5, <3>6 DEF ProcOk
  <2> QED
    BY <1>3, <2>3, <2>4, <2>5, <2>6, AnyStep
<1>5. CASE open # {}
  <2>0. PICK fd : fd = Min(open)
    OBVIOUS
  <2>1. fd \in open
    <3>1. open \in SUBSET Nat
      BY Constants DEF Good
    <3> HIDE DEF open
    <3> QED
      BY <1>5, <2>0, <3>1, MinIn
  <2>2. /\ todo' = [todo EXCEPT ![p] = <<ofile[p][fd]>>]
        /\ ofile' = [ofile EXCEPT ![p][fd] = 0]
        /\ UNCHANGED <<pc, local, running>>
    BY <1>5, <2>0 DEF ExitClose
  <2>3. fd \in Fd /\ ofile[p][fd] \in File
    BY <2>1 DEF Good, FileInv, TypeOK
  <2>4. /\ \A q \in Proc : todo'[q] = IF q = p THEN <<ofile[p][fd]>> ELSE todo[q]
        /\ \A q \in Proc, k \in Fd :
             ofile'[q][k] = IF q = p /\ k = fd THEN 0 ELSE ofile[q][k]
        /\ \A q \in Proc \ {p} : ofile'[q] = ofile[q]
    BY <2>2, <2>3 DEF Good, FileInv, TypeOK
  <2>5. TypeOK'
    <3>1. <<ofile[p][fd]>> \in Seq(File)
      BY <2>3
    <3> QED
      BY <1>1, <2>2, <2>3, <3>1 DEF Good, FileInv, TypeOK
  <2>6. \A g \in File : CountStep(g)
    <3>1. GivesUp(p, fd)
      BY <1>1, <2>2, <2>3, <2>4 DEF GivesUp
    <3> QED
      BY <2>3, <3>1, GivesUpCounts
  <2>7. Alone(p)
    BY <1>1, <2>2, <2>4, HeldFreshOnes DEF Alone, Fresh
  <2>8. ProcOk(p)'
    <3>1. Len(todo'[p]) = 1
      BY <2>4
    <3>2. CallOk(p)'
      BY <1>1, <1>2, <2>2, <3>1 DEF ProcOk, CallOk
    <3>3. LocalOk(p)' /\ ForkOk(p)'
      BY <1>1, <2>2 DEF LocalOk, ForkOk
    <3>4. DescOk(p)'
      BY <1>1, <1>2, <2>2, <2>4 DEF ProcOk, DescOk
    <3> QED
      BY <3>2, <3>3, <3>4 DEF ProcOk
  <2> QED
    BY <1>1, <1>3, <2>2, <2>5, <2>6, <2>7, <2>8, AloneInv
<1> QED
  BY <1>4, <1>5

-----------------------------------------------------------------------------
(* The invariant *)

LEMMA InitInv == ASSUME FileTableAssumption, Init PROVE FileInv
<1>1. PICK p0 \in Proc : running = {p0}
  BY DEF Init
<1>2. /\ 0 \in Nat /\ 0 \in 0 .. NOFILE /\ <<>> \in Seq(File) /\ Len(<<>>) = 0
      /\ 0 \notin Inode /\ 0 \notin File
  BY Constants
<1>3. Closed \in FileRecord /\ NoLocal \in LocalRecord
  BY <1>2 DEF Closed, NoLocal, FileRecord, LocalRecord
<1>4. TypeOK
  BY <1>1, <1>2, <1>3 DEF Init, TypeOK, FileRecord, LocalRecord
<1>5. /\ Closed.ref = 0 /\ Closed.type = "none" /\ NoLocal.ip = 0
  BY DEF Closed, NoLocal
<1>6. RefsExact
  <2>1. ASSUME NEW f \in File PROVE References(f) = {}
    <3>1. \A p \in Proc, k \in 0 .. NOFILE : ~ Descriptor(p, k, f) /\ ~ Pending(p, k, f)
      BY <1>2, NothingPending DEF Init, Descriptor
    <3> QED
      BY <3>1 DEF Init, References, Refers
  <2> QED
    BY <1>5, <2>1, FS_EmptySet DEF Init, RefsExact
<1>7. ObjectsExact
  <2>1. ASSUME NEW type \in {"inode", "pipe"}, NEW w, NEW obj PROVE Holders(type, w, obj) = {}
    BY <1>5, HoldersForm DEF Init, FileHolds, CopyHolds
  <2>2. \A i \in Inode : Opening(i) = {}
    BY <1>2, <1>5 DEF Init, Opening
  <2>3. Cardinality({}) = 0
    BY FS_EmptySet
  <2>4. \A i \in Inode : iref[i] = Cardinality(Holders("inode", FALSE, i))
                                    + Cardinality({p \in Proc : local[p].ip = i})
    <3> TAKE i \in Inode
    <3>1. Cardinality(Holders("inode", FALSE, i)) = 0
      BY <2>1, <2>3
    <3>2. Cardinality(Opening(i)) = 0
      BY <2>2, <2>3
    <3>3. iref[i] = 0
      BY DEF Init
    <3>4. iref[i] = Cardinality(Holders("inode", FALSE, i)) + Cardinality(Opening(i))
      <4>1. PICK h, o : /\ h = Cardinality(Holders("inode", FALSE, i))
                        /\ o = Cardinality(Opening(i))
        OBVIOUS
      <4>2. h = 0 /\ o = 0
        BY <3>1, <3>2, <4>1
      <4>3. iref[i] = h + o
        BY <3>3, <4>2
      <4> QED
        BY <4>1, <4>3
    <3> QED
      BY <3>4 DEF Opening
  <2>5. \A g \in Page, w \in BOOLEAN :
          Cardinality(Holders("pipe", w, g)) = IF g \in (IF w THEN writeopen ELSE readopen)
                                               THEN 1 ELSE 0
    BY <2>1, <2>3 DEF Init
  <2> QED
    BY <2>4, <2>5 DEF ObjectsExact
<1>8. FreshIsNone /\ KindInv
  BY <1>5 DEF Init, FreshIsNone, KindInv
<1>9. CallInv /\ LocalInv /\ DescInv
  BY <1>1, <1>2, <1>5 DEF Init, CallInv, LocalInv, DescInv
<1> QED
  BY <1>4, <1>6, <1>7, <1>8, <1>9 DEF FileInv, Init

LEMMA StutterInv == ASSUME FileInv, UNCHANGED vars PROVE FileInv'
<1>1. UNCHANGED <<ftable, ofile, running, pc, local, todo, ff, iref, readopen, writeopen,
                  panicked>>
  BY DEF vars
<1>2. (TypeOK /\ ~ panicked /\ FreshIsNone /\ CallInv /\ LocalInv /\ DescInv /\ KindInv)'
  BY <1>1 DEF FileInv, TypeOK, FreshIsNone, CallInv, LocalInv, DescInv, KindInv, Forking, Fresh
<1>3. RefsExact'
  BY <1>1 DEF FileInv, RefsExact, References, Refers, Descriptor, Pending
<1>4. ObjectsExact'
  BY <1>1 DEF FileInv, ObjectsExact, Holders
<1> QED
  BY <1>2, <1>3, <1>4 DEF FileInv

LEMMA NextInv == ASSUME FileTableAssumption, FileInv, [Next]_vars PROVE FileInv'
<1>1. CASE UNCHANGED vars
  BY <1>1, StutterInv
<1>2. ASSUME NEW p \in Proc, Step(p) PROVE FileInv'
  <2>1. Good
    BY DEF Good
  <2>2. CASE Open(p)        BY <2>1, <2>2, OpenInv
  <2>3. CASE PipeBegin(p)   BY <2>1, <2>3, PipeBeginInv
  <2>4. CASE Dup(p)         BY <2>1, <2>4, DupInv
  <2>5. CASE Close(p)       BY <2>1, <2>5, CloseInv
  <2>6. CASE Fork(p)        BY <2>1, <2>6, ForkInv
  <2>7. CASE Exit(p)        BY <2>1, <2>7, ExitInv
  <2>8. CASE OpenAlloc(p)   BY <2>1, <2>8, OpenAllocInv
  <2>9. CASE OpenFail(p)    BY <2>1, <2>9, OpenFailInv
  <2>10. CASE OpenFill(p)   BY <2>1, <2>10, OpenFillInv
  <2>11. CASE PipeSecond(p) BY <2>1, <2>11, PipeSecondInv
  <2>12. CASE PipeMake(p)   BY <2>1, <2>12, PipeMakeInv
  <2>13. CASE PipeFds(p)    BY <2>1, <2>13, PipeFdsInv
  <2>14. CASE DupCount(p)   BY <2>1, <2>14, DupCountInv
  <2>15. CASE CloseFile(p)  BY <2>1, <2>15, CloseFileInv
  <2>16. CASE CloseObject(p) BY <2>1, <2>16, CloseObjectInv
  <2>17. CASE ForkCopy(p)   BY <2>1, <2>17, ForkCopyInv
  <2>18. CASE ForkEnd(p)    BY <2>1, <2>18, ForkEndInv
  <2>19. CASE ExitClose(p)  BY <2>1, <2>19, ExitCloseInv
  <2> QED
    BY <1>2, <2>2, <2>3, <2>4, <2>5, <2>6, <2>7, <2>8, <2>9, <2>10, <2>11, <2>12, <2>13,
       <2>14, <2>15, <2>16, <2>17, <2>18, <2>19 DEF Step, Continue
<1> QED
  BY <1>1, <1>2 DEF Next

\* In every reachable state the files, inodes and ends of pipes are counted exactly, and
\* the calls under way hold what their variables say (fileclose, filedup, sys_open,
\* sys_pipe, sys_dup, fork, exit).
THEOREM FilesCounted == ASSUME FileTableAssumption PROVE Spec => []FileInv
<1>1. Init => FileInv
  BY InitInv
<1>2. FileInv /\ [Next]_vars => FileInv'
  BY NextInv
<1> QED
  BY <1>1, <1>2, PTL DEF Spec

\* Every file is counted as often as descriptors and running calls refer to it, every
\* inode and end of a pipe is given back once, and a program never has a descriptor
\* of a file that is closed or still being opened.
THEOREM DescriptorsAlwaysExact == ASSUME FileTableAssumption PROVE Spec => []DescriptorsExact
<1>1. FileInv => DescriptorsExact
  <2> SUFFICES ASSUME FileInv PROVE DescriptorsExact
    OBVIOUS
  <2>1. ASSUME NEW p \in Proc, pc[p] # "fill", NEW fd \in Fd, ofile[p][fd] # 0
        PROVE  ftable[ofile[p][fd]].ref > 0 /\ ftable[ofile[p][fd]].type # "none"
    BY <2>1, OpenFiles DEF Good
  <2>2. DescriptorsOpen
    BY <2>1 DEF DescriptorsOpen, FileInv, TypeOK
  <2> QED
    BY <2>2 DEF FileInv, DescriptorsExact, NoPanic
<1> QED
  BY <1>1, FilesCounted, PTL
=============================================================================
