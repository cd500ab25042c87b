------------------------------- MODULE UMalloc -------------------------------
(***************************************************************************)
(* user/umalloc.c: malloc(), morecore() and free() of Kernighan and        *)
(* Ritchie, with the spin lock and the flag in_malloc that were added for  *)
(* threads.                                                                *)
(*                                                                         *)
(* The unit is the Header.  The circular list is kept in the order of the  *)
(* addresses: it is a sequence here, that begins with base, which lies     *)
(* below the heap.  A search of the list with what follows from it is one  *)
(* step, so two threads in the list at once are seen by where they are.    *)
(***************************************************************************)
EXTENDS Integers, Sequences, FiniteSetsExt, SequencesExt

CONSTANTS
  Thread,
  Units,    \* what programs ask for, with the header
  MORE,     \* the least that morecore() asks sbrk() for: 4096 units
  Heap,     \* the units that sbrk() can give the process in all
  Serial,   \* do programs call malloc() and free() from one thread at a time?
  NoThread  \* holder of the free lock

UMallocAssumption ==
  /\ MORE \in Nat \ {0} /\ Heap \in Nat
  /\ Units \subseteq Nat \ {0}
  /\ Serial \in BOOLEAN
  /\ NoThread \notin Thread

VARIABLES
  list,     \* the free blocks, in a circle: address and size
  freep,    \* the address of the block that freep points to
  brk,      \* the size of the heap
  given,    \* the blocks that the program has
  lock, in_malloc,
  pc, want, \* per thread: its place, the units it wants or the address it frees
  refused   \* the units that the last malloc() to end wanted in vain, or 0

vars == <<list, freep, brk, given, lock, in_malloc, pc, want, refused>>

Base == [at |-> -2, size |-> 0]

Init ==
  /\ list = <<Base>>
  /\ freep = Base.at
  /\ brk = 0
  /\ given = {}
  /\ lock = NoThread
  /\ in_malloc = FALSE
  /\ pc = [t \in Thread |-> "user"]
  /\ want = [t \in Thread |-> 0]
  /\ refused = 0

-----------------------------------------------------------------------------
Become(t, l) == pc' = [pc EXCEPT ![t] = l]

Memory == <<list, freep, brk, given>>

\* A thread may call the allocator.
MayCall(t) == pc[t] = "user" /\ (Serial => \A u \in Thread : pc[u] = "user")

Succ(i) == (i % Len(list)) + 1
Pred(i) == IF i = 1 THEN Len(list) ELSE i - 1

\* How far block i is from freep on the way around the list: freep itself comes last.
Turn(i) ==
  LET f == CHOOSE j \in DOMAIN list : list[j].at = freep
  IN IF i > f THEN i - f ELSE i - f + Len(list)

\* The first block on the way that is large enough, if there is one.
FirstFit(n) ==
  LET fits == {i \in DOMAIN list : list[i].size >= n}
  IN {i \in fits : \A j \in fits : Turn(i) <= Turn(j)}

\* (Faulty: the block is not joined with the one that follows.)
FreedApart(b) ==
  LET k == Cardinality({i \in DOMAIN list : list[i].at < b.at})
      p == list[k]
  IN IF p.at + p.size = b.at THEN [list EXCEPT ![k].size = @ + b.size]
     ELSE InsertAt(list, k + 1, b)

\* The list after free() of block b, and where freep is then.
Freed(b) ==
  LET k == Cardinality({i \in DOMAIN list : list[i].at < b.at})
      p == list[k]
      right == k < Len(list) /\ b.at + b.size = list[k + 1].at
      joined == IF right THEN [b EXCEPT !.size = @ + list[k + 1].size] ELSE b
      rest == SubSeq(list, IF right THEN k + 2 ELSE k + 1, Len(list))
  IN IF p.at + p.size = b.at
     THEN SubSeq(list, 1, k - 1) \o <<[p EXCEPT !.size = @ + joined.size]>> \o rest
     ELSE SubSeq(list, 1, k) \o <<joined>> \o rest

FreepAt(b) == list[Cardinality({i \in DOMAIN list : list[i].at < b.at})].at

-----------------------------------------------------------------------------
\* malloc()

Malloc(t, n) ==
  /\ MayCall(t)
  /\ in_malloc' = TRUE
  /\ want' = [want EXCEPT ![t] = n]
  /\ Become(t, "acquire")
  /\ UNCHANGED <<Memory, lock, refused>>

\* spinlock_acquire() in malloc() and in morecore().
Acquire(t) ==
  /\ pc[t] \in {"acquire", "again"}
  /\ lock = NoThread
  /\ lock' = t
  /\ Become(t, IF pc[t] = "acquire" THEN "search" ELSE "sbrk")
  /\ UNCHANGED <<Memory, in_malloc, want, refused>>

\* Around the list. The end of a block that is large enough is taken off.
Search(t) ==
  LET n == want[t]
  IN /\ pc[t] = "search"
     /\ \E i \in FirstFit(n) :
          LET p == list[i]
          IN /\ list' = IF p.size = n THEN RemoveAt(list, i)
                        ELSE [list EXCEPT ![i].size = @ - n]
             /\ freep' = list[Pred(i)].at
             /\ given' = given \cup {[at |-> p.at + p.size - n, size |-> n]}
             /\ refused' = 0
             /\ Become(t, "release")
     /\ UNCHANGED <<brk, lock, in_malloc, want>>

\* No block is large enough: morecore() takes the lock if in_malloc is not set.
Morecore(t) ==
  /\ pc[t] = "search"
  /\ FirstFit(want[t]) = {}
  /\ Become(t, IF in_malloc THEN "sbrk" ELSE "again")
  /\ UNCHANGED <<Memory, lock, in_malloc, want, refused>>

\* sbrk() of nu units fails, or gives the block that is then freed.
Sbrk(t) ==
  LET nu == Max({want[t], MORE})
  IN /\ pc[t] = "sbrk"
     /\ IF brk + nu > Heap
        THEN Become(t, "release") /\ refused' = want[t] /\ UNCHANGED <<brk, want>>
        ELSE /\ brk' = brk + nu
             /\ Become(t, "link")
             /\ UNCHANGED <<want, refused>>
     /\ UNCHANGED <<list, freep, given, lock, in_malloc>>

\* free() of the new block, in morecore().
Link(t) ==
  LET nu == Max({want[t], MORE})
      b == [at |-> brk - nu, size |-> nu]
  IN /\ pc[t] = "link"
     /\ list' = Freed(b)
     /\ freep' = FreepAt(b)
     /\ Become(t, "linked")
     /\ UNCHANGED <<brk, given, lock, in_malloc, want, refused>>

\* morecore() gives the lock back if in_malloc is not set, and the search goes on.
MorecoreEnds(t) ==
  /\ pc[t] = "linked"
  /\ lock' = IF in_malloc THEN lock ELSE NoThread
  /\ Become(t, "search")
  /\ UNCHANGED <<Memory, in_malloc, want, refused>>

Release(t) ==
  /\ pc[t] = "release"
  /\ lock' = NoThread
  /\ Become(t, "clear")
  /\ UNCHANGED <<Memory, in_malloc, want, refused>>

Clear(t) ==
  /\ pc[t] = "clear"
  /\ in_malloc' = FALSE
  /\ want' = [want EXCEPT ![t] = 0]
  /\ Become(t, "user")
  /\ UNCHANGED <<Memory, lock, refused>>

-----------------------------------------------------------------------------
\* free(), which takes no lock

Free(t, b) ==
  /\ MayCall(t)
  /\ given' = given \ {b}
  /\ list' = Freed(b)
  /\ freep' = FreepAt(b)
  /\ refused' = 0
  /\ Become(t, "free")
  /\ UNCHANGED <<brk, lock, in_malloc, want>>

FreeReturns(t) ==
  /\ pc[t] = "free"
  /\ Become(t, "user")
  /\ UNCHANGED <<Memory, lock, in_malloc, want, refused>>

Continue(t) ==
  \/ Acquire(t) \/ Search(t) \/ Morecore(t) \/ Sbrk(t) \/ Link(t) \/ MorecoreEnds(t)
  \/ Release(t) \/ Clear(t) \/ FreeReturns(t)

Next ==
  \E t \in Thread :
    \/ Continue(t)
    \/ \E n \in Units : Malloc(t, n)
    \/ \E b \in given : Free(t, b)

Spec == Init /\ [][Next]_vars

-----------------------------------------------------------------------------
\* Properties

Space == INSTANCE Region WITH
  Need <- Units, words <- brk,
  blocks <- {[at |-> b.at, len |-> b.size] : b \in given}

\* Called by one thread at a time, malloc() gives out blocks that are apart, gives
\* memory out again once it was freed, joined with its neighbours, and fails only
\* when the heap has no room and cannot grow.
RegionSpec == Space!Spec

\* No two threads are in the list together: in the search of malloc(), in the free() that
\* morecore() calls or in the program's own.  (It fails when threads call at the same time:
\* free() takes no lock.)
ListGuarded == Cardinality({t \in Thread : pc[t] \in {"search", "link", "free"}}) <= 1
=============================================================================
