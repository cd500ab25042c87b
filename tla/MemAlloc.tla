------------------------------ MODULE MemAlloc ------------------------------
(***************************************************************************)
(* lab3, mem.c: mem_init(), mem_alloc() with its three placements and      *)
(* mem_free(), by programs that free what they have.                       *)
(*                                                                         *)
(* The unit is the word of 8 bytes to which requests are rounded up.  The  *)
(* nodes of the free list and the headers lie in the region itself; the    *)
(* links between nodes are the order of the sequence.                      *)
(***************************************************************************)
EXTENDS Integers, Sequences, SequencesExt

CONSTANTS Total,  \* words of the region
          Size    \* requests, in words

MemAllocAssumption == Total \in Nat /\ Total >= 2 /\ Size \subseteq Nat \ {0}

NODE == 2    \* sizeof(Node)
HEADER == 1  \* sizeof(Header)

VARIABLES
  list,    \* the free list from base on: where each node is, and its size
  header,  \* of the blocks that the program has: the size in the header at an
           \*   address, else 0 (headers of freed blocks are not read again)
  refused  \* what the last call wanted when there was no space, or 0

vars == <<list, header, refused>>

Given == {a \in DOMAIN header : header[a] # 0}

\* mem_init()
Init ==
  /\ list = <<[at |-> 0, size |-> Total - NODE]>>
  /\ header = [a \in 0 .. Total - 1 |-> 0]
  /\ refused = 0

\* The nodes that are large enough for need words, and the one among them that each
\* placement takes.
Fits(need) == {i \in DOMAIN list : list[i].size + NODE >= need}

FirstFit(need) == {i \in Fits(need) : \A j \in Fits(need) : i <= j}

BestFit(need) ==
  {i \in Fits(need) : \A j \in Fits(need) :
     list[i].size < list[j].size \/ (list[i].size = list[j].size /\ i <= j)}

WorstFit(need) ==
  {i \in Fits(need) : \A j \in Fits(need) :
     list[i].size > list[j].size \/ (list[i].size = list[j].size /\ i >= j)}

\* mem_alloc(): what is left of the node becomes a node of its own if it can hold one.
MemAlloc(size) ==
  LET need == size + HEADER
      place(i) ==
        LET n == list[i]
            remain == n.size + NODE - need
            split == remain >= NODE
        IN /\ list' = IF split
                      THEN [list EXCEPT ![i] = [at |-> n.at + need, size |-> n.size - need]]
                      ELSE RemoveAt(list, i)
           /\ header' = [header EXCEPT ![n.at] = IF split THEN size ELSE size + remain]
           /\ refused' = 0
  IN IF Fits(need) = {} THEN refused' = need /\ UNCHANGED <<list, header>>
     ELSE \E i \in FirstFit(need) \cup BestFit(need) \cup WorstFit(need) : place(i)

\* The nodes that mem_free() passes on its way: they end before address a.
Before(a) ==
  {i \in DOMAIN list : \A j \in 1 .. i : list[j].at + list[j].size + NODE <= a}

\* The list with node t behind the k-th, or as a part of it.
Insert(t, k) ==
  IF k > 0 /\ list[k].at + list[k].size + NODE = t.at
  THEN [list EXCEPT ![k].size = @ + NODE + t.size]
  ELSE InsertAt(list, k + 1, t)

\* (Faulty: freed memory is joined with the node before it only.)
MergeNone(l, j) == l

\* The list l with its node j and the one behind it in one, if they touch.
MergeRight(l, j) ==
  IF j < Len(l) /\ l[j].at + NODE + l[j].size = l[j + 1].at
  THEN RemoveAt([l EXCEPT ![j].size = @ + NODE + l[j + 1].size], j + 1)
  ELSE l

\* mem_free()
MemFree(a) ==
  LET t == [at |-> a, size |-> header[a] + HEADER - NODE]
      k == Cardinality(Before(a))
      l == Insert(t, k)
  IN /\ list' = MergeRight(l, IF Len(l) = Len(list) THEN k ELSE k + 1)
     /\ header' = [header EXCEPT ![a] = 0]
     /\ refused' = 0

Next == (\E size \in Size : MemAlloc(size)) \/ (\E a \in Given : MemFree(a))

Spec == Init /\ [][Next]_vars

-----------------------------------------------------------------------------
Blocks == {[at |-> a, len |-> header[a] + HEADER] : a \in Given}

Memory == INSTANCE Region WITH
  words <- Total, Need <- {size + HEADER : size \in Size}, blocks <- Blocks

\* Every block is as long as asked for and apart from the others, nothing of the
\* region is ever lost, and memory that was freed piece by piece is one piece
\* again: a request is refused only if no free run of words would do.
RegionSpec == Memory!Spec
=============================================================================
