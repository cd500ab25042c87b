------------------------------- MODULE Region -------------------------------
(***************************************************************************)
(* What an allocator of contiguous memory promises: blocks that are long   *)
(* enough and apart from each other, and a refusal only when there is no   *)
(* free run of words that is long enough.  The memory may be made larger.  *)
(***************************************************************************)
EXTENDS Naturals

CONSTANT Need  \* lengths that are asked for, with what the allocator adds

VARIABLES
  words,   \* length of the memory
  blocks,  \* the blocks in use: where they begin, and their length
  refused  \* the length that the last call asked for in vain, or 0

regionVars == <<words, blocks, refused>>

WordsOf(b) == b.at .. b.at + b.len - 1

Free == (0 .. words - 1) \ UNION {WordsOf(b) : b \in blocks}

Init == words \in Nat /\ blocks = {} /\ refused = 0

Alloc(n) ==
  \E b \in blocks' \ blocks :
    /\ b.len >= n
    /\ WordsOf(b) \subseteq Free
    /\ blocks' = blocks \cup {b}
    /\ refused' = 0
    /\ words' = words

Refuse(n) ==
  /\ refused' = n
  /\ \A at \in Free : ~ (at .. at + n - 1 \subseteq Free)
  /\ UNCHANGED <<words, blocks>>

Release ==
  \E b \in blocks : blocks' = blocks \ {b} /\ refused' = 0 /\ words' = words

Grow == words' > words /\ UNCHANGED <<blocks, refused>>

Next == Release \/ Grow \/ \E n \in Need : Alloc(n) \/ Refuse(n)

Spec == Init /\ [][Next]_regionVars
=============================================================================
