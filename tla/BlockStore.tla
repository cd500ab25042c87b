----------------------------- MODULE BlockStore -----------------------------
(***************************************************************************)
(* What the buffer cache promises to the file system: a store of blocks,   *)
(* each of which one process at a time may hold, read and change.          *)
(***************************************************************************)
CONSTANTS Process, Block, Value, Nobody, Blank

VARIABLES
  content,   \* content[k]: what a process that holds block k sees
  holder     \* holder[k]: the process that holds it

storeVars == <<content, holder>>

Init ==
  /\ content = [k \in Block |-> Blank]
  /\ holder = [k \in Block |-> Nobody]

Take(p, k) ==
  /\ holder[k] = Nobody
  /\ holder' = [holder EXCEPT ![k] = p]
  /\ UNCHANGED content

Write(p, k, v) ==
  /\ holder[k] = p
  /\ content' = [content EXCEPT ![k] = v]
  /\ UNCHANGED holder

Drop(p, k) ==
  /\ holder[k] = p
  /\ holder' = [holder EXCEPT ![k] = Nobody]
  /\ UNCHANGED content

Next ==
  \E p \in Process, k \in Block :
    Take(p, k) \/ (\E v \in Value : Write(p, k, v)) \/ Drop(p, k)

Spec == Init /\ [][Next]_storeVars
=============================================================================
