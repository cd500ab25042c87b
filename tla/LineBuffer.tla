----------------------------- MODULE LineBuffer -----------------------------
(***************************************************************************)
(* What the console promises to readers: what is typed can be erased until *)
(* the line is finished, by its newline, an end of file or for want of     *)
(* room, and then comes out once, in the order in which it was typed.      *)
(***************************************************************************)
EXTENDS Naturals, Sequences

CONSTANTS Size, Char, Ends

VARIABLES finished, edited

lineVars == <<finished, edited>>

Init == finished = <<>> /\ edited = <<>>

Type(c) ==
  LET n == Len(finished) + Len(edited)
  IN /\ n < Size
     /\ IF c \in Ends \/ n + 1 = Size
        THEN finished' = finished \o Append(edited, c) /\ edited' = <<>>
        ELSE finished' = finished /\ edited' = Append(edited, c)

Erase ==
  /\ edited # <<>>
  /\ edited' = SubSeq(edited, 1, Len(edited) - 1)
  /\ finished' = finished

EraseLine == edited' = <<>> /\ finished' = finished

Take == finished # <<>> /\ finished' = Tail(finished) /\ edited' = edited

Next == (\E c \in Char : Type(c)) \/ Erase \/ EraseLine \/ Take

Spec == Init /\ [][Next]_lineVars
=============================================================================
