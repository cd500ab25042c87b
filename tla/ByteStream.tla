----------------------------- MODULE ByteStream -----------------------------
(***************************************************************************)
(* What a pipe promises to its users: a queue of at most Size bytes with a *)
(* read end and a write end.  Bytes come out in the order in which they    *)
(* went in, each of them once; nothing goes in after the write end is      *)
(* closed and nothing comes out after the read end is.                     *)
(***************************************************************************)
EXTENDS Naturals, Sequences

CONSTANTS Size, Byte

VARIABLES bytes, canRead, canWrite

streamVars == <<bytes, canRead, canWrite>>

\* A pipe that was given back: both ends closed and nothing kept.
Init == bytes = <<>> /\ canRead = FALSE /\ canWrite = FALSE

Open ==
  /\ ~ canRead /\ ~ canWrite
  /\ bytes' = <<>> /\ canRead' = TRUE /\ canWrite' = TRUE

Put(b) ==
  /\ canWrite /\ Len(bytes) < Size
  /\ bytes' = Append(bytes, b)
  /\ UNCHANGED <<canRead, canWrite>>

Get ==
  /\ canRead /\ bytes # <<>>
  /\ bytes' = Tail(bytes)
  /\ UNCHANGED <<canRead, canWrite>>

CloseRead  == canRead /\ canRead' = FALSE /\ UNCHANGED <<bytes, canWrite>>
CloseWrite == canWrite /\ canWrite' = FALSE /\ UNCHANGED <<bytes, canRead>>

Discard ==
  /\ ~ canRead /\ ~ canWrite
  /\ bytes' = <<>>
  /\ UNCHANGED <<canRead, canWrite>>

Next ==
  Open \/ (\E b \in Byte : Put(b)) \/ Get \/ CloseRead \/ CloseWrite \/ Discard

Spec == Init /\ [][Next]_streamVars
=============================================================================
