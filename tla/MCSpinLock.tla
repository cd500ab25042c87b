----------------------------- MODULE MCSpinLock -----------------------------
(***************************************************************************)
(* SpinLock on small sets.  The processors, the processes and the locks of *)
(* one kind are interchangeable.                                           *)
(***************************************************************************)
EXTENDS SpinLock, TLC

Symmetry == Permutations(CPU) \cup Permutations(Proc)
=============================================================================
