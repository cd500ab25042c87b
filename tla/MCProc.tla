------------------------------- MODULE MCProc -------------------------------
(* Proc on small tables; directories and processors are interchangeable.   *)
EXTENDS Proc, TLC

Symmetry == Permutations(CPU) \cup Permutations(Pgdir)

\* Symmetry cannot be used where liveness is checked.  There the directories
\* are numbers, a fork takes the least one that is free, and exec() (which
\* only trades one directory for another) is left out: the properties checked
\* do not tell directories apart.
LeastFree ==
  /\ \A d \in live' \ live, e \in Pgdir : e < d => e \in live
  /\ live \subseteq live' \/ live' \subseteq live

OrderedFairSpec ==
  Init /\ live = {1} /\ [][Next /\ LeastFree]_vars /\ Fairness
=============================================================================
