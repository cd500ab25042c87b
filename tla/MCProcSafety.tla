---------------------------- MODULE MCProcSafety ----------------------------
(***************************************************************************)
(* Proc on a small table; directories and processors are interchangeable.  *)
(* The programs of a behaviour are of one of three kinds: processes, up to *)
(* three at a time, that call kill(); processes and threads that do not;   *)
(* and processes that fork until the table is full.                        *)
(***************************************************************************)
EXTENDS Proc, TLC

VARIABLE programs

AllInit == Init /\ programs \in {"kill", "threads", "fork"}

\* A bound: the pids that are handed out, with those of callers about to take one.
Pids(k) == nextpid' + Cardinality({s \in Slot : pc'[s] = "alloc"}) <= k + 1

NoCall(places) == \A s \in Slot : pc'[s] \notin places
NoClone == \A s \in Slot : call'[s] # "clone"

Keep ==
  \/ /\ programs = "kill"
     /\ Pids(4) /\ state'[NPROC] = "UNUSED"
     /\ NoClone /\ NoCall({"join"})
  \/ /\ programs = "threads"
     /\ Pids(4)
     /\ NoCall({"kill"})
  \/ /\ programs = "fork"
     /\ NoClone /\ NoCall({"wait", "join", "kill", "sleep", "exit"})

AllNext == Next /\ Keep /\ UNCHANGED programs

AllSpec == AllInit /\ [][AllNext]_<<vars, programs>>

Symmetry == Permutations(CPU) \cup Permutations(Pgdir)
=============================================================================
