---------------------------- MODULE MCChildRuns ----------------------------
(* A task that may be spawned twice, one that depends on it, and a child   *)
(* that a request spawns and a human has to approve.                       *)
EXTENDS ChildRuns

CONSTANTS build, test

MCTasks == {build, test}
MCDepends == [t \in MCTasks |-> IF t = test THEN {build} ELSE {}]
MCNeedsHuman == {Direct}
MCMaxChildren ==
  [t \in MCTasks \cup {Direct} |-> IF t = build THEN 2 ELSE 1]
=============================================================================
