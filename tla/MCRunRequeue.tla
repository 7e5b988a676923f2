---------------------------- MODULE MCRunRequeue ----------------------------
(***************************************************************************)
(* RunRequeue for TLC.                                                     *)
(***************************************************************************)
EXTENDS RunRequeue

CONSTANT m0

MCTargets == {"running", "cancelled", "done", "error"}

MCMetas == {m0}

MCCounts == {0, 1}
=============================================================================
