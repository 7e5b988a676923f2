---------------------------- MODULE MCRunWriters ----------------------------
(***************************************************************************)
(* RunWriters for TLC.                                                     *)
(***************************************************************************)
EXTENDS RunWriters

CONSTANT m0

MCTargets == {"running", "done", "error"}

MCMetas == {m0}

MCCounts == {0, 1}
=============================================================================
