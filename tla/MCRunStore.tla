----------------------------- MODULE MCRunStore -----------------------------
(***************************************************************************)
(* RunStore for TLC.                                                       *)
(***************************************************************************)
EXTENDS RunStore

CONSTANTS m0, m1

\* Statuses of each kind: active, terminal for good, terminal but not final,
\* resumable.
MCTargets ==
  {"pending", "running", "done", "MERGE_CONFLICT", "HUMAN_APPROVAL_REQUIRED"}

MCMetas == {m0, m1}

MCCounts == {0, 1}
=============================================================================
