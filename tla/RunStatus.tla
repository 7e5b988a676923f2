----------------------------- MODULE RunStatus -----------------------------
(***************************************************************************)
(* The vocabulary every module about runs shares: the statuses a run can   *)
(* have, their classification (services/run_lifecycle.py) and the status   *)
(* machine that update_run_status enforces (services/ops/_base.py).        *)
(***************************************************************************)

ACTIVE_RUN_STATUSES ==
  { "pending", "running", "awaiting_subagents", "awaiting_review",
    "MERGE_LOCKED", "WORKER_CRASHED_RECOVERABLE",
    "HUMAN_APPROVAL_REQUIRED", "AWAITING_MERGE" }

TERMINAL_RUN_STATUSES ==
  { "done", "error", "cancelled", "MERGE_CONFLICT",
    "VALIDATION_FAILED_TESTS", "VALIDATION_FAILED_LINT",
    "RISK_SCORE_TOO_HIGH", "BASELINE_TAMPER_DETECTED", "PIPELINE_TIMEOUT",
    "WORKTREE_CORRUPTED", "ROLLBACK_EXECUTED" }

RESUMABLE_RUN_STATUSES == { "HUMAN_APPROVAL_REQUIRED" }

Statuses == ACTIVE_RUN_STATUSES \cup TERMINAL_RUN_STATUSES

(***************************************************************************)
(* VALID_TRANSITIONS.get(current, set()): a status that is no key of the   *)
(* dictionary has no successor.  MERGE_CONFLICT is the one status that is  *)
(* classified terminal and still has successors.                           *)
(***************************************************************************)
FromRunning ==
  { "pending", "done", "error", "cancelled", "awaiting_subagents",
    "awaiting_review", "MERGE_LOCKED", "MERGE_CONFLICT",
    "VALIDATION_FAILED_TESTS", "VALIDATION_FAILED_LINT",
    "RISK_SCORE_TOO_HIGH", "BASELINE_TAMPER_DETECTED", "PIPELINE_TIMEOUT",
    "WORKTREE_CORRUPTED", "ROLLBACK_EXECUTED",
    "WORKER_CRASHED_RECOVERABLE", "HUMAN_APPROVAL_REQUIRED",
    "AWAITING_MERGE" }

VALID_TRANSITIONS(current) ==
  CASE current = "pending" ->
         (FromRunning \ {"pending", "AWAITING_MERGE"}) \cup {"running"}
    [] current = "running" -> FromRunning
    [] current = "awaiting_review" ->
         {"running", "pending", "error", "cancelled"}
    [] current = "awaiting_subagents" -> {"running", "error", "cancelled"}
    [] current = "MERGE_LOCKED" ->
         {"running", "error", "cancelled", "MERGE_CONFLICT"}
    [] current = "MERGE_CONFLICT" -> {"pending", "error", "cancelled"}
    [] current = "HUMAN_APPROVAL_REQUIRED" ->
         {"pending", "running", "cancelled", "error"}
    [] current = "AWAITING_MERGE" ->
         {"done", "error", "cancelled", "ROLLBACK_EXECUTED",
          "WORKER_CRASHED_RECOVERABLE"}
    [] current = "WORKER_CRASHED_RECOVERABLE" ->
         {"pending", "error", "cancelled"}
    [] OTHER -> {}
=============================================================================
