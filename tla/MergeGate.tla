----------------------------- MODULE MergeGate -----------------------------
(***************************************************************************)
(* The git_pipeline stage of the merge_gate composition and the merge a    *)
(* human asks for (services/merge_gate_service.py), on one repository: the *)
(* verdicts of the gate, the merge lock, the pause in AWAITING_MERGE, the  *)
(* status the engine writes after the stage, the merge, its rollback, and  *)
(* a restart.                                                              *)
(*                                                                         *)
(* Tests, lint and the dry run are synchronous calls, so the stage is one  *)
(* step up to its only suspension: in its finally clause it waits for the  *)
(* heartbeat task, which sleeps up to 30 seconds and never beats, with the *)
(* lock still held.  The stages before it are taken as open, and target    *)
(* counts the merges themselves, not what a workspace was cloned from.     *)
(***************************************************************************)
EXTENDS RunStatus, Naturals, FiniteSets

CONSTANTS
  Runs,
  Pipelines,    \* bound: the pipelines ever started
  run_of,       \* the run of each; a reclaim gives a run a second one
  MaxMishaps    \* bound: failing writes and restarts

ASSUME MergeAssumption ==
  /\ run_of \in [Pipelines -> Runs] /\ "nobody" \notin Runs
  /\ MaxMishaps \in Nat

VARIABLES
  status,         \* of each run
  pipe,           \* of each pipeline: new, before the stage, in its finally
                  \* clause, over
  lease, working, overtaken,     \* the merge lock (see Lease)
  target,         \* runs merged into the target branch
  commit_before,  \* of each run: the merges HEAD had when its gate passed
  elsewhere,      \* another branch is checked out in the repository
  passed,         \* history: runs whose gate passed
  unrecorded,     \* history: merges whose outcome could not be written
  up, mishaps

vars == <<status, pipe, lease, working, overtaken, target, commit_before,
          elsewhere, passed, unrecorded, up, mishaps>>

lock == <<lease, working, overtaken>>
repo == <<target, elsewhere>>
gate == <<commit_before, passed>>
faults == <<unrecorded, up, mishaps>>

L == INSTANCE Lease WITH Workers <- Pipelines, Name <- run_of

Init ==
  /\ status = [r \in Runs |-> "pending"]
  /\ pipe = [p \in Pipelines |-> "new"]
  /\ L!LInit
  /\ target = {} /\ commit_before = [r \in Runs |-> {}] /\ elsewhere = FALSE
  /\ passed = {} /\ unrecorded = {} /\ up = TRUE /\ mishaps = 0

Mishap == mishaps < MaxMishaps /\ mishaps' = mishaps + 1

(***************************************************************************)
(* What update_run_status makes of a status asked for in a state q.        *)
(***************************************************************************)
Accepts(q, s) == s \in VALID_TRANSITIONS(q) \cup {q}

Moved(q, s) == IF Accepts(q, s) THEN s ELSE q

\* Mutant: a refused outcome is left at that.
ended_refused(q) == Moved(q, "done")

\* The engine's done after a stage that handled the run; a refusal raises and
\* ends in the except branch's error.
Ended(q) == IF Accepts(q, "done") THEN "done" ELSE Moved(q, "error")

\* The stage refuses the run before it has the lock.  If the status is
\* refused in its turn, the stage fails.
Refused(q, s) == IF Accepts(q, s) THEN Ended(s) ELSE Moved(q, "error")

\* A verdict under the lock; a refused one is an exception that execute_run
\* catches.
Verdict(q, s) == IF Accepts(q, s) THEN s
                 ELSE Moved(q, "WORKER_CRASHED_RECOVERABLE")

(***************************************************************************)
(* Pipelines.                                                              *)
(***************************************************************************)
Goes(p, w) == pipe' = [pipe EXCEPT ![p] = w]
Becomes(r, s) == status' = [status EXCEPT ![r] = s]

\* The worker or a request starts a pending run; a running one the worker
\* does not hold, with no heartbeat for a minute, is started again.
Start(p) ==
  /\ up /\ pipe[p] = "new" /\ status[run_of[p]] \in {"pending", "running"}
  /\ Becomes(run_of[p], "running") /\ Goes(p, "before")
  /\ UNCHANGED <<lock, repo, gate, faults>>

Refusals == { "WORKER_CRASHED_RECOVERABLE", "HUMAN_APPROVAL_REQUIRED",
              "BASELINE_TAMPER_DETECTED", "RISK_SCORE_TOO_HIGH" }

\* _validate_policy, _validate_risk, a low-risk intent (which the stage does
\* not handle: it fails) or a missing workspace.
Refuses(p) ==
  LET r == run_of[p]
  IN /\ up /\ pipe[p] = "before" /\ Goes(p, "over")
     /\ \/ \E s \in Refusals : Becomes(r, Refused(status[r], s))
        \/ Becomes(r, Moved(status[r], "error"))
     /\ UNCHANGED <<lock, repo, gate, faults>>

FindsLocked(p) ==
  /\ up /\ pipe[p] = "before" /\ Goes(p, "over")
  /\ ~lease.expired
  /\ Becomes(run_of[p], Refused(status[run_of[p]], "MERGE_LOCKED"))
  /\ UNCHANGED <<lock, repo, gate, faults>>

\* The process dies between a refusal and the engine's done: the status stays
\* what the stage wrote.
CutInStage(p) ==
  /\ up /\ pipe[p] = "before" /\ Mishap /\ up' = FALSE
  /\ \E s \in Refusals \cup {"MERGE_LOCKED"} :
       /\ s = "MERGE_LOCKED" => ~lease.expired
       /\ Becomes(run_of[p], Moved(status[run_of[p]], s))
  /\ pipe' = [v \in Pipelines |-> "over"]
  /\ L!LDie
  /\ UNCHANGED <<repo, gate, unrecorded>>

\* Mutant: the lock is taken whatever its expiry.
acquire_always(p) ==
  /\ lease' = L!Fresh(run_of[p])
  /\ overtaken' = working /\ working' = working \cup {p}

\* recover_stale_lock, then acquire_merge_lock.
acquire_merge_lock(p) == L!LAcquire(p)

Failures == { "VALIDATION_FAILED_TESTS", "VALIDATION_FAILED_LINT",
              "MERGE_CONFLICT", "WORKER_CRASHED_RECOVERABLE" }

\* _pipeline, tests, lint or the dry run failing, or anything raising.
Fails(p) ==
  /\ up /\ pipe[p] = "before" /\ acquire_merge_lock(p) /\ Goes(p, "tail")
  /\ \E s \in Failures : Becomes(run_of[p], Verdict(status[run_of[p]], s))
  /\ UNCHANGED <<repo, gate, faults>>

\* _pipeline to its end: the commit to go back to is the HEAD of whatever is
\* checked out.
Passes(p) ==
  LET r == run_of[p]
  IN /\ up /\ pipe[p] = "before" /\ acquire_merge_lock(p) /\ Goes(p, "tail")
     /\ commit_before' =
          [commit_before EXCEPT ![r] = IF elsewhere THEN {} ELSE target]
     /\ passed' = passed \cup {r}
     /\ Becomes(r, Verdict(status[r], "AWAITING_MERGE"))
     /\ UNCHANGED <<repo, faults>>

\* Mutant: the lock outlives the stage.
release_forgotten(p) == UNCHANGED lock

release_merge_lock(p) == L!LRelease(p)

\* The heartbeat task has ended: the lock is released, and the engine writes
\* its done over whatever the status is by now, the pause included.
EndTail(p) ==
  /\ up /\ pipe[p] = "tail" /\ release_merge_lock(p) /\ Goes(p, "over")
  /\ Becomes(run_of[p], Ended(status[run_of[p]]))
  /\ UNCHANGED <<repo, gate, faults>>

\* The TTL runs out, in the tests or after them.
Expire ==
  /\ L!LExpire /\ UNCHANGED <<status, pipe, repo, gate, faults>>

(***************************************************************************)
(* The operator: cancels, merges, works in the repository.                 *)
(***************************************************************************)
Cancel(r) ==
  /\ up /\ Becomes(r, Moved(status[r], "cancelled"))
  /\ UNCHANGED <<pipe, lock, repo, gate, faults>>

ChecksOut ==
  /\ elsewhere' = ~elsewhere
  /\ UNCHANGED <<status, pipe, lock, target, gate, faults>>

\* Mutant: a merge that failed may be asked for again.
mergeable_after_conflict(r) ==
  status[r] \in {"AWAITING_MERGE", "MERGE_CONFLICT"}

mergeable(r) == status[r] = "AWAITING_MERGE"

\* perform_manual_merge, which does not take the lock and does not suspend.
\* It begins with a checkout of the target branch.
Merges(r) ==
  /\ up /\ mergeable(r) /\ elsewhere' = FALSE
  /\ UNCHANGED <<pipe, gate>>

\* A conflict: MERGE_CONFLICT is refused from the pause, the request fails,
\* and the run still waits.
MergeConflicts(r) ==
  /\ Merges(r) /\ Becomes(r, Moved(status[r], "MERGE_CONFLICT"))
  /\ UNCHANGED <<lock, target, faults>>

MergeLands(r) ==
  /\ Merges(r) /\ target' = target \cup {r}
  /\ Becomes(r, Moved(status[r], "done"))
  /\ UNCHANGED <<lock, faults>>

\* Mutant: the rollback goes to the commit the merge has just made.
rollback_to_head(r) == target \cup {r}

\* reset --hard to commit_before: what landed since that gate goes, too.
rollback_to_commit(r) == commit_before[r]

\* Writing the outcome fails before or after the event that says done; after
\* it, the rollback happens all the same and its status is refused.
MergeUndone(r) ==
  /\ Merges(r) /\ Mishap /\ target' = rollback_to_commit(r)
  /\ \/ Becomes(r, Moved(status[r], "ROLLBACK_EXECUTED"))
     \/ Becomes(r, Moved("done", "ROLLBACK_EXECUTED"))
  /\ UNCHANGED <<lock, unrecorded, up>>

\* The rollback fails, too.
MergeStuck(r) ==
  /\ Merges(r) /\ Mishap /\ target' = target \cup {r}
  /\ unrecorded' = unrecorded \cup {r}
  /\ Becomes(r, Moved(status[r], "WORKER_CRASHED_RECOVERABLE"))
  /\ UNCHANGED <<lock, up>>

Dies ==
  /\ Mishap /\ up' = FALSE
  /\ pipe' = [v \in Pipelines |-> "over"] /\ L!LDie

\* The process dies between the merge and the status.
MergeCut(r) ==
  /\ up /\ mergeable(r) /\ elsewhere' = FALSE /\ Dies
  /\ target' = target \cup {r} /\ unrecorded' = unrecorded \cup {r}
  /\ UNCHANGED <<status, gate>>

GoDown ==
  /\ up /\ Dies /\ UNCHANGED <<status, repo, gate, unrecorded>>

\* The startup reconcile marks what was running; AWAITING_MERGE, MERGE_LOCKED
\* and the rest stay, and so does the lock's file.
ComeUp ==
  /\ ~up /\ up' = TRUE
  /\ status' = [r \in Runs |->
                  IF status[r] = "running" THEN "error" ELSE status[r]]
  /\ UNCHANGED <<pipe, lock, repo, gate, unrecorded, mishaps>>

Stage(p) == Refuses(p) \/ FindsLocked(p) \/ Fails(p) \/ Passes(p)

Next ==
  \/ \E p \in Pipelines : Start(p) \/ Stage(p) \/ CutInStage(p) \/ EndTail(p)
  \/ \E r \in Runs :
       \/ Cancel(r) \/ MergeConflicts(r) \/ MergeLands(r) \/ MergeUndone(r)
       \/ MergeStuck(r) \/ MergeCut(r)
  \/ Expire \/ ChecksOut \/ GoDown \/ ComeUp

Spec == Init /\ [][Next]_vars

(***************************************************************************)
(* Fairness: a pipeline that has begun goes on (its calls return or are    *)
(* timed out, the heartbeat's sleep ends), unless the server goes down.    *)
(***************************************************************************)
FairSpec ==
  Spec /\ \A p \in Pipelines : WF_vars(Stage(p)) /\ WF_vars(EndTail(p))

-----------------------------------------------------------------------------
Pipes == { "new", "before", "tail", "over" }

\* Type correctness; the pipelines in their finally clause are those which
\* have acquired the lock and not released it.
TypeOK ==
  /\ status \in [Runs -> Statuses] /\ pipe \in [Pipelines -> Pipes]
  /\ L!LTypeOK /\ working = { p \in Pipelines : pipe[p] = "tail" }
  /\ target \subseteq Runs /\ commit_before \in [Runs -> SUBSET Runs]
  /\ elsewhere \in BOOLEAN
  /\ passed \subseteq Runs /\ unrecorded \subseteq Runs
  /\ up \in BOOLEAN /\ mishaps \in 0..MaxMishaps

\* The merge lock behaves as the lease of _lock.py: gates of several runs, or
\* two of one run, which share its name, with expiry, release and restarts.
ImplementsLease == L!LSpec

\* Nothing is merged whose gate has not passed (execute_run, _pipeline and
\* perform_manual_merge), whatever a second pipeline of the run, a restart or
\* a cancellation did in between.
MergedPassedGate == target \subseteq passed

\* A run whose status is not done has left nothing in the target branch,
\* unless its outcome could not be written: a merge that is reported as
\* failed has been rolled back, and no later rollback to another run's
\* commit_before brings it back (perform_manual_merge).
LandedIsDone == \A r \in target : status[r] = "done" \/ r \in unrecorded

\* A run that has reached its gate does not stay in a status the gate wrote:
\* it ends, or the server goes down (execute_run, _execute_run).
GateEnds ==
  \A p \in Pipelines :
    pipe[p] \in {"before", "tail"} ~>
      \/ status[run_of[p]] \in TERMINAL_RUN_STATUSES \ {"MERGE_CONFLICT"}
      \/ ~up

\* "Mandatory Pause": a run leaves AWAITING_MERGE as done only by a merge.
PauseIsMandatory ==
  [][\A r \in Runs : status[r] = "AWAITING_MERGE" /\ status'[r] = "done"
       => r \in target']_vars
=============================================================================
