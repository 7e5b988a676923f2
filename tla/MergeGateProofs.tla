--------------------------- MODULE MergeGateProofs ---------------------------
(***************************************************************************)
(* MergeGate, for any number of runs, pipelines, failures and restarts: it *)
(* implements the lease, and nothing lands that has not passed its gate or *)
(* is reported as something else than done.                                *)
(***************************************************************************)
EXTENDS MergeGate, TLAPS

LP == INSTANCE LeaseProofs WITH Workers <- Pipelines, Name <- run_of

\* TypeOK without the lease.
Rest ==
  /\ status \in [Runs -> Statuses] /\ pipe \in [Pipelines -> Pipes]
  /\ working = { p \in Pipelines : pipe[p] = "tail" }
  /\ target \subseteq Runs /\ commit_before \in [Runs -> SUBSET Runs]
  /\ elsewhere \in BOOLEAN
  /\ passed \subseteq Runs /\ unrecorded \subseteq Runs
  /\ up \in BOOLEAN /\ mishaps \in 0..MaxMishaps

Settled(r) == status[r] = "done" \/ r \in unrecorded

\* Merged, or merged when some gate passed: where a rollback may lead to.
Landed(r) == r \in target \/ \E q \in Runs : r \in commit_before[q]

\* What landed has passed its gate and is settled, and stays so after a
\* rollback to the commit of any gate; who waits for the merge has passed.
History ==
  /\ \A r \in Runs : Landed(r) => r \in passed /\ Settled(r)
  /\ \A r \in Runs : status[r] = "AWAITING_MERGE" => r \in passed

IInv == Rest /\ LP!LInv /\ History

-----------------------------------------------------------------------------
\* No status leaves done, and only a passed gate leads into the pause.
Tame ==
  /\ status' \in [Runs -> Statuses]
  /\ \A r \in Runs :
       /\ status[r] = "done" => status'[r] = "done"
       /\ status'[r] = "AWAITING_MERGE" =>
            status[r] = "AWAITING_MERGE" \/ r \in passed'

\* Nothing is forgotten, and what lands now is passed and settled.
Grows ==
  /\ passed \subseteq passed' /\ unrecorded \subseteq unrecorded'
  /\ \A r \in target' : Landed(r) \/ (r \in passed' /\ Settled(r)')
  /\ \A q \in Runs : \A r \in commit_before'[q] : Landed(r)

\* What every step of the system does.
Step == [L!LNext]_(L!lvars) /\ Rest' /\ Tame /\ Grows

\* What the step lemmas below show of each action is enough for the invariant.
LEMMA StepKeeps == IInv /\ Step => IInv'
<1> SUFFICES ASSUME IInv, Step
             PROVE  IInv'
  OBVIOUS
<1>1. "nobody" \notin LP!Names
  BY MergeAssumption DEF LP!Names
<1>2. [LP!LNext]_(LP!lvars)
  BY DEF Step, L!LNext, LP!LNext, L!lvars, LP!lvars, L!LAcquire, LP!LAcquire,
     L!LBeat, LP!LBeat, L!LRelease, LP!LRelease, L!LExpire, LP!LExpire,
     L!LDie, LP!LDie, L!Fresh, LP!Fresh, L!NoLease, LP!NoLease, L!Owns, LP!Owns
<1>3. LP!LInv'
  BY <1>1, <1>2, LP!LeaseStep DEF IInv
<1>4. ASSUME NEW r \in Runs, Landed(r)'
      PROVE  r \in passed' /\ Settled(r)'
  <2>1. Landed(r) \/ (r \in passed' /\ Settled(r)')
    BY <1>4 DEF Landed, Step, Grows
  <2>2. CASE Landed(r)
    BY <2>2 DEF IInv, History, Step, Grows, Tame, Settled
  <2>3. QED
    BY <2>1, <2>2
<1>5. ASSUME NEW r \in Runs, status'[r] = "AWAITING_MERGE"
      PROVE  r \in passed'
  BY <1>5 DEF IInv, History, Step, Grows, Tame
<1>6. QED
  BY <1>3, <1>4, <1>5 DEF IInv, History, Step

-----------------------------------------------------------------------------
(***************************************************************************)
(* What a request for a status leaves a run in.                            *)
(***************************************************************************)
Written == Refusals \cup Failures \cup
  { "pending", "running", "MERGE_LOCKED", "AWAITING_MERGE", "done", "error",
    "cancelled", "ROLLBACK_EXECUTED" }

\* q may become s: s is a status, not out of done, not into the pause.
Lawful(q, s) ==
  /\ s \in Statuses /\ (q = "done" => s = "done")
  /\ s = "AWAITING_MERGE" => q = "AWAITING_MERGE"

\* A status written by update_run_status is reached lawfully.
LEMMA MovedLawful ==
  \A q \in Statuses, s \in Written :
    Lawful(q, Moved(q, s)) \/ (s = "AWAITING_MERGE" /\ Moved(q, s) = s)
BY DEF Moved, Accepts, Lawful, Written, Refusals, Failures, Statuses,
   ACTIVE_RUN_STATUSES, TERMINAL_RUN_STATUSES, VALID_TRANSITIONS, FromRunning

\* The ends of a stage, of a refusal and of a verdict.
LEMMA EndsLawful ==
  ASSUME NEW q \in Statuses
  PROVE  /\ Lawful(q, Ended(q))
         /\ \A s \in Refusals \cup {"MERGE_LOCKED"} : Lawful(q, Refused(q, s))
         /\ \A s \in Failures : Lawful(q, Verdict(q, s))
         /\ Verdict(q, "AWAITING_MERGE") \in Statuses
         /\ q = "done" => Verdict(q, "AWAITING_MERGE") = "done"
<1>1. Accepts("done", "done")
  BY DEF Accepts
<1>2. \A s \in Written \ {"done"} : ~Accepts("done", s)
  BY DEF Accepts, VALID_TRANSITIONS
<1>3. {"done", "error", "MERGE_LOCKED", "AWAITING_MERGE",
        "WORKER_CRASHED_RECOVERABLE"} \cup Refusals \cup Failures \subseteq Written
  BY DEF Written, Refusals, Failures
<1>4. Written \subseteq Statuses
  BY DEF Written, Refusals, Failures, Statuses, ACTIVE_RUN_STATUSES,
     TERMINAL_RUN_STATUSES
<1>5. \A s \in Written \ {"AWAITING_MERGE"} : Lawful(q, Moved(q, s))
  BY MovedLawful
<1>6. "AWAITING_MERGE" \notin Refusals \cup Failures \cup {"MERGE_LOCKED"}
      /\ "done" \notin Refusals \cup Failures \cup {"MERGE_LOCKED"}
  BY DEF Refusals, Failures
<1>7. \A p \in Statuses : Lawful(p, Ended(p))
  <2> SUFFICES ASSUME NEW p \in Statuses
               PROVE  Lawful(p, Ended(p))
    OBVIOUS
  <2>1. Lawful(p, Moved(p, "error"))
    BY <1>3, MovedLawful
  <2>2. QED
    BY <2>1, <1>3, <1>4 DEF Ended, Lawful
<1>8. ASSUME NEW s \in Refusals \cup {"MERGE_LOCKED"}
      PROVE  Lawful(q, Refused(q, s))
  <2>1. CASE Accepts(q, s)
    <3>1. q # "done" /\ s \in Statuses /\ s # "AWAITING_MERGE"
      BY <2>1, <1>2, <1>3, <1>4, <1>6
    <3>2. QED
      BY <2>1, <3>1, <1>7 DEF Refused, Lawful
  <2>2. CASE ~Accepts(q, s)
    BY <2>2, <1>3, <1>5 DEF Refused
  <2>3. QED
    BY <2>1, <2>2
<1>9. ASSUME NEW s \in Failures
      PROVE  Lawful(q, Verdict(q, s))
  <2>1. CASE Accepts(q, s)
    <3>1. q # "done" /\ s \in Statuses /\ s # "AWAITING_MERGE"
      BY <2>1, <1>2, <1>3, <1>4, <1>6
    <3>2. QED
      BY <2>1, <3>1 DEF Verdict, Lawful
  <2>2. CASE ~Accepts(q, s)
    BY <2>2, <1>3, <1>5 DEF Verdict
  <2>3. QED
    BY <2>1, <2>2
<1>10. /\ Verdict(q, "AWAITING_MERGE") \in Statuses
       /\ q = "done" => Verdict(q, "AWAITING_MERGE") = "done"
  <2>1. Lawful(q, Moved(q, "WORKER_CRASHED_RECOVERABLE"))
    BY <1>3, <1>5
  <2>2. QED
    BY <2>1, <1>2, <1>3, <1>4 DEF Verdict, Lawful
<1>11. QED
  BY <1>3, <1>4, <1>7, <1>8, <1>9, <1>10

\* A lawful change of one run's status is tame.
LEMMA BecomesTame ==
  ASSUME status \in [Runs -> Statuses], NEW r \in Runs, NEW s,
         Becomes(r, s), Lawful(status[r], s)
  PROVE  Tame
BY DEF Becomes, Lawful, Tame

\* A step that lands nothing and passes no gate.
LEMMA NothingLands ==
  ASSUME target' = target, commit_before' = commit_before,
         passed \subseteq passed', unrecorded \subseteq unrecorded'
  PROVE  Grows
BY DEF Grows, Landed

\* Another place for a pipeline that neither enters nor leaves its tail.
LEMMA GoesQuietly ==
  ASSUME Rest, NEW p \in Pipelines, NEW w \in Pipes \ {"tail"}, Goes(p, w),
         pipe[p] # "tail"
  PROVE  /\ pipe' \in [Pipelines -> Pipes]
         /\ { v \in Pipelines : pipe'[v] = "tail" } = working
BY DEF Rest, Goes, Pipes

\* A step that leaves the lock, the gate and the repository alone.
LEMMA QuietStep ==
  ASSUME IInv, UNCHANGED lock, UNCHANGED gate, target' = target, Tame,
         elsewhere' \in BOOLEAN, UNCHANGED faults,
         pipe' \in [Pipelines -> Pipes],
         { v \in Pipelines : pipe'[v] = "tail" } = working
  PROVE  Step
<1>1. Grows
  BY NothingLands DEF gate, faults
<1>2. Rest'
  BY DEF IInv, Rest, Tame, lock, gate, faults
<1>3. [L!LNext]_(L!lvars)
  BY DEF lock, L!lvars
<1>4. QED
  BY <1>1, <1>2, <1>3 DEF Step

-----------------------------------------------------------------------------
(***************************************************************************)
(* The actions.                                                            *)
(***************************************************************************)
LEMMA StartStep ==
  ASSUME IInv, NEW p \in Pipelines, Start(p)
  PROVE  Step
<1>1. run_of[p] \in Runs /\ status[run_of[p]] \in {"pending", "running"}
  BY MergeAssumption DEF Start
<1>2. Lawful(status[run_of[p]], "running")
  BY <1>1 DEF Lawful, Statuses, ACTIVE_RUN_STATUSES
<1>3. Tame
  BY <1>1, <1>2, BecomesTame DEF IInv, Rest, Start
<1>4. "before" \in Pipes \ {"tail"}
  BY DEF Pipes
<1>5. /\ pipe' \in [Pipelines -> Pipes]
      /\ { v \in Pipelines : pipe'[v] = "tail" } = working
  BY <1>4, GoesQuietly DEF IInv, Start
<1>6. QED
  BY <1>3, <1>5, QuietStep DEF Start, repo, IInv, Rest

\* The gate refuses a run, or finds the lock taken.
LEMMA RefusesStep ==
  ASSUME IInv, NEW p \in Pipelines, Refuses(p) \/ FindsLocked(p)
  PROVE  Step
<1> DEFINE r == run_of[p]
<1>1. r \in Runs /\ status[r] \in Statuses
  BY MergeAssumption DEF IInv, Rest
<1>2. \/ \E s \in Refusals \cup {"MERGE_LOCKED"} :
            Becomes(r, Refused(status[r], s))
      \/ Becomes(r, Moved(status[r], "error"))
  BY DEF Refuses, FindsLocked
<1>3. Lawful(status[r], Moved(status[r], "error"))
  BY <1>1, MovedLawful DEF Written
<1>4. Tame
  BY <1>1, <1>2, <1>3, EndsLawful, BecomesTame DEF IInv, Rest
<1>5. /\ pipe[p] = "before" /\ Goes(p, "over")
      /\ UNCHANGED <<lock, repo, gate, faults>>
  BY DEF Refuses, FindsLocked
<1>6. /\ pipe' \in [Pipelines -> Pipes]
      /\ { v \in Pipelines : pipe'[v] = "tail" } = working
  <2>1. "over" \in Pipes \ {"tail"}
    BY DEF Pipes
  <2>2. QED
    BY <2>1, <1>5, GoesQuietly DEF IInv
<1>7. QED
  BY <1>4, <1>5, <1>6, QuietStep DEF repo, IInv, Rest

\* The process dies: no pipeline is left.
LEMMA DyingPipes ==
  ASSUME pipe' = [v \in Pipelines |-> "over"], L!LDie
  PROVE  /\ pipe' \in [Pipelines -> Pipes]
         /\ working' = { v \in Pipelines : pipe'[v] = "tail" }
         /\ [L!LNext]_(L!lvars)
BY DEF L!LDie, L!LNext, Pipes

\* Mishaps are counted.
LEMMA MishapCounts ==
  ASSUME IInv, Mishap
  PROVE  mishaps' \in 0..MaxMishaps
BY MergeAssumption DEF IInv, Rest, Mishap

\* The server dies inside the stage.
LEMMA CutInStageStep ==
  ASSUME IInv, NEW p \in Pipelines, CutInStage(p)
  PROVE  Step
<1> DEFINE r == run_of[p]
<1>1. r \in Runs /\ status[r] \in Statuses
  BY MergeAssumption DEF IInv, Rest
<1>2. PICK s \in Refusals \cup {"MERGE_LOCKED"} :
        Becomes(r, Moved(status[r], s))
  BY DEF CutInStage
<1>3. s \in Written /\ s # "AWAITING_MERGE"
  BY DEF Written, Refusals
<1>4. Tame
  BY <1>1, <1>2, <1>3, MovedLawful, BecomesTame DEF IInv, Rest
<1>5. /\ pipe' = [v \in Pipelines |-> "over"] /\ L!LDie /\ Mishap
      /\ up' = FALSE /\ UNCHANGED <<repo, gate, unrecorded>>
  BY DEF CutInStage
<1>6. Grows
  BY <1>5, NothingLands DEF repo, gate
<1>7. Rest'
  BY <1>4, <1>5, DyingPipes, MishapCounts DEF IInv, Rest, Tame, repo, gate
<1>8. QED
  BY <1>4, <1>5, <1>6, <1>7, DyingPipes DEF Step

\* Tests, lint or the dry run fail.
LEMMA FailsStep ==
  ASSUME IInv, NEW p \in Pipelines, Fails(p)
  PROVE  Step
<1> DEFINE r == run_of[p]
<1>1. r \in Runs /\ status[r] \in Statuses
  BY MergeAssumption DEF IInv, Rest
<1>2. Tame
  BY <1>1, EndsLawful, BecomesTame DEF IInv, Rest, Fails
<1>3. L!LAcquire(p) /\ Goes(p, "tail") /\ UNCHANGED <<repo, gate, faults>>
  BY DEF Fails, acquire_merge_lock
<1>4. Grows
  BY <1>3, NothingLands DEF repo, gate, faults
<1>5. Rest'
  BY <1>2, <1>3 DEF IInv, Rest, Tame, L!LAcquire, Goes, Pipes, repo, gate, faults
<1>6. [L!LNext]_(L!lvars)
  BY <1>3 DEF L!LNext
<1>7. QED
  BY <1>2, <1>4, <1>5, <1>6 DEF Step

\* The gate passes, and HEAD becomes the point of return.
LEMMA PassesStep ==
  ASSUME IInv, NEW p \in Pipelines, Passes(p)
  PROVE  Step
<1> DEFINE r == run_of[p]
<1>1. r \in Runs /\ status[r] \in Statuses
  BY MergeAssumption DEF IInv, Rest
<1>2. /\ L!LAcquire(p) /\ Goes(p, "tail") /\ UNCHANGED <<repo, faults>>
      /\ passed' = passed \cup {r}
      /\ Becomes(r, Verdict(status[r], "AWAITING_MERGE"))
      /\ commit_before' =
           [commit_before EXCEPT ![r] = IF elsewhere THEN {} ELSE target]
  BY DEF Passes, acquire_merge_lock
<1>3. Tame
  BY <1>1, <1>2, EndsLawful DEF IInv, Rest, Becomes, Tame
<1>4. Grows
  <2>1. \A q \in Runs : \A v \in commit_before'[q] : Landed(v)
    BY <1>1, <1>2 DEF IInv, Rest, Landed
  <2>2. \A v \in target' : Landed(v)
    BY <1>2 DEF repo, Landed
  <2>3. QED
    BY <1>2, <2>1, <2>2 DEF Grows, faults
<1>5. Rest'
  <2>1. commit_before' \in [Runs -> SUBSET Runs]
    BY <1>1, <1>2 DEF IInv, Rest
  <2>2. QED
    BY <1>1, <1>2, <1>3, <2>1 DEF IInv, Rest, Tame, L!LAcquire, Goes, Pipes,
       repo, faults
<1>6. [L!LNext]_(L!lvars)
  BY <1>2 DEF L!LNext
<1>7. QED
  BY <1>3, <1>4, <1>5, <1>6 DEF Step

\* The finally clause ends and the engine writes its final status.
LEMMA EndTailStep ==
  ASSUME IInv, NEW p \in Pipelines, EndTail(p)
  PROVE  Step
<1> DEFINE r == run_of[p]
<1>1. r \in Runs /\ status[r] \in Statuses
  BY MergeAssumption DEF IInv, Rest
<1>2. Tame
  BY <1>1, EndsLawful, BecomesTame DEF IInv, Rest, EndTail
<1>3. L!LRelease(p) /\ Goes(p, "over") /\ UNCHANGED <<repo, gate, faults>>
  BY DEF EndTail, release_merge_lock
<1>4. Grows
  BY <1>3, NothingLands DEF repo, gate, faults
<1>5. Rest'
  BY <1>2, <1>3 DEF IInv, Rest, Tame, L!LRelease, Goes, Pipes, repo, gate, faults
<1>6. [L!LNext]_(L!lvars)
  BY <1>3 DEF L!LNext
<1>7. QED
  BY <1>2, <1>4, <1>5, <1>6 DEF Step

\* The lock expires.
LEMMA ExpireStep == ASSUME IInv, Expire PROVE Step
<1>1. Tame
  BY DEF IInv, Rest, Expire, Tame
<1>2. Grows
  BY NothingLands DEF Expire, repo, gate, faults
<1>3. Rest'
  BY DEF IInv, Rest, Expire, L!LExpire, repo, gate, faults
<1>4. QED
  BY <1>1, <1>2, <1>3 DEF Step, Expire, L!LNext

\* Somebody cancels a run, checks out another branch, or meets a conflict.
LEMMA OperatorStep ==
  ASSUME IInv, ChecksOut \/ \E r \in Runs : Cancel(r) \/ MergeConflicts(r)
  PROVE  Step
<1>1. /\ UNCHANGED <<pipe, lock, target, gate, faults>>
      /\ elsewhere' \in BOOLEAN
  BY DEF ChecksOut, Cancel, MergeConflicts, Merges, repo, IInv, Rest
<1>2. Tame
  <2>1. CASE ChecksOut
    BY <2>1 DEF ChecksOut, Tame, IInv, Rest
  <2>2. ASSUME NEW r \in Runs, Cancel(r) \/ MergeConflicts(r)
        PROVE  Tame
    <3>1. Lawful(status[r], Moved(status[r], "cancelled"))
          /\ Lawful(status[r], Moved(status[r], "MERGE_CONFLICT"))
      BY MovedLawful DEF IInv, Rest, Written, Failures
    <3>2. QED
      BY <2>2, <3>1, BecomesTame DEF Cancel, MergeConflicts, IInv, Rest
  <2>3. QED
    BY <2>1, <2>2
<1>3. QED
  BY <1>1, <1>2, QuietStep DEF IInv, Rest

\* A merge ends in done, or in a status that is no pause.
LEMMA MergeLawful ==
  ASSUME IInv, NEW r \in Runs, mergeable(r)
  PROVE  /\ r \in passed /\ Moved(status[r], "done") = "done"
         /\ \A s \in {"done", "ROLLBACK_EXECUTED", "WORKER_CRASHED_RECOVERABLE"} :
              Lawful(status[r], Moved(status[r], s))
         /\ Lawful(status[r], Moved("done", "ROLLBACK_EXECUTED"))
<1>1. status[r] = "AWAITING_MERGE" /\ status[r] \in Statuses
  BY DEF mergeable, IInv, Rest
<1>2. r \in passed
  BY <1>1 DEF IInv, History
<1>3. Moved(status[r], "done") = "done"
      /\ Moved("done", "ROLLBACK_EXECUTED") = "done"
  BY <1>1 DEF Moved, Accepts, VALID_TRANSITIONS
<1>4. Lawful(status[r], "done")
  BY <1>1 DEF Lawful, Statuses, TERMINAL_RUN_STATUSES
<1>5. \A s \in {"done", "ROLLBACK_EXECUTED", "WORKER_CRASHED_RECOVERABLE"} :
        s \in Written /\ s # "AWAITING_MERGE"
  BY DEF Written, Refusals
<1>6. QED
  BY <1>1, <1>2, <1>3, <1>4, <1>5, MovedLawful

\* A merge lands and is recorded.
LEMMA MergeLandsStep ==
  ASSUME IInv, NEW r \in Runs, MergeLands(r)
  PROVE  Step
<1>1. /\ mergeable(r) /\ elsewhere' = FALSE /\ target' = target \cup {r}
      /\ Becomes(r, Moved(status[r], "done"))
      /\ UNCHANGED <<pipe, gate, lock, faults>>
  BY DEF MergeLands, Merges
<1>2. Tame
  BY <1>1, MergeLawful, BecomesTame DEF IInv, Rest
<1>3. Grows
  <2>1. r \in passed' /\ Settled(r)'
    BY <1>1, MergeLawful DEF gate, Settled, Becomes, IInv, Rest
  <2>2. QED
    BY <1>1, <2>1 DEF Grows, Landed, gate, faults
<1>4. Rest'
  BY <1>1, <1>2 DEF IInv, Rest, Tame, gate, lock, faults
<1>5. QED
  BY <1>1, <1>2, <1>3, <1>4 DEF Step, lock, L!lvars

\* A merge lands, recording it fails, the rollback succeeds.
LEMMA MergeUndoneStep ==
  ASSUME IInv, NEW r \in Runs, MergeUndone(r)
  PROVE  Step
<1>1. /\ mergeable(r) /\ elsewhere' = FALSE /\ target' = commit_before[r]
      /\ Mishap /\ UNCHANGED <<pipe, gate, lock, unrecorded, up>>
  BY DEF MergeUndone, Merges, rollback_to_commit
<1>2. \/ Becomes(r, Moved(status[r], "ROLLBACK_EXECUTED"))
      \/ Becomes(r, Moved("done", "ROLLBACK_EXECUTED"))
  BY DEF MergeUndone
<1>3. Tame
  BY <1>1, <1>2, MergeLawful, BecomesTame DEF IInv, Rest
<1>4. Grows
  BY <1>1 DEF Grows, Landed, gate
<1>5. Rest'
  <2>1. target' \subseteq Runs
    BY <1>1 DEF IInv, Rest
  <2>2. QED
    BY <1>1, <1>3, <2>1, MishapCounts DEF IInv, Rest, Tame, gate, lock
<1>6. QED
  BY <1>1, <1>3, <1>4, <1>5 DEF Step, lock, L!lvars

\* A merge lands, recording it fails, and so does the rollback.
LEMMA MergeStuckStep ==
  ASSUME IInv, NEW r \in Runs, MergeStuck(r)
  PROVE  Step
<1>1. /\ mergeable(r) /\ elsewhere' = FALSE /\ target' = target \cup {r}
      /\ unrecorded' = unrecorded \cup {r}
      /\ Becomes(r, Moved(status[r], "WORKER_CRASHED_RECOVERABLE"))
      /\ Mishap /\ UNCHANGED <<pipe, gate, lock, up>>
  BY DEF MergeStuck, Merges
<1>2. Tame
  BY <1>1, MergeLawful, BecomesTame DEF IInv, Rest
<1>3. Grows
  BY <1>1, MergeLawful DEF Grows, Landed, gate, Settled
<1>4. Rest'
  BY <1>1, <1>2, MishapCounts DEF IInv, Rest, Tame, gate, lock
<1>5. QED
  BY <1>1, <1>2, <1>3, <1>4 DEF Step, lock, L!lvars

\* The server dies between the merge and its record.
LEMMA MergeCutStep ==
  ASSUME IInv, NEW r \in Runs, MergeCut(r)
  PROVE  Step
<1>1. /\ mergeable(r) /\ elsewhere' = FALSE /\ target' = target \cup {r}
      /\ unrecorded' = unrecorded \cup {r} /\ up' = FALSE /\ Mishap
      /\ pipe' = [v \in Pipelines |-> "over"] /\ L!LDie
      /\ UNCHANGED <<status, gate>>
  BY DEF MergeCut, Dies
<1>2. Tame
  BY <1>1 DEF IInv, Rest, Tame
<1>3. Grows
  BY <1>1, MergeLawful DEF Grows, Landed, gate, Settled
<1>4. Rest'
  BY <1>1, DyingPipes, MishapCounts DEF IInv, Rest, gate
<1>5. QED
  BY <1>1, <1>2, <1>3, <1>4, DyingPipes DEF Step

\* The server dies and comes up again.
LEMMA ServerStep == ASSUME IInv, GoDown \/ ComeUp PROVE Step
<1>1. CASE GoDown
  <2>1. /\ Mishap /\ up' = FALSE /\ pipe' = [v \in Pipelines |-> "over"]
        /\ L!LDie /\ UNCHANGED <<status, repo, gate, unrecorded>>
    BY <1>1 DEF GoDown, Dies
  <2>2. Tame
    BY <2>1 DEF IInv, Rest, Tame
  <2>3. Grows
    BY <2>1, NothingLands DEF repo, gate
  <2>4. Rest'
    BY <2>1, DyingPipes, MishapCounts DEF IInv, Rest, repo, gate
  <2>5. QED
    BY <2>1, <2>2, <2>3, <2>4, DyingPipes DEF Step
<1>2. CASE ComeUp
  <2>1. Tame
    BY <1>2 DEF ComeUp, IInv, Rest, Tame, Statuses, TERMINAL_RUN_STATUSES
  <2>2. Grows
    BY <1>2, NothingLands DEF ComeUp, repo, gate
  <2>3. Rest'
    BY <1>2, <2>1 DEF ComeUp, IInv, Rest, Tame, lock, repo, gate
  <2>4. QED
    BY <1>2, <2>1, <2>2, <2>3 DEF Step, ComeUp, lock, L!lvars
<1>3. QED
  BY <1>1, <1>2

-----------------------------------------------------------------------------
\* Every step is one of these.
LEMMA NextSteps ==
  ASSUME IInv, [Next]_vars
  PROVE  Step
<1>1. CASE UNCHANGED vars
  <2>1. Tame
    BY <1>1 DEF IInv, Rest, Tame, vars
  <2>2. QED
    BY <1>1, <2>1, QuietStep
       DEF vars, lock, gate, faults, IInv, Rest
<1>2. ASSUME NEW p \in Pipelines,
             Start(p) \/ Stage(p) \/ CutInStage(p) \/ EndTail(p)
      PROVE  Step
  BY <1>2, StartStep, RefusesStep, CutInStageStep, FailsStep, PassesStep,
     EndTailStep DEF Stage
<1>3. ASSUME NEW r \in Runs,
             \/ Cancel(r) \/ MergeConflicts(r) \/ MergeLands(r)
             \/ MergeUndone(r) \/ MergeStuck(r) \/ MergeCut(r)
      PROVE  Step
  BY <1>3, OperatorStep, MergeLandsStep, MergeUndoneStep, MergeStuckStep,
     MergeCutStep
<1>4. QED
  BY <1>1, <1>2, <1>3, ExpireStep, OperatorStep, ServerStep DEF Next

\* The invariant and that of the lease hold initially.
LEMMA InitHolds == Init => IInv /\ L!LInit
<1> SUFFICES ASSUME Init
             PROVE  IInv /\ L!LInit
  OBVIOUS
<1>1. L!LInit
  BY DEF Init
<1>2. LP!LInit
  BY <1>1 DEF L!LInit, LP!LInit, L!NoLease, LP!NoLease
<1>3. LP!LInv
  BY <1>2, LP!LeaseInit
<1>4. Rest
  <2>1. "pending" \in Statuses /\ "new" \in Pipes
    BY DEF Statuses, ACTIVE_RUN_STATUSES, Pipes
  <2>2. status \in [Runs -> Statuses] /\ pipe \in [Pipelines -> Pipes]
    BY <2>1 DEF Init
  <2>3. working = { p \in Pipelines : pipe[p] = "tail" }
    BY <1>1 DEF Init, L!LInit
  <2>4. commit_before \in [Runs -> SUBSET Runs] /\ mishaps \in 0..MaxMishaps
    BY MergeAssumption DEF Init
  <2>5. QED
    BY <2>2, <2>3, <2>4 DEF Init, Rest
<1>5. History
  BY DEF Init, History, Landed
<1>6. QED
  BY <1>1, <1>3, <1>4, <1>5 DEF IInv

\* The strengthened invariant is one.
THEOREM Invariant == Spec => []IInv
<1>1. Init => IInv
  BY InitHolds
<1>2. IInv /\ [Next]_vars => IInv'
  BY NextSteps, StepKeeps
<1>3. QED
  BY <1>1, <1>2, PTL DEF Spec

\* Every variable keeps its type, and who is in the finally clause has the lock
\* to release.
THEOREM TypeCorrect == Spec => []TypeOK
<1>1. IInv => TypeOK
  BY DEF IInv, Rest, TypeOK, LP!LInv, LP!LTypeOK, L!LTypeOK, LP!Leases, L!Leases,
     LP!NoLease, L!NoLease, LP!Names, L!Names
<1>2. QED
  BY <1>1, Invariant, PTL

\* Every step of the gates, of the operator and of the server is a step of the
\* lease or leaves it alone.
THEOREM GateImplementsLease == Spec => ImplementsLease
<1>1. Init => L!LInit
  BY InitHolds
<1>2. IInv /\ [Next]_vars => [L!LNext]_(L!lvars)
  BY NextSteps DEF Step
<1>3. QED
  BY <1>1, <1>2, Invariant, PTL DEF Spec, ImplementsLease, L!LSpec

\* Whatever is in the target branch has passed its gate.
THEOREM NothingUngatedLands == Spec => []MergedPassedGate
<1>1. IInv => MergedPassedGate
  BY DEF IInv, Rest, History, Landed, MergedPassedGate
<1>2. QED
  BY <1>1, Invariant, PTL

\* Whatever is in the target branch is done or could not be recorded.
THEOREM NothingLandsUnreported == Spec => []LandedIsDone
<1>1. IInv => LandedIsDone
  BY DEF IInv, Rest, History, Landed, Settled, LandedIsDone
<1>2. QED
  BY <1>1, Invariant, PTL

-----------------------------------------------------------------------------
(***************************************************************************)
(* Runs come to an end: what of GateEnds does not need fairness, and how   *)
(* far the mandatory pause goes.                                           *)
(***************************************************************************)
\* Statuses nothing leads out of: MERGE_CONFLICT is terminal and has successors.
Fixed == TERMINAL_RUN_STATUSES \ {"MERGE_CONFLICT"}

Follows(q, s) == s = q \/ s \in VALID_TRANSITIONS(q)

\* Whatever a stage, a refused write, the engine's done, a merge or a reconcile
\* makes of a run in one step, the status machine allows it (the stage's
\* refusal and the engine's write after it together, too).
StatusesFollow == [][\A r \in Runs : Follows(status[r], status'[r])]_vars

\* Unless a write failed or the server went down, a run whose pipeline is over
\* has a status nothing leads out of, whatever a second pipeline of it does.
EndedRunsAreFixed ==
  mishaps = 0 =>
    \A p \in Pipelines : pipe[p] = "over" => status[run_of[p]] \in Fixed

\* And a run that has been started and has no such status still has a pipeline
\* that will bring it to one: no run is stranded in MERGE_LOCKED,
\* HUMAN_APPROVAL_REQUIRED or the pause (execute_run, _execute_run).
NobodyStranded ==
  mishaps = 0 =>
    \A r \in Runs : status[r] \notin Fixed \cup {"pending"} =>
      \E p \in Pipelines : run_of[p] = r /\ pipe[p] \in {"before", "tail"}

\* The pause lasts as long as the finally clause of a gate of the run: once that
\* is over, the engine's done has ended it, merge or no merge.
PauseIsBrief ==
  mishaps = 0 =>
    \A r \in Runs : status[r] = "AWAITING_MERGE" =>
      \E p \in Pipelines : run_of[p] = r /\ pipe[p] = "tail"

GateInv == EndedRunsAreFixed /\ NobodyStranded /\ PauseIsBrief

-----------------------------------------------------------------------------
\* Each way to write a status, against the table.
LEMMA MovedFollows ==
  \A q, s : Follows(q, Moved(q, s))
BY DEF Moved, Accepts, Follows

\* Nothing lawful changes a fixed status.
LEMMA FixedStays ==
  ASSUME NEW q \in Fixed, NEW s, Follows(q, s)
  PROVE  s = q
BY DEF Fixed, Follows, VALID_TRANSITIONS, TERMINAL_RUN_STATUSES

\* Every status that can still change can become an error.
LEMMA ErrorFixed ==
  ASSUME NEW q \in Statuses
  PROVE  Moved(q, "error") \in Fixed
BY DEF Moved, Accepts, Fixed, Statuses, ACTIVE_RUN_STATUSES,
   TERMINAL_RUN_STATUSES, VALID_TRANSITIONS, FromRunning

\* What the engine writes at the end of a pipeline fixes the status.
LEMMA EndedFixed ==
  ASSUME NEW q \in Statuses
  PROVE  Ended(q) \in Fixed /\ Follows(q, Ended(q))
<1>1. "done" \in Fixed
  BY DEF Fixed, TERMINAL_RUN_STATUSES
<1>2. QED
  BY <1>1, ErrorFixed, MovedFollows DEF Ended, Accepts, Follows

\* So does what it writes after a refusal, the one by a lock included.
LEMMA RefusedFixed ==
  ASSUME NEW q \in Statuses, NEW s \in Refusals \cup {"MERGE_LOCKED"}
  PROVE  Refused(q, s) \in Fixed /\ Follows(q, Refused(q, s))
<1>1. s \in Statuses
  BY DEF Refusals, Statuses, ACTIVE_RUN_STATUSES, TERMINAL_RUN_STATUSES
<1>2. CASE Accepts(q, s)
  <2>1. Ended(s) \in {s, "error"}
    BY DEF Ended, Moved, Accepts, Refusals, VALID_TRANSITIONS
  <2>2. Ended(s) \in Fixed
    BY <1>1, EndedFixed
  <2>3. Follows(q, s)
    BY <1>2 DEF Accepts, Follows
  <2>4. CASE q \in Fixed
    <3>1. s = q
      BY <2>3, <2>4, FixedStays
    <3>2. Follows(q, Ended(s))
      BY <1>1, <3>1, EndedFixed
    <3>3. QED
      BY <1>2, <2>2, <3>2 DEF Refused
  <2>5. CASE q \notin Fixed
    <3>1. "error" \in VALID_TRANSITIONS(q)
      BY <2>5 DEF Fixed, Statuses, ACTIVE_RUN_STATUSES, TERMINAL_RUN_STATUSES,
         VALID_TRANSITIONS, FromRunning
    <3>2. QED
      BY <1>2, <2>1, <2>2, <2>3, <3>1 DEF Refused, Follows
  <2>6. QED
    BY <2>4, <2>5
<1>3. CASE ~Accepts(q, s)
  BY <1>3, ErrorFixed, MovedFollows DEF Refused
<1>4. QED
  BY <1>2, <1>3

\* The verdict of the gate follows the table.
LEMMA VerdictFollows ==
  ASSUME NEW q, NEW s
  PROVE  Follows(q, Verdict(q, s))
BY MovedFollows DEF Verdict, Accepts, Follows

\* A pipeline's step writes the status of its run and moves the pipeline.
LEMMA PipeSteps ==
  ASSUME IInv, NEW p \in Pipelines, Start(p) \/ Stage(p) \/ EndTail(p)
  PROVE  \E s, w :
           /\ Becomes(run_of[p], s) /\ Goes(p, w) /\ UNCHANGED mishaps
           /\ Follows(status[run_of[p]], s)
           /\ \/ w = "before" /\ s = "running" /\ pipe[p] = "new"
              \/ w = "tail" /\ pipe[p] = "before"
              \/ w = "over" /\ s \in Fixed /\ pipe[p] \in {"before", "tail"}
<1> DEFINE r == run_of[p]
<1>1. r \in Runs /\ status[r] \in Statuses
  BY MergeAssumption DEF IInv, Rest
<1>2. CASE Start(p)
  BY <1>2 DEF Start, faults, Follows, VALID_TRANSITIONS
<1>3. CASE Refuses(p) \/ FindsLocked(p)
  <2>1. /\ Goes(p, "over") /\ UNCHANGED mishaps /\ pipe[p] = "before"
        /\ \/ \E s \in Refusals \cup {"MERGE_LOCKED"} : Becomes(r, Refused(status[r], s))
           \/ Becomes(r, Moved(status[r], "error"))
    BY <1>3 DEF Refuses, FindsLocked, faults
  <2>2. QED
    BY <1>1, <2>1, RefusedFixed, ErrorFixed, MovedFollows
<1>4. CASE Fails(p)
  BY <1>4, VerdictFollows DEF Fails, faults
<1>5. CASE Passes(p)
  BY <1>5, VerdictFollows DEF Passes, faults
<1>6. CASE EndTail(p)
  BY <1>1, <1>6, EndedFixed DEF EndTail, faults
<1>7. QED
  BY <1>2, <1>3, <1>4, <1>5, <1>6 DEF Stage

\* What else happens without a mishap: pipelines stay, statuses end or stay.
Ends ==
  /\ pipe' = pipe
  /\ \A r \in Runs : status'[r] = status[r] \/ status'[r] \in Fixed

\* The steps that are not of a pipeline leave every pipeline where it was, and
\* a status they change is then fixed.
LEMMA OtherSteps ==
  ASSUME IInv,
         \/ \E r \in Runs : Cancel(r) \/ MergeConflicts(r) \/ MergeLands(r)
         \/ Expire \/ ChecksOut \/ ComeUp
  PROVE  Ends /\ \A r \in Runs : Follows(status[r], status'[r])
<1>1. CASE Expire \/ ChecksOut
  BY <1>1 DEF Expire, ChecksOut, Ends, Follows
<1>2. CASE ComeUp
  <2>1. "error" \in Fixed /\ "error" \in VALID_TRANSITIONS("running")
    BY DEF Fixed, TERMINAL_RUN_STATUSES, VALID_TRANSITIONS, FromRunning
  <2>2. QED
    BY <1>2, <2>1 DEF ComeUp, Ends, Follows
<1>3. ASSUME NEW r \in Runs, Cancel(r) \/ MergeConflicts(r) \/ MergeLands(r)
      PROVE  Ends /\ \A v \in Runs : Follows(status[v], status'[v])
  <2>1. /\ pipe' = pipe
        /\ \/ Becomes(r, Moved(status[r], "cancelled"))
           \/ Becomes(r, Moved(status[r], "MERGE_CONFLICT")) /\ status[r] = "AWAITING_MERGE"
           \/ Becomes(r, Moved(status[r], "done"))
    BY <1>3 DEF Cancel, MergeConflicts, MergeLands, Merges, mergeable
  <2>2. PICK s : Becomes(r, s) /\ Follows(status[r], s) /\ s \in {status[r]} \cup Fixed
    <3>1. {"cancelled", "done"} \subseteq Fixed
      BY DEF Fixed, TERMINAL_RUN_STATUSES
    <3>2. Moved("AWAITING_MERGE", "MERGE_CONFLICT") = "AWAITING_MERGE"
      BY DEF Moved, Accepts, VALID_TRANSITIONS
    <3>3. \A s : Moved(status[r], s) \in {status[r], s}
      BY DEF Moved
    <3>4. QED
      BY <2>1, <3>1, <3>2, <3>3, MovedFollows
  <2>3. /\ status'[r] = s /\ \A v \in Runs \ {r} : status'[v] = status[v]
    BY <2>2 DEF Becomes, IInv, Rest
  <2>4. QED
    BY <2>1, <2>2, <2>3 DEF Ends, Follows
<1>4. QED
  BY <1>1, <1>2, <1>3

\* Steps that are mishaps, or follow one.
LEMMA MishapSteps ==
  ASSUME IInv,
         \/ \E p \in Pipelines : CutInStage(p)
         \/ \E r \in Runs : MergeUndone(r) \/ MergeStuck(r) \/ MergeCut(r)
         \/ GoDown
  PROVE  mishaps' # 0 /\ \A r \in Runs : Follows(status[r], status'[r])
<1>1. Mishap => mishaps' # 0
  BY DEF Mishap, IInv, Rest
<1>2. ASSUME NEW r \in Runs, NEW s, Becomes(r, s), Follows(status[r], s)
      PROVE  \A v \in Runs : Follows(status[v], status'[v])
  BY <1>2 DEF Becomes, Follows, IInv, Rest
<1>3. CASE GoDown \/ \E r \in Runs : MergeCut(r)
  BY <1>1, <1>3 DEF GoDown, MergeCut, Dies, Follows
<1>4. ASSUME NEW p \in Pipelines, CutInStage(p)
      PROVE  mishaps' # 0 /\ \A v \in Runs : Follows(status[v], status'[v])
  <2>1. run_of[p] \in Runs
    BY MergeAssumption
  <2>2. \E s : Becomes(run_of[p], Moved(status[run_of[p]], s))
    BY <1>4 DEF CutInStage
  <2>3. \A v \in Runs : Follows(status[v], status'[v])
    BY <1>2, <2>1, <2>2, MovedFollows
  <2>4. QED
    BY <1>1, <1>4, <2>3 DEF CutInStage
<1>5. ASSUME NEW r \in Runs, MergeUndone(r) \/ MergeStuck(r)
      PROVE  mishaps' # 0 /\ \A v \in Runs : Follows(status[v], status'[v])
  <2>1. /\ Mishap /\ status[r] = "AWAITING_MERGE"
        /\ \/ \E s : Becomes(r, Moved(status[r], s))
           \/ Becomes(r, Moved("done", "ROLLBACK_EXECUTED"))
    BY <1>5 DEF MergeUndone, MergeStuck, Merges, mergeable
  <2>2. Follows("AWAITING_MERGE", Moved("done", "ROLLBACK_EXECUTED"))
    BY DEF Moved, Accepts, Follows, VALID_TRANSITIONS
  <2>3. \A v \in Runs : Follows(status[v], status'[v])
    BY <1>2, <2>1, <2>2, MovedFollows
  <2>4. QED
    BY <1>1, <2>1, <2>3
<1>6. QED
  BY <1>3, <1>4, <1>5

\* A step of pipeline p: its run ends with it, or it goes on.
LEMMA PipeKeeps ==
  ASSUME IInv, GateInv, NEW p \in Pipelines, NEW s, NEW w,
         Becomes(run_of[p], s), Goes(p, w), UNCHANGED mishaps,
         Follows(status[run_of[p]], s),
         \/ w = "before" /\ s = "running" /\ pipe[p] = "new"
         \/ w = "tail" /\ pipe[p] = "before"
         \/ w = "over" /\ s \in Fixed /\ pipe[p] \in {"before", "tail"}
  PROVE  GateInv'
<1> DEFINE r == run_of[p]
<1>1. r \in Runs
  BY MergeAssumption
<1>2. /\ status'[r] = s /\ \A v \in Runs \ {r} : status'[v] = status[v]
      /\ pipe'[p] = w /\ \A v \in Pipelines \ {p} : pipe'[v] = pipe[v]
  BY <1>1 DEF Becomes, Goes, IInv, Rest
<1>3. status[r] \in Fixed => s \in Fixed
  BY FixedStays
<1>4. \A v \in Runs : status[v] \in Fixed => status'[v] \in Fixed
  BY <1>2, <1>3
<1>5. EndedRunsAreFixed'
  <2>1. \A v \in Pipelines : run_of[v] \in Runs
    BY MergeAssumption
  <2>2. QED
    BY <1>2, <1>4, <2>1 DEF GateInv, EndedRunsAreFixed
<1>6. NobodyStranded'
  <2> SUFFICES ASSUME mishaps = 0, NEW v \in Runs, status'[v] \notin Fixed \cup {"pending"}
               PROVE  \E q \in Pipelines : run_of[q] = v /\ pipe'[q] \in {"before", "tail"}
    BY DEF NobodyStranded
  <2>1. CASE v = r
    BY <1>2, <2>1
  <2>2. CASE v # r
    <3>1. PICK q \in Pipelines : run_of[q] = v /\ pipe[q] \in {"before", "tail"}
      BY <1>2, <2>2 DEF GateInv, NobodyStranded
    <3>2. q # p
      BY <2>2, <3>1
    <3>3. QED
      BY <1>2, <3>1, <3>2
  <2>3. QED
    BY <2>1, <2>2
<1>7. PauseIsBrief'
  <2> SUFFICES ASSUME mishaps = 0, NEW v \in Runs, status'[v] = "AWAITING_MERGE"
               PROVE  \E q \in Pipelines : run_of[q] = v /\ pipe'[q] = "tail"
    BY DEF PauseIsBrief
  <2>1. CASE v = r
    <3>1. w = "tail"
      BY <1>2, <2>1 DEF Fixed, TERMINAL_RUN_STATUSES
    <3>2. QED
      BY <1>2, <2>1, <3>1
  <2>2. CASE v # r
    <3>1. PICK q \in Pipelines : run_of[q] = v /\ pipe[q] = "tail"
      BY <1>2, <2>2 DEF GateInv, PauseIsBrief
    <3>2. q # p
      BY <2>2, <3>1
    <3>3. QED
      BY <1>2, <3>1, <3>2
  <2>3. QED
    BY <2>1, <2>2
<1>8. QED
  BY <1>5, <1>6, <1>7 DEF GateInv

\* A pipeline that ends leaves a fixed status, so GateInv is kept.
LEMMA EndsKeeps ==
  ASSUME IInv, GateInv, Ends, mishaps' = 0 => mishaps = 0,
         \A r \in Runs : Follows(status[r], status'[r])
  PROVE  GateInv'
<1>1. \A r \in Runs : status[r] \in Fixed => status'[r] \in Fixed
  BY DEF Ends
<1>2. \A v \in Pipelines : run_of[v] \in Runs
  BY MergeAssumption
<1>3. EndedRunsAreFixed'
  BY <1>1, <1>2 DEF GateInv, EndedRunsAreFixed, Ends
<1>4. NobodyStranded'
  BY DEF GateInv, NobodyStranded, Ends
<1>5. PauseIsBrief'
  <2>1. "AWAITING_MERGE" \notin Fixed
    BY DEF Fixed, TERMINAL_RUN_STATUSES
  <2>2. QED
    BY <2>1 DEF GateInv, PauseIsBrief, Ends
<1>6. QED
  BY <1>3, <1>4, <1>5 DEF GateInv

\* Every step follows the table and keeps GateInv.
LEMMA GateSteps ==
  ASSUME IInv, [Next]_vars
  PROVE  /\ \A r \in Runs : Follows(status[r], status'[r])
         /\ GateInv => GateInv'
<1>1. CASE UNCHANGED vars
  BY <1>1 DEF vars, Follows, GateInv, EndedRunsAreFixed, NobodyStranded, PauseIsBrief
<1>2. ASSUME NEW p \in Pipelines, Start(p) \/ Stage(p) \/ EndTail(p)
      PROVE  /\ \A r \in Runs : Follows(status[r], status'[r])
             /\ GateInv => GateInv'
  <2>1. PICK s, w :
          /\ Becomes(run_of[p], s) /\ Goes(p, w) /\ UNCHANGED mishaps
          /\ Follows(status[run_of[p]], s)
          /\ \/ w = "before" /\ s = "running" /\ pipe[p] = "new"
             \/ w = "tail" /\ pipe[p] = "before"
             \/ w = "over" /\ s \in Fixed /\ pipe[p] \in {"before", "tail"}
    BY <1>2, PipeSteps
  <2>2. \A r \in Runs : Follows(status[r], status'[r])
    BY <2>1 DEF Becomes, Follows, IInv, Rest
  <2>3. GateInv => GateInv'
    BY <2>1, PipeKeeps
  <2>4. QED
    BY <2>2, <2>3
<1>3. CASE \/ \E p \in Pipelines : CutInStage(p)
           \/ \E r \in Runs : MergeUndone(r) \/ MergeStuck(r) \/ MergeCut(r)
           \/ GoDown
  BY <1>3, MishapSteps DEF GateInv, EndedRunsAreFixed, NobodyStranded, PauseIsBrief
<1>4. CASE \/ \E r \in Runs : Cancel(r) \/ MergeConflicts(r) \/ MergeLands(r)
           \/ Expire \/ ChecksOut \/ ComeUp
  <2>1. mishaps' = mishaps
    BY <1>4 DEF Cancel, MergeConflicts, MergeLands, Expire, ChecksOut, ComeUp, faults
  <2>2. QED
    BY <1>4, <2>1, OtherSteps, EndsKeeps
<1>5. QED
  BY <1>1, <1>2, <1>3, <1>4 DEF Next

\* Initially every run is pending and no pipeline has begun.
LEMMA GateInit == Init => GateInv
<1> SUFFICES ASSUME Init
             PROVE  GateInv
  OBVIOUS
<1>1. /\ \A r \in Runs : status[r] = "pending"
      /\ \A p \in Pipelines : pipe[p] = "new"
  BY DEF Init
<1>2. QED
  BY <1>1 DEF GateInv, EndedRunsAreFixed, NobodyStranded, PauseIsBrief

\* GateInv holds throughout.
LEMMA GateInvariant == Spec => []GateInv
<1>1. GateInv /\ (IInv /\ [Next]_vars) => GateInv'
  BY GateSteps
<1>2. QED
  BY <1>1, GateInit, Invariant, PTL DEF Spec

\* The gate and the merge follow the status machine.
THEOREM RunsFollowTable == Spec => StatusesFollow
<1>1. IInv /\ [Next]_vars => [\A r \in Runs : Follows(status[r], status'[r])]_vars
  BY GateSteps
<1>2. QED
  BY <1>1, Invariant, PTL DEF Spec, StatusesFollow

\* What a pipeline leaves is left for good.
THEOREM OverIsOver == Spec => []EndedRunsAreFixed
<1>1. GateInv => EndedRunsAreFixed
  BY DEF GateInv
<1>2. QED
  BY <1>1, GateInvariant, PTL

\* No run is stranded.
THEOREM NoRunStranded == Spec => []NobodyStranded
<1>1. GateInv => NobodyStranded
  BY DEF GateInv
<1>2. QED
  BY <1>1, GateInvariant, PTL

\* How long the pause lasts.
THEOREM PauseEndsWithTheGate == Spec => []PauseIsBrief
<1>1. GateInv => PauseIsBrief
  BY DEF GateInv
<1>2. QED
  BY <1>1, GateInvariant, PTL
=============================================================================
