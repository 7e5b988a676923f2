----------------------------- MODULE RunRequeue -----------------------------
(***************************************************************************)
(* The pipeline stages that put a run back in the queue by writing its     *)
(* base file, past update_run_status: SubdivideRouter, and ReviewGate when *)
(* the agent's output is rejected.  Composed with the calls of RunStore,   *)
(* which other callers make at any moment of the pipeline, also while      *)
(* ReviewGate awaits its decision: neither stage looks at the status again *)
(* before it writes.                                                       *)
(***************************************************************************)
EXTENDS RunStore

VARIABLE pipeline   \* "none", in its "stages", in the "review", "halted"

requeueVars == <<vars, pipeline>>

\* execute_run sees to it that the run is running before the first stage.
PipelineStarts ==
  /\ pipeline = "none" /\ pipeline' = "stages"
  /\ pc = "idle" /\ Readable /\ Current.status = "running"
  /\ UNCHANGED vars

\* ReviewGate: it announces that it waits, then awaits the decision.
ReviewAsks == /\ pipeline = "stages" /\ pipeline' = "review"
              /\ update_run_status("awaiting_review")

ReviewAccepts == /\ pipeline = "review" /\ pipeline' = "stages"
                 /\ update_run_status("running")

\* The base as it is on disk, not replayed, with status pending and a new
\* child_context; no event is appended, and a base that cannot be read is
\* left alone.
Requeue ==
  /\ pc = "idle" /\ Readable
  /\ \E c \in Counts :
       Persist([base EXCEPT !.status = "pending", !.count = c], "requeued")
  /\ UNCHANGED <<base, log, crashes>>

\* Both stages, after their awaits or at once.
StageRequeues == /\ pipeline \in {"stages", "review"} /\ Requeue
                 /\ UNCHANGED pipeline

RequeueReturns ==
  /\ pc = "requeued" /\ pc' = "idle" /\ pipeline' = "halted"
  /\ UNCHANGED <<base, log, image, then, crashes>>

\* execute_run takes the halt for a request for approval; the status machine
\* allows that or refuses it.
EngineHalts ==
  /\ pipeline = "halted" /\ pipeline' = "none"
  /\ \/ update_run_status("HUMAN_APPROVAL_REQUIRED")
     \/ /\ pc = "idle"
        /\ Readable => "HUMAN_APPROVAL_REQUIRED" \notin VALID_TRANSITIONS(Current.status)
        /\ UNCHANGED vars

\* Every other end of the pipeline; its last status is one of Targets.
PipelineEnds == /\ pipeline \in {"stages", "review"} /\ pipeline' = "none"
                /\ pc = "idle" /\ UNCHANGED vars

NextRequeue ==
  \/ (Call \/ Open \/ Fill \/ Truncate \/ Announce \/ UnlinkEvents)
     /\ UNCHANGED pipeline
  \/ Crash /\ pipeline' = "none"
  \/ PipelineStarts \/ ReviewAsks \/ ReviewAccepts \/ StageRequeues
  \/ RequeueReturns \/ EngineHalts \/ PipelineEnds

SpecRequeue == Init /\ pipeline = "none" /\ [][NextRequeue]_requeueVars

-----------------------------------------------------------------------------
\* When ReviewGate, its agent's output rejected, has put the run back in the
\* queue, the run is pending ("Re-queue: update child_context with feedback
\* and reset to pending", engine/stages/review_gate.py).
RequeuedIsPending ==
  (pc = "requeued" /\ pipeline = "review") => Current.status = "pending"
=============================================================================
