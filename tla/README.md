# Formal model of the GIMO run orchestrator

GIMO (`tools/gimo_server`) is a FastAPI server that turns approved drafts into
*runs*: pipelines of stages (policy gate, risk gate, LLM execution, file
writing, review, merge) executed on one asyncio event loop, with their state in
files. These modules model the part that decides whether the server can be
trusted with that work: where a run's state lives, who may change it, who
executes it, and what is left after a crash. Paths below are relative to
`src/tools/gimo_server/` unless they say otherwise.

## The system

| Part | State it keeps | Operations | Talks to | What makes it correct |
|---|---|---|---|---|
| Run store (`services/ops/_run.py`, `_base.py`) | per run: a base JSON file, an append-only event log | create, change status, merge metadata, heartbeat, set stage, compact, clean up | everybody, under the OPS file lock | base and log together behave as one record; status moves only along `VALID_TRANSITIONS`; a crash loses no acknowledged write; the log is bounded |
| Run endpoints (`routers/ops/run_router.py`), supervised spawn (`resilience.py`) | spawned tasks | create, rerun, resume, cancel, discard, merge | store, engine, worker (`notify`) | at most one active run per key; a run said to be running is being run |
| Run worker (`services/execution/run_worker.py`) | `_running_ids` | tick: forget, reclaim, admit; wake parents | store, engine, governor | no run twice; slots; everything queued gets run |
| Engine and pipeline (`services/execution/engine_service.py`, `engine/`) | stage results, journal | run the stages in order, retry, roll back, set the outcome | store, stages | one outcome per run, never taken back; a halt waits for the human |
| Parent and child runs (`services/child_run_service.py`, `spawn_agents`, `subagent_gate`) | `awaiting_count`, `child_run_ids` | spawn, pause, complete | store, worker | the parent wakes exactly when its children are finished |
| Merge gate (`services/merge_gate_service.py`, `engine/stages/git_pipeline.py`) | the merge lock of the repository, `commit_before` of a run, the target branch | gate, pause for the human, manual merge, roll back | store, git | nothing lands ungated; a merge that failed has left nothing; one dry run at a time |
| File leases (`services/ops/_lock.py`) | a lock file per repository or plan, with owner and expiry | acquire, heartbeat, release, recover | merge gate, custom plans | who has not lost the lease is alone |
| Custom plans (`services/custom_plan_service.py`) | a file per plan, its execution lease, a working copy per execution | edit, delete, execute layer by layer, integrate, reconcile the lease | leases, git, models | dependencies; no failure hidden behind a plan that is done; no accepted edit is written over |
| Tool gate (`services/hitl_gate_service.py`) | action drafts, in-memory futures | ask, approve, reject, time out | graph engine, adapters | a tool acts on a human's approval, which is on record |
| Graph engine (`services/graph/`) | workflow state, checkpoints, review timer | execute, resume, review, call tools, checkpoint | tool gate, workflow endpoints | conditions and reviews are not jumped; every execution ends |
| Drafts (`services/ops/_draft.py`, `_approved.py`) | drafts, approved records | create, edit, approve, reject | run endpoints | one approved record per draft; only approved work runs |
| Requeueing stages (`review_gate`, `subdivide_router`), purge (`services/purge_service.py`) | write a run's files directly | requeue; remove what can be reconstructed | store | as the store |
| Lifespan (`main.py`) | background loops | startup reconcile, retention loop, shutdown | store, worker | nothing is left running without a process |
| Circuit breaker (`services/timeout/`), threat level, trust, notifications, cost, providers, front ends | their own | | | outside (see the last section) |

What is hard here: a status lives in two files that are written one after the
other; the process may die between any two writes; everything shares one event
loop, so code between two `await`s is atomic but whatever was read before an
`await` is stale after it; pipelines are started by two parties (request
handlers and the worker) that do not know of each other; heartbeats come only at
stage boundaries; cancelling a run does not stop its pipeline.
`PROJECT.json` lists these hazards at their lines with the properties aimed at
them.

## Modules

| Module | What it is |
|---|---|
| `RunStatus` | Status sets and transition table, shared by all |
| `RunRecord` | Abstract specification: a run is one record, changed atomically |
| `RunStore` | One run's files, at the grain of single file writes, with crashes |
| `MCRunStore` | TLC instance |
| `RunStoreProofs` | Inductive invariant and theorems about `RunStore` |
| `RunRequeue` | `RunStore` composed with the stages that put a run back in the queue |
| `RunWriters` | `RunStore` composed with the purge |
| `MCRunRequeue`, `MCRunWriters`, `RunWritersProofs` | TLC instances of the two; how far the statements they refute hold |
| `RunLifecycle` | Requests, pipelines, worker, retention, restart over several runs |
| `MCRunLifecycle` | TLC instance |
| `RunLifecycleProofs` | Inductive invariant and theorems about `RunLifecycle` |
| `ChildRuns` | One parent run, its waves of children, requests, completions, restart |
| `MCChildRuns`, `ChildRunsProofs` | TLC instance; inductive invariant and theorems |
| `Lease` | Abstract specification: a lease that expires under whoever holds it |
| `LeaseProofs` | Its invariant, which the two modules below instantiate |
| `MergeGate` | Gates of several runs on one repository, the pause, manual merges, rollbacks |
| `MCMergeGate`, `MergeGateProofs` | TLC instance; refinement of `Lease`, theorems |
| `PlanExecution` | Executions of one custom plan, its file and its lease |
| `MCPlanExecution`, `PlanExecutionProofs` | TLC instance; refinement of `Lease`, theorems |
| `ToolGate` | Drafts of tool calls, human decisions, timeouts |
| `Workflow` | The graph engine, composed with `ToolGate` |
| `MCWorkflow`, `WorkflowProofs` | TLC instance; theorems about both |

### RunStore and RunRecord

`base` is the JSON file (a record; or `Absent`; or `Torn`, a file truncated by
`write_text` and never filled; or `Gone`), `log` the event file. Every call
holds the file lock, so calls do not interleave; `pc` says which file write the
call in progress does next, `image` what it is about to write, `then` what
follows. `Crash` may happen at every `pc` other than `idle`.

* A record has three fields, one for each way the code stores things:
  `status` (status events), `meta` (any field carried by `merge_meta` and
  `stage` events, heartbeats included), `count` (any field stored only in the
  base: `awaiting_count`, `child_run_ids`, `child_context`).
* `Replay` is `_materialize_run`: each field ends with its last writer. It is
  defined without recursion so that it can be proved about.
* `update_run_status`, `merge_run_meta` (also `heartbeat_run`, `set_run_stage`,
  `update_run_merge_metadata`, which differ only in the fields of their event),
  `cleanup_old_runs`, `CreateRun` (`create_run` and `spawn_child`) and
  `PersistField` (`spawn_child`, `_handle_child_completion`, `_execute_run`)
  are the calls; `Open`, `Fill`, `Truncate`, `Announce`, `UnlinkEvents` the file
  writes that follow. An event is one short append and taken as atomic.

`ImplementsRecord` says that all this refines `RunRecord` under the mapping
`Shown`: what the files say is one record, status changes follow the table,
and the only thing a crash can do is lose the run (a torn base), never bring an
older state back.

### RunRequeue and RunWriters

In `RunRequeue` a pipeline goes through its stages while all other calls of the
store go on. `ReviewGate` appends `awaiting_review` (`ReviewAsks`), awaits the
decision, and then either moves the run on (`ReviewAccepts`) or rewrites the base
(`StageRequeues`); `SubdivideRouter` does the latter at once. `Requeue` takes the
base as it is on disk and asks for no status, so a run that was cancelled or ended
during the await is rewritten too. After the write the engine takes the halt for a
request for approval (`EngineHalts`).

In `RunWriters`, `PurgeEvents` and `PurgeLogs` are the two first file operations of
`purge_run`. Both modules go around the store's calls, and each composition
violates what the code says of it (see the runs).

### RunLifecycle

One record per run (`RunStore` justifies it); an action is the code between two
points where the event loop may switch. `status`, `age` (time since the last
heartbeat, in two thresholds: 1 is the worker's 60 seconds, 2 the 10 minutes of
the stale recovery), `key`, `gate` (what the policy and risk gates would ask of a
pipeline that starts now) describe a run; every pipeline computes that verdict anew
from the draft, so an edit may change it between two pipelines of one run (`edited`
remembers the runs this happened to); `waiting` and `going` count the pipelines
scheduled and started, by who scheduled them (`http` or `worker`); `running_ids` is the worker's set;
`up` and `crashes` the process. `shadowed` says that the log holds a status
event, and decides what the stale recovery of `create_run` (which writes the
base only) achieves; `declared` records that it was tried in vain.

| Action | Code |
|---|---|
| `CreateRun`, `create_run` | `OpsService.create_run` and the request handler around it |
| `Rerun`, `Approve`, `Reject`, `Cancel` | the handlers of rerun, resume, cancel and discard |
| `update_draft` | an edit of the draft's context that changes the gates' verdict on one of its runs |
| `Start`, `StartHalts`, `StartFails`, `StartOnNothing` | a pipeline from its first line to its first wait: both gates run on the way |
| `Beat` | the heartbeat at a stage boundary |
| `Finish` | the end of `execute_run`, its failure path, and `_execute_run`'s `finally` |
| `Tick` | `RunWorker._tick` |
| `Age` | time passes |
| `Cleanup` | `cleanup_old_runs` from the retention loop |
| `GoDown`, `ComeUp` | process death or shutdown; startup reconcile |

Runs of the compositions without children and without merge gate are covered
(`legacy_run`, `structured_plan`, `file_task`, `custom_plan`); the other two are
`ChildRuns` and `MergeGate`.

### ChildRuns

`parent`, `child_run_ids` and `awaiting_count` are fields of the parent's record,
`child` the children's statuses, `pipes` the parent's pipelines by who started
them and where they are, `held` and `reporting` the worker's memory. A
multi_agent pipeline has no stage that waits, so it is one step (`Decides`,
then `Continues`, `Halts` or `TooLate`) unless a stage raises; `Raises` is then
the part of the wave that was spawned, with at most one child whose second file
was not written, followed by the sleep of the retry. `spawn_child`,
`pause_parent` and `handle_child_completion` are the locked read-modify-writes of
`child_run_service.py` and `run_worker.py`; `Reclaim` puts a parent without
heartbeats back in the queue (pending, where neither stage nor request may spawn)
and `Admit`, in the same tick or a later one, starts it, so that an old pipeline may
still be at work when the new one moves the parent to running; `ComeUp` is the
reconcile, which looks parents up in a snapshot from before the pass: a pending
child of a parent that this pass ends is not marked and executes later without a
parent.

The halt of the stage does not last: `execute_run` answers it with
HUMAN_APPROVAL_REQUIRED, which the table refuses from awaiting_subagents, and the
parent ends in error. `WaitsByRequestOnly` states this; a parent really waits
only when a request pauses it.

Tasks have ids, each its own. The stage knows the tasks it has spawned by id
(`engine/stages/spawn_agents.py:110`), so a task without one, or two tasks with the
same one, are spawned again with every wave; such lists are outside the model, and
`OneChildPerTask` says nothing of them.

`Unheard` are the children that ended and will never be reported: cancelled ones,
which the finally clause of `_execute_run` passes over (`run_worker.py:536`), and
those whose report a restart has lost. A parent with such a child may wait for
ever; the code does nothing about it. The properties of the wake-up name exactly
this exception. A restart ends a waiting parent, but a parent in the queue (a
reclaimed one) survives it while the reconcile marks its running children as error
and reports none of them: if it is paused afterwards, it waits for their reports in
vain.

### Lease, MergeGate and PlanExecution

`Lease` is what `_lock.py` promises: a lease is free or past its expiry when
somebody takes it, nobody is told when it is lost, and a release removes the file
only when it carries the worker's name. `HolderAlone` is its property. Both locks
implement it, each with the names it writes into the file: the merge lock the
run's id, which two pipelines of one run share, and the execution lock a token.

`MergeGate`: tests, lint and the dry run are synchronous, so `Stage` is
one step up to the `await` of the heartbeat task in the finally clause; by then
the heartbeat has not beaten once, and the lock may have expired (`EndTail`
releases it). The lock covers the dry run only. `perform_manual_merge` takes no
lock and does not suspend; it is one step unless the process dies in it.
`commit_before` is HEAD when the gate passed, so a rollback also drops merges
of other runs that landed since, and the branch it resets may be another one
that has been checked out (`elsewhere`). When writing the outcome fails after the
done event was appended, the run is done although its merge was rolled back
(`MergeUndone`); when the rollback fails too, or the process dies between merge
and status, the merge stays without a record (`unrecorded`). AWAITING_MERGE and
MERGE_LOCKED survive a restart. The runbook
(`docs/runbooks/p2-lifecycle-incident-response.md:63` in the repository) describes
MERGE_LOCKED as a state that goes over into normal execution; the engine ends such
a run in error (`Refused`). `target` holds the merges, not the contents of
workspaces, which may change between the gate's tests and the merge.

`PlanExecution`: each execution reads the plan once and each save writes its
whole copy. `phase` says where it is; `queued` and `running` are the nodes of its
layer before and behind the semaphore; `past` the layers begun. Nodes work in
ephemeral clones, and the integration merges a branch that exists only there, so
an execution whose nodes committed something ends in error; when the plan is
executed again it finds these nodes done, integrates nothing, and the plan ends done
although that work never landed. `committed` is what one execution knows of, and it
is forgotten with the execution, as in the code; no property claims that the commits
of a done plan are in the repository. `DoneLeavesNoError` is what `done` does mean:
no node is in error, and only nodes skipped because of an earlier execution are not
done. Nodes once skipped stay skipped (`stale`).
After an overtaken execution concludes, the plan may be edited while the other
one still executes, and the edit is then lost: `lapsed` is the exception of
`EditKept`. `delete_plan` has no guard. After a restart a plan that was running
stays in that status, there is no reconcile of plans.

### ToolGate and Workflow

`ToolGate` has the record of each draft, the future its caller waits on, the
table `waiters` where a decision finds the future, and the answer of the call.
Decisions may come twice, after the timeout, in the same turn of the loop as the
timeout, or after a restart. `Workflow` EXTENDS it: `at`, `node`, `iterations` and
`attempts` are local to an execution, `checkpoints` and the review timer
`pending` belong to the engine that all executions of a workflow share, because
a resume starts another loop over it. `checkpoints` is a set; which one a
resume takes is any that the endpoint could find. The budget's verdict, the
outcome of a node and of an edge's condition are choices. A review's decision is
`approve` (which stands for edit and takeover, they go on in the same turn),
`reject` (or anything unknown) or `fork`, whose branches are awaited: `Forks` gives
the loop away and `Joins` goes on with the selected branch or fails.

`Tools` are the calls the gate puts in front of a human: critical tools called by a
node whose policy asks for confirmation. A node with neither an execution policy nor
a role runs its tools without the gate (`services/graph/node_executor.py:210-212`),
and the gate itself lets tools that are not critical pass
(`services/hitl_gate_service.py:133`); both are outside `Tools`, and
`ToolNeedsApproval` says nothing of them. There is one engine: executing the id of a
workflow a second time (`routers/ops/run_router.py:630-637`) makes another engine
with its own state, which only shares the table of drafts.

What this brought to light and no document contradicts: a resume goes on after
a node that failed; a review without a decision in the initial state cannot be
decided by any endpoint, and its timer restarts with each resume (only two
concurrent loops let it elapse); after a review that was rejected, a resume goes on
along an edge without a condition (`ReviewNeedsDecision` speaks of reviews that
complete); a workflow past its timeout stops at once in
every resume, since the start time is kept.

## Runs

| Run | Question | Result |
|---|---|---|
| `run_store` | do the files behave as one record, is the log bounded, is the outcome in the base? | holds |
| `requeue_lost` | is a run pending when a rejected review has put it back in the queue? | violated |
| `purge_revives` | does an interrupted purge keep the run's outcome? | violated |
| `lifecycle` | seven safety properties of two runs under every interleaving, with a restart | holds |
| `lifecycle_live` | does every queued or running run settle? | holds |
| `stale_duplicate` | is there at most one active run per key? | violated |
| `double_execution` | does a run have at most one pipeline past the gates? | violated |
| `child_runs` | count, order of the waves, identity and wake-up of children, in every interleaving with one restart | holds |
| `merge_gate` | does nothing land ungated or unreported, does the lock implement the lease, does the gate end? | holds |
| `merge_pause` | does a run stay in AWAITING_MERGE until it is merged? | violated |
| `plan_execution` | lease, dependencies, hidden failures, edits and termination of two executions of a plan | holds |
| `workflow` | approvals, conditions, reviews, answers and termination in a cyclic workflow | holds |

What the properties say and why they could fail:

* `TruncateLosesNothing`, `LogBounded`, `OutcomeInBase` (RunStore): the order of
  append, rewrite and truncation. `LogBounded` is tight: terminal events are
  appended without compaction, `MERGE_CONFLICT` is terminal and can move on, and
  each crash in the middle of a compaction leaves its event behind.
* `RunningHasPipeline`, `WorkerRunsOnce`, `SlotsRespected`: the bookkeeping of
  `_running_ids` against cancellations, reclaims, approvals and restarts.
* `NothingRunsUnapproved`: a second pipeline (after a reclaim) must not put a run
  in front of a human while the first is already executing it. That is the gates'
  doing as long as both compute the same verdict; a draft edited between the two
  (`edited`) breaks it, and the code has nothing against that.
* `DuplicatesWereStale`: two active runs of one key exist only when the stale
  recovery has been tried.
* `OutcomeIsFinal`: no pipeline, reclaim, late approval or restart takes back an
  outcome.
* `Settles`: liveness.
* `CountExact`, `WakesWhenAllEnded` (ChildRuns): three parties change the count in
  locked steps of their own; a lost update would wake the parent early or never.
  A spawn cut between the child's file and the parent's is the exception (`torn`):
  the child the parent does not know of is subtracted all the same.
* `WaitsForSomebody`: a waiting parent that has no unheard child waits for one that
  has still to end or whose report is on its way. With a cut spawn the count reaches
  zero too early, never too late; with a lost decrement it would not reach zero. That
  an unheard child does strand its parent is the code's behaviour, which neither this
  property nor `PausedParentWakes` excludes.
* `DependenciesFirst`, `OneChildPerTask`: a retried stage and a second pipeline
  decide again from what the first attempt left.
* `PausedParentWakes`, `GateEnds`, `PlanEnds`, `EveryCallAnswered`,
  `ExecutionEnds`: liveness.
* `ImplementsLease` (twice), `ExecutionAlone`: nobody takes, extends or removes a
  lease that is another's.
* `MergedPassedGate`, `LandedIsDone`: second pipelines, cancellations, restarts,
  failed writes and rollbacks against what is in the target branch.
* `DependenciesDone`, `DoneLeavesNoError`, `EditKept`: executing a plan again after an
  error, and whole-file saves against edits.
* `ToolNeedsApproval`, `AllowIsOnRecord`, `ConditionsHold`, `ReviewNeedsDecision`:
  what resumes, repeated decisions and two loops on one engine must not achieve.

The five violated properties are statements of the repository:

* `RequeuedIsPending`: "Re-queue: update child_context with feedback and reset to
  pending" (`engine/stages/review_gate.py:90`). The base is written, but the log
  ends with the `awaiting_review` that the stage itself appended at line 52, or with
  what became of the run since: every reader keeps that status, nobody executes the
  run again, and the halt ends it in error. `SubdivideRouter` does the same to a run
  whose log says running.
* `PurgeKeepsOutcome`: "retain minimal terminal metadata only", "fail closed on
  partial purge" (`services/purge_service.py:24-26`). The log goes first; with a
  base left behind by an earlier crash the run is active again.
* `OneActivePerKey`: "Force move to error so it's no longer 'active'"
  (`services/ops/_run.py:240`). The forced status is hidden by the log.
* `OnePipelineAtATime`: the handler starts the run itself "to avoid pending limbo
  and worker race on the same run" (`routers/ops/run_router.py:292`). The worker
  does not know of the handler's pipeline and reclaims the run when one stage
  takes more than 60 seconds.
* `PauseIsMandatory`: "Phase 7B Mandatory Pause: transition to AWAITING_MERGE"
  (`services/merge_gate_service.py:254`), "explicit human trigger for repo
  mutation" (line 27). The stage returns `continue`, the engine writes its final
  done over the pause, and the merge endpoint refuses the run from then on. A
  merge is possible only while the gate's finally clause waits for the heartbeat
  task, or when the process dies in that time.

### Bounds

* `RunStore`: `CompactAt = 2` instead of 50 (a compaction is then reachable
  after every mix of two events), two metas, two counts, five target statuses
  (active, terminal, terminal that may move on, resumable), two crashes: the
  second crash can hit the state the first left behind.
* `RunRequeue`, `RunWriters`: `CompactAt = 3`, so that a status event can be in the
  log without a compaction; one meta.
* `RunLifecycle`: two runs (sharing a key or not), one slot, one restart. Two
  runs compete for the key, the slot and the queue; three would add only a
  longer queue. `lifecycle` edits the draft under one run, which leaves the other
  for what holds without an edit; keys are symmetric (838,106 states up to
  symmetry). `lifecycle_live` uses one key, as liveness does not depend on the key
  once the run exists, and no edit: an edit only swaps one verdict for another, and
  both are open to every run from its creation.
* `ChildRuns`: two tasks, one depending on the other, the first of which may be
  spawned twice (a cut spawn leaves a child the parent does not know of), one
  child by request that a human has to approve, one retry, one restart (631,520
  states).
* `MergeGate`: two runs, one with a second pipeline, and two mishaps (failing
  writes, restarts): the second can hit what the first left. `merge_pause` needs
  none.
* `PlanExecution`: two nodes and one that depends on both, two executions, one
  place in the semaphore, one edit, one mishap.
* `Workflow`: plan, review, deploy and back, the critical tool retried once; two
  drafts, two decisions (so that one can be taken twice), two loops, one resume,
  one mishap, three iterations (once round the cycle); the review may be a fork
  (519,802 states).

The theorems have none of these bounds.

### Fairness

`FairSpec` assumes weak fairness of `Tick(TRUE)` (the loop wakes every 30
seconds; the governor defers, but not for ever), of each pipeline's next step
`Advance` (the event loop runs what is scheduled, and a stage returns or is
timed out: the supervisor's 3600 s for spawned runs, the providers' own timeouts
for the worker's) and of `ComeUp` (somebody restarts the server). Requests,
retention, heartbeats and the passage of time are not fair. The number of runs
ever created is bounded; without that bound newest-first admission would starve
an old run, which is listed as a hazard.

The other modules assume weak fairness of what the event loop owes to a task
that can go on, and nothing of humans, failures or restarts:

* `ChildRuns`: a pending child is started, a started one ends, one that ended is
  reported (`ChildStep`). `PausedParentWakes` excuses the parent of an unheard child
  and of one that stands in front of a human: the code never subtracts the first.
* `MergeGate`: the stage runs, and its finally clause ends when the heartbeat task
  wakes from its sleep and sees the stop (`Stage`, `EndTail`).
* `PlanExecution`: each execution goes on (`Step`): nodes return or are timed out.
  The wait for the resource governor has no timeout of its own; it is taken to end.
* `Workflow`: each loop goes on (`LoopStep`), which includes that a waiting call
  is answered by its timeout.

Liveness is stated as `[]<>P`, which is what `~P ~> P` says and cheaper to check.

## Proofs

TLC looks at instances; the theorems hold for every value of the constants, under
the assumptions named in the modules (`StoreAssumption`, `StoreMarkersAssumption`,
`LifecycleAssumption`, `ChildAssumption`, `MergeAssumption`, `PlanAssumption`,
`GateAssumption`, `WorkflowAssumption`: the sets the constants come from, `CompactAt` above one,
markers that are no records, at least one key and one slot).

### RunStoreProofs

`Invariance` proves an inductive invariant `IInv` of `Spec`; `TypeCorrect`,
`TruncateSafe`, `LogStaysBounded` and `OutcomePersisted` follow from it, and
`StoreImplementsRecord` maps every step of the store to a step of `RunRecord` or
a stutter. The properties of `run_store` are not inductive: whether a truncation
loses something was decided two file writes earlier. `IInv` therefore says, for
each `pc`,

* `OpenInv`: replaying the log over the record that waits to be written gives
  what the files already say (but for the field a `PersistField` call changes),
  and over a record that is to be followed by a truncation gives that record;
* `ExistsInv`: which calls can be in progress on a run that is absent or removed;
* `LengthInv`: how far the log may have passed `CompactAt`, by the terminal moves
  made so far (a run makes at most two, by the table) and by the crashes;
* `OutcomeInv`: without a crash, the base or the record about to become it never
  lags behind a terminal status.

The lemmas about `Replay` (what it makes of each field, that replaying twice is
replaying once, that an empty log changes nothing) carry the argument; `Replay` is
defined by last writer, so they need no induction over sequences.

Two consequences are stated on their own: `OutcomeNeverChanges` (a run that can be
read tells the outcome it once told, read off the refinement: in `RunRecord`
nothing leaves a final status), and `NoTearWithoutCrash` (a torn base that no call
is about to fill is the work of a crash).

### RunWritersProofs

The two compositions refute what the code says of them; the theorems say how much
of it is left. `RequeueScope`: the rewrite of the base is heard only if the log holds
no status event, and then the run is pending for its readers whatever it was, also
one that had ended; otherwise it keeps the status it had, awaiting review, cancelled
or any other. The invariant follows the record from the stage's call to its return;
it needs nothing of `IInv`. `PurgeScope`: a purge that stops half way for the first
time keeps the outcome, so `PurgeKeepsOutcome` takes two crashes, the first of
which leaves the base behind its log. `IInv` does not survive the purge (the purge
is no step of `RunRecord`); `PurgeInv` keeps what is needed of it, `OutcomeInv`
above all, and the lemmas about `Replay` serve again.

### RunLifecycleProofs

`Invariant` proves `IInv == TypeOK /\ (\A r : RunInv(r)) /\ SlotInv /\ KeyInv`
for any number of runs, keys, slots and restarts; the seven properties of the
run `lifecycle` follow as `TypeCorrect`, `NoRunLeftBehind`, `WorkerOnce`,
`SlotBound`, `GatesHold`, `OnlyStaleDuplicates` and `OutcomesAreFinal`. What the
properties leave out and the induction needs:

* `WorkerRunsOnce` alone is not inductive: the tick starts whatever is pending
  and not held. `RunInv` adds that a run with a pipeline of the worker is in
  `running_ids` or has ended. A cancelled run is forgotten while its pipeline
  goes on, and this is safe only because its status never becomes active again,
  which is `FinalStep`, proved along with the invariant.
* `NothingRunsUnapproved` needs that nothing of a run whose gate still asks is
  past the gates, and that a run in front of a human is one whose gate asks; both
  hold of the runs whose draft was not edited under them.
* `SlotsRespected` counts runs with pipelines, the code counts ids: `SlotInv`
  bounds the ids, and `NewestCounts` (at most `n` members of a set have fewer
  than `n` members above them) that a tick admits no more than there are slots.
* `DuplicatesWereStale` needs that runs are created in order: the stale recovery
  looks at the newest active run of a key only, and an older one that is active
  must have been declared by the request that created a newer one.

Lemmas `WriteStep`, `RunStep` and `CalmStep` say once what a step must satisfy to
keep the invariant; each action then has a lemma of its own.

Four more theorems follow:

* `NoSlotLeaks`: an id in `_running_ids` is that of a run with a pipeline of the
  worker, and if the run is queued, its draft not edited, that pipeline has yet to
  start (the exception is a second pipeline halting what the first executes; the
  first then ends the run). So the ticks that
  pass the run over are right to, and a full worker is one at work: what of
  `Settles` is safety. Inductive on top of `IInv`; the step that could break it is a
  spawned pipeline that halts a run the worker holds, and there the gate that still
  asks shows that the worker's pipeline has not started.
* `NoThirdPipeline`: one pipeline of the request and one of the worker's at most.
  This is what remains of the violated `OnePipelineAtATime`.
* `ApprovalLasts`: a human is asked about a run once.
* `RunsFollowTable`: all writers together, reconcile and stale recovery included,
  follow the table (`StepOK` shows what a step may do to one run).

### ChildRunsProofs

`IInv` adds to the properties that the children of an id are numbered without gaps
(`Numbered`), so that `Fresh` is a child nobody has spawned and spawning undoes no
outcome; that known children are finitely many, and unless a spawn was cut every
spawned child is known; that what was or will be reported has ended, and is
reported once (`Known`). `SpawnStep` covers the stage's loop and the request alike,
`CalmStep` every step that spawns nothing. `WokenWhenAllEnded` follows: when a
report brings the exact count to zero, the reporting child was the only one left.

`WaitingForSomebody` concerns the opposite danger, a parent nobody will wake.
`WakeInv` adds to `IInv` that the count is never larger than the number of known
children not yet counted (a cut spawn makes it smaller, not larger), so a waiting
parent has one; and a child that is not counted has not ended, is about to be
reported, or is unheard.

### LeaseProofs, MergeGateProofs, PlanExecutionProofs

`LeaseInvariance` proves `LInv`: whoever works and was not overtaken owns the lease
and is alone. The two other modules instantiate `LeaseProofs`, and each proves that
its steps are lease steps or stutter (`GateImplementsLease`,
`PlanImplementsLease`), from types alone.

* `MergeGate`: `MergedPassedGate` and `LandedIsDone` speak about the target branch,
  but a rollback may bring back what was there when any gate passed. `History`
  therefore says of everything in the target *or in any `commit_before`* that it
  has passed and is settled, and that who waits in AWAITING_MERGE has passed.
* `PlanExecution`: `LayerInv` (layers begun are settled, the nodes of one layer do
  not depend on each other, what is open has its dependencies done), `CopyInv` (what
  an execution's copy says of the plan as a whole) and `FileInv` (until a lease is
  overtaken, one execution works and the file is closed to edits and as new as its
  copy). That nodes of one layer are independent needs the assumption that the
  graph has no cycles, which `_validate_plan` checks.

Beyond what the runs check:

* `MergeGate`: `PauseEndsWithTheGate` says when a run is in AWAITING_MERGE at all,
  namely while the finally clause of one of its gates lasts, unless a write failed
  or the server died: the exact scope of the violated `PauseIsMandatory`.
  `NoRunStranded` says the same of every status that can still change, and
  `OverIsOver` that what a pipeline leaves is fixed, whatever a second pipeline of
  the run does. The three are inductive together (`GateInv`): what the engine writes
  over a refusal, a pause or a cancellation has no successor (`EndedFixed`,
  `RefusedFixed`). `RunsFollowTable` is the table again.
* `PlanExecution`: `NoNodeTwice`, and `PlansMoveOn`, which defines
  a bounded measure of an execution (`Further`: phase, layers begun, nodes before,
  then behind the semaphore) and shows that each of its steps raises it and nobody
  else lowers it. That a layer is never empty before all nodes are through
  (`NextLayer`) needs the graph to have no cycles.

### WorkflowProofs

`GateInv` says that a decision can only reach the future of a draft nobody has
decided on, and that what the future holds is what the record says. `LoopInv`,
`CallInv` and `EngineInv` say where a loop may be (`Reached`), that no two
calls wait on one draft, and that checkpoints lead only to where a loop may come
and timers run only for reviews an execution has paused for. The five theorems
follow for any graph, retries, reviews, number of loops, drafts and restarts.

`EndInvariant` adds who takes an answer: a call that waits has one loop waiting on
it and a future that is open or set, so `NobodyWaitsInVain`; a tool that ran has an
answer that let it (`NoRefusedToolRuns`), and no answer changes once it is given
(`NoAnswerTakenBack`). Retries stay within their number (`RetriesAreBounded`), and
`EveryStepCounts` and `NobodySetBack` give the measure of an execution (`Later`:
nodes entered, attempts, place within the attempt) that its steps raise and nothing
lowers, whatever the cycles of the graph.

### Only model-checked

Liveness is beyond the prover: `Settles`, `PausedParentWakes`, `GateEnds`,
`PlanEnds`, `EveryCallAnswered`, `ExecutionEnds` stay with TLC. Their safety halves
are proved (`NoSlotLeaks`, `WaitingForSomebody`, `NoRunStranded`, `PlansMoveOn`,
`NobodyWaitsInVain`, `EveryStepCounts`): nobody is stranded, and where there is a
measure, each step of whoever is treated fairly raises it. What is left to TLC is
that such steps are enabled and, by fairness, taken.

The violated statements are not theorems; four of the five have their scope proved
(`RequeueScope`, `PurgeScope`, `NoThirdPipeline`, `PauseEndsWithTheGate`), and
`DuplicatesWereStale` is the scope of `OneActivePerKey`. Every invariant and every
action property of the passing runs is proved. The properties that only the proof
modules define were model-checked on the instances of the runs before they were
proved.

## Plan

What is written was built in this order: the store, the life cycle, children, the
leases with merge gate and plans, the tool gate with the graph engine. What is
left, most important first:

1. `Drafts`: drafts and approved records as files, with a crash between the two
   writes of an approval (`services/ops/_draft.py:166`), edits and rejections that
   ask for no status, and a run created from either. Abstract specification: a
   decision that is taken once.
2. `Pipeline`: rollback in reverse order, once a stage has something to roll back;
   today's stages have not.
3. Several drafts' runs, children and gates in one instance: the modules share
   `RunStatus`, but no run of TLC holds two of them at a time.

## Not modelled

* Drafts and approvals: next in the plan. That a run has an approved record is
  taken as given.
* The circuit breaker: nothing instantiates it outside its tests.
* What a stage, a node or a tool computes: calls of models and providers, prompts,
  parsing, git and test commands. Outcomes are free choices.
* The agentic chat loop and its conversations, sub-graphs and agent patterns inside
  a workflow node, the reported flags of a workflow (`paused`, `aborted_reason`).
* How the policy gate, the risk gate, the budget and the resource governor reach a
  verdict; the verdict is a free choice.
* The other callers of the tool gate (adapters, `review_gate`, `spawn_agents`) and
  the saves of `routers/ops/mastery_router.py`, which write a plan without the lease.
* `cleanup_old_runs` removes by the age of the base file, active runs included, and
  a cancelled run frees its slot while its pipeline still executes: both are in
  `RunLifecycle` as the code has them, and nothing in the repository forbids them.
* Threat level, rate limits, trust and capability statistics, cost: they colour
  verdicts and answers but write no run.
* Notifications, text logs, telemetry: written and not read back.
* Read-only endpoints, the tool manifests of the MCP bridge, web and terminal front
  ends: they keep no state of the orchestration. They, the providers and the
  routers are most of the repository's lines, so that the share of lines modelled
  is small although the parts that coordinate concurrent work are covered.
* Tasks of `child_tasks` without an id or with one id twice; tools that run without
  the gate; a second engine of one workflow (see `ChildRuns` and `Workflow`).
* Two pipelines of one run at the merge lock write the same name, so the lock does
  not keep them apart: `ImplementsLease` is about different runs. What two such
  pipelines may do to the target branch is in `MergedPassedGate` and `LandedIsDone`.
* Several server processes on one directory: the file lock would serialise their
  writes, but `_running_ids` and the startup reconcile assume one.
