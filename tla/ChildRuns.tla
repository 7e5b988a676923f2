----------------------------- MODULE ChildRuns -----------------------------
(***************************************************************************)
(* One parent run and the child runs it waits for: the spawn_agents and    *)
(* subagent_gate stages of a multi_agent pipeline, the /child-runs         *)
(* endpoints, the worker that executes the children and reports each one   *)
(* that ends, and the restart reconcile.                                   *)
(*                                                                         *)
(* A multi_agent pipeline has no stage that waits, so it is one step from  *)
(* its first line to its end, unless a stage raises: the pipeline then     *)
(* sleeps and tries the stage again.  The gates before the spawning are    *)
(* taken as open (RunLifecycle has them).  Tasks are told apart by their   *)
(* ids: every task of child_tasks has one and no two share it (the stage   *)
(* spawns a task with no id, or with another one's, again and again).      *)
(***************************************************************************)
EXTENDS RunStatus, Integers, FiniteSets

CONSTANTS
  Tasks,        \* the ids of child_tasks
  Direct,       \* stands for the children a request spawns: no id of a task
  depends_on,   \* the tasks each task names
  MaxChildren,  \* bound: children ever spawned, per task and by requests
  NeedsHuman,   \* the ids whose children stop at a gate until approved
  MaxRetries,   \* PipelineConfig.max_retries
  MaxCrashes    \* bound: how often the server goes down

ASSUME ChildAssumption ==
  /\ depends_on \in [Tasks -> SUBSET Tasks] /\ Direct \notin Tasks
  /\ IsFiniteSet(Tasks)
  /\ MaxChildren \in [Tasks \cup {Direct} -> Nat]
  /\ NeedsHuman \subseteq Tasks \cup {Direct}
  /\ MaxRetries \in Nat /\ MaxCrashes \in Nat

Children == UNION { {t} \X (1 .. MaxChildren[t]) : t \in Tasks \cup {Direct} }

ChildStates == { "none", "pending", "running", "HUMAN_APPROVAL_REQUIRED",
                 "done", "error", "cancelled" }

ParentStates == { "pending", "running", "awaiting_subagents",
                  "done", "error", "cancelled" }

\* Where a pipeline of the parent is: scheduled, in a stage that waits (of a
\* composition that is not multi_agent), or asleep after so many failures.
Scheduled == 0
Busy      == MaxRetries + 1
Places    == Scheduled .. Busy
Kinds     == { "http", "worker" }   \* who started it

VARIABLES
  child_tasks,    \* the parent's context declares the tasks
  parent,         \* the parent's status
  child_run_ids,  \* the children the parent knows of
  awaiting_count, \* how many of them the parent believes unfinished
  child,          \* status of each child
  pipes,          \* pipelines of the parent, by starter and place
  held,           \* the parent is in RunWorker._running_ids
  reporting,      \* children that ended and have not been reported yet
  counted,        \* history: children whose end has been reported
  torn,           \* history: a spawn_child wrote the child and no parent
  paused,         \* history: a request paused the parent
  up, crashes

vars == <<child_tasks, parent, child_run_ids, awaiting_count, child, pipes,
          held, reporting, counted, torn, paused, up, crashes>>

memory == <<pipes, held, reporting>>
server == <<up, crashes>>

NoPipes == [k \in Kinds |-> [p \in Places |-> 0]]

Terminal == { "done", "error", "cancelled" }

Init ==
  /\ child_tasks \in BOOLEAN
  /\ parent = "running" /\ child_run_ids = {} /\ awaiting_count = 0
  /\ child = [c \in Children |-> "none"]
  /\ \E k \in Kinds :
       /\ pipes = [NoPipes EXCEPT ![k][Scheduled] = 1]
       /\ held = (k = "worker")
  /\ reporting = {} /\ counted = {} /\ torn = FALSE /\ paused = FALSE
  /\ up = TRUE /\ crashes = 0

Moved(q, s) == IF s \in VALID_TRANSITIONS(q) \cup {q} THEN s ELSE q

\* update_run_status and, when that is refused, the except branch's error.
Ended(q, s) == IF s \in VALID_TRANSITIONS(q) \cup {q} THEN s
               ELSE Moved(q, "error")

(***************************************************************************)
(* Spawning.                                                               *)
(***************************************************************************)
Fresh(t) ==
  <<t, Cardinality({ c \in Children : c[1] = t /\ child[c] # "none" }) + 1>>

Spawnable(t) == Fresh(t) \in Children

\* Mutant: the parent is not reloaded, the next child overwrites the count.
spawn_child_stale(S, half) ==
  LET born == { Fresh(t) : t \in S }
  IN /\ child' = [c \in Children |->
                    IF c \in born \/ (\E t \in half : c = Fresh(t))
                      THEN "pending" ELSE child[c]]
     /\ child_run_ids' = child_run_ids \cup born
     /\ awaiting_count' = IF S = {} THEN awaiting_count ELSE 1
     /\ torn' = (torn \/ half # {})

\* spawn_child, once for each task of S: the child's file, then the parent's.
\* half holds the task whose second write failed, if one did.
spawn_child(S, half) ==
  LET born == { Fresh(t) : t \in S }
  IN /\ child' = [c \in Children |->
                    IF c \in born \/ (\E t \in half : c = Fresh(t))
                      THEN "pending" ELSE child[c]]
     /\ child_run_ids' = child_run_ids \cup born
     /\ awaiting_count' = awaiting_count + Cardinality(S)
     /\ torn' = (torn \/ half # {})

SpawnsNothing == UNCHANGED <<child, child_run_ids, awaiting_count, torn>>

Spawned == { c[1] : c \in child_run_ids }
Finished == { c[1] : c \in { d \in child_run_ids : child[d] = "done" } }

\* Mutant: a task waits only for its dependencies to be spawned.
ReadyOnceSpawned ==
  { t \in Tasks : t \notin Spawned /\ depends_on[t] \subseteq Spawned }

\* Mutant: the children spawned before are not looked at.
ReadyAgain == { t \in Tasks : depends_on[t] \subseteq Finished }

ready_tasks ==
  { t \in Tasks : t \notin Spawned /\ depends_on[t] \subseteq Finished }

(***************************************************************************)
(* Pipelines of the parent.                                                *)
(***************************************************************************)
\* The pipeline leaves its place for another one, or for good; then, if it is
\* the worker's, the finally clause forgets the id.
Goes(k, p, q) ==
  /\ pipes' = [pipes EXCEPT ![k][p] = @ - 1, ![k][q] = @ + 1]
  /\ UNCHANGED held

Leaves(k, p) ==
  /\ pipes' = [pipes EXCEPT ![k][p] = @ - 1]
  /\ held' = (held /\ k = "http")

Here(k, p) == up /\ pipes[k][p] > 0

\* execute_run takes the multi_agent composition.
Multi == child_tasks \/ child_run_ids # {} \/ awaiting_count > 0

\* The first lines of execute_run move a pending parent to running; a
\* pipeline that is past them leaves it pending.
Started(p) == IF p = Scheduled /\ parent = "pending" THEN "running" ELSE parent

\* spawn_child refuses any other parent, a reclaimed one too.
MaySpawn(s) == s \in {"running", "awaiting_subagents"}

\* From its first line, or after a sleep, to the point where spawn_agents has
\* decided: the parent is alive and the pipeline a multi_agent one.
Decides(k, p) ==
  /\ Here(k, p) /\ p # Busy /\ (p = Scheduled => Multi)
  /\ parent \in {"pending", "running", "awaiting_subagents"}
  /\ UNCHANGED <<child_tasks, reporting, counted, paused, server>>

\* The stage has nothing to spawn and subagent_gate nobody to wait for.
Waits == awaiting_count > 0

Continues(k, p) ==
  /\ Decides(k, p) /\ ~Waits /\ (child_tasks => ready_tasks = {})
  /\ parent' = Ended(Started(p), "done")
  /\ SpawnsNothing /\ Leaves(k, p)

\* Mutant: the halt of a parent that waits for its children is respected.
HaltKeepsWaiting(k, p) ==
  /\ Decides(k, p)
  /\ \/ Waits /\ SpawnsNothing
     \/ ~Waits /\ child_tasks /\ ready_tasks # {} /\ SpawnsNothing
     \/ /\ ~Waits /\ child_tasks /\ ready_tasks # {} /\ MaySpawn(Started(p))
        /\ \A t \in ready_tasks : Spawnable(t)
        /\ spawn_child(ready_tasks, {})
  /\ parent' = "awaiting_subagents"
  /\ Leaves(k, p)

\* Children are pending, or the guardrails (depth, tier) refuse the wave, or a
\* whole wave has been spawned: the run is moved to awaiting_subagents (or
\* awaiting_review) and the stage halts.  execute_run answers every halt with
\* HUMAN_APPROVAL_REQUIRED, which both statuses refuse, so the run ends in
\* error before anybody else has a turn.
Halts(k, p) ==
  /\ Decides(k, p)
  /\ \/ Waits /\ SpawnsNothing
     \/ ~Waits /\ child_tasks /\ ready_tasks # {} /\ SpawnsNothing
     \/ /\ ~Waits /\ child_tasks /\ ready_tasks # {} /\ MaySpawn(Started(p))
        /\ \A t \in ready_tasks : Spawnable(t)
        /\ spawn_child(ready_tasks, {})
  /\ parent' = Ended("awaiting_subagents", "HUMAN_APPROVAL_REQUIRED")
  /\ Leaves(k, p)

\* A file operation raises in the middle of a wave or right after it, or
\* spawn_child refuses the parent: the stage sleeps and is tried again, until
\* its retries are used up.
Raises(k, p) ==
  /\ Decides(k, p) /\ ~Waits /\ child_tasks
  /\ \E S \in SUBSET ready_tasks, half \in SUBSET ready_tasks :
       /\ S \cap half = {} /\ Cardinality(half) <= 1
       /\ S \cup half # {} => MaySpawn(Started(p))
       /\ \A t \in S \cup half : Spawnable(t)
       /\ spawn_child(S, half)
  /\ IF p < MaxRetries THEN Goes(k, p, p + 1) /\ parent' = Started(p)
     ELSE Leaves(k, p) /\ parent' = Ended(Started(p), "error")

\* The parent has ended meanwhile: nothing is spawned, no status is accepted.
TooLate(k, p) ==
  /\ Here(k, p) /\ p # Busy /\ parent \in Terminal
  /\ Leaves(k, p)
  /\ SpawnsNothing
  /\ UNCHANGED <<child_tasks, parent, reporting, counted, paused, server>>

\* Another composition: the pipeline is in its LLM stage, which may call the
\* endpoints, and then ends.
Enters(k) ==
  /\ Here(k, Scheduled) /\ ~Multi /\ parent \notin Terminal
  /\ Goes(k, Scheduled, Busy)
  /\ parent' = Started(Scheduled)
  /\ SpawnsNothing
  /\ UNCHANGED <<child_tasks, reporting, counted, paused, server>>

Ends(k, s) ==
  /\ Here(k, Busy)
  /\ parent' = Ended(parent, s)
  /\ Leaves(k, Busy)
  /\ SpawnsNothing
  /\ UNCHANGED <<child_tasks, reporting, counted, paused, server>>

\* The worker's tick: a running parent it does not hold, with no heartbeat for
\* a minute, goes back to the queue.
Reclaim ==
  /\ up /\ parent = "running" /\ ~held
  /\ parent' = "pending"
  /\ SpawnsNothing
  /\ UNCHANGED <<child_tasks, memory, counted, paused, server>>

\* In the same tick or a later one, when a slot is free and the governor
\* admits it, the worker starts the pending parent.
Admit ==
  /\ up /\ parent = "pending" /\ ~held
  /\ held' = TRUE
  /\ pipes' = [pipes EXCEPT !["worker"][Scheduled] = @ + 1]
  /\ SpawnsNothing
  /\ UNCHANGED <<child_tasks, parent, reporting, counted, paused, server>>

(***************************************************************************)
(* Requests: spawn and pause (an agent orchestrating by hand), cancel.     *)
(***************************************************************************)
RequestSpawn ==
  /\ up /\ parent \in {"running", "awaiting_subagents"} /\ Spawnable(Direct)
  /\ \/ spawn_child({Direct}, {})
     \/ spawn_child({}, {Direct})
  /\ UNCHANGED <<child_tasks, parent, memory, counted, paused, server>>

pause_parent ==
  /\ up /\ awaiting_count > 0
  /\ "awaiting_subagents" \in VALID_TRANSITIONS(parent)
  /\ parent' = "awaiting_subagents" /\ paused' = TRUE
  /\ SpawnsNothing
  /\ UNCHANGED <<child_tasks, memory, counted, server>>

CancelParent ==
  /\ up /\ parent \notin Terminal /\ parent' = "cancelled"
  /\ SpawnsNothing
  /\ UNCHANGED <<child_tasks, memory, counted, paused, server>>

ChildMoves(c, from, s) ==
  /\ up /\ child[c] \in from
  /\ child' = [child EXCEPT ![c] = s]
  /\ UNCHANGED <<child_tasks, parent, child_run_ids, awaiting_count, pipes,
                 held, counted, torn, paused, server>>

\* Cancelling, or rejecting a parked child; approving one.
CancelChild(c) ==
  /\ ChildMoves(c, {"pending", "running", "HUMAN_APPROVAL_REQUIRED"},
                "cancelled")
  /\ UNCHANGED reporting

ApproveChild(c) ==
  ChildMoves(c, {"HUMAN_APPROVAL_REQUIRED"}, "pending") /\ UNCHANGED reporting

(***************************************************************************)
(* The worker executes the children.                                       *)
(***************************************************************************)
StartChild(c) == ChildMoves(c, {"pending"}, "running") /\ UNCHANGED reporting

ParkChild(c) ==
  /\ c[1] \in NeedsHuman
  /\ ChildMoves(c, {"running"}, "HUMAN_APPROVAL_REQUIRED")
  /\ UNCHANGED reporting

\* A child's outcome, and the finally clause's look at it: one that was
\* cancelled meanwhile is not reported.
FinishChild(c, s) ==
  /\ ChildMoves(c, {"running"}, s)
  /\ reporting' = reporting \cup {c}

\* Mutant: the parent is woken whatever remains.
report_wakes_always(c) ==
  /\ up /\ c \in reporting
  /\ reporting' = reporting \ {c} /\ counted' = counted \cup {c}
  /\ awaiting_count' = IF awaiting_count = 0 THEN 0 ELSE awaiting_count - 1
  /\ IF "running" \in VALID_TRANSITIONS(parent) \cup {parent}
       THEN /\ parent' = "running" /\ held' = TRUE
            /\ pipes' = [pipes EXCEPT !["worker"][Scheduled] = @ + 1]
       ELSE UNCHANGED <<parent, held, pipes>>
  /\ UNCHANGED <<child_tasks, child_run_ids, child, torn, paused, server>>

\* Mutant: the last completion does not wake the parent.
report_never_wakes(c) ==
  /\ up /\ c \in reporting
  /\ reporting' = reporting \ {c} /\ counted' = counted \cup {c}
  /\ awaiting_count' = IF awaiting_count = 0 THEN 0 ELSE awaiting_count - 1
  /\ UNCHANGED <<parent, held, pipes>>
  /\ UNCHANGED <<child_tasks, child_run_ids, child, torn, paused, server>>

\* Mutant: the count is read before the lock is taken; of two reports at the
\* same time one decrement is lost.
report_lost_update(c) ==
  /\ up /\ c \in reporting
  /\ reporting' = reporting \ {c} /\ counted' = counted \cup {c}
  /\ awaiting_count' = IF awaiting_count = 0 \/ reporting # {c}
                         THEN awaiting_count ELSE awaiting_count - 1
  /\ IF /\ awaiting_count <= 1
        /\ "running" \in VALID_TRANSITIONS(parent) \cup {parent}
       THEN /\ parent' = "running" /\ held' = TRUE
            /\ pipes' = [pipes EXCEPT !["worker"][Scheduled] = @ + 1]
       ELSE UNCHANGED <<parent, held, pipes>>
  /\ UNCHANGED <<child_tasks, child_run_ids, child, torn, paused, server>>

\* Mutant: the count is not kept from going below zero.
report_unclamped(c) ==
  /\ up /\ c \in reporting
  /\ reporting' = reporting \ {c} /\ counted' = counted \cup {c}
  /\ awaiting_count' = awaiting_count - 1
  /\ UNCHANGED <<parent, held, pipes>>
  /\ UNCHANGED <<child_tasks, child_run_ids, child, torn, paused, server>>

\* _handle_child_completion, after its first event has been published.  It
\* wakes the parent when the count is at zero; a parent that cannot run any
\* more makes update_run_status raise, and nothing is scheduled.
handle_child_completion(c) ==
  /\ up /\ c \in reporting
  /\ reporting' = reporting \ {c} /\ counted' = counted \cup {c}
  /\ awaiting_count' = IF awaiting_count = 0 THEN 0 ELSE awaiting_count - 1
  /\ IF /\ awaiting_count <= 1
        /\ "running" \in VALID_TRANSITIONS(parent) \cup {parent}
       THEN /\ parent' = "running" /\ held' = TRUE
            /\ pipes' = [pipes EXCEPT !["worker"][Scheduled] = @ + 1]
       ELSE UNCHANGED <<parent, held, pipes>>
  /\ UNCHANGED <<child_tasks, child_run_ids, child, torn, paused, server>>

(***************************************************************************)
(* The server goes down, at any file boundary, and comes back.             *)
(***************************************************************************)
GoDown ==
  /\ up /\ crashes < MaxCrashes
  /\ up' = FALSE /\ crashes' = crashes + 1
  /\ pipes' = NoPipes /\ held' = FALSE /\ reporting' = {}
  /\ UNCHANGED <<child_tasks, parent, child_run_ids, awaiting_count, child,
                 counted, torn, paused>>

\* The startup reconcile: what was being executed or waited for ends in
\* error, and so does a pending child whose parent had ended before.
ComeUp ==
  /\ ~up /\ up' = TRUE
  /\ parent' = IF parent \in {"running", "awaiting_subagents"} THEN "error"
               ELSE parent
  /\ child' = [c \in Children |->
                 IF child[c] = "running"
                    \/ (child[c] = "pending" /\ parent \in Terminal)
                   THEN "error" ELSE child[c]]
  /\ UNCHANGED <<child_tasks, child_run_ids, awaiting_count, pipes, held,
                 reporting, counted, torn, paused, crashes>>

ParentStep(k) ==
  \/ \E p \in Places :
       Continues(k, p) \/ Halts(k, p) \/ Raises(k, p) \/ TooLate(k, p)
  \/ Enters(k)
  \/ \E s \in {"done", "error"} : Ends(k, s)

ChildStep(c) ==
  \/ StartChild(c) \/ handle_child_completion(c)
  \/ \E s \in {"done", "error"} : FinishChild(c, s)

Next ==
  \/ \E k \in Kinds : ParentStep(k)
  \/ \E c \in Children :
       ChildStep(c) \/ ParkChild(c) \/ ApproveChild(c) \/ CancelChild(c)
  \/ Reclaim \/ Admit \/ RequestSpawn \/ pause_parent \/ CancelParent
  \/ GoDown \/ ComeUp

Spec == Init /\ [][Next]_vars

(***************************************************************************)
(* Fairness: the worker starts pending children, a started one ends (its   *)
(* stages return or are timed out) and is reported, unless the server goes *)
(* down.  Requests, failures and restarts owe nothing.                     *)
(***************************************************************************)
FairSpec == Spec /\ \A c \in Children : WF_vars(ChildStep(c))

-----------------------------------------------------------------------------
TypeOK ==
  /\ child_tasks \in BOOLEAN /\ parent \in ParentStates
  /\ child_run_ids \subseteq Children /\ awaiting_count \in Nat
  /\ child \in [Children -> ChildStates]
  /\ pipes \in [Kinds -> [Places -> Nat]] /\ held \in BOOLEAN
  /\ reporting \subseteq Children /\ counted \subseteq Children
  /\ torn \in BOOLEAN /\ paused \in BOOLEAN
  /\ up \in BOOLEAN /\ crashes \in 0..MaxCrashes

\* However spawns by the stage, spawns by requests, retries and completions
\* interleave, the parent's count is the number of its children whose end has
\* not been reported (the two locked read-modify-writes, in spawn_child and in
\* _handle_child_completion), unless a spawn was cut in two.
CountExact ==
  ~torn => awaiting_count = Cardinality(child_run_ids \ counted)

\* A child of a task exists only when every task it depends on has a child
\* that is done, also after retries of a wave that was cut (ready_tasks).
DependenciesFirst ==
  \A c \in Children :
    child[c] # "none" /\ c[1] \in Tasks =>
      \A t \in depends_on[c[1]] : \E d \in child_run_ids :
        d[1] = t /\ child[d] = "done"

\* The parent never knows two children of one task: neither a retry of the
\* stage, nor a second pipeline after a reclaim or a wake, spawns it again.
OneChildPerTask ==
  \A c, d \in child_run_ids : c[1] = d[1] /\ c[1] \in Tasks => c = d

\* A waiting parent is scheduled again only when each of its children has
\* ended (_handle_child_completion), unless a spawn was cut in two: the child
\* the parent does not know of is subtracted all the same.
WakesWhenAllEnded ==
  [][pipes'["worker"][Scheduled] > pipes["worker"][Scheduled]
       /\ parent = "awaiting_subagents" /\ ~torn
     => \A c \in child_run_ids : child[c] \in {"done", "error"}]_vars

\* A child that has ended and whose end nobody will report any more: it was
\* cancelled, which the finally clause of _execute_run does not report, or the
\* server went down before its report.
Unheard(c) == child[c] \in Terminal /\ c \notin counted \cup reporting

\* Nothing but an unheard child strands a waiting parent: when none of its
\* children is unheard, the parent waits for a child that has still to end or
\* whose report is on its way, however spawns, pauses, reports, reclaims and
\* restarts interleave and also when a spawn was cut in two (pause_parent,
\* _handle_child_completion).
WaitsForSomebody ==
  parent = "awaiting_subagents" /\ (\A c \in child_run_ids : ~Unheard(c)) =>
    \E c \in child_run_ids : c \in reporting \/ child[c] \notin Terminal

\* The stage itself never leaves its run waiting: who finds the parent in
\* awaiting_subagents finds one that a request paused (the halt of the stage
\* ends the run in execute_run).
WaitsByRequestOnly == parent = "awaiting_subagents" => paused

\* A paused parent does not wait for ever: it is woken or ended, the server
\* goes down, or it knows a child that is in front of a human or unheard.
PausedParentWakes ==
  []<>(\/ parent # "awaiting_subagents" \/ ~up
       \/ \E c \in child_run_ids :
            child[c] = "HUMAN_APPROVAL_REQUIRED" \/ Unheard(c))
=============================================================================
