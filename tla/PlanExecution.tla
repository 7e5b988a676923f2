--------------------------- MODULE PlanExecution ---------------------------
(***************************************************************************)
(* Execution of one custom plan (services/custom_plan_service.py): the     *)
(* plan's file, the lease that keeps two executions apart and its          *)
(* heartbeat, the layers of nodes, the integration of what they changed,   *)
(* and the endpoints that edit, delete and execute the plan.               *)
(*                                                                         *)
(* Every execution works on its own copy of the plan, read once when it    *)
(* begins, and each save writes the whole copy.                            *)
(***************************************************************************)
EXTENDS Naturals, FiniteSets

CONSTANTS
  Nodes,          \* the ids of the plan's nodes
  depends_on,     \* the nodes each node waits for: no cycles (_validate_plan)
  Executions,     \* bound: the executions ever asked for
  MaxConcurrent,  \* max_concurrent_runs
  MaxEdits,       \* bound: accepted updates
  MaxMishaps      \* bound: restarts, failing file operations, deletions

ASSUME PlanAssumption ==
  /\ depends_on \in [Nodes -> SUBSET Nodes]
  /\ \A S \in (SUBSET Nodes) \ {{}} : \E n \in S : depends_on[n] \cap S = {}
  /\ "nobody" \notin Executions
  /\ MaxConcurrent \in Nat \ {0} /\ MaxEdits \in Nat /\ MaxMishaps \in Nat

NodeStates == { "pending", "running", "done", "error", "skipped" }
PlanStates == { "draft", "running", "done", "error" }
Plans == [status : PlanStates, nodes : [Nodes -> NodeStates], edit : 0..MaxEdits]
NoFile == [status |-> "none"]

\* Where an execution is: not asked for, behind its lease, between two layers,
\* in a layer, in its finally clause, over.
Phases == { "new", "reserved", "between", "layer", "leaving", "ended" }

VARIABLES
  file,        \* the plan's file
  lease, working, overtaken,     \* the lease (see Lease)
  phase,       \* of each execution
  plan,        \* its copy of the plan
  past,        \* nodes of the layers it has begun
  queued,      \* nodes of its layer that wait for a place in the semaphore
  running,     \* nodes of its layer that have one
  committed,   \* executions that made a commit in the sandbox of some node
  stale,       \* history: executions that found skipped nodes in the file
  lapsed,      \* history: a lease was taken while its owner still worked
  mishaps      \* of these, so far

vars == <<file, lease, working, overtaken, phase, plan, past, queued, running,
          committed, stale, lapsed, mishaps>>

leases == <<lease, working, overtaken>>
layers == <<past, queued, running, committed>>
history == <<lapsed, mishaps>>

L == INSTANCE Lease WITH Workers <- Executions,
                         Name <- [e \in Executions |-> e]

AllPending == [n \in Nodes |-> "pending"]
None == [e \in Executions |-> {}]
Blank == [status |-> "draft", nodes |-> AllPending, edit |-> 0]

Init ==
  /\ file = Blank /\ L!LInit
  /\ phase = [e \in Executions |-> "new"]
  /\ plan = [e \in Executions |-> Blank]
  /\ past = None /\ queued = None /\ running = None /\ committed = {}
  /\ stale = {} /\ lapsed = FALSE /\ mishaps = 0

Goes(e, p) == phase' = [phase EXCEPT ![e] = p]

Mishap == mishaps < MaxMishaps /\ mishaps' = mishaps + 1

\* The copy becomes p and _save writes it whole, or the write fails.
Saved(e, p) ==
  plan' = [plan EXCEPT ![e] = p] /\ file' = p
Unsaved(e, p) ==
  Mishap /\ plan' = [plan EXCEPT ![e] = p] /\ UNCHANGED file

\* What an execution knows goes with it.
Forgets(E) ==
  /\ plan' = [e \in Executions |-> IF e \in E THEN Blank ELSE plan[e]]
  /\ past' = [e \in Executions |-> past[e] \ (IF e \in E THEN Nodes ELSE {})]
  /\ committed' = committed \ E
  /\ stale' = stale \ E

With(e, n, s) == [plan[e] EXCEPT !.nodes[n] = s]
Status(e, n) == plan[e].nodes[n]

(***************************************************************************)
(* The lease.                                                              *)
(***************************************************************************)
\* Mutant: a lease that has not expired is taken all the same.
execute_busy(e) ==
  /\ phase[e] = "new" /\ file # NoFile
  /\ lease' = L!Fresh(e) /\ overtaken' = working
  /\ working' = working \cup {e} /\ Goes(e, "reserved")
  /\ lapsed' = (lapsed \/ working # {})
  /\ UNCHANGED <<file, plan, layers, stale, mishaps>>

\* The execute endpoint and execute_plan: whatever the plan's status is.
Execute(e) ==
  /\ phase[e] = "new" /\ file # NoFile
  /\ L!LAcquire(e) /\ Goes(e, "reserved")
  /\ lapsed' = (lapsed \/ working # {})
  /\ UNCHANGED <<file, plan, layers, stale, mishaps>>

\* One beat of the heartbeat task.  A beat that raises ends the task, which
\* is a lease that gets no more beats: nobody tells the execution.
Beat(e) ==
  /\ L!LBeat(e)
  /\ UNCHANGED <<file, phase, plan, layers, stale, history>>

\* The TTL runs out: no beat has come in time.
Expire ==
  /\ L!LExpire
  /\ UNCHANGED <<file, phase, plan, layers, stale, history>>

\* Mutant: the lease is removed whoever holds it.
leave_unasked(e) ==
  /\ phase[e] = "leaving"
  /\ working' = working \ {e} /\ overtaken' = overtaken \ {e}
  /\ lease' = L!NoLease
  /\ Goes(e, "ended") /\ Forgets({e})
  /\ UNCHANGED <<file, queued, running, history>>

\* The finally clause: the heartbeat is stopped, an own lease removed.
Leave(e) ==
  /\ phase[e] = "leaving"
  /\ L!LRelease(e) /\ Goes(e, "ended") /\ Forgets({e})
  /\ UNCHANGED <<file, queued, running, history>>

(***************************************************************************)
(* _execute_plan_reserved.                                                 *)
(***************************************************************************)
Begin(e) ==
  /\ phase[e] = "reserved"
  /\ \/ /\ file = NoFile /\ Goes(e, "leaving")
        /\ UNCHANGED <<file, plan, stale>>
     \/ /\ file # NoFile /\ Goes(e, "between")
        /\ Saved(e, [file EXCEPT !.status = "running"])
        /\ stale' = IF \E n \in Nodes : file.nodes[n] = "skipped"
                      THEN stale \cup {e} ELSE stale
  /\ UNCHANGED <<leases, layers, history>>

\* The next topological layer.
Layer(e) == { n \in Nodes \ past[e] : depends_on[n] \subseteq past[e] }

\* Mutant: only skipped dependencies are looked for.
failed_only_skipped(e, n) == \E d \in depends_on[n] : Status(e, d) = "skipped"

has_failed_dependency(e, n) ==
  \E d \in depends_on[n] : Status(e, d) \in {"error", "skipped"}

\* The nodes of the layer with a failed dependency are skipped, whatever they
\* were, the others wait for their turn.
StartLayer(e) ==
  /\ phase[e] = "between" /\ past[e] # Nodes
  /\ LET skip == { n \in Layer(e) : has_failed_dependency(e, n) }
         now  == [plan[e] EXCEPT !.nodes =
                    [n \in Nodes |-> IF n \in skip THEN "skipped" ELSE @[n]]]
     IN /\ IF skip = {} THEN UNCHANGED <<plan, file>> ELSE Saved(e, now)
        /\ queued' = [queued EXCEPT ![e] = Layer(e) \ skip]
        /\ Goes(e, IF Layer(e) = skip THEN "between" ELSE "layer")
  /\ past' = [past EXCEPT ![e] = @ \cup Layer(e)]
  /\ UNCHANGED <<leases, running, committed, stale, history>>

\* _run_with_limit lets the node in (once the resource governor does), and
\* _execute_node starts it, unless it is done or skipped from the time
\* before.  A node whose first save fails raises, and becomes an error.
StartNode(e, n) ==
  /\ n \in queued[e] /\ Cardinality(running[e]) < MaxConcurrent
  /\ queued' = [queued EXCEPT ![e] = @ \ {n}]
  /\ \/ /\ Status(e, n) \in {"done", "skipped"}
        /\ UNCHANGED <<plan, file, running, mishaps>>
     \/ /\ Status(e, n) \notin {"done", "skipped"}
        /\ Saved(e, With(e, n, "running")) /\ UNCHANGED mishaps
        /\ running' = [running EXCEPT ![e] = @ \cup {n}]
     \/ /\ Status(e, n) \notin {"done", "skipped"}
        /\ Unsaved(e, With(e, n, "error")) /\ UNCHANGED running
  /\ UNCHANGED <<leases, phase, past, committed, stale, lapsed>>

\* The agentic loop returns, raises or times out after 300 s; changed files
\* are committed in the node's sandbox; the last save may fail.
FinishNode(e, n) ==
  /\ n \in running[e]
  /\ running' = [running EXCEPT ![e] = @ \ {n}]
  /\ \E s \in {"done", "error"}, changed \in BOOLEAN :
       /\ changed => s = "done"
       /\ \/ Saved(e, With(e, n, s)) /\ UNCHANGED mishaps
          \/ Unsaved(e, With(e, n, s))
       /\ committed' = IF changed THEN committed \cup {e} ELSE committed
  /\ UNCHANGED <<leases, phase, past, queued, stale, lapsed>>

\* Mutant: a layer is over when its nodes are done.
end_layer_if_done(e) ==
  /\ phase[e] = "layer" /\ queued[e] = {} /\ running[e] = {}
  /\ \A n \in past[e] : Status(e, n) = "done"
  /\ Saved(e, plan[e]) /\ Goes(e, "between")
  /\ UNCHANGED <<leases, layers, stale, history>>

EndLayer(e) ==
  /\ phase[e] = "layer" /\ queued[e] = {} /\ running[e] = {}
  /\ Saved(e, plan[e]) /\ Goes(e, "between")
  /\ UNCHANGED <<leases, layers, stale, history>>

\* The integration branch gets the nodes' branches and the target branch is
\* forwarded to it.  The node's sandbox is a clone, its branch exists only
\* there: the repository knows none of the branches it is asked to merge, so
\* one commit makes the integration fail.  Without any, a dirty repository, no
\* target branch or git itself may.
Integrates(e) == e \notin committed

\* Mutant: the nodes' errors are not looked at.
conclude_unasked(e) ==
  /\ phase[e] = "between" /\ past[e] = Nodes
  /\ \E s \in {"done", "error"} :
       /\ s = "done" => Integrates(e)
       /\ Saved(e, [plan[e] EXCEPT !.status = s])
  /\ Goes(e, "leaving")
  /\ UNCHANGED <<leases, layers, stale, history>>

\* Mutant: the plan gets the status that skills report.
conclude_completed(e) ==
  /\ phase[e] = "between" /\ past[e] = Nodes
  /\ Saved(e, [plan[e] EXCEPT !.status = "completed"])
  /\ Goes(e, "leaving")
  /\ UNCHANGED <<leases, layers, stale, history>>

\* Files changed by two nodes, or a node in error, or a failed integration
\* make the plan an error.
Conclude(e) ==
  /\ phase[e] = "between" /\ past[e] = Nodes
  /\ \E s \in {"done", "error"} :
       /\ s = "done" => Integrates(e) /\ \A n \in Nodes : Status(e, n) # "error"
       /\ Saved(e, [plan[e] EXCEPT !.status = s])
  /\ Goes(e, "leaving")
  /\ UNCHANGED <<leases, layers, stale, history>>

\* A file operation outside the nodes raises: the finally clause is next.
Abort(e) ==
  /\ phase[e] \in {"reserved", "between", "layer"}
  /\ queued[e] = {} /\ running[e] = {}
  /\ Mishap /\ Goes(e, "leaving")
  /\ UNCHANGED <<file, leases, plan, layers, stale, lapsed>>

(***************************************************************************)
(* The other endpoints, and the server's restart.                          *)
(***************************************************************************)
\* Mutant: a plan can be edited whatever its status is.
update_always ==
  /\ file # NoFile /\ file.edit < MaxEdits
  /\ \E s \in {file.nodes, AllPending} :
       file' = [file EXCEPT !.nodes = s, !.edit = @ + 1]
  /\ UNCHANGED <<leases, phase, plan, layers, stale, history>>

\* update_plan keeps the status; the request's nodes, if it has any, replace
\* the plan's.
update_plan ==
  /\ file # NoFile /\ file.edit < MaxEdits /\ file.status \in {"draft", "error"}
  /\ \E s \in {file.nodes, AllPending} :
       file' = [file EXCEPT !.nodes = s, !.edit = @ + 1]
  /\ UNCHANGED <<leases, phase, plan, layers, stale, history>>

\* delete_plan asks for nothing; an execution that saves brings the file back.
delete_plan ==
  /\ file # NoFile /\ file' = NoFile /\ Mishap
  /\ UNCHANGED <<leases, phase, plan, layers, stale, lapsed>>

\* The file and the lease stay; no reconcile looks at plans.
Restart ==
  /\ Mishap
  /\ L!LDie
  /\ phase' = [e \in Executions |->
                 IF phase[e] = "new" THEN "new" ELSE "ended"]
  /\ queued' = None /\ running' = None /\ Forgets(Executions)
  /\ UNCHANGED <<file, lapsed>>

Step(e) ==
  \/ Begin(e) \/ StartLayer(e) \/ EndLayer(e) \/ Conclude(e) \/ Leave(e)
  \/ \E n \in Nodes : StartNode(e, n) \/ FinishNode(e, n)

Next ==
  \/ \E e \in Executions : Execute(e) \/ Beat(e) \/ Step(e) \/ Abort(e)
  \/ Expire \/ update_plan \/ delete_plan \/ Restart

Spec == Init /\ [][Next]_vars

\* An execution goes on: each node is let in some time, and ends (300 s).
FairSpec == Spec /\ \A e \in Executions : WF_vars(Step(e))

-----------------------------------------------------------------------------
TypeOK ==
  /\ file \in Plans \cup {NoFile} /\ L!LTypeOK
  /\ phase \in [Executions -> Phases] /\ plan \in [Executions -> Plans]
  /\ \A f \in {past, queued, running} : f \in [Executions -> SUBSET Nodes]
  /\ committed \subseteq Executions
  /\ stale \subseteq Executions /\ lapsed \in BOOLEAN /\ mishaps \in 0..MaxMishaps

\* The executions follow the lease: none works without having taken it when
\* it was free or past its expiry, and none removes or extends another's
\* (reserve, heartbeat and release of a plan execution).
ImplementsLease == L!LSpec

\* Of two executions of the plan at one time, all but one had let their lease
\* expire and were overtaken: whatever dies, expires or is released late.
ExecutionAlone == L!HolderAlone

\* A node runs only when every node it depends on is done (layers, cascade of
\* skips), also when the plan is executed again after an error.
DependenciesDone ==
  \A e \in Executions : \A n \in running[e] : \A d \in depends_on[n] :
    Status(e, d) = "done"

\* A plan that ends done has no node in error, and of its nodes only those that
\* are skipped because an earlier execution had left skipped nodes in the file
\* are not done.  That the commits of its nodes have landed it does not say:
\* an execution that skips the nodes done before it integrates nothing of
\* theirs (_execute_node, _integrate_completed_nodes).
DoneLeavesNoError ==
  \A e \in Executions :
    phase[e] = "leaving" /\ plan[e].status = "done" =>
      \A n \in Nodes :
        \/ Status(e, n) = "done"
        \/ /\ Status(e, n) = "skipped"
           /\ e \in stale

\* An accepted edit is lost only after an execution's lease was taken over
\* while it worked: nobody edits what an execution is going to save (update_plan's
\* status test, the executions' whole-file saves).
EditKept ==
  [][file # NoFile /\ file' # NoFile /\ file'.edit < file.edit
     => lapsed]_vars

\* Every execution ends, or dies with the server: no node of a layer waits
\* for ever for its place.
PlanEnds ==
  \A e \in Executions : []<>(phase[e] \in {"new", "ended"})
=============================================================================
