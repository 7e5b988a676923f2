----------------------------- MODULE Workflow ------------------------------
(***************************************************************************)
(* One workflow in the graph engine (services/graph): the loop of execute, *)
(* retries and timeouts of nodes, review nodes, tool calls behind ToolGate, *)
(* checkpoints, and the execute and resume endpoints.                      *)
(*                                                                         *)
(* The endpoints share one engine per workflow: each resume starts another *)
(* loop over the same state.  Of the state's data the model keeps the      *)
(* review timer; the budget is whether it stops the loop, a condition on   *)
(* an edge whether the edge is taken.  What the response reports (paused,  *)
(* aborted_reason) decides nothing here and is left out.                   *)
(*                                                                         *)
(* Executing a workflow's id a second time makes a second engine, with its *)
(* own state; here there is one.                                           *)
(***************************************************************************)
EXTENDS ToolGate

CONSTANTS
  Nodes, first_node,
  Reviews,          \* human_review nodes
  Tools,            \* calls of critical tools by nodes whose policy asks for
                    \* confirmation: nothing else is put in front of a human,
                    \* nor is a critical tool of a node without a policy
  edge_if,          \* of each node, the targets of its edges with a condition
  edge_else,        \* and of its first edge without one, or End
  review_timeout,   \* of each review: its default_action, or none
  retries,          \* of each node
  max_iterations,
  Loops,            \* bound: executions at one time
  MaxResumes,       \* bound: requests to resume
  MaxMishaps,       \* bound: restarts and checkpoints not stored
  persist_checkpoints

End == "end"

ASSUME WorkflowAssumption ==
  /\ first_node \in Nodes /\ End \notin Nodes /\ "none" \notin Nodes
  /\ Reviews \subseteq Nodes /\ Tools \subseteq Nodes \ Reviews
  /\ edge_if \in [Nodes -> SUBSET Nodes]
  /\ edge_else \in [Nodes -> Nodes \cup {End}]
  /\ review_timeout \in [Reviews -> {"none", "approve", "block"}]
  /\ retries \in [Nodes -> Nat] /\ max_iterations \in Nat
  /\ MaxResumes \in Nat /\ MaxMishaps \in Nat
  /\ persist_checkpoints \in BOOLEAN

VARIABLES
  at,           \* of each loop: idle, at its head, in a node, waiting for the
                \* branches of a fork, behind the gate or in the tool itself
  node,         \* its current_node_id
  iterations, attempts,
  call,         \* the draft of its last tool call
  checkpoints,  \* the engine's, each with the state it was taken in
  pending,      \* whose review the timer in the engine's data runs for
  human_reviews,   \* the decisions in initial_state: nothing adds to them
  completed,    \* history: nodes with a completed checkpoint
  waited,       \* history: reviews for which an execution has paused
  ran,          \* history: how often the tool of each draft was called
  resumes, mishaps, up

wvars == <<at, node, iterations, attempts, call, checkpoints, pending,
           human_reviews, completed, waited, ran, resumes, mishaps, up>>
vars == <<gvars, wvars>>

place == <<node, iterations, attempts>>
engine == <<checkpoints, pending, completed, waited>>
world == <<human_reviews, resumes, up>>

NoDraft == "no draft"

\* approve stands for edit and takeover as well, which go on as it does.
Decisions == {"none", "approve", "fork", "reject"}

\* The execution of the first request; the id of the next draft.
poster == CHOOSE l \in Loops : TRUE
unused == CHOOSE d \in Drafts : record[d] = "none"

Init ==
  /\ GInit
  /\ at = [l \in Loops |-> IF l = poster THEN "head" ELSE "idle"]
  /\ node = [l \in Loops |-> first_node]
  /\ iterations = [l \in Loops |-> 0] /\ attempts = [l \in Loops |-> 0]
  /\ call = [l \in Loops |-> NoDraft]
  /\ checkpoints = {} /\ pending = "none"
  /\ human_reviews \in [Reviews -> Decisions]
  /\ completed = {} /\ waited = {} /\ ran = [d \in Drafts |-> 0]
  /\ resumes = 0 /\ mishaps = 0 /\ up = TRUE

Goes(l, p) == at' = [at EXCEPT ![l] = p]

\* execute returns: its locals go.
Returns(l) ==
  /\ Goes(l, "idle") /\ node' = [node EXCEPT ![l] = first_node]
  /\ iterations' = [iterations EXCEPT ![l] = 0]
  /\ attempts' = [attempts EXCEPT ![l] = 0]
Mishap == mishaps < MaxMishaps /\ mishaps' = mishaps + 1

\* Mutant: a condition is evaluated although there is no output.
next_without_output(n, ok) == edge_if[n] \cup {edge_else[n]}

\* _get_next_node: no condition holds of a failed node, which has no output.
get_next_node(n, ok) ==
  (IF ok THEN edge_if[n] ELSE {}) \cup {edge_else[n]}

\* A checkpoint in the engine and, unless that fails, in the storage.
Checkpoint(l, ok, next, p) ==
  /\ \E kept \in BOOLEAN :
       /\ kept => persist_checkpoints
       /\ IF persist_checkpoints /\ ~kept THEN Mishap ELSE UNCHANGED mishaps
       /\ checkpoints' = checkpoints \cup
            { [node |-> node[l], ok |-> ok, next |-> next, pending |-> p,
               kept |-> kept] }
  /\ pending' = p

\* The node has an output: on to the next, or the budget is used up.
Completes(l, p) ==
  /\ \E next \in get_next_node(node[l], TRUE) :
       /\ Checkpoint(l, TRUE, next, p)
       /\ \/ /\ node' = [node EXCEPT ![l] = next] /\ Goes(l, "head")
             /\ UNCHANGED <<iterations, attempts>>
          \/ Returns(l)
  /\ completed' = completed \cup {node[l]}
  /\ UNCHANGED waited

\* Mutant: the attempts of a node are not counted.
raises_uncounted(l) ==
  /\ Goes(l, "node")
  /\ UNCHANGED <<place, engine, mishaps>>

\* The node raises: once more, or a failed checkpoint ends the loop.
Raises(l) ==
  \/ /\ attempts[l] < retries[node[l]]
     /\ attempts' = [attempts EXCEPT ![l] = @ + 1] /\ Goes(l, "node")
     /\ UNCHANGED <<node, iterations, engine, mishaps>>
  \/ /\ attempts[l] = retries[node[l]]
     /\ Checkpoint(l, FALSE, edge_else[node[l]], pending)
     /\ Returns(l)
     /\ UNCHANGED <<completed, waited>>

(***************************************************************************)
(* The head of the loop.                                                   *)
(***************************************************************************)
\* Mutant: one node too many.
exhausted_late(l) == iterations[l] > max_iterations

exhausted(l) == iterations[l] >= max_iterations

\* No node is left, none may be begun, or the workflow's timeout or the
\* budget stops the loop.
Stops(l) ==
  /\ at[l] = "head" /\ Returns(l)
  /\ UNCHANGED <<gvars, call, engine, ran, mishaps, world>>

Begins(l) ==
  /\ at[l] = "head" /\ node[l] # End /\ ~exhausted(l) /\ Goes(l, "node")
  /\ iterations' = [iterations EXCEPT ![l] = @ + 1]
  /\ attempts' = [attempts EXCEPT ![l] = 0]
  /\ UNCHANGED <<gvars, node, call, engine, ran, mishaps, world>>

(***************************************************************************)
(* Nodes that ask nobody: model calls, agents, contract checks, transforms.*)
(***************************************************************************)
Works(l) ==
  /\ at[l] = "node" /\ node[l] \notin Reviews \cup Tools
  /\ (Completes(l, pending) \/ Raises(l))
  /\ UNCHANGED <<gvars, call, ran, world>>

(***************************************************************************)
(* _run_human_review.                                                      *)
(***************************************************************************)
\* Mutant: a timer that was never started has run out.
elapsed_unstarted(n) == review_timeout[n] # "none"

elapsed(n) == review_timeout[n] # "none" /\ pending = n

\* A decision given beforehand: a rejection raises (so does each retry).
Decided(l) ==
  LET n == node[l]
  IN /\ human_reviews[n] \in {"approve", "reject"}
     /\ IF human_reviews[n] = "approve" THEN Completes(l, "none")
        ELSE /\ Checkpoint(l, FALSE, edge_else[n], "none") /\ Returns(l)
             /\ UNCHANGED <<completed, waited>>

\* A fork, whose branches are awaited.
Forks(l) ==
  /\ at[l] = "node" /\ node[l] \in Reviews /\ human_reviews[node[l]] = "fork"
  /\ pending' = "none" /\ Goes(l, "forking")
  /\ UNCHANGED <<gvars, place, call, checkpoints, completed, waited, ran,
                 mishaps, world>>

\* The timer the data carries has run out.
Overdue(l) ==
  /\ human_reviews[node[l]] = "none" /\ elapsed(node[l])
  /\ IF review_timeout[node[l]] = "approve" THEN Completes(l, "none")
     ELSE Raises(l)

\* The loop ends and the timer is in the data; no checkpoint is taken.
Pauses(l) ==
  /\ human_reviews[node[l]] = "none"
  /\ pending' = node[l] /\ waited' = waited \cup {node[l]}
  /\ Returns(l)
  /\ UNCHANGED <<checkpoints, completed, mishaps>>

\* The selected branch's state is taken over, or there is no such branch.
Joins(l) == Completes(l, pending) \/ Raises(l)

Review(l) ==
  /\ node[l] \in Reviews
  /\ \/ at[l] = "node" /\ (Decided(l) \/ Overdue(l) \/ Pauses(l))
     \/ at[l] = "forking" /\ Joins(l)
  /\ UNCHANGED <<gvars, call, ran, world>>

(***************************************************************************)
(* _execute_tool_call.                                                     *)
(***************************************************************************)
Forgets(l) == [call EXCEPT ![l] = NoDraft]

AsksGate(l) ==
  /\ at[l] = "node" /\ node[l] \in Tools /\ Goes(l, "asked")
  /\ (\E d \in Drafts : record[d] = "none") /\ Ask(unused)
  /\ call' = [call EXCEPT ![l] = unused]
  /\ UNCHANGED <<place, engine, ran, mishaps, world>>

\* The policy denies the tool, or the draft cannot be written.
GateBreaks(l) ==
  /\ at[l] = "node" /\ node[l] \in Tools /\ Raises(l)
  /\ UNCHANGED <<gvars, call, ran, world>>

Answered(l) ==
  /\ at[l] = "asked" /\ (Collect(call[l]) \/ TimesOut(call[l]))
  /\ UNCHANGED wvars

\* Mutant: whatever is not a rejection lets the tool run.
calls_unless_rejected(l) ==
  /\ at[l] = "asked" /\ answer[call[l]] # "reject" /\ Goes(l, "acting")
  /\ ran' = [ran EXCEPT ![call[l]] = @ + 1]
  /\ UNCHANGED <<gvars, place, call, engine, mishaps, world>>

CallsTool(l) ==
  /\ at[l] = "asked" /\ answer[call[l]] = "allow" /\ Goes(l, "acting")
  /\ ran' = [ran EXCEPT ![call[l]] = @ + 1]
  /\ UNCHANGED <<gvars, place, call, engine, mishaps, world>>

Denied(l) ==
  /\ at[l] = "asked" /\ answer[call[l]] = "reject" /\ Raises(l)
  /\ call' = Forgets(l) /\ UNCHANGED <<gvars, ran, world>>

\* The tool returns, fails, or the node's timeout cancels it.
ToolEnds(l) ==
  /\ at[l] = "acting" /\ (Completes(l, pending) \/ Raises(l))
  /\ call' = Forgets(l) /\ UNCHANGED <<gvars, ran, world>>

\* The node's timeout cancels the call that waits for a human.
GivesUp(l) ==
  /\ at[l] = "asked" /\ Drops({call[l]}) /\ Raises(l)
  /\ call' = Forgets(l) /\ UNCHANGED <<ran, world>>

(***************************************************************************)
(* Requests, and restarts.                                                 *)
(***************************************************************************)
\* resume_from_checkpoint and execute: the state becomes the checkpoint's, for
\* every loop; with no next node the graph begins anew.
Resume(l) ==
  /\ up /\ at[l] = "idle" /\ resumes < MaxResumes /\ resumes' = resumes + 1
  /\ \E c \in checkpoints :
       /\ pending' = c.pending
       /\ \E next \in IF c.ok THEN {c.next} ELSE get_next_node(c.node, FALSE) :
            node' = [node EXCEPT ![l] = IF next = End THEN first_node ELSE next]
  /\ iterations' = [iterations EXCEPT ![l] = 0] /\ Goes(l, "head")
  /\ UNCHANGED <<gvars, attempts, call, checkpoints, completed, waited, ran,
                 human_reviews, mishaps, up>>

Decision(d) ==
  /\ up /\ \E s \in {"approved", "rejected"} : Decide(d, s)
  /\ UNCHANGED wvars

\* The engine goes with the process; stored checkpoints do not.
GoDown ==
  /\ up /\ up' = FALSE /\ Mishap /\ Lost
  /\ at' = [l \in Loops |-> "idle"] /\ pending' = "none"
  /\ node' = [l \in Loops |-> first_node] /\ call' = [l \in Loops |-> NoDraft]
  /\ iterations' = [l \in Loops |-> 0] /\ attempts' = [l \in Loops |-> 0]
  /\ checkpoints' = { c \in checkpoints : c.kept }
  /\ UNCHANGED <<human_reviews, completed, waited, ran, resumes>>

ComeUp ==
  /\ ~up /\ up' = TRUE
  /\ UNCHANGED <<gvars, at, place, call, engine, human_reviews, ran, resumes,
                 mishaps>>

LoopStep(l) ==
  \/ Stops(l) \/ Begins(l) \/ Works(l) \/ Review(l) \/ Forks(l)
  \/ AsksGate(l) \/ GateBreaks(l) \/ Answered(l) \/ CallsTool(l) \/ Denied(l)
  \/ ToolEnds(l)

Next ==
  \/ \E l \in Loops : LoopStep(l) \/ GivesUp(l) \/ Resume(l)
  \/ \E d \in Drafts : Decision(d)
  \/ GoDown \/ ComeUp

Spec == Init /\ [][Next]_vars

(***************************************************************************)
(* Fairness: a loop that can go on does (model calls and tools return, the *)
(* gate times out).  Nodes need not have a timeout of their own; humans,   *)
(* requests and restarts owe nothing.                                      *)
(***************************************************************************)
FairSpec == Spec /\ \A l \in Loops : WF_vars(LoopStep(l))

-----------------------------------------------------------------------------
InNode == { "node", "forking", "asked", "acting" }
Ats == { "idle", "head" } \cup InNode
Snapshots == [node : Nodes, ok : BOOLEAN, next : Nodes \cup {End},
              pending : Reviews \cup {"none"}, kept : BOOLEAN]

\* Type correctness; a loop that is in a node has a node, and not more of them
\* than max_iterations; who is out at the gate has a draft.
TypeOK ==
  /\ GTypeOK
  /\ at \in [Loops -> Ats] /\ node \in [Loops -> Nodes \cup {End}]
  /\ iterations \in [Loops -> 0..max_iterations]
  /\ attempts \in [Loops -> Nat]
  /\ call \in [Loops -> Drafts \cup {NoDraft}]
  /\ checkpoints \subseteq Snapshots /\ pending \in Reviews \cup {"none"}
  /\ human_reviews \in [Reviews -> Decisions]
  /\ completed \subseteq Nodes /\ waited \subseteq Reviews
  /\ ran \in [Drafts -> Nat]
  /\ resumes \in 0..MaxResumes /\ mishaps \in 0..MaxMishaps /\ up \in BOOLEAN
  /\ \A l \in Loops : at[l] \in InNode => node[l] \in Nodes
  /\ \A l \in Loops : at[l] \in {"asked", "acting"} => call[l] \in Drafts

\* A tool that is put in front of a human (Tools) runs at most once on the
\* strength of one draft, and only of one whose first decision was an approval,
\* however calls time out, are retried, resumed by a second loop, or decided on
\* late (_enforce_tool_governance, gate_tool_call).
ToolNeedsApproval ==
  \A d \in Drafts : ran[d] <= 1 /\ (ran[d] = 1 => first[d] = "approved")

\* A node that only conditions lead to runs only after a node with such an
\* edge to it has completed: resuming after a denied tool call or a rejected
\* review does not get past the condition (_get_next_node,
\* resume_from_checkpoint).
ConditionsHold ==
  \A l \in Loops :
    \/ at[l] \notin InNode \/ node[l] = first_node
    \/ \E m \in Nodes : edge_else[m] = node[l]
    \/ \E m \in completed : node[l] \in edge_if[m]

\* A review completes only with a decision to go on that was given beforehand,
\* or by its default when an execution has paused for it and its time was up
\* (_run_human_review, with two loops and resumed timers; a review that was
\* rejected does not complete, but an edge without a condition leads past it).
ReviewNeedsDecision ==
  \A n \in completed \cap Reviews :
    \/ human_reviews[n] \in {"approve", "fork"}
    \/ human_reviews[n] = "none" /\ review_timeout[n] = "approve" /\ n \in waited

\* No execution goes on for ever: each ends, round a cycle of the graph as well
\* (max_iterations, retries, the timeout of the gate).
ExecutionEnds == \A l \in Loops : []<>(at[l] = "idle")
=============================================================================
