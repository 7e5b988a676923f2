--------------------------- MODULE WorkflowProofs ---------------------------
(***************************************************************************)
(* Workflow and the human gate it calls, for any graph, any number of      *)
(* loops, drafts, decisions, resumes and restarts: no critical tool runs   *)
(* without its approval, no review and no condition is passed by.          *)
(***************************************************************************)
EXTENDS Workflow, TLAPS

(***************************************************************************)
(* The gate.                                                               *)
(***************************************************************************)
\* A decision can only find the future of a draft nobody has decided on; what
\* it sets, and the call then collects, is what the record says.
GateInv(d) ==
  /\ record[d] = "none" =>
       first[d] = "none" /\ future[d] = "none" /\ answer[d] = "none"
  /\ d \in waiters => first[d] = "none"
  /\ future[d] = "allow" => first[d] = "approved"
  /\ answer[d] = "allow" => first[d] = "approved"
  /\ d \notin redecided =>
       \/ record[d] = "approved"
       \/ answer[d] # "allow" /\ ~(answer[d] = "asked" /\ future[d] = "allow")

GInv == GTypeOK /\ \A d \in Drafts : GateInv(d)

\* What a draft was first decided to stays, and a draft that exists stays.
Kept ==
  \A d \in Drafts :
    /\ first[d] = "approved" => first'[d] = "approved"
    /\ record'[d] = "none" => record[d] = "none"

(***************************************************************************)
(* The loops.                                                              *)
(***************************************************************************)
\* TypeOK of the module's own variables.
Rest ==
  /\ at \in [Loops -> Ats] /\ node \in [Loops -> Nodes \cup {End}]
  /\ iterations \in [Loops -> 0..max_iterations]
  /\ attempts \in [Loops -> Nat]
  /\ call \in [Loops -> Drafts \cup {NoDraft}]
  /\ checkpoints \subseteq Snapshots /\ pending \in Reviews \cup {"none"}
  /\ human_reviews \in [Reviews -> Decisions]
  /\ completed \subseteq Nodes /\ waited \subseteq Reviews
  /\ ran \in [Drafts -> Nat]
  /\ resumes \in 0..MaxResumes /\ mishaps \in 0..MaxMishaps /\ up \in BOOLEAN

\* A node a loop may come to.
Reached(n) ==
  \/ n \in {first_node, End}
  \/ \E m \in Nodes : edge_else[m] = n
  \/ \E m \in completed : n \in edge_if[m]

LoopInv(l) ==
  /\ at[l] \in InNode => node[l] \in Nodes
  /\ at[l] = "forking" => node[l] \in Reviews /\ human_reviews[node[l]] = "fork"
  /\ at[l] \in {"asked", "acting"} => node[l] \in Tools /\ call[l] \in Drafts
  /\ at[l] = "asked" => record[call[l]] # "none" /\ ran[call[l]] = 0
  /\ Reached(node[l])

\* No two calls wait on one draft, and none runs twice on it.
CallInv ==
  /\ \A l, m \in Loops :
       at[l] = "asked" /\ at[m] = "asked" /\ call[l] = call[m] => l = m
  /\ \A d \in Drafts : record[d] = "none" => ran[d] = 0
  /\ ToolNeedsApproval

\* A review passes by its decision or, after a pause, by its default.
Passable(n) ==
  \/ human_reviews[n] \in {"approve", "fork"}
  \/ human_reviews[n] = "none" /\ review_timeout[n] = "approve" /\ n \in waited

\* The engine's data: checkpoints lead to where a loop may come, and timers run
\* only for reviews an execution has paused for.
EngineInv ==
  /\ \A c \in checkpoints :
       (c.ok => Reached(c.next)) /\ (c.pending # "none" => c.pending \in waited)
  /\ pending # "none" => pending \in waited
  /\ \A n \in completed \cap Reviews : Passable(n)

IInv ==
  GInv /\ Rest /\ (\A l \in Loops : LoopInv(l)) /\ CallInv /\ EngineInv

-----------------------------------------------------------------------------
(***************************************************************************)
(* The gate, one operation after the other.                                *)
(***************************************************************************)
\* A new call keeps the invariant of the gate.
LEMMA AskKeeps ==
  ASSUME GInv, NEW d \in Drafts, Ask(d)
  PROVE  GInv' /\ Kept /\ record'[d] = "pending"
<1>1. GTypeOK' /\ record'[d] = "pending"
  BY DEF GInv, GTypeOK, Ask
<1>2. ASSUME NEW c \in Drafts
      PROVE  GateInv(c)'
  BY DEF GInv, GTypeOK, GateInv, Ask
<1>3. Kept
  BY DEF GInv, GTypeOK, Ask, Kept
<1>4. QED
  BY <1>1, <1>2, <1>3 DEF GInv

\* A human's decision, the first one or a later one, keeps the gate's invariant.
LEMMA DecideKeeps ==
  ASSUME GInv, NEW d \in Drafts, NEW s \in {"approved", "rejected"}, Decide(d, s)
  PROVE  GInv' /\ Kept
<1>1. GTypeOK'
  BY GateAssumption DEF GInv, GTypeOK, Decide, Sets, Verdict
<1>2. ASSUME NEW c \in Drafts
      PROVE  GateInv(c)'
  <2>1. CASE c = d
    <3>1. CASE first[d] = "none" /\ answer[d] = "asked"
      BY <2>1, <3>1 DEF GInv, GTypeOK, GateInv, Decide, Sets, Verdict
    <3>2. CASE ~(first[d] = "none" /\ answer[d] = "asked")
      BY <2>1, <3>2 DEF GInv, GTypeOK, GateInv, Decide, Sets, Verdict
    <3>3. QED
      BY <3>1, <3>2
  <2>2. CASE c # d
    BY <2>2 DEF GInv, GTypeOK, GateInv, Decide, Sets
  <2>3. QED
    BY <2>1, <2>2
<1>3. Kept
  BY DEF GInv, GTypeOK, Decide, Kept
<1>4. QED
  BY <1>1, <1>2, <1>3 DEF GInv

\* So does the answer of a call, by its decision or by its timeout.
LEMMA AnswerKeeps ==
  ASSUME GInv, NEW d \in Drafts, Collect(d) \/ TimesOut(d)
  PROVE  GInv' /\ Kept
<1>1. CASE Collect(d)
  <2>1. GTypeOK'
    BY <1>1 DEF GInv, GTypeOK, Collect
  <2>2. \A c \in Drafts : GateInv(c)'
    BY <1>1 DEF GInv, GTypeOK, GateInv, Collect
  <2>3. Kept
    BY <1>1 DEF Collect, Kept
  <2>4. QED
    BY <2>1, <2>2, <2>3 DEF GInv
<1>2. CASE TimesOut(d)
  <2>1. GTypeOK'
    BY <1>2 DEF GInv, GTypeOK, TimesOut
  <2>2. ASSUME NEW c \in Drafts
        PROVE  GateInv(c)'
    <3>1. CASE c = d
      BY <1>2, <3>1 DEF GInv, GTypeOK, GateInv, TimesOut
    <3>2. CASE c # d
      BY <1>2, <3>2 DEF GInv, GTypeOK, GateInv, TimesOut
    <3>3. QED
      BY <3>1, <3>2
  <2>3. Kept
    BY <1>2 DEF GInv, GTypeOK, TimesOut, Kept
  <2>4. QED
    BY <2>1, <2>2, <2>3 DEF GInv
<1>3. QED
  BY <1>1, <1>2

\* What a cancelled call or a lost process leaves behind.
Dropped ==
  /\ UNCHANGED <<record, first, redecided, decisions>> /\ waiters' \subseteq waiters
  /\ answer' \in [Drafts -> {"none", "asked", "allow", "reject", "dropped"}]
  /\ future' \in [Drafts -> {"none", "open", "allow", "reject", "cancelled"}]
  /\ \A d \in Drafts :
       /\ answer'[d] \in {answer[d], "dropped"}
       /\ future'[d] \in {future[d], "cancelled"}
       /\ answer[d] = "none" => answer'[d] = "none"
       /\ future[d] = "none" => future'[d] = "none"

\* So does what becomes of the calls of a process or node that is gone.
LEMMA DropKeeps ==
  ASSUME GInv, Lost \/ \E S \in SUBSET Drafts : Drops(S)
  PROVE  GInv' /\ Kept
<1>1. Dropped
  <2>1. CASE Lost
    BY <2>1 DEF Lost, GInv, GTypeOK, Dropped
  <2>2. ASSUME NEW S \in SUBSET Drafts, Drops(S)
        PROVE  Dropped
    BY <2>2 DEF Drops, GInv, GTypeOK, Dropped
  <2>3. QED
    BY <2>1, <2>2
<1>2. GTypeOK'
  BY <1>1 DEF GInv, GTypeOK, Dropped
<1>3. \A d \in Drafts : GateInv(d)'
  BY <1>1 DEF GInv, GTypeOK, GateInv, Dropped
<1>4. QED
  BY <1>1, <1>2, <1>3 DEF GInv, Kept, Dropped

\* And so does any step that leaves the gate alone.
LEMMA GateAlone ==
  ASSUME GInv, UNCHANGED gvars
  PROVE  GInv' /\ Kept
BY DEF gvars, GInv, GTypeOK, GateInv, Kept

-----------------------------------------------------------------------------
(***************************************************************************)
(* Moves of one loop that keep it out of the gate.                         *)
(***************************************************************************)
\* Loop l goes on, or returns, and may take a checkpoint.
Moves(l) ==
  /\ at' \in [Loops -> Ats] /\ node' \in [Loops -> Nodes \cup {End}]
  /\ iterations' \in [Loops -> 0..max_iterations] /\ attempts' \in [Loops -> Nat]
  /\ checkpoints' \subseteq Snapshots /\ pending' \in Reviews \cup {"none"}
  /\ completed' \subseteq Nodes /\ waited' \subseteq Reviews
  /\ mishaps' \in 0..MaxMishaps
  /\ \A m \in Loops \ {l} : at'[m] = at[m] /\ node'[m] = node[m]
  /\ at'[l] \in {"idle", "head", "node"}
  /\ at'[l] = "node" => node'[l] \in Nodes
  /\ Reached(node[l])'
  /\ completed \subseteq completed' /\ waited \subseteq waited'
  /\ EngineInv'

\* A loop comes to where the invariant says it may.
LEMMA MovesKeep ==
  ASSUME IInv, NEW l \in Loops, Moves(l), GInv', Kept, ran' = ran,
         call' = call \/ call' = Forgets(l),
         human_reviews' = human_reviews, up' = up,
         resumes' \in 0..MaxResumes
  PROVE  IInv'
<1>1. Rest'
  BY DEF IInv, Rest, Moves, Forgets
<1>2. /\ \A m \in Loops \ {l} : call'[m] = call[m] /\ at'[m] = at[m] /\ node'[m] = node[m]
      /\ at'[l] \in {"idle", "head", "node"} /\ completed \subseteq completed'
  BY DEF Moves, Forgets, IInv, Rest
<1>3. LoopInv(l)'
  BY <1>2 DEF Moves, LoopInv, InNode
<1>4. ASSUME NEW m \in Loops, m # l
      PROVE  LoopInv(m)'
  <2>1. LoopInv(m) /\ at'[m] = at[m] /\ node'[m] = node[m] /\ call'[m] = call[m]
    BY <1>2, <1>4 DEF IInv
  <2>2. Reached(node[m])'
    BY <1>2, <2>1 DEF LoopInv, InNode, Reached
  <2>3. QED
    BY <2>1, <2>2 DEF LoopInv, InNode, Kept
<1>5. CallInv'
  <2>1. ASSUME NEW m \in Loops, NEW k \in Loops, at'[m] = "asked", at'[k] = "asked",
               call'[m] = call'[k]
        PROVE  m = k
    BY <1>2, <2>1 DEF IInv, CallInv
  <2>2. \A d \in Drafts : record'[d] = "none" => ran'[d] = 0
    BY DEF IInv, CallInv, Kept
  <2>3. ToolNeedsApproval'
    BY DEF IInv, CallInv, Kept, ToolNeedsApproval
  <2>4. QED
    BY <2>1, <2>2, <2>3 DEF CallInv
<1>6. QED
  BY <1>1, <1>3, <1>4, <1>5 DEF IInv, Moves

-----------------------------------------------------------------------------
(***************************************************************************)
(* The pieces the nodes' steps are made of.                                *)
(***************************************************************************)
LEMMA EdgeTypes ==
  ASSUME NEW n \in Nodes, NEW ok \in BOOLEAN
  PROVE  /\ get_next_node(n, ok) \subseteq Nodes \cup {End}
         /\ \A next \in get_next_node(n, ok) :
              edge_else[n] = next \/ (ok /\ next \in edge_if[n])
BY WorkflowAssumption DEF get_next_node

\* Mishaps are counted.
LEMMA MishapCounts ==
  ASSUME Rest, Mishap \/ UNCHANGED mishaps
  PROVE  mishaps' \in 0..MaxMishaps
BY WorkflowAssumption DEF Rest, Mishap

\* Loop l returns, or goes to w.
LEMMA ReturnsTypes ==
  ASSUME Rest, NEW l \in Loops, Returns(l)
  PROVE  /\ at' \in [Loops -> Ats] /\ node' \in [Loops -> Nodes \cup {End}]
         /\ iterations' \in [Loops -> 0..max_iterations] /\ attempts' \in [Loops -> Nat]
         /\ \A m \in Loops \ {l} : at'[m] = at[m] /\ node'[m] = node[m]
         /\ at'[l] = "idle" /\ node'[l] = first_node
BY WorkflowAssumption DEF Rest, Returns, Goes, Ats, InNode

\* A loop that goes somewhere moves alone.
LEMMA GoesTypes ==
  ASSUME Rest, NEW l \in Loops, NEW w \in Ats, Goes(l, w)
  PROVE  /\ at' \in [Loops -> Ats] /\ at'[l] = w
         /\ \A m \in Loops \ {l} : at'[m] = at[m]
BY DEF Rest, Goes

\* What a new checkpoint adds to those that can be resumed from.
LEMMA CheckpointFacts ==
  ASSUME Rest, NEW l \in Loops, node[l] \in Nodes, NEW ok \in BOOLEAN,
         NEW next \in Nodes \cup {End}, NEW p \in Reviews \cup {"none"},
         Checkpoint(l, ok, next, p)
  PROVE  /\ checkpoints' \subseteq Snapshots /\ pending' = p
         /\ mishaps' \in 0..MaxMishaps
         /\ \A c \in checkpoints' :
              c \in checkpoints \/ (c.ok = ok /\ c.next = next /\ c.pending = p)
<1>1. PICK kept \in BOOLEAN :
        /\ Mishap \/ UNCHANGED mishaps
        /\ checkpoints' = checkpoints \cup
             { [node |-> node[l], ok |-> ok, next |-> next, pending |-> p,
                kept |-> kept] }
  BY DEF Checkpoint
<1>2. pending' = p
  BY DEF Checkpoint
<1>3. QED
  BY <1>1, <1>2, MishapCounts DEF Rest, Snapshots

\* A node that completes takes its loop only where it may come.
LEMMA CompletesMoves ==
  ASSUME IInv, NEW l \in Loops, node[l] \in Nodes,
         NEW p \in Reviews \cup {"none"}, p # "none" => p \in waited,
         node[l] \in Reviews => Passable(node[l]),
         human_reviews' = human_reviews,
         Completes(l, p)
  PROVE  Moves(l)
<1>1. PICK next \in get_next_node(node[l], TRUE) :
        /\ Checkpoint(l, TRUE, next, p)
        /\ \/ /\ node' = [node EXCEPT ![l] = next] /\ Goes(l, "head")
              /\ UNCHANGED <<iterations, attempts>>
           \/ Returns(l)
  BY DEF Completes
<1>2. completed' = completed \cup {node[l]} /\ waited' = waited
  BY DEF Completes
<1>3. /\ next \in Nodes \cup {End}
      /\ edge_else[node[l]] = next \/ next \in edge_if[node[l]]
  BY EdgeTypes
<1>4. /\ checkpoints' \subseteq Snapshots /\ pending' = p
      /\ mishaps' \in 0..MaxMishaps
      /\ \A c \in checkpoints' :
           c \in checkpoints \/ (c.next = next /\ c.pending = p)
  BY <1>1, <1>3, CheckpointFacts DEF IInv
<1>5. Reached(next)'
  BY <1>2, <1>3 DEF Reached
<1>6. EngineInv'
  <2>1. \A c \in checkpoints' :
          (c.ok => Reached(c.next)') /\ (c.pending # "none" => c.pending \in waited')
    <3>1. \A c \in checkpoints : c.ok => Reached(c.next)'
      BY <1>2 DEF IInv, EngineInv, Reached
    <3>2. QED
      BY <1>2, <1>4, <1>5, <3>1 DEF IInv, EngineInv
  <2>2. \A n \in completed' \cap Reviews : Passable(n)'
    BY <1>2 DEF IInv, EngineInv, Passable
  <2>3. QED
    BY <1>2, <1>4, <2>1, <2>2 DEF EngineInv
<1>7. completed' \subseteq Nodes
  BY <1>2 DEF IInv, Rest
<1>8. CASE Returns(l)
  <2>1. Reached(node[l])'
    BY <1>8, ReturnsTypes DEF IInv, Reached
  <2>2. QED
    BY <1>2, <1>4, <1>6, <1>7, <1>8, <2>1, ReturnsTypes DEF Moves, IInv, Rest
<1>9. CASE /\ node' = [node EXCEPT ![l] = next] /\ Goes(l, "head")
           /\ UNCHANGED <<iterations, attempts>>
  <2>1. /\ at' \in [Loops -> Ats] /\ at'[l] = "head"
        /\ \A m \in Loops \ {l} : at'[m] = at[m]
    BY <1>9, GoesTypes DEF IInv, Ats, InNode
  <2>2. /\ node' \in [Loops -> Nodes \cup {End}] /\ node'[l] = next
        /\ \A m \in Loops \ {l} : node'[m] = node[m]
    BY <1>3, <1>9 DEF IInv, Rest
  <2>3. Reached(node[l])'
    BY <1>5, <2>2 DEF Reached
  <2>4. QED
    BY <1>2, <1>4, <1>6, <1>7, <1>9, <2>1, <2>2, <2>3 DEF Moves, IInv, Rest
<1>10. QED
  BY <1>1, <1>8, <1>9

\* A loop that returns and leaves the engine as good as it was.
LEMMA ReturnMoves ==
  ASSUME IInv, NEW l \in Loops, Returns(l), completed' = completed,
         waited \subseteq waited', waited' \subseteq Reviews,
         human_reviews' = human_reviews, mishaps' \in 0..MaxMishaps,
         checkpoints' \subseteq Snapshots, pending' \in Reviews \cup {"none"},
         pending' # "none" => pending' \in waited',
         \A c \in checkpoints' :
           \/ c \in checkpoints
           \/ c.ok = FALSE /\ (c.pending # "none" => c.pending \in waited)
  PROVE  Moves(l)
<1>1. Reached(node[l])'
  BY ReturnsTypes DEF IInv, Reached
<1>2. \A c \in checkpoints' :
        (c.ok => Reached(c.next)') /\ (c.pending # "none" => c.pending \in waited')
  BY DEF IInv, EngineInv, Reached
<1>3. \A n \in completed' \cap Reviews : Passable(n)'
  BY DEF IInv, EngineInv, Passable
<1>4. EngineInv'
  BY <1>2, <1>3 DEF EngineInv
<1>5. QED
  BY <1>1, <1>4, ReturnsTypes DEF Moves, IInv, Rest

\* So does a node that failed, by the edges that ask for no output.
LEMMA FailedReturnMoves ==
  ASSUME IInv, NEW l \in Loops, node[l] \in Nodes, Returns(l),
         NEW p \in Reviews \cup {"none"}, p # "none" => p \in waited,
         Checkpoint(l, FALSE, edge_else[node[l]], p),
         UNCHANGED <<completed, waited, human_reviews>>
  PROVE  Moves(l)
<1>1. edge_else[node[l]] \in Nodes \cup {End}
  BY WorkflowAssumption
<1>2. /\ checkpoints' \subseteq Snapshots /\ pending' = p
      /\ mishaps' \in 0..MaxMishaps
      /\ \A c \in checkpoints' :
           c \in checkpoints \/ (c.ok = FALSE /\ c.pending = p)
  BY <1>1, CheckpointFacts DEF IInv
<1>3. waited' \subseteq Reviews
  BY DEF IInv, Rest
<1>4. QED
  BY <1>2, <1>3, ReturnMoves

\* A step that leaves the engine alone keeps its invariant.
LEMMA EngineAlone ==
  ASSUME IInv, UNCHANGED <<checkpoints, pending, completed, waited, human_reviews>>
  PROVE  EngineInv'
<1>1. \A c \in checkpoints : c.ok => Reached(c.next)'
  BY DEF IInv, EngineInv, Reached
<1>2. QED
  BY <1>1 DEF IInv, EngineInv, Passable

\* A node that raised is tried again or has failed.
LEMMA RaisesMoves ==
  ASSUME IInv, NEW l \in Loops, node[l] \in Nodes, Raises(l),
         human_reviews' = human_reviews
  PROVE  Moves(l)
<1>1. CASE /\ attempts' = [attempts EXCEPT ![l] = @ + 1] /\ Goes(l, "node")
           /\ UNCHANGED <<node, iterations, engine, mishaps>>
  <2>1. /\ at' \in [Loops -> Ats] /\ at'[l] = "node"
        /\ \A m \in Loops \ {l} : at'[m] = at[m]
    BY <1>1, GoesTypes DEF IInv, Ats, InNode
  <2>2. attempts' \in [Loops -> Nat]
    BY <1>1 DEF IInv, Rest
  <2>3. EngineInv'
    BY <1>1, EngineAlone DEF engine
  <2>4. Reached(node[l])'
    BY <1>1 DEF IInv, LoopInv, InNode, Reached, engine
  <2>5. QED
    BY <1>1, <2>1, <2>2, <2>3, <2>4 DEF Moves, IInv, Rest, engine
<1>2. CASE /\ Checkpoint(l, FALSE, edge_else[node[l]], pending) /\ Returns(l)
           /\ UNCHANGED <<completed, waited>>
  BY <1>2, FailedReturnMoves DEF IInv, Rest, EngineInv
<1>3. QED
  BY <1>1, <1>2 DEF Raises

-----------------------------------------------------------------------------
(***************************************************************************)
(* The actions.                                                            *)
(***************************************************************************)
\* What is out of the loop's hands stays.
LEMMA WorldStays ==
  ASSUME Rest, UNCHANGED world
  PROVE  /\ human_reviews' = human_reviews /\ up' = up /\ resumes' \in 0..MaxResumes
BY DEF Rest, world

\* The budget or the timeout of the workflow stops a loop.
LEMMA StopsStep ==
  ASSUME IInv, NEW l \in Loops, Stops(l)
  PROVE  IInv'
<1>1. Returns(l) /\ UNCHANGED <<gvars, call, engine, ran, mishaps, world>>
  BY DEF Stops
<1>2. Moves(l)
  BY <1>1, ReturnMoves DEF engine, world, IInv, Rest, EngineInv
<1>3. QED
  BY <1>1, <1>2, MovesKeep, GateAlone, WorldStays DEF IInv

\* A loop enters its next node.
LEMMA BeginsStep ==
  ASSUME IInv, NEW l \in Loops, Begins(l)
  PROVE  IInv'
<1>1. /\ node[l] # End /\ iterations[l] < max_iterations /\ Goes(l, "node")
      /\ iterations' = [iterations EXCEPT ![l] = @ + 1]
      /\ attempts' = [attempts EXCEPT ![l] = 0]
      /\ UNCHANGED <<gvars, node, call, engine, ran, mishaps, world>>
  BY WorkflowAssumption DEF Begins, exhausted, IInv, Rest
<1>2. /\ at' \in [Loops -> Ats] /\ at'[l] = "node"
      /\ \A m \in Loops \ {l} : at'[m] = at[m]
  BY <1>1, GoesTypes DEF IInv, Ats, InNode
<1>3. iterations' \in [Loops -> 0..max_iterations] /\ attempts' \in [Loops -> Nat]
  <2>1. iterations[l] + 1 \in 0..max_iterations
    BY <1>1, WorkflowAssumption DEF IInv, Rest
  <2>2. QED
    BY <1>1, <2>1 DEF IInv, Rest
<1>4. EngineInv'
  BY <1>1, EngineAlone DEF engine, world
<1>5. node'[l] \in Nodes /\ Reached(node[l])'
  BY <1>1 DEF IInv, Rest, LoopInv, InNode, Reached, engine
<1>6. Moves(l)
  BY <1>1, <1>2, <1>3, <1>4, <1>5 DEF Moves, IInv, Rest, engine
<1>7. QED
  BY <1>1, <1>6, MovesKeep, GateAlone, WorldStays DEF IInv

\* A node without tool and review returns or raises.
LEMMA WorksStep ==
  ASSUME IInv, NEW l \in Loops, Works(l)
  PROVE  IInv'
<1>1. /\ at[l] = "node" /\ node[l] \notin Reviews /\ (Completes(l, pending) \/ Raises(l))
      /\ UNCHANGED <<gvars, call, ran, world>>
  BY DEF Works
<1>2. node[l] \in Nodes
  BY <1>1 DEF IInv, LoopInv, InNode
<1>3. Moves(l)
  BY <1>1, <1>2, CompletesMoves, RaisesMoves DEF IInv, Rest, EngineInv, world
<1>4. QED
  BY <1>1, <1>3, MovesKeep, GateAlone, WorldStays DEF IInv

\* A review pauses its loop, is passed, or is rejected.
LEMMA ReviewStep ==
  ASSUME IInv, NEW l \in Loops, Review(l)
  PROVE  IInv'
<1>1. /\ node[l] \in Reviews /\ at[l] \in {"node", "forking"}
      /\ at[l] = "node" => Decided(l) \/ Overdue(l) \/ Pauses(l)
      /\ at[l] = "forking" => Joins(l)
      /\ UNCHANGED <<gvars, call, ran, world>>
  BY DEF Review
<1>2. node[l] \in Nodes /\ node[l] # "none" /\ human_reviews' = human_reviews
  BY <1>1, WorkflowAssumption DEF IInv, LoopInv, InNode, world
<1>3. ASSUME Decided(l)
      PROVE  Moves(l)
  <2>1. CASE human_reviews[node[l]] = "approve"
    <3>1. Completes(l, "none")
      BY <1>3, <2>1 DEF Decided
    <3>2. Passable(node[l])
      BY <2>1 DEF Passable
    <3>3. QED
      BY <1>2, <3>1, <3>2, CompletesMoves
  <2>2. CASE human_reviews[node[l]] # "approve"
    <3>1. /\ Checkpoint(l, FALSE, edge_else[node[l]], "none") /\ Returns(l)
          /\ UNCHANGED <<completed, waited>>
      BY <1>3, <2>2 DEF Decided
    <3>2. QED
      BY <1>2, <3>1, FailedReturnMoves
  <2>3. QED
    BY <2>1, <2>2
<1>4. ASSUME Overdue(l)
      PROVE  Moves(l)
  <2>1. CASE review_timeout[node[l]] = "approve"
    <3>1. Completes(l, "none") /\ human_reviews[node[l]] = "none" /\ pending = node[l]
      BY <1>4, <2>1 DEF Overdue, elapsed
    <3>2. Passable(node[l])
      BY <1>2, <2>1, <3>1 DEF Passable, IInv, EngineInv
    <3>3. QED
      BY <1>2, <3>1, <3>2, CompletesMoves
  <2>2. CASE review_timeout[node[l]] # "approve"
    BY <1>2, <1>4, <2>2, RaisesMoves DEF Overdue
  <2>3. QED
    BY <2>1, <2>2
<1>5. ASSUME Pauses(l)
      PROVE  Moves(l)
  <2>1. /\ pending' = node[l] /\ waited' = waited \cup {node[l]} /\ Returns(l)
        /\ UNCHANGED <<checkpoints, completed, mishaps>>
    BY <1>5 DEF Pauses
  <2>2. /\ waited \subseteq waited' /\ waited' \subseteq Reviews /\ pending' \in waited'
        /\ mishaps' \in 0..MaxMishaps /\ checkpoints' \subseteq Snapshots
    BY <1>1, <2>1 DEF IInv, Rest
  <2>3. QED
    BY <1>1, <1>2, <2>1, <2>2, ReturnMoves
<1>6. ASSUME at[l] = "forking", Joins(l)
      PROVE  Moves(l)
  <2>1. Passable(node[l])
    BY <1>6 DEF IInv, LoopInv, Passable
  <2>2. pending \in Reviews \cup {"none"} /\ (pending # "none" => pending \in waited)
    BY DEF IInv, Rest, EngineInv
  <2>3. QED
    BY <1>2, <1>6, <2>1, <2>2, CompletesMoves, RaisesMoves DEF Joins
<1>7. Moves(l)
  BY <1>1, <1>3, <1>4, <1>5, <1>6
<1>8. QED
  BY <1>1, <1>7, MovesKeep, GateAlone, WorldStays DEF IInv

\* A review is decided by a fork, whose branches are awaited.
LEMMA ForksStep ==
  ASSUME IInv, NEW l \in Loops, Forks(l)
  PROVE  IInv'
<1>1. /\ node[l] \in Reviews /\ human_reviews[node[l]] = "fork"
      /\ pending' = "none" /\ Goes(l, "forking")
      /\ UNCHANGED <<gvars, place, call, checkpoints, completed, waited, ran,
                     mishaps, world>>
  BY DEF Forks
<1>2. GInv' /\ Kept
  BY <1>1, GateAlone DEF IInv
<1>3. /\ at' \in [Loops -> Ats] /\ at'[l] = "forking"
      /\ \A m \in Loops \ {l} : at'[m] = at[m]
  BY <1>1, GoesTypes DEF IInv, Ats, InNode
<1>4. Rest'
  BY <1>1, <1>3 DEF IInv, Rest, place, world
<1>5. ASSUME NEW m \in Loops
      PROVE  LoopInv(m)'
  <2>1. Reached(node[m])'
    BY <1>1 DEF IInv, LoopInv, Reached, place
  <2>2. node[l] \in Nodes
    BY <1>1, WorkflowAssumption
  <2>3. CASE m = l
    BY <1>1, <1>3, <2>1, <2>2, <2>3 DEF LoopInv, InNode, place, world
  <2>4. CASE m # l
    BY <1>1, <1>2, <1>3, <2>1, <2>4 DEF IInv, LoopInv, Kept, place, world
  <2>5. QED
    BY <2>3, <2>4
<1>6. CallInv'
  BY <1>1, <1>2, <1>3 DEF IInv, CallInv, ToolNeedsApproval, Kept
<1>7. EngineInv'
  <2>1. \A c \in checkpoints : c.ok => Reached(c.next)'
    BY <1>1 DEF IInv, EngineInv, Reached
  <2>2. QED
    BY <1>1, <2>1 DEF IInv, EngineInv, Passable, world
<1>8. QED
  BY <1>2, <1>4, <1>5, <1>6, <1>7 DEF IInv

\* The policy denies the tool, or the draft cannot be written.
LEMMA GateBreaksStep ==
  ASSUME IInv, NEW l \in Loops, GateBreaks(l)
  PROVE  IInv'
<1>1. at[l] = "node" /\ Raises(l) /\ UNCHANGED <<gvars, call, ran, world>>
  BY DEF GateBreaks
<1>2. Moves(l)
  BY <1>1, RaisesMoves DEF IInv, LoopInv, InNode, world
<1>3. QED
  BY <1>1, <1>2, MovesKeep, GateAlone, WorldStays DEF IInv

\* The call is over, the loop goes on without its draft.
LEMMA AfterCallStep ==
  ASSUME IInv, NEW l \in Loops, Denied(l) \/ ToolEnds(l) \/ GivesUp(l)
  PROVE  IInv'
<1>1. /\ at[l] \in {"asked", "acting"} /\ (Completes(l, pending) \/ Raises(l))
      /\ call' = Forgets(l) /\ UNCHANGED <<ran, world>>
      /\ UNCHANGED gvars \/ Drops({call[l]})
  BY DEF Denied, ToolEnds, GivesUp
<1>2. node[l] \in Nodes /\ node[l] \notin Reviews /\ call[l] \in Drafts
  BY <1>1, WorkflowAssumption DEF IInv, LoopInv, InNode
<1>3. GInv' /\ Kept
  BY <1>1, <1>2, GateAlone, DropKeeps DEF IInv
<1>4. Moves(l)
  BY <1>1, <1>2, CompletesMoves, RaisesMoves DEF IInv, Rest, EngineInv, world
<1>5. QED
  BY <1>1, <1>3, <1>4, MovesKeep, WorldStays DEF IInv

\* A step inside the gate: no loop changes its node, the engine stays.
LEMMA LoopsStay ==
  ASSUME IInv, Kept, UNCHANGED <<place, engine, mishaps, world>>,
         NEW m \in Loops, at'[m] = at[m], call'[m] = call[m],
         at[m] = "asked" => ran'[call[m]] = ran[call[m]]
  PROVE  LoopInv(m)'
<1>1. Reached(node[m])'
  BY DEF IInv, LoopInv, Reached, place, engine
<1>2. QED
  BY <1>1 DEF IInv, LoopInv, InNode, Kept, place, world

\* A tool call is put in front of a human.
LEMMA AsksGateStep ==
  ASSUME IInv, NEW l \in Loops, AsksGate(l)
  PROVE  IInv'
<1> DEFINE d == unused
<1>1. d \in Drafts /\ record[d] = "none"
  BY DEF AsksGate, unused
<1> HIDE DEF d
<1>2. /\ at[l] = "node" /\ node[l] \in Tools /\ Goes(l, "asked") /\ Ask(d)
      /\ call' = [call EXCEPT ![l] = d]
      /\ UNCHANGED <<place, engine, ran, mishaps, world>>
  BY DEF AsksGate, d
<1>3. GInv' /\ Kept /\ record'[d] = "pending"
  BY <1>1, <1>2, AskKeeps DEF IInv
<1>4. /\ at' \in [Loops -> Ats] /\ at'[l] = "asked"
      /\ \A m \in Loops \ {l} : at'[m] = at[m]
  BY <1>2, GoesTypes DEF IInv, Ats, InNode
<1>5. /\ call' \in [Loops -> Drafts \cup {NoDraft}] /\ call'[l] = d
      /\ \A m \in Loops \ {l} : call'[m] = call[m]
  BY <1>1, <1>2 DEF IInv, Rest
<1>6. Rest'
  BY <1>2, <1>4, <1>5 DEF IInv, Rest, place, engine, world
<1>7. ASSUME NEW m \in Loops
      PROVE  LoopInv(m)'
  <2>1. CASE m = l
    <3>1. Reached(node[l])' /\ node'[l] = node[l] /\ node[l] \in Nodes
      BY <1>2, WorkflowAssumption DEF IInv, LoopInv, Reached, place, engine
    <3>2. ran'[d] = 0
      BY <1>1, <1>2 DEF IInv, CallInv
    <3>3. QED
      BY <1>1, <1>2, <1>3, <1>4, <1>5, <2>1, <3>1, <3>2 DEF LoopInv, InNode
  <2>2. CASE m # l
    BY <1>2, <1>3, <1>4, <1>5, <2>2, LoopsStay
  <2>3. QED
    BY <2>1, <2>2
<1>8. CallInv'
  <2>1. \A m \in Loops \ {l} : at[m] = "asked" => call[m] # d
    BY <1>1 DEF IInv, LoopInv
  <2>2. QED
    BY <1>2, <1>3, <1>4, <1>5, <2>1 DEF IInv, CallInv, ToolNeedsApproval, Kept
<1>9. EngineInv'
  BY <1>2, EngineAlone DEF engine, world
<1>10. QED
  BY <1>3, <1>6, <1>7, <1>8, <1>9 DEF IInv

\* The gate alone moves: answers, decisions.
LEMMA GateOnlyStep ==
  ASSUME IInv, GInv', Kept, UNCHANGED wvars
  PROVE  IInv'
<1>1. /\ UNCHANGED <<place, engine, mishaps, world>> /\ at' = at /\ call' = call
      /\ ran' = ran
  BY DEF wvars, place, engine, world
<1>2. Rest'
  BY <1>1 DEF IInv, Rest, place, engine, world
<1>3. \A m \in Loops : LoopInv(m)'
  BY <1>1, LoopsStay
<1>4. CallInv'
  BY <1>1 DEF IInv, CallInv, ToolNeedsApproval, Kept
<1>5. EngineInv'
  BY <1>1, EngineAlone DEF engine, world
<1>6. QED
  BY <1>2, <1>3, <1>4, <1>5 DEF IInv

\* A tool runs on an answer that lets it.
LEMMA CallsToolStep ==
  ASSUME IInv, NEW l \in Loops, CallsTool(l)
  PROVE  IInv'
<1> DEFINE d == call[l]
<1>1. /\ at[l] = "asked" /\ answer[d] = "allow" /\ Goes(l, "acting")
      /\ ran' = [ran EXCEPT ![d] = @ + 1]
      /\ UNCHANGED <<gvars, place, call, engine, mishaps, world>>
  BY DEF CallsTool
<1>2. /\ d \in Drafts /\ ran[d] = 0 /\ record[d] # "none" /\ first[d] = "approved"
      /\ node[l] \in Tools
  BY <1>1 DEF IInv, LoopInv, GInv, GateInv
<1> HIDE DEF d
<1>3. GInv' /\ Kept
  BY <1>1, GateAlone DEF IInv
<1>4. /\ at' \in [Loops -> Ats] /\ at'[l] = "acting"
      /\ \A m \in Loops \ {l} : at'[m] = at[m]
  BY <1>1, GoesTypes DEF IInv, Ats, InNode
<1>5. /\ ran' \in [Drafts -> Nat] /\ ran'[d] = 1
      /\ \A c \in Drafts \ {d} : ran'[c] = ran[c]
  BY <1>1, <1>2 DEF IInv, Rest
<1>6. Rest'
  BY <1>1, <1>4, <1>5 DEF IInv, Rest, place, engine, world
<1>7. ASSUME NEW m \in Loops
      PROVE  LoopInv(m)'
  <2>1. CASE m = l
    <3>1. Reached(node[l])' /\ node'[l] = node[l] /\ node[l] \in Nodes /\ call'[l] = d
      BY <1>1, <1>2, WorkflowAssumption DEF IInv, LoopInv, Reached, place, engine, d
    <3>2. QED
      BY <1>2, <1>4, <2>1, <3>1 DEF LoopInv, InNode
  <2>2. CASE m # l
    <3>1. at[m] = "asked" => call[m] \in Drafts \ {d}
      BY <1>1, <2>2 DEF IInv, CallInv, LoopInv, d
    <3>2. QED
      BY <1>1, <1>3, <1>4, <1>5, <2>2, <3>1, LoopsStay
  <2>3. QED
    BY <2>1, <2>2
<1>8. CallInv'
  <2>1. ToolNeedsApproval'
    BY <1>1, <1>2, <1>5 DEF IInv, CallInv, ToolNeedsApproval, gvars
  <2>2. \A c \in Drafts : record'[c] = "none" => ran'[c] = 0
    BY <1>1, <1>2, <1>5 DEF IInv, CallInv, gvars
  <2>3. \A m \in Loops : at'[m] = "asked" => at[m] = "asked" /\ call'[m] = call[m]
    BY <1>1, <1>4
  <2>4. QED
    BY <2>1, <2>2, <2>3 DEF IInv, CallInv
<1>9. EngineInv'
  BY <1>1, EngineAlone DEF engine, world
<1>10. QED
  BY <1>3, <1>6, <1>7, <1>8, <1>9 DEF IInv

\* A request resumes the workflow from a checkpoint.
LEMMA ResumeStep ==
  ASSUME IInv, NEW l \in Loops, Resume(l)
  PROVE  IInv'
<1>1. /\ resumes < MaxResumes /\ resumes' = resumes + 1 /\ Goes(l, "head")
      /\ iterations' = [iterations EXCEPT ![l] = 0]
      /\ UNCHANGED <<gvars, attempts, call, checkpoints, completed, waited, ran,
                     human_reviews, mishaps, up>>
  BY DEF Resume
<1>2. PICK c \in checkpoints :
        /\ pending' = c.pending
        /\ \E next \in IF c.ok THEN {c.next} ELSE get_next_node(c.node, FALSE) :
             node' = [node EXCEPT ![l] = IF next = End THEN first_node ELSE next]
  BY DEF Resume
<1>3. PICK next \in IF c.ok THEN {c.next} ELSE get_next_node(c.node, FALSE) :
        node' = [node EXCEPT ![l] = IF next = End THEN first_node ELSE next]
  BY <1>2
<1>4. /\ c.node \in Nodes /\ c.ok \in BOOLEAN /\ c.next \in Nodes \cup {End}
      /\ c.pending \in Reviews \cup {"none"}
  BY DEF IInv, Rest, Snapshots
<1>5. next \in Nodes \cup {End} /\ Reached(next)
  <2>1. CASE c.ok
    BY <1>3, <1>4, <2>1 DEF IInv, EngineInv
  <2>2. CASE ~c.ok
    <3>1. next \in get_next_node(c.node, FALSE)
      BY <1>3, <2>2
    <3>2. QED
      BY <1>4, <3>1, EdgeTypes DEF Reached
  <2>3. QED
    BY <2>1, <2>2
<1>6. /\ at' \in [Loops -> Ats] /\ at'[l] = "head"
      /\ \A m \in Loops \ {l} : at'[m] = at[m]
  BY <1>1, GoesTypes DEF IInv, Ats, InNode
<1>7. /\ node' \in [Loops -> Nodes \cup {End}]
      /\ node'[l] = IF next = End THEN first_node ELSE next
      /\ \A m \in Loops \ {l} : node'[m] = node[m]
  BY <1>3, <1>5, WorkflowAssumption DEF IInv, Rest
<1>8. Reached(node[l])'
  BY <1>1, <1>5, <1>7 DEF Reached
<1>9. EngineInv'
  <2>1. \A b \in checkpoints : b.ok => Reached(b.next)'
    BY <1>1 DEF IInv, EngineInv, Reached
  <2>2. QED
    BY <1>1, <1>2, <2>1 DEF IInv, EngineInv, Passable
<1>10. iterations' \in [Loops -> 0..max_iterations] /\ resumes' \in 0..MaxResumes
  BY <1>1, WorkflowAssumption DEF IInv, Rest
<1>11. Moves(l)
  BY <1>1, <1>2, <1>4, <1>6, <1>7, <1>8, <1>9, <1>10 DEF Moves, IInv, Rest
<1>12. QED
  BY <1>1, <1>10, <1>11, MovesKeep, GateAlone DEF IInv

\* The server dies, and with it every loop and every future.
LEMMA GoDownStep ==
  ASSUME IInv, GoDown
  PROVE  IInv'
<1>1. /\ up' = FALSE /\ Mishap /\ Lost /\ pending' = "none"
      /\ at' = [l \in Loops |-> "idle"] /\ node' = [l \in Loops |-> first_node]
      /\ call' = [l \in Loops |-> NoDraft]
      /\ iterations' = [l \in Loops |-> 0] /\ attempts' = [l \in Loops |-> 0]
      /\ checkpoints' = { c \in checkpoints : c.kept }
      /\ UNCHANGED <<human_reviews, completed, waited, ran, resumes>>
  BY DEF GoDown
<1>2. GInv' /\ Kept
  BY <1>1, DropKeeps DEF IInv
<1>3. Rest'
  <2>1. "idle" \in Ats /\ first_node \in Nodes /\ 0 \in 0..max_iterations
    BY WorkflowAssumption DEF Ats, InNode
  <2>2. mishaps' \in 0..MaxMishaps
    BY <1>1, MishapCounts DEF IInv
  <2>3. QED
    BY <1>1, <2>1, <2>2 DEF IInv, Rest
<1>4. \A l \in Loops : LoopInv(l)'
  BY <1>1 DEF LoopInv, InNode, Reached
<1>5. CallInv'
  BY <1>1, <1>2 DEF IInv, CallInv, ToolNeedsApproval, Kept
<1>6. EngineInv'
  <2>1. \A c \in checkpoints : c.ok => Reached(c.next)'
    BY <1>1 DEF IInv, EngineInv, Reached
  <2>2. QED
    BY <1>1, <2>1 DEF IInv, EngineInv, Passable
<1>7. QED
  BY <1>2, <1>3, <1>4, <1>5, <1>6 DEF IInv

\* It comes up with what the files say.
LEMMA ComeUpStep ==
  ASSUME IInv, ComeUp
  PROVE  IInv'
<1>1. /\ up' = TRUE /\ at' = at
      /\ UNCHANGED <<gvars, place, call, engine, human_reviews, ran, resumes, mishaps>>
  BY DEF ComeUp
<1>2. GInv' /\ Kept
  BY <1>1, GateAlone DEF IInv
<1>3. Rest'
  BY <1>1 DEF IInv, Rest, place, engine
<1>4. ASSUME NEW m \in Loops
      PROVE  LoopInv(m)'
  <2>1. Reached(node[m])'
    BY <1>1 DEF IInv, LoopInv, Reached, place, engine
  <2>2. QED
    BY <1>1, <1>2, <2>1 DEF IInv, LoopInv, InNode, Kept, place
<1>5. CallInv'
  BY <1>1, <1>2 DEF IInv, CallInv, ToolNeedsApproval, Kept
<1>6. EngineInv'
  BY <1>1, EngineAlone DEF engine
<1>7. QED
  BY <1>2, <1>3, <1>4, <1>5, <1>6 DEF IInv

-----------------------------------------------------------------------------
\* Every step keeps the invariant.
LEMMA NextSteps ==
  ASSUME IInv, [Next]_vars
  PROVE  IInv'
<1>1. CASE UNCHANGED vars
  <2>1. UNCHANGED gvars /\ UNCHANGED wvars
    BY <1>1 DEF vars
  <2>2. QED
    BY <2>1, GateAlone, GateOnlyStep DEF IInv
<1>2. ASSUME NEW l \in Loops, LoopStep(l) \/ GivesUp(l) \/ Resume(l)
      PROVE  IInv'
  <2>1. CASE Answered(l)
    <3>1. call[l] \in Drafts
      BY <2>1 DEF Answered, IInv, LoopInv
    <3>2. QED
      BY <2>1, <3>1, AnswerKeeps, GateOnlyStep DEF Answered, IInv
  <2>2. QED
    BY <1>2, <2>1, StopsStep, BeginsStep, WorksStep, ReviewStep, ForksStep,
       AsksGateStep, GateBreaksStep, CallsToolStep, AfterCallStep, ResumeStep DEF LoopStep
<1>3. ASSUME NEW d \in Drafts, Decision(d)
      PROVE  IInv'
  BY <1>3, DecideKeeps, GateOnlyStep DEF Decision, IInv
<1>4. QED
  BY <1>1, <1>2, <1>3, GoDownStep, ComeUpStep DEF Next

\* The invariant holds initially.
LEMMA InitHolds == Init => IInv
<1> SUFFICES ASSUME Init
             PROVE  IInv
  OBVIOUS
<1>1. GInv
  BY GateAssumption DEF Init, GInit, GInv, GTypeOK, GateInv
<1>2. /\ \A l \in Loops : at[l] \in {"head", "idle"} /\ node[l] = first_node
      /\ at \in [Loops -> Ats]
  BY DEF Init, Ats, InNode
<1>3. Rest
  <2>1. first_node \in Nodes /\ 0 \in 0..max_iterations /\ 0 \in 0..MaxMishaps
        /\ 0 \in 0..MaxResumes
    BY WorkflowAssumption
  <2>2. QED
    BY <1>2, <2>1 DEF Init, Rest
<1>4. \A l \in Loops : LoopInv(l)
  BY <1>2 DEF LoopInv, InNode, Reached
<1>5. CallInv
  BY <1>2 DEF Init, CallInv, ToolNeedsApproval
<1>6. EngineInv
  BY DEF Init, EngineInv
<1>7. QED
  BY <1>1, <1>3, <1>4, <1>5, <1>6 DEF IInv

\* The strengthened invariant is one.
THEOREM Invariant == Spec => []IInv
<1>1. IInv /\ [Next]_vars => IInv'
  BY NextSteps
<1>2. QED
  BY <1>1, InitHolds, PTL DEF Spec

\* Every variable keeps its type; who is in a node has one.
THEOREM TypeCorrect == Spec => []TypeOK
<1>1. IInv => TypeOK
  BY DEF IInv, GInv, Rest, LoopInv, InNode, TypeOK
<1>2. QED
  BY <1>1, Invariant, PTL

\* No tool behind the gate runs twice on a draft, or on one that was not approved
\* first.
THEOREM NoToolUnapproved == Spec => []ToolNeedsApproval
<1>1. IInv => ToolNeedsApproval
  BY DEF IInv, CallInv
<1>2. QED
  BY <1>1, Invariant, PTL

\* The gate never lets a call through that was not approved first.
THEOREM AllowedWereApproved == Spec => []AllowedByApproval
<1>1. IInv => AllowedByApproval
  BY DEF IInv, GInv, GateInv, AllowedByApproval
<1>2. QED
  BY <1>1, Invariant, PTL

\* The drafts' file does not mislead about what was allowed.
THEOREM RecordsAgree == Spec => []AllowIsOnRecord
<1>1. IInv => AllowIsOnRecord
  BY DEF IInv, GInv, GateInv, AllowIsOnRecord
<1>2. QED
  BY <1>1, Invariant, PTL

\* No resume gets past a condition.
THEOREM NoConditionPassed == Spec => []ConditionsHold
<1>1. IInv => ConditionsHold
  <2> SUFFICES ASSUME IInv, NEW l \in Loops, at[l] \in InNode
               PROVE  \/ node[l] = first_node
                      \/ \E m \in Nodes : edge_else[m] = node[l]
                      \/ \E m \in completed : node[l] \in edge_if[m]
    BY DEF ConditionsHold
  <2>1. node[l] \in Nodes /\ Reached(node[l])
    BY DEF IInv, LoopInv, InNode
  <2>2. QED
    BY <2>1, WorkflowAssumption DEF Reached
<1>2. QED
  BY <1>1, Invariant, PTL

\* No review is passed without a decision or a default that was waited for.
THEOREM NoReviewPassed == Spec => []ReviewNeedsDecision
<1>1. IInv => ReviewNeedsDecision
  BY DEF IInv, EngineInv, Passable, ReviewNeedsDecision
<1>2. QED
  BY <1>1, Invariant, PTL

-----------------------------------------------------------------------------
(***************************************************************************)
(* Calls and executions come to an end: what of EveryCallAnswered and of   *)
(* ExecutionEnds does not need fairness.  Fairness then only has to say    *)
(* that loops move.                                                        *)
(***************************************************************************)
Final == {"allow", "reject", "dropped"}

\* A call that is out is waited for by exactly one execution, of this life of
\* the process, and its future is one that a decision or the timeout can still
\* end: nobody is left who waits for a human in vain (gate_tool_call,
\* _resolve_draft, the node's timeout and restarts in between).
CallsHaveTakers ==
  \A d \in Drafts : answer[d] = "asked" =>
    /\ up /\ future[d] \in {"open", "allow", "reject"}
    /\ \E l \in Loops :
         /\ at[l] = "asked" /\ call[l] = d
         /\ \A k \in Loops : at[k] = "asked" /\ call[k] = d => k = l

\* What a call came back with is not changed by a later decision, a timeout or
\* a restart.
AnswersAreFinal ==
  [][\A d \in Drafts : answer[d] \in Final => answer'[d] = answer[d]]_vars

\* A tool that ran had an answer that let it, and still has it.
RefusedNeverRuns == \A d \in Drafts : ran[d] > 0 => answer[d] = "allow"

\* No node is tried more often than its retries allow, whatever makes it fail:
\* the tool, a rejection, the gate's timeout or its own.
AttemptsBounded ==
  \A l \in Loops : at[l] \in InNode => attempts[l] <= retries[node[l]]

\* How far an attempt at a node has come.
Sat(l) ==
  IF at[l] = "asked" THEN IF answer[call[l]] = "asked" THEN 1 ELSE 2
  ELSE IF at[l] = "node" THEN 0 ELSE 3

\* Execution l is further on: in a later node, done with its node, in a later
\* attempt, or further in this one.  Each of the four is bounded.
Later(l) ==
  \/ iterations'[l] > iterations[l]
  \/ /\ iterations'[l] = iterations[l]
     /\ \/ at[l] # "head" /\ at'[l] = "head"
        \/ /\ at[l] # "head" /\ at'[l] # "head" /\ node'[l] = node[l]
           /\ \/ attempts'[l] > attempts[l]
              \/ attempts'[l] = attempts[l] /\ Sat(l)' > Sat(l)

\* Every step of an execution ends it or brings it further.
LoopsMoveOn ==
  [][\A l \in Loops : LoopStep(l) => at'[l] = "idle" \/ Later(l)]_vars

\* And nothing another execution, a human, a resume or a restart does sets a
\* running one back.
LoopsNeverBack ==
  [][\A l \in Loops : at[l] # "idle" =>
       \/ at'[l] = "idle" \/ Later(l)
       \/ /\ UNCHANGED <<at[l], node[l], iterations[l], attempts[l], call[l]>>
          /\ Sat(l)' >= Sat(l)]_vars

\* What these need beside IInv.
EndInv ==
  /\ \A d \in Drafts : answer[d] = "asked" =>
       /\ up /\ future[d] \in {"open", "allow", "reject"}
       /\ \E l \in Loops : at[l] = "asked" /\ call[l] = d
  /\ ~up => \A l \in Loops : at[l] = "idle"
  /\ AttemptsBounded /\ RefusedNeverRuns

-----------------------------------------------------------------------------
(***************************************************************************)
(* What a step does to the executions.                                     *)
(***************************************************************************)
Others(l) ==
  \A m \in Loops \ {l} :
    UNCHANGED <<at[m], node[m], iterations[m], attempts[m]>>

\* Execution l ends, goes on to the head of the loop, or tries its node again.
After(l) ==
  /\ Others(l)
  /\ \/ at'[l] = "idle"
     \/ at'[l] = "head" /\ iterations'[l] = iterations[l]
     \/ /\ at'[l] = "node" /\ node'[l] = node[l] /\ iterations'[l] = iterations[l]
        /\ attempts[l] < retries[node[l]] /\ attempts'[l] = attempts[l] + 1

\* A loop that returns is idle and nobody else has moved.
LEMMA ReturnsAfter ==
  ASSUME Rest, NEW l \in Loops, Returns(l)
  PROVE  After(l)
BY DEF Rest, Returns, Goes, After, Others

\* A loop whose node completed is at its next node or idle, nobody else has
\* moved.
LEMMA CompletesAfter ==
  ASSUME Rest, NEW l \in Loops, NEW p, Completes(l, p)
  PROVE  After(l)
<1>1. CASE Returns(l)
  BY <1>1, ReturnsAfter
<1>2. CASE \E next \in get_next_node(node[l], TRUE) :
             /\ node' = [node EXCEPT ![l] = next] /\ Goes(l, "head")
             /\ UNCHANGED <<iterations, attempts>>
  BY <1>2 DEF Rest, Goes, After, Others
<1>3. QED
  BY <1>1, <1>2 DEF Completes

\* A loop whose node raised is at its next attempt or has returned.
LEMMA RaisesAfter ==
  ASSUME Rest, NEW l \in Loops, Raises(l)
  PROVE  After(l)
<1>1. CASE Returns(l)
  BY <1>1, ReturnsAfter
<1>2. CASE /\ attempts[l] < retries[node[l]]
           /\ attempts' = [attempts EXCEPT ![l] = @ + 1] /\ Goes(l, "node")
           /\ UNCHANGED <<node, iterations>>
  BY <1>2 DEF Rest, Goes, After, Others
<1>3. QED
  BY <1>1, <1>2 DEF Raises

\* After a review the loop is in one of these places.
LEMMA ReviewAfter ==
  ASSUME Rest, NEW l \in Loops, Review(l)
  PROVE  After(l)
BY CompletesAfter, RaisesAfter, ReturnsAfter DEF Review, Decided, Overdue,
   Pauses, Joins

\* The steps that take an execution out of its node, or back to its start.
LEMMA NodeEnds ==
  ASSUME Rest, NEW l \in Loops,
         \/ Works(l) \/ Review(l) \/ GateBreaks(l) \/ Denied(l) \/ ToolEnds(l)
         \/ GivesUp(l)
  PROVE  /\ After(l) /\ at[l] \in InNode /\ UNCHANGED <<ran, up>>
         /\ \/ at[l] # "asked" /\ UNCHANGED gvars
            \/ at[l] = "asked" /\ answer[call[l]] = "reject" /\ UNCHANGED gvars
            \/ at[l] = "asked" /\ Drops({call[l]})
         /\ call' = call \/ call' = Forgets(l)
BY CompletesAfter, RaisesAfter, ReviewAfter
   DEF Works, Review, GateBreaks, Denied, ToolEnds, GivesUp, InNode, world

\* A resume starts one idle loop and touches no call.
LEMMA Resumes ==
  ASSUME Rest, NEW l \in Loops, Resume(l)
  PROVE  /\ Others(l) /\ at[l] = "idle" /\ at'[l] = "head" /\ up
         /\ UNCHANGED <<gvars, call, ran, up>>
<1>1. /\ up /\ at[l] = "idle" /\ Goes(l, "head")
      /\ iterations' = [iterations EXCEPT ![l] = 0]
      /\ UNCHANGED <<gvars, attempts, call, ran, up>>
  BY DEF Resume
<1>2. \E v : node' = [node EXCEPT ![l] = v]
  BY DEF Resume
<1>3. QED
  BY <1>1, <1>2 DEF Rest, Goes, Others

\* Answers are final, and only a new draft's call goes out.
Answers ==
  \A d \in Drafts :
    /\ answer[d] \in Final => answer'[d] = answer[d]
    /\ answer'[d] = "asked" => answer[d] = "asked" \/ record[d] = "none"

\* A step that leaves the gate alone takes no answer back.
LEMMA AnswersStay ==
  ASSUME GInv, UNCHANGED gvars
  PROVE  Answers
BY DEF gvars, Answers

\* Nor does the end of callers whose calls still wait.
LEMMA DropAnswers ==
  ASSUME GInv, Lost \/ \E S \in SUBSET Drafts : Drops(S)
  PROVE  Answers
<1>1. CASE Lost
  BY <1>1 DEF GInv, GTypeOK, Lost, Answers, Final
<1>2. ASSUME NEW S \in SUBSET Drafts, Drops(S)
      PROVE  Answers
  BY <1>2 DEF GInv, GTypeOK, Drops, Answers, Final
<1>3. QED
  BY <1>1, <1>2

\* Nor does a new call.
LEMMA AskAnswers ==
  ASSUME GInv, NEW d \in Drafts, Ask(d)
  PROVE  Answers
BY DEF GInv, GTypeOK, GateInv, Ask, Answers, Final

\* Nor does the answer of another call.
LEMMA AnswerAnswers ==
  ASSUME GInv, NEW d \in Drafts, Collect(d) \/ TimesOut(d)
  PROVE  Answers
BY DEF GInv, GTypeOK, Collect, TimesOut, Answers, Final

\* Nor does a decision, be it the second one on its draft.
LEMMA DecideAnswers ==
  ASSUME GInv, NEW d \in Drafts, NEW s \in {"approved", "rejected"}, Decide(d, s)
  PROVE  Answers
BY DEF Decide, Answers

\* Each step of the system leaves the answers in order.
LEMMA AnswersStep ==
  ASSUME IInv, [Next]_vars
  PROVE  Answers
<1>1. CASE UNCHANGED vars
  BY <1>1, AnswersStay DEF vars, IInv
<1>2. ASSUME NEW l \in Loops, LoopStep(l) \/ GivesUp(l) \/ Resume(l)
      PROVE  Answers
  <2>1. CASE Stops(l) \/ Begins(l) \/ Forks(l) \/ CallsTool(l)
    BY <2>1, AnswersStay DEF IInv, Stops, Begins, Forks, CallsTool
  <2>2. CASE AsksGate(l)
    <3>1. unused \in Drafts /\ Ask(unused)
      BY <2>2 DEF AsksGate, unused
    <3>2. QED
      BY <3>1, AskAnswers DEF IInv
  <2>3. CASE Answered(l)
    <3>1. call[l] \in Drafts /\ (Collect(call[l]) \/ TimesOut(call[l]))
      BY <2>3 DEF Answered, IInv, LoopInv
    <3>2. QED
      BY <3>1, AnswerAnswers DEF IInv
  <2>4. CASE \/ Works(l) \/ Review(l) \/ GateBreaks(l) \/ Denied(l) \/ ToolEnds(l)
             \/ GivesUp(l)
    <3>1. /\ at[l] = "asked" => call[l] \in Drafts
          /\ UNCHANGED gvars \/ (at[l] = "asked" /\ Drops({call[l]}))
      BY <2>4, NodeEnds DEF IInv, LoopInv
    <3>2. QED
      BY <3>1, AnswersStay, DropAnswers DEF IInv
  <2>5. CASE Resume(l)
    BY <2>5, AnswersStay, Resumes DEF IInv
  <2>6. QED
    BY <1>2, <2>1, <2>2, <2>3, <2>4, <2>5 DEF LoopStep
<1>3. ASSUME NEW d \in Drafts, Decision(d)
      PROVE  Answers
  BY <1>3, DecideAnswers DEF Decision, IInv
<1>4. CASE GoDown
  BY <1>4, DropAnswers DEF GoDown, IInv
<1>5. CASE ComeUp
  BY <1>5, AnswersStay DEF ComeUp, IInv
<1>6. QED
  BY <1>1, <1>2, <1>3, <1>4, <1>5 DEF Next

-----------------------------------------------------------------------------
(***************************************************************************)
(* EndInv, action by action.                                               *)
(***************************************************************************)
\* A taker stays with its call.
Takes(l, d) == at[l] = "asked" /\ call[l] = d

\* The end of an attempt keeps EndInv.
LEMMA NodeEndsKeeps ==
  ASSUME IInv, EndInv, Answers, NEW l \in Loops,
         \/ Works(l) \/ Review(l) \/ GateBreaks(l) \/ Denied(l) \/ ToolEnds(l)
         \/ GivesUp(l)
  PROVE  EndInv'
<1>1. /\ After(l) /\ at[l] \in InNode /\ UNCHANGED <<ran, up>>
      /\ \/ at[l] # "asked" /\ UNCHANGED gvars
         \/ at[l] = "asked" /\ answer[call[l]] = "reject" /\ UNCHANGED gvars
         \/ at[l] = "asked" /\ Drops({call[l]})
      /\ \A m \in Loops \ {l} : call'[m] = call[m]
  BY NodeEnds DEF IInv, Rest, Forgets
<1>2. at[l] = "asked" => call[l] \in Drafts
  BY DEF IInv, LoopInv
<1>3. ASSUME NEW d \in Drafts, answer'[d] = "asked"
      PROVE  /\ answer[d] = "asked" /\ future'[d] = future[d]
             /\ at[l] = "asked" => call[l] # d
  <2>1. CASE UNCHANGED gvars
    BY <1>1, <1>3, <2>1 DEF gvars, Drops
  <2>2. CASE at[l] = "asked" /\ Drops({call[l]})
    BY <1>2, <1>3, <2>2 DEF Drops
  <2>3. QED
    BY <1>1, <2>1, <2>2
<1>4. ASSUME NEW d \in Drafts, answer'[d] = "asked"
      PROVE  /\ up' /\ future'[d] \in {"open", "allow", "reject"}
             /\ \E k \in Loops : at'[k] = "asked" /\ call'[k] = d
  <2>1. answer[d] = "asked" /\ up /\ future[d] \in {"open", "allow", "reject"}
    BY <1>3, <1>4 DEF EndInv
  <2>2. PICK k \in Loops : at[k] = "asked" /\ call[k] = d
    BY <2>1 DEF EndInv
  <2>3. k # l
    BY <1>3, <1>4, <2>2
  <2>4. QED
    BY <1>1, <1>3, <1>4, <2>1, <2>2, <2>3 DEF After, Others
<1>5. up /\ up'
  BY <1>1 DEF EndInv, InNode
<1>6. AttemptsBounded'
  <2>1. ASSUME NEW m \in Loops, at'[m] \in InNode
        PROVE  attempts'[m] <= retries[node'[m]]
    <3>1. CASE m = l
      <4>1. /\ node'[l] = node[l] /\ attempts[l] < retries[node[l]]
            /\ attempts'[l] = attempts[l] + 1
        BY <1>1, <2>1, <3>1 DEF After, InNode
      <4>2. attempts[l] \in Nat /\ retries[node[l]] \in Nat
        BY <1>1, WorkflowAssumption DEF IInv, Rest, LoopInv, InNode
      <4>3. QED
        BY <3>1, <4>1, <4>2
    <3>2. CASE m # l
      BY <1>1, <2>1, <3>2 DEF After, Others, EndInv, AttemptsBounded
    <3>3. QED
      BY <3>1, <3>2
  <2>2. QED
    BY <2>1 DEF AttemptsBounded
<1>7. RefusedNeverRuns'
  BY <1>1 DEF EndInv, RefusedNeverRuns, Answers, Final
<1>8. QED
  BY <1>4, <1>5, <1>6, <1>7 DEF EndInv

\* Steps that leave the gate, and the calls, as they are.
LEMMA CallsStay ==
  ASSUME IInv, EndInv, UNCHANGED <<gvars, call, ran, up>>,
         \A l \in Loops : at[l] = "asked" => at'[l] = "asked",
         ~up => at' = at, AttemptsBounded'
  PROVE  EndInv'
<1>1. ASSUME NEW d \in Drafts, answer'[d] = "asked"
      PROVE  /\ up' /\ future'[d] \in {"open", "allow", "reject"}
             /\ \E k \in Loops : at'[k] = "asked" /\ call'[k] = d
  BY <1>1 DEF EndInv, gvars
<1>2. ~up' => \A l \in Loops : at'[l] = "idle"
  BY DEF EndInv
<1>3. RefusedNeverRuns'
  BY DEF EndInv, RefusedNeverRuns, gvars
<1>4. QED
  BY <1>1, <1>2, <1>3 DEF EndInv

\* The loop's head, a fork, and a request to resume.
LEMMA HeadKeeps ==
  ASSUME IInv, EndInv, NEW l \in Loops,
         Stops(l) \/ Begins(l) \/ Forks(l) \/ Resume(l)
  PROVE  EndInv'
<1>1. CASE Stops(l)
  <2>1. After(l) /\ at[l] = "head" /\ at'[l] = "idle" /\ UNCHANGED <<gvars, call, ran, up>>
    BY <1>1, ReturnsAfter, ReturnsTypes DEF IInv, Stops, world
  <2>2. AttemptsBounded'
    BY <2>1 DEF EndInv, AttemptsBounded, After, Others, InNode
  <2>3. \A m \in Loops : at[m] = "asked" => at'[m] = "asked"
    BY <2>1 DEF After, Others
  <2>4. QED
    BY <2>1, <2>2, <2>3, CallsStay DEF EndInv
<1>2. CASE Begins(l)
  <2>1. /\ at[l] = "head" /\ Goes(l, "node") /\ node' = node
        /\ attempts' = [attempts EXCEPT ![l] = 0] /\ node[l] # End
        /\ UNCHANGED <<gvars, call, ran, up>>
    BY <1>2 DEF Begins, world
  <2>2. /\ at'[l] = "node" /\ attempts'[l] = 0 /\ node'[l] \in Nodes
        /\ \A m \in Loops \ {l} : at'[m] = at[m] /\ attempts'[m] = attempts[m]
    BY <2>1, GoesTypes DEF IInv, Rest, Goes
  <2>3. AttemptsBounded'
    <3>1. retries[node'[l]] \in Nat
      BY <2>2, WorkflowAssumption
    <3>2. QED
      BY <2>1, <2>2, <3>1 DEF EndInv, AttemptsBounded
  <2>4. \A m \in Loops : at[m] = "asked" => at'[m] = "asked"
    BY <2>1, <2>2
  <2>5. QED
    BY <2>1, <2>3, <2>4, CallsStay DEF EndInv
<1>3. CASE Resume(l)
  <2>1. /\ Others(l) /\ at[l] = "idle" /\ at'[l] = "head" /\ up
        /\ UNCHANGED <<gvars, call, ran, up>>
    BY <1>3, Resumes DEF IInv
  <2>2. AttemptsBounded'
    BY <2>1 DEF EndInv, AttemptsBounded, Others, InNode
  <2>3. \A m \in Loops : at[m] = "asked" => at'[m] = "asked"
    BY <2>1 DEF Others
  <2>4. QED
    BY <2>1, <2>2, <2>3, CallsStay DEF EndInv
<1>4. CASE Forks(l)
  <2>1. /\ at[l] = "node" /\ Goes(l, "forking")
        /\ UNCHANGED <<gvars, node, attempts, call, ran, up>>
    BY <1>4 DEF Forks, place, world
  <2>2. at'[l] = "forking" /\ \A m \in Loops \ {l} : at'[m] = at[m]
    BY <2>1 DEF IInv, Rest, Goes
  <2>3. AttemptsBounded'
    BY <2>1, <2>2 DEF EndInv, AttemptsBounded, InNode
  <2>4. \A m \in Loops : at[m] = "asked" => at'[m] = "asked"
    BY <2>1, <2>2
  <2>5. QED
    BY <2>1, <2>3, <2>4, CallsStay DEF EndInv
<1>5. QED
  BY <1>1, <1>2, <1>3, <1>4

\* A new call has its taker, and the calls that wait keep theirs.
LEMMA AsksGateKeeps ==
  ASSUME IInv, EndInv, Answers, NEW l \in Loops, AsksGate(l)
  PROVE  EndInv'
<1> DEFINE d == unused
<1>1. d \in Drafts /\ record[d] = "none"
  BY DEF AsksGate, unused
<1> HIDE DEF d
<1>2. /\ at[l] = "node" /\ Goes(l, "asked") /\ Ask(d)
      /\ call' = [call EXCEPT ![l] = d]
      /\ UNCHANGED <<node, attempts, ran, up>>
  BY DEF AsksGate, d, place, world
<1>3. /\ at'[l] = "asked" /\ call'[l] = d
      /\ \A m \in Loops \ {l} : at'[m] = at[m] /\ call'[m] = call[m]
  BY <1>2 DEF IInv, Rest, Goes
<1>4. up
  BY <1>2 DEF EndInv
<1>5. ASSUME NEW c \in Drafts, answer'[c] = "asked"
      PROVE  /\ future'[c] \in {"open", "allow", "reject"}
             /\ \E k \in Loops : at'[k] = "asked" /\ call'[k] = c
  <2>1. CASE c = d
    BY <1>1, <1>2, <1>3, <2>1 DEF IInv, GInv, GTypeOK, Ask
  <2>2. CASE c # d
    <3>1. answer[c] = "asked" /\ future'[c] = future[c]
      BY <1>2, <1>5, <2>2 DEF IInv, GInv, GTypeOK, Ask
    <3>2. PICK k \in Loops : at[k] = "asked" /\ call[k] = c
      BY <3>1 DEF EndInv
    <3>3. k # l
      BY <1>2, <3>2
    <3>4. QED
      BY <1>3, <3>1, <3>2, <3>3 DEF EndInv
  <2>3. QED
    BY <2>1, <2>2
<1>6. AttemptsBounded'
  BY <1>2, <1>3 DEF EndInv, AttemptsBounded, InNode
<1>7. RefusedNeverRuns'
  BY <1>2 DEF EndInv, RefusedNeverRuns, Answers, Final
<1>8. QED
  BY <1>2, <1>4, <1>5, <1>6, <1>7 DEF EndInv

\* A tool that runs has an answer that lets it.
LEMMA CallsToolKeeps ==
  ASSUME IInv, EndInv, NEW l \in Loops, CallsTool(l)
  PROVE  EndInv'
<1>1. /\ at[l] = "asked" /\ answer[call[l]] = "allow" /\ Goes(l, "acting")
      /\ ran' = [ran EXCEPT ![call[l]] = @ + 1]
      /\ UNCHANGED <<gvars, call, node, attempts, up>>
  BY DEF CallsTool, place, world
<1>2. at'[l] = "acting" /\ \A m \in Loops \ {l} : at'[m] = at[m]
  BY <1>1 DEF IInv, Rest, Goes
<1>3. up
  BY <1>1 DEF EndInv
<1>4. ASSUME NEW d \in Drafts, answer'[d] = "asked"
      PROVE  /\ future'[d] \in {"open", "allow", "reject"}
             /\ \E k \in Loops : at'[k] = "asked" /\ call'[k] = d
  <2>1. answer[d] = "asked" /\ future'[d] = future[d] /\ call' = call
    BY <1>1, <1>4 DEF gvars
  <2>2. PICK k \in Loops : at[k] = "asked" /\ call[k] = d
    BY <2>1 DEF EndInv
  <2>3. k # l
    BY <1>1, <2>1, <2>2
  <2>4. QED
    BY <1>2, <2>1, <2>2, <2>3 DEF EndInv
<1>5. AttemptsBounded'
  BY <1>1, <1>2 DEF EndInv, AttemptsBounded, InNode
<1>6. RefusedNeverRuns'
  <2>1. \A d \in Drafts : d # call[l] => ran'[d] = ran[d]
    BY <1>1 DEF IInv, Rest
  <2>2. answer' = answer
    BY <1>1 DEF gvars
  <2>3. QED
    BY <1>1, <2>1, <2>2 DEF EndInv, RefusedNeverRuns
<1>7. QED
  BY <1>1, <1>3, <1>4, <1>5, <1>6 DEF EndInv

\* The gate alone moves: the call has its answer, or a human decides.
LEMMA GateKeeps ==
  ASSUME IInv, EndInv, Answers, UNCHANGED wvars,
         \A d \in Drafts :
           answer'[d] = "asked" =>
             answer[d] = "asked" /\ future'[d] \in {future[d], "allow", "reject"}
  PROVE  EndInv'
<1>1. UNCHANGED <<at, node, attempts, call, ran, up>>
  BY DEF wvars
<1>2. ASSUME NEW d \in Drafts, answer'[d] = "asked"
      PROVE  /\ up' /\ future'[d] \in {"open", "allow", "reject"}
             /\ \E k \in Loops : at'[k] = "asked" /\ call'[k] = d
  BY <1>1, <1>2 DEF EndInv
<1>3. AttemptsBounded' /\ (~up' => \A l \in Loops : at'[l] = "idle")
  BY <1>1 DEF EndInv, AttemptsBounded
<1>4. RefusedNeverRuns'
  BY <1>1 DEF EndInv, RefusedNeverRuns, Answers, Final
<1>5. QED
  BY <1>2, <1>3, <1>4 DEF EndInv

\* An answer touches the future of no other call.
LEMMA AnsweredFuture ==
  ASSUME GInv, NEW d \in Drafts, Collect(d) \/ TimesOut(d), NEW c \in Drafts,
         answer'[c] = "asked"
  PROVE  answer[c] = "asked" /\ future'[c] = future[c]
BY DEF GInv, GTypeOK, Collect, TimesOut

\* A decision answers no call by itself and leaves no future unusable.
LEMMA DecidedFuture ==
  ASSUME GInv, NEW d \in Drafts, NEW s \in {"approved", "rejected"}, Decide(d, s),
         NEW c \in Drafts
  PROVE  answer'[c] = answer[c] /\ future'[c] \in {future[c], "allow", "reject"}
BY DEF GInv, GTypeOK, Decide, Sets, Verdict

\* Every step keeps EndInv.
LEMMA EndInvStep ==
  ASSUME IInv, EndInv, [Next]_vars
  PROVE  EndInv'
<1>1. Answers
  BY AnswersStep
<1>2. CASE UNCHANGED vars
  BY <1>2 DEF vars, gvars, wvars, EndInv, AttemptsBounded, RefusedNeverRuns
<1>3. ASSUME NEW l \in Loops, LoopStep(l) \/ GivesUp(l) \/ Resume(l)
      PROVE  EndInv'
  <2>1. CASE Answered(l)
    <3>1. /\ call[l] \in Drafts /\ (Collect(call[l]) \/ TimesOut(call[l]))
          /\ UNCHANGED wvars
      BY <2>1 DEF Answered, IInv, LoopInv
    <3>2. \A c \in Drafts : answer'[c] = "asked" =>
            answer[c] = "asked" /\ future'[c] = future[c]
      BY <3>1, AnsweredFuture DEF IInv
    <3>3. QED
      BY <1>1, <3>1, <3>2, GateKeeps
  <2>2. QED
    BY <1>1, <1>3, <2>1, NodeEndsKeeps, HeadKeeps, AsksGateKeeps, CallsToolKeeps
       DEF LoopStep
<1>4. ASSUME NEW d \in Drafts, Decision(d)
      PROVE  EndInv'
  <2>1. PICK s \in {"approved", "rejected"} : Decide(d, s)
    BY <1>4 DEF Decision
  <2>2. \A c \in Drafts :
          answer'[c] = answer[c] /\ future'[c] \in {future[c], "allow", "reject"}
    BY <2>1, DecidedFuture DEF IInv
  <2>3. QED
    BY <1>1, <1>4, <2>2, GateKeeps DEF Decision
<1>5. CASE GoDown
  <2>1. /\ Lost /\ at' = [l \in Loops |-> "idle"] /\ ran' = ran
    BY <1>5 DEF GoDown
  <2>2. \A d \in Drafts : answer'[d] # "asked"
    BY <2>1 DEF Lost
  <2>3. RefusedNeverRuns'
    BY <1>1, <2>1 DEF EndInv, RefusedNeverRuns, Answers, Final
  <2>4. QED
    BY <2>1, <2>2, <2>3 DEF EndInv, AttemptsBounded, InNode
<1>6. CASE ComeUp
  <2>1. up' /\ UNCHANGED <<gvars, at, node, attempts, call, ran>>
    BY <1>6 DEF ComeUp, place
  <2>2. AttemptsBounded' /\ RefusedNeverRuns'
    BY <2>1 DEF EndInv, AttemptsBounded, RefusedNeverRuns, gvars
  <2>3. QED
    BY <2>1, <2>2 DEF EndInv, gvars
<1>7. QED
  BY <1>2, <1>3, <1>4, <1>5, <1>6 DEF Next

\* It holds initially.
LEMMA EndInvInit == Init => EndInv
<1> SUFFICES ASSUME Init
             PROVE  EndInv
  OBVIOUS
<1>1. /\ \A l \in Loops : at[l] \in {"head", "idle"}
      /\ \A d \in Drafts : answer[d] = "none" /\ ran[d] = 0
      /\ up = TRUE
  BY DEF Init, GInit
<1>2. QED
  BY <1>1 DEF EndInv, AttemptsBounded, RefusedNeverRuns, InNode

\* Both invariants hold throughout, for any workflow, retries, loops, drafts and
\* restarts.
THEOREM EndInvariant == Spec => [](IInv /\ EndInv)
<1>1. EndInv /\ (IInv /\ [Next]_vars) => EndInv'
  BY EndInvStep
<1>2. QED
  BY <1>1, EndInvInit, Invariant, PTL DEF Spec

-----------------------------------------------------------------------------
(***************************************************************************)
(* Progress, step by step.                                                 *)
(***************************************************************************)
\* Execution m is not the one that moves.
Stays(m) ==
  UNCHANGED <<at[m], node[m], iterations[m], attempts[m], call[m]>>

\* Who stays where it is does not fall back within its attempt.
LEMMA SatKeeps ==
  ASSUME IInv, Answers, NEW m \in Loops, Stays(m)
  PROVE  Sat(m)' >= Sat(m)
<1>1. at'[m] = at[m] /\ call'[m] = call[m]
  BY DEF Stays
<1>2. CASE at[m] = "asked"
  <2>1. call[m] \in Drafts /\ record[call[m]] # "none"
    BY <1>2 DEF IInv, LoopInv
  <2>2. answer'[call[m]] = "asked" => answer[call[m]] = "asked"
    BY <2>1 DEF Answers
  <2>3. QED
    BY <1>1, <1>2, <2>2 DEF Sat
<1>3. CASE at[m] # "asked"
  BY <1>1, <1>3 DEF Sat
<1>4. QED
  BY <1>2, <1>3

\* The end of an attempt is progress.
LEMMA NodeEndsOn ==
  ASSUME IInv, NEW l \in Loops,
         \/ Works(l) \/ Review(l) \/ GateBreaks(l) \/ Denied(l) \/ ToolEnds(l)
         \/ GivesUp(l)
  PROVE  at'[l] = "idle" \/ Later(l)
<1>1. After(l) /\ at[l] # "head"
  BY NodeEnds DEF IInv, InNode
<1>2. iterations[l] \in 0..max_iterations /\ attempts[l] \in Nat
  BY DEF IInv, Rest
<1>3. QED
  BY <1>1, <1>2 DEF After, Later

\* So is every other step of an execution.
LEMMA LoopStepOn ==
  ASSUME IInv, NEW l \in Loops, LoopStep(l)
  PROVE  at'[l] = "idle" \/ Later(l)
<1>1. CASE Stops(l)
  BY <1>1, ReturnsTypes DEF Stops, IInv
<1>2. CASE Begins(l)
  <2>1. iterations'[l] = iterations[l] + 1 /\ iterations[l] \in Nat
    BY <1>2, WorkflowAssumption DEF Begins, IInv, Rest
  <2>2. QED
    BY <2>1 DEF Later
<1>3. CASE AsksGate(l)
  <2>1. at[l] = "node" /\ at'[l] = "asked" /\ UNCHANGED place
    BY <1>3, GoesTypes DEF AsksGate, IInv, Ats, InNode
  <2>2. Sat(l) = 0
    BY <2>1 DEF Sat
  <2>3. Sat(l)' \in {1, 2}
    BY <2>1 DEF Sat
  <2>4. QED
    BY <2>1, <2>2, <2>3 DEF Later, place
<1>4. CASE Answered(l)
  <2>1. /\ at[l] = "asked" /\ call[l] \in Drafts /\ UNCHANGED wvars
        /\ answer[call[l]] = "asked" /\ answer'[call[l]] # "asked"
    BY <1>4 DEF Answered, Collect, TimesOut, IInv, LoopInv, GInv, GTypeOK
  <2>2. Sat(l) = 1
    BY <2>1 DEF Sat
  <2>3. Sat(l)' = 2
    BY <2>1 DEF Sat, wvars
  <2>4. QED
    BY <2>1, <2>2, <2>3 DEF Later, wvars
<1>5. CASE CallsTool(l)
  <2>1. /\ at[l] = "asked" /\ answer[call[l]] = "allow" /\ at'[l] = "acting"
        /\ UNCHANGED place
    BY <1>5, GoesTypes DEF CallsTool, IInv, Ats, InNode
  <2>2. Sat(l) = 2
    BY <2>1 DEF Sat
  <2>3. Sat(l)' = 3
    BY <2>1 DEF Sat
  <2>4. QED
    BY <2>1, <2>2, <2>3 DEF Later, place
<1>6. CASE Forks(l)
  <2>1. at[l] = "node" /\ at'[l] = "forking" /\ UNCHANGED place
    BY <1>6, GoesTypes DEF Forks, IInv, Ats, InNode
  <2>2. Sat(l) = 0 /\ Sat(l)' = 3
    BY <2>1 DEF Sat
  <2>3. QED
    BY <2>1, <2>2 DEF Later, place
<1>7. QED
  BY <1>1, <1>2, <1>3, <1>4, <1>5, <1>6, NodeEndsOn DEF LoopStep

\* The others do not move.
LEMMA OthersStay ==
  ASSUME IInv, NEW l \in Loops, LoopStep(l) \/ GivesUp(l) \/ Resume(l),
         NEW m \in Loops, m # l
  PROVE  Stays(m)
<1>1. CASE Stops(l)
  BY <1>1, ReturnsAfter DEF Stops, After, Others, IInv, Stays
<1>2. CASE Begins(l)
  BY <1>2 DEF Begins, Goes, IInv, Rest, Stays
<1>3. CASE AsksGate(l)
  BY <1>3 DEF AsksGate, Goes, IInv, Rest, Stays, place
<1>4. CASE Answered(l)
  BY <1>4 DEF Answered, wvars, Stays
<1>5. CASE CallsTool(l)
  BY <1>5 DEF CallsTool, Goes, IInv, Rest, Stays, place
<1>6. CASE Resume(l)
  BY <1>6, Resumes DEF IInv, Others, Stays
<1>7. CASE \/ Works(l) \/ Review(l) \/ GateBreaks(l) \/ Denied(l) \/ ToolEnds(l)
           \/ GivesUp(l)
  <2>1. Others(l) /\ (call' = call \/ call' = Forgets(l))
    BY <1>7, NodeEnds DEF IInv, After
  <2>2. call'[m] = call[m]
    BY <2>1 DEF IInv, Rest, Forgets
  <2>3. QED
    BY <2>1, <2>2 DEF Others, Stays
<1>8. CASE Forks(l)
  BY <1>8 DEF Forks, Goes, IInv, Rest, Stays, place
<1>9. QED
  BY <1>1, <1>2, <1>3, <1>4, <1>5, <1>6, <1>7, <1>8 DEF LoopStep

\* No step of anybody sets a running execution back.
LEMMA NeverBack ==
  ASSUME IInv, [Next]_vars, NEW m \in Loops, at[m] # "idle"
  PROVE  at'[m] = "idle" \/ Later(m) \/ (Stays(m) /\ Sat(m)' >= Sat(m))
<1>1. Stays(m) => Sat(m)' >= Sat(m)
  BY AnswersStep, SatKeeps
<1>2. CASE UNCHANGED vars
  BY <1>1, <1>2 DEF vars, wvars, Stays
<1>3. ASSUME NEW l \in Loops, LoopStep(l) \/ GivesUp(l) \/ Resume(l)
      PROVE  at'[m] = "idle" \/ Later(m) \/ Stays(m)
  <2>1. CASE m = l
    BY <1>3, <2>1, LoopStepOn, NodeEndsOn, Resumes DEF IInv
  <2>2. CASE m # l
    BY <1>3, <2>2, OthersStay
  <2>3. QED
    BY <2>1, <2>2
<1>4. ASSUME NEW d \in Drafts, Decision(d)
      PROVE  Stays(m)
  BY <1>4 DEF Decision, wvars, Stays
<1>5. CASE GoDown
  BY <1>5 DEF GoDown
<1>6. CASE ComeUp
  BY <1>1, <1>6 DEF ComeUp, place, Stays
<1>7. QED
  BY <1>1, <1>2, <1>3, <1>4, <1>5, <1>6 DEF Next

-----------------------------------------------------------------------------
\* Nobody waits for a human in vain.
THEOREM NobodyWaitsInVain == Spec => []CallsHaveTakers
<1>1. IInv /\ EndInv => CallsHaveTakers
  <2> SUFFICES ASSUME IInv, EndInv, NEW d \in Drafts, answer[d] = "asked"
               PROVE  /\ up /\ future[d] \in {"open", "allow", "reject"}
                      /\ \E l \in Loops :
                           /\ at[l] = "asked" /\ call[l] = d
                           /\ \A k \in Loops : at[k] = "asked" /\ call[k] = d => k = l
    BY DEF CallsHaveTakers
  <2>1. PICK l \in Loops : at[l] = "asked" /\ call[l] = d
    BY DEF EndInv
  <2>2. \A k \in Loops : at[k] = "asked" /\ call[k] = d => k = l
    BY <2>1 DEF IInv, CallInv
  <2>3. QED
    BY <2>1, <2>2 DEF EndInv
<1>2. QED
  BY <1>1, EndInvariant, PTL

\* No answer is taken back.
THEOREM NoAnswerTakenBack == Spec => AnswersAreFinal
<1>1. IInv /\ [Next]_vars
        => [\A d \in Drafts : answer[d] \in Final => answer'[d] = answer[d]]_vars
  BY AnswersStep DEF Answers
<1>2. QED
  BY <1>1, Invariant, PTL DEF Spec, AnswersAreFinal

\* What was refused, timed out or dropped has not run and does not run.
THEOREM NoRefusedToolRuns == Spec => []RefusedNeverRuns
<1>1. IInv /\ EndInv => RefusedNeverRuns
  BY DEF EndInv
<1>2. QED
  BY <1>1, EndInvariant, PTL

\* Retries are bounded.
THEOREM RetriesAreBounded == Spec => []AttemptsBounded
<1>1. IInv /\ EndInv => AttemptsBounded
  BY DEF EndInv
<1>2. QED
  BY <1>1, EndInvariant, PTL

\* Each step of an execution is a step towards its end.
THEOREM EveryStepCounts == Spec => LoopsMoveOn
<1>1. IInv /\ [Next]_vars
        => [\A l \in Loops : LoopStep(l) => at'[l] = "idle" \/ Later(l)]_vars
  BY LoopStepOn
<1>2. QED
  BY <1>1, Invariant, PTL DEF Spec, LoopsMoveOn

\* And none of anybody's is one back.
THEOREM NobodySetBack == Spec => LoopsNeverBack
<1>1. IInv /\ [Next]_vars
        => [\A l \in Loops : at[l] # "idle" =>
              \/ at'[l] = "idle" \/ Later(l)
              \/ /\ UNCHANGED <<at[l], node[l], iterations[l], attempts[l], call[l]>>
                 /\ Sat(l)' >= Sat(l)]_vars
  BY NeverBack DEF Stays
<1>2. QED
  BY <1>1, Invariant, PTL DEF Spec, LoopsNeverBack
=============================================================================
