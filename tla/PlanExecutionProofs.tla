------------------------- MODULE PlanExecutionProofs -------------------------
(***************************************************************************)
(* PlanExecution, for any plan and any number of executions, edits and     *)
(* mishaps: the lease is implemented, dependencies and the final status    *)
(* are right, and no edit is lost unless a lease was overtaken.            *)
(***************************************************************************)
EXTENDS PlanExecution, TLAPS

LP == INSTANCE LeaseProofs WITH Workers <- Executions,
                                Name <- [e \in Executions |-> e]

At(e, S) == phase[e] \in S

\* TypeOK without the lease; who works under the lease.
Rest ==
  /\ file \in Plans \cup {NoFile}
  /\ phase \in [Executions -> Phases] /\ plan \in [Executions -> Plans]
  /\ past \in [Executions -> SUBSET Nodes]
  /\ queued \in [Executions -> SUBSET Nodes]
  /\ running \in [Executions -> SUBSET Nodes]
  /\ committed \subseteq Executions
  /\ stale \subseteq Executions /\ lapsed \in BOOLEAN /\ mishaps \in 0..MaxMishaps
  /\ working = { e \in Executions : At(e, {"reserved", "between", "layer", "leaving"}) }

\* Nodes of the layer that are not over yet.
Open(e) == queued[e] \cup running[e]

\* The layers an execution has been through are over and their nodes settled;
\* nodes of one layer do not depend on each other, and what is open has all
\* its dependencies done.
LayerInv(e) ==
  /\ Open(e) \subseteq past[e]
  /\ Open(e) # {} => At(e, {"layer"})
  /\ \A n \in past[e] \ Open(e) : Status(e, n) \in {"done", "error", "skipped"}
  /\ \A n \in Open(e) : \A d \in depends_on[n] :
       d \notin Open(e) /\ Status(e, d) = "done"

\* What an execution's copy says of the plan as a whole.
CopyInv(e) ==
  /\ At(e, {"new", "reserved", "ended"}) => plan[e] = Blank /\ past[e] = {}
  /\ At(e, {"between", "layer"}) => plan[e].status = "running"
  /\ At(e, {"between", "layer"}) /\ e \notin stale
       /\ (\E n \in Nodes : Status(e, n) = "skipped")
     => \E m \in past[e] \ Open(e) : Status(e, m) = "error"
  /\ At(e, {"leaving"}) /\ plan[e].status = "done" =>
       \A n \in Nodes : \/ Status(e, n) = "done"
                        \/ Status(e, n) = "skipped" /\ e \in stale

ExecInv(e) == LayerInv(e) /\ CopyInv(e)

\* As long as no lease was overtaken, one execution works, and the file is
\* closed to edits and as new as its copy.
FileInv ==
  ~lapsed =>
    /\ \A e, f \in working : e = f
    /\ \A e \in Executions : At(e, {"between", "layer"}) /\ file # NoFile =>
         file.status = "running" /\ file.edit = plan[e].edit

IInv == Rest /\ LP!LInv /\ (\A e \in Executions : ExecInv(e)) /\ FileInv

-----------------------------------------------------------------------------
\* What EditKept says of one step.
EditStep ==
  file # NoFile /\ file' # NoFile /\ file'.edit < file.edit => lapsed

\* What every step of the system does.
Sound ==
  /\ [L!LNext]_(L!lvars) /\ Rest'
  /\ (\A e \in Executions : ExecInv(e)') /\ FileInv' /\ EditStep

\* Nothing that ExecInv looks at changes.
Same(f) ==
  /\ phase'[f] = phase[f] /\ plan'[f] = plan[f] /\ past'[f] = past[f]
  /\ queued'[f] = queued[f] /\ running'[f] = running[f]
  /\ f \in stale' <=> f \in stale
  /\ f \in committed' <=> f \in committed

\* An execution nothing has touched keeps its part of the invariant.
LEMMA SameKeeps ==
  ASSUME NEW f \in Executions, ExecInv(f), Same(f)
  PROVE  ExecInv(f)'
BY DEF ExecInv, LayerInv, CopyInv, Same, Open, Status, At

\* A plan in the file, or in a working copy, is a plan.
LEMMA FileTypes ==
  ASSUME Rest
  PROVE  /\ file # NoFile => file \in Plans /\ file.edit \in 0..MaxEdits
         /\ \A e \in Executions : plan[e] \in Plans /\ plan[e].edit \in 0..MaxEdits
<1>1. \A x \in Plans : x.edit \in 0..MaxEdits
  BY DEF Plans
<1>2. QED
  BY <1>1 DEF Rest

\* A step of one execution that writes p.
LEMMA SaveKeeps ==
  ASSUME IInv, NEW e \in Executions, NEW p \in Plans, Saved(e, p),
         e \in working, working' = working, lapsed' = lapsed,
         \A f \in Executions \ {e} : phase'[f] = phase[f],
         At(e, {"between", "layer"})' => p.status = "running",
         ~lapsed /\ file # NoFile => p.edit = file.edit
  PROVE  /\ file' \in Plans \cup {NoFile} /\ plan' \in [Executions -> Plans]
         /\ plan'[e] = p /\ (\A f \in Executions \ {e} : plan'[f] = plan[f])
         /\ FileInv' /\ EditStep
<1>1. /\ file' = p /\ plan' \in [Executions -> Plans]
      /\ plan'[e] = p /\ (\A f \in Executions \ {e} : plan'[f] = plan[f])
  BY DEF Saved, IInv, Rest
<1>2. ASSUME ~lapsed, NEW f \in Executions, At(f, {"between", "layer"})'
      PROVE  f = e
  <2>1. CASE f # e
    <3>1. f \in working
      BY <1>2, <2>1 DEF At, IInv, Rest
    <3>2. QED
      BY <1>2, <3>1 DEF IInv, FileInv
  <2>2. QED
    BY <2>1
<1>3. FileInv'
  BY <1>1, <1>2 DEF FileInv, IInv
<1>4. EditStep
  BY <1>1, FileTypes DEF EditStep, IInv
<1>5. QED
  BY <1>1, <1>3, <1>4

\* A step that writes nothing and lets nobody begin.
LEMMA NoSave ==
  ASSUME IInv, file' = file, working' \subseteq working, lapsed' = lapsed,
         \A f \in Executions : At(f, {"between", "layer"})' =>
           At(f, {"between", "layer"}) /\ plan'[f].edit = plan[f].edit
  PROVE  FileInv' /\ EditStep
<1>1. FileInv'
  BY DEF IInv, FileInv
<1>2. EditStep
  BY FileTypes DEF EditStep, IInv
<1>3. QED
  BY <1>1, <1>2

\* A copy in which one node has changed.
LEMMA WithOne ==
  ASSUME Rest, NEW e \in Executions, NEW n \in Nodes, NEW s \in NodeStates
  PROVE  /\ With(e, n, s) \in Plans
         /\ With(e, n, s).status = plan[e].status
         /\ With(e, n, s).edit = plan[e].edit
         /\ With(e, n, s).nodes[n] = s
         /\ \A m \in Nodes \ {n} : With(e, n, s).nodes[m] = Status(e, m)
<1>1. plan[e] \in [status : PlanStates, nodes : [Nodes -> NodeStates], edit : 0..MaxEdits]
  BY DEF Rest, Plans
<1>2. QED
  BY <1>1 DEF With, Plans, Status

\* The phases of an execution that works, when one of them becomes another.
LEMMA PhaseMoves ==
  ASSUME Rest, NEW e \in Executions, NEW w \in Phases, Goes(e, w),
         At(e, {"reserved", "between", "layer", "leaving"}),
         w \in {"reserved", "between", "layer", "leaving"}, working' = working
  PROVE  /\ phase' \in [Executions -> Phases] /\ phase'[e] = w
         /\ \A f \in Executions \ {e} : phase'[f] = phase[f]
         /\ e \in working
         /\ working' = { f \in Executions :
              At(f, {"reserved", "between", "layer", "leaving"}) }'
BY DEF Rest, Goes, At

\* The parts of a step.
LEMMA StepParts ==
  ASSUME IInv, NEW e \in Executions, [L!LNext]_(L!lvars), Rest',
         \A f \in Executions \ {e} : Same(f), ExecInv(e)', FileInv', EditStep
  PROVE  Sound
BY SameKeeps DEF IInv, Sound

-----------------------------------------------------------------------------
(***************************************************************************)
(* The lease.                                                              *)
(***************************************************************************)
LEMMA ExecuteStep ==
  ASSUME IInv, NEW e \in Executions, Execute(e)
  PROVE  Sound
<1>1. /\ phase[e] = "new" /\ L!LAcquire(e) /\ Goes(e, "reserved")
      /\ lapsed' = (lapsed \/ working # {})
      /\ UNCHANGED <<file, plan, layers, stale, mishaps>>
  BY DEF Execute
<1>2. /\ phase' \in [Executions -> Phases] /\ phase'[e] = "reserved"
      /\ \A f \in Executions \ {e} : phase'[f] = phase[f]
  BY <1>1 DEF IInv, Rest, Goes, Phases
<1>3. working' = working \cup {e}
  BY <1>1 DEF L!LAcquire
<1>4. Rest'
  BY <1>1, <1>2, <1>3 DEF IInv, Rest, layers, At
<1>5. \A f \in Executions \ {e} : Same(f)
  BY <1>1, <1>2 DEF Same, layers
<1>6. ExecInv(e)'
  <2>1. ExecInv(e) /\ plan' = plan /\ past' = past /\ queued' = queued /\ running' = running
    BY <1>1 DEF IInv, layers
  <2>2. QED
    BY <1>1, <1>2, <2>1 DEF ExecInv, LayerInv, CopyInv, Open, Status, At
<1>7. FileInv'
  <2> SUFFICES ASSUME ~lapsed'
               PROVE  /\ \A g, f \in working' : g = f
                      /\ \A f \in Executions : ~At(f, {"between", "layer"})'
    BY DEF FileInv
  <2>1. working = {} /\ ~lapsed
    BY <1>1
  <2>2. ASSUME NEW f \in Executions, At(f, {"between", "layer"})'
        PROVE  FALSE
    BY <1>2, <2>1, <2>2 DEF At, IInv, Rest
  <2>3. QED
    BY <1>3, <2>1, <2>2
<1>8. EditStep
  BY <1>1, FileTypes DEF EditStep, IInv
<1>9. QED
  BY <1>1, <1>4, <1>5, <1>6, <1>7, <1>8, StepParts DEF L!LNext

\* A heartbeat or the expiry of the lease touches nothing but the lease.
LEMMA LeaseOnlyStep ==
  ASSUME IInv, Expire \/ \E e \in Executions : Beat(e)
  PROVE  Sound
<1>1. /\ UNCHANGED <<file, phase, plan, layers, stale, history>>
      /\ working' = working /\ L!LNext
  BY DEF Expire, Beat, L!LExpire, L!LBeat, L!LNext
<1>2. Rest'
  BY <1>1 DEF IInv, Rest, layers, history, At
<1>3. \A f \in Executions : ExecInv(f)'
  BY <1>1, SameKeeps DEF IInv, Same, layers
<1>4. FileInv' /\ EditStep
  BY <1>1, NoSave DEF history, At
<1>5. QED
  BY <1>1, <1>2, <1>3, <1>4 DEF Sound

\* A new plan is a draft with all its nodes pending.
LEMMA BlankIsPlan == Blank \in Plans /\ Blank.status = "draft"
  /\ \A n \in Nodes : Blank.nodes[n] = "pending"
BY PlanAssumption DEF Blank, Plans, AllPending, PlanStates, NodeStates

\* An execution gives its lease back.
LEMMA LeaveStep ==
  ASSUME IInv, NEW e \in Executions, Leave(e)
  PROVE  Sound
<1>1. /\ phase[e] = "leaving" /\ L!LRelease(e) /\ Goes(e, "ended")
      /\ Forgets({e}) /\ UNCHANGED <<file, queued, running, history>>
  BY DEF Leave
<1>2. /\ phase' \in [Executions -> Phases] /\ phase'[e] = "ended"
      /\ \A f \in Executions \ {e} : phase'[f] = phase[f]
  BY <1>1 DEF IInv, Rest, Goes, Phases
<1>3. working' = working \ {e}
  BY <1>1 DEF L!LRelease
<1>4. /\ plan' \in [Executions -> Plans] /\ past' \in [Executions -> SUBSET Nodes]
      /\ plan'[e] = Blank /\ past'[e] = {}
      /\ \A f \in Executions \ {e} : plan'[f] = plan[f] /\ past'[f] = past[f]
  BY <1>1, BlankIsPlan DEF Forgets, IInv, Rest
<1>5. Rest'
  BY <1>1, <1>2, <1>3, <1>4 DEF IInv, Rest, Forgets, history, At
<1>6. \A f \in Executions \ {e} : Same(f)
  BY <1>1, <1>2, <1>4 DEF Same, Forgets
<1>7. ExecInv(e)'
  <2>1. queued'[e] = {} /\ running'[e] = {}
    BY <1>1 DEF IInv, ExecInv, LayerInv, Open, At
  <2>2. QED
    BY <1>2, <1>4, <2>1 DEF ExecInv, LayerInv, CopyInv, Open, At
<1>8. FileInv' /\ EditStep
  <2>1. ASSUME NEW f \in Executions, At(f, {"between", "layer"})'
        PROVE  At(f, {"between", "layer"}) /\ plan'[f].edit = plan[f].edit
    BY <1>2, <1>4, <2>1 DEF At
  <2>2. QED
    BY <1>1, <1>3, <2>1, NoSave DEF history
<1>9. QED
  BY <1>1, <1>5, <1>6, <1>7, <1>8, StepParts DEF L!LNext

-----------------------------------------------------------------------------
(***************************************************************************)
(* One execution.                                                          *)
(***************************************************************************)
\* The lease is left alone.
LEMMA LeaseAlone ==
  ASSUME UNCHANGED leases
  PROVE  [L!LNext]_(L!lvars) /\ working' = working
BY DEF leases, L!lvars

\* An execution reads the plan and saves it as running.
LEMMA BeginStep ==
  ASSUME IInv, NEW e \in Executions, Begin(e)
  PROVE  Sound
<1>1. /\ phase[e] = "reserved" /\ UNCHANGED <<leases, layers, history>>
      /\ plan[e] = Blank /\ past[e] = {} /\ Open(e) = {}
  BY DEF Begin, IInv, ExecInv, LayerInv, CopyInv, At
<1>2. [L!LNext]_(L!lvars) /\ working' = working
  BY <1>1, LeaseAlone
<1>3. CASE file = NoFile /\ Goes(e, "leaving") /\ UNCHANGED <<file, plan, stale>>
  <2>1. /\ phase' \in [Executions -> Phases] /\ phase'[e] = "leaving"
        /\ \A f \in Executions \ {e} : phase'[f] = phase[f]
        /\ working' = { f \in Executions :
             At(f, {"reserved", "between", "layer", "leaving"}) }'
    BY <1>1, <1>2, <1>3, PhaseMoves DEF At, Phases, IInv
  <2>2. Rest'
    BY <1>1, <1>3, <2>1 DEF IInv, Rest, layers, history
  <2>3. \A f \in Executions \ {e} : Same(f)
    BY <1>1, <1>3, <2>1 DEF Same, layers
  <2>4. ExecInv(e)'
    BY <1>1, <1>3, <2>1, BlankIsPlan
       DEF ExecInv, LayerInv, CopyInv, Open, At, layers
  <2>5. FileInv' /\ EditStep
    BY <1>1, <1>2, <1>3, <2>1, NoSave DEF history, At
  <2>6. QED
    BY <1>2, <2>2, <2>3, <2>4, <2>5, StepParts
<1>4. CASE /\ file # NoFile /\ Goes(e, "between")
           /\ Saved(e, [file EXCEPT !.status = "running"])
           /\ stale' = IF \E n \in Nodes : file.nodes[n] = "skipped"
                         THEN stale \cup {e} ELSE stale
  <2> DEFINE q == [file EXCEPT !.status = "running"]
  <2>1. /\ q \in Plans /\ q.status = "running" /\ q.edit = file.edit
        /\ q.nodes = file.nodes
    BY <1>4 DEF IInv, Rest, Plans, PlanStates
  <2>2. /\ phase' \in [Executions -> Phases] /\ phase'[e] = "between"
        /\ (\A f \in Executions \ {e} : phase'[f] = phase[f]) /\ e \in working
        /\ working' = { f \in Executions :
             At(f, {"reserved", "between", "layer", "leaving"}) }'
    BY <1>1, <1>2, <1>4, PhaseMoves DEF At, Phases, IInv
  <2> HIDE DEF q
  <2>3. Saved(e, q) /\ lapsed' = lapsed
    BY <1>1, <1>4 DEF q, history
  <2>4. /\ file' \in Plans \cup {NoFile} /\ plan' \in [Executions -> Plans]
        /\ plan'[e] = q /\ (\A f \in Executions \ {e} : plan'[f] = plan[f])
        /\ FileInv' /\ EditStep
    BY <1>2, <2>1, <2>2, <2>3, SaveKeeps
  <2>5. Rest'
    BY <1>1, <1>4, <2>2, <2>4 DEF IInv, Rest, layers, history
  <2>6. \A f \in Executions \ {e} : Same(f)
    BY <1>1, <1>4, <2>2, <2>4 DEF Same, layers
  <2>7. ExecInv(e)'
    <3>1. past'[e] = {} /\ queued'[e] = {} /\ running'[e] = {}
      BY <1>1 DEF layers, Open
    <3>2. e \notin stale' => \A n \in Nodes : Status(e, n)' # "skipped"
      BY <1>4, <2>1, <2>4 DEF Status
    <3>3. QED
      BY <2>1, <2>2, <2>4, <3>1, <3>2 DEF ExecInv, LayerInv, CopyInv, Open, At
  <2>8. QED
    BY <1>2, <2>4, <2>5, <2>6, <2>7, StepParts
<1>5. QED
  BY <1>3, <1>4 DEF Begin

\* The next layer begins: nodes with a failed dependency are skipped.
LEMMA StartLayerStep ==
  ASSUME IInv, NEW e \in Executions, StartLayer(e)
  PROVE  Sound
<1> DEFINE skip == { n \in Layer(e) : has_failed_dependency(e, n) }
           now  == [plan[e] EXCEPT !.nodes =
                     [n \in Nodes |-> IF n \in skip THEN "skipped" ELSE @[n]]]
           to   == IF Layer(e) = skip THEN "between" ELSE "layer"
<1>1. /\ phase[e] = "between" /\ UNCHANGED <<leases, running, committed, stale, history>>
      /\ IF skip = {} THEN UNCHANGED <<plan, file>> ELSE Saved(e, now)
      /\ queued' = [queued EXCEPT ![e] = Layer(e) \ skip] /\ Goes(e, to)
      /\ past' = [past EXCEPT ![e] = @ \cup Layer(e)]
  BY DEF StartLayer
<1>2. [L!LNext]_(L!lvars) /\ working' = working
  BY <1>1, LeaseAlone
<1>3. /\ now \in Plans /\ now.status = plan[e].status /\ now.edit = plan[e].edit
      /\ \A n \in Nodes : now.nodes[n] = IF n \in skip THEN "skipped" ELSE Status(e, n)
  <2>1. plan[e] \in [status : PlanStates, nodes : [Nodes -> NodeStates], edit : 0..MaxEdits]
    BY DEF IInv, Rest, Plans
  <2>2. "skipped" \in NodeStates
    BY DEF NodeStates
  <2> HIDE DEF skip
  <2>3. QED
    BY <2>1, <2>2 DEF Plans, Status
<1> HIDE DEF now
<1>4. /\ phase' \in [Executions -> Phases] /\ phase'[e] = to
      /\ (\A f \in Executions \ {e} : phase'[f] = phase[f]) /\ e \in working
      /\ working' = { f \in Executions :
           At(f, {"reserved", "between", "layer", "leaving"}) }'
  <2>1. to \in Phases /\ to \in {"reserved", "between", "layer", "leaving"}
    BY DEF Phases
  <2> HIDE DEF to
  <2>2. QED
    BY <1>1, <1>2, <2>1, PhaseMoves DEF At, IInv
<1>5. Open(e) = {} /\ plan[e].status = "running"
  BY <1>1 DEF IInv, ExecInv, LayerInv, CopyInv, At
<1>6. ~lapsed /\ file # NoFile => plan[e].edit = file.edit
  BY <1>1 DEF IInv, FileInv, At
<1>7. /\ file' \in Plans \cup {NoFile} /\ plan' \in [Executions -> Plans]
      /\ plan'[e].status = "running"
      /\ \A n \in Nodes : Status(e, n)' = IF n \in skip THEN "skipped" ELSE Status(e, n)
      /\ (\A f \in Executions \ {e} : plan'[f] = plan[f])
      /\ FileInv' /\ EditStep
  <2>1. CASE skip = {}
    <3>1. UNCHANGED <<plan, file>>
      BY <1>1, <2>1
    <3>2. FileInv' /\ EditStep
      <4>1. ASSUME NEW f \in Executions, At(f, {"between", "layer"})'
            PROVE  At(f, {"between", "layer"})
        BY <1>1, <1>4, <4>1 DEF At
      <4>2. QED
        BY <1>1, <1>2, <3>1, <4>1, NoSave DEF history
    <3>3. QED
      BY <1>5, <2>1, <3>1, <3>2 DEF IInv, Rest, Status
  <2>2. CASE skip # {}
    <3>1. Saved(e, now) /\ lapsed' = lapsed
      BY <1>1, <2>2 DEF history
    <3>2. /\ file' \in Plans \cup {NoFile} /\ plan' \in [Executions -> Plans]
          /\ plan'[e] = now /\ (\A f \in Executions \ {e} : plan'[f] = plan[f])
          /\ FileInv' /\ EditStep
      BY <1>2, <1>3, <1>4, <1>5, <1>6, <3>1, SaveKeeps
    <3>3. QED
      BY <1>3, <1>5, <3>2 DEF Status
  <2>3. QED
    BY <2>1, <2>2
<1>8. /\ skip \subseteq Layer(e) /\ Layer(e) \subseteq Nodes /\ Layer(e) \cap past[e] = {}
      /\ \A n \in Layer(e) : depends_on[n] \subseteq past[e]
      /\ \A n \in Layer(e) \ skip : \A d \in depends_on[n] :
           Status(e, d) \notin {"error", "skipped"}
  BY DEF Layer, has_failed_dependency
<1>9. ASSUME NEW n \in skip
      PROVE  \E d \in past[e] : Status(e, d) \in {"error", "skipped"}
  BY DEF Layer, has_failed_dependency
<1> HIDE DEF skip
<1>10. /\ queued'[e] = Layer(e) \ skip /\ past'[e] = past[e] \cup Layer(e)
       /\ running'[e] = {} /\ past[e] \subseteq Nodes
       /\ past' \in [Executions -> SUBSET Nodes] /\ queued' \in [Executions -> SUBSET Nodes]
       /\ \A f \in Executions \ {e} : past'[f] = past[f] /\ queued'[f] = queued[f]
  BY <1>1, <1>5, <1>8 DEF IInv, Rest, Open
<1>11. Open(e)' = Layer(e) \ skip
  BY <1>10 DEF Open
<1>12. Rest'
  BY <1>1, <1>4, <1>7, <1>10 DEF IInv, Rest, history
<1>13. \A f \in Executions \ {e} : Same(f)
  BY <1>1, <1>4, <1>7, <1>10 DEF Same
<1>14. \A n \in past[e] : Status(e, n) \in {"done", "error", "skipped"}
  BY <1>5 DEF IInv, ExecInv, LayerInv
<1>15. LayerInv(e)'
  <2>1. Open(e)' # {} => At(e, {"layer"})'
    BY <1>4, <1>8, <1>11 DEF At
  <2>2. ASSUME NEW n \in past'[e], n \notin Open(e)'
        PROVE  Status(e, n)' \in {"done", "error", "skipped"}
    BY <1>7, <1>8, <1>10, <1>11, <1>14, <2>2
  <2>3. ASSUME NEW n \in Open(e)', NEW d \in depends_on[n]
        PROVE  d \notin Open(e)' /\ Status(e, d)' = "done"
    <3>1. /\ d \in past[e] /\ d \in Nodes /\ d \notin Layer(e)
          /\ Status(e, d) \notin {"error", "skipped"}
      BY <1>8, <1>10, <1>11
    <3>2. QED
      BY <1>7, <1>8, <1>11, <1>14, <3>1
  <2>4. QED
    BY <1>10, <1>11, <2>1, <2>2, <2>3 DEF LayerInv
<1>16. CopyInv(e)'
  <2>1. ASSUME e \notin stale', NEW n \in Nodes, Status(e, n)' = "skipped"
        PROVE  \E m \in past'[e] \ Open(e)' : Status(e, m)' = "error"
    <3>1. e \notin stale
      BY <1>1, <2>1
    <3>2. \E d \in Nodes : Status(e, d) \in {"error", "skipped"}
            /\ (Status(e, d) = "error" => d \in past[e])
      BY <1>7, <1>9, <1>10, <2>1
    <3>3. \E m \in past[e] : Status(e, m) = "error"
      BY <1>1, <1>5, <3>1, <3>2 DEF IInv, ExecInv, CopyInv, At
    <3>4. QED
      BY <1>7, <1>8, <1>10, <1>11, <3>3
  <2>2. phase'[e] \in {"between", "layer"}
    BY <1>4
  <2>3. QED
    BY <1>7, <2>1, <2>2 DEF CopyInv, At
<1>17. QED
  BY <1>2, <1>7, <1>12, <1>13, <1>15, <1>16, StepParts DEF ExecInv

\* A node that was open is settled, or goes from the queue to the running.
LEMMA NodeStep ==
  ASSUME IInv, NEW e \in Executions, NEW n \in Open(e), NEW s \in NodeStates,
         \/ Open(e)' = Open(e)
         \/ Open(e)' = Open(e) \ {n} /\ s \in {"done", "error"},
         Status(e, n)' = s,
         \A m \in Nodes \ {n} : Status(e, m)' = Status(e, m),
         s # "skipped",
         plan'[e].status = plan[e].status,
         past' = past, phase' = phase, stale' = stale
  PROVE  ExecInv(e)'
<1>1. /\ phase[e] = "layer" /\ n \in past[e] /\ past[e] \subseteq Nodes
      /\ Open(e) \subseteq past[e] /\ plan[e].status = "running"
  BY DEF IInv, Rest, ExecInv, LayerInv, CopyInv, At
<1>2. \A m \in Open(e) : \A d \in depends_on[m] :
        d \notin Open(e) /\ Status(e, d) = "done" /\ d \in Nodes
  BY <1>1, PlanAssumption DEF IInv, ExecInv, LayerInv
<1>3. LayerInv(e)'
  BY <1>1, <1>2 DEF IInv, ExecInv, LayerInv, At
<1>4. ASSUME e \notin stale, NEW k \in Nodes, Status(e, k)' = "skipped"
      PROVE  \E m \in past[e] \ Open(e)' : Status(e, m)' = "error"
  <2>1. Status(e, k) = "skipped"
    BY <1>4
  <2>2. PICK m \in past[e] \ Open(e) : Status(e, m) = "error"
    BY <1>1, <1>4, <2>1 DEF IInv, ExecInv, CopyInv, At
  <2>3. QED
    BY <1>1, <2>2
<1>5. CopyInv(e)'
  BY <1>1, <1>4 DEF CopyInv, At
<1>6. QED
  BY <1>3, <1>5 DEF ExecInv

\* What of a node's step does not depend on how it goes.
LEMMA NodeFrame ==
  ASSUME IInv, NEW e \in Executions, NEW n \in Open(e), NEW s \in NodeStates,
         \/ Saved(e, With(e, n, s)) /\ UNCHANGED mishaps
         \/ Unsaved(e, With(e, n, s)),
         UNCHANGED <<leases, phase, lapsed>>
  PROVE  /\ file' \in Plans \cup {NoFile} /\ plan' \in [Executions -> Plans]
         /\ plan'[e] = With(e, n, s)
         /\ \A f \in Executions \ {e} : plan'[f] = plan[f]
         /\ mishaps' \in 0..MaxMishaps /\ FileInv' /\ EditStep
<1>1. /\ phase[e] = "layer" /\ n \in Nodes /\ plan[e].status = "running"
      /\ working' = working /\ e \in working
  BY LeaseAlone DEF IInv, Rest, ExecInv, LayerInv, CopyInv, At
<1>2. /\ With(e, n, s) \in Plans /\ With(e, n, s).status = "running"
      /\ With(e, n, s).edit = plan[e].edit
  BY <1>1, WithOne DEF IInv
<1>3. ~lapsed /\ file # NoFile => With(e, n, s).edit = file.edit
  BY <1>1, <1>2 DEF IInv, FileInv, At
<1>4. CASE Saved(e, With(e, n, s)) /\ UNCHANGED mishaps
  <2>1. mishaps' \in 0..MaxMishaps
    BY <1>4 DEF IInv, Rest
  <2>2. QED
    BY <1>1, <1>2, <1>3, <1>4, <2>1, SaveKeeps
<1>5. CASE Unsaved(e, With(e, n, s))
  <2>1. /\ mishaps' \in 0..MaxMishaps /\ file' = file
        /\ plan' = [plan EXCEPT ![e] = With(e, n, s)]
    BY <1>5, PlanAssumption DEF Unsaved, Mishap, IInv, Rest
  <2>2. /\ plan' \in [Executions -> Plans] /\ plan'[e] = With(e, n, s)
        /\ \A f \in Executions \ {e} : plan'[f] = plan[f]
    BY <1>2, <2>1 DEF IInv, Rest
  <2>3. FileInv' /\ EditStep
    <3>1. \A f \in Executions : plan'[f].edit = plan[f].edit
      BY <1>2, <2>2
    <3>2. QED
      BY <1>1, <2>1, <3>1, NoSave DEF At
  <2>4. QED
    BY <2>1, <2>2, <2>3 DEF IInv, Rest
<1>6. QED
  BY <1>4, <1>5

\* A node gets a place in the semaphore.
LEMMA StartNodeStep ==
  ASSUME IInv, NEW e \in Executions, NEW n \in Nodes, StartNode(e, n)
  PROVE  Sound
<1>1. /\ n \in queued[e] /\ queued' = [queued EXCEPT ![e] = @ \ {n}]
      /\ UNCHANGED <<leases, phase, past, committed, stale, lapsed>>
  BY DEF StartNode
<1>2. [L!LNext]_(L!lvars) /\ working' = working
  BY <1>1, LeaseAlone
<1>3. /\ n \in Open(e)
      /\ queued' \in [Executions -> SUBSET Nodes] /\ queued'[e] = queued[e] \ {n}
      /\ \A f \in Executions \ {e} : queued'[f] = queued[f]
  BY <1>1 DEF IInv, Rest, Open
<1>4. {"running", "error"} \subseteq NodeStates
  BY DEF NodeStates
<1>5. CASE /\ Status(e, n) \in {"done", "skipped"}
           /\ UNCHANGED <<plan, file, running, mishaps>>
  <2>1. Rest'
    BY <1>1, <1>2, <1>3, <1>5 DEF IInv, Rest, At
  <2>2. \A f \in Executions \ {e} : Same(f)
    BY <1>1, <1>3, <1>5 DEF Same
  <2>3. ExecInv(e)'
    <3>1. Open(e)' \subseteq Open(e) /\ Open(e) \subseteq Open(e)' \cup {n}
      BY <1>3, <1>5 DEF Open
    <3>2. plan' = plan /\ past' = past /\ phase' = phase /\ stale' = stale
          /\ committed' = committed
      BY <1>1, <1>5
    <3>3. ExecInv(e)
      BY DEF IInv
    <3>4. LayerInv(e)'
      BY <1>5, <3>1, <3>2, <3>3 DEF ExecInv, LayerInv, Status, At
    <3>5. CopyInv(e)'
      BY <3>1, <3>2, <3>3 DEF ExecInv, CopyInv, Status, At
    <3>6. QED
      BY <3>4, <3>5 DEF ExecInv
  <2>4. FileInv' /\ EditStep
    BY <1>1, <1>2, <1>5, NoSave DEF At
  <2>5. QED
    BY <1>2, <2>1, <2>2, <2>3, <2>4, StepParts
<1>6. CASE /\ Status(e, n) \notin {"done", "skipped"}
           /\ Saved(e, With(e, n, "running")) /\ UNCHANGED mishaps
           /\ running' = [running EXCEPT ![e] = @ \cup {n}]
  <2>1. /\ file' \in Plans \cup {NoFile} /\ plan' \in [Executions -> Plans]
        /\ plan'[e] = With(e, n, "running")
        /\ \A f \in Executions \ {e} : plan'[f] = plan[f]
        /\ mishaps' \in 0..MaxMishaps /\ FileInv' /\ EditStep
    BY <1>1, <1>3, <1>4, <1>6, NodeFrame
  <2>2. /\ running' \in [Executions -> SUBSET Nodes]
        /\ running'[e] = running[e] \cup {n}
        /\ \A f \in Executions \ {e} : running'[f] = running[f]
    BY <1>6 DEF IInv, Rest
  <2>3. Rest'
    BY <1>1, <1>2, <1>3, <2>1, <2>2 DEF IInv, Rest, At
  <2>4. \A f \in Executions \ {e} : Same(f)
    BY <1>1, <1>3, <2>1, <2>2 DEF Same
  <2>5. ExecInv(e)'
    <3>1. Open(e)' = Open(e)
      BY <1>3, <2>2 DEF Open
    <3>2. /\ Status(e, n)' = "running" /\ plan'[e].status = plan[e].status
          /\ \A m \in Nodes \ {n} : Status(e, m)' = Status(e, m)
      BY <1>4, <2>1, WithOne DEF IInv, Status
    <3>3. QED
      BY <1>1, <1>3, <1>4, <3>1, <3>2, NodeStep
  <2>6. QED
    BY <1>2, <2>1, <2>3, <2>4, <2>5, StepParts
<1>7. CASE /\ Status(e, n) \notin {"done", "skipped"}
           /\ Unsaved(e, With(e, n, "error")) /\ UNCHANGED running
  <2>1. /\ file' \in Plans \cup {NoFile} /\ plan' \in [Executions -> Plans]
        /\ plan'[e] = With(e, n, "error")
        /\ \A f \in Executions \ {e} : plan'[f] = plan[f]
        /\ mishaps' \in 0..MaxMishaps /\ FileInv' /\ EditStep
    BY <1>1, <1>3, <1>4, <1>7, NodeFrame
  <2>2. Rest'
    BY <1>1, <1>2, <1>3, <1>7, <2>1 DEF IInv, Rest, At
  <2>3. \A f \in Executions \ {e} : Same(f)
    BY <1>1, <1>3, <1>7, <2>1 DEF Same
  <2>4. ExecInv(e)'
    <3>1. Open(e)' = Open(e) \/ Open(e)' = Open(e) \ {n}
      BY <1>3, <1>7 DEF Open
    <3>2. /\ Status(e, n)' = "error" /\ plan'[e].status = plan[e].status
          /\ \A m \in Nodes \ {n} : Status(e, m)' = Status(e, m)
      BY <1>4, <2>1, WithOne DEF IInv, Status
    <3>3. QED
      BY <1>1, <1>3, <1>4, <3>1, <3>2, NodeStep
  <2>5. QED
    BY <1>2, <2>1, <2>2, <2>3, <2>4, StepParts
<1>8. QED
  BY <1>5, <1>6, <1>7 DEF StartNode

\* A node ends, and the whole copy is saved.
LEMMA FinishNodeStep ==
  ASSUME IInv, NEW e \in Executions, NEW n \in Nodes, FinishNode(e, n)
  PROVE  Sound
<1>1. /\ n \in running[e] /\ running' = [running EXCEPT ![e] = @ \ {n}]
      /\ UNCHANGED <<leases, phase, past, queued, stale, lapsed>>
  BY DEF FinishNode
<1>2. PICK s \in {"done", "error"}, changed \in BOOLEAN :
        /\ \/ Saved(e, With(e, n, s)) /\ UNCHANGED mishaps
           \/ Unsaved(e, With(e, n, s))
        /\ committed' = IF changed THEN committed \cup {e} ELSE committed
  BY DEF FinishNode
<1>3. n \in Open(e) /\ s \in NodeStates
  BY <1>1 DEF Open, NodeStates
<1>4. [L!LNext]_(L!lvars) /\ working' = working
  BY <1>1, LeaseAlone
<1>5. /\ file' \in Plans \cup {NoFile} /\ plan' \in [Executions -> Plans]
      /\ plan'[e] = With(e, n, s)
      /\ \A f \in Executions \ {e} : plan'[f] = plan[f]
      /\ mishaps' \in 0..MaxMishaps /\ FileInv' /\ EditStep
  BY <1>1, <1>2, <1>3, NodeFrame
<1>6. /\ running' \in [Executions -> SUBSET Nodes]
      /\ running'[e] = running[e] \ {n}
      /\ \A f \in Executions \ {e} : running'[f] = running[f]
  BY <1>1 DEF IInv, Rest
<1>7. Rest'
  BY <1>1, <1>2, <1>4, <1>5, <1>6 DEF IInv, Rest, At
<1>8. \A f \in Executions \ {e} : Same(f)
  BY <1>1, <1>2, <1>5, <1>6 DEF Same
<1>9. ExecInv(e)'
  <2>1. Open(e)' = Open(e) \/ Open(e)' = Open(e) \ {n}
    BY <1>1, <1>6 DEF Open
  <2>2. /\ Status(e, n)' = s /\ plan'[e].status = plan[e].status
        /\ \A m \in Nodes \ {n} : Status(e, m)' = Status(e, m)
    BY <1>3, <1>5, WithOne DEF IInv, Status
  <2>3. QED
    BY <1>1, <1>3, <2>1, <2>2, NodeStep
<1>10. QED
  BY <1>4, <1>5, <1>7, <1>8, <1>9, StepParts

\* Between two phases of which neither has open nodes; the copy keeps its nodes.
LEMMA TurnKeepsLayers ==
  ASSUME IInv, NEW e \in Executions, Open(e) = {}, UNCHANGED layers,
         \A n \in Nodes : Status(e, n)' = Status(e, n)
  PROVE  LayerInv(e)'
<1>1. Open(e)' = {} /\ past'[e] = past[e] /\ past[e] \subseteq Nodes
  BY DEF layers, Open, IInv, Rest
<1>2. QED
  BY <1>1 DEF IInv, ExecInv, LayerInv

\* A layer whose nodes are all through ends.
LEMMA EndLayerStep ==
  ASSUME IInv, NEW e \in Executions, EndLayer(e)
  PROVE  Sound
<1>1. /\ phase[e] = "layer" /\ Open(e) = {} /\ Saved(e, plan[e])
      /\ Goes(e, "between") /\ UNCHANGED <<leases, layers, stale, history>>
      /\ plan[e].status = "running"
  BY DEF EndLayer, Open, IInv, ExecInv, CopyInv, At
<1>2. [L!LNext]_(L!lvars) /\ working' = working /\ lapsed' = lapsed
  BY <1>1, LeaseAlone DEF history
<1>3. /\ phase' \in [Executions -> Phases] /\ phase'[e] = "between"
      /\ (\A f \in Executions \ {e} : phase'[f] = phase[f]) /\ e \in working
      /\ working' = { f \in Executions :
           At(f, {"reserved", "between", "layer", "leaving"}) }'
  BY <1>1, <1>2, PhaseMoves DEF At, Phases, IInv
<1>4. plan[e] \in Plans /\ (~lapsed /\ file # NoFile => plan[e].edit = file.edit)
  BY <1>1 DEF IInv, Rest, FileInv, At
<1>5. /\ file' \in Plans \cup {NoFile} /\ plan' \in [Executions -> Plans]
      /\ plan'[e] = plan[e] /\ (\A f \in Executions \ {e} : plan'[f] = plan[f])
      /\ FileInv' /\ EditStep
  BY <1>1, <1>2, <1>3, <1>4, SaveKeeps
<1>6. Rest'
  BY <1>1, <1>3, <1>5 DEF IInv, Rest, layers, history
<1>7. \A f \in Executions \ {e} : Same(f)
  BY <1>1, <1>3, <1>5 DEF Same, layers
<1>8. LayerInv(e)'
  BY <1>1, <1>5, TurnKeepsLayers DEF Status
<1>9. CopyInv(e)'
  BY <1>1, <1>3, <1>5 DEF IInv, ExecInv, CopyInv, At, Status, Open, layers
<1>10. QED
  BY <1>2, <1>5, <1>6, <1>7, <1>8, <1>9, StepParts DEF ExecInv

\* The last layer is through: integration and final status.
LEMMA ConcludeStep ==
  ASSUME IInv, NEW e \in Executions, Conclude(e)
  PROVE  Sound
<1>1. /\ phase[e] = "between" /\ past[e] = Nodes /\ Open(e) = {}
      /\ Goes(e, "leaving") /\ UNCHANGED <<leases, layers, stale, history>>
  BY DEF Conclude, IInv, ExecInv, LayerInv, At
<1>2. PICK s \in {"done", "error"} :
        /\ s = "done" => Integrates(e) /\ \A n \in Nodes : Status(e, n) # "error"
        /\ Saved(e, [plan[e] EXCEPT !.status = s])
  BY DEF Conclude
<1> DEFINE q == [plan[e] EXCEPT !.status = s]
<1>3. [L!LNext]_(L!lvars) /\ working' = working /\ lapsed' = lapsed
  BY <1>1, LeaseAlone DEF history
<1>4. /\ phase' \in [Executions -> Phases] /\ phase'[e] = "leaving"
      /\ (\A f \in Executions \ {e} : phase'[f] = phase[f]) /\ e \in working
      /\ working' = { f \in Executions :
           At(f, {"reserved", "between", "layer", "leaving"}) }'
  BY <1>1, <1>3, PhaseMoves DEF At, Phases, IInv
<1>5. q \in Plans /\ q.status = s /\ q.edit = plan[e].edit /\ q.nodes = plan[e].nodes
  BY DEF IInv, Rest, Plans, PlanStates
<1> HIDE DEF q
<1>6. /\ file' \in Plans \cup {NoFile} /\ plan' \in [Executions -> Plans]
      /\ plan'[e] = q /\ (\A f \in Executions \ {e} : plan'[f] = plan[f])
      /\ FileInv' /\ EditStep
  <2>1. Saved(e, q)
    BY <1>2 DEF q
  <2>2. ~lapsed /\ file # NoFile => q.edit = file.edit
    BY <1>1, <1>5 DEF IInv, FileInv, At
  <2>3. ~At(e, {"between", "layer"})'
    BY <1>4 DEF At
  <2>4. QED
    BY <1>3, <1>4, <1>5, <2>1, <2>2, <2>3, SaveKeeps
<1>7. Rest'
  BY <1>1, <1>4, <1>6 DEF IInv, Rest, layers, history
<1>8. \A f \in Executions \ {e} : Same(f)
  BY <1>1, <1>4, <1>6 DEF Same, layers
<1>9. \A n \in Nodes : Status(e, n)' = Status(e, n)
  BY <1>5, <1>6 DEF Status
<1>10. LayerInv(e)'
  BY <1>1, <1>9, TurnKeepsLayers
<1>11. CopyInv(e)'
  <2>1. ASSUME s = "done"
        PROVE  \A n \in Nodes : \/ Status(e, n)' = "done"
                                \/ Status(e, n)' = "skipped" /\ e \in stale'
    <3>1. \A n \in Nodes : Status(e, n) \in {"done", "skipped"}
      BY <1>1, <1>2, <2>1 DEF IInv, ExecInv, LayerInv
    <3>2. (\E n \in Nodes : Status(e, n) = "skipped") => e \in stale
      BY <1>1, <3>1 DEF IInv, ExecInv, CopyInv, At
    <3>3. QED
      BY <1>1, <1>9, <3>1, <3>2
  <2>2. QED
    BY <1>4, <1>5, <1>6, <2>1 DEF CopyInv, At
<1>12. QED
  BY <1>3, <1>6, <1>7, <1>8, <1>10, <1>11, StepParts DEF ExecInv

\* An execution is aborted by an exception.
LEMMA AbortStep ==
  ASSUME IInv, NEW e \in Executions, Abort(e)
  PROVE  Sound
<1>1. /\ phase[e] \in {"reserved", "between", "layer"} /\ Open(e) = {} /\ Mishap
      /\ Goes(e, "leaving") /\ UNCHANGED <<file, leases, plan, layers, stale, lapsed>>
  BY DEF Abort, Open
<1>2. [L!LNext]_(L!lvars) /\ working' = working
  BY <1>1, LeaseAlone
<1>3. /\ phase' \in [Executions -> Phases] /\ phase'[e] = "leaving"
      /\ (\A f \in Executions \ {e} : phase'[f] = phase[f])
      /\ working' = { f \in Executions :
           At(f, {"reserved", "between", "layer", "leaving"}) }'
  BY <1>1, <1>2, PhaseMoves DEF At, Phases, IInv
<1>4. mishaps' \in 0..MaxMishaps
  BY <1>1, PlanAssumption DEF Mishap, IInv, Rest
<1>5. Rest'
  BY <1>1, <1>3, <1>4 DEF IInv, Rest, layers
<1>6. \A f \in Executions \ {e} : Same(f)
  BY <1>1, <1>3 DEF Same, layers
<1>7. LayerInv(e)'
  BY <1>1, TurnKeepsLayers DEF Status
<1>8. CopyInv(e)'
  <2>1. plan[e].status # "done"
    BY <1>1, BlankIsPlan DEF IInv, ExecInv, CopyInv, At
  <2>2. QED
    BY <1>1, <1>3, <2>1 DEF CopyInv, At
<1>9. FileInv' /\ EditStep
  BY <1>1, <1>2, <1>3, NoSave DEF At
<1>10. QED
  BY <1>2, <1>5, <1>6, <1>7, <1>8, <1>9, StepParts DEF ExecInv

-----------------------------------------------------------------------------
(***************************************************************************)
(* The other endpoints, and the restart.                                   *)
(***************************************************************************)
LEMMA UpdateStep ==
  ASSUME IInv, update_plan
  PROVE  Sound
<1>1. PICK ns \in {file.nodes, AllPending} :
        file' = [file EXCEPT !.nodes = ns, !.edit = @ + 1]
  BY DEF update_plan
<1>2. /\ file # NoFile /\ file.edit < MaxEdits /\ file.status \in {"draft", "error"}
      /\ UNCHANGED <<leases, phase, plan, layers, stale, history>>
  BY DEF update_plan
<1>3. file \in [status : PlanStates, nodes : [Nodes -> NodeStates], edit : 0..MaxEdits]
  BY <1>2 DEF IInv, Rest, Plans
<1>4. AllPending \in [Nodes -> NodeStates]
  BY DEF AllPending, NodeStates
<1>5. /\ file' \in Plans /\ file'.edit = file.edit + 1
  <2>1. file.edit + 1 \in 0..MaxEdits
    BY <1>2, <1>3, PlanAssumption
  <2>2. QED
    BY <1>1, <1>3, <1>4, <2>1 DEF Plans
<1>6. [L!LNext]_(L!lvars) /\ working' = working
  BY <1>2, LeaseAlone
<1>7. Rest'
  BY <1>2, <1>5, <1>6 DEF IInv, Rest, layers, history, At
<1>8. \A f \in Executions : ExecInv(f)'
  BY <1>2, SameKeeps DEF IInv, Same, layers
<1>9. FileInv'
  BY <1>2, <1>6 DEF IInv, FileInv, At, history
<1>10. EditStep
  <2>1. file.edit \in Nat
    BY <1>3
  <2>2. QED
    BY <1>5, <2>1 DEF EditStep
<1>11. QED
  BY <1>6, <1>7, <1>8, <1>9, <1>10 DEF Sound

\* Mishaps are counted.
LEMMA MishapCounts ==
  ASSUME Rest, Mishap
  PROVE  mishaps' \in 0..MaxMishaps
BY PlanAssumption DEF Rest, Mishap

\* The plan is deleted under whoever executes it.
LEMMA DeleteStep ==
  ASSUME IInv, delete_plan
  PROVE  Sound
<1>1. /\ file' = NoFile /\ Mishap
      /\ UNCHANGED <<leases, phase, plan, layers, stale, lapsed>>
  BY DEF delete_plan
<1>2. [L!LNext]_(L!lvars) /\ working' = working
  BY <1>1, LeaseAlone
<1>3. Rest'
  BY <1>1, <1>2, MishapCounts DEF IInv, Rest, layers, At
<1>4. \A f \in Executions : ExecInv(f)'
  BY <1>1, SameKeeps DEF IInv, Same, layers
<1>5. FileInv' /\ EditStep
  BY <1>1, <1>2 DEF IInv, FileInv, EditStep
<1>6. QED
  BY <1>2, <1>3, <1>4, <1>5 DEF Sound

\* The server dies and restarts; its executions are gone.
LEMMA RestartStep ==
  ASSUME IInv, Restart
  PROVE  Sound
<1>1. /\ Mishap /\ L!LDie /\ queued' = None /\ running' = None
      /\ phase' = [e \in Executions |-> IF phase[e] = "new" THEN "new" ELSE "ended"]
      /\ Forgets(Executions) /\ UNCHANGED <<file, lapsed>>
  BY DEF Restart
<1>2. [L!LNext]_(L!lvars) /\ working' = {}
  BY <1>1 DEF L!LNext, L!LDie
<1>3. /\ phase' \in [Executions -> Phases]
      /\ \A e \in Executions : phase'[e] \in {"new", "ended"}
  BY <1>1 DEF Phases
<1>4. /\ plan' \in [Executions -> Plans] /\ past' \in [Executions -> SUBSET Nodes]
      /\ queued' \in [Executions -> SUBSET Nodes]
      /\ running' \in [Executions -> SUBSET Nodes]
      /\ \A e \in Executions : /\ plan'[e] = Blank /\ past'[e] = {}
                               /\ queued'[e] = {} /\ running'[e] = {}
  BY <1>1, BlankIsPlan DEF Forgets, None, IInv, Rest
<1>5. Rest'
  BY <1>1, <1>2, <1>3, <1>4, MishapCounts DEF IInv, Rest, Forgets, At
<1>6. \A e \in Executions : ExecInv(e)'
  BY <1>3, <1>4 DEF ExecInv, LayerInv, CopyInv, Open, At
<1>7. FileInv' /\ EditStep
  BY <1>1, <1>2, <1>3, NoSave DEF At
<1>8. QED
  BY <1>2, <1>5, <1>6, <1>7 DEF Sound

-----------------------------------------------------------------------------
\* Every step is sound.
LEMMA NextSteps ==
  ASSUME IInv, [Next]_vars
  PROVE  Sound
<1>1. CASE UNCHANGED vars
  <2>1. /\ UNCHANGED <<file, leases, phase, plan, layers, stale, history>>
        /\ [L!LNext]_(L!lvars) /\ working' = working
    BY <1>1, LeaseAlone DEF vars, leases, layers, history
  <2>2. Rest'
    BY <2>1 DEF IInv, Rest, layers, history, At
  <2>3. \A f \in Executions : ExecInv(f)'
    BY <2>1, SameKeeps DEF IInv, Same, layers
  <2>4. FileInv' /\ EditStep
    BY <2>1, NoSave DEF history, At
  <2>5. QED
    BY <2>1, <2>2, <2>3, <2>4 DEF Sound
<1>2. ASSUME NEW e \in Executions, Execute(e) \/ Beat(e) \/ Step(e) \/ Abort(e)
      PROVE  Sound
  <2>1. CASE Step(e)
    <3>1. CASE \E n \in Nodes : StartNode(e, n) \/ FinishNode(e, n)
      BY <3>1, StartNodeStep, FinishNodeStep
    <3>2. CASE Begin(e) \/ StartLayer(e) \/ EndLayer(e) \/ Conclude(e) \/ Leave(e)
      BY <3>2, BeginStep, StartLayerStep, EndLayerStep, ConcludeStep, LeaveStep
    <3>3. QED
      BY <2>1, <3>1, <3>2 DEF Step
  <2>2. QED
    BY <1>2, <2>1, ExecuteStep, LeaseOnlyStep, AbortStep
<1>3. QED
  BY <1>1, <1>2, LeaseOnlyStep, UpdateStep, DeleteStep, RestartStep DEF Next

\* The invariant and that of the lease hold initially.
LEMMA InitHolds == Init => IInv /\ L!LInit
<1> SUFFICES ASSUME Init
             PROVE  IInv /\ L!LInit
  OBVIOUS
<1>1. L!LInit /\ working = {} /\ phase = [e \in Executions |-> "new"]
  BY DEF Init, L!LInit
<1>2. LP!LInv
  <2>1. LP!LInit
    BY <1>1 DEF L!LInit, LP!LInit, L!NoLease, LP!NoLease
  <2>2. QED
    BY <2>1, LP!LeaseInit
<1>3. /\ file \in Plans /\ plan \in [Executions -> Plans]
      /\ phase \in [Executions -> Phases] /\ mishaps \in 0..MaxMishaps
  BY <1>1, BlankIsPlan, PlanAssumption DEF Init, Phases
<1>4. /\ past \in [Executions -> SUBSET Nodes] /\ queued \in [Executions -> SUBSET Nodes]
      /\ running \in [Executions -> SUBSET Nodes]
      /\ \A e \in Executions : /\ plan[e] = Blank /\ past[e] = {}
                               /\ queued[e] = {} /\ running[e] = {}
  BY DEF Init, None
<1>5. Rest
  BY <1>1, <1>3, <1>4 DEF Init, Rest, At
<1>6. \A e \in Executions : ExecInv(e)
  BY <1>1, <1>4 DEF ExecInv, LayerInv, CopyInv, Open, At
<1>7. FileInv
  BY <1>1 DEF FileInv, At
<1>8. QED
  BY <1>1, <1>2, <1>5, <1>6, <1>7 DEF IInv

\* A sound step keeps the invariant.
LEMMA StepKeeps == IInv /\ Sound => IInv'
<1> SUFFICES ASSUME IInv, Sound
             PROVE  IInv'
  OBVIOUS
<1>1. "nobody" \notin LP!Names
  BY PlanAssumption DEF LP!Names
<1>2. [LP!LNext]_(LP!lvars)
  BY DEF Sound, L!LNext, LP!LNext, L!lvars, LP!lvars, L!LAcquire, LP!LAcquire,
     L!LBeat, LP!LBeat, L!LRelease, LP!LRelease, L!LExpire, LP!LExpire,
     L!LDie, LP!LDie, L!Fresh, LP!Fresh, L!NoLease, LP!NoLease, L!Owns, LP!Owns
<1>3. LP!LInv'
  BY <1>1, <1>2, LP!LeaseStep DEF IInv
<1>4. QED
  BY <1>3 DEF IInv, Sound

\* The strengthened invariant is one.
THEOREM Invariant == Spec => []IInv
<1>1. Init => IInv
  BY InitHolds
<1>2. IInv /\ [Next]_vars => IInv'
  BY NextSteps, StepKeeps
<1>3. QED
  BY <1>1, <1>2, PTL DEF Spec

\* Every variable keeps its type.
THEOREM TypeCorrect == Spec => []TypeOK
<1>1. IInv => TypeOK
  BY DEF IInv, Rest, TypeOK, LP!LInv, LP!LTypeOK, L!LTypeOK, LP!Leases, L!Leases,
     LP!NoLease, L!NoLease, LP!Names, L!Names
<1>2. QED
  BY <1>1, Invariant, PTL

\* Every step of the executions, of the endpoints and of a restart is a step of
\* the lease or leaves it alone.
THEOREM PlanImplementsLease == Spec => ImplementsLease
<1>1. Init => L!LInit
  BY InitHolds
<1>2. IInv /\ [Next]_vars => [L!LNext]_(L!lvars)
  BY NextSteps DEF Sound
<1>3. QED
  BY <1>1, <1>2, Invariant, PTL DEF Spec, ImplementsLease, L!LSpec

\* Of the executions at work at most one has not been overtaken: it inherits
\* this from the lease.
THEOREM OneHolder == Spec => []ExecutionAlone
<1>1. IInv => ExecutionAlone
  BY DEF IInv, LP!LInv, LP!HolderAlone, ExecutionAlone, L!HolderAlone,
     LP!Owns, L!Owns, LP!NoLease, L!NoLease
<1>2. QED
  BY <1>1, Invariant, PTL

\* No node runs before its dependencies are done, in any execution of any plan.
THEOREM DependenciesRespected == Spec => []DependenciesDone
<1>1. IInv => DependenciesDone
  BY DEF IInv, ExecInv, LayerInv, Open, DependenciesDone
<1>2. QED
  BY <1>1, Invariant, PTL

\* No failure is hidden behind a plan that ends done, and skipped nodes only
\* from an earlier execution (the end of _execute_plan_reserved).
THEOREM DoneHidesNoError == Spec => []DoneLeavesNoError
<1>1. IInv => DoneLeavesNoError
  BY DEF IInv, ExecInv, CopyInv, At, DoneLeavesNoError
<1>2. QED
  BY <1>1, Invariant, PTL

\* No edit is lost while no lease has been overtaken.
THEOREM EditsSurvive == Spec => EditKept
<1>1. IInv /\ [Next]_vars =>
        [ file # NoFile /\ file' # NoFile /\ file'.edit < file.edit => lapsed ]_vars
  BY NextSteps DEF Sound, EditStep
<1>2. QED
  BY <1>1, Invariant, PTL DEF Spec, EditKept

-----------------------------------------------------------------------------
(***************************************************************************)
(* Executions get on: nodes that run once, and the measure by which every  *)
(* step of an execution brings it nearer to its end.                       *)
(***************************************************************************)
\* The nodes an execution has dealt with.
Over(e) == past[e] \ Open(e)

\* A node an execution has dealt with is not begun again by it, and its result
\* stays in its copy of the plan, whatever the nodes beside and after it do and
\* whoever edits or deletes the plan (_execute_plan_reserved, _execute_node).
NodeRunsOnce ==
  [][\A e \in Executions : phase'[e] # "ended" =>
       \A n \in Over(e) :
         n \in Over(e)' /\ plan'[e].nodes[n] = plan[e].nodes[n]]_vars

Rank(p) ==
  CASE p = "new" -> 0 [] p = "reserved" -> 1 [] p \in {"between", "layer"} -> 2
    [] p = "leaving" -> 3 [] p = "ended" -> 4

Shrinks(S, T) == T \subseteq S /\ T # S

\* Execution e is further on: in a later phase, in a later layer, or with fewer
\* nodes of its layer before it, or running, or through with the layer.
Further(e) ==
  \/ Rank(phase'[e]) > Rank(phase[e])
  \/ /\ Rank(phase'[e]) = Rank(phase[e])
     /\ \/ Shrinks(past'[e], past[e])
        \/ /\ past'[e] = past[e]
           /\ \/ Shrinks(queued[e], queued'[e])
              \/ queued'[e] = queued[e] /\ Shrinks(running[e], running'[e])
              \/ /\ phase[e] = "layer" /\ phase'[e] = "between"
                 /\ UNCHANGED <<queued[e], running[e]>>

Rests(e) == UNCHANGED <<phase[e], past[e], queued[e], running[e]>>

\* Every step of an execution brings it further, and no step of the others, of
\* the lease, of the endpoints or of a restart sets it back: what of PlanEnds
\* does not need fairness.
OnlyForward ==
  [][\A e \in Executions :
       (Step(e) => Further(e)) /\ (Further(e) \/ Rests(e))]_vars

-----------------------------------------------------------------------------
\* An acyclic plan has a next layer until all its nodes are through.
LEMMA NextLayer ==
  ASSUME Rest, NEW e \in Executions, past[e] # Nodes
  PROVE  Layer(e) # {} /\ Layer(e) \cap past[e] = {} /\ Layer(e) \subseteq Nodes
<1> DEFINE S == Nodes \ past[e]
<1>1. S \in (SUBSET Nodes) \ {{}}
  BY DEF Rest
<1>2. PICK n \in S : depends_on[n] \cap S = {}
  BY <1>1, PlanAssumption
<1>3. depends_on[n] \subseteq Nodes
  BY <1>2, PlanAssumption
<1>4. n \in Layer(e)
  BY <1>2, <1>3 DEF Layer
<1>5. QED
  BY <1>4 DEF Layer

\* What a step of e may do to e: it gets further and takes nothing back.
Onward(e) ==
  /\ Further(e)
  /\ phase'[e] # "ended" => \A n \in Over(e) : n \in Over(e)' /\ Status(e, n)' = Status(e, n)

\* What every other step leaves.
Untouched(f) == Rests(f) /\ plan'[f] = plan[f]

\* The beginning of a layer is a step onward: a layer is never empty.
LEMMA StartLayerOnward ==
  ASSUME IInv, NEW e \in Executions, StartLayer(e)
  PROVE  Onward(e)
<1> DEFINE skip == { n \in Layer(e) : has_failed_dependency(e, n) }
           now  == [plan[e] EXCEPT !.nodes =
                     [n \in Nodes |-> IF n \in skip THEN "skipped" ELSE @[n]]]
<1>1. /\ phase[e] = "between" /\ past[e] # Nodes /\ running' = running
      /\ IF skip = {} THEN UNCHANGED <<plan, file>> ELSE Saved(e, now)
      /\ queued' = [queued EXCEPT ![e] = Layer(e) \ skip]
      /\ Goes(e, IF Layer(e) = skip THEN "between" ELSE "layer")
      /\ past' = [past EXCEPT ![e] = @ \cup Layer(e)]
  BY DEF StartLayer
<1>2. Layer(e) # {} /\ Layer(e) \cap past[e] = {} /\ Layer(e) \subseteq Nodes
  BY <1>1, NextLayer DEF IInv
<1>3. skip \subseteq Layer(e)
  OBVIOUS
<1>4. \A n \in Over(e) : Status(e, n)' = Status(e, n)
  <2>1. now.nodes = [n \in Nodes |-> IF n \in skip THEN "skipped" ELSE Status(e, n)]
    <3>1. plan[e] \in [status : PlanStates, nodes : [Nodes -> NodeStates], edit : 0..MaxEdits]
      BY DEF IInv, Rest, Plans
    <3> HIDE DEF skip
    <3>2. QED
      BY <3>1 DEF Status
  <2> HIDE DEF now, skip
  <2>2. Over(e) \subseteq Nodes \ skip
    BY <1>2, <1>3 DEF Over, IInv, Rest
  <2>3. CASE skip = {}
    BY <1>1, <2>3 DEF Status
  <2>4. CASE skip # {}
    <3>1. plan'[e] = now
      BY <1>1, <2>4 DEF Saved, IInv, Rest
    <3>2. QED
      BY <2>1, <2>2, <3>1 DEF Status
  <2>5. QED
    BY <2>3, <2>4
<1> HIDE DEF skip, now
<1>5. /\ past'[e] = past[e] \cup Layer(e) /\ queued'[e] = Layer(e) \ skip
      /\ running'[e] = {} /\ queued[e] = {} /\ running[e] = {}
      /\ phase'[e] \in {"between", "layer"}
  BY <1>1 DEF IInv, Rest, ExecInv, LayerInv, Open, At, Goes
<1>6. Further(e)
  BY <1>1, <1>2, <1>5 DEF Further, Rank, Shrinks
<1>7. \A n \in Over(e) : n \in Over(e)'
  BY <1>2, <1>5 DEF Over, Open
<1>8. QED
  BY <1>4, <1>6, <1>7 DEF Onward

\* Node n of e starts, or need not, or fails to, or finishes.
LEMMA NodeOnward ==
  ASSUME IInv, NEW e \in Executions, NEW n \in Nodes,
         StartNode(e, n) \/ FinishNode(e, n)
  PROVE  Onward(e)
<1>1. /\ n \in Open(e) /\ phase' = phase /\ past' = past
      /\ \/ /\ queued' = [queued EXCEPT ![e] = @ \ {n}] /\ n \in queued[e]
            /\ running' = running \/ running' = [running EXCEPT ![e] = @ \cup {n}]
         \/ /\ running' = [running EXCEPT ![e] = @ \ {n}] /\ n \in running[e]
            /\ queued' = queued
      /\ plan' = plan \/ \E s : plan' = [plan EXCEPT ![e] = With(e, n, s)]
  BY DEF StartNode, FinishNode, Open, Saved, Unsaved
<1>2. Further(e)
  BY <1>1 DEF Further, Shrinks, IInv, Rest
<1>3. Open(e)' \subseteq Open(e)
  BY <1>1 DEF Open, IInv, Rest
<1>4. \A m \in Over(e) : m \in Over(e)'
  BY <1>1, <1>3 DEF Over
<1>5. ASSUME NEW m \in Over(e)
      PROVE  Status(e, m)' = Status(e, m)
  <2>1. m # n /\ m \in Nodes
    BY <1>1, <1>5 DEF Over, IInv, Rest
  <2>2. CASE plan' = plan
    BY <2>2 DEF Status
  <2>3. CASE \E s : plan' = [plan EXCEPT ![e] = With(e, n, s)]
    <3>1. PICK s : plan' = [plan EXCEPT ![e] = With(e, n, s)]
      BY <2>3
    <3>2. plan'[e] = With(e, n, s)
      BY <3>1 DEF IInv, Rest
    <3>3. plan[e] \in [status : PlanStates, nodes : [Nodes -> NodeStates], edit : 0..MaxEdits]
      BY DEF IInv, Rest, Plans
    <3>4. With(e, n, s).nodes[m] = plan[e].nodes[m]
      BY <2>1, <3>3 DEF With
    <3>5. QED
      BY <3>2, <3>4 DEF Status
  <2>4. QED
    BY <1>1, <2>2, <2>3
<1>6. QED
  BY <1>2, <1>4, <1>5 DEF Onward

\* So is every change of phase.
LEMMA PhaseOnward ==
  ASSUME IInv, NEW e \in Executions,
         Execute(e) \/ Begin(e) \/ EndLayer(e) \/ Conclude(e) \/ Abort(e) \/ Leave(e)
  PROVE  Onward(e)
<1>1. \A p : Goes(e, p) => phase'[e] = p
  BY DEF Goes, IInv, Rest
<1>2. CASE Execute(e)
  <2>1. past[e] = {} /\ phase[e] = "new" /\ phase'[e] = "reserved"
    BY <1>1, <1>2 DEF Execute, IInv, ExecInv, CopyInv, At
  <2>2. QED
    BY <2>1 DEF Onward, Further, Rank, Over
<1>3. CASE Begin(e)
  <2>1. past[e] = {} /\ phase[e] = "reserved" /\ phase'[e] \in {"between", "leaving"}
    BY <1>1, <1>3 DEF Begin, IInv, ExecInv, CopyInv, At
  <2>2. QED
    BY <2>1 DEF Onward, Further, Rank, Over
<1>4. CASE EndLayer(e)
  <2>1. phase[e] = "layer" /\ phase'[e] = "between" /\ UNCHANGED <<past, queued, running>>
    BY <1>1, <1>4 DEF EndLayer, layers
  <2>2. plan'[e] = plan[e]
    BY <1>4 DEF EndLayer, Saved, IInv, Rest
  <2>3. QED
    BY <2>1, <2>2 DEF Onward, Further, Rank, Over, Open, Status
<1>5. CASE Conclude(e)
  <2>1. /\ phase[e] = "between" /\ phase'[e] = "leaving"
        /\ UNCHANGED <<past, queued, running>>
    BY <1>1, <1>5 DEF Conclude, layers
  <2>2. plan'[e].nodes = plan[e].nodes
    <3>1. PICK s \in {"done", "error"} : plan' = [plan EXCEPT ![e] = [plan[e] EXCEPT !.status = s]]
      BY <1>5 DEF Conclude, Saved
    <3>2. plan'[e] = [plan[e] EXCEPT !.status = s]
      BY <3>1 DEF IInv, Rest
    <3>3. plan[e] \in [status : PlanStates, nodes : [Nodes -> NodeStates], edit : 0..MaxEdits]
      BY DEF IInv, Rest, Plans
    <3>4. QED
      BY <3>2, <3>3
  <2>3. QED
    BY <2>1, <2>2 DEF Onward, Further, Rank, Over, Open, Status
<1>6. CASE Abort(e)
  <2>1. /\ phase[e] \in {"reserved", "between", "layer"} /\ phase'[e] = "leaving"
        /\ UNCHANGED <<plan, past, queued, running>>
    BY <1>1, <1>6 DEF Abort, layers
  <2>2. QED
    BY <2>1 DEF Onward, Further, Rank, Over, Open, Status
<1>7. CASE Leave(e)
  <2>1. phase[e] = "leaving" /\ phase'[e] = "ended"
    BY <1>1, <1>7 DEF Leave
  <2>2. QED
    BY <2>1 DEF Onward, Further, Rank
<1>8. QED
  BY <1>2, <1>3, <1>4, <1>5, <1>6, <1>7

\* So is every step of an execution.
LEMMA StepOnward ==
  ASSUME IInv, NEW e \in Executions, Execute(e) \/ Step(e) \/ Abort(e)
  PROVE  Onward(e)
<1>1. CASE \E n \in Nodes : StartNode(e, n) \/ FinishNode(e, n)
  BY <1>1, NodeOnward
<1>2. CASE StartLayer(e)
  BY <1>2, StartLayerOnward
<1>3. QED
  BY <1>1, <1>2, PhaseOnward DEF Step

\* The other executions are left alone, their copies too.
LEMMA OthersUntouched ==
  ASSUME IInv, NEW e \in Executions, Execute(e) \/ Beat(e) \/ Step(e) \/ Abort(e),
         NEW f \in Executions, f # e
  PROVE  Untouched(f)
<1>1. \A p : Goes(e, p) => phase'[f] = phase[f]
  BY DEF Goes, IInv, Rest
<1>2. \A p : Saved(e, p) \/ Unsaved(e, p) => plan'[f] = plan[f]
  BY DEF Saved, Unsaved, IInv, Rest
<1>3. CASE \/ Execute(e) \/ Beat(e) \/ Begin(e) \/ EndLayer(e) \/ Conclude(e)
           \/ Abort(e)
  <2>1. UNCHANGED <<past, queued, running>>
    BY <1>3 DEF Execute, Beat, Begin, EndLayer, Conclude, Abort, layers
  <2>2. phase'[f] = phase[f] /\ plan'[f] = plan[f]
    BY <1>1, <1>2, <1>3 DEF Execute, Beat, Begin, EndLayer, Conclude, Abort
  <2>3. QED
    BY <2>1, <2>2 DEF Untouched, Rests
<1>4. CASE Leave(e)
  BY <1>1, <1>4 DEF Leave, Forgets, Untouched, Rests, IInv, Rest
<1>5. CASE StartLayer(e)
  <2>1. /\ phase'[f] = phase[f] /\ plan'[f] = plan[f] /\ running' = running
    BY <1>1, <1>2, <1>5 DEF StartLayer
  <2>2. /\ past' = [past EXCEPT ![e] = @ \cup Layer(e)]
        /\ \E S : queued' = [queued EXCEPT ![e] = S]
    BY <1>5 DEF StartLayer
  <2>3. past'[f] = past[f] /\ queued'[f] = queued[f]
    BY <2>2 DEF IInv, Rest
  <2>4. QED
    BY <2>1, <2>3 DEF Untouched, Rests
<1>6. CASE \E n \in Nodes : StartNode(e, n) \/ FinishNode(e, n)
  <2>1. PICK n \in Nodes : StartNode(e, n) \/ FinishNode(e, n)
    BY <1>6
  <2>2. plan'[f] = plan[f] /\ phase' = phase /\ past' = past
    BY <1>2, <2>1 DEF StartNode, FinishNode
  <2>3. queued'[f] = queued[f] /\ running'[f] = running[f]
    BY <2>1 DEF StartNode, FinishNode, IInv, Rest
  <2>4. QED
    BY <2>2, <2>3 DEF Untouched, Rests
<1>7. QED
  BY <1>3, <1>4, <1>5, <1>6 DEF Step

\* What is over stays over in an execution that is not touched.
LEMMA UntouchedOver ==
  ASSUME NEW f \in Executions, Untouched(f)
  PROVE  \A n \in Over(f) : n \in Over(f)' /\ Status(f, n)' = Status(f, n)
BY DEF Untouched, Rests, Over, Open, Status

\* A restart ends every execution it finds.
LEMMA RestartEnds ==
  ASSUME IInv, Restart, NEW e \in Executions
  PROVE  /\ Further(e) \/ Rests(e)
         /\ phase'[e] # "ended" => Over(e) = {}
<1>1. /\ phase'[e] = IF phase[e] = "new" THEN "new" ELSE "ended"
      /\ past'[e] = {} /\ queued'[e] = {} /\ running'[e] = {}
  BY DEF Restart, Forgets, None, IInv, Rest
<1>2. CASE phase[e] \in {"new", "ended"}
  <2>1. past[e] = {} /\ queued[e] = {} /\ running[e] = {}
    BY <1>2 DEF IInv, ExecInv, LayerInv, CopyInv, Open, At
  <2>2. QED
    BY <1>1, <1>2, <2>1 DEF Rests, Over
<1>3. CASE phase[e] \notin {"new", "ended"}
  BY <1>1, <1>3 DEF Further, Rank, IInv, Rest, Phases
<1>4. QED
  BY <1>2, <1>3

\* What every step of the system does to one execution.
LEMMA ExecutionSteps ==
  ASSUME IInv, [Next]_vars, NEW f \in Executions
  PROVE  /\ Further(f) \/ Rests(f)
         /\ phase'[f] # "ended" =>
              \A n \in Over(f) : n \in Over(f)' /\ Status(f, n)' = Status(f, n)
<1>1. CASE UNCHANGED vars
  BY <1>1, UntouchedOver DEF vars, Untouched, Rests
<1>2. ASSUME NEW e \in Executions, Execute(e) \/ Beat(e) \/ Step(e) \/ Abort(e)
      PROVE  Onward(f) \/ Untouched(f)
  <2>1. CASE f = e /\ ~Beat(e)
    BY <1>2, <2>1, StepOnward
  <2>2. CASE Beat(e)
    BY <2>2 DEF Beat, layers, Untouched, Rests
  <2>3. CASE f # e
    BY <1>2, <2>3, OthersUntouched
  <2>4. QED
    BY <2>1, <2>2, <2>3
<1>3. CASE Expire \/ update_plan \/ delete_plan
  BY <1>3, UntouchedOver DEF Expire, update_plan, delete_plan, layers, Untouched, Rests
<1>4. CASE Restart
  BY <1>4, RestartEnds
<1>5. CASE \E e \in Executions : Execute(e) \/ Beat(e) \/ Step(e) \/ Abort(e)
  BY <1>2, <1>5, UntouchedOver DEF Onward, Untouched
<1>6. QED
  BY <1>1, <1>3, <1>4, <1>5 DEF Next

\* No execution runs a node twice.
THEOREM NoNodeTwice == Spec => NodeRunsOnce
<1>1. IInv /\ [Next]_vars =>
        [\A e \in Executions : phase'[e] # "ended" =>
           \A n \in Over(e) :
             n \in Over(e)' /\ plan'[e].nodes[n] = plan[e].nodes[n]]_vars
  BY ExecutionSteps DEF Status
<1>2. QED
  BY <1>1, Invariant, PTL DEF Spec, NodeRunsOnce

\* Every step of an execution counts, nobody sets it back.
THEOREM PlansMoveOn == Spec => OnlyForward
<1>1. IInv /\ [Next]_vars =>
        [\A e \in Executions :
           (Step(e) => Further(e)) /\ (Further(e) \/ Rests(e))]_vars
  BY ExecutionSteps, StepOnward DEF Onward
<1>2. QED
  BY <1>1, Invariant, PTL DEF Spec, OnlyForward
=============================================================================
