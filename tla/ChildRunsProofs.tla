--------------------------- MODULE ChildRunsProofs ---------------------------
(***************************************************************************)
(* ChildRuns, for any tasks, dependencies, retries and restarts: the       *)
(* parent's count is exact, dependencies and identities are respected, and *)
(* a waiting parent is woken when all its children have ended.             *)
(***************************************************************************)
EXTENDS ChildRuns, FiniteSetTheorems, TLAPS

Ids == Tasks \cup {Direct}

Over == {"done", "error"}

\* The children of an id are numbered without gaps, so that Fresh(t) is one
\* that nobody has spawned.
Numbered ==
  \A t \in Ids : \E n \in Nat :
    /\ n <= MaxChildren[t]
    /\ \A i \in 1 .. MaxChildren[t] : child[<<t, i>>] # "none" <=> i <= n

\* What the parent knows has been spawned, and what it does not know of was
\* cut off; what was reported has ended, and is reported once.
Known ==
  /\ IsFiniteSet(child_run_ids)
  /\ \A c \in child_run_ids : child[c] # "none"
  /\ ~torn => \A c \in Children : child[c] # "none" => c \in child_run_ids
  /\ \A c \in counted \cup reporting : child[c] \in Over
  /\ counted \cap reporting = {}

KidTypes ==
  /\ child_tasks \in BOOLEAN
  /\ child_run_ids \subseteq Children /\ awaiting_count \in Nat
  /\ child \in [Children -> ChildStates]
  /\ reporting \subseteq Children /\ counted \subseteq Children
  /\ torn \in BOOLEAN

KidsInv == /\ KidTypes /\ Numbered /\ Known /\ CountExact
           /\ DependenciesFirst /\ OneChildPerTask

\* The rest: the parent, its pipelines, the server.
RestInv ==
  /\ parent \in ParentStates
  /\ pipes \in [Kinds -> [Places -> Nat]] /\ held \in BOOLEAN
  /\ paused \in BOOLEAN /\ up \in BOOLEAN /\ crashes \in 0..MaxCrashes
  /\ WaitsByRequestOnly

IInv == KidsInv /\ RestInv

-----------------------------------------------------------------------------
\* A child is a pair of a task and a number.
LEMMA ChildIs ==
  ASSUME ChildAssumption
  PROVE  /\ \A c \in Children : /\ c[1] \in Ids /\ c[2] \in 1..MaxChildren[c[1]]
                                /\ c = <<c[1], c[2]>>
         /\ \A t \in Ids : \A i \in 1 .. MaxChildren[t] : <<t, i>> \in Children
BY DEF Children, Ids

\* The next number of an id is one past the spawned ones.
LEMMA FreshIs ==
  ASSUME ChildAssumption, NEW t \in Ids, NEW n \in Nat, n <= MaxChildren[t],
         \A i \in 1 .. MaxChildren[t] : child[<<t, i>>] # "none" <=> i <= n
  PROVE  Fresh(t) = <<t, n + 1>>
<1> DEFINE A == { c \in Children : c[1] = t /\ child[c] # "none" }
           f == [i \in 1..n |-> <<t, i>>]
<1>0. MaxChildren[t] \in Nat
  BY DEF ChildAssumption, Ids
<1>1. A = { <<t, i>> : i \in 1..n }
  <2>1. ASSUME NEW c \in A PROVE c \in { <<t, i>> : i \in 1..n }
    <3>1. c \in Children /\ c[1] = t /\ child[c] # "none"
      OBVIOUS
    <3>2. c[2] \in 1..MaxChildren[t] /\ c = <<t, c[2]>>
      BY <3>1, ChildIs
    <3>3. c[2] <= n
      BY <3>1, <3>2
    <3> QED BY <3>2, <3>3, <1>0
  <2>2. ASSUME NEW i \in 1..n PROVE <<t, i>> \in A
    <3>1. i \in 1..MaxChildren[t]
      BY <1>0
    <3>2. <<t, i>> \in Children /\ child[<<t, i>>] # "none"
      BY <3>1, ChildIs
    <3> QED BY <3>2
  <2> QED BY <2>1, <2>2
<1>2. f \in Bijection(1..n, A)
  BY <1>1 DEF Bijection, Injection, Surjection, IsInjective
<1>3. Cardinality(A) = n
  BY <1>2, FS_CountingElements DEF ExistsBijection
<1> QED BY <1>3 DEF Fresh

\* A spawnable child is one that has not been spawned.
LEMMA FreshIsNew ==
  ASSUME ChildAssumption, Numbered, NEW t \in Ids, Spawnable(t)
  PROVE  Fresh(t) \in Children /\ Fresh(t)[1] = t /\ child[Fresh(t)] = "none"
<1>1. PICK n \in Nat :
        /\ n <= MaxChildren[t]
        /\ \A i \in 1 .. MaxChildren[t] : child[<<t, i>>] # "none" <=> i <= n
  BY DEF Numbered
<1>2. Fresh(t) = <<t, n + 1>>
  BY <1>1, FreshIs
<1>3. <<t, n + 1>> \in Children
  BY <1>2 DEF Spawnable
<1>4. n + 1 \in 1 .. MaxChildren[t]
  BY <1>3, ChildIs
<1> QED BY <1>1, <1>2, <1>3, <1>4

\* A set of ids has as many next children as it has members.
LEMMA BornCount ==
  ASSUME ChildAssumption, NEW S \in SUBSET Ids
  PROVE  LET born == { Fresh(t) : t \in S }
         IN IsFiniteSet(S) /\ IsFiniteSet(born)
              /\ Cardinality(born) = Cardinality(S)
<1> DEFINE born == { Fresh(t) : t \in S }
           f == [t \in S |-> Fresh(t)]
<1>1. IsFiniteSet(Ids)
  BY FS_AddElement DEF ChildAssumption, Ids
<1>2. IsFiniteSet(S)
  BY <1>1, FS_Subset
<1>3. \A t \in S : Fresh(t)[1] = t
  BY DEF Fresh
<1>4. f \in Bijection(S, born)
  <2>1. \A t, u \in S : f[t] = f[u] => t = u
    BY <1>3
  <2>2. f \in [S -> born] /\ \A b \in born : \E t \in S : f[t] = b
    OBVIOUS
  <2> QED BY <2>1, <2>2 DEF Bijection, Injection, Surjection, IsInjective
<1> QED BY <1>2, <1>4, FS_Bijection DEF ExistsBijection

-----------------------------------------------------------------------------
\* A step that spawns nothing: spawned children stay spawned, those that have
\* ended stay as they are, and only one that ends is to be reported.
Calm ==
  /\ child' \in [Children -> ChildStates]
  /\ \A c \in Children : child'[c] = "none" <=> child[c] = "none"
  /\ \A c \in Children : child[c] \in Over => child'[c] = child[c]
  /\ UNCHANGED <<child_tasks, child_run_ids, awaiting_count, counted, torn>>
  /\ reporting' \subseteq
       reporting \cup { c \in Children : child[c] \notin Over
                                          /\ child'[c] \in Over }

\* A step that spawns nothing keeps the family consistent.
LEMMA CalmStep ==
  ASSUME ChildAssumption, KidsInv, Calm
  PROVE  KidsInv'
<1> USE DEF KidsInv, Calm
<1>1. KidTypes'
  BY DEF KidTypes
<1>2. Numbered'
  BY ChildIs DEF Numbered
<1>3. Known'
  <2>1. \A c \in (counted \cup reporting)' : child'[c] \in Over
    BY DEF Known, KidTypes
  <2>2. \A c \in counted : child[c] \in Over
    BY DEF Known
  <2>3. (counted \cap reporting)' = {}
    BY <2>2 DEF Known
  <2> QED BY <2>1, <2>3 DEF Known, KidTypes
<1>4. CountExact'
  BY DEF CountExact
<1>5. DependenciesFirst'
  <2> SUFFICES ASSUME NEW c \in Children, child'[c] # "none", c[1] \in Tasks,
                      NEW t \in depends_on[c[1]]
               PROVE  \E d \in child_run_ids : d[1] = t /\ child'[d] = "done"
    BY DEF DependenciesFirst
  <2>1. PICK d \in child_run_ids : d[1] = t /\ child[d] = "done"
    BY DEF DependenciesFirst
  <2>2. d \in Children
    BY DEF KidTypes
  <2> QED BY <2>1, <2>2 DEF Over
<1>6. OneChildPerTask'
  BY DEF OneChildPerTask
<1> QED BY <1>1, <1>2, <1>3, <1>4, <1>5, <1>6

\* The loop of spawn_child over S, with the child in half cut off: what the
\* stage spawns is ready, and what a request spawns is no task.
LEMMA SpawnStep ==
  ASSUME ChildAssumption, KidsInv, NEW S \in SUBSET Ids,
         NEW half \in SUBSET Ids, S \cap half = {},
         \A t \in S \cup half :
           Spawnable(t) /\ (t \in Tasks => t \in ready_tasks),
         spawn_child(S, half),
         UNCHANGED <<child_tasks, reporting, counted>>
  PROVE  KidsInv'
<1> DEFINE born == { Fresh(t) : t \in S }
<1> USE DEF KidsInv
<1>0. \A t \in S \cup half : Fresh(t) \in Children /\ Fresh(t)[1] = t
                               /\ child[Fresh(t)] = "none"
  BY FreshIsNew
<1>1. /\ child' = [c \in Children |->
                     IF c \in born \/ (\E t \in half : c = Fresh(t))
                       THEN "pending" ELSE child[c]]
      /\ child_run_ids' = child_run_ids \cup born
      /\ awaiting_count' = awaiting_count + Cardinality(S)
      /\ torn' = (torn \/ half # {})
  BY DEF spawn_child
<1>2. IsFiniteSet(born) /\ Cardinality(born) = Cardinality(S)
        /\ Cardinality(S) \in Nat
  BY BornCount, FS_CardinalityType
<1>3. \A c \in Children : child[c] # "none" => child'[c] = child[c]
  BY <1>0, <1>1
<1>4. child' \in [Children -> ChildStates]
  BY <1>1 DEF KidTypes, ChildStates
<1>5. KidTypes'
  BY <1>0, <1>1, <1>2, <1>4 DEF KidTypes
<1>6. Numbered'
  <2> SUFFICES ASSUME NEW u \in Ids
               PROVE  \E n \in Nat :
                        /\ n <= MaxChildren[u]
                        /\ \A i \in 1 .. MaxChildren[u] :
                             child'[<<u, i>>] # "none" <=> i <= n
    BY DEF Numbered
  <2>1. PICK n \in Nat :
          /\ n <= MaxChildren[u]
          /\ \A i \in 1 .. MaxChildren[u] : child[<<u, i>>] # "none" <=> i <= n
    BY DEF Numbered
  <2>2. MaxChildren[u] \in Nat
    BY DEF ChildAssumption, Ids
  <2>3. Fresh(u) = <<u, n + 1>>
    BY <2>1, FreshIs
  <2>4. ASSUME NEW i \in 1 .. MaxChildren[u]
        PROVE  /\ <<u, i>> \in Children
               /\ child'[<<u, i>>] # "none" <=>
                    child[<<u, i>>] # "none" \/ (u \in S \cup half /\ i = n + 1)
    <3>1. <<u, i>> \in Children
      BY ChildIs
    <3>2. \A t \in S \cup half : <<u, i>> = Fresh(t) <=> t = u /\ i = n + 1
      BY <1>0, <2>3
    <3>3. (<<u, i>> \in born \/ \E t \in half : <<u, i>> = Fresh(t))
            <=> u \in S \cup half /\ i = n + 1
      BY <3>2
    <3>4. child'[<<u, i>>] =
            IF <<u, i>> \in born \/ (\E t \in half : <<u, i>> = Fresh(t))
              THEN "pending" ELSE child[<<u, i>>]
      BY <3>1, <1>1
    <3> QED BY <3>1, <3>3, <3>4
  <2>5. CASE u \in S \cup half
    <3>1. n + 1 <= MaxChildren[u]
      BY <1>0, <2>3, <2>5, ChildIs
    <3>2. \A i \in 1 .. MaxChildren[u] :
            child'[<<u, i>>] # "none" <=> i <= n + 1
      BY <2>1, <2>2, <2>4, <2>5
    <3> QED BY <3>1, <3>2
  <2>6. CASE u \notin S \cup half
    BY <2>1, <2>4, <2>6
  <2> QED BY <2>5, <2>6
<1>7. Known'
  <2>1. IsFiniteSet(child_run_ids')
    BY <1>1, <1>2, FS_Union DEF Known
  <2>2. \A c \in child_run_ids' : child'[c] # "none"
    <3>1. ASSUME NEW c \in child_run_ids PROVE child'[c] # "none"
      BY <1>3 DEF Known, KidTypes
    <3>2. ASSUME NEW c \in born PROVE child'[c] # "none"
      BY <1>0, <1>1
    <3> QED BY <1>1, <3>1, <3>2
  <2>3. ASSUME ~torn', NEW c \in Children, child'[c] # "none"
        PROVE  c \in child_run_ids'
    <3>1. half = {} /\ ~torn
      BY <1>1, <2>3
    <3> QED BY <3>1, <1>1, <2>3 DEF Known
  <2>4. \A c \in counted \cup reporting : child'[c] \in Over
    BY <1>3 DEF Known, KidTypes, Over
  <2> QED BY <2>1, <2>2, <2>3, <2>4 DEF Known
<1>8. CountExact'
  <2> SUFFICES ASSUME ~torn'
               PROVE  awaiting_count' = Cardinality(child_run_ids' \ counted')
    BY DEF CountExact
  <2> DEFINE X == child_run_ids \ counted
  <2>1. ~torn /\ awaiting_count = Cardinality(X)
    BY <1>1 DEF CountExact
  <2>2. IsFiniteSet(X) /\ Cardinality(X) \in Nat
    BY FS_Subset, FS_CardinalityType DEF Known
  <2>3. \A c \in born : c \notin child_run_ids /\ c \notin counted
    BY <1>0 DEF Known, Over
  <2>4. child_run_ids' \ counted' = X \cup born /\ X \cap born = {}
    BY <1>1, <2>3
  <2>5. Cardinality(X \cup born) =
          Cardinality(X) + Cardinality(born) - Cardinality(X \cap born)
    BY <1>2, <2>2, FS_Union
  <2>6. Cardinality(X \cap born) = 0
    BY <2>4, FS_EmptySet
  <2>7. Cardinality(child_run_ids' \ counted') = Cardinality(X) + Cardinality(S)
    <3> HIDE DEF X, born
    <3>1. Cardinality(X \cup born) = Cardinality(X) + Cardinality(S)
      BY <1>2, <2>2, <2>5, <2>6
    <3> QED BY <2>4, <3>1
  <2>8. awaiting_count' = Cardinality(X) + Cardinality(S)
    BY <1>1, <2>1
  <2> QED BY <2>7, <2>8
<1>9. DependenciesFirst'
  <2> SUFFICES ASSUME NEW c \in Children, child'[c] # "none", c[1] \in Tasks,
                      NEW t \in depends_on[c[1]]
               PROVE  \E d \in child_run_ids' : d[1] = t /\ child'[d] = "done"
    BY DEF DependenciesFirst
  <2>1. \E d \in child_run_ids : d[1] = t /\ child[d] = "done"
    <3>1. CASE child[c] # "none"
      BY <3>1 DEF DependenciesFirst
    <3>2. CASE child[c] = "none"
      <4>1. PICK u \in S \cup half : c = Fresh(u)
        BY <3>2, <1>1
      <4>2. c[1] \in ready_tasks
        BY <4>1, <1>0
      <4>3. t \in Finished
        BY <4>2 DEF ready_tasks
      <4> QED BY <4>3 DEF Finished
    <3> QED BY <3>1, <3>2
  <2>2. PICK d \in child_run_ids : d[1] = t /\ child[d] = "done"
    BY <2>1
  <2>3. d \in Children /\ child'[d] = "done"
    BY <2>2, <1>3 DEF KidTypes
  <2> QED BY <2>2, <2>3, <1>1
<1>10. OneChildPerTask'
  <2> SUFFICES ASSUME NEW c \in child_run_ids', NEW d \in child_run_ids',
                      c[1] = d[1], c[1] \in Tasks
               PROVE  c = d
    BY DEF OneChildPerTask
  <2>1. \A e \in born : /\ e = Fresh(e[1])
                        /\ e[1] \in Tasks => e[1] \notin Spawned
    BY <1>0 DEF ready_tasks
  <2>2. \A e \in child_run_ids : e[1] \in Spawned
    BY DEF Spawned
  <2>3. CASE c \in child_run_ids /\ d \in child_run_ids
    BY <2>3 DEF OneChildPerTask
  <2>4. CASE c \in born /\ d \in born
    BY <2>1, <2>4
  <2> QED BY <1>1, <2>1, <2>2, <2>3, <2>4
<1> QED BY <1>5, <1>6, <1>7, <1>8, <1>9, <1>10

\* The report of a child that ended, on the children's side.
LEMMA ReportStep ==
  ASSUME ChildAssumption, KidsInv, NEW c \in Children,
         handle_child_completion(c)
  PROVE  KidsInv'
<1> USE DEF KidsInv, handle_child_completion
<1>1. /\ c \in reporting /\ c \notin counted /\ child[c] \in Over
      /\ counted' = counted \cup {c} /\ reporting' = reporting \ {c}
      /\ UNCHANGED <<child_tasks, child_run_ids, child, torn>>
  BY DEF Known
<1>2. KidTypes'
  BY <1>1 DEF KidTypes
<1>3. Numbered'
  BY <1>1 DEF Numbered
<1>4. Known'
  BY <1>1 DEF Known
<1>5. CountExact'
  <2> SUFFICES ASSUME ~torn
               PROVE  awaiting_count' = Cardinality(child_run_ids \ counted')
    BY <1>1 DEF CountExact
  <2> DEFINE X == child_run_ids \ counted
  <2>1. awaiting_count = Cardinality(X)
    BY DEF CountExact
  <2>2. IsFiniteSet(X) /\ Cardinality(X) \in Nat
    BY FS_Subset, FS_CardinalityType DEF Known
  <2>3. c \in X
    BY <1>1 DEF Known, Over
  <2>4. child_run_ids \ counted' = X \ {c}
    BY <1>1
  <2>5. Cardinality(X \ {c}) = Cardinality(X) - 1
    BY <2>2, <2>3, FS_RemoveElement
  <2>6. Cardinality(X) # 0
    BY <2>2, <2>3, FS_EmptySet
  <2>7. awaiting_count' = IF awaiting_count = 0 THEN 0 ELSE awaiting_count - 1
    OBVIOUS
  <2> QED BY <2>1, <2>4, <2>5, <2>6, <2>7
<1>6. DependenciesFirst'
  BY <1>1 DEF DependenciesFirst
<1>7. OneChildPerTask'
  BY <1>1 DEF OneChildPerTask
<1> QED BY <1>2, <1>3, <1>4, <1>5, <1>6, <1>7

-----------------------------------------------------------------------------
\* What the parent's side of a step may do: whoever finds the parent waiting
\* finds it paused.
LEMMA RestStep ==
  ASSUME RestInv, parent' \in ParentStates,
         parent' = "awaiting_subagents" =>
           parent = "awaiting_subagents" \/ paused',
         paused' = paused \/ paused' = TRUE,
         pipes' \in [Kinds -> [Places -> Nat]], held' \in BOOLEAN,
         UNCHANGED server
  PROVE  RestInv'
BY DEF RestInv, WaitsByRequestOnly, server

\* The final status is the outcome, or error, or nothing has changed.
LEMMA EndedIs ==
  ASSUME NEW q, NEW s
  PROVE  Ended(q, s) \in {q, s, "error"}
BY DEF Ended, Moved

\* The first lines of execute_run leave the parent as it is, or running.
LEMMA StartedIs ==
  ASSUME NEW p
  PROVE  Started(p) \in {parent, "running"}
BY DEF Started

\* A waiting parent that is to be put in front of a human ends in error.
LEMMA HaltEnds ==
  Ended("awaiting_subagents", "HUMAN_APPROVAL_REQUIRED") = "error"
BY DEF Ended, Moved, VALID_TRANSITIONS

\* A pipeline that moves on or leaves is one that is there.
LEMMA PipeStep ==
  ASSUME ChildAssumption, RestInv, NEW k \in Kinds, NEW p \in Places,
         NEW q \in Places, Here(k, p), Goes(k, p, q) \/ Leaves(k, p)
  PROVE  pipes' \in [Kinds -> [Places -> Nat]] /\ held' \in BOOLEAN
<1> USE DEF RestInv, Here
<1>1. pipes[k][p] \in Nat /\ pipes[k][p] - 1 \in Nat
  OBVIOUS
<1>2. CASE Goes(k, p, q)
  <2>1. pipes' = [pipes EXCEPT ![k][p] = @ - 1, ![k][q] = @ + 1]
    BY <1>2 DEF Goes
  <2> QED BY <1>1, <1>2, <2>1 DEF Goes
<1>3. CASE Leaves(k, p)
  BY <1>1, <1>3 DEF Leaves
<1> QED BY <1>2, <1>3

\* The places of a pipeline: scheduled, in its stages, or waiting for a retry.
LEMMA PlaceIs ==
  ASSUME ChildAssumption
  PROVE  /\ Scheduled \in Places /\ Busy \in Places /\ Scheduled # Busy
         /\ \A p \in Places : p < MaxRetries => p + 1 \in Places
BY DEF ChildAssumption, Places, Scheduled, Busy

\* How to recognise such a step.
LEMMA CalmIf ==
  ASSUME KidsInv, SpawnsNothing, UNCHANGED <<child_tasks, reporting, counted>>
  PROVE  Calm
BY DEF KidsInv, KidTypes, SpawnsNothing, Calm

-----------------------------------------------------------------------------
\* Every step of a pipeline of the parent keeps the invariant.
LEMMA PipelineSteps ==
  ASSUME ChildAssumption, IInv, NEW k \in Kinds, ParentStep(k)
  PROVE  IInv'
<1> USE DEF IInv
<1>1. ASSUME NEW p \in Places, Continues(k, p) PROVE IInv'
  <2>1. KidsInv'
    BY <1>1, CalmIf, CalmStep DEF Continues, Decides
  <2>2. pipes' \in [Kinds -> [Places -> Nat]] /\ held' \in BOOLEAN
    BY <1>1, PipeStep, PlaceIs DEF Continues, Decides
  <2>3. parent' \in {parent, "running", "done", "error"}
    BY <1>1, EndedIs, StartedIs DEF Continues
  <2> QED BY <1>1, <2>1, <2>2, <2>3, RestStep
       DEF Continues, Decides, RestInv, ParentStates
<1>2. ASSUME NEW p \in Places, Halts(k, p) PROVE IInv'
  <2>0. Decides(k, p) /\ Leaves(k, p)
    BY <1>2 DEF Halts
  <2>1. KidsInv'
    <3>1. CASE SpawnsNothing
      BY <2>0, <3>1, CalmIf, CalmStep DEF Decides
    <3>2. CASE /\ \A t \in ready_tasks : Spawnable(t)
               /\ spawn_child(ready_tasks, {})
      <4>1. ready_tasks \in SUBSET Ids /\ {} \in SUBSET Ids
        BY DEF ready_tasks, Ids
      <4> QED BY <2>0, <3>2, <4>1, SpawnStep DEF Decides
    <3> QED BY <1>2, <3>1, <3>2 DEF Halts
  <2>2. pipes' \in [Kinds -> [Places -> Nat]] /\ held' \in BOOLEAN
    BY <2>0, PipeStep, PlaceIs DEF Decides
  <2>3. parent' = "error"
    BY <1>2, HaltEnds DEF Halts
  <2> QED BY <2>0, <2>1, <2>2, <2>3, RestStep DEF Decides, ParentStates
<1>3. ASSUME NEW p \in Places, Raises(k, p) PROVE IInv'
  <2>0. Decides(k, p)
    BY <1>3 DEF Raises
  <2>1. KidsInv'
    <3>1. PICK S \in SUBSET ready_tasks, half \in SUBSET ready_tasks :
            /\ S \cap half = {}
            /\ \A t \in S \cup half : Spawnable(t)
            /\ spawn_child(S, half)
      BY <1>3 DEF Raises
    <3>2. S \in SUBSET Ids /\ half \in SUBSET Ids
      BY DEF ready_tasks, Ids
    <3> QED BY <2>0, <3>1, <3>2, SpawnStep DEF Decides
  <2>2. /\ parent' \in {parent, "running", "error"}
        /\ pipes' \in [Kinds -> [Places -> Nat]] /\ held' \in BOOLEAN
    <3>1. CASE p < MaxRetries
      <4>1. Goes(k, p, p + 1) /\ parent' = Started(p)
        BY <1>3, <3>1 DEF Raises
      <4>2. p + 1 \in Places
        BY <3>1, PlaceIs
      <4> QED BY <2>0, <4>1, <4>2, PipeStep, StartedIs DEF Decides
    <3>2. CASE ~(p < MaxRetries)
      <4>1. Leaves(k, p) /\ parent' = Ended(Started(p), "error")
        BY <1>3, <3>2 DEF Raises
      <4> QED BY <2>0, <4>1, PipeStep, PlaceIs, EndedIs, StartedIs DEF Decides
    <3> QED BY <3>1, <3>2
  <2> QED BY <2>0, <2>1, <2>2, RestStep DEF Decides, RestInv, ParentStates
<1>4. ASSUME NEW p \in Places, TooLate(k, p) PROVE IInv'
  <2>1. KidsInv'
    BY <1>4, CalmIf, CalmStep DEF TooLate
  <2>2. pipes' \in [Kinds -> [Places -> Nat]] /\ held' \in BOOLEAN
    BY <1>4, PipeStep, PlaceIs DEF TooLate
  <2> QED BY <1>4, <2>1, <2>2, RestStep DEF TooLate, RestInv
<1>5. CASE Enters(k)
  <2>1. KidsInv'
    BY <1>5, CalmIf, CalmStep DEF Enters
  <2>2. pipes' \in [Kinds -> [Places -> Nat]] /\ held' \in BOOLEAN
    BY <1>5, PipeStep, PlaceIs DEF Enters
  <2>3. parent' \in {parent, "running"}
    BY <1>5, StartedIs DEF Enters
  <2> QED BY <1>5, <2>1, <2>2, <2>3, RestStep DEF Enters, RestInv, ParentStates
<1>6. ASSUME NEW s \in {"done", "error"}, Ends(k, s) PROVE IInv'
  <2>1. KidsInv'
    BY <1>6, CalmIf, CalmStep DEF Ends
  <2>2. pipes' \in [Kinds -> [Places -> Nat]] /\ held' \in BOOLEAN
    BY <1>6, PipeStep, PlaceIs DEF Ends
  <2>3. parent' \in {parent, "done", "error"}
    BY <1>6, EndedIs DEF Ends
  <2> QED BY <1>6, <2>1, <2>2, <2>3, RestStep DEF Ends, RestInv, ParentStates
<1> QED BY <1>1, <1>2, <1>3, <1>4, <1>5, <1>6 DEF ParentStep

\* A status of one child that changes by ChildMoves, as a calm step.
LEMMA MoveStep ==
  ASSUME ChildAssumption, IInv, NEW c \in Children, NEW from, NEW s,
         from \subseteq {"pending", "running", "HUMAN_APPROVAL_REQUIRED"},
         s \in ChildStates \ {"none"}, ChildMoves(c, from, s),
         reporting' = reporting
           \/ (s \in Over /\ reporting' = reporting \cup {c})
  PROVE  IInv'
<1> USE DEF IInv
<1>1. child' = [child EXCEPT ![c] = s] /\ child[c] \in from
  BY DEF ChildMoves
<1>2. child[c] # "none" /\ child[c] \notin Over
  BY <1>1 DEF Over
<1>3. Calm
  <2>1. child' \in [Children -> ChildStates]
    BY <1>1 DEF KidsInv, KidTypes
  <2>2. /\ \A d \in Children : child'[d] = "none" <=> child[d] = "none"
        /\ \A d \in Children : child[d] \in Over => child'[d] = child[d]
        /\ child'[c] = s
    BY <1>1, <1>2 DEF KidsInv, KidTypes
  <2> QED BY <1>2, <2>1, <2>2 DEF Calm, ChildMoves
<1>4. KidsInv'
  BY <1>3, CalmStep
<1>5. RestInv'
  BY RestStep DEF ChildMoves, RestInv
<1> QED BY <1>4, <1>5

\* So does the report of an ended child.
LEMMA ReportsStep ==
  ASSUME ChildAssumption, IInv, NEW c \in Children, handle_child_completion(c)
  PROVE  IInv'
<1> USE DEF IInv
<1>1. KidsInv'
  BY ReportStep
<1>2. /\ pipes' \in [Kinds -> [Places -> Nat]] /\ held' \in BOOLEAN
      /\ parent' \in {parent, "running"}
  <2>1. CASE UNCHANGED <<parent, held, pipes>>
    BY <2>1 DEF RestInv
  <2>2. CASE /\ parent' = "running" /\ held' = TRUE
             /\ pipes' = [pipes EXCEPT !["worker"][Scheduled] = @ + 1]
    <3>1. "worker" \in Kinds /\ Scheduled \in Places
      BY PlaceIs DEF Kinds
    <3>2. pipes["worker"][Scheduled] + 1 \in Nat
      BY <3>1 DEF RestInv
    <3> QED BY <2>2, <3>1, <3>2 DEF RestInv
  <2> QED BY <2>1, <2>2 DEF handle_child_completion
<1>3. RestInv'
  BY <1>2, RestStep DEF handle_child_completion, RestInv, ParentStates
<1> QED BY <1>1, <1>3

\* And so does every other step.
LEMMA Inductive ==
  ASSUME ChildAssumption, IInv, [Next]_vars
  PROVE  IInv'
<1> USE DEF IInv
<1>1. ASSUME NEW k \in Kinds, ParentStep(k) PROVE IInv'
  BY <1>1, PipelineSteps
<1>2. ASSUME NEW c \in Children,
             ChildStep(c) \/ ParkChild(c) \/ ApproveChild(c) \/ CancelChild(c)
      PROVE IInv'
  <2>1. CASE StartChild(c)
    BY <2>1, MoveStep DEF StartChild, ChildStates
  <2>2. CASE ParkChild(c)
    BY <2>2, MoveStep DEF ParkChild, ChildStates
  <2>3. CASE ApproveChild(c)
    BY <2>3, MoveStep DEF ApproveChild, ChildStates
  <2>4. CASE CancelChild(c)
    BY <2>4, MoveStep DEF CancelChild, ChildStates
  <2>5. ASSUME NEW s \in {"done", "error"}, FinishChild(c, s) PROVE IInv'
    BY <2>5, MoveStep DEF FinishChild, ChildStates, Over
  <2>6. CASE handle_child_completion(c)
    BY <2>6, ReportsStep
  <2> QED BY <1>2, <2>1, <2>2, <2>3, <2>4, <2>5, <2>6 DEF ChildStep
<1>3. CASE Admit
  <2>1. KidsInv'
    BY <1>3, CalmIf, CalmStep DEF Admit
  <2>2. pipes' \in [Kinds -> [Places -> Nat]] /\ held' \in BOOLEAN
    <3>1. "worker" \in Kinds /\ Scheduled \in Places
      BY PlaceIs DEF Kinds
    <3>2. pipes["worker"][Scheduled] + 1 \in Nat
      BY <3>1 DEF RestInv
    <3> QED BY <1>3, <3>1, <3>2 DEF Admit, RestInv
  <2> QED BY <1>3, <2>1, <2>2, RestStep DEF Admit, RestInv
<1>4. CASE RequestSpawn
  <2>1. KidsInv'
    <3>1. {Direct} \in SUBSET Ids /\ {} \in SUBSET Ids
      BY DEF Ids
    <3>2. Direct \notin Tasks
      BY DEF ChildAssumption
    <3>3. Spawnable(Direct) /\ UNCHANGED <<child_tasks, reporting, counted>>
      BY <1>4 DEF RequestSpawn, memory
    <3>4. CASE spawn_child({Direct}, {})
      BY <3>1, <3>2, <3>3, <3>4, SpawnStep
    <3>5. CASE spawn_child({}, {Direct})
      BY <3>1, <3>2, <3>3, <3>5, SpawnStep
    <3> QED BY <1>4, <3>4, <3>5 DEF RequestSpawn
  <2> QED BY <1>4, <2>1, RestStep DEF RequestSpawn, RestInv, memory
<1>5. CASE pause_parent
  <2>1. KidsInv'
    BY <1>5, CalmIf, CalmStep DEF pause_parent, memory
  <2> QED BY <1>5, <2>1, RestStep
       DEF pause_parent, RestInv, memory, ParentStates
<1>6. CASE CancelParent
  <2>1. KidsInv'
    BY <1>6, CalmIf, CalmStep DEF CancelParent, memory
  <2> QED BY <1>6, <2>1, RestStep
       DEF CancelParent, RestInv, memory, ParentStates
<1>7. CASE GoDown
  <2>1. Calm
    BY <1>7 DEF GoDown, Calm, KidsInv, KidTypes
  <2>2. NoPipes \in [Kinds -> [Places -> Nat]]
    BY DEF NoPipes
  <2>3. RestInv'
    <3>1. crashes' \in 0..MaxCrashes
      BY <1>7 DEF GoDown, RestInv, ChildAssumption
    <3> QED BY <1>7, <2>2, <3>1 DEF GoDown, RestInv, WaitsByRequestOnly
  <2> QED BY <2>1, <2>3, CalmStep
<1>8. CASE ComeUp
  <2>1. Calm
    <3>1. child' = [c \in Children |->
                     IF child[c] = "running"
                        \/ (child[c] = "pending" /\ parent \in Terminal)
                       THEN "error" ELSE child[c]]
      BY <1>8 DEF ComeUp
    <3>2. child' \in [Children -> ChildStates]
      BY <3>1 DEF KidsInv, KidTypes, ChildStates
    <3>3. \A c \in Children : child'[c] = "none" <=> child[c] = "none"
      BY <3>1
    <3>4. \A c \in Children : child[c] \in Over => child'[c] = child[c]
      BY <3>1 DEF Over
    <3> QED BY <1>8, <3>2, <3>3, <3>4 DEF ComeUp, Calm
  <2>2. parent' \in ParentStates /\ parent' # "awaiting_subagents"
    BY <1>8 DEF ComeUp, RestInv, ParentStates
  <2>3. RestInv'
    BY <1>8, <2>2 DEF ComeUp, RestInv, WaitsByRequestOnly
  <2> QED BY <2>1, <2>3, CalmStep
<1>9. CASE Reclaim
  <2>1. KidsInv'
    BY <1>9, CalmIf, CalmStep DEF Reclaim, memory
  <2> QED BY <1>9, <2>1, RestStep DEF Reclaim, RestInv, memory, ParentStates
<1>10. CASE UNCHANGED vars
  <2>1. Calm
    BY <1>10 DEF vars, Calm, KidsInv, KidTypes
  <2>2. RestInv'
    BY <1>10 DEF vars, RestInv, WaitsByRequestOnly
  <2> QED BY <2>1, <2>2, CalmStep
<1> QED BY <1>1, <1>2, <1>3, <1>4, <1>5, <1>6, <1>7, <1>8, <1>9, <1>10 DEF Next

\* The invariant holds initially.
LEMMA Initial ==
  ASSUME ChildAssumption, Init
  PROVE  IInv
<1>1. KidTypes /\ DependenciesFirst /\ OneChildPerTask
  BY DEF Init, KidTypes, DependenciesFirst, OneChildPerTask, ChildStates
<1>2. Numbered
  <2> SUFFICES ASSUME NEW t \in Ids
               PROVE  /\ 0 <= MaxChildren[t]
                      /\ \A i \in 1 .. MaxChildren[t] :
                           child[<<t, i>>] # "none" <=> i <= 0
    BY DEF Numbered
  <2>1. MaxChildren[t] \in Nat
    BY DEF ChildAssumption, Ids
  <2>2. \A i \in 1 .. MaxChildren[t] : child[<<t, i>>] = "none"
    BY ChildIs DEF Init
  <2> QED BY <2>1, <2>2
<1>3. Known /\ CountExact
  BY FS_EmptySet DEF Init, Known, CountExact
<1>4. RestInv
  <2>1. PICK k \in Kinds : /\ pipes = [NoPipes EXCEPT ![k][Scheduled] = 1]
                           /\ held = (k = "worker")
    BY DEF Init
  <2>2. pipes \in [Kinds -> [Places -> Nat]]
    BY <2>1 DEF NoPipes
  <2>3. crashes \in 0..MaxCrashes
    BY DEF Init, ChildAssumption
  <2> QED BY <2>1, <2>2, <2>3
       DEF Init, RestInv, ParentStates, WaitsByRequestOnly
<1> QED BY <1>1, <1>2, <1>3, <1>4 DEF IInv, KidsInv

-----------------------------------------------------------------------------
\* The inductive invariant holds in every reachable state.
THEOREM Invariant ==
  ASSUME ChildAssumption
  PROVE  Spec => []IInv
<1>1. Init => IInv
  BY Initial
<1>2. IInv /\ [Next]_vars => IInv'
  BY Inductive
<1> QED BY <1>1, <1>2, PTL DEF Spec

\* Every variable keeps its type, for any tasks and any bounds.
THEOREM TypeCorrect ==
  ASSUME ChildAssumption
  PROVE  Spec => []TypeOK
<1>1. IInv => TypeOK
  BY DEF IInv, KidsInv, KidTypes, RestInv, TypeOK
<1> QED BY <1>1, Invariant, PTL

\* awaiting_count (spawn_child, _handle_child_completion) is the number of
\* known children not yet reported, unless a spawn was cut in two.
THEOREM CountIsExact ==
  ASSUME ChildAssumption
  PROVE  Spec => []CountExact
<1>1. IInv => CountExact
  BY DEF IInv, KidsInv
<1> QED BY <1>1, Invariant, PTL

\* The stage spawns no task before the tasks it depends on are done.
THEOREM DependenciesComeFirst ==
  ASSUME ChildAssumption
  PROVE  Spec => []DependenciesFirst
<1>1. IInv => DependenciesFirst
  BY DEF IInv, KidsInv
<1> QED BY <1>1, Invariant, PTL

\* The parent knows at most one child of each task, whatever was retried,
\* reclaimed or restarted.
THEOREM NoTaskTwice ==
  ASSUME ChildAssumption
  PROVE  Spec => []OneChildPerTask
<1>1. IInv => OneChildPerTask
  BY DEF IInv, KidsInv
<1> QED BY <1>1, Invariant, PTL

\* Only a request leaves the parent waiting: the halt of the stage does not.
THEOREM OnlyRequestsPause ==
  ASSUME ChildAssumption
  PROVE  Spec => []WaitsByRequestOnly
<1>1. IInv => WaitsByRequestOnly
  BY DEF IInv, RestInv
<1> QED BY <1>1, Invariant, PTL

\* One pipeline more is scheduled by the worker while the parent waits: the
\* report of a child wakes it.
LEMMA WhoSchedules ==
  ASSUME ChildAssumption, IInv, [Next]_vars, parent = "awaiting_subagents",
         pipes'["worker"][Scheduled] > pipes["worker"][Scheduled]
  PROVE  \E c \in Children : handle_child_completion(c) /\ awaiting_count <= 1
<1> USE DEF IInv
<1>0. /\ "worker" \in Kinds /\ Scheduled \in Places
      /\ pipes["worker"][Scheduled] \in Nat
      /\ pipes \in [Kinds -> [Places -> Nat]]
  BY PlaceIs DEF Kinds, RestInv
<1>1. ASSUME NEW k \in Kinds, NEW p \in Places, NEW q \in Places, q # Scheduled,
             Here(k, p), Goes(k, p, q) \/ Leaves(k, p)
      PROVE  FALSE
  <2>1. pipes[k][p] \in Nat
    BY <1>0
  <2>2. CASE Goes(k, p, q)
    <3>1. pipes' = [pipes EXCEPT ![k][p] = @ - 1, ![k][q] = @ + 1]
      BY <2>2 DEF Goes
    <3>2. pipes'["worker"][Scheduled] \in
            {pipes["worker"][Scheduled], pipes["worker"][Scheduled] - 1}
      BY <1>0, <1>1, <3>1
    <3> QED BY <1>0, <3>2
  <2>3. CASE Leaves(k, p)
    <3>1. pipes' = [pipes EXCEPT ![k][p] = @ - 1]
      BY <2>3 DEF Leaves
    <3>2. pipes'["worker"][Scheduled] \in
            {pipes["worker"][Scheduled], pipes["worker"][Scheduled] - 1}
      BY <1>0, <1>1, <3>1
    <3> QED BY <1>0, <3>2
  <2> QED BY <1>1, <2>2, <2>3
<1>2. ASSUME NEW k \in Kinds, ParentStep(k) PROVE FALSE
  <2>1. \A p \in Places : ~Continues(k, p)
    BY <1>1, PlaceIs DEF Continues, Decides
  <2>2. \A p \in Places : ~Halts(k, p)
    BY <1>1, PlaceIs DEF Halts, Decides
  <2>3. ASSUME NEW p \in Places, Raises(k, p) PROVE FALSE
    <3>1. Here(k, p)
      BY <2>3 DEF Raises, Decides
    <3>2. CASE p < MaxRetries
      <4>1. Goes(k, p, p + 1) /\ p + 1 \in Places /\ p + 1 # Scheduled
        BY <2>3, <3>2, PlaceIs DEF Raises, Places, Scheduled
      <4> QED BY <1>1, <3>1, <4>1
    <3>3. CASE ~(p < MaxRetries)
      <4>1. Leaves(k, p)
        BY <2>3, <3>3 DEF Raises
      <4> QED BY <1>1, <3>1, <4>1, PlaceIs
    <3> QED BY <3>2, <3>3
  <2>4. \A p \in Places : ~TooLate(k, p)
    BY <1>1, PlaceIs DEF TooLate
  <2>5. ~Enters(k)
    BY <1>1, PlaceIs DEF Enters
  <2>6. \A s \in {"done", "error"} : ~Ends(k, s)
    BY <1>1, PlaceIs DEF Ends
  <2> QED BY <1>2, <2>1, <2>2, <2>3, <2>4, <2>5, <2>6 DEF ParentStep
<1>3. pipes' # pipes
  BY <1>0
<1>4. ASSUME NEW c \in Children, ChildStep(c) \/ ParkChild(c)
             \/ ApproveChild(c) \/ CancelChild(c)
      PROVE  handle_child_completion(c)
  BY <1>3, <1>4 DEF ChildStep, StartChild, FinishChild, ParkChild,
                    ApproveChild, CancelChild, ChildMoves
<1>5. ~Reclaim /\ ~Admit
  BY DEF Reclaim, Admit
<1>6. ~RequestSpawn /\ ~pause_parent /\ ~CancelParent /\ ~ComeUp
  BY <1>3 DEF RequestSpawn, pause_parent, CancelParent, ComeUp, memory
<1>7. ~GoDown
  BY <1>0 DEF GoDown, NoPipes
<1>8. PICK c \in Children : handle_child_completion(c)
  BY <1>2, <1>3, <1>4, <1>5, <1>6, <1>7 DEF Next, vars
<1>9. awaiting_count <= 1
  BY <1>3, <1>8 DEF handle_child_completion
<1> QED BY <1>8, <1>9

\* A waiting parent is scheduled again only when every child it knows of has
\* ended (_handle_child_completion): the count that reaches zero is exact.
THEOREM WokenWhenAllEnded ==
  ASSUME ChildAssumption
  PROVE  Spec => WakesWhenAllEnded
<1>1. ASSUME IInv, [Next]_vars, ~torn, parent = "awaiting_subagents",
             pipes'["worker"][Scheduled] > pipes["worker"][Scheduled]
      PROVE  \A c \in child_run_ids : child[c] \in {"done", "error"}
  <2> DEFINE X == child_run_ids \ counted
  <2>1. PICK c \in Children : handle_child_completion(c) /\ awaiting_count <= 1
    BY <1>1, WhoSchedules
  <2>2. c \in X /\ child[c] \in Over
    BY <1>1, <2>1 DEF IInv, KidsInv, Known, handle_child_completion, Over
  <2>3. IsFiniteSet(X) /\ Cardinality(X) \in Nat /\ Cardinality(X) <= 1
    BY <1>1, <2>1, FS_Subset, FS_CardinalityType
       DEF IInv, KidsInv, Known, CountExact
  <2>4. Cardinality(X) # 0
    BY <2>2, <2>3, FS_EmptySet
  <2>5. PICK x : X = {x}
    <3>1. Cardinality(X) = 1
      BY <2>3, <2>4
    <3> QED BY <2>3, <3>1, FS_Singleton, Zenon
  <2>6. \A d \in child_run_ids : d = c \/ d \in counted
    BY <2>2, <2>5
  <2> QED BY <1>1, <2>2, <2>6 DEF IInv, KidsInv, Known, Over
<1>2. IInv /\ [Next]_vars =>
        [pipes'["worker"][Scheduled] > pipes["worker"][Scheduled]
           /\ parent = "awaiting_subagents" /\ ~torn
         => \A c \in child_run_ids : child[c] \in {"done", "error"}]_vars
  BY <1>1
<1> QED BY <1>2, Invariant, PTL DEF Spec, WakesWhenAllEnded

-----------------------------------------------------------------------------
\* The parent never counts on more children than it knows unreported (what is
\* subtracted for a child that was cut off only makes it wake early), and it
\* waits only while it counts on some.
WakeInv ==
  /\ awaiting_count <= Cardinality(child_run_ids \ counted)
  /\ parent = "awaiting_subagents" => awaiting_count > 0

\* Only pause_parent makes the parent wait.
LEMMA OnlyPauseWaits ==
  ASSUME ChildAssumption, IInv, [Next]_vars, parent' = "awaiting_subagents"
  PROVE  parent = "awaiting_subagents" \/ pause_parent
<1> DEFINE Fine == parent = "awaiting_subagents" \/ pause_parent
<1>1. ASSUME parent' \in {parent, "pending", "running", "done", "error",
                          "cancelled"}
      PROVE  Fine
  BY <1>1
<1>2. ASSUME NEW k \in Kinds, ParentStep(k) PROVE Fine
  <2>1. ASSUME NEW p \in Places, Continues(k, p) PROVE Fine
    BY <2>1, <1>1, EndedIs, StartedIs DEF Continues
  <2>2. ASSUME NEW p \in Places, Halts(k, p) PROVE Fine
    BY <2>2, <1>1, HaltEnds DEF Halts
  <2>3. ASSUME NEW p \in Places, Raises(k, p) PROVE Fine
    <3>1. parent' = Started(p) \/ parent' = Ended(Started(p), "error")
      BY <2>3 DEF Raises
    <3> QED BY <3>1, <1>1, EndedIs, StartedIs
  <2>4. ASSUME NEW p \in Places, TooLate(k, p) PROVE Fine
    BY <2>4, <1>1 DEF TooLate
  <2>5. CASE Enters(k)
    BY <2>5, <1>1, StartedIs DEF Enters
  <2>6. ASSUME NEW s \in {"done", "error"}, Ends(k, s) PROVE Fine
    BY <2>6, <1>1, EndedIs DEF Ends
  <2> QED BY <1>2, <2>1, <2>2, <2>3, <2>4, <2>5, <2>6 DEF ParentStep
<1>3. ASSUME NEW c \in Children,
             ChildStep(c) \/ ParkChild(c) \/ ApproveChild(c) \/ CancelChild(c)
      PROVE  Fine
  BY <1>1, <1>3 DEF ChildStep, StartChild, FinishChild, ParkChild,
     ApproveChild, CancelChild, ChildMoves, handle_child_completion
<1>4. CASE Reclaim \/ Admit \/ RequestSpawn \/ CancelParent \/ GoDown
           \/ ComeUp \/ UNCHANGED vars
  BY <1>1, <1>4 DEF Reclaim, Admit, RequestSpawn, CancelParent, GoDown, ComeUp,
     vars
<1> QED BY <1>2, <1>3, <1>4 DEF Next

\* A step that leaves the counting alone; a pause asks for a count.
LEMMA WakeSame ==
  ASSUME ChildAssumption, IInv, WakeInv, [Next]_vars,
         UNCHANGED <<child_run_ids, awaiting_count, counted>>
  PROVE  WakeInv'
<1>1. pause_parent => awaiting_count > 0
  BY DEF pause_parent
<1> QED BY <1>1, OnlyPauseWaits DEF WakeInv

\* A step that spawns children: none of them has been counted.
LEMMA WakeSpawn ==
  ASSUME ChildAssumption, IInv, WakeInv, [Next]_vars,
         NEW S \in SUBSET Ids, NEW half \in SUBSET Ids,
         \A t \in S \cup half : Spawnable(t), spawn_child(S, half),
         UNCHANGED counted
  PROVE  WakeInv'
<1> DEFINE born == { Fresh(t) : t \in S }
           X == child_run_ids \ counted
<1>1. parent' = "awaiting_subagents" => awaiting_count > 0
  BY OnlyPauseWaits DEF WakeInv, pause_parent
<1>2. \A t \in S \cup half : Fresh(t) \in Children /\ child[Fresh(t)] = "none"
  BY FreshIsNew DEF IInv, KidsInv
<1>3. /\ child_run_ids' = child_run_ids \cup born
      /\ awaiting_count' = awaiting_count + Cardinality(S)
  BY DEF spawn_child
<1>4. IsFiniteSet(born) /\ Cardinality(born) = Cardinality(S)
        /\ Cardinality(S) \in Nat
  BY BornCount, FS_CardinalityType
<1>5. IsFiniteSet(X) /\ Cardinality(X) \in Nat /\ awaiting_count \in Nat
  BY FS_Subset, FS_CardinalityType DEF IInv, KidsInv, KidTypes, Known
<1>6. \A c \in born : c \notin child_run_ids /\ c \notin counted
  BY <1>2 DEF IInv, KidsInv, Known, Over
<1>7. child_run_ids' \ counted' = X \cup born /\ X \cap born = {}
  BY <1>3, <1>6
<1>8. Cardinality(X \cap born) = 0
  BY <1>7, FS_EmptySet
<1>9. Cardinality(child_run_ids' \ counted') = Cardinality(X) + Cardinality(S)
  <2>1. Cardinality(X \cup born) =
          Cardinality(X) + Cardinality(born) - Cardinality(X \cap born)
    BY <1>4, <1>5, FS_Union
  <2> HIDE DEF X, born
  <2>2. Cardinality(X \cup born) = Cardinality(X) + Cardinality(S)
    BY <1>4, <1>5, <1>8, <2>1
  <2> QED BY <1>7, <2>2
<1>10. awaiting_count' <= Cardinality(child_run_ids' \ counted')
  <2>1. awaiting_count <= Cardinality(X)
    BY DEF WakeInv
  <2> HIDE DEF X, born
  <2> QED BY <1>3, <1>4, <1>5, <1>9, <2>1
<1>11. awaiting_count' >= awaiting_count
  BY <1>3, <1>4, <1>5
<1> QED BY <1>1, <1>3, <1>4, <1>5, <1>10, <1>11 DEF WakeInv

\* The report of an end: the last one that is waited for wakes the parent.
LEMMA WakeReport ==
  ASSUME ChildAssumption, IInv, WakeInv, NEW c \in Children,
         handle_child_completion(c)
  PROVE  WakeInv'
<1> DEFINE X == child_run_ids \ counted
<1>1. /\ counted' = counted \cup {c} /\ child_run_ids' = child_run_ids
      /\ awaiting_count' = (IF awaiting_count = 0 THEN 0
                            ELSE awaiting_count - 1)
  BY DEF handle_child_completion
<1>2. IsFiniteSet(X) /\ Cardinality(X) \in Nat /\ awaiting_count \in Nat
  BY FS_Subset, FS_CardinalityType DEF IInv, KidsInv, KidTypes, Known
<1>3. awaiting_count' <= Cardinality(child_run_ids' \ counted')
  <2>0. awaiting_count <= Cardinality(X)
    BY DEF WakeInv
  <2>1. CASE c \in X
    <3>1. child_run_ids' \ counted' = X \ {c}
      BY <1>1
    <3>2. Cardinality(X \ {c}) = Cardinality(X) - 1
      BY <1>2, <2>1, FS_RemoveElement
    <3>3. Cardinality(X) # 0
      BY <1>2, <2>1, FS_EmptySet
    <3> HIDE DEF X
    <3> QED BY <1>1, <1>2, <2>0, <3>1, <3>2, <3>3
  <2>2. CASE c \notin X
    <3>1. child_run_ids' \ counted' = X
      BY <1>1, <2>2
    <3>2. awaiting_count' <= awaiting_count
      BY <1>1, <1>2
    <3>3. awaiting_count' \in Nat
      BY <1>1, <1>2
    <3>4. Cardinality(child_run_ids' \ counted') = Cardinality(X)
      BY <3>1
    <3> HIDE DEF X
    <3> QED BY <1>2, <2>0, <3>2, <3>3, <3>4
  <2> QED BY <2>1, <2>2
<1>4. parent' = "awaiting_subagents" => awaiting_count' > 0
  <2> SUFFICES ASSUME parent' = "awaiting_subagents" PROVE awaiting_count' > 0
    OBVIOUS
  <2>1. parent = "awaiting_subagents"
    BY DEF handle_child_completion
  <2>2. "running" \in VALID_TRANSITIONS(parent)
    BY <2>1 DEF VALID_TRANSITIONS
  <2>3. ~(awaiting_count <= 1)
    BY <2>2 DEF handle_child_completion
  <2> QED BY <2>3, <1>1, <1>2
<1> QED BY <1>3, <1>4 DEF WakeInv

\* No step leaves a waiting parent that counts on nobody.
LEMMA WakeStep ==
  ASSUME ChildAssumption, IInv, WakeInv, [Next]_vars
  PROVE  WakeInv'
<1>0. /\ ready_tasks \in SUBSET Ids /\ {} \in SUBSET Ids
      /\ {Direct} \in SUBSET Ids
  BY DEF ready_tasks, Ids
<1>1. ASSUME NEW k \in Kinds, ParentStep(k) PROVE WakeInv'
  <2>1. UNCHANGED counted
    BY <1>1 DEF ParentStep, Continues, Halts, Raises, Decides, TooLate, Enters,
                Ends
  <2>2. ASSUME SpawnsNothing PROVE WakeInv'
    BY <2>1, <2>2, WakeSame DEF SpawnsNothing
  <2>3. ASSUME NEW S \in SUBSET ready_tasks, NEW half \in SUBSET ready_tasks,
               \A t \in S \cup half : Spawnable(t), spawn_child(S, half)
        PROVE  WakeInv'
    <3>1. S \in SUBSET Ids /\ half \in SUBSET Ids
      BY <1>0
    <3> QED BY <2>1, <2>3, <3>1, WakeSpawn
  <2>4. \A p \in Places : Continues(k, p) => SpawnsNothing
    BY DEF Continues
  <2>5. ASSUME NEW p \in Places, Halts(k, p) PROVE WakeInv'
    <3>1. SpawnsNothing \/ /\ \A t \in ready_tasks : Spawnable(t)
                           /\ spawn_child(ready_tasks, {})
      BY <2>5 DEF Halts
    <3> QED BY <2>2, <2>3, <3>1
  <2>6. ASSUME NEW p \in Places, Raises(k, p) PROVE WakeInv'
    <3>1. PICK S \in SUBSET ready_tasks, half \in SUBSET ready_tasks :
            /\ \A t \in S \cup half : Spawnable(t)
            /\ spawn_child(S, half)
      BY <2>6 DEF Raises
    <3> QED BY <2>3, <3>1
  <2>7. \A p \in Places : TooLate(k, p) => SpawnsNothing
    BY DEF TooLate
  <2>8. Enters(k) \/ (\E s \in {"done", "error"} : Ends(k, s)) => SpawnsNothing
    BY DEF Enters, Ends
  <2> QED BY <1>1, <2>2, <2>4, <2>5, <2>6, <2>7, <2>8 DEF ParentStep
<1>2. ASSUME NEW c \in Children,
             ChildStep(c) \/ ParkChild(c) \/ ApproveChild(c) \/ CancelChild(c)
      PROVE  WakeInv'
  <2>1. CASE handle_child_completion(c)
    BY <2>1, WakeReport
  <2>2. CASE ~handle_child_completion(c)
    <3>1. UNCHANGED <<child_run_ids, awaiting_count, counted>>
      BY <1>2, <2>2 DEF ChildStep, StartChild, FinishChild, ParkChild,
                        ApproveChild, CancelChild, ChildMoves
    <3> QED BY <3>1, WakeSame
  <2> QED BY <2>1, <2>2
<1>3. CASE RequestSpawn
  <2>1. /\ Spawnable(Direct) /\ UNCHANGED counted
        /\ spawn_child({Direct}, {}) \/ spawn_child({}, {Direct})
    BY <1>3 DEF RequestSpawn
  <2> QED BY <1>0, <2>1, WakeSpawn
<1>4. CASE Reclaim \/ Admit \/ pause_parent \/ CancelParent \/ GoDown
           \/ ComeUp \/ UNCHANGED vars
  BY <1>4, WakeSame DEF Reclaim, Admit, pause_parent, CancelParent, GoDown,
     ComeUp, SpawnsNothing, vars
<1> QED BY <1>1, <1>2, <1>3, <1>4 DEF Next

\* Only an unheard child strands a waiting parent, one that was cancelled or
\* whose report a restart has lost (pause_parent, _handle_child_completion):
\* the safety that PausedParentWakes rests on, for any children and any number
\* of restarts.
THEOREM WaitingForSomebody ==
  ASSUME ChildAssumption
  PROVE  Spec => []WaitsForSomebody
<1>1. Init => WakeInv
  <2> SUFFICES ASSUME Init PROVE WakeInv
    OBVIOUS
  <2>1. child_run_ids \ counted = {} /\ Cardinality({}) = 0
    BY FS_EmptySet DEF Init
  <2> QED BY <2>1 DEF Init, WakeInv
<1>2. IInv /\ WakeInv /\ [Next]_vars => WakeInv'
  BY WakeStep
<1>3. IInv /\ WakeInv => WaitsForSomebody
  <2> SUFFICES ASSUME IInv, WakeInv, parent = "awaiting_subagents",
                      \A c \in child_run_ids : ~Unheard(c)
               PROVE  \E c \in child_run_ids :
                        c \in reporting \/ child[c] \notin Terminal
    BY DEF WaitsForSomebody
  <2> DEFINE X == child_run_ids \ counted
  <2>1. awaiting_count > 0 /\ awaiting_count <= Cardinality(X)
          /\ awaiting_count \in Nat
    BY DEF WakeInv, IInv, KidsInv, KidTypes
  <2>2. X # {}
    <3>1. Cardinality({}) = 0
      BY FS_EmptySet
    <3> QED BY <2>1, <3>1
  <2>3. PICK c : c \in X
    BY <2>2
  <2> QED BY <2>3 DEF Unheard
<1> QED BY <1>1, <1>2, <1>3, Invariant, PTL DEF Spec
=============================================================================
