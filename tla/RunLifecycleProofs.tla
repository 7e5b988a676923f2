------------------------- MODULE RunLifecycleProofs -------------------------
(***************************************************************************)
(* RunLifecycle, for any number of runs, keys, slots and restarts: the     *)
(* invariants and the action property its TLC run checks.                  *)
(***************************************************************************)
EXTENDS RunLifecycle, FiniteSetTheorems, TLAPS

Final == {"done", "error", "cancelled"}

Alive == {"pending", "running", "HUMAN_APPROVAL_REQUIRED"}

-----------------------------------------------------------------------------
(***************************************************************************)
(* The status machine, restricted to the statuses of this module.          *)
(***************************************************************************)

\* The statuses of RunStates that are active are the three of Alive.
LEMMA ActiveIsAlive ==
  \A q \in RunStates : q \in ACTIVE_RUN_STATUSES <=> q \in Alive
BY DEF RunStates, Alive, ACTIVE_RUN_STATUSES

\* What a request for a status leaves a run in (update_run_status).
LEMMA Requests ==
  /\ \A q \in Alive : Moved(q, "cancelled") = "cancelled"
  /\ Moved("HUMAN_APPROVAL_REQUIRED", "pending") = "pending"
BY DEF Moved, VALID_TRANSITIONS, FromRunning, Alive

\* What the end of a pipeline leaves a run in: an active run is moved, and
\* stops running; a final one stays as it is.
LEMMA Outcomes ==
  /\ \A s \in {"done", "error", "HUMAN_APPROVAL_REQUIRED"} :
       /\ \A q \in Final : Ended(q, s) = q
       /\ \A q \in {"pending", "running"} : Ended(q, s) = s
  /\ \A s \in {"done", "error"} : Ended("HUMAN_APPROVAL_REQUIRED", s) = "error"
  /\ Ended("HUMAN_APPROVAL_REQUIRED", "HUMAN_APPROVAL_REQUIRED")
       = "HUMAN_APPROVAL_REQUIRED"
BY DEF Ended, Moved, VALID_TRANSITIONS, FromRunning, Final

-----------------------------------------------------------------------------
(***************************************************************************)
(* Counting slots.                                                         *)
(***************************************************************************)

\* At most n members of S have fewer than n members of S above them.
LEMMA NewestCounts ==
  ASSUME NEW S \in SUBSET Nat, IsFiniteSet(S), NEW n \in Nat
  PROVE  IsFiniteSet(Newest(S, n)) /\ Cardinality(Newest(S, n)) <= n
<1> DEFINE Above(r) == { q \in S : q > r }
           N == Newest(S, n)
           f == [r \in N |-> Cardinality(Above(r))]
<1>1. \A r \in S : IsFiniteSet(Above(r)) /\ Cardinality(Above(r)) \in Nat
  BY FS_Subset, FS_CardinalityType
<1>2. N \subseteq S /\ \A r \in N : Cardinality(Above(r)) < n
  BY DEF Newest
<1> HIDE DEF N
<1>3. ASSUME NEW a \in N, NEW b \in N, a < b
      PROVE  Cardinality(Above(a)) # Cardinality(Above(b))
  <2>1. a \in Nat /\ b \in Nat /\ a \in S /\ b \in S
    BY <1>2
  <2>2. Above(b) \subseteq Above(a)
    <3>1. \A q \in Nat : q > b => q > a
      BY <1>3, <2>1
    <3>2. QED
      BY <3>1
  <2>3. b \in Above(a) /\ b \notin Above(b)
    BY <1>3, <2>1
  <2>4. QED
    BY <1>1, <2>1, <2>2, <2>3, FS_Subset
<1>4. f \in [N -> 0..(n - 1)]
  <2>1. \A r \in N : Cardinality(Above(r)) \in 0..(n - 1)
    BY <1>1, <1>2
  <2> HIDE DEF Above
  <2>2. QED
    BY <2>1
<1>5. \A a, b \in N : f[a] = f[b] => a = b
  <2> SUFFICES ASSUME NEW a \in N, NEW b \in N, a # b
               PROVE  f[a] # f[b]
    OBVIOUS
  <2>1. a \in Nat /\ b \in Nat
    BY <1>2
  <2>2. a < b \/ b < a
    BY <2>1
  <2>3. QED
    BY <1>3, <2>2
<1> HIDE DEF f
<1>6. f \in Injection(N, 0..(n - 1))
  BY <1>4, <1>5 DEF Injection, IsInjective
<1>7. IsFiniteSet(0..(n - 1)) /\ Cardinality(0..(n - 1)) = n
  BY FS_Interval
<1>8. QED
  BY <1>6, <1>7, FS_Injection DEF N

-----------------------------------------------------------------------------
(***************************************************************************)
(* The inductive invariant.                                                *)
(***************************************************************************)

\* What is true of one run, whatever the others do.  Who holds its pipelines:
\* a run the worker executes is in running_ids unless it has ended, and then it
\* never becomes active again.  Its gate: it does not wait for an approval that
\* is given, and unless its draft was edited under it, it waits only for one
\* that is asked for, before which nothing passes.
RunInv(r) ==
  /\ up /\ status[r] = "running" => Load(r, "http") + Load(r, "worker") > 0
  /\ Load(r, "worker") <= 1
  /\ Load(r, "worker") > 0 =>
       r \in running_ids \/ status[r] \in Final \cup {"gone"}
  /\ status[r] = "none" =>
       r \notin running_ids
         /\ \A w \in Kinds : waiting[<<r, w>>] = 0 /\ going[<<r, w>>] = 0
  /\ status[r] = "HUMAN_APPROVAL_REQUIRED" => gate[r] # "granted"
  /\ r \notin edited =>
       /\ status[r] = "HUMAN_APPROVAL_REQUIRED" => gate[r] = "needed"
       /\ gate[r] = "needed" => \A w \in Kinds : going[<<r, w>>] = 0

SlotInv == Cardinality(Held) <= MaxSlots

\* Runs are created in order.
KeyInv ==
  /\ \A q, r \in Runs : q < r /\ status[q] = "none" => status[r] = "none"
  /\ DuplicatesWereStale

IInv == TypeOK /\ (\A r \in Runs : RunInv(r)) /\ SlotInv /\ KeyInv

\* A final status stays or the run is removed.
FinalStep ==
  \A r \in Runs : status[r] \in Final => status'[r] \in {status[r], "gone"}

\* A step that creates nothing, revives nothing and takes no mark back.
Calm ==
  /\ key' = key
  /\ \A r \in Runs :
       /\ status'[r] = "none" <=> status[r] = "none"
       /\ Active(r)' => Active(r) /\ (declared[r] => declared'[r])
       /\ status[r] \in Final \cup {"gone"} => status'[r] \in {status[r], "gone"}

-----------------------------------------------------------------------------
(***************************************************************************)
(* Facts used for several actions.                                         *)
(***************************************************************************)

\* A calm step keeps what is known of keys and creation order.
LEMMA CalmKeys ==
  ASSUME KeyInv, Calm
  PROVE  KeyInv' /\ FinalStep
<1>1. ASSUME NEW q \in Runs, NEW r \in Runs, q < r, status'[q] = "none"
      PROVE  status'[r] = "none"
  BY <1>1 DEF KeyInv, Calm
<1>2. ASSUME NEW q \in Runs, NEW r \in Runs, q < r, Active(q)', Active(r)',
             key'[q] = key'[r]
      PROVE  declared'[q]
  <2>1. Active(q) /\ Active(r) /\ key[q] = key[r]
    BY <1>2 DEF Calm
  <2>2. declared[q]
    BY <1>2, <2>1 DEF KeyInv, DuplicatesWereStale
  <2>3. QED
    BY <1>2, <2>2 DEF Calm
<1>3. FinalStep
  BY DEF Calm, FinalStep
<1>4. QED
  BY <1>1, <1>2, <1>3 DEF KeyInv, DuplicatesWereStale

\* Sets of runs are finite.
LEMMA FiniteRuns ==
  ASSUME NEW S \in SUBSET Runs
  PROVE  IsFiniteSet(S) /\ Cardinality(S) \in Nat
<1>1. IsFiniteSet(Runs)
  BY FS_Interval, LifecycleAssumption DEF Runs
<1>2. QED
  BY <1>1, FS_Subset, FS_CardinalityType

\* A step that holds no run it did not hold takes no slot.
LEMMA NoMoreHeld ==
  ASSUME TypeOK, SlotInv, Held' \subseteq Held
  PROVE  SlotInv'
<1>1. Held \in SUBSET Runs /\ Held' \in SUBSET Runs
  BY DEF Held, TypeOK
<1>2. IsFiniteSet(Held) /\ Cardinality(Held) \in Nat /\ Cardinality(Held') \in Nat
  BY <1>1, FiniteRuns
<1>3. Cardinality(Held') <= Cardinality(Held)
  BY <1>2, FS_Subset
<1>4. QED
  BY <1>2, <1>3, LifecycleAssumption DEF SlotInv

\* A calm step that adds no id is such a step.
LEMMA CalmSlots ==
  ASSUME TypeOK, SlotInv, Calm, running_ids' \subseteq running_ids
  PROVE  SlotInv'
<1>1. Held' \subseteq Held
  BY DEF Held, Calm, TypeOK
<1>2. QED
  BY <1>1, NoMoreHeld

\* Appending status events changes only what is shadowed.
LEMMA ShadowsType ==
  ASSUME TypeOK, NEW S, Shadows(S)
  PROVE  shadowed' \in [Runs -> BOOLEAN]
<1>1. PICK hides \in SUBSET S :
        shadowed' = [r \in Runs |-> IF r \in S THEN r \in hides
                                    ELSE shadowed[r]]
  BY DEF Shadows
<1>2. ASSUME NEW r \in Runs
      PROVE  (IF r \in S THEN r \in hides ELSE shadowed[r]) \in BOOLEAN
  <2>1. shadowed[r] \in BOOLEAN
    BY DEF TypeOK
  <2>2. (r \in hides) \in BOOLEAN
    OBVIOUS
  <2>3. QED
    BY <2>1, <2>2, Zenon
<1>3. QED
  BY <1>1, <1>2

\* What one write changes, and that it is calm if it revives nothing.
LEMMA WriteStep ==
  ASSUME TypeOK, NEW r \in Runs, NEW s \in RunStates \ {"none"},
         NEW a \in 0..2, Write(r, s, a), key' = key,
         status[r] # "none",
         s \in ACTIVE_RUN_STATUSES => Active(r),
         status[r] \in Final \cup {"gone"} => s \in {status[r], "gone"}
  PROVE  /\ status' = [status EXCEPT ![r] = s]
         /\ status' \in [Runs -> RunStates]
         /\ age' \in [Runs -> 0..2]
         /\ shadowed' \in [Runs -> BOOLEAN]
         /\ declared' \in [Runs -> BOOLEAN]
         /\ Calm
<1>1. status' = [status EXCEPT ![r] = s] /\ status \in [Runs -> RunStates]
  BY DEF Write, TypeOK
<1>2. status' \in [Runs -> RunStates]
  BY <1>1
<1>3. age' \in [Runs -> 0..2]
  BY DEF Write, TypeOK
<1>4. shadowed' \in [Runs -> BOOLEAN]
  BY ShadowsType DEF Write, TypeOK
<1>5. declared \in [Runs -> BOOLEAN]
      /\ declared' = [declared EXCEPT ![r] = declared[r] /\ s \in ACTIVE_RUN_STATUSES]
  BY DEF Write, TypeOK
<1>6. declared' \in [Runs -> BOOLEAN]
  BY <1>5
<1>7. Calm
  <2> SUFFICES ASSUME NEW q \in Runs
               PROVE  /\ status'[q] = "none" <=> status[q] = "none"
                      /\ Active(q)' => Active(q) /\ (declared[q] => declared'[q])
                      /\ status[q] \in Final \cup {"gone"} =>
                           status'[q] \in {status[q], "gone"}
    BY DEF Calm
  <2>1. CASE q = r
    <3>1. status'[q] = s
      BY <1>1, <2>1
    <3>2. declared'[q] = (declared[r] /\ s \in ACTIVE_RUN_STATUSES)
      BY <1>5, <2>1
    <3>3. Active(q)' <=> s \in ACTIVE_RUN_STATUSES
      BY <3>1 DEF Active
    <3>4. QED
      BY <2>1, <3>1, <3>2, <3>3
  <2>2. CASE q # r
    <3>1. status'[q] = status[q]
      BY <1>1, <2>2
    <3>2. declared'[q] = declared[q]
      BY <1>5, <2>2
    <3>3. Active(q)' <=> Active(q)
      BY <3>1 DEF Active
    <3>4. QED
      BY <3>1, <3>2, <3>3
  <2>3. QED
    BY <2>1, <2>2
<1>8. QED
  BY <1>1, <1>2, <1>3, <1>4, <1>6, <1>7

\* What belongs to run q stays as it is, its status apart.
Others(q) ==
  /\ gate'[q] = gate[q] /\ edited' = edited
  /\ q \in running_ids' <=> q \in running_ids
  /\ \A w \in Kinds : /\ waiting'[<<q, w>>] = waiting[<<q, w>>]
                      /\ going'[<<q, w>>] = going[<<q, w>>]

\* A run that a step leaves alone keeps its invariant.
LEMMA SameRun ==
  ASSUME NEW q \in Runs, RunInv(q), Others(q), status'[q] = status[q],
         up' = up
  PROVE  RunInv(q)'
<1>1. \A w \in Kinds : waiting'[<<q, w>>] = waiting[<<q, w>>]
                       /\ going'[<<q, w>>] = going[<<q, w>>]
  BY DEF Others
<1>2. Load(q, "http")' = Load(q, "http") /\ Load(q, "worker")' = Load(q, "worker")
  BY <1>1 DEF Load, Kinds
<1>3. QED
  BY <1>1, <1>2 DEF RunInv, Others

\* A step that writes one run and touches no other keeps the invariant if it
\* keeps what is true of that run.
LEMMA RunStep ==
  ASSUME IInv, NEW r \in Runs, NEW s \in RunStates \ {"none"},
         NEW a \in 0..2, Write(r, s, a),
         status[r] # "none",
         s \in ACTIVE_RUN_STATUSES => Active(r),
         status[r] \in Final \cup {"gone"} => s \in {status[r], "gone"},
         key' = key, edited' = edited, up' = up, crashes' = crashes,
         running_ids' \subseteq running_ids,
         gate' \in [Runs -> {"open", "needed", "granted"}],
         waiting' \in [Tasks -> Nat], going' \in [Tasks -> Nat],
         \A q \in Runs \ {r} : Others(q),
         RunInv(r)'
  PROVE  IInv' /\ FinalStep
<1>1. TypeOK /\ SlotInv /\ KeyInv
  BY DEF IInv
<1>2. /\ status' = [status EXCEPT ![r] = s]
      /\ status' \in [Runs -> RunStates]
      /\ age' \in [Runs -> 0..2]
      /\ shadowed' \in [Runs -> BOOLEAN]
      /\ declared' \in [Runs -> BOOLEAN]
      /\ Calm
  BY <1>1, WriteStep
<1>3. TypeOK'
  BY <1>1, <1>2 DEF TypeOK
<1>4. KeyInv' /\ FinalStep
  BY <1>1, <1>2, CalmKeys
<1>5. SlotInv'
  BY <1>1, <1>2, CalmSlots
<1>6. ASSUME NEW q \in Runs
      PROVE  RunInv(q)'
  <2>1. CASE q = r
    BY <2>1
  <2>2. CASE q # r
    <3>1. status'[q] = status[q]
      BY <1>1, <1>2, <2>2 DEF TypeOK
    <3>2. RunInv(q) /\ Others(q)
      BY <2>2 DEF IInv
    <3>3. QED
      BY <3>1, <3>2, SameRun
  <2>3. QED
    BY <2>1, <2>2
<1>7. QED
  BY <1>3, <1>4, <1>5, <1>6 DEF IInv

-----------------------------------------------------------------------------
(***************************************************************************)
(* The actions, one lemma each.                                            *)
(***************************************************************************)

\* A write that starts and ends no pipeline: resume, cancel, clean up.
LEMMA QuietWrite ==
  ASSUME IInv, NEW r \in Runs,
         NEW s \in {"pending", "cancelled", "gone"},
         NEW a \in 0..2, Write(r, s, a),
         status[r] # "none", s = "pending" => Active(r),
         status[r] \in Final \cup {"gone"} => s \in {status[r], "gone"},
         gate' \in {gate, [gate EXCEPT ![r] = "granted"]},
         UNCHANGED <<key, edited, waiting, going, running_ids, up, crashes>>
  PROVE  IInv' /\ FinalStep
<1>1. TypeOK /\ RunInv(r)
  BY DEF IInv
<1>2. /\ gate' \in [Runs -> {"open", "needed", "granted"}]
      /\ gate'[r] = "needed" => gate[r] = "needed"
      /\ \A q \in Runs \ {r} : gate'[q] = gate[q]
  BY <1>1 DEF TypeOK
<1>3. status'[r] = s
  BY <1>1 DEF Write, TypeOK
<1>4. \A q \in Runs \ {r} : Others(q)
  BY <1>2 DEF Others
<1>5. s \in RunStates \ {"none"} /\ (s \in ACTIVE_RUN_STATUSES => Active(r))
  BY DEF RunStates, ACTIVE_RUN_STATUSES
<1>6. Load(r, "http")' = Load(r, "http") /\ Load(r, "worker")' = Load(r, "worker")
  BY DEF Load
<1>7. s # "running" /\ s # "none" /\ s # "HUMAN_APPROVAL_REQUIRED"
  OBVIOUS
<1>8. status[r] \in Final \cup {"gone"} => s \in Final \cup {"gone"}
  BY DEF Final
<1>9. RunInv(r)'
  <2>1. (Load(r, "worker") > 0 =>
          r \in running_ids \/ status[r] \in Final \cup {"gone"})'
    BY <1>1, <1>3, <1>6, <1>8 DEF RunInv
  <2>2. QED
    BY <1>1, <1>2, <1>3, <1>6, <1>7, <2>1 DEF RunInv
<1>10. waiting' \in [Tasks -> Nat] /\ going' \in [Tasks -> Nat]
  BY <1>1 DEF TypeOK
<1>11. QED
  BY <1>2, <1>4, <1>5, <1>9, <1>10, RunStep

\* One pipeline fewer.
LEMMA OneLess ==
  ASSUME NEW f \in [Tasks -> Nat], NEW r \in Runs, NEW w \in Kinds,
         f[<<r, w>>] > 0
  PROVE  LET g == [f EXCEPT ![<<r, w>>] = @ - 1]
         IN /\ g \in [Tasks -> Nat]
            /\ g[<<r, w>>] = f[<<r, w>>] - 1
            /\ \A q \in Runs, v \in Kinds :
                 q # r \/ v # w => g[<<q, v>>] = f[<<q, v>>]
<1>1. <<r, w>> \in Tasks /\ f[<<r, w>>] \in Nat
  BY DEF Tasks
<1>2. f[<<r, w>>] - 1 \in Nat
  BY <1>1
<1>3. ASSUME NEW q \in Runs, NEW v \in Kinds
      PROVE  <<q, v>> \in Tasks /\ (q # r \/ v # w => <<q, v>> # <<r, w>>)
  BY DEF Tasks
<1>4. QED
  BY <1>1, <1>2, <1>3

\* A pipeline of a run ends or is turned away, with the run's outcome.
LEMMA EndStep ==
  ASSUME IInv, NEW r \in Runs, NEW w \in Kinds,
         NEW s \in RunStates \ {"none", "pending", "running"},
         NEW a \in 0..2, Write(r, s, a), Leave(r, w),
         status[r] # "none",
         s = "HUMAN_APPROVAL_REQUIRED" => Active(r) /\ gate[r] = "needed",
         status[r] \in Final \cup {"gone"} => s \in {status[r], "gone"},
         \/ /\ waiting[<<r, w>>] > 0 /\ going' = going
            /\ waiting' = [waiting EXCEPT ![<<r, w>>] = @ - 1]
         \/ /\ going[<<r, w>>] > 0 /\ waiting' = waiting
            /\ going' = [going EXCEPT ![<<r, w>>] = @ - 1],
         UNCHANGED <<key, gate, edited, up, crashes>>
  PROVE  IInv' /\ FinalStep
<1>1. TypeOK /\ RunInv(r)
  BY DEF IInv
<1>2. /\ waiting \in [Tasks -> Nat] /\ going \in [Tasks -> Nat]
      /\ waiting' \in [Tasks -> Nat] /\ going' \in [Tasks -> Nat]
      /\ \A q \in Runs, v \in Kinds :
           q # r \/ v # w => /\ waiting'[<<q, v>>] = waiting[<<q, v>>]
                            /\ going'[<<q, v>>] = going[<<q, v>>]
      /\ waiting'[<<r, w>>] + going'[<<r, w>>]
           = waiting[<<r, w>>] + going[<<r, w>>] - 1
      /\ going'[<<r, w>>] <= going[<<r, w>>]
  <2>1. <<r, w>> \in Tasks /\ waiting \in [Tasks -> Nat] /\ going \in [Tasks -> Nat]
    BY <1>1 DEF Tasks, TypeOK
  <2>2. waiting[<<r, w>>] \in Nat /\ going[<<r, w>>] \in Nat
    BY <2>1
  <2>3. CASE waiting[<<r, w>>] > 0 /\ going' = going
             /\ waiting' = [waiting EXCEPT ![<<r, w>>] = @ - 1]
    <3>1. /\ waiting' \in [Tasks -> Nat]
          /\ waiting'[<<r, w>>] = waiting[<<r, w>>] - 1
          /\ \A q \in Runs, v \in Kinds :
               q # r \/ v # w => waiting'[<<q, v>>] = waiting[<<q, v>>]
      BY <2>1, <2>3, OneLess
    <3>2. QED
      BY <2>1, <2>2, <2>3, <3>1
  <2>4. CASE going[<<r, w>>] > 0 /\ waiting' = waiting
             /\ going' = [going EXCEPT ![<<r, w>>] = @ - 1]
    <3>1. /\ going' \in [Tasks -> Nat]
          /\ going'[<<r, w>>] = going[<<r, w>>] - 1
          /\ \A q \in Runs, v \in Kinds :
               q # r \/ v # w => going'[<<q, v>>] = going[<<q, v>>]
      BY <2>1, <2>4, OneLess
    <3>2. QED
      BY <2>1, <2>2, <2>4, <3>1
  <2>5. QED
    BY <2>3, <2>4
<1>3. running_ids' = (IF w = "worker" THEN running_ids \ {r} ELSE running_ids)
  BY DEF Leave
<1>4. running_ids' \subseteq running_ids /\ \A q \in Runs \ {r} : Others(q)
  BY <1>2, <1>3 DEF Others
<1>5. status'[r] = s
  BY <1>1 DEF Write, TypeOK
<1>6. s \in Final \cup {"gone", "HUMAN_APPROVAL_REQUIRED"}
  BY DEF RunStates, Final
<1>7. s \in ACTIVE_RUN_STATUSES => Active(r)
  BY <1>6 DEF Final, ACTIVE_RUN_STATUSES
<1>8. Load(r, "worker")' <= Load(r, "worker")
      /\ (w = "worker" => Load(r, "worker")' = Load(r, "worker") - 1)
      /\ Load(r, "worker") \in Nat /\ Load(r, "worker")' \in Nat
  <2>1. <<r, "worker">> \in Tasks
    BY DEF Tasks, Kinds
  <2>2. /\ waiting[<<r, "worker">>] \in Nat /\ going[<<r, "worker">>] \in Nat
        /\ waiting'[<<r, "worker">>] \in Nat /\ going'[<<r, "worker">>] \in Nat
    BY <1>2, <2>1
  <2>3. CASE w = "worker"
    BY <1>2, <2>2, <2>3 DEF Load
  <2>4. CASE w # "worker"
    BY <1>2, <2>2, <2>4 DEF Load, Kinds
  <2>5. QED
    BY <2>3, <2>4
<1>9. RunInv(r)'
  <2>1. (Load(r, "worker") <= 1)'
    BY <1>1, <1>8 DEF RunInv
  <2>2. (Load(r, "worker") > 0 =>
          r \in running_ids \/ status[r] \in Final \cup {"gone"})'
    <3>1. CASE w = "worker"
      BY <1>1, <1>8, <3>1 DEF RunInv
    <3>2. CASE w # "worker"
      <4>1. running_ids' = running_ids
        BY <1>3, <3>2
      <4>2. status[r] \in Final \cup {"gone"} => s \in Final \cup {"gone"}
        BY DEF Final
      <4>3. QED
        BY <1>1, <1>5, <1>8, <4>1, <4>2 DEF RunInv
    <3>3. QED
      BY <3>1, <3>2
  <2>3. (r \notin edited =>
           (gate[r] = "needed" => \A v \in Kinds : going[<<r, v>>] = 0))'
    <3>1. ASSUME NEW v \in Kinds, gate[r] = "needed", r \notin edited
          PROVE  going'[<<r, v>>] = 0
      <4>1. going[<<r, v>>] = 0 /\ <<r, v>> \in Tasks
        BY <1>1, <3>1 DEF RunInv, Tasks
      <4>2. going'[<<r, v>>] \in Nat /\ going'[<<r, v>>] <= going[<<r, v>>]
        BY <1>2, <4>1
      <4>3. QED
        BY <4>1, <4>2
    <3>2. QED
      BY <3>1
  <2>4. QED
    BY <1>5, <2>1, <2>2, <2>3 DEF RunInv
<1>10. gate' \in [Runs -> {"open", "needed", "granted"}]
  BY <1>1 DEF TypeOK
<1>11. QED
  BY <1>2, <1>4, <1>7, <1>9, <1>10, RunStep

\* resume_run approving and rejecting, cancel_run, cleanup_old_runs.
LEMMA RequestSteps ==
  ASSUME IInv, NEW r \in Runs,
         Approve(r) \/ Reject(r) \/ Cancel(r) \/ Cleanup(r)
  PROVE  IInv' /\ FinalStep
<1>1. TypeOK /\ status[r] \in RunStates /\ age[r] \in 0..2
  BY DEF IInv, TypeOK
<1>2. CASE Approve(r)
  <2>1. status[r] = "HUMAN_APPROVAL_REQUIRED"
    BY <1>2 DEF Approve, RESUMABLE_RUN_STATUSES
  <2>2. Write(r, "pending", age[r])
    BY <1>2, <2>1, Requests DEF Approve
  <2>3. Active(r) /\ status[r] # "none" /\ status[r] \notin Final \cup {"gone"}
    BY <2>1 DEF Active, ACTIVE_RUN_STATUSES, Final
  <2>4. QED
    BY <1>1, <1>2, <2>2, <2>3, QuietWrite DEF Approve
<1>3. CASE Reject(r)
  <2>1. status[r] = "HUMAN_APPROVAL_REQUIRED"
    BY <1>3 DEF Reject, RESUMABLE_RUN_STATUSES
  <2>2. Write(r, "cancelled", age[r])
    BY <1>3, <2>1, Requests DEF Reject, Alive
  <2>3. status[r] # "none" /\ status[r] \notin Final \cup {"gone"}
    BY <2>1 DEF Final
  <2>4. QED
    BY <1>1, <1>3, <2>2, <2>3, QuietWrite DEF Reject
<1>4. CASE Cancel(r)
  <2>1. status[r] \in Alive
    BY <1>1, <1>4 DEF Cancel, Exists, RunStates, Alive
  <2>2. Write(r, "cancelled", age[r])
    BY <1>4, <2>1, Requests DEF Cancel
  <2>3. status[r] # "none" /\ status[r] \notin Final \cup {"gone"}
    BY <2>1 DEF Final, Alive
  <2>4. QED
    BY <1>1, <1>4, <2>2, <2>3, QuietWrite DEF Cancel
<1>5. CASE Cleanup(r)
  <2>1. status[r] # "none"
    BY <1>5 DEF Cleanup, Exists
  <2>2. QED
    BY <1>1, <1>5, <2>1, QuietWrite DEF Cleanup
<1>6. QED
  BY <1>2, <1>3, <1>4, <1>5

\* A pipeline starts on a run whose gates are open: execute_run up to the
\* first wait.
LEMMA StartStep ==
  ASSUME IInv, NEW r \in Runs, NEW w \in Kinds, Start(r, w)
  PROVE  IInv' /\ FinalStep
<1>1. TypeOK /\ RunInv(r) /\ status[r] \in RunStates
  BY DEF IInv, TypeOK
<1>2. waiting[<<r, w>>] > 0 /\ Exists(r) /\ gate[r] # "needed"
      /\ waiting' = [waiting EXCEPT ![<<r, w>>] = @ - 1]
      /\ going' = [going EXCEPT ![<<r, w>>] = @ + 1]
      /\ Write(r, Started(r), 0)
      /\ UNCHANGED <<key, gate, edited, running_ids, up, crashes>>
  BY DEF Start
<1>3. /\ waiting \in [Tasks -> Nat] /\ going \in [Tasks -> Nat]
      /\ <<r, w>> \in Tasks
      /\ \A q \in Runs, v \in Kinds :
           <<q, v>> \in Tasks /\ (q # r \/ v # w => <<q, v>> # <<r, w>>)
  BY <1>1 DEF TypeOK, Tasks
<1>4. /\ waiting' \in [Tasks -> Nat]
      /\ waiting'[<<r, w>>] = waiting[<<r, w>>] - 1
      /\ \A q \in Runs, v \in Kinds :
           q # r \/ v # w => waiting'[<<q, v>>] = waiting[<<q, v>>]
  BY <1>2, <1>3, OneLess
<1>5. /\ going' \in [Tasks -> Nat]
      /\ going'[<<r, w>>] = going[<<r, w>>] + 1
      /\ \A q \in Runs, v \in Kinds :
           q # r \/ v # w => going'[<<q, v>>] = going[<<q, v>>]
  <2>1. going[<<r, w>>] + 1 \in Nat
    BY <1>3
  <2>2. QED
    BY <1>2, <1>3, <2>1
<1>6. \A q \in Runs \ {r} : Others(q)
  BY <1>2, <1>4, <1>5 DEF Others
<1>7. /\ Load(r, "http") \in Nat /\ Load(r, "worker") \in Nat
      /\ Load(r, "http")' = Load(r, "http")
      /\ Load(r, "worker")' = Load(r, "worker")
      /\ Load(r, w) > 0
  <2>1. ASSUME NEW v \in Kinds
        PROVE  Load(r, v) \in Nat /\ Load(r, v)' = Load(r, v)
               /\ (v = w => Load(r, v) > 0)
    <3>1. waiting[<<r, v>>] \in Nat /\ going[<<r, v>>] \in Nat
      BY <1>3
    <3>2. CASE v = w
      BY <1>2, <1>4, <1>5, <3>1, <3>2 DEF Load
    <3>3. CASE v # w
      BY <1>4, <1>5, <3>1, <3>3 DEF Load
    <3>4. QED
      BY <3>2, <3>3
  <2>2. "http" \in Kinds /\ "worker" \in Kinds
    BY DEF Kinds
  <2>3. QED
    BY <2>1, <2>2
<1>8. /\ Started(r) \in RunStates \ {"none"}
      /\ Started(r) = status[r] \/ (Started(r) = "running" /\ Active(r))
      /\ status[r] \in Final \cup {"gone"} => Started(r) = status[r]
      /\ status[r] # "none"
      /\ Started(r) \in ACTIVE_RUN_STATUSES => Active(r)
  BY <1>1, <1>2 DEF Started, Exists, RunStates, Active, ACTIVE_RUN_STATUSES, Final
<1>9. status'[r] = Started(r)
  BY <1>1, <1>2 DEF Write, TypeOK
<1>10. Load(r, "http") + Load(r, "worker") > 0
  BY <1>7 DEF Kinds
<1>11. RunInv(r)'
  <2>1. (Load(r, "worker") > 0 =>
          r \in running_ids \/ status[r] \in Final \cup {"gone"})'
    BY <1>1, <1>2, <1>7, <1>8, <1>9 DEF RunInv
  <2>2. status'[r] = "HUMAN_APPROVAL_REQUIRED" =>
          gate'[r] # "granted" /\ r \in edited'
    BY <1>1, <1>2, <1>8, <1>9 DEF RunInv
  <2>3. QED
    BY <1>1, <1>2, <1>7, <1>8, <1>9, <1>10, <2>1, <2>2 DEF RunInv
<1>12. gate' \in [Runs -> {"open", "needed", "granted"}]
  BY <1>1, <1>2 DEF TypeOK
<1>13. QED
  BY <1>2, <1>4, <1>5, <1>6, <1>8, <1>11, <1>12, RunStep

\* A pipeline is halted or refused at the gates, or finishes.
LEMMA EndSteps ==
  ASSUME IInv, NEW r \in Runs, NEW w \in Kinds,
         \/ StartHalts(r, w) \/ StartFails(r, w)
         \/ \E s \in {"done", "error"} : Finish(r, w, s)
  PROVE  IInv' /\ FinalStep
<1>1. TypeOK /\ RunInv(r) /\ status[r] \in RunStates /\ age[r] \in 0..2
  BY DEF IInv, TypeOK
<1>2. /\ Started(r) = (IF status[r] = "pending" THEN "running" ELSE status[r])
      /\ Exists(r) => status[r] \in Alive \cup Final
      /\ Active(r) <=> status[r] \in Alive
  BY <1>1, ActiveIsAlive DEF Started, Exists, RunStates, Alive, Final, Active
<1>3. CASE StartHalts(r, w)
  <2> DEFINE s == Ended(Started(r), "HUMAN_APPROVAL_REQUIRED")
  <2>1. /\ Exists(r) /\ gate[r] = "needed"
        /\ Write(r, s, 0) /\ Leave(r, w) /\ 0 \in 0..2
        /\ waiting[<<r, w>>] > 0 /\ going' = going
        /\ waiting' = [waiting EXCEPT ![<<r, w>>] = @ - 1]
        /\ UNCHANGED <<key, gate, edited, up, crashes>>
    BY <1>3 DEF StartHalts
  <2>2. status[r] \in Alive => s = "HUMAN_APPROVAL_REQUIRED"
    BY <1>2, Outcomes DEF Alive
  <2>3. status[r] \in Final => s = status[r]
    BY <1>2, Outcomes DEF Final
  <2> HIDE DEF s
  <2>4. /\ s \in RunStates \ {"none", "pending", "running"}
        /\ s = "HUMAN_APPROVAL_REQUIRED" => Active(r) /\ gate[r] = "needed"
        /\ status[r] \in Final \cup {"gone"} => s \in {status[r], "gone"}
        /\ status[r] # "none"
    BY <1>2, <2>1, <2>2, <2>3 DEF Final, RunStates, Alive, Exists
  <2>5. QED
    BY <2>1, <2>4, EndStep
<1>4. CASE StartFails(r, w)
  <2> DEFINE s == Ended(Started(r), "error")
  <2>1. /\ Exists(r) /\ Write(r, s, 0) /\ Leave(r, w) /\ 0 \in 0..2
        /\ waiting[<<r, w>>] > 0 /\ going' = going
        /\ waiting' = [waiting EXCEPT ![<<r, w>>] = @ - 1]
        /\ UNCHANGED <<key, gate, edited, up, crashes>>
    BY <1>4 DEF StartFails
  <2>2. status[r] \in Final => s = status[r]
    BY <1>2, Outcomes DEF Final
  <2>3. status[r] \in Alive => s = "error"
    BY <1>2, Outcomes DEF Alive
  <2> HIDE DEF s
  <2>4. /\ s \in RunStates \ {"none", "pending", "running"}
        /\ s # "HUMAN_APPROVAL_REQUIRED"
        /\ status[r] \in Final \cup {"gone"} => s \in {status[r], "gone"}
        /\ status[r] # "none"
    BY <1>2, <2>1, <2>2, <2>3 DEF Final, RunStates, Alive, Exists
  <2>5. QED
    BY <2>1, <2>4, EndStep
<1>5. ASSUME NEW o \in {"done", "error"}, Finish(r, w, o)
      PROVE  IInv' /\ FinalStep
  <2> DEFINE s == IF Exists(r) THEN Ended(status[r], o) ELSE status[r]
  <2>1. going[<<r, w>>] > 0 /\ Write(r, s, age[r]) /\ Leave(r, w)
    BY <1>5 DEF Finish
  <2>2. status[r] # "none"
    BY <1>1, <2>1 DEF RunInv
  <2>3. status[r] \in Final => s = status[r]
    BY Outcomes DEF Final
  <2>4. status[r] = "gone" => s = status[r]
    BY DEF Exists
  <2>5. status[r] \in Alive => s \in {"done", "error"}
    <3>1. status[r] \in {"pending", "running"} => Ended(status[r], o) = o
      BY Outcomes
    <3>2. status[r] = "HUMAN_APPROVAL_REQUIRED" =>
            Ended(status[r], o) = "error"
      BY Outcomes
    <3>3. status[r] \in Alive => Exists(r)
      BY DEF Alive, Exists
    <3>4. QED
      BY <3>1, <3>2, <3>3 DEF Alive
  <2>6. status[r] \in Alive \cup Final \cup {"gone"}
    BY <1>1, <2>2 DEF RunStates, Alive, Final
  <2> HIDE DEF s
  <2>7. /\ s \in RunStates \ {"none", "pending", "running"}
        /\ s # "HUMAN_APPROVAL_REQUIRED"
        /\ status[r] \in Final \cup {"gone"} => s \in {status[r], "gone"}
    BY <2>3, <2>4, <2>5, <2>6 DEF Final, RunStates, Alive
  <2>8. QED
    BY <1>1, <1>5, <2>1, <2>2, <2>7, EndStep DEF Finish
<1>6. QED
  BY <1>3, <1>4, <1>5

\* A calm step that adds no id keeps the invariant if it keeps the types and
\* what is true of each run.
LEMMA CalmStep ==
  ASSUME IInv, TypeOK', Calm, running_ids' \subseteq running_ids,
         \A q \in Runs : RunInv(q)'
  PROVE  IInv' /\ FinalStep
<1>1. KeyInv' /\ FinalStep
  BY CalmKeys DEF IInv
<1>2. SlotInv'
  BY CalmSlots DEF IInv
<1>3. QED
  BY <1>1, <1>2 DEF IInv

\* A pipeline finds its run removed.
LEMMA StartOnNothingStep ==
  ASSUME IInv, NEW r \in Runs, NEW w \in Kinds, StartOnNothing(r, w)
  PROVE  IInv' /\ FinalStep
<1>1. TypeOK /\ RunInv(r)
  BY DEF IInv
<1>2. /\ waiting[<<r, w>>] > 0 /\ status[r] = "gone"
      /\ waiting' = [waiting EXCEPT ![<<r, w>>] = @ - 1] /\ Leave(r, w)
      /\ UNCHANGED <<status, shadowed, age, key, gate, edited, declared, going,
                     up, crashes>>
  BY DEF StartOnNothing
<1>3. waiting \in [Tasks -> Nat] /\ going \in [Tasks -> Nat]
  BY <1>1 DEF TypeOK
<1>4. /\ waiting' \in [Tasks -> Nat]
      /\ waiting'[<<r, w>>] = waiting[<<r, w>>] - 1
      /\ \A q \in Runs, v \in Kinds :
           q # r \/ v # w => waiting'[<<q, v>>] = waiting[<<q, v>>]
  <2>1. waiting[<<r, w>>] > 0 /\ waiting \in [Tasks -> Nat]
        /\ waiting' = [waiting EXCEPT ![<<r, w>>] = @ - 1]
    BY <1>2, <1>3
  <2>2. <<r, w>> \in Tasks
        /\ \A q \in Runs, v \in Kinds :
             <<q, v>> \in Tasks /\ (q # r \/ v # w => <<q, v>> # <<r, w>>)
    BY DEF Tasks
  <2>3. QED
    BY <2>1, <2>2, OneLess
<1>5. running_ids' \subseteq running_ids
      /\ \A q \in Runs \ {r} : q \in running_ids' <=> q \in running_ids
  BY <1>2 DEF Leave
<1>6. TypeOK'
  BY <1>1, <1>2, <1>4, <1>5 DEF TypeOK
<1>7. Calm
  BY <1>2 DEF Calm, Active
<1>8. ASSUME NEW q \in Runs
      PROVE  RunInv(q)'
  <2>1. CASE q = r
    <3>1. Load(r, "worker")' <= Load(r, "worker")
      <4>1. <<r, "worker">> \in Tasks /\ <<r, w>> \in Tasks
        BY DEF Tasks, Kinds
      <4>2. /\ waiting[<<r, "worker">>] \in Nat /\ going[<<r, "worker">>] \in Nat
            /\ waiting'[<<r, "worker">>] \in Nat
        BY <1>3, <1>4, <4>1
      <4>3. waiting'[<<r, "worker">>] <= waiting[<<r, "worker">>]
        BY <1>4, <4>2 DEF Kinds
      <4>4. QED
        BY <1>2, <4>2, <4>3 DEF Load
    <3>2. Load(r, "worker") \in Nat /\ Load(r, "worker")' \in Nat
      BY <1>2, <1>3, <1>4 DEF Load, Tasks, Kinds
    <3>3. (Load(r, "worker") <= 1)'
      BY <1>1, <3>1, <3>2 DEF RunInv
    <3>4. QED
      BY <1>1, <1>2, <2>1, <3>3 DEF RunInv
  <2>2. CASE q # r
    <3>1. Others(q)
      BY <1>2, <1>4, <1>5, <2>2 DEF Others
    <3>2. RunInv(q)
      BY DEF IInv
    <3>3. QED
      BY <1>2, <3>1, <3>2, SameRun
  <2>3. QED
    BY <2>1, <2>2
<1>9. QED
  BY <1>5, <1>6, <1>7, <1>8, CalmStep

\* Time passes, or a stage sends a heartbeat.
LEMMA HeartbeatSteps ==
  ASSUME IInv, NEW r \in Runs,
         Age(r) \/ \E w \in Kinds : Beat(r, w)
  PROVE  IInv' /\ FinalStep
<1>1. TypeOK
  BY DEF IInv
<1>2. UNCHANGED <<status, key, gate, edited, declared, waiting, going,
                  running_ids, up, crashes>>
  BY DEF Age, Beat
<1>3. age' \in [Runs -> 0..2]
  <2>1. CASE Age(r)
    <3>1. age[r] \in 0..2 /\ age[r] < 2
      BY <1>1, <2>1 DEF TypeOK, Age
    <3>2. age[r] + 1 \in 0..2
      BY <3>1
    <3>3. QED
      BY <1>1, <2>1, <3>2 DEF TypeOK, Age
  <2>2. CASE \E w \in Kinds : Beat(r, w)
    BY <1>1, <2>2 DEF TypeOK, Beat
  <2>3. QED
    BY <2>1, <2>2
<1>4. shadowed' \in [Runs -> BOOLEAN]
  <2>1. CASE Age(r)
    BY <1>1, <2>1 DEF TypeOK, Age
  <2>2. CASE \E w \in Kinds : Beat(r, w)
    <3>1. PICK c \in BOOLEAN :
            shadowed' = [shadowed EXCEPT ![r] = shadowed[r] /\ ~c]
      BY <2>2 DEF Beat
    <3>2. (shadowed[r] /\ ~c) \in BOOLEAN
      OBVIOUS
    <3> DEFINE v == shadowed[r] /\ ~c
    <3> HIDE DEF v
    <3>3. shadowed' = [shadowed EXCEPT ![r] = v]
      BY <3>1 DEF v
    <3>4. QED
      BY <1>1, <3>2, <3>3 DEF TypeOK, v
  <2>3. QED
    BY <2>1, <2>2
<1>5. TypeOK'
  BY <1>1, <1>2, <1>3, <1>4 DEF TypeOK
<1>6. Calm
  BY <1>2 DEF Calm, Active
<1>7. ASSUME NEW q \in Runs
      PROVE  RunInv(q)'
  BY <1>2, SameRun DEF IInv, Others
<1>8. QED
  BY <1>2, <1>5, <1>6, <1>7, CalmStep

\* The draft of an active run is edited: what is known of its gate is given up,
\* but that what has been granted stays so.
LEMMA EditStep ==
  ASSUME IInv, update_draft
  PROVE  IInv' /\ FinalStep
<1>1. TypeOK
  BY DEF IInv
<1>2. PICK r \in Runs, g \in {"open", "needed"} :
        gate' = [gate EXCEPT ![r] = g] /\ edited' = edited \cup {r}
  BY DEF update_draft
<1>3. UNCHANGED <<status, shadowed, age, key, declared, waiting, going,
                  running_ids, up, crashes>>
  BY DEF update_draft
<1>4. TypeOK'
  BY <1>1, <1>2, <1>3 DEF TypeOK
<1>5. Calm
  BY <1>3 DEF Calm, Active
<1>6. ASSUME NEW q \in Runs
      PROVE  RunInv(q)'
  <2>1. /\ RunInv(q)
        /\ q = r => q \in edited' /\ gate'[q] # "granted"
        /\ q # r => gate'[q] = gate[q] /\ (q \in edited' <=> q \in edited)
    BY <1>1, <1>2 DEF IInv, TypeOK
  <2>2. Load(q, "http")' = Load(q, "http") /\ Load(q, "worker")' = Load(q, "worker")
    BY <1>3 DEF Load
  <2>3. QED
    BY <1>3, <2>1, <2>2 DEF RunInv
<1>7. QED
  BY <1>3, <1>4, <1>5, <1>6, CalmStep

\* The process ends and takes its pipelines with it.
LEMMA GoDownStep ==
  ASSUME IInv, GoDown
  PROVE  IInv' /\ FinalStep
<1>1. TypeOK
  BY DEF IInv
<1>2. /\ up' = FALSE /\ crashes < MaxCrashes /\ crashes' = crashes + 1
      /\ waiting' = NoPipelines /\ going' = NoPipelines /\ running_ids' = {}
      /\ UNCHANGED <<status, shadowed, age, key, gate, edited, declared>>
  BY DEF GoDown, files
<1>3. crashes' \in 0..MaxCrashes
  BY <1>1, <1>2, LifecycleAssumption DEF TypeOK
<1>4. NoPipelines \in [Tasks -> Nat]
  BY DEF NoPipelines
<1>5. TypeOK'
  BY <1>1, <1>2, <1>3, <1>4 DEF TypeOK
<1>6. Calm
  BY <1>2 DEF Calm, Active
<1>7. ASSUME NEW q \in Runs
      PROVE  RunInv(q)'
  <2>1. \A w \in Kinds : waiting'[<<q, w>>] = 0 /\ going'[<<q, w>>] = 0
    BY <1>2 DEF NoPipelines, Tasks
  <2>2. Load(q, "worker")' = 0
    BY <2>1 DEF Load, Kinds
  <2>3. RunInv(q)
    BY DEF IInv
  <2>4. QED
    BY <1>2, <2>1, <2>2, <2>3 DEF RunInv
<1>8. QED
  BY <1>2, <1>5, <1>6, <1>7, CalmStep

\* The startup reconcile, whose runs were running and end in error.
LEMMA ComeUpStep ==
  ASSUME IInv, ComeUp
  PROVE  IInv' /\ FinalStep
<1> DEFINE zombies == { r \in Runs : status[r] = "running" }
<1>1. TypeOK
  BY DEF IInv
<1>2. /\ status' = [r \in Runs |-> IF r \in zombies THEN "error" ELSE status[r]]
      /\ age' = [r \in Runs |-> IF r \in zombies THEN 0 ELSE age[r]]
      /\ shadowed' = [r \in Runs |-> shadowed[r] /\ r \notin zombies]
      /\ declared' = [r \in Runs |-> declared[r] /\ r \notin zombies]
      /\ UNCHANGED <<key, gate, edited, waiting, going, running_ids, crashes>>
      /\ up' = TRUE
  BY DEF ComeUp
<1>3. \A q \in Runs :
        /\ status'[q] = IF status[q] = "running" THEN "error" ELSE status[q]
        /\ declared'[q] = (declared[q] /\ q \notin zombies)
  BY <1>2
<1>4. shadowed' \in [Runs -> BOOLEAN] /\ declared' \in [Runs -> BOOLEAN]
  <2>1. \A q \in Runs : /\ (shadowed[q] /\ q \notin zombies) \in BOOLEAN
                        /\ (declared[q] /\ q \notin zombies) \in BOOLEAN
    OBVIOUS
  <2> HIDE DEF zombies
  <2>2. QED
    BY <1>2, <2>1, Zenon
<1>5. age' \in [Runs -> 0..2] /\ status' \in [Runs -> RunStates]
  BY <1>1, <1>2 DEF TypeOK, RunStates
<1>6. TypeOK'
  BY <1>1, <1>2, <1>4, <1>5 DEF TypeOK
<1>7. Calm
  <2>1. ASSUME NEW q \in Runs
        PROVE  /\ status'[q] = "none" <=> status[q] = "none"
               /\ Active(q)' => Active(q) /\ (declared[q] => declared'[q])
               /\ status[q] \in Final \cup {"gone"} =>
                    status'[q] \in {status[q], "gone"}
    <3>1. CASE status[q] = "running"
      BY <1>3, <3>1 DEF Active, ACTIVE_RUN_STATUSES, Final
    <3>2. CASE status[q] # "running"
      <4>1. status'[q] = status[q] /\ q \notin zombies
        BY <1>3, <3>2
      <4>2. QED
        BY <1>3, <4>1 DEF Active
    <3>3. QED
      BY <3>1, <3>2
  <2>2. QED
    BY <1>2, <2>1 DEF Calm
<1>8. ASSUME NEW q \in Runs
      PROVE  RunInv(q)'
  <2>1. /\ Load(q, "http")' = Load(q, "http")
        /\ Load(q, "worker")' = Load(q, "worker")
    BY <1>2 DEF Load
  <2>2. RunInv(q)
    BY DEF IInv
  <2>3. CASE status[q] = "running"
    <3>1. status'[q] = "error"
      BY <1>3, <2>3
    <3>2. QED
      BY <1>2, <2>1, <2>2, <3>1 DEF RunInv, Final
  <2>4. CASE status[q] # "running"
    <3>1. status'[q] = status[q]
      BY <1>3, <2>4
    <3>2. QED
      BY <1>2, <2>1, <2>2, <2>4, <3>1 DEF RunInv
  <2>5. QED
    BY <2>3, <2>4
<1>9. QED
  BY <1>2, <1>6, <1>7, <1>8, CalmStep

\* One tick of the worker.  A run it admits is active and not held, so that by
\* RunInv no pipeline of the worker still has it.
LEMMA TickStep ==
  ASSUME IInv, NEW allow \in BOOLEAN, Tick(allow)
  PROVE  IInv' /\ FinalStep
<1> DEFINE admitted == IF allow THEN Admitted ELSE {}
           candidates == { r \in Runs : status[r] = "pending" } \cup Reclaimed
<1>1. TypeOK /\ SlotInv /\ KeyInv
  BY DEF IInv
<1>2. /\ status' = [r \in Runs |-> IF r \in Reclaimed THEN "pending" ELSE status[r]]
      /\ Shadows(Reclaimed)
      /\ running_ids' = Held \cup admitted
      /\ waiting' = [t \in Tasks |->
                       IF t[1] \in admitted /\ t[2] = "worker"
                         THEN waiting[t] + 1 ELSE waiting[t]]
      /\ UNCHANGED <<age, key, gate, edited, declared, going, up, crashes>>
  BY DEF Tick
<1>3. Reclaimed \subseteq Runs /\ \A r \in Reclaimed : status[r] = "running"
  BY DEF Reclaimed
<1>4. candidates \in SUBSET Runs
  BY <1>3
<1>5. admitted \subseteq Newest(candidates, FreeSlots) \ Held
  BY DEF Admitted
<1>6. admitted \subseteq candidates \ Held
  BY <1>5 DEF Newest
<1>7. Held \in SUBSET Runs
  BY <1>1 DEF Held, TypeOK
<1>8. \A q \in Runs :
        status'[q] = IF q \in Reclaimed THEN "pending" ELSE status[q]
  BY <1>2
<1>9. \A q \in admitted :
        /\ status[q] \in {"pending", "running"} /\ status'[q] = "pending"
        /\ q \in Runs /\ q \notin running_ids
  <2>1. ASSUME NEW q \in admitted
        PROVE  /\ status[q] \in {"pending", "running"} /\ status'[q] = "pending"
               /\ q \in Runs /\ q \notin running_ids
    <3>1. q \in candidates /\ q \notin Held /\ q \in Runs
      BY <1>4, <1>6
    <3>2. status[q] \in {"pending", "running"} /\ status'[q] = "pending"
      BY <1>3, <1>8, <3>1
    <3>3. QED
      BY <3>1, <3>2 DEF Held, Active, ACTIVE_RUN_STATUSES
  <2>2. QED
    BY <2>1
<1>10. IsFiniteSet(admitted) /\ Cardinality(admitted) \in Nat
       /\ Cardinality(admitted) <= FreeSlots
  <2>1. Cardinality(Held) \in Nat
    BY <1>7, FiniteRuns
  <2>2. FreeSlots \in Nat
    BY <2>1, LifecycleAssumption DEF FreeSlots
  <2>3. candidates \in SUBSET Nat /\ IsFiniteSet(candidates)
    BY <1>4, FiniteRuns DEF Runs
  <2>4. admitted \in SUBSET Runs
    BY <1>4, <1>6
  <2> HIDE DEF candidates, admitted
  <2>5. IsFiniteSet(Newest(candidates, FreeSlots))
        /\ Cardinality(Newest(candidates, FreeSlots)) <= FreeSlots
    BY <2>2, <2>3, NewestCounts
  <2>6. Cardinality(Newest(candidates, FreeSlots)) \in Nat
    BY <2>5, FS_CardinalityType
  <2>7. IsFiniteSet(admitted) /\ Cardinality(admitted) \in Nat
    BY <2>4, FiniteRuns
  <2>8. Cardinality(admitted) <= Cardinality(Newest(candidates, FreeSlots))
    BY <1>5, <2>5, FS_Subset
  <2>9. QED
    BY <2>2, <2>5, <2>6, <2>7, <2>8
<1> HIDE DEF candidates, admitted
<1>11. SlotInv'
  <2>1. Held' \subseteq Held \cup admitted
    BY <1>2 DEF Held
  <2>2. Held \cup admitted \in SUBSET Runs
    BY <1>7, <1>9
  <2>3. IsFiniteSet(Held) /\ Cardinality(Held) \in Nat
    BY <1>7, FiniteRuns
  <2>4. IsFiniteSet(Held \cup admitted) /\ Cardinality(Held \cup admitted) \in Nat
    BY <2>2, FiniteRuns
  <2>5. Cardinality(Held') \in Nat /\ Cardinality(Held') <= Cardinality(Held \cup admitted)
    <3>1. Held' \in SUBSET Runs
      BY <2>1, <2>2
    <3>2. Cardinality(Held') \in Nat
      BY <3>1, FiniteRuns
    <3>3. QED
      BY <2>1, <2>4, <3>2, FS_Subset
  <2>6. IsFiniteSet(Held \cap admitted) /\ Cardinality(Held \cap admitted) \in Nat
    BY <1>7, FiniteRuns
  <2>7. Cardinality(Held \cup admitted)
          = Cardinality(Held) + Cardinality(admitted) - Cardinality(Held \cap admitted)
    BY <1>10, <2>3, FS_Union
  <2>8. Cardinality(Held) <= MaxSlots => Cardinality(Held) + FreeSlots <= MaxSlots
    BY <2>3, LifecycleAssumption DEF FreeSlots
  <2>9. FreeSlots \in Nat
    BY <2>3, LifecycleAssumption DEF FreeSlots
  <2>10. Cardinality(Held) + FreeSlots <= MaxSlots
    BY <1>1, <2>8 DEF SlotInv
  <2>11. Cardinality(Held') <= MaxSlots
    BY <1>10, <2>3, <2>4, <2>5, <2>6, <2>7, <2>9, <2>10, LifecycleAssumption
  <2>12. QED
    BY <2>11 DEF SlotInv
<1>12. Calm
  <2>1. ASSUME NEW q \in Runs
        PROVE  /\ status'[q] = "none" <=> status[q] = "none"
               /\ Active(q)' => Active(q) /\ (declared[q] => declared'[q])
               /\ status[q] \in Final \cup {"gone"} =>
                    status'[q] \in {status[q], "gone"}
    <3>1. CASE q \in Reclaimed
      <4>1. status[q] = "running" /\ status'[q] = "pending"
        BY <1>3, <1>8, <3>1
      <4>2. QED
        BY <1>2, <4>1 DEF Active, ACTIVE_RUN_STATUSES, Final
    <3>2. CASE q \notin Reclaimed
      BY <1>2, <1>8, <3>2 DEF Active
    <3>3. QED
      BY <3>1, <3>2
  <2>2. QED
    BY <1>2, <2>1 DEF Calm
<1>13. TypeOK'
  <2>1. status' \in [Runs -> RunStates]
    BY <1>1, <1>2 DEF TypeOK, RunStates
  <2>2. shadowed' \in [Runs -> BOOLEAN]
    BY <1>1, <1>2, ShadowsType
  <2>3. running_ids' \subseteq Runs
    BY <1>2, <1>7, <1>9
  <2>4. waiting' \in [Tasks -> Nat]
    BY <1>1, <1>2 DEF TypeOK
  <2>5. QED
    BY <1>1, <1>2, <2>1, <2>2, <2>3, <2>4 DEF TypeOK
<1>14. \A q \in Runs :
         /\ waiting'[<<q, "http">>] = waiting[<<q, "http">>]
         /\ waiting'[<<q, "worker">>] =
              IF q \in admitted THEN waiting[<<q, "worker">>] + 1
              ELSE waiting[<<q, "worker">>]
  BY <1>2 DEF Tasks, Kinds
<1>15. ASSUME NEW q \in Runs
       PROVE  RunInv(q)'
  <2>1. /\ RunInv(q) /\ going' = going /\ up' = up
        /\ gate' = gate /\ edited' = edited
    BY <1>2 DEF IInv
  <2>2. /\ waiting[<<q, "http">>] \in Nat /\ going[<<q, "http">>] \in Nat
        /\ waiting[<<q, "worker">>] \in Nat /\ going[<<q, "worker">>] \in Nat
    BY <1>1 DEF TypeOK, Tasks, Kinds
  <2>3. CASE q \in admitted
    <3>1. /\ status[q] \in {"pending", "running"} /\ status'[q] = "pending"
          /\ q \notin running_ids
      BY <1>9, <2>3
    <3>2. Load(q, "worker") \in Nat /\ Load(q, "worker") = 0
      BY <2>1, <2>2, <3>1 DEF RunInv, Load, Final
    <3>3. Load(q, "worker")' = 1
      BY <1>14, <2>1, <2>2, <2>3, <3>2 DEF Load
    <3>4. q \in running_ids'
      BY <1>2, <2>3
    <3>5. QED
      BY <2>1, <3>1, <3>3, <3>4 DEF RunInv
  <2>4. CASE q \notin admitted
    <3>1. /\ waiting'[<<q, "http">>] = waiting[<<q, "http">>]
          /\ waiting'[<<q, "worker">>] = waiting[<<q, "worker">>]
      BY <1>14, <2>4
    <3>2. /\ Load(q, "http")' = Load(q, "http")
          /\ Load(q, "worker")' = Load(q, "worker")
      BY <2>1, <3>1 DEF Load
    <3>3. q \in running_ids' <=> q \in running_ids /\ Active(q)
      BY <1>2, <2>4 DEF Held
    <3>4. CASE q \in Reclaimed
      <4>1. status[q] = "running" /\ status'[q] = "pending"
        BY <1>3, <1>8, <3>4
      <4>2. QED
        BY <2>1, <3>2, <3>3, <4>1 DEF RunInv, Final, Active, ACTIVE_RUN_STATUSES
    <3>5. CASE q \notin Reclaimed
      <4>1. status'[q] = status[q] /\ status[q] \in RunStates
        BY <1>1, <1>8, <3>5 DEF TypeOK
      <4>2. Active(q) \/ status[q] \in Final \cup {"none", "gone"}
        BY <4>1 DEF Active, ACTIVE_RUN_STATUSES, RunStates, Final
      <4>3. status[q] = "none" => q \notin running_ids'
        BY <2>1, <3>3 DEF RunInv
      <4>4. status[q] = "none" => Load(q, "worker") = 0
        BY <2>1, <2>2 DEF RunInv, Load, Kinds
      <4>5. (Load(q, "worker") > 0 =>
              q \in running_ids \/ status[q] \in Final \cup {"gone"})'
        BY <2>1, <3>2, <3>3, <4>1, <4>2, <4>4 DEF RunInv
      <4>6. status'[q] = "none" =>
              \A w \in Kinds : waiting'[<<q, w>>] = 0 /\ going'[<<q, w>>] = 0
        BY <2>1, <3>1, <4>1 DEF RunInv, Kinds
      <4>7. QED
        BY <2>1, <3>2, <4>1, <4>3, <4>5, <4>6 DEF RunInv
    <3>6. QED
      BY <3>4, <3>5
  <2>5. QED
    BY <2>3, <2>4
<1>16. KeyInv' /\ FinalStep
  BY <1>1, <1>12, CalmKeys
<1>17. QED
  BY <1>11, <1>13, <1>15, <1>16 DEF IInv

\* create_run.  The run it creates is the youngest, and an older active run of
\* its key that it does not declare stale is older than one it does, so that
\* an earlier request has declared it.
LEMMA CreateStep ==
  ASSUME IInv, NEW k \in Keys, NEW g \in {"open", "needed"},
         NEW spawned \in BOOLEAN, up, create_run(k, g, spawned)
  PROVE  IInv' /\ FinalStep
<1> DEFINE stale == NewestActive(k)
           ended == { r \in stale : ~shadowed[r] }
           born == IF spawned THEN "running" ELSE "pending"
           load == IF spawned THEN 1 ELSE 0
<1>1. TypeOK /\ SlotInv /\ KeyInv
  BY DEF IInv
<1>2. PICK n \in Runs :
        /\ status[n] = "none" /\ \A r \in Runs : r < n => status[r] # "none"
        /\ status' = [r \in Runs |-> IF r = n THEN born
                                     ELSE IF r \in ended THEN "error"
                                     ELSE status[r]]
        /\ declared' = [r \in Runs |-> (declared[r] \/ r \in stale)
                                       /\ r \notin ended]
        /\ age' = [r \in Runs |-> IF r \in ended THEN 0 ELSE age[r]]
        /\ shadowed' = [shadowed EXCEPT ![n] = TRUE]
        /\ key' = [key EXCEPT ![n] = k]
        /\ gate' = [gate EXCEPT ![n] = g]
        /\ waiting' = [waiting EXCEPT ![<<n, "http">>] = load]
        /\ UNCHANGED <<edited, going, running_ids, up, crashes>>
  BY DEF create_run
<1>3. \A r \in stale : r \in Runs /\ Active(r) /\ key[r] = k /\ r # n
  BY <1>2 DEF NewestActive, SameKey, Exists
<1>4. \A r \in ended : r \in stale
  OBVIOUS
<1>5. born \in {"running", "pending"} /\ load \in Nat
      /\ (born = "running" => load = 1)
  OBVIOUS
<1>6. \A r \in Runs : Active(r) /\ key[r] = k =>
        r \in stale \/ \E q \in Runs : r < q /\ Active(q) /\ key[q] = k
  <2>1. ASSUME NEW r \in Runs, Active(r), key[r] = k, r \notin stale
        PROVE  \E q \in Runs : r < q /\ Active(q) /\ key[q] = k
    <3>1. r \in SameKey(k)
      BY <2>1 DEF SameKey, Exists, Active, ACTIVE_RUN_STATUSES
    <3>2. PICK q \in SameKey(k) : Active(q) /\ ~(q <= r)
      BY <2>1, <3>1 DEF NewestActive
    <3>3. q \in Runs /\ key[q] = k
      BY <3>2 DEF SameKey
    <3>4. r < q
      BY <3>2, <3>3, LifecycleAssumption DEF Runs
    <3>5. QED
      BY <3>2, <3>3, <3>4
  <2>2. QED
    BY <2>1
<1> HIDE DEF stale, ended, born, load
<1>7. \A r \in Runs :
        /\ status'[r] = IF r = n THEN born
                        ELSE IF r \in ended THEN "error" ELSE status[r]
        /\ declared'[r] = ((declared[r] \/ r \in stale) /\ r \notin ended)
  BY <1>2
<1>8. \A r \in Runs : key'[r] = (IF r = n THEN k ELSE key[r])
                      /\ gate'[r] = (IF r = n THEN g ELSE gate[r])
  BY <1>1, <1>2 DEF TypeOK
<1>9. /\ waiting' \in [Tasks -> Nat] /\ going' \in [Tasks -> Nat]
      /\ waiting'[<<n, "http">>] = load
      /\ \A r \in Runs, w \in Kinds :
           r # n \/ w = "worker" => waiting'[<<r, w>>] = waiting[<<r, w>>]
  <2>1. waiting \in [Tasks -> Nat] /\ going \in [Tasks -> Nat]
    BY <1>1 DEF TypeOK
  <2>2. <<n, "http">> \in Tasks
        /\ \A r \in Runs, w \in Kinds :
             <<r, w>> \in Tasks
               /\ (r # n \/ w = "worker" => <<r, w>> # <<n, "http">>)
    BY DEF Tasks, Kinds
  <2>3. QED
    BY <1>2, <1>5, <2>1, <2>2
<1>10. \A r \in Runs \ {n} :
         /\ status'[r] \in {status[r], "error"}
         /\ (Active(r)' => Active(r) /\ r \notin ended)
         /\ (status'[r] # status[r] => Active(r) /\ status'[r] = "error")
  <2>1. ASSUME NEW r \in Runs \ {n}
        PROVE  /\ status'[r] \in {status[r], "error"}
               /\ (Active(r)' => Active(r) /\ r \notin ended)
               /\ (status'[r] # status[r] => Active(r) /\ status'[r] = "error")
    <3>1. CASE r \in ended
      <4>1. status'[r] = "error" /\ Active(r)
        BY <1>3, <1>4, <1>7, <2>1, <3>1
      <4>2. ~Active(r)'
        BY <4>1 DEF Active, ACTIVE_RUN_STATUSES
      <4>3. QED
        BY <4>1, <4>2
    <3>2. CASE r \notin ended
      <4>1. status'[r] = status[r]
        BY <1>7, <2>1, <3>2
      <4>2. QED
        BY <3>2, <4>1 DEF Active
    <3>3. QED
      BY <3>1, <3>2
  <2>2. QED
    BY <2>1
<1>11. TypeOK'
  <2>1. status' \in [Runs -> RunStates]
    BY <1>1, <1>2, <1>5 DEF TypeOK, RunStates
  <2>2. declared' \in [Runs -> BOOLEAN]
    <3>1. \A r \in Runs :
            ((declared[r] \/ r \in stale) /\ r \notin ended) \in BOOLEAN
      OBVIOUS
    <3>2. QED
      BY <1>2, <3>1, Zenon
  <2>3. age' \in [Runs -> 0..2] /\ shadowed' \in [Runs -> BOOLEAN]
    BY <1>1, <1>2 DEF TypeOK
  <2>4. key' \in [Runs -> Keys] /\ gate' \in [Runs -> {"open", "needed", "granted"}]
    BY <1>1, <1>2 DEF TypeOK
  <2>5. /\ running_ids' \subseteq Runs /\ edited' \subseteq Runs
        /\ up' \in BOOLEAN /\ crashes' \in 0..MaxCrashes
    BY <1>1, <1>2 DEF TypeOK
  <2>6. QED
    BY <1>9, <2>1, <2>2, <2>3, <2>4, <2>5 DEF TypeOK
<1>12. SlotInv'
  <2>1. n \notin running_ids
    BY <1>2 DEF IInv, RunInv
  <2>2. Held' \subseteq Held
    BY <1>1, <1>2, <1>10, <2>1 DEF Held, TypeOK
  <2>3. QED
    BY <1>1, <2>2, NoMoreHeld
<1>13. KeyInv'
  <2>1. ASSUME NEW q \in Runs, NEW r \in Runs, q < r, status'[q] = "none"
        PROVE  status'[r] = "none"
    <3>1. q # n
      BY <1>5, <1>7, <2>1
    <3>2. status[q] = "none"
      BY <1>10, <2>1, <3>1
    <3>3. status[r] = "none"
      BY <1>1, <2>1, <3>2 DEF KeyInv
    <3>4. n <= q
      BY <1>2, <3>2, LifecycleAssumption DEF Runs
    <3>5. r # n
      BY <2>1, <3>4, LifecycleAssumption DEF Runs
    <3>6. ~Active(r)
      BY <3>3 DEF Active, ACTIVE_RUN_STATUSES
    <3>7. QED
      BY <1>10, <3>3, <3>5, <3>6
  <2>2. ASSUME NEW q \in Runs, NEW r \in Runs, q < r, Active(q)', Active(r)',
               key'[q] = key'[r]
        PROVE  declared'[q]
    <3>1. q # n
      <4>1. ASSUME q = n
            PROVE  FALSE
        <5>1. status[r] = "none" /\ r # n
          BY <1>1, <1>2, <2>2, <4>1, LifecycleAssumption DEF KeyInv, Runs
        <5>2. Active(r)
          BY <1>10, <2>2, <5>1
        <5>3. QED
          BY <5>1, <5>2 DEF Active, ACTIVE_RUN_STATUSES
      <4>2. QED
        BY <4>1
    <3>2. Active(q) /\ q \notin ended
      BY <1>10, <2>2, <3>1
    <3>3. CASE r = n
      <4>1. key[q] = k
        BY <1>8, <2>2, <3>1, <3>3
      <4>2. CASE q \in stale
        BY <1>7, <3>2, <4>2
      <4>3. CASE q \notin stale
        <5>1. PICK p \in Runs : q < p /\ Active(p) /\ key[p] = k
          BY <1>6, <3>2, <4>1, <4>3
        <5>2. declared[q]
          BY <1>1, <3>2, <4>1, <5>1 DEF KeyInv, DuplicatesWereStale
        <5>3. QED
          BY <1>7, <3>2, <5>2
      <4>4. QED
        BY <4>2, <4>3
    <3>4. CASE r # n
      <4>1. Active(r) /\ key[q] = key[r]
        BY <1>8, <1>10, <2>2, <3>1, <3>4
      <4>2. declared[q]
        BY <1>1, <2>2, <3>2, <4>1 DEF KeyInv, DuplicatesWereStale
      <4>3. QED
        BY <1>7, <3>2, <4>2
    <3>5. QED
      BY <3>3, <3>4
  <2>3. QED
    BY <2>1, <2>2 DEF KeyInv, DuplicatesWereStale
<1>14. ASSUME NEW q \in Runs
       PROVE  RunInv(q)'
  <2>1. /\ RunInv(q) /\ going' = going /\ running_ids' = running_ids
        /\ up' = up /\ edited' = edited
    BY <1>2 DEF IInv
  <2>2. CASE q = n
    <3>1. /\ q \notin running_ids
          /\ \A w \in Kinds : waiting[<<q, w>>] = 0 /\ going[<<q, w>>] = 0
      BY <1>2, <2>1, <2>2 DEF RunInv
    <3>2. Load(q, "http")' = load /\ Load(q, "worker")' = 0
      BY <1>5, <1>9, <2>1, <2>2, <3>1 DEF Load, Kinds
    <3>3. status'[q] = born
      BY <1>7, <2>2
    <3>4. QED
      BY <1>5, <2>1, <3>1, <3>2, <3>3 DEF RunInv
  <2>3. CASE q # n
    <3>1. \A w \in Kinds : waiting'[<<q, w>>] = waiting[<<q, w>>]
      BY <1>9, <2>3
    <3>2. gate'[q] = gate[q]
      BY <1>8, <2>3
    <3>3. CASE status'[q] = status[q]
      BY <2>1, <3>1, <3>2, <3>3, SameRun DEF Others
    <3>4. CASE status'[q] # status[q]
      <4>1. status'[q] = "error"
        BY <1>10, <2>3, <3>4
      <4>2. Load(q, "worker")' = Load(q, "worker")
        BY <2>1, <3>1 DEF Load, Kinds
      <4>3. QED
        BY <2>1, <3>1, <3>2, <4>1, <4>2 DEF RunInv, Final
    <3>5. QED
      BY <3>3, <3>4
  <2>4. QED
    BY <2>2, <2>3
<1>15. FinalStep
  <2>1. ASSUME NEW r \in Runs, status[r] \in Final
        PROVE  status'[r] \in {status[r], "gone"}
    <3>1. r # n /\ ~Active(r)
      BY <1>2, <2>1 DEF Final, Active, ACTIVE_RUN_STATUSES
    <3>2. QED
      BY <1>10, <3>1
  <2>2. QED
    BY <2>1 DEF FinalStep
<1>16. QED
  BY <1>11, <1>12, <1>13, <1>14, <1>15 DEF IInv

-----------------------------------------------------------------------------
(***************************************************************************)
(* The theorems.                                                           *)
(***************************************************************************)

\* The first state satisfies the invariant.
LEMMA InitStep ==
  ASSUME Init
  PROVE  IInv
<1>1. TypeOK
  <2>1. key \in [Runs -> Keys]
    BY DEF Init
  <2>2. NoPipelines \in [Tasks -> Nat]
    BY DEF NoPipelines
  <2>3. QED
    BY <2>1, <2>2, LifecycleAssumption DEF Init, TypeOK, RunStates
<1>2. ASSUME NEW q \in Runs
      PROVE  RunInv(q)
  <2>1. \A w \in Kinds : waiting[<<q, w>>] = 0 /\ going[<<q, w>>] = 0
    BY DEF Init, NoPipelines, Tasks
  <2>2. Load(q, "worker") = 0
    BY <2>1 DEF Load, Kinds
  <2>3. QED
    BY <2>1, <2>2 DEF Init, RunInv
<1>3. SlotInv
  <2>1. Held = {}
    BY DEF Init, Held
  <2>2. QED
    BY <2>1, FS_EmptySet, LifecycleAssumption DEF SlotInv
<1>4. KeyInv
  BY DEF Init, KeyInv, DuplicatesWereStale, Active, ACTIVE_RUN_STATUSES
<1>5. QED
  BY <1>1, <1>2, <1>3, <1>4 DEF IInv

\* Every step keeps the invariant and every outcome.
LEMMA NextStep ==
  ASSUME IInv, [Next]_vars
  PROVE  IInv' /\ FinalStep
<1>1. CASE Request
  <2>1. CASE CreateRun
    BY <2>1, CreateStep DEF CreateRun
  <2>2. ASSUME NEW r \in Runs, Rerun(r)
        PROVE  IInv' /\ FinalStep
    <3>1. key[r] \in Keys
      BY DEF IInv, TypeOK
    <3>2. QED
      BY <2>2, <3>1, CreateStep DEF Rerun
  <2>3. QED
    BY <1>1, <2>1, <2>2, EditStep, RequestSteps DEF Request
<1>2. ASSUME NEW r \in Runs, NEW w \in Kinds, Advance(r, w) \/ Beat(r, w)
      PROVE  IInv' /\ FinalStep
  <2>1. CASE Advance(r, w)
    BY <2>1, StartStep, EndSteps, StartOnNothingStep DEF Advance
  <2>2. CASE Beat(r, w)
    BY <2>2, HeartbeatSteps
  <2>3. QED
    BY <1>2, <2>1, <2>2
<1>3. CASE \E allow \in BOOLEAN : Tick(allow)
  BY <1>3, TickStep
<1>4. CASE \E r \in Runs : Cleanup(r) \/ Age(r)
  BY <1>4, RequestSteps, HeartbeatSteps
<1>5. CASE GoDown \/ ComeUp
  BY <1>5, GoDownStep, ComeUpStep
<1>6. CASE UNCHANGED vars
  <2>1. UNCHANGED <<status, shadowed, age, key, gate, edited, declared, waiting,
                    going, running_ids, up, crashes>>
    BY <1>6 DEF vars
  <2>2. TypeOK'
    BY <2>1 DEF IInv, TypeOK
  <2>3. Calm
    BY <2>1 DEF Calm, Active
  <2>4. \A q \in Runs : RunInv(q)'
    BY <2>1, SameRun DEF IInv, Others
  <2>5. QED
    BY <2>1, <2>2, <2>3, <2>4, CalmStep
<1>7. QED
  BY <1>1, <1>2, <1>3, <1>4, <1>5, <1>6 DEF Next

\* The strengthened invariant is one.
THEOREM Invariant == Spec => []IInv
<1>1. Init => IInv
  BY InitStep
<1>2. IInv /\ [Next]_vars => IInv'
  BY NextStep
<1>3. QED
  BY <1>1, <1>2, PTL DEF Spec

\* Every variable keeps its type.
THEOREM TypeCorrect == Spec => []TypeOK
<1>1. IInv => TypeOK
  BY DEF IInv
<1>2. QED
  BY <1>1, Invariant, PTL

\* A running run has a pipeline, however many requests, reclaims, crashes and
\* pipelines of the same run there are.
THEOREM NoRunLeftBehind == Spec => []RunningHasPipeline
<1>1. IInv => RunningHasPipeline
  BY DEF IInv, RunInv, RunningHasPipeline
<1>2. QED
  BY <1>1, Invariant, PTL

\* The worker never has two pipelines of one run.
THEOREM WorkerOnce == Spec => []WorkerRunsOnce
<1>1. IInv => WorkerRunsOnce
  BY DEF IInv, RunInv, WorkerRunsOnce
<1>2. QED
  BY <1>1, Invariant, PTL

\* The worker's active runs stay within max_concurrent_runs.
THEOREM SlotBound == Spec => []SlotsRespected
<1>1. IInv => SlotsRespected
  <2> SUFFICES ASSUME IInv
               PROVE  SlotsRespected
    OBVIOUS
  <2> DEFINE S == { r \in Runs : Active(r) /\ Load(r, "worker") > 0 }
  <2>1. S \subseteq Held
    <3>1. ASSUME NEW r \in Runs, Active(r), Load(r, "worker") > 0
          PROVE  r \in Held
      <4>1. status[r] \notin Final \cup {"gone"}
        BY <3>1 DEF Active, ACTIVE_RUN_STATUSES, Final
      <4>2. QED
        BY <3>1, <4>1 DEF IInv, RunInv, Held
    <3>2. QED
      BY <3>1
  <2>2. S \in SUBSET Runs /\ Held \in SUBSET Runs
    BY DEF IInv, TypeOK, Held
  <2> HIDE DEF S
  <2>3. Cardinality(S) \in Nat /\ Cardinality(Held) \in Nat /\ IsFiniteSet(Held)
    BY <2>2, FiniteRuns
  <2>4. Cardinality(S) <= Cardinality(Held)
    BY <2>1, <2>3, FS_Subset
  <2>5. Cardinality(S) <= MaxSlots
    BY <2>3, <2>4, LifecycleAssumption DEF IInv, SlotInv
  <2>6. QED
    BY <2>5 DEF SlotsRespected, S
<1>2. QED
  BY <1>1, Invariant, PTL

\* No pipeline of a run that waits for a human is past the gates.
THEOREM GatesHold == Spec => []NothingRunsUnapproved
<1>1. IInv => NothingRunsUnapproved
  BY DEF IInv, RunInv, NothingRunsUnapproved
<1>2. QED
  BY <1>1, Invariant, PTL

\* Active runs of one key: all but the youngest have been declared stale.
THEOREM OnlyStaleDuplicates == Spec => []DuplicatesWereStale
<1>1. IInv => DuplicatesWereStale
  BY DEF IInv, KeyInv
<1>2. QED
  BY <1>1, Invariant, PTL

\* No step takes an outcome back.
THEOREM OutcomesAreFinal == Spec => OutcomeIsFinal
<1>1. IInv /\ [Next]_vars =>
        [ \A r \in Runs : status[r] \in {"done", "error", "cancelled"} =>
                            status'[r] \in {status[r], "gone"} ]_vars
  BY NextStep DEF FinalStep, Final
<1>2. QED
  BY <1>1, Invariant, PTL DEF Spec, OutcomeIsFinal

-----------------------------------------------------------------------------
(***************************************************************************)
(* What one step does to one run.                                          *)
(***************************************************************************)

\* The status machine of update_run_status as a relation, with the creation of
\* a run (pending, or running if its pipeline is spawned at once) and its
\* removal.
Lawful(q, s) ==
  \/ s = q \/ s \in VALID_TRANSITIONS(q)
  \/ q = "none" /\ s \in {"pending", "running"}
  \/ q # "none" /\ s = "gone"

\* Requests, pipelines, the worker, the retention sweep and the startup
\* reconcile move every run along VALID_TRANSITIONS, also those that write a
\* run's files themselves (create_run's stale recovery, cleanup_old_runs).
StatusesFollow ==
  [][\A r \in Runs : Lawful(status[r], status'[r])]_vars

\* A human is asked about a run once: the approval is not forgotten, and no
\* pipeline of the run halts again, a late one of before the approval included
\* (resume_run, the approved contexts of the gates).
AskedOnce ==
  [][\A r \in Runs :
       gate[r] = "granted" =>
         gate'[r] = "granted" /\ status'[r] # "HUMAN_APPROVAL_REQUIRED"]_vars

\* What OnePipelineAtATime is too strong for: a run has two pipelines at most,
\* one that the request spawned and one of the worker's.
TwoPipelinesAtMost ==
  \A r \in Runs, w \in Kinds : Load(r, w) <= 1

\* A run gets a spawned pipeline only when it is created; its gate may change
\* as long as it is not granted.
RunStepOK(r) ==
  /\ Lawful(status[r], status'[r])
  /\ status'[r] = "none" => status[r] = "none"
  /\ gate[r] = "granted" => gate'[r] = "granted" \/ status[r] = "none"
  /\ gate'[r] # gate[r] => status'[r] # "none"
  /\ Load(r, "http")' <= Load(r, "http")
       \/ (status[r] = "none" /\ Load(r, "http")' <= 1)

NewInv ==
  \A r \in Runs : /\ status[r] = "none" => gate[r] = "open"
                  /\ Load(r, "http") <= 1

\* Every outcome that a caller asks for is lawful.
LEMMA RequestsLawful ==
  /\ \A q \in RunStates, s \in {"done", "error", "HUMAN_APPROVAL_REQUIRED"} :
       /\ Lawful(q, Ended(q, s))
       /\ Lawful(q, Ended(IF q = "pending" THEN "running" ELSE q, s))
  /\ \A q \in RunStates, s \in {"pending", "cancelled"} : Lawful(q, Moved(q, s))
  /\ \A q \in RunStates : Lawful(q, IF q = "pending" THEN "running" ELSE q)
  /\ \A q \in Alive : Lawful(q, "error")
  /\ Lawful("running", "pending")
BY DEF Lawful, Ended, Moved, VALID_TRANSITIONS, FromRunning, RunStates, Alive

\* None of them is the status of a run that does not exist.
LEMMA RequestsExist ==
  \A q \in RunStates \ {"none"},
     s \in {"pending", "done", "error", "cancelled", "HUMAN_APPROVAL_REQUIRED"} :
    /\ Moved(q, s) # "none" /\ Ended(q, s) # "none"
    /\ Ended(IF q = "pending" THEN "running" ELSE q, s) # "none"
BY DEF Ended, Moved, RunStates

\* A step that leaves statuses, gates and the pipelines of requests alone.
LEMMA StillOK ==
  ASSUME UNCHANGED <<status, gate>>, NEW r \in Runs,
         waiting'[<<r, "http">>] = waiting[<<r, "http">>],
         going'[<<r, "http">>] = going[<<r, "http">>],
         TypeOK
  PROVE  RunStepOK(r)
<1>1. Load(r, "http")' = Load(r, "http") /\ Load(r, "http") \in Nat
  BY DEF Load, TypeOK, Tasks, Kinds
<1>2. QED
  BY <1>1 DEF RunStepOK, Lawful

\* A step that writes one run.
LEMMA WriteOK ==
  ASSUME TypeOK, NEW q \in Runs, NEW s, NEW a, Write(q, s, a),
         s # "none", status[q] # "none", Lawful(status[q], s),
         gate' = gate \/ gate' = [gate EXCEPT ![q] = "granted"],
         NEW r \in Runs, Load(r, "http")' <= Load(r, "http")
  PROVE  RunStepOK(r)
<1>1. status'[r] = IF r = q THEN s ELSE status[r]
  BY DEF Write, TypeOK
<1>2. gate'[r] = gate[r] \/ (r = q /\ gate'[r] = "granted")
  BY DEF TypeOK
<1>3. QED
  BY <1>1, <1>2 DEF RunStepOK, Lawful

\* A pipeline that starts, moves on or ends is one that was there.
LEMMA LoadFalls ==
  ASSUME TypeOK, NEW q \in Runs, NEW w \in Kinds,
         \/ /\ waiting[<<q, w>>] > 0
            /\ waiting' = [waiting EXCEPT ![<<q, w>>] = @ - 1]
            /\ going' \in {going, [going EXCEPT ![<<q, w>>] = @ + 1]}
         \/ /\ going[<<q, w>>] > 0
            /\ going' = [going EXCEPT ![<<q, w>>] = @ - 1]
            /\ waiting' = waiting,
         NEW r \in Runs
  PROVE  Load(r, "http")' <= Load(r, "http")
<1>1. /\ <<q, w>> \in Tasks /\ <<r, "http">> \in Tasks
      /\ waiting[<<q, w>>] \in Nat /\ going[<<q, w>>] \in Nat
      /\ waiting[<<r, "http">>] \in Nat /\ going[<<r, "http">>] \in Nat
  BY DEF TypeOK, Tasks, Kinds
<1>2. waiting \in [Tasks -> Nat] /\ going \in [Tasks -> Nat]
  BY DEF TypeOK
<1> DEFINE t == <<q, w>>
           u == <<r, "http">>
<1>3. t \in Tasks /\ u \in Tasks
  BY <1>1
<1> HIDE DEF t, u
<1>4. CASE t = u
  <2>1. waiting'[u] + going'[u] <= waiting[u] + going[u]
    BY <1>1, <1>2, <1>3, <1>4 DEF t, u
  <2>2. QED
    BY <2>1 DEF Load, u
<1>5. CASE t # u
  <2>1. waiting'[u] = waiting[u] /\ going'[u] = going[u]
    BY <1>2, <1>3, <1>5 DEF t
  <2>2. QED
    BY <2>1, <1>1 DEF Load, u
<1>6. QED
  BY <1>4, <1>5

\* A new run starts in a status it may start in, with at most one spawned pipeline.
LEMMA CreateOK ==
  ASSUME IInv, NEW k \in Keys, NEW g \in {"open", "needed"},
         NEW spawned \in BOOLEAN, create_run(k, g, spawned), NEW r \in Runs
  PROVE  RunStepOK(r)
<1>1. PICK n \in Runs :
        /\ status[n] = "none"
        /\ LET stale == NewestActive(k)
               ended == { q \in stale : ~shadowed[q] }
               born  == IF spawned THEN "running" ELSE "pending"
           IN status' = [q \in Runs |-> IF q = n THEN born
                                        ELSE IF q \in ended THEN "error"
                                        ELSE status[q]]
        /\ gate' = [gate EXCEPT ![n] = g]
        /\ waiting' = [waiting EXCEPT ![<<n, "http">>] = IF spawned THEN 1 ELSE 0]
        /\ going' = going
  BY DEF create_run
<1>2. TypeOK /\ RunInv(n)
  BY DEF IInv
<1>3. /\ <<n, "http">> \in Tasks /\ <<r, "http">> \in Tasks
      /\ <<r, "http">> = <<n, "http">> <=> r = n
      /\ waiting[<<r, "http">>] \in Nat /\ going[<<r, "http">>] \in Nat
  BY <1>2 DEF TypeOK, Tasks, Kinds
<1>4. CASE r = n
  <2>1. status'[r] \in {"pending", "running"}
    BY <1>1, <1>4
  <2>2. going'[<<r, "http">>] = 0 /\ waiting'[<<r, "http">>] \in 0..1
    BY <1>1, <1>2, <1>3, <1>4 DEF RunInv, TypeOK, Kinds
  <2>3. Load(r, "http")' <= 1
    BY <2>2 DEF Load
  <2>4. QED
    BY <1>1, <1>4, <2>1, <2>3 DEF RunStepOK, Lawful
<1>5. CASE r # n
  <2>1. status'[r] = status[r] \/ (status'[r] = "error" /\ status[r] \in Alive)
    <3>1. \A q \in NewestActive(k) : q \in Runs /\ status[q] \in Alive
      BY <1>2, ActiveIsAlive DEF NewestActive, SameKey, Active, TypeOK
    <3>2. QED
      BY <1>1, <1>5, <3>1
  <2>2. Lawful(status[r], status'[r]) /\ (status'[r] = "none" => status[r] = "none")
    BY <2>1, RequestsLawful DEF Lawful
  <2>3. gate'[r] = gate[r]
    BY <1>1, <1>2, <1>5 DEF TypeOK
  <2>4. Load(r, "http")' <= Load(r, "http")
    <3>1. waiting'[<<r, "http">>] = waiting[<<r, "http">>]
      BY <1>1, <1>2, <1>3, <1>5 DEF TypeOK
    <3>2. QED
      BY <1>1, <1>3, <3>1 DEF Load
  <2>5. QED
    BY <2>2, <2>3, <2>4 DEF RunStepOK
<1>6. QED
  BY <1>4, <1>5

\* Every step of anybody does to a run only what RunStepOK allows.
LEMMA StepOK ==
  ASSUME IInv, [Next]_vars, NEW r \in Runs
  PROVE  RunStepOK(r)
<1>0. TypeOK /\ Load(r, "http") \in Nat
  BY DEF IInv, TypeOK, Load, Tasks, Kinds
<1>00. \A q \in Runs : status[q] \in RunStates
  BY <1>0 DEF TypeOK
<1>1. CASE CreateRun
  BY <1>1, CreateOK DEF CreateRun
<1>2. ASSUME NEW q \in Runs, Rerun(q) PROVE RunStepOK(r)
  <2>1. key[q] \in Keys
    BY <1>0 DEF TypeOK
  <2>2. QED
    BY <1>2, <2>1, CreateOK DEF Rerun
<1>3. ASSUME waiting' = waiting, going' = going
      PROVE  Load(r, "http")' <= Load(r, "http")
  BY <1>0, <1>3 DEF Load
<1>4. ASSUME NEW q \in Runs,
             Approve(q) \/ Reject(q) \/ Cancel(q) \/ Cleanup(q)
      PROVE  RunStepOK(r)
  <2>1. Load(r, "http")' <= Load(r, "http")
    BY <1>3, <1>4 DEF Approve, Reject, Cancel, Cleanup
  <2>2. status[q] # "none"
    BY <1>4 DEF Approve, Reject, Cancel, Cleanup, Exists, RESUMABLE_RUN_STATUSES
  <2>3. PICK s, a : /\ Write(q, s, a) /\ s # "none" /\ Lawful(status[q], s)
    <3>1. CASE Approve(q)
      BY <1>00, <2>2, <3>1, RequestsLawful, RequestsExist DEF Approve
    <3>2. CASE Reject(q)
      BY <1>00, <2>2, <3>2, RequestsLawful, RequestsExist DEF Reject
    <3>3. CASE Cancel(q)
      BY <1>00, <2>2, <3>3, RequestsLawful, RequestsExist DEF Cancel
    <3>4. CASE Cleanup(q)
      BY <2>2, <3>4 DEF Cleanup, Lawful
    <3>5. QED
      BY <1>4, <3>1, <3>2, <3>3, <3>4
  <2>4. gate' = gate \/ gate' = [gate EXCEPT ![q] = "granted"]
    BY <1>4 DEF Approve, Reject, Cancel, Cleanup
  <2>5. QED
    BY <1>0, <2>1, <2>2, <2>3, <2>4, WriteOK
<1>5. ASSUME NEW q \in Runs, NEW w \in Kinds,
             Start(q, w) \/ StartHalts(q, w) \/ StartFails(q, w)
      PROVE  RunStepOK(r)
  <2>1. Load(r, "http")' <= Load(r, "http")
    BY <1>0, <1>5, LoadFalls DEF Start, StartHalts, StartFails
  <2>2. status[q] # "none" /\ gate' = gate
    BY <1>5 DEF Start, StartHalts, StartFails, Exists
  <2>3. PICK s, a : /\ Write(q, s, a) /\ s # "none" /\ Lawful(status[q], s)
    <3>1. CASE Start(q, w)
      BY <1>00, <2>2, <3>1, RequestsLawful DEF Start, Started
    <3>2. CASE StartHalts(q, w)
      BY <1>00, <2>2, <3>2, RequestsLawful, RequestsExist DEF StartHalts, Started
    <3>3. CASE StartFails(q, w)
      BY <1>00, <2>2, <3>3, RequestsLawful, RequestsExist DEF StartFails, Started
    <3>4. QED
      BY <1>5, <3>1, <3>2, <3>3
  <2>4. QED
    BY <1>0, <2>1, <2>2, <2>3, WriteOK
<1>6. ASSUME NEW q \in Runs, NEW w \in Kinds, StartOnNothing(q, w)
      PROVE  RunStepOK(r)
  <2>1. Load(r, "http")' <= Load(r, "http")
    BY <1>0, <1>6, LoadFalls DEF StartOnNothing
  <2>2. QED
    BY <1>6, <2>1 DEF StartOnNothing, RunStepOK, Lawful
<1>7. ASSUME NEW q \in Runs, NEW w \in Kinds, NEW s \in {"done", "error"},
             Finish(q, w, s)
      PROVE  RunStepOK(r)
  <2>1. Load(r, "http")' <= Load(r, "http")
    BY <1>0, <1>7, LoadFalls DEF Finish
  <2> DEFINE z == IF Exists(q) THEN Ended(status[q], s) ELSE status[q]
  <2>2. status[q] # "none"
    BY <1>7 DEF Finish, IInv, RunInv
  <2>3. Lawful(status[q], z) /\ z # "none"
    BY <1>00, <2>2, RequestsLawful, RequestsExist DEF Lawful
  <2>4. Write(q, z, age[q]) /\ gate' = gate
    BY <1>7 DEF Finish
  <2> HIDE DEF z
  <2>5. QED
    BY <1>0, <2>1, <2>2, <2>3, <2>4, WriteOK
<1>8. ASSUME NEW q \in Runs, (\E w \in Kinds : Beat(q, w)) \/ Age(q)
      PROVE  RunStepOK(r)
  BY <1>0, <1>8, StillOK DEF Beat, Age
<1>9. ASSUME NEW allow \in BOOLEAN, Tick(allow)
      PROVE  RunStepOK(r)
  <2>1. /\ status'[r] = IF r \in Reclaimed THEN "pending" ELSE status[r]
        /\ r \in Reclaimed => status[r] = "running"
        /\ gate' = gate
    BY <1>9 DEF Tick, Reclaimed
  <2>2. Load(r, "http")' = Load(r, "http")
    <3>1. <<r, "http">> \in Tasks
      BY DEF Tasks, Kinds
    <3>2. waiting'[<<r, "http">>] = waiting[<<r, "http">>] /\ going' = going
      BY <1>9, <3>1 DEF Tick
    <3>3. QED
      BY <3>2 DEF Load
  <2>3. QED
    BY <1>0, <2>1, <2>2, RequestsLawful DEF RunStepOK, Lawful
<1>10. CASE GoDown
  <2>1. Load(r, "http")' = 0
    BY <1>10 DEF GoDown, NoPipelines, Load, Tasks, Kinds
  <2>2. QED
    BY <1>0, <1>10, <2>1 DEF GoDown, files, RunStepOK, Lawful
<1>11. CASE ComeUp
  <2>1. /\ status'[r] = IF status[r] = "running" THEN "error" ELSE status[r]
        /\ gate' = gate
    BY <1>11 DEF ComeUp
  <2>2. Load(r, "http")' <= Load(r, "http")
    BY <1>3, <1>11 DEF ComeUp
  <2>3. QED
    BY <2>1, <2>2, RequestsLawful DEF RunStepOK, Lawful, Alive
<1>12. CASE UNCHANGED vars
  BY <1>0, <1>12, StillOK DEF vars
<1>13. CASE update_draft
  <2>1. PICK q \in Runs, g \in {"open", "needed"} :
          Active(q) /\ gate[q] # "granted" /\ gate' = [gate EXCEPT ![q] = g]
    BY <1>13 DEF update_draft
  <2>2. Active(q) => status[q] # "none"
    BY DEF Active, ACTIVE_RUN_STATUSES
  <2>3. status' = status /\ Load(r, "http")' <= Load(r, "http")
    BY <1>3, <1>13 DEF update_draft
  <2>4. gate'[r] # gate[r] => r = q
    BY <1>0, <2>1 DEF TypeOK
  <2>5. QED
    BY <2>1, <2>2, <2>3, <2>4 DEF RunStepOK, Lawful
<1>14. QED
  BY <1>1, <1>2, <1>4, <1>5, <1>6, <1>7, <1>8, <1>9, <1>10, <1>11, <1>12,
     <1>13 DEF Next, Request, Advance

\* Every run follows the status table from its creation to its removal.
THEOREM RunsFollowTable == Spec => StatusesFollow
<1>1. IInv /\ [Next]_vars => [\A r \in Runs : Lawful(status[r], status'[r])]_vars
  BY StepOK DEF RunStepOK
<1>2. QED
  BY <1>1, Invariant, PTL DEF Spec, StatusesFollow

\* A run that does not exist has an open gate; a run has one spawned pipeline
\* at most.
LEMMA NewInvHolds == Spec => []NewInv
<1>1. Init => NewInv
  BY DEF Init, NewInv, NoPipelines, Load, Tasks, Kinds
<1>2. IInv /\ NewInv /\ [Next]_vars => NewInv'
  <2> SUFFICES ASSUME IInv, NewInv, [Next]_vars, NEW r \in Runs
               PROVE  /\ status'[r] = "none" => gate'[r] = "open"
                      /\ Load(r, "http")' <= 1
    BY DEF NewInv
  <2>1. RunStepOK(r)
    BY StepOK
  <2>2. Load(r, "http") \in Nat /\ Load(r, "http")' \in Nat
    <3>1. TypeOK /\ TypeOK'
      BY NextStep DEF IInv
    <3>2. QED
      BY <3>1 DEF TypeOK, Load, Tasks, Kinds
  <2>3. QED
    BY <2>1, <2>2 DEF RunStepOK, NewInv
<1>3. QED
  BY <1>1, <1>2, Invariant, PTL DEF Spec

\* A run never has more than the pipeline its request spawned and one of the
\* worker's, however often it is reclaimed, approved or restarted.
THEOREM NoThirdPipeline == Spec => []TwoPipelinesAtMost
<1>1. IInv /\ NewInv => TwoPipelinesAtMost
  BY DEF IInv, RunInv, NewInv, TwoPipelinesAtMost, Kinds
<1>2. QED
  BY <1>1, Invariant, NewInvHolds, PTL

\* Nobody is asked twice about one run.
THEOREM ApprovalLasts == Spec => AskedOnce
<1>1. ASSUME IInv, NewInv, [Next]_vars, NEW r \in Runs, gate[r] = "granted"
      PROVE  gate'[r] = "granted" /\ status'[r] # "HUMAN_APPROVAL_REQUIRED"
  <2>1. RunStepOK(r) /\ status[r] # "none"
    BY <1>1, StepOK DEF NewInv
  <2>2. gate'[r] = "granted"
    BY <1>1, <2>1 DEF RunStepOK
  <2>3. IInv'
    BY <1>1, NextStep
  <2>4. QED
    BY <2>2, <2>3 DEF IInv, RunInv
<1>2. IInv /\ NewInv /\ [Next]_vars =>
        [\A r \in Runs :
           gate[r] = "granted" =>
             gate'[r] = "granted" /\ status'[r] # "HUMAN_APPROVAL_REQUIRED"]_vars
  BY <1>1
<1>3. QED
  BY <1>2, Invariant, NewInvHolds, PTL DEF Spec, AskedOnce

-----------------------------------------------------------------------------
(***************************************************************************)
(* Nobody holds a slot for nothing.                                        *)
(***************************************************************************)

\* Statuses from which the worker starts a run, or will once a human approves.
Queued == {"pending", "HUMAN_APPROVAL_REQUIRED"}

\* The worker that holds the run's id has a pipeline of it; of a queued run whose
\* draft was not edited under it, one that has yet to start.
AtWork(r) ==
  r \in running_ids =>
    /\ Load(r, "worker") > 0
    /\ status[r] \in Queued /\ r \notin edited => waiting[<<r, "worker">>] > 0

\* An id in _running_ids is that of a run with a pipeline of the worker, so no
\* slot leaks; and if that run is queued, or waits for a human and will be
\* queued, its pipeline has yet to start and will run it, so the tick may pass
\* it over (_tick, the finally clause of _execute_run).  An edit of the draft
\* may have a second pipeline halt a run whose first is past the gates, and the
\* first then ends it.  This is the safety that Settles rests on.
HeldIsAtWork == \A r \in Runs : AtWork(r)

\* A step that neither holds the run anew nor touches its pipeline of the
\* worker, and queues it only if it was queued.
LEMMA StaysAtWork ==
  ASSUME NEW r \in Runs, AtWork(r),
         r \in running_ids' => r \in running_ids,
         status'[r] \in Queued => status[r] \in Queued,
         r \in edited => r \in edited',
         waiting'[<<r, "worker">>] = waiting[<<r, "worker">>],
         going'[<<r, "worker">>] = going[<<r, "worker">>]
  PROVE  AtWork(r)'
<1>1. Load(r, "worker")' = Load(r, "worker")
  BY DEF Load
<1>2. QED
  BY <1>1 DEF AtWork

\* The end of a pipeline puts nobody back in the queue.
LEMMA EndsUnqueued ==
  \A q \in RunStates, s \in {"done", "error"} :
    q \notin {"none", "gone"} => Ended(q, s) \notin Queued
BY Outcomes DEF RunStates, Alive, Final, Queued

\* A pipeline that starts, or ends, keeps held runs at work.
LEMMA PipelineAtWork ==
  ASSUME IInv, NEW q \in Runs, NEW w \in Kinds, Advance(q, w),
         NEW r \in Runs, AtWork(r)
  PROVE  AtWork(r)'
<1> DEFINE t == <<q, w>>
           u == <<r, "worker">>
<1>1. /\ t \in Tasks /\ u \in Tasks /\ (t = u <=> (r = q /\ w = "worker"))
      /\ status \in [Runs -> RunStates]
      /\ waiting \in [Tasks -> Nat] /\ going \in [Tasks -> Nat]
      /\ w \in {"http", "worker"}
  BY DEF Tasks, Kinds, IInv, TypeOK
<1>2. /\ r \in running_ids' => r \in running_ids
      /\ r # q => status'[r] = status[r]
      /\ t # u => waiting'[u] = waiting[u] /\ going'[u] = going[u]
      /\ edited' = edited
  <2>1. /\ running_ids' \subseteq running_ids /\ edited' = edited
        /\ \A v \in Tasks : v # t => waiting'[v] = waiting[v] /\ going'[v] = going[v]
    BY <1>1 DEF Advance, Start, StartHalts, StartFails, StartOnNothing, Finish,
       Leave
  <2>2. r # q => status'[r] = status[r]
    BY <1>1 DEF Advance, Start, StartHalts, StartFails, StartOnNothing, Finish,
       Write
  <2>3. QED
    BY <1>1, <2>1, <2>2
<1>3. CASE r # q
  BY <1>1, <1>2, <1>3, StaysAtWork
<1>4. CASE r = q /\ Start(q, w)
  <2>1. status'[r] = Started(r)
    BY <1>1, <1>4 DEF Start, Write
  <2>2. status'[r] \in Queued => r \in edited'
    BY <1>1, <1>2, <1>4, <2>1 DEF Start, Started, Queued, IInv, RunInv
  <2>3. Load(r, "worker")' = Load(r, "worker")
    <3>1. CASE w = "worker"
      <4>1. /\ waiting[u] \in Nat /\ going[u] \in Nat /\ waiting[u] > 0
            /\ waiting'[u] = waiting[u] - 1 /\ going'[u] = going[u] + 1
        BY <1>1, <1>4, <3>1 DEF Start
      <4>2. QED
        BY <4>1 DEF Load
    <3>2. CASE w # "worker"
      BY <1>1, <1>2, <3>2 DEF Load
    <3>3. QED
      BY <3>1, <3>2
  <2>4. QED
    BY <1>2, <2>2, <2>3 DEF AtWork
<1>5. CASE r = q /\ w = "worker" /\ ~Start(q, w)
  BY <1>5 DEF Advance, StartHalts, StartFails, StartOnNothing, Finish, Leave,
     AtWork
<1>6. CASE r = q /\ w = "http" /\ StartHalts(q, w)
  <2>1. gate[r] = "needed" /\ waiting'[u] = waiting[u] /\ going'[u] = going[u]
    BY <1>1, <1>2, <1>6 DEF StartHalts
  <2>2. (r \notin edited => going[u] = 0) /\ waiting[u] \in Nat
    BY <1>1, <2>1 DEF IInv, RunInv, Kinds
  <2>3. r \in running_ids /\ r \notin edited => waiting[u] > 0
    BY <2>2 DEF AtWork, Load
  <2>4. QED
    BY <1>2, <2>1, <2>2, <2>3 DEF AtWork, Load
<1>7. CASE r = q /\ w = "http" /\ ~Start(q, w) /\ ~StartHalts(q, w)
  <2>1. status'[r] \notin Queued
    <3>1. CASE StartFails(q, w)
      <4>1. /\ status'[r] = Ended(Started(r), "error")
            /\ status[r] \in RunStates \ {"none", "gone"}
        BY <1>1, <1>7, <3>1 DEF StartFails, Write, Exists
      <4>2. Started(r) \in RunStates \ {"none", "gone"}
        BY <4>1 DEF Started, RunStates
      <4>3. QED
        BY <4>1, <4>2, EndsUnqueued
    <3>2. CASE StartOnNothing(q, w)
      BY <1>7, <3>2 DEF StartOnNothing, Queued
    <3>3. ASSUME NEW s \in {"done", "error"}, Finish(q, w, s)
          PROVE  status'[r] \notin Queued
      <4>1. status'[r] = IF Exists(r) THEN Ended(status[r], s) ELSE status[r]
        BY <1>1, <1>7, <3>3 DEF Finish, Write
      <4>2. QED
        BY <1>1, <4>1, EndsUnqueued DEF Exists, Queued
    <3>4. QED
      BY <1>7, <3>1, <3>2, <3>3 DEF Advance
  <2>2. QED
    BY <1>1, <1>2, <1>7, <2>1, StaysAtWork
<1>8. QED
  BY <1>1, <1>3, <1>4, <1>5, <1>6, <1>7

\* Every step keeps held runs at work.
LEMMA AtWorkStep ==
  ASSUME IInv, [Next]_vars, NEW r \in Runs, AtWork(r)
  PROVE  AtWork(r)'
<1> DEFINE u == <<r, "worker">>
<1>1. /\ u \in Tasks /\ status \in [Runs -> RunStates]
      /\ waiting \in [Tasks -> Nat] /\ going \in [Tasks -> Nat]
  BY DEF Tasks, Kinds, IInv, TypeOK
<1>2. ASSUME NEW k \in Keys, NEW g \in {"open", "needed"},
             NEW spawned \in BOOLEAN, create_run(k, g, spawned)
      PROVE  AtWork(r)'
  <2>1. PICK n \in Runs :
          /\ status[n] = "none"
          /\ LET stale == NewestActive(k)
                 ended == { q \in stale : ~shadowed[q] }
                 born  == IF spawned THEN "running" ELSE "pending"
             IN status' = [q \in Runs |-> IF q = n THEN born
                                          ELSE IF q \in ended THEN "error"
                                          ELSE status[q]]
          /\ waiting' = [waiting EXCEPT ![<<n, "http">>] = IF spawned THEN 1 ELSE 0]
          /\ going' = going /\ running_ids' = running_ids /\ edited' = edited
    BY <1>2 DEF create_run
  <2>2. n \notin running_ids
    BY <2>1 DEF IInv, RunInv
  <2>3. r # n => status'[r] \in {status[r], "error"}
    BY <2>1
  <2>4. waiting'[u] = waiting[u] /\ going'[u] = going[u]
    BY <1>1, <2>1
  <2>5. CASE r = n
    BY <2>1, <2>2, <2>5 DEF AtWork
  <2>6. CASE r # n
    BY <2>1, <2>3, <2>4, <2>6, StaysAtWork DEF Queued
  <2>7. QED
    BY <2>5, <2>6
<1>3. ASSUME NEW q \in Runs,
             Approve(q) \/ Reject(q) \/ Cancel(q) \/ Cleanup(q)
      PROVE  AtWork(r)'
  <2>1. /\ running_ids' = running_ids /\ waiting' = waiting /\ going' = going
        /\ edited' = edited
        /\ r # q => status'[r] = status[r]
    BY <1>1, <1>3 DEF Approve, Reject, Cancel, Cleanup, Write
  <2>2. status'[q] \in Queued => status[q] \in Queued
    <3>1. CASE Approve(q)
      BY <3>1 DEF Approve, RESUMABLE_RUN_STATUSES, Queued
    <3>2. CASE Reject(q) \/ Cancel(q)
      BY <1>1, <3>2 DEF Reject, Cancel, Write, Moved, Queued
    <3>3. CASE Cleanup(q)
      BY <1>1, <3>3 DEF Cleanup, Write, Queued
    <3>4. QED
      BY <1>3, <3>1, <3>2, <3>3
  <2>3. QED
    BY <2>1, <2>2, StaysAtWork
<1>4. ASSUME NEW allow \in BOOLEAN, Tick(allow)
      PROVE  AtWork(r)'
  <2>1. PICK admitted \in {Admitted, {}} :
          /\ running_ids' = Held \cup admitted
          /\ waiting' = [v \in Tasks |->
                           IF v[1] \in admitted /\ v[2] = "worker"
                             THEN waiting[v] + 1 ELSE waiting[v]]
          /\ going' = going /\ edited' = edited
          /\ status' = [q \in Runs |-> IF q \in Reclaimed THEN "pending"
                                       ELSE status[q]]
    BY <1>4 DEF Tick
  <2>2. waiting'[u] = IF r \in admitted THEN waiting[u] + 1 ELSE waiting[u]
    BY <1>1, <2>1
  <2>3. going'[u] = going[u] /\ going[u] \in Nat /\ waiting[u] \in Nat
    BY <1>1, <2>1
  <2>4. CASE r \in admitted
    BY <2>2, <2>3, <2>4 DEF AtWork, Load
  <2>5. CASE r \notin admitted
    <3>1. r \in running_ids' => r \in running_ids /\ r \in Held
      BY <2>1, <2>5 DEF Held
    <3>2. r \in Held => status'[r] = status[r]
      BY <2>1 DEF Reclaimed
    <3>3. CASE r \in running_ids'
      BY <2>1, <2>2, <2>3, <2>5, <3>1, <3>2, <3>3, StaysAtWork
    <3>4. CASE r \notin running_ids'
      BY <3>4 DEF AtWork
    <3>5. QED
      BY <3>3, <3>4
  <2>6. QED
    BY <2>4, <2>5
<1>5. CASE GoDown
  BY <1>5 DEF GoDown, AtWork
<1>6. CASE ComeUp
  <2>1. status'[r] \in {status[r], "error"}
    BY <1>6 DEF ComeUp
  <2>2. QED
    BY <1>6, <2>1, StaysAtWork DEF ComeUp, Queued
<1>7. ASSUME NEW q \in Runs, (\E w \in Kinds : Beat(q, w)) \/ Age(q)
      PROVE  AtWork(r)'
  BY <1>7, StaysAtWork DEF Beat, Age
<1>8. CASE UNCHANGED vars
  BY <1>8, StaysAtWork DEF vars, files
<1>9. CASE update_draft
  BY <1>9, StaysAtWork DEF update_draft
<1>10. CASE Request
  <2>1. \A q \in Runs : key[q] \in Keys
    BY DEF IInv, TypeOK
  <2>2. QED
    BY <1>2, <1>3, <1>9, <1>10, <2>1 DEF Request, CreateRun, Rerun
<1>11. QED
  BY <1>3, <1>4, <1>5, <1>6, <1>7, <1>8, <1>10, PipelineAtWork DEF Next

\* No slot leaks, for any number of runs, slots, reclaims and restarts.
THEOREM NoSlotLeaks == Spec => []HeldIsAtWork
<1>1. Init => HeldIsAtWork
  BY DEF Init, AtWork, HeldIsAtWork
<1>2. IInv /\ HeldIsAtWork /\ [Next]_vars => HeldIsAtWork'
  BY AtWorkStep DEF HeldIsAtWork
<1>3. QED
  BY <1>1, <1>2, Invariant, PTL DEF Spec
=============================================================================
