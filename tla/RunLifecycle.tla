---------------------------- MODULE RunLifecycle ----------------------------
(***************************************************************************)
(* The life of the runs that have neither children nor a merge gate        *)
(* (compositions legacy_run, structured_plan, file_task, custom_plan):     *)
(* requests that create, resume, cancel and repeat runs, the pipelines the *)
(* HTTP handlers spawn, the RunWorker that admits and reclaims runs, the   *)
(* retention sweep, and the server going down and coming back.             *)
(*                                                                         *)
(* All of it runs on one event loop, so the code between two awaits is one *)
(* step; a pipeline gives up control only while a stage waits, the first   *)
(* time in its LLM stage, after both gates have run.  A run is one record  *)
(* (RunStore); the one writer that goes around its log, the stale recovery *)
(* of create_run, is why shadowed is kept.                                 *)
(***************************************************************************)
EXTENDS RunStatus, Naturals, FiniteSets

CONSTANTS
  MaxRuns,      \* bound: runs ever created
  Keys,         \* run keys (draft and base commit)
  MaxSlots,     \* max_concurrent_runs
  MaxEdits,     \* bound: runs for which an edit changes the gates' verdict
  MaxCrashes    \* bound: how often the server goes down

ASSUME LifecycleAssumption ==
  /\ MaxRuns \in Nat /\ MaxSlots \in Nat \ {0}
  /\ MaxEdits \in Nat /\ MaxCrashes \in Nat
  /\ Keys # {}

Runs == 1 .. MaxRuns      \* in order of creation

\* "none": not created yet; "gone": its files have been removed.
RunStates ==
  { "none", "pending", "running", "HUMAN_APPROVAL_REQUIRED",
    "done", "error", "cancelled", "gone" }

Kinds == { "http", "worker" }   \* who started a pipeline

Tasks == Runs \X Kinds

VARIABLES
  status,       \* status with the log replayed
  shadowed,     \* the log holds a status event, which hides the base's status
  age,          \* of the last heartbeat: 1 is RECLAIM_TIMEOUT_SECONDS, 2 is
                \* the 10 minutes of create_run's stale recovery
                \* (both matter of an active run only)
  key,          \* run_key
  gate,         \* what policy_gate and risk_gate would ask of a pipeline that
                \* starts now: nothing, a human approval, or one that is given
  edited,       \* history: runs whose verdict an edit has changed
  declared,     \* history: create_run declared the run stale, and it is
                \* active all the same
  waiting,      \* pipelines scheduled and not started, per run and starter
  going,        \* pipelines started and not finished
  running_ids,  \* RunWorker._running_ids
  up,           \* the server process is alive and has started its worker
  crashes       \* how often it has gone down

vars == <<status, shadowed, age, key, gate, edited, declared, waiting, going,
          running_ids, up, crashes>>

files == <<status, shadowed, age, key, gate, edited, declared>>

Active(r) == status[r] \in ACTIVE_RUN_STATUSES

Exists(r) == status[r] \notin {"none", "gone"}

\* How many pipelines of run r that w started have not finished.
Load(r, w) == waiting[<<r, w>>] + going[<<r, w>>]

NoPipelines == [t \in Tasks |-> 0]

Init ==
  /\ status = [r \in Runs |-> "none"]
  /\ shadowed = [r \in Runs |-> FALSE]
  /\ age = [r \in Runs |-> 0]
  /\ \E k \in Keys : key = [r \in Runs |-> k]
  /\ gate = [r \in Runs |-> "open"] /\ edited = {}
  /\ declared = [r \in Runs |-> FALSE]
  /\ waiting = NoPipelines /\ going = NoPipelines
  /\ running_ids = {}
  /\ up = TRUE /\ crashes = 0

(***************************************************************************)
(* update_run_status: what a request for status s leaves a run with status *)
(* q in, and, when that is refused, what the caller's except branch leaves.*)
(***************************************************************************)
Moved(q, s) == IF s \in VALID_TRANSITIONS(q) THEN s ELSE q

\* Mutant: the pipeline writes its outcome without asking the status machine.
EndedUnchecked(q, s) == s

Ended(q, s) == IF s \in VALID_TRANSITIONS(q) \cup {q}
                 THEN s ELSE Moved(q, "error")

(***************************************************************************)
(* Appending a status event makes the log hide the base's status, unless   *)
(* that very event has the log compacted.                                  *)
(***************************************************************************)
Shadows(changed) ==
  \E hides \in SUBSET changed :
    shadowed' = [r \in Runs |-> IF r \in changed THEN r \in hides
                                ELSE shadowed[r]]

\* Run r gets status s and, if it stays active, heartbeat age a.
Write(r, s, a) ==
  LET active == s \in ACTIVE_RUN_STATUSES
  IN /\ status' = [status EXCEPT ![r] = s]
     /\ age' = [age EXCEPT ![r] = IF active THEN a ELSE 0]
     /\ declared' = [declared EXCEPT ![r] = @ /\ active]
     /\ IF ~active THEN shadowed' = [shadowed EXCEPT ![r] = FALSE]
        ELSE IF s = status[r] THEN UNCHANGED shadowed
        ELSE Shadows({r})

(***************************************************************************)
(* Requests.                                                               *)
(***************************************************************************)

SameKey(k) == { r \in Runs : Exists(r) /\ key[r] = k }

\* Mutant: only a running run stops the request.
NewestRunning(k) ==
  { r \in SameKey(k) : status[r] = "running"
                       /\ \A q \in SameKey(k) : status[q] = "running" => q <= r }

NewestActive(k) ==
  { r \in SameKey(k) : Active(r) /\ \A q \in SameKey(k) : Active(q) => q <= r }

\* OpsService.create_run and its caller.  An active run of the same key stops
\* the request, unless its heartbeat is old: then its base is overwritten with
\* status error, its log is left as it is, and the request goes on.  The
\* caller spawns the pipeline and moves the run to running; when spawning
\* fails (or nobody spawns) the run stays pending, for the worker.
create_run(k, g, spawned) ==
  \E n \in Runs :
    /\ status[n] = "none" /\ \A r \in Runs : r < n => status[r] # "none"
    /\ \A r \in NewestActive(k) : age[r] = 2
    /\ LET stale == NewestActive(k)
           ended == { r \in stale : ~shadowed[r] }
           born  == IF spawned THEN "running" ELSE "pending"
       IN /\ status' = [r \in Runs |-> IF r = n THEN born
                                       ELSE IF r \in ended THEN "error"
                                       ELSE status[r]]
          /\ declared' = [r \in Runs |->
                            (declared[r] \/ r \in stale) /\ r \notin ended]
          /\ age' = [r \in Runs |-> IF r \in ended THEN 0 ELSE age[r]]
    /\ shadowed' = [shadowed EXCEPT ![n] = TRUE]
    /\ key' = [key EXCEPT ![n] = k]
    /\ gate' = [gate EXCEPT ![n] = g]
    /\ waiting' = [waiting EXCEPT ![<<n, "http">>] = IF spawned THEN 1 ELSE 0]
    /\ UNCHANGED <<edited, going, running_ids, up, crashes>>

CreateRun ==
  /\ up
  /\ \E k \in Keys, g \in {"open", "needed"}, spawned \in BOOLEAN :
       create_run(k, g, spawned)

\* rerun: only of a run that is not active, then as create_run.
Rerun(r) ==
  /\ up /\ Exists(r) /\ ~Active(r)
  /\ \E g \in {"open", "needed"}, spawned \in BOOLEAN :
       create_run(key[r], g, spawned)

\* resume_run, approving: the approval is stored, the run queued again.
Approve(r) ==
  /\ up /\ status[r] \in RESUMABLE_RUN_STATUSES
  /\ gate' = [gate EXCEPT ![r] = "granted"]
  /\ Write(r, Moved(status[r], "pending"), age[r])
  /\ UNCHANGED <<key, edited, waiting, going, running_ids, up, crashes>>

\* resume_run, rejecting.
Reject(r) ==
  /\ up /\ status[r] \in RESUMABLE_RUN_STATUSES
  /\ Write(r, Moved(status[r], "cancelled"), age[r])
  /\ UNCHANGED <<key, gate, edited, waiting, going, running_ids, up, crashes>>

\* update_draft: the context of an approved draft can be edited while runs of
\* it exist, and each pipeline reads the draft anew, so that the next ones may
\* be asked for an approval that earlier ones were not asked for, or the other
\* way round (of consequence to an active run only).  What has been granted is
\* kept with the run.
update_draft ==
  /\ up
  /\ \E r \in Runs, g \in {"open", "needed"} :
       /\ Active(r) /\ gate[r] \notin {g, "granted"}
       /\ Cardinality(edited \cup {r}) <= MaxEdits
       /\ gate' = [gate EXCEPT ![r] = g] /\ edited' = edited \cup {r}
  /\ UNCHANGED <<status, shadowed, age, key, declared, waiting, going,
                 running_ids, up, crashes>>

\* cancel_run and discard_run.  The pipelines of the run are not told.
Cancel(r) ==
  /\ up /\ Exists(r) /\ status[r] \notin {"done", "error", "cancelled"}
  /\ Write(r, Moved(status[r], "cancelled"), age[r])
  /\ UNCHANGED <<key, gate, edited, waiting, going, running_ids, up, crashes>>

\* cleanup_old_runs goes by the age of the base file, which events do not
\* touch, and asks for no status.
Cleanup(r) ==
  /\ up /\ Exists(r)
  /\ Write(r, "gone", 0)
  /\ UNCHANGED <<key, gate, edited, waiting, going, running_ids, up, crashes>>

(***************************************************************************)
(* Pipelines (EngineService.execute_run, under SupervisedTask.spawn for    *)
(* http and RunWorker._execute_run for worker).                            *)
(***************************************************************************)

\* What the finally clause of _execute_run does; a spawned one has none.
\* Mutant: the finally clause forgets to discard the id.
LeaveKeepsId(r, w) == running_ids' = running_ids

Leave(r, w) == running_ids' = IF w = "worker" THEN running_ids \ {r}
                              ELSE running_ids

\* The status a pipeline finds or, if it finds pending, makes.
Started(r) == IF status[r] = "pending" THEN "running" ELSE status[r]

\* Mutant: the gates are skipped.
StartUngated(r, w) ==
  /\ up /\ waiting[<<r, w>>] > 0 /\ Exists(r)
  /\ waiting' = [waiting EXCEPT ![<<r, w>>] = @ - 1]
  /\ going' = [going EXCEPT ![<<r, w>>] = @ + 1]
  /\ Write(r, Started(r), 0)
  /\ UNCHANGED <<key, gate, edited, running_ids, up, crashes>>

\* From the first line to the LLM stage's first await.  Both gates run on the
\* way; the run's status is not looked at beyond pending.
Start(r, w) ==
  /\ up /\ waiting[<<r, w>>] > 0 /\ Exists(r)
  /\ gate[r] # "needed"
  /\ waiting' = [waiting EXCEPT ![<<r, w>>] = @ - 1]
  /\ going' = [going EXCEPT ![<<r, w>>] = @ + 1]
  /\ Write(r, Started(r), 0)
  /\ UNCHANGED <<key, gate, edited, running_ids, up, crashes>>

\* Mutant: the halted run gets a status for which nobody resumes it.
StartHaltsForReview(r, w) ==
  /\ up /\ waiting[<<r, w>>] > 0 /\ Exists(r)
  /\ gate[r] = "needed"
  /\ waiting' = [waiting EXCEPT ![<<r, w>>] = @ - 1]
  /\ Write(r, Ended(Started(r), "awaiting_review"), 0)
  /\ Leave(r, w)
  /\ UNCHANGED <<key, gate, edited, going, up, crashes>>

\* As Start, but a gate halts the pipeline until a human approves.
StartHalts(r, w) ==
  /\ up /\ waiting[<<r, w>>] > 0 /\ Exists(r)
  /\ gate[r] = "needed"
  /\ waiting' = [waiting EXCEPT ![<<r, w>>] = @ - 1]
  /\ Write(r, Ended(Started(r), "HUMAN_APPROVAL_REQUIRED"), 0)
  /\ Leave(r, w)
  /\ UNCHANGED <<key, gate, edited, going, up, crashes>>

\* As Start, but the task spec is refused or a gate denies the run.
StartFails(r, w) ==
  /\ up /\ waiting[<<r, w>>] > 0 /\ Exists(r)
  /\ waiting' = [waiting EXCEPT ![<<r, w>>] = @ - 1]
  /\ Write(r, Ended(Started(r), "error"), 0)
  /\ Leave(r, w)
  /\ UNCHANGED <<key, gate, edited, going, up, crashes>>

\* The run's files are gone: execute_run returns at once.
StartOnNothing(r, w) ==
  /\ up /\ waiting[<<r, w>>] > 0 /\ status[r] = "gone"
  /\ waiting' = [waiting EXCEPT ![<<r, w>>] = @ - 1]
  /\ Leave(r, w)
  /\ UNCHANGED <<status, shadowed, age, key, gate, edited, declared, going,
                 up, crashes>>

\* A stage ends and the next begins: heartbeat_run, an event like any other,
\* so that it may have the log compacted (of no consequence once a run ended).
Beat(r, w) ==
  /\ up /\ going[<<r, w>>] > 0 /\ Active(r)
  /\ age' = [age EXCEPT ![r] = 0]
  /\ \E compacts \in BOOLEAN :
       shadowed' = [shadowed EXCEPT ![r] = @ /\ ~compacts]
  /\ UNCHANGED <<status, key, gate, edited, declared, waiting, going,
                 running_ids, up, crashes>>

\* The pipeline ends: done, or error when a stage failed, raised, was skipped
\* or, for a spawned one, ran into the supervisor's timeout.
Finish(r, w, s) ==
  /\ up /\ going[<<r, w>>] > 0
  /\ going' = [going EXCEPT ![<<r, w>>] = @ - 1]
  /\ Write(r, IF Exists(r) THEN Ended(status[r], s) ELSE status[r], age[r])
  /\ Leave(r, w)
  /\ UNCHANGED <<key, gate, edited, waiting, up, crashes>>

(***************************************************************************)
(* RunWorker._tick, one step after its sleep(0): forget the runs that are  *)
(* no longer active, reclaim the running ones whose heartbeat is stale and *)
(* which this worker does not hold, and start pending runs, newest first,  *)
(* while slots last and if the resource governor allows.                   *)
(***************************************************************************)

\* Mutant: an id whose run is not running yet is forgotten.
HeldIfRunning == { r \in running_ids : status[r] = "running" }

Held == { r \in running_ids : Active(r) }

Reclaimed ==
  { r \in Runs \ Held : status[r] = "running" /\ age[r] > 0 }

Newest(S, n) == { r \in S : Cardinality({ q \in S : q > r }) < n }

\* Mutant: runs already held do not take slots.
AllSlots == MaxSlots

\* available_slots; the tick ends here when it is not positive.
FreeSlots == IF Cardinality(Held) < MaxSlots THEN MaxSlots - Cardinality(Held)
             ELSE 0

Admitted ==
  Newest({ r \in Runs : status[r] = "pending" } \cup Reclaimed, FreeSlots)
    \ Held

Tick(allow) ==
  /\ up
  /\ status' = [r \in Runs |-> IF r \in Reclaimed THEN "pending" ELSE status[r]]
  /\ Shadows(Reclaimed)
  /\ LET admitted == IF allow THEN Admitted ELSE {}
     IN /\ running_ids' = Held \cup admitted
        /\ waiting' = [t \in Tasks |->
                         IF t[1] \in admitted /\ t[2] = "worker"
                           THEN waiting[t] + 1 ELSE waiting[t]]
  /\ UNCHANGED <<age, key, gate, edited, declared, going, up, crashes>>

(***************************************************************************)
(* Time, and the server's own life.                                        *)
(***************************************************************************)

Age(r) ==
  /\ Active(r) /\ age[r] < 2
  /\ age' = [age EXCEPT ![r] = @ + 1]
  /\ UNCHANGED <<status, shadowed, key, gate, edited, declared, waiting,
                 going, running_ids, up, crashes>>

\* A crash or a shutdown: pipelines end with the process, without a word.
GoDown ==
  /\ up /\ crashes < MaxCrashes
  /\ up' = FALSE /\ crashes' = crashes + 1
  /\ waiting' = NoPipelines /\ going' = NoPipelines /\ running_ids' = {}
  /\ UNCHANGED files

\* Mutant: no startup reconcile.
ComeUpAsItWas ==
  /\ ~up /\ up' = TRUE
  /\ UNCHANGED <<status, age, shadowed, declared, key, gate, edited, waiting,
                 going, running_ids, crashes>>

\* lifespan: the startup reconcile, then the worker starts and requests come.
ComeUp ==
  /\ ~up /\ up' = TRUE
  /\ LET zombies == { r \in Runs : status[r] = "running" }
     IN /\ status' = [r \in Runs |-> IF r \in zombies THEN "error"
                                     ELSE status[r]]
        /\ age' = [r \in Runs |-> IF r \in zombies THEN 0 ELSE age[r]]
        /\ shadowed' = [r \in Runs |-> shadowed[r] /\ r \notin zombies]
        /\ declared' = [r \in Runs |-> declared[r] /\ r \notin zombies]
  /\ UNCHANGED <<key, gate, edited, waiting, going, running_ids, crashes>>

Request ==
  \/ CreateRun \/ update_draft
  \/ \E r \in Runs : Rerun(r) \/ Approve(r) \/ Reject(r) \/ Cancel(r)

\* A scheduled pipeline starts, or a started one ends.
Advance(r, w) ==
  \/ Start(r, w) \/ StartHalts(r, w) \/ StartFails(r, w)
  \/ StartOnNothing(r, w)
  \/ \E s \in {"done", "error"} : Finish(r, w, s)

Next ==
  \/ Request
  \/ \E r \in Runs, w \in Kinds : Advance(r, w) \/ Beat(r, w)
  \/ \E allow \in BOOLEAN : Tick(allow)
  \/ \E r \in Runs : Cleanup(r) \/ Age(r)
  \/ GoDown \/ ComeUp

Spec == Init /\ [][Next]_vars

(***************************************************************************)
(* Fairness: the worker wakes at least every 30 seconds and the governor   *)
(* does not defer for ever; the event loop runs what was scheduled; every  *)
(* stage returns or is timed out; somebody restarts the server.  Nobody    *)
(* has to send a request, and time owes nothing.                           *)
(***************************************************************************)
Fairness ==
  /\ WF_vars(Tick(TRUE)) /\ WF_vars(ComeUp)
  /\ \A r \in Runs, w \in Kinds : WF_vars(Advance(r, w))

FairSpec == Spec /\ Fairness

-----------------------------------------------------------------------------
TypeOK ==
  /\ status \in [Runs -> RunStates]
  /\ shadowed \in [Runs -> BOOLEAN]
  /\ age \in [Runs -> 0..2]
  /\ key \in [Runs -> Keys]
  /\ gate \in [Runs -> {"open", "needed", "granted"}] /\ edited \subseteq Runs
  /\ declared \in [Runs -> BOOLEAN]
  /\ waiting \in [Tasks -> Nat] /\ going \in [Tasks -> Nat]
  /\ running_ids \subseteq Runs
  /\ up \in BOOLEAN /\ crashes \in 0..MaxCrashes

\* While the server is up, a run that says it is running has a pipeline: none
\* is left behind by a cancel, a reclaim, a second pipeline that ends first or
\* a restart (update_run_status callers, the startup reconcile in main.py).
RunningHasPipeline ==
  up => \A r \in Runs :
          status[r] = "running" => Load(r, "http") + Load(r, "worker") > 0

\* The worker never runs a run twice at a time, whatever is reclaimed,
\* cancelled or approved meanwhile (the _running_ids bookkeeping).
WorkerRunsOnce == \A r \in Runs : Load(r, "worker") <= 1

\* The worker's pipelines of runs that are still active stay within
\* max_concurrent_runs.
SlotsRespected ==
  Cardinality({ r \in Runs : Active(r) /\ Load(r, "worker") > 0 }) <= MaxSlots

\* While a run waits for a human, no pipeline of it is past the gates: what
\* the human is asked about has not been executed already, unless the draft was
\* edited under the run (policy_gate and risk_gate run in every pipeline).
NothingRunsUnapproved ==
  \A r \in Runs \ edited :
    status[r] = "HUMAN_APPROVAL_REQUIRED" =>
      \A w \in Kinds : going[<<r, w>>] = 0

\* Two active runs of one run key exist only after create_run has declared
\* all but one of them stale.
DuplicatesWereStale ==
  \A q, r \in Runs :
    (q < r /\ Active(q) /\ Active(r) /\ key[q] = key[r]) => declared[q]

\* An outcome is never taken back: not by the pipeline of a cancelled run, a
\* reclaim, an approval that comes late or a restart.
OutcomeIsFinal ==
  [][ \A r \in Runs : status[r] \in {"done", "error", "cancelled"} =>
                        status'[r] \in {status[r], "gone"} ]_vars

\* No run is queued or running for ever: it ends, waits for a human, or is
\* removed.
Settles == \A r \in Runs : []<>(status[r] \notin {"pending", "running"})

\* At most one active run per run key: a stale one, says create_run, is moved
\* to error "so it's no longer 'active'" (services/ops/_run.py).
OneActivePerKey ==
  \A q, r \in Runs : (Active(q) /\ Active(r) /\ key[q] = key[r]) => q = r

\* What the request handler says its immediate start is for ("to avoid pending
\* limbo and worker race on the same run", routers/ops/run_router.py): no run
\* has two pipelines past the gates.
OnePipelineAtATime ==
  \A r \in Runs : going[<<r, "http">>] + going[<<r, "worker">>] <= 1
=============================================================================
