-------------------------- MODULE RunWritersProofs --------------------------
(***************************************************************************)
(* RunRequeue and RunWriters, for every set of metas and counts, every     *)
(* compaction length and any number of crashes: how far the two statements *)
(* their runs refute, RequeuedIsPending and PurgeKeepsOutcome, do hold.    *)
(***************************************************************************)
EXTENDS RunWriters, RunRequeue, RunStoreProofs

-----------------------------------------------------------------------------
(***************************************************************************)
(* Requeueing stages.                                                      *)
(***************************************************************************)

\* While a stage puts a run back in the queue, whatever became of the run
\* during its awaits, the rewrite of the base is heard only if the log holds
\* no status event: then the run is pending for whoever loads it, also a run
\* that had ended.  Otherwise it keeps the status it had, awaiting review or
\* cancelled or any other (review_gate.py, subdivide_router.py,
\* _materialize_run).
RequeueHeard ==
  [][ (then = "requeued" /\ pc \in {"open", "fill"} /\ pc' # "idle")
      => (Shown)'.status = IF OfKind(log, "status") = {} THEN "pending"
                           ELSE Shown.status ]_requeueVars

\* Inductive: a stage is about to write, or is writing, a record that says
\* pending over a base that can be read.
RequeueInv ==
  (then = "requeued" /\ pc \in {"open", "fill"}) =>
    /\ image \in Record /\ image.status = "pending"
    /\ pc = "open" => base \in Record
    /\ pc = "fill" => base = Torn

\* A call of RunStore that begins leaves no requeueing stage in progress.
LEMMA CallIsNoRequeue ==
  ASSUME Call
  PROVE  pc' \in {"open", "fill"} => then' # "requeued"
<1>1. CASE CreateRun
  BY <1>1 DEF CreateRun, Persist
<1>2. ASSUME NEW s \in Targets, update_run_status(s)
      PROVE  pc' \in {"open", "fill"} => then' # "requeued"
  BY <1>2 DEF update_run_status, AppendThenCompact, Persist
<1>3. ASSUME NEW m \in Metas, merge_run_meta(m)
      PROVE  pc' \in {"open", "fill"} => then' # "requeued"
  BY <1>3 DEF merge_run_meta, AppendThenCompact, Persist
<1>4. ASSUME NEW c \in Counts, PersistField(c)
      PROVE  pc' \in {"open", "fill"} => then' # "requeued"
  BY <1>4 DEF PersistField, Persist
<1>5. CASE cleanup_old_runs
  BY <1>5 DEF cleanup_old_runs
<1>6. QED
  BY <1>1, <1>2, <1>3, <1>4, <1>5 DEF Call

\* Nor does a status the pipeline itself asks for.
LEMMA UpdateIsNoRequeue ==
  ASSUME NEW s, update_run_status(s)
  PROVE  pc' \in {"open", "fill"} => then' # "requeued"
BY DEF update_run_status, AppendThenCompact, Persist

\* Every step of the store and of the pipeline keeps RequeueInv.
LEMMA RequeueInvStep ==
  ASSUME RequeueInv, [NextRequeue]_requeueVars
  PROVE  RequeueInv'
<1>1. CASE Call
  BY <1>1, CallIsNoRequeue DEF RequeueInv
<1>2. CASE Open
  BY <1>2 DEF Open, RequeueInv
<1>3. CASE Fill
  BY <1>3 DEF Fill, RequeueInv
<1>4. CASE Truncate \/ Announce \/ UnlinkEvents \/ Crash \/ RequeueReturns
  BY <1>4 DEF Truncate, Announce, UnlinkEvents, Crash, RequeueReturns, RequeueInv
<1>5. CASE PipelineStarts \/ PipelineEnds \/ UNCHANGED requeueVars
  BY <1>5 DEF PipelineStarts, PipelineEnds, requeueVars, vars, RequeueInv
<1>6. CASE ReviewAsks \/ ReviewAccepts
  BY <1>6, UpdateIsNoRequeue DEF ReviewAsks, ReviewAccepts, RequeueInv
<1>7. CASE EngineHalts
  <2>1. CASE update_run_status("HUMAN_APPROVAL_REQUIRED")
    BY <2>1, UpdateIsNoRequeue DEF RequeueInv
  <2>2. CASE UNCHANGED vars
    BY <2>2 DEF vars, RequeueInv
  <2>3. QED
    BY <1>7, <2>1, <2>2 DEF EngineHalts
<1>8. CASE StageRequeues
  <2>1. PICK c \in Counts :
          /\ base \in Record /\ base' = base /\ pc' = "open"
          /\ image' = [base EXCEPT !.status = "pending", !.count = c]
    BY <1>8 DEF StageRequeues, Requeue, Persist, Readable
  <2>2. image' \in Record /\ image'.status = "pending"
    BY <2>1 DEF Record, Statuses, ACTIVE_RUN_STATUSES
  <2>3. QED
    BY <2>1, <2>2 DEF RequeueInv
<1>9. QED
  BY <1>1, <1>2, <1>3, <1>4, <1>5, <1>6, <1>7, <1>8 DEF NextRequeue

\* While a requeue is in progress only its own writes, and the death of the
\* process, can happen.
LEMMA RequeueWrites ==
  ASSUME NextRequeue, then = "requeued", pc \in {"open", "fill"}, pc' # "idle"
  PROVE  Open \/ Fill
<1>1. ~Call
  BY DEF Call, CreateRun, update_run_status, merge_run_meta, PersistField,
     cleanup_old_runs
<1>2. /\ ~Truncate /\ ~Announce /\ ~UnlinkEvents /\ ~Crash
      /\ ~PipelineStarts /\ ~PipelineEnds /\ ~RequeueReturns
  BY DEF Truncate, Announce, UnlinkEvents, Crash, PipelineStarts, PipelineEnds,
     RequeueReturns
<1>3. ~ReviewAsks /\ ~ReviewAccepts /\ ~EngineHalts /\ ~StageRequeues
  BY DEF ReviewAsks, ReviewAccepts, EngineHalts, StageRequeues, Requeue,
     update_run_status
<1>4. QED
  BY <1>1, <1>2, <1>3 DEF NextRequeue

\* A run that a stage requeues is pending for its readers only if its log holds
\* no status event, whatever became of it while the stage waited.
THEOREM RequeueScope == SpecRequeue => RequeueHeard
<1>1. Init => RequeueInv
  BY DEF Init, RequeueInv
<1>2. RequeueInv /\ [NextRequeue]_requeueVars => RequeueInv'
  BY RequeueInvStep
<1>3. ASSUME RequeueInv, NextRequeue,
             then = "requeued", pc \in {"open", "fill"}, pc' # "idle"
      PROVE  (Shown)'.status = IF OfKind(log, "status") = {} THEN "pending"
                               ELSE Shown.status
  <2> USE StoreMarkersAssumption
  <2>1. log' = log /\ image' = image
    BY <1>3, RequeueWrites DEF Open, Fill
  <2>2. ASSUME NEW r \in Record
        PROVE  Replay(r, log).status =
                 IF OfKind(log, "status") = {} THEN r.status
                 ELSE log[LastOf(log, "status")].status
    BY DEF Replay
  <2>3. Shown.status = IF OfKind(log, "status") = {} THEN Shown.status
                       ELSE log[LastOf(log, "status")].status
    BY <1>3, <2>2 DEF RequeueInv, Shown
  <2>4. (Shown)' = Replay(image, log)
    BY <1>3, <2>1, RequeueWrites DEF Open, Fill, RequeueInv, Shown
  <2>5. image \in Record /\ image.status = "pending"
    BY <1>3 DEF RequeueInv
  <2>6. QED
    BY <2>2, <2>3, <2>4, <2>5
<1>4. QED
  BY <1>1, <1>2, <1>3, PTL DEF SpecRequeue, RequeueHeard

-----------------------------------------------------------------------------
(***************************************************************************)
(* The purge.                                                              *)
(***************************************************************************)

\* It takes two deaths of the process to lose the outcome of a purged run: a
\* purge that stops half way for the first time leaves a run that can be read
\* and tells the outcome it had (purge_run).
FirstStopKeepsOutcome ==
  [][ (crashes = 0 /\ pc = "unlink logs" /\ pc' = "idle")
      => Readable' /\ Current'.status = image.status ]_vars

PurgeTypes ==
  /\ base \in Record \cup {Absent, Torn, Gone}
  /\ log \in Seq(Events) /\ LogOK(log)
  /\ image \in Record
  /\ then \in {"idle", "truncate", "announce"}
  /\ crashes \in Nat

\* A run that does not exist has nothing in its log; a purge that has emptied
\* the log has not touched the base yet, and before any crash the base says
\* what the purge is about to write.
PurgeLogInv ==
  /\ base = Absent => pc \in {"idle", "open"} /\ log = << >>
  /\ pc = "unlink logs" =>
       /\ base \in Record /\ log = << >>
       /\ crashes = 0 => base.status = image.status

\* Inductive for the store composed with the purge.  LengthInv, the rest of
\* OpenInv and the refinement are not needed here, and the last does not hold.
PurgeInv == PurgeTypes /\ PurgeLogInv /\ OutcomeInv

\* One event more: the record it leaves, in the base or about to be written.
LEMMA PurgeAppend ==
  ASSUME PurgeInv, pc = "idle", base \in Record, base' = base,
         crashes' = crashes, NEW e, AppendThenCompact(e),
         log' \in Seq(Events), LogOK(log'),
         Replay(base, log').status \in TERMINAL_RUN_STATUSES =>
           Replay(base, log').status = Current.status
  PROVE  PurgeInv'
<1> USE StoreMarkersAssumption
<1>1. /\ Replay(base, log') \in Record
      /\ Replay(Replay(base, log'), log') = Replay(base, log')
  BY ReplayType, ReplayTwice
<1>2. CASE Len(log') < CompactAt
  <2>1. pc' = "idle" /\ image' = image /\ then' = then
    BY <1>2 DEF AppendThenCompact
  <2>2. PurgeTypes' /\ PurgeLogInv'
    BY <2>1 DEF PurgeInv, PurgeTypes, PurgeLogInv
  <2>3. OutcomeInv'
    BY <2>1 DEF PurgeInv, OutcomeInv, SameOutcome, Current
  <2>4. QED
    BY <2>2, <2>3 DEF PurgeInv
<1>3. CASE ~(Len(log') < CompactAt)
  <2>1. pc' = "open" /\ image' = Replay(base, log') /\ then' = "truncate"
    BY <1>3 DEF AppendThenCompact, Persist
  <2>2. PurgeTypes' /\ PurgeLogInv'
    BY <1>1, <2>1 DEF PurgeInv, PurgeTypes, PurgeLogInv
  <2>3. OutcomeInv'
    BY <1>1, <2>1 DEF OutcomeInv, SameOutcome
  <2>4. QED
    BY <2>2, <2>3 DEF PurgeInv
<1>4. QED
  BY <1>2, <1>3

\* update_run_status under the purge's invariant.
LEMMA PurgeStatusStep ==
  ASSUME PurgeInv, NEW s \in Targets, update_run_status(s)
  PROVE  PurgeInv'
<1> USE StoreMarkersAssumption
<1>1. /\ pc = "idle" /\ base \in Record /\ base' = base /\ crashes' = crashes
      /\ log' = Append(log, StatusEvent(s)) /\ s \in Statuses
  BY StoreAssumption DEF update_run_status, Readable, AppendThenCompact
<1>2. /\ log' \in Seq(Events) /\ LogOK(log') /\ Replay(base, log) \in Record
      /\ Replay(base, log') = [Replay(base, log) EXCEPT !.status = s]
  BY <1>1, ReplayStatus, ReplayType DEF PurgeInv, PurgeTypes
<1>3. /\ Replay(base, log').status = s /\ Replay(base, log') \in Record
      /\ Replay(Replay(base, log'), log') = Replay(base, log')
  <2>1. Replay(base, log').status = s
    BY <1>2, RecordFields
  <2>2. Replay(base, log') \in Record
    BY <1>1, <1>2, ReplayType
  <2>3. QED
    BY <2>1, <2>2, ReplayTwice
<1>4. CASE s \notin TERMINAL_RUN_STATUSES
  <2>1. AppendThenCompact(StatusEvent(s))
    BY <1>4 DEF update_run_status
  <2>2. QED
    BY <1>1, <1>2, <1>3, <1>4, <2>1, PurgeAppend
<1>5. CASE s \in TERMINAL_RUN_STATUSES
  <2>1. pc' = "open" /\ image' = Replay(base, log') /\ then' = "idle"
    BY <1>5 DEF update_run_status, Persist
  <2>2. PurgeTypes' /\ PurgeLogInv'
    BY <1>1, <1>2, <1>3, <2>1 DEF PurgeInv, PurgeTypes, PurgeLogInv
  <2>3. OutcomeInv'
    BY <1>3, <2>1 DEF OutcomeInv, SameOutcome
  <2>4. QED
    BY <2>2, <2>3 DEF PurgeInv
<1>6. QED
  BY <1>4, <1>5

\* merge_run_meta under the purge's invariant.
LEMMA PurgeMetaStep ==
  ASSUME PurgeInv, NEW m \in Metas, merge_run_meta(m)
  PROVE  PurgeInv'
<1>1. /\ pc = "idle" /\ base \in Record /\ base' = base /\ crashes' = crashes
      /\ log' = Append(log, MetaEvent(m)) /\ AppendThenCompact(MetaEvent(m))
  BY DEF merge_run_meta, Readable, AppendThenCompact
<1>2. /\ log' \in Seq(Events) /\ LogOK(log') /\ Replay(base, log) \in Record
      /\ Replay(base, log') = [Replay(base, log) EXCEPT !.meta = m]
  BY <1>1, ReplayMeta, ReplayType DEF PurgeInv, PurgeTypes
<1>3. Replay(base, log').status = Current.status
  BY <1>2, RecordFields DEF Current
<1>4. QED
  BY <1>1, <1>2, <1>3, PurgeAppend

\* A write of a base-only field under the purge's invariant.
LEMMA PurgeFieldStep ==
  ASSUME PurgeInv, NEW c \in Counts, PersistField(c)
  PROVE  PurgeInv'
<1> USE StoreMarkersAssumption
<1>1. PICK r \in {base, Current} :
        /\ pc = "idle" /\ base \in Record /\ base' = base
        /\ log' = log /\ crashes' = crashes
        /\ pc' = "open" /\ image' = [r EXCEPT !.count = c] /\ then' = "idle"
  BY DEF PersistField, Persist, Readable
<1>2. /\ Current \in Record /\ r \in Record
      /\ Replay(r, log) = Current
  BY <1>1, ReplayType, ReplayTwice DEF PurgeInv, PurgeTypes, Current
<1>3. image' \in Record /\ image'.status = r.status
  BY <1>1, <1>2 DEF Record
<1>4. Replay(image', log) = [Current EXCEPT !.count = c]
  BY <1>1, <1>2, ReplayCount DEF PurgeInv, PurgeTypes
<1>5. Replay(image', log).status = Current.status
  BY <1>2, <1>4, RecordFields
<1>6. crashes = 0 => SameOutcome(base)
  BY <1>1 DEF PurgeInv, OutcomeInv
<1>7. OutcomeInv'
  BY <1>1, <1>3, <1>5, <1>6 DEF OutcomeInv, SameOutcome, Current
<1>8. PurgeTypes' /\ PurgeLogInv'
  BY <1>1, <1>3 DEF PurgeInv, PurgeTypes, PurgeLogInv
<1>9. QED
  BY <1>7, <1>8 DEF PurgeInv

\* The start of a purge: before any crash the base already tells the outcome
\* that the log, about to go, tells.
LEMMA PurgeEventsStep ==
  ASSUME PurgeInv, PurgeEvents
  PROVE  PurgeInv'
<1> USE StoreMarkersAssumption
<1>1. /\ pc = "idle" /\ base \in Record /\ base' = base /\ crashes' = crashes
      /\ Current.status \in TERMINAL_RUN_STATUSES
      /\ log' = << >> /\ pc' = "unlink logs" /\ then' = "idle"
      /\ image' = [NewRecord EXCEPT !.status = Current.status]
  BY DEF PurgeEvents, Readable
<1>2. Current \in Record
  BY <1>1, ReplayType DEF PurgeInv, PurgeTypes, Current
<1>3. image' \in Record /\ image'.status = Current.status
  BY <1>1, <1>2, NewIsRecord DEF Record
<1>4. crashes = 0 => base.status = Current.status
  BY <1>1 DEF PurgeInv, OutcomeInv, SameOutcome, Current
<1>5. PurgeTypes' /\ PurgeLogInv'
  BY <1>1, <1>3, <1>4, ReplayNothing DEF PurgeInv, PurgeTypes, PurgeLogInv
<1>6. OutcomeInv'
  BY <1>1 DEF OutcomeInv
<1>7. QED
  BY <1>5, <1>6 DEF PurgeInv

\* The writes the calls are made of, under the purge's invariant.
LEMMA PurgeWriteStep ==
  ASSUME PurgeInv,
         Open \/ Fill \/ Truncate \/ Announce \/ UnlinkEvents \/ PurgeLogs
  PROVE  PurgeInv'
<1> USE StoreMarkersAssumption
<1>1. CASE Open
  BY <1>1 DEF Open, PurgeInv, PurgeTypes, PurgeLogInv, OutcomeInv, SameOutcome
<1>2. CASE Fill
  BY <1>2 DEF Fill, PurgeInv, PurgeTypes, PurgeLogInv, OutcomeInv, SameOutcome
<1>3. CASE Truncate \/ UnlinkEvents
  <2>1. /\ base' = base /\ image' = image /\ then' = then /\ crashes' = crashes
        /\ log' = << >> /\ pc' = "idle"
    BY <1>3 DEF Truncate, UnlinkEvents
  <2>2. PurgeTypes' /\ PurgeLogInv'
    BY <2>1, ReplayNothing DEF PurgeInv, PurgeTypes, PurgeLogInv
  <2>3. OutcomeInv'
    BY <2>1, ReplayNothing DEF OutcomeInv, SameOutcome
  <2>4. QED
    BY <2>2, <2>3 DEF PurgeInv
<1>4. CASE Announce
  <2>1. /\ pc = "announce" /\ pc' = "idle" /\ base' = base
        /\ image' = image /\ then' = then /\ crashes' = crashes
        /\ log' = Append(log, StatusEvent("pending"))
    BY <1>4 DEF Announce
  <2>2. /\ log' \in Seq(Events) /\ LogOK(log')
        /\ \A r \in Record :
             /\ Replay(r, log) \in Record
             /\ Replay(r, log') = [Replay(r, log) EXCEPT !.status = "pending"]
    <3>1. "pending" \in Statuses
      BY DEF Statuses, ACTIVE_RUN_STATUSES
    <3>2. LogOK(log) /\ log \in Seq(Events) /\ NewRecord \in Record
      BY NewIsRecord DEF PurgeInv, PurgeTypes
    <3>3. QED
      BY <2>1, <3>1, <3>2, ReplayStatus, ReplayType
  <2>3. PurgeTypes' /\ PurgeLogInv'
    BY <2>1, <2>2 DEF PurgeInv, PurgeTypes, PurgeLogInv
  <2>4. OutcomeInv'
    <3>1. base \in Record => Replay(base, log').status = "pending"
      <4> SUFFICES ASSUME base \in Record
                   PROVE  Replay(base, log').status = "pending"
        OBVIOUS
      <4>1. /\ Replay(base, log) \in Record
            /\ Replay(base, log') = [Replay(base, log) EXCEPT !.status = "pending"]
        BY <2>2
      <4>2. QED
        BY <4>1, RecordFields
    <3>2. QED
      BY <2>1, <3>1 DEF OutcomeInv, SameOutcome, TERMINAL_RUN_STATUSES
  <2>5. QED
    BY <2>3, <2>4 DEF PurgeInv
<1>5. CASE PurgeLogs
  <2>1. SameOutcome(image)
    BY <1>5, ReplayNothing
       DEF PurgeLogs, PurgeInv, PurgeTypes, PurgeLogInv, SameOutcome
  <2>2. QED
    BY <1>5, <2>1
       DEF PurgeLogs, PurgeInv, PurgeTypes, PurgeLogInv, OutcomeInv, SameOutcome
<1>6. QED
  BY <1>1, <1>2, <1>3, <1>4, <1>5

\* The calls and the crash that leave the log alone or end it.
LEMMA PurgeOtherStep ==
  ASSUME PurgeInv, CreateRun \/ cleanup_old_runs \/ Crash \/ UNCHANGED vars
  PROVE  PurgeInv'
<1> USE StoreMarkersAssumption
<1>1. CASE CreateRun
  <2>1. /\ pc' = "open" /\ image' = NewRecord /\ then' \in {"announce", "idle"}
        /\ base' = base /\ log' = log /\ crashes' = crashes /\ log = << >>
    BY <1>1 DEF CreateRun, Persist, PurgeInv, PurgeLogInv
  <2>2. QED
    BY <2>1, NewIsRecord, ReplayNothing
       DEF PurgeInv, PurgeTypes, PurgeLogInv, OutcomeInv, SameOutcome
<1>2. CASE cleanup_old_runs
  BY <1>2 DEF cleanup_old_runs, PurgeInv, PurgeTypes, PurgeLogInv, OutcomeInv
<1>3. CASE Crash
  <2>1. /\ pc' = "idle" /\ crashes' = crashes + 1
        /\ base' = base /\ log' = log /\ image' = image /\ then' = then
    BY <1>3 DEF Crash
  <2>2. crashes' \in Nat /\ crashes' # 0
    BY <2>1 DEF PurgeInv, PurgeTypes
  <2>3. PurgeTypes' /\ PurgeLogInv'
    BY <2>1, <2>2 DEF PurgeInv, PurgeTypes, PurgeLogInv
  <2>4. OutcomeInv'
    BY <2>2 DEF OutcomeInv
  <2>5. QED
    BY <2>3, <2>4 DEF PurgeInv
<1>4. CASE UNCHANGED vars
  BY <1>4 DEF vars, PurgeInv, PurgeTypes, PurgeLogInv, OutcomeInv, SameOutcome
<1>5. QED
  BY <1>1, <1>2, <1>3, <1>4

\* PurgeInv holds throughout, whatever the calls, the purges and the crashes.
THEOREM PurgeInvariant == SpecPurge => []PurgeInv
<1>1. Init => PurgeInv
  <2> SUFFICES ASSUME Init PROVE PurgeInv
    OBVIOUS
  <2>1. PurgeTypes
    BY NewIsRecord, ReplayNothing DEF Init, PurgeTypes
  <2>2. PurgeLogInv /\ OutcomeInv
    BY StoreMarkersAssumption DEF Init, PurgeLogInv, OutcomeInv
  <2>3. QED
    BY <2>1, <2>2 DEF PurgeInv
<1>2. PurgeInv /\ [Next \/ PurgeEvents \/ PurgeLogs]_vars => PurgeInv'
  BY PurgeStatusStep, PurgeMetaStep, PurgeFieldStep, PurgeEventsStep,
     PurgeWriteStep, PurgeOtherStep DEF Next, Call
<1>3. QED
  BY <1>1, <1>2, PTL DEF SpecPurge

\* The first purge to stop half way loses no outcome: PurgeKeepsOutcome fails
\* only on a run whose base a crash had already left behind its log.
THEOREM PurgeScope == SpecPurge => FirstStopKeepsOutcome
<1>1. ASSUME PurgeInv, [Next \/ PurgeEvents \/ PurgeLogs]_vars,
             crashes = 0, pc = "unlink logs", pc' = "idle"
      PROVE  Readable' /\ Current'.status = image.status
  <2>1. base' = base /\ log' = log
    BY <1>1 DEF Next, Call, CreateRun, update_run_status, merge_run_meta,
       PersistField, cleanup_old_runs, Open, Fill, Truncate, Announce,
       UnlinkEvents, Crash, PurgeEvents, PurgeLogs, vars
  <2>2. base \in Record /\ log = << >> /\ base.status = image.status
    BY <1>1 DEF PurgeInv, PurgeLogInv
  <2>3. Replay(base', log') = base
    BY <2>1, <2>2, ReplayNothing
  <2>4. QED
    BY <2>1, <2>2, <2>3 DEF Readable, Current
<1>2. PurgeInv /\ [Next \/ PurgeEvents \/ PurgeLogs]_vars =>
        [ (crashes = 0 /\ pc = "unlink logs" /\ pc' = "idle")
          => Readable' /\ Current'.status = image.status ]_vars
  BY <1>1
<1>3. QED
  BY <1>2, PurgeInvariant, PTL DEF SpecPurge, FirstStopKeepsOutcome
=============================================================================
