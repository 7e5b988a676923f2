------------------------------ MODULE RunStore ------------------------------
(***************************************************************************)
(* The files of one run (services/ops/_run.py): a base JSON file and an    *)
(* append-only event log.  The state of the run is the base with the log   *)
(* replayed over it.  A call holds the OPS file lock (or runs inside one   *)
(* uninterrupted stretch of the event loop), so calls do not interleave;   *)
(* but each is several file writes, and the process can die between any    *)
(* two of them.  write_text truncates the file before it fills it, so a    *)
(* rewrite of the base is two steps; an append is one short write.         *)
(***************************************************************************)
EXTENDS RunStatus, Naturals, Sequences

CONSTANTS
  Targets,      \* the statuses callers ask for
  Metas, NoMeta, Counts, NoCount, Absent, Torn, Gone,
  CompactAt,    \* length at which the log is compacted (50 in the code)
  MaxCrashes    \* bound: how many times the process dies

ASSUME StoreAssumption ==
  /\ Targets \subseteq Statuses
  /\ NoMeta \in Metas /\ NoCount \in Counts
  /\ CompactAt \in Nat \ {0, 1}    \* the event of create_run alone fits
  /\ MaxCrashes \in Nat

Record == [status : Statuses, meta : Metas, count : Counts]

NewRecord == [status |-> "pending", meta |-> NoMeta, count |-> NoCount]

ASSUME StoreMarkersAssumption ==
  /\ Absent \notin Record /\ Torn \notin Record /\ Gone \notin Record
  /\ Absent # Torn /\ Absent # Gone /\ Torn # Gone

VARIABLES
  base,      \* the base file: a record, or Absent, Torn, Gone
  log,       \* the event log
  pc,        \* what the call in progress does next; "idle" between calls
  image,     \* the record the call in progress is writing to the base
  then,      \* what the call does once the base is filled
  crashes    \* how many times the process has died so far

vars == <<base, log, pc, image, then, crashes>>

StatusEvent(s) == [kind |-> "status", status |-> s, meta |-> NoMeta]

MetaEvent(m) == [kind |-> "meta", status |-> "pending", meta |-> m]

Events == { StatusEvent(s) : s \in Statuses } \cup { MetaEvent(m) : m \in Metas }

(***************************************************************************)
(* _materialize_run: replaying the log over the base, event after event,   *)
(* leaves each field with its last writer.                                 *)
(***************************************************************************)
OfKind(events, k) == { i \in DOMAIN events : events[i].kind = k }

LastOf(events, k) ==
  CHOOSE i \in OfKind(events, k) : \A j \in OfKind(events, k) : j <= i

\* Mutant: the status is taken from the wrong field of the event.
ReplayWrongField(r, events) ==
  [ status |-> IF OfKind(events, "status") = {} THEN r.status
               ELSE events[LastOf(events, "status")].meta,
    meta   |-> IF OfKind(events, "meta") = {} THEN r.meta
               ELSE events[LastOf(events, "meta")].meta,
    count  |-> r.count ]

Replay(r, events) ==
  [ status |-> IF OfKind(events, "status") = {} THEN r.status
               ELSE events[LastOf(events, "status")].status,
    meta   |-> IF OfKind(events, "meta") = {} THEN r.meta
               ELSE events[LastOf(events, "meta")].meta,
    count  |-> r.count ]

Current == Replay(base, log)

Readable == base \in Record

Init ==
  /\ base = Absent /\ log = << >>
  /\ pc = "idle" /\ image = NewRecord /\ then = "idle"
  /\ crashes = 0

(***************************************************************************)
(* The writes calls are made of.                                           *)
(***************************************************************************)

\* _persist_run has opened the file for writing: its old content is gone.
Open == /\ pc = "open"
        /\ base' = Torn /\ pc' = "fill"
        /\ UNCHANGED <<log, image, then, crashes>>

\* _persist_run has written and closed the file.
Fill == /\ pc = "fill"
        /\ base' = image /\ pc' = then
        /\ UNCHANGED <<log, image, then, crashes>>

\* _compact_run_events_if_needed: events_path.write_text("").
Truncate == /\ pc = "truncate"
            /\ log' = << >> /\ pc' = "idle"
            /\ UNCHANGED <<base, image, then, crashes>>

\* create_run, after the base: the first status event.
Announce == /\ pc = "announce"
            /\ log' = Append(log, StatusEvent("pending")) /\ pc' = "idle"
            /\ UNCHANGED <<base, image, then, crashes>>

\* cleanup_old_runs, after the base: the event log goes too.
UnlinkEvents == /\ pc = "unlink"
                /\ log' = << >> /\ pc' = "idle"
                /\ UNCHANGED <<base, image, then, crashes>>

(***************************************************************************)
(* The calls.  Each begins when no call is in progress.                    *)
(***************************************************************************)

\* A call that goes on to write record r to the base and then does t.
Persist(r, t) == pc' = "open" /\ image' = r /\ then' = t

\* create_run announces the run with a status event; spawn_child does not.
CreateRun ==
  /\ pc = "idle" /\ base = Absent
  /\ \E t \in {"announce", "idle"} : Persist(NewRecord, t)
  /\ UNCHANGED <<base, log, crashes>>

\* Mutant: compaction persists the run as loaded, before the replay.
CompactUnreplayed(event) ==
  /\ log' = Append(log, event)
  /\ IF Len(log') < CompactAt
       THEN UNCHANGED <<pc, image, then>>
       ELSE Persist(base, "truncate")

\* Mutant: compaction only at the exact length, which a terminal event skips.
CompactAtExactly(event) ==
  /\ log' = Append(log, event)
  /\ IF Len(log') # CompactAt
       THEN UNCHANGED <<pc, image, then>>
       ELSE Persist(Replay(base, log'), "truncate")

\* _append_run_event, then _compact_run_events_if_needed.
AppendThenCompact(event) ==
  /\ log' = Append(log, event)
  /\ IF Len(log') < CompactAt
       THEN UNCHANGED <<pc, image, then>>
       ELSE Persist(Replay(base, log'), "truncate")

\* Mutant: the guard reads the status of the base file.
UpdateGuardedByBase(s) ==
  /\ pc = "idle" /\ Readable
  /\ s \in VALID_TRANSITIONS(base.status) \ {base.status}
  /\ IF s \in TERMINAL_RUN_STATUSES
       THEN /\ log' = Append(log, StatusEvent(s))
            /\ Persist(Replay(base, log'), "idle")
       ELSE AppendThenCompact(StatusEvent(s))
  /\ UNCHANGED <<base, crashes>>

\* Mutant: a terminal status is an event like any other.
UpdateNotPersisted(s) ==
  /\ pc = "idle" /\ Readable
  /\ s \in VALID_TRANSITIONS(Current.status) \ {Current.status}
  /\ AppendThenCompact(StatusEvent(s))
  /\ UNCHANGED <<base, crashes>>

update_run_status(s) ==
  /\ pc = "idle" /\ Readable
  /\ s \in VALID_TRANSITIONS(Current.status) \ {Current.status}
  /\ IF s \in TERMINAL_RUN_STATUSES
       THEN /\ log' = Append(log, StatusEvent(s))
            /\ Persist(Replay(base, log'), "idle")
       ELSE AppendThenCompact(StatusEvent(s))
  /\ UNCHANGED <<base, crashes>>

\* merge_run_meta, heartbeat_run, set_run_stage, update_run_merge_metadata.
merge_run_meta(m) ==
  /\ pc = "idle" /\ Readable
  /\ AppendThenCompact(MetaEvent(m))
  /\ UNCHANGED <<base, crashes>>

\* spawn_child and _handle_child_completion change a field of the base as it
\* is on disk; _execute_run writes back the run with the log replayed.
PersistField(c) ==
  /\ pc = "idle" /\ Readable
  /\ \E r \in {base, Current} : Persist([r EXCEPT !.count = c], "idle")
  /\ UNCHANGED <<base, log, crashes>>

\* cleanup_old_runs goes by the file's age: it asks for no status and does
\* not parse the file.
cleanup_old_runs ==
  /\ pc = "idle" /\ base \in Record \cup {Torn}
  /\ base' = Gone /\ pc' = "unlink"
  /\ UNCHANGED <<log, image, then, crashes>>

\* The process dies inside a call; the lock goes with it.
Crash ==
  /\ pc # "idle" /\ crashes < MaxCrashes
  /\ pc' = "idle" /\ crashes' = crashes + 1
  /\ UNCHANGED <<base, log, image, then>>

Call ==
  \/ CreateRun
  \/ \E s \in Targets : update_run_status(s)
  \/ \E m \in Metas : merge_run_meta(m)
  \/ \E c \in Counts : PersistField(c)
  \/ cleanup_old_runs

Next == Call \/ Open \/ Fill \/ Truncate \/ Announce \/ UnlinkEvents \/ Crash

Spec == Init /\ [][Next]_vars

(***************************************************************************)
(* What the files say the run is.  A file that has been truncated and not  *)
(* yet refilled counts as the record about to be written: nobody can look  *)
(* before the call ends, and if the process dies first the run is lost.    *)
(***************************************************************************)
Shown ==
  CASE base \in Record -> Replay(base, log)
    [] base = Torn /\ pc = "fill" -> Replay(image, log)
    [] OTHER -> base

RR == INSTANCE RunRecord WITH Lost <- Torn, rec <- Shown

(***************************************************************************)
(* Properties.                                                             *)
(***************************************************************************)

TypeOK ==
  /\ base \in Record \cup {Absent, Torn, Gone}
  /\ log \in Seq(Events)
  /\ pc \in {"idle", "open", "fill", "truncate", "announce", "unlink"}
  /\ image \in Record
  /\ then \in {"idle", "truncate", "announce"}
  /\ crashes \in 0..MaxCrashes

\* The files behave as one record: whatever mix of log appends, compactions
\* and base rewrites the calls perform, and wherever the process dies, no
\* status ever leaves the status machine and nothing older comes back
\* (_materialize_run, _compact_run_events_if_needed, _persist_run).
ImplementsRecord == RR!Spec

\* A compaction or terminal write in flight is about to store what the run
\* already is, and the log is emptied only once the base says all it said:
\* dying between the two file writes loses nothing.
TruncateLosesNothing == pc = "truncate" => Replay(base, log) = base

\* Compaction bounds the log.  It may pass CompactAt only by the events that
\* move a run to a terminal status (update_run_status persists those without
\* compacting; MERGE_CONFLICT is terminal and can still move on, so there are
\* at most two), by the event just appended, and by two for each crash before
\* a Truncate: the event of the call that died, and a terminal one that run
\* may then add again.
LogBounded ==
  Len(log) <= CompactAt + 1 + 2 * crashes + (IF pc = "idle" THEN 0 ELSE 1)

\* Once a call that ended a run has returned and no crash intervened, the
\* base file alone, without its log, already tells the outcome.
OutcomeInBase ==
  (pc = "idle" /\ crashes = 0 /\ Readable) =>
    (Current.status \in TERMINAL_RUN_STATUSES => base.status = Current.status)
=============================================================================
