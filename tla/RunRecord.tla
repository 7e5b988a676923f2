----------------------------- MODULE RunRecord -----------------------------
(***************************************************************************)
(* What the run store promises about one run, whatever files it uses: the  *)
(* run is one record, every operation takes effect at once or not at all,  *)
(* and the status moves only along VALID_TRANSITIONS.  The one thing a     *)
(* crash may do to a run is make its file unreadable; it never brings an   *)
(* older state back.                                                       *)
(***************************************************************************)
EXTENDS RunStatus

CONSTANTS
  Metas,      \* values of a field carried by merge_meta and stage events
  NoMeta,     \* its value in a new run
  Counts,     \* values of a field kept in the base file only (awaiting_count,
              \* child_run_ids, child_context)
  NoCount,    \* its value in a new run
  Absent,     \* the run has not been created
  Lost,       \* its file can no longer be parsed
  Gone        \* the retention sweep removed it

Record == [status : Statuses, meta : Metas, count : Counts]

NewRecord == [status |-> "pending", meta |-> NoMeta, count |-> NoCount]

VARIABLE rec

Init == rec = Absent

Create == rec = Absent /\ rec' = NewRecord

Move == /\ rec \in Record
        /\ \E s \in VALID_TRANSITIONS(rec.status) :
              rec' = [rec EXCEPT !.status = s]

Note == rec \in Record /\ \E m \in Metas : rec' = [rec EXCEPT !.meta = m]

Count == rec \in Record /\ \E c \in Counts : rec' = [rec EXCEPT !.count = c]

Lose == rec \in Record /\ rec' = Lost

Remove == rec \in Record \cup {Lost} /\ rec' = Gone

Next == Create \/ Move \/ Note \/ Count \/ Lose \/ Remove

Spec == Init /\ [][Next]_rec
=============================================================================
