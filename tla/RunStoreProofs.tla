--------------------------- MODULE RunStoreProofs ---------------------------
(***************************************************************************)
(* RunStore, for every set of metas and counts, every compaction length    *)
(* and any number of crashes: the files never lose or revive anything (the *)
(* store implements RunRecord) and the event log stays bounded.            *)
(***************************************************************************)
EXTENDS RunStore, TLAPS

-----------------------------------------------------------------------------
(***************************************************************************)
(* Replaying a log.  LastOf is a CHOOSE over indices: it is well defined   *)
(* on the logs the store writes, those where each kind of event is either  *)
(* missing or has a last occurrence.                                       *)
(***************************************************************************)

Last(events, k, i) ==
  i \in OfKind(events, k) /\ \A j \in OfKind(events, k) : j <= i

LogOK(events) ==
  \A k \in {"status", "meta"} :
     OfKind(events, k) = {} \/ \E i \in DOMAIN events : Last(events, k, i)

\* LastOf picks the last occurrence.
LEMMA LastOfIsLast ==
  ASSUME NEW l \in Seq(Events), NEW k, NEW i \in DOMAIN l, Last(l, k, i)
  PROVE  LastOf(l, k) = i
<1> DEFINE P(n) == n \in OfKind(l, k) /\ \A j \in OfKind(l, k) : j <= n
<1>1. P(i)
  BY DEF Last
<1>2. P(LastOf(l, k))
  <2>1. LastOf(l, k) = CHOOSE n : P(n)
    BY DEF LastOf
  <2>2. QED
    BY <1>1, <2>1
<1>3. OfKind(l, k) \subseteq Nat
  BY DEF OfKind
<1>4. QED
  BY <1>1, <1>2, <1>3

\* Events are records with a kind, a status and a meta.
LEMMA EventTypes ==
  /\ \A s \in Statuses : StatusEvent(s) \in Events
  /\ \A m \in Metas : MetaEvent(m) \in Events
  /\ \A e \in Events : e.kind \in {"status", "meta"}
  /\ \A e \in Events : e.kind = "status" => e.status \in Statuses
  /\ \A e \in Events : e.kind = "meta" => e.meta \in Metas
<1>1. \A s \in Statuses : StatusEvent(s) \in Events
  BY DEF Events
<1>2. \A m \in Metas : MetaEvent(m) \in Events
  BY DEF Events
<1>3. ASSUME NEW e \in Events
      PROVE  /\ e.kind \in {"status", "meta"}
             /\ e.kind = "status" => e.status \in Statuses
             /\ e.kind = "meta" => e.meta \in Metas
  <2>1. CASE \E s \in Statuses : e = StatusEvent(s)
    BY <2>1 DEF StatusEvent
  <2>2. CASE \E m \in Metas : e = MetaEvent(m)
    BY <2>2 DEF MetaEvent
  <2>3. QED
    BY <2>1, <2>2 DEF Events
<1>4. QED
  BY <1>1, <1>2, <1>3

\* Appending an event leaves the last occurrence of the other kind where it
\* was and is itself the last of its own kind.
LEMMA AppendKinds ==
  ASSUME NEW l \in Seq(Events), NEW e \in Events, LogOK(l)
  PROVE  /\ Append(l, e) \in Seq(Events)
         /\ LogOK(Append(l, e))
         /\ OfKind(Append(l, e), e.kind) # {}
         /\ Append(l, e)[LastOf(Append(l, e), e.kind)] = e
         /\ \A k \in {"status", "meta"} \ {e.kind} :
              /\ OfKind(Append(l, e), k) = OfKind(l, k)
              /\ OfKind(l, k) # {} =>
                   Append(l, e)[LastOf(Append(l, e), k)] = l[LastOf(l, k)]
<1> DEFINE a == Append(l, e)
           n == Len(l) + 1
<1>1. /\ a \in Seq(Events) /\ Len(a) = n /\ n \in Nat
      /\ DOMAIN a = 1..n /\ DOMAIN l = 1..Len(l)
      /\ a[n] = e /\ n \in DOMAIN a /\ \A j \in DOMAIN a : j <= n
      /\ DOMAIN l \subseteq DOMAIN a
      /\ \A j \in DOMAIN a : j = n \/ j \in DOMAIN l
      /\ \A i \in DOMAIN l : a[i] = l[i] /\ i < n
  OBVIOUS
<1> HIDE DEF a, n
<1>2. Last(a, e.kind, n)
  BY <1>1 DEF Last, OfKind
<1>3. /\ OfKind(a, e.kind) # {}
      /\ a[LastOf(a, e.kind)] = e
  BY <1>1, <1>2, LastOfIsLast DEF Last
<1>4. ASSUME NEW k \in {"status", "meta"} \ {e.kind}
      PROVE  /\ OfKind(a, k) = OfKind(l, k)
             /\ OfKind(l, k) # {} => \E i \in DOMAIN l : Last(l, k, i)
             /\ \A i \in DOMAIN l : Last(l, k, i) =>
                  Last(a, k, i) /\ a[LastOf(a, k)] = l[LastOf(l, k)]
  <2>1. OfKind(a, k) = OfKind(l, k)
    BY <1>1 DEF OfKind
  <2>2. OfKind(l, k) # {} => \E i \in DOMAIN l : Last(l, k, i)
    BY DEF LogOK
  <2>3. ASSUME NEW i \in DOMAIN l, Last(l, k, i)
        PROVE  Last(a, k, i) /\ a[LastOf(a, k)] = l[LastOf(l, k)]
    <3>1. Last(a, k, i) /\ i \in DOMAIN a
      BY <1>1, <2>1, <2>3 DEF Last
    <3>2. LastOf(a, k) = i /\ LastOf(l, k) = i
      BY <1>1, <2>3, <3>1, LastOfIsLast
    <3>3. QED
      BY <1>1, <3>1, <3>2
  <2>4. QED
    BY <2>1, <2>2, <2>3
<1>5. LogOK(a)
  <2> SUFFICES ASSUME NEW k \in {"status", "meta"}
               PROVE  OfKind(a, k) = {} \/ \E i \in DOMAIN a : Last(a, k, i)
    BY DEF LogOK
  <2>1. CASE k = e.kind
    BY <1>1, <1>2, <2>1
  <2>2. CASE k # e.kind
    BY <1>1, <1>4, <2>2
  <2>3. QED
    BY <2>1, <2>2
<1>6. QED
  BY <1>1, <1>3, <1>4, <1>5 DEF a

\* Replaying gives a record again.
LEMMA ReplayType ==
  ASSUME NEW l \in Seq(Events), LogOK(l), NEW r \in Record
  PROVE  Replay(r, l) \in Record
<1>1. ASSUME NEW k \in {"status", "meta"}, OfKind(l, k) # {}
      PROVE  l[LastOf(l, k)] \in Events /\ l[LastOf(l, k)].kind = k
  <2>1. PICK i \in DOMAIN l : Last(l, k, i)
    BY <1>1 DEF LogOK
  <2>2. LastOf(l, k) = i /\ i \in OfKind(l, k)
    BY <2>1, LastOfIsLast DEF Last
  <2>3. QED
    BY <2>2 DEF OfKind
<1>2. OfKind(l, "status") # {} => l[LastOf(l, "status")].status \in Statuses
  BY <1>1, EventTypes
<1>3. OfKind(l, "meta") # {} => l[LastOf(l, "meta")].meta \in Metas
  BY <1>1, EventTypes
<1>4. QED
  BY <1>2, <1>3 DEF Replay, Record

\* A record is its three fields.
LEMMA RecordFields ==
  ASSUME NEW r \in Record
  PROVE  /\ \A s : [r EXCEPT !.status = s]
                     = [status |-> s, meta |-> r.meta, count |-> r.count]
         /\ \A m : [r EXCEPT !.meta = m]
                     = [status |-> r.status, meta |-> m, count |-> r.count]
         /\ \A c : [r EXCEPT !.count = c]
                     = [status |-> r.status, meta |-> r.meta, count |-> c]
BY DEF Record

\* The effect of one more event on the replayed record.
LEMMA ReplayStatus ==
  ASSUME NEW l \in Seq(Events), LogOK(l), NEW r \in Record, NEW s \in Statuses
  PROVE  /\ Append(l, StatusEvent(s)) \in Seq(Events)
         /\ LogOK(Append(l, StatusEvent(s)))
         /\ Replay(r, Append(l, StatusEvent(s)))
              = [Replay(r, l) EXCEPT !.status = s]
<1> DEFINE e == StatusEvent(s)
<1>1. e \in Events /\ e.kind = "status" /\ e.status = s
  BY EventTypes DEF StatusEvent
<1> HIDE DEF e
<1>2. "meta" \in {"status", "meta"} \ {e.kind}
  BY <1>1
<1>3. Replay(r, Append(l, e)) = [Replay(r, l) EXCEPT !.status = s]
  <2>1. /\ OfKind(Append(l, e), "status") # {}
        /\ Append(l, e)[LastOf(Append(l, e), "status")] = e
    <3>1. /\ OfKind(Append(l, e), e.kind) # {}
          /\ Append(l, e)[LastOf(Append(l, e), e.kind)] = e
      BY <1>1, AppendKinds
    <3>2. QED
      BY <1>1, <3>1, Zenon
  <2>2. /\ OfKind(Append(l, e), "meta") = OfKind(l, "meta")
        /\ OfKind(l, "meta") # {} =>
             Append(l, e)[LastOf(Append(l, e), "meta")] = l[LastOf(l, "meta")]
    BY <1>1, <1>2, AppendKinds
  <2>3. Replay(r, Append(l, e))
          = [status |-> s, meta |-> Replay(r, l).meta, count |-> r.count]
    BY <1>1, <2>1, <2>2 DEF Replay
  <2>4. Replay(r, l) \in Record /\ Replay(r, l).count = r.count
    BY ReplayType DEF Replay
  <2>5. QED
    BY <2>3, <2>4, RecordFields
<1>4. QED
  BY <1>1, <1>3, AppendKinds DEF e

\* A meta event changes the meta of the replayed record and nothing else.
LEMMA ReplayMeta ==
  ASSUME NEW l \in Seq(Events), LogOK(l), NEW r \in Record, NEW m \in Metas
  PROVE  /\ Append(l, MetaEvent(m)) \in Seq(Events)
         /\ LogOK(Append(l, MetaEvent(m)))
         /\ Replay(r, Append(l, MetaEvent(m)))
              = [Replay(r, l) EXCEPT !.meta = m]
<1> DEFINE e == MetaEvent(m)
<1>1. e \in Events /\ e.kind = "meta" /\ e.meta = m
  BY EventTypes DEF MetaEvent
<1> HIDE DEF e
<1>2. "status" \in {"status", "meta"} \ {e.kind}
  BY <1>1
<1>3. Replay(r, Append(l, e)) = [Replay(r, l) EXCEPT !.meta = m]
  <2>1. /\ OfKind(Append(l, e), "meta") # {}
        /\ Append(l, e)[LastOf(Append(l, e), "meta")] = e
    <3>1. /\ OfKind(Append(l, e), e.kind) # {}
          /\ Append(l, e)[LastOf(Append(l, e), e.kind)] = e
      BY <1>1, AppendKinds
    <3>2. QED
      BY <1>1, <3>1, Zenon
  <2>2. /\ OfKind(Append(l, e), "status") = OfKind(l, "status")
        /\ OfKind(l, "status") # {} =>
             Append(l, e)[LastOf(Append(l, e), "status")] = l[LastOf(l, "status")]
    BY <1>1, <1>2, AppendKinds
  <2>3. Replay(r, Append(l, e))
          = [status |-> Replay(r, l).status, meta |-> m, count |-> r.count]
    BY <1>1, <2>1, <2>2 DEF Replay
  <2>4. Replay(r, l) \in Record /\ Replay(r, l).count = r.count
    BY ReplayType DEF Replay
  <2>5. QED
    BY <2>3, <2>4, RecordFields
<1>4. QED
  BY <1>1, <1>3, AppendKinds DEF e

\* Replaying a log twice is replaying it once.
LEMMA ReplayTwice ==
  ASSUME NEW r, NEW l
  PROVE  Replay(Replay(r, l), l) = Replay(r, l)
BY DEF Replay

\* Replaying the empty log changes nothing.
LEMMA ReplayNothing ==
  /\ LogOK(<< >>) /\ << >> \in Seq(Events)
  /\ \A r \in Record : Replay(r, << >>) = r
<1>1. << >> \in Seq(Events) /\ \A k : OfKind(<< >>, k) = {}
  BY DEF OfKind
<1>2. QED
  BY <1>1 DEF LogOK, Replay, Record

\* A change to a field no event carries goes through the replay.
LEMMA ReplayCount ==
  ASSUME NEW l \in Seq(Events), LogOK(l), NEW r \in Record, NEW c \in Counts
  PROVE  Replay([r EXCEPT !.count = c], l) = [Replay(r, l) EXCEPT !.count = c]
<1> DEFINE q == [r EXCEPT !.count = c]
<1>1. q.status = r.status /\ q.meta = r.meta /\ q.count = c
  BY RecordFields
<1> HIDE DEF q
<1>2. Replay(q, l) = [status |-> Replay(r, l).status,
                      meta |-> Replay(r, l).meta, count |-> c]
  BY <1>1 DEF Replay
<1>3. QED
  BY <1>2, ReplayType, RecordFields DEF q

\* A new run is a record.
LEMMA NewIsRecord == NewRecord \in Record
BY StoreAssumption
   DEF NewRecord, Record, Statuses, ACTIVE_RUN_STATUSES

-----------------------------------------------------------------------------
(***************************************************************************)
(* The status machine, as far as the log's length depends on it: a move to *)
(* a terminal status brings the run closer to where nothing moves any      *)
(* more, so a run makes at most two of them without a compaction between.  *)
(***************************************************************************)

Rank(s) == IF s \in TERMINAL_RUN_STATUSES
             THEN IF s = "MERGE_CONFLICT" THEN 1 ELSE 2
             ELSE 0

\* Transitions lead to statuses (VALID_TRANSITIONS).
LEMMA TransitionTypes ==
  ASSUME NEW q, NEW s \in VALID_TRANSITIONS(q)
  PROVE  s \in Statuses
BY DEF VALID_TRANSITIONS, FromRunning, Statuses, ACTIVE_RUN_STATUSES,
       TERMINAL_RUN_STATUSES

\* Nothing leaves a status of the highest rank, and a move to a terminal
\* status raises the rank (VALID_TRANSITIONS).
LEMMA TransitionRank ==
  ASSUME NEW q, NEW s \in VALID_TRANSITIONS(q)
  PROVE  /\ Rank(q) <= 1
         /\ s \in TERMINAL_RUN_STATUSES => Rank(q) < Rank(s)
<1>1. CASE q = "MERGE_CONFLICT"
  BY <1>1 DEF VALID_TRANSITIONS, Rank, TERMINAL_RUN_STATUSES
<1>2. CASE q # "MERGE_CONFLICT"
  <2>1. q \notin TERMINAL_RUN_STATUSES
    BY <1>2 DEF VALID_TRANSITIONS, TERMINAL_RUN_STATUSES
  <2>2. QED
    BY <2>1 DEF Rank
<1>3. QED
  BY <1>1, <1>2

\* There are three ranks.
LEMMA RankType == \A s : Rank(s) \in 0..2
BY DEF Rank

-----------------------------------------------------------------------------
(***************************************************************************)
(* The inductive invariant: what holds at each point between two writes.   *)
(***************************************************************************)

\* While a record waits to be written, replaying the log over it gives what
\* the files already say, but for the one field a PersistField call changes.
OpenInv ==
  /\ pc = "open" =>
       \/ base = Absent
       \/ /\ base \in Record
          /\ \E c \in Counts :
               Replay(image, log) = [Replay(base, log) EXCEPT !.count = c]
  /\ pc = "fill" => base = Torn
  /\ (pc \in {"open", "fill"} /\ then = "truncate") =>
       Replay(image, log) = image
  /\ (pc \in {"open", "fill"} /\ then = "announce") =>
       image = NewRecord /\ log = << >>
  /\ pc = "truncate" => base \in Record /\ Replay(base, log) = base
  /\ pc = "announce" => base = NewRecord /\ log = << >>

\* A run that does not exist has no log and only its creation in progress; a
\* removed one has only its log left to remove.
ExistsInv ==
  /\ base = Absent =>
       /\ pc \in {"idle", "open"} /\ log = << >>
       /\ pc = "open" => image = NewRecord /\ then # "truncate"
  /\ pc = "unlink" => base = Gone
  /\ base = Gone => pc \in {"idle", "unlink"}

\* How far the log may have passed CompactAt: by the terminal moves made and
\* by what crashes left.  An unreadable or removed run takes no more events.
ShownRank == IF Shown \in Record THEN Rank(Shown.status) ELSE 2

Room == CompactAt - 1 + ShownRank + 2 * crashes

Compacting ==
  pc = "truncate" \/ (pc \in {"open", "fill"} /\ then = "truncate")

LengthInv ==
  IF Compacting
    THEN Len(log) <= Room + 2 /\ Len(log) <= CompactAt + 2 + 2 * crashes
    ELSE Len(log) <= Room

\* With no crash so far, the base (or the record about to become it) never
\* lags behind a terminal status.
SameOutcome(r) ==
  Replay(r, log).status \in TERMINAL_RUN_STATUSES =>
    r.status = Replay(r, log).status

OutcomeInv ==
  crashes = 0 =>
    /\ (pc \in {"idle", "truncate", "announce"} /\ base \in Record) =>
         SameOutcome(base)
    /\ pc \in {"open", "fill"} => SameOutcome(image)

IInv ==
  TypeOK /\ LogOK(log) /\ OpenInv /\ ExistsInv /\ LengthInv /\ OutcomeInv

\* RunRecord's vocabulary, read through the refinement mapping, is RunStore's.
LEMMA SameVocabulary ==
  /\ RR!Record = Record /\ RR!NewRecord = NewRecord
  /\ \A q : RR!VALID_TRANSITIONS(q) = VALID_TRANSITIONS(q)
<1>1. /\ RR!ACTIVE_RUN_STATUSES = ACTIVE_RUN_STATUSES
      /\ RR!TERMINAL_RUN_STATUSES = TERMINAL_RUN_STATUSES
      /\ RR!FromRunning = FromRunning
  BY DEF ACTIVE_RUN_STATUSES, RR!ACTIVE_RUN_STATUSES, TERMINAL_RUN_STATUSES,
         RR!TERMINAL_RUN_STATUSES, FromRunning, RR!FromRunning
<1>2. RR!Record = Record /\ RR!NewRecord = NewRecord
  BY <1>1 DEF RR!Record, RR!NewRecord, Record, NewRecord, RR!Statuses, Statuses
<1>3. ASSUME NEW q
      PROVE  RR!VALID_TRANSITIONS(q) = VALID_TRANSITIONS(q)
  BY <1>1 DEF RR!VALID_TRANSITIONS, VALID_TRANSITIONS
<1>4. QED
  BY <1>2, <1>3

\* What the mapping shows in each kind of state.
LEMMA ShownIs ==
  ASSUME IInv
  PROVE  /\ base \in Record =>
              Shown = Replay(base, log) /\ Shown \in Record
         /\ pc = "fill" => Shown = Replay(image, log) /\ Shown \in Record
         /\ (base = Torn /\ pc # "fill") => Shown = Torn
         /\ base = Absent => Shown = Absent
         /\ base = Gone => Shown = Gone
<1> USE StoreMarkersAssumption
<1>1. base \in Record => Replay(base, log) \in Record
  BY ReplayType DEF IInv, TypeOK
<1>2. Replay(image, log) \in Record
  BY ReplayType DEF IInv, TypeOK
<1>3. pc = "fill" => base = Torn
  BY DEF IInv, OpenInv
<1>4. QED
  BY <1>1, <1>2, <1>3 DEF Shown

-----------------------------------------------------------------------------
(***************************************************************************)
(* One lemma per step: it keeps the invariant and is a step, or a stutter, *)
(* of RunRecord.                                                           *)
(***************************************************************************)

\* Opening the base for writing keeps IInv; to the record it is a stutter or
\* the change the file is about to make.
LEMMA OpenStep ==
  ASSUME IInv, Open
  PROVE  IInv' /\ [RR!Next]_Shown
<1> USE StoreAssumption, StoreMarkersAssumption
<1>1. /\ pc = "open" /\ base' = Torn /\ pc' = "fill"
      /\ log' = log /\ image' = image /\ then' = then /\ crashes' = crashes
  BY DEF Open
<1>2. TypeOK /\ LogOK(log) /\ OpenInv /\ ExistsInv /\ LengthInv /\ OutcomeInv
  BY DEF IInv
<1>3. Replay(image, log) \in Record /\ Shown' = Replay(image, log)
  BY <1>1, <1>2, ReplayType DEF TypeOK, Shown
<1>4. TypeOK' /\ LogOK(log)'
  BY <1>1, <1>2 DEF TypeOK
<1>5. OpenInv' /\ ExistsInv' /\ OutcomeInv'
  BY <1>1, <1>2 DEF OpenInv, ExistsInv, OutcomeInv, SameOutcome
<1>6. CASE base = Absent
  <2>1. Shown = Absent /\ log = << >> /\ image = NewRecord /\ then # "truncate"
    BY <1>1, <1>2, <1>6, ShownIs DEF ExistsInv
  <2>2. Shown' = NewRecord
    BY <1>3, <2>1, NewIsRecord, ReplayNothing
  <2>3. LengthInv'
    <3>1. Len(log') = 0
      BY <1>1, <2>1
    <3>2. Room' \in Nat
      BY <1>1, <1>2, <2>2, RankType, NewIsRecord
         DEF Room, ShownRank, TypeOK
    <3>3. QED
      BY <1>1, <2>1, <3>1, <3>2 DEF LengthInv, Compacting
  <2>4. RR!Create
    BY <2>1, <2>2, SameVocabulary DEF RR!Create
  <2>5. QED
    BY <1>4, <1>5, <2>3, <2>4 DEF IInv, RR!Next
<1>7. CASE base \in Record
  <2>1. Shown \in Record /\ Shown = Replay(base, log)
    BY <1>7, ShownIs
  <2>2. PICK c \in Counts : Shown' = [Shown EXCEPT !.count = c]
    BY <1>1, <1>2, <1>3, <1>7, <2>1 DEF OpenInv
  <2>3. Shown'.status = Shown.status /\ Shown' \in Record
    BY <1>3, <2>1, <2>2, RecordFields
  <2>4. LengthInv'
    BY <1>1, <1>2, <2>1, <2>3
       DEF LengthInv, Room, ShownRank, Compacting
  <2>5. RR!Count
    BY <2>1, <2>2, SameVocabulary DEF RR!Count
  <2>6. QED
    BY <1>4, <1>5, <2>4, <2>5 DEF IInv, RR!Next
<1>8. QED
  BY <1>1, <1>2, <1>6, <1>7 DEF OpenInv

\* A step that shows nothing new and adds no event.
LEMMA SameShown ==
  ASSUME IInv, Shown' = Shown, crashes' = crashes, log' = log,
         Compacting' = Compacting
  PROVE  LengthInv' /\ [RR!Next]_Shown
BY DEF IInv, LengthInv, Room, ShownRank

\* Writing the base keeps IInv and what the files show.
LEMMA FillStep ==
  ASSUME IInv, Fill
  PROVE  IInv' /\ [RR!Next]_Shown
<1> USE StoreMarkersAssumption
<1>1. /\ pc = "fill" /\ base' = image /\ pc' = then
      /\ log' = log /\ image' = image /\ then' = then /\ crashes' = crashes
  BY DEF Fill
<1>2. TypeOK /\ LogOK(log) /\ OpenInv /\ ExistsInv /\ LengthInv /\ OutcomeInv
  BY DEF IInv
<1>3. image \in Record /\ then \in {"idle", "truncate", "announce"}
  BY <1>2 DEF TypeOK
<1>4. Shown' = Shown
  BY <1>1, <1>3, ShownIs DEF Shown
<1>5. LengthInv' /\ [RR!Next]_Shown
  BY <1>1, <1>3, <1>4, SameShown DEF Compacting
<1>6. TypeOK' /\ LogOK(log)'
  BY <1>1, <1>2 DEF TypeOK
<1>7. OpenInv' /\ ExistsInv' /\ OutcomeInv'
  BY <1>1, <1>2, <1>3 DEF OpenInv, ExistsInv, OutcomeInv, SameOutcome
<1>8. QED
  BY <1>5, <1>6, <1>7 DEF IInv

\* Emptying the log: the base already says what the log said.
LEMMA TruncateStep ==
  ASSUME IInv, Truncate
  PROVE  IInv' /\ [RR!Next]_Shown
<1>1. /\ pc = "truncate" /\ log' = << >> /\ pc' = "idle"
      /\ base' = base /\ image' = image /\ then' = then /\ crashes' = crashes
  BY DEF Truncate
<1>2. TypeOK /\ OpenInv /\ ExistsInv
  BY DEF IInv
<1>3. base \in Record /\ Replay(base, log) = base /\ Replay(base, << >>) = base
  BY <1>1, <1>2, ReplayNothing DEF OpenInv
<1>4. Shown' = Shown /\ Shown' \in Record
  BY <1>1, <1>3, ShownIs DEF Shown
<1>5. LengthInv'
  <2>1. Len(log') = 0 /\ ~Compacting'
    BY <1>1 DEF Compacting
  <2>2. Room' \in Nat
    BY <1>1, <1>2, <1>4, RankType, StoreAssumption DEF Room, ShownRank, TypeOK
  <2>3. QED
    BY <2>1, <2>2 DEF LengthInv
<1>6. TypeOK' /\ LogOK(log)'
  BY <1>1, <1>2, ReplayNothing DEF TypeOK
<1>7. OpenInv' /\ ExistsInv' /\ OutcomeInv'
  BY <1>1, <1>2, <1>3, StoreMarkersAssumption
     DEF OpenInv, ExistsInv, OutcomeInv, SameOutcome
<1>8. QED
  BY <1>4, <1>5, <1>6, <1>7 DEF IInv

\* The first event of a run repeats what its base says.
LEMMA AnnounceStep ==
  ASSUME IInv, Announce
  PROVE  IInv' /\ [RR!Next]_Shown
<1>1. /\ pc = "announce" /\ log' = Append(log, StatusEvent("pending"))
      /\ pc' = "idle"
      /\ base' = base /\ image' = image /\ then' = then /\ crashes' = crashes
  BY DEF Announce
<1>2. TypeOK /\ LogOK(log) /\ OpenInv /\ ExistsInv
  BY DEF IInv
<1>3. base = NewRecord /\ base \in Record /\ log = << >>
  BY <1>1, <1>2, NewIsRecord DEF OpenInv
<1>4. "pending" \in Statuses
  BY DEF Statuses, ACTIVE_RUN_STATUSES
<1>5. /\ TypeOK' /\ LogOK(log)'
      /\ Replay(base, log') = [Replay(base, log) EXCEPT !.status = "pending"]
  <2>1. log \in Seq(Events)
    BY <1>2 DEF TypeOK
  <2>2. /\ log' \in Seq(Events) /\ LogOK(log')
        /\ Replay(base, log') = [Replay(base, log) EXCEPT !.status = "pending"]
    <3>1. \A s \in Statuses :
            /\ Append(log, StatusEvent(s)) \in Seq(Events)
            /\ LogOK(Append(log, StatusEvent(s)))
            /\ Replay(base, Append(log, StatusEvent(s)))
                 = [Replay(base, log) EXCEPT !.status = s]
      BY <1>2, <1>3, <2>1, ReplayStatus
    <3>2. QED
      BY <1>1, <1>4, <3>1, Zenon
  <2>3. QED
    BY <1>1, <1>2, <2>2 DEF TypeOK
<1>6. Replay(base, log) = NewRecord /\ Replay(base, log') = NewRecord
  BY <1>3, <1>5, NewIsRecord, ReplayNothing, RecordFields DEF NewRecord
<1>7. Shown' = Shown /\ Shown' = NewRecord
  BY <1>1, <1>3, <1>6, ShownIs DEF Shown
<1>8. LengthInv'
  <2>1. Len(log') = 1 /\ ~Compacting'
    BY <1>1, <1>3 DEF Compacting
  <2>2. 1 <= Room'
    BY <1>1, <1>2, <1>7, NewIsRecord, RankType, StoreAssumption
       DEF Room, ShownRank, TypeOK
  <2>3. QED
    BY <2>1, <2>2 DEF LengthInv
<1>9. OpenInv' /\ ExistsInv' /\ OutcomeInv'
  BY <1>1, <1>2, <1>3, <1>6, StoreMarkersAssumption
     DEF OpenInv, ExistsInv, OutcomeInv, SameOutcome
<1>10. QED
  BY <1>5, <1>7, <1>8, <1>9 DEF IInv

\* Removing a removed run's log keeps IInv and what the files show.
LEMMA UnlinkStep ==
  ASSUME IInv, UnlinkEvents
  PROVE  IInv' /\ [RR!Next]_Shown
<1>1. /\ pc = "unlink" /\ log' = << >> /\ pc' = "idle"
      /\ base' = base /\ image' = image /\ then' = then /\ crashes' = crashes
  BY DEF UnlinkEvents
<1>2. TypeOK /\ base = Gone
  BY <1>1 DEF IInv, ExistsInv
<1>3. Shown' = Gone /\ Shown = Gone /\ Gone \notin Record
  BY <1>1, <1>2, StoreMarkersAssumption DEF Shown
<1>4. LengthInv'
  BY <1>1, <1>2, <1>3, StoreAssumption
     DEF LengthInv, Compacting, Room, ShownRank, TypeOK
<1>5. TypeOK' /\ LogOK(log)'
  BY <1>1, <1>2, ReplayNothing DEF TypeOK
<1>6. OpenInv' /\ ExistsInv' /\ OutcomeInv'
  BY <1>1, <1>2, StoreMarkersAssumption DEF OpenInv, ExistsInv, OutcomeInv
<1>7. QED
  BY <1>3, <1>4, <1>5, <1>6 DEF IInv

\* Dying between two writes.  Only a file that was open is lost with it.
LEMMA CrashStep ==
  ASSUME IInv, Crash
  PROVE  IInv' /\ [RR!Next]_Shown
<1> USE StoreAssumption, StoreMarkersAssumption
<1>1. /\ pc # "idle" /\ crashes < MaxCrashes
      /\ pc' = "idle" /\ crashes' = crashes + 1
      /\ base' = base /\ log' = log /\ image' = image /\ then' = then
  BY DEF Crash
<1>2. TypeOK /\ LogOK(log) /\ OpenInv /\ ExistsInv /\ LengthInv
  BY DEF IInv
<1>3. crashes \in Nat /\ CompactAt \in Nat /\ Len(log) \in Nat
  BY <1>2 DEF TypeOK
<1>4. TypeOK' /\ LogOK(log)' /\ OpenInv' /\ ExistsInv' /\ OutcomeInv'
  BY <1>1, <1>2, <1>3 DEF TypeOK, OpenInv, ExistsInv, OutcomeInv
<1>5. ~Compacting'
  BY <1>1 DEF Compacting
<1>6. CASE pc = "fill"
  <2>1. Shown \in Record /\ Shown' = Torn
    BY <1>1, <1>2, <1>6, ShownIs DEF OpenInv, Shown
  <2>2. RR!Lose
    BY <2>1, SameVocabulary DEF RR!Lose
  <2>3. Rank(Shown.status) <= 2 /\ Room' = CompactAt + 1 + 2 * (crashes + 1)
    BY <1>1, <1>3, <2>1, RankType DEF Room, ShownRank
  <2>4. Len(log) <= Room'
    BY <1>2, <1>3, <2>1, <2>3, RankType DEF LengthInv, Room, ShownRank
  <2>5. QED
    BY <1>1, <1>4, <1>5, <2>2, <2>4 DEF IInv, LengthInv, RR!Next
<1>7. CASE pc # "fill"
  <2>1. Shown' = Shown
    BY <1>1, <1>7 DEF Shown
  <2>2. ShownRank' = ShownRank /\ ShownRank \in 0..2
    BY <2>1, RankType DEF ShownRank
  <2>3. Len(log) <= Room'
    BY <1>1, <1>2, <1>3, <2>2 DEF LengthInv, Room
  <2>4. QED
    BY <1>1, <1>4, <1>5, <2>1, <2>3 DEF IInv, LengthInv
<1>8. QED
  BY <1>6, <1>7

\* The call of create_run or spawn_child keeps IInv; nothing shows yet.
LEMMA CreateStep ==
  ASSUME IInv, CreateRun
  PROVE  IInv' /\ [RR!Next]_Shown
<1> USE StoreMarkersAssumption
<1>1. /\ pc = "idle" /\ base = Absent
      /\ pc' = "open" /\ image' = NewRecord /\ then' \in {"announce", "idle"}
      /\ base' = base /\ log' = log /\ crashes' = crashes
  BY DEF CreateRun, Persist
<1>2. TypeOK /\ LogOK(log) /\ ExistsInv
  BY DEF IInv
<1>3. log = << >>
  BY <1>1, <1>2 DEF ExistsInv
<1>4. Shown' = Shown
  BY <1>1 DEF Shown
<1>5. LengthInv' /\ [RR!Next]_Shown
  BY <1>1, <1>4, SameShown DEF Compacting
<1>6. TypeOK' /\ LogOK(log)'
  BY <1>1, <1>2, NewIsRecord DEF TypeOK
<1>7. OpenInv' /\ ExistsInv'
  BY <1>1, <1>3 DEF OpenInv, ExistsInv
<1>8. OutcomeInv'
  BY <1>1, <1>3, NewIsRecord, ReplayNothing DEF OutcomeInv, SameOutcome
<1>9. QED
  BY <1>5, <1>6, <1>7, <1>8 DEF IInv

\* An event that does not end the run, and the compaction it may start.
LEMMA AppendStep ==
  ASSUME IInv, pc = "idle", base \in Record, base' = base, crashes' = crashes,
         NEW e \in Events, AppendThenCompact(e),
         log' \in Seq(Events), LogOK(log'),
         Replay(base, log').status \in TERMINAL_RUN_STATUSES =>
           Replay(base, log').status = Current.status,
         Rank(Current.status) <= 1
           \/ Replay(base, log').status = Current.status
  PROVE  IInv'
<1> USE StoreAssumption, StoreMarkersAssumption
<1> DEFINE r == Replay(base, log')
<1>1. TypeOK /\ LogOK(log) /\ OpenInv /\ ExistsInv /\ LengthInv /\ OutcomeInv
  BY DEF IInv
<1>2. /\ CompactAt \in Nat /\ crashes \in Nat
      /\ Len(log) \in Nat /\ Len(log') = Len(log) + 1
  BY <1>1 DEF TypeOK, AppendThenCompact
<1>3. r \in Record /\ Replay(r, log') = r
  BY ReplayType, ReplayTwice
<1>4. Shown = Current /\ Shown \in Record /\ Shown' = r
  BY ShownIs DEF Current, Shown
<1>5. /\ Rank(Current.status) \in 0..2 /\ Rank(r.status) \in 0..2
      /\ Rank(Current.status) <= 1 \/ Rank(r.status) = Rank(Current.status)
  BY RankType
<1> HIDE DEF r
<1>6. /\ ShownRank = Rank(Current.status)
      /\ Room' = CompactAt - 1 + Rank(r.status) + 2 * crashes
      /\ Len(log) <= CompactAt - 1 + Rank(Current.status) + 2 * crashes
  BY <1>1, <1>2, <1>3, <1>4 DEF ShownRank, Room, LengthInv, Compacting
<1>7. CASE Len(log') < CompactAt
  <2>1. pc' = "idle" /\ image' = image /\ then' = then
    BY <1>7 DEF AppendThenCompact
  <2>2. TypeOK' /\ OpenInv' /\ ExistsInv'
    BY <1>1, <2>1 DEF TypeOK, OpenInv, ExistsInv
  <2>3. LengthInv'
    BY <1>2, <1>5, <1>6, <1>7, <2>1 DEF LengthInv, Compacting
  <2>4. OutcomeInv'
    BY <1>1, <2>1 DEF OutcomeInv, SameOutcome, Current
  <2>5. QED
    BY <2>2, <2>3, <2>4 DEF IInv
<1>8. CASE ~(Len(log') < CompactAt)
  <2>1. pc' = "open" /\ image' = r /\ then' = "truncate"
    BY <1>8 DEF AppendThenCompact, Persist, r
  <2>2. TypeOK' /\ ExistsInv'
    BY <1>1, <1>3, <2>1 DEF TypeOK, ExistsInv
  <2>3. OpenInv'
    <3>1. r = [r EXCEPT !.count = r.count] /\ r.count \in Counts
      BY <1>3 DEF Record
    <3>2. QED
      BY <1>3, <2>1, <3>1 DEF OpenInv, r
  <2>4. LengthInv'
    <3>1. /\ Len(log') <= CompactAt - 1 + Rank(r.status) + 2 * crashes + 2
          /\ Len(log') <= CompactAt + 2 + 2 * crashes
      BY <1>2, <1>5, <1>6
    <3>2. QED
      BY <1>2, <1>6, <2>1, <3>1 DEF LengthInv, Compacting
  <2>5. OutcomeInv'
    BY <1>3, <2>1 DEF OutcomeInv, SameOutcome
  <2>6. QED
    BY <2>2, <2>3, <2>4, <2>5 DEF IInv
<1>9. QED
  BY <1>7, <1>8

\* update_run_status keeps IInv and is a Move of the record.
LEMMA StatusStep ==
  ASSUME IInv, NEW s \in Targets, update_run_status(s)
  PROVE  IInv' /\ [RR!Next]_Shown
<1> USE StoreAssumption, StoreMarkersAssumption
<1>1. /\ pc = "idle" /\ base \in Record /\ base' = base /\ crashes' = crashes
      /\ s \in VALID_TRANSITIONS(Current.status) /\ s \in Statuses
      /\ log' = Append(log, StatusEvent(s))
  BY DEF update_run_status, Readable, AppendThenCompact
<1>2. TypeOK /\ LogOK(log) /\ OpenInv /\ ExistsInv /\ LengthInv /\ OutcomeInv
  BY DEF IInv
<1>3. /\ log' \in Seq(Events) /\ LogOK(log')
      /\ Replay(base, log') = [Current EXCEPT !.status = s]
  BY <1>1, <1>2, ReplayStatus DEF TypeOK, Current
<1>4. Current \in Record /\ Shown = Current /\ Shown' = Replay(base, log')
  BY <1>1, ShownIs DEF Current, Shown
<1>5. /\ Replay(base, log').status = s /\ Replay(base, log') \in Record
      /\ Replay(Replay(base, log'), log') = Replay(base, log')
  BY <1>1, <1>3, <1>4, RecordFields, ReplayType, ReplayTwice
<1>6. RR!Move
  BY <1>1, <1>3, <1>4, SameVocabulary DEF RR!Move
<1>7. CASE s \notin TERMINAL_RUN_STATUSES
  <2>1. AppendThenCompact(StatusEvent(s)) /\ StatusEvent(s) \in Events
    BY <1>1, <1>7, EventTypes DEF update_run_status
  <2>2. Rank(Current.status) <= 1
    BY <1>1, TransitionRank
  <2>3. IInv'
    BY <1>1, <1>3, <1>5, <1>7, <2>1, <2>2, AppendStep
  <2>4. QED
    BY <1>6, <2>3 DEF RR!Next
<1>8. CASE s \in TERMINAL_RUN_STATUSES
  <2>1. pc' = "open" /\ image' = Replay(base, log') /\ then' = "idle"
    BY <1>8 DEF update_run_status, Persist
  <2>2. TypeOK' /\ ExistsInv'
    BY <1>1, <1>2, <1>3, <1>5, <2>1 DEF TypeOK, ExistsInv
  <2>3. OpenInv'
    <3>1. \A r \in Record : r = [r EXCEPT !.count = r.count] /\ r.count \in Counts
      BY DEF Record
    <3>2. QED
      BY <1>1, <1>5, <2>1, <3>1 DEF OpenInv
  <2>4. LengthInv'
    <3>1. /\ Rank(Current.status) \in Nat /\ Rank(s) \in Nat
          /\ Rank(Current.status) + 1 <= Rank(s)
      BY <1>1, <1>8, TransitionRank, RankType
    <3>2. /\ CompactAt \in Nat /\ crashes \in Nat
          /\ Len(log) \in Nat /\ Len(log') = Len(log) + 1
      BY <1>1, <1>2 DEF TypeOK
    <3>3. /\ Room' = CompactAt - 1 + Rank(s) + 2 * crashes
          /\ Len(log) <= CompactAt - 1 + Rank(Current.status) + 2 * crashes
      BY <1>1, <1>2, <1>4, <1>5, <3>2
         DEF Room, ShownRank, LengthInv, Compacting
    <3>4. QED
      BY <2>1, <3>1, <3>2, <3>3 DEF LengthInv, Compacting
  <2>5. OutcomeInv'
    BY <1>5, <2>1 DEF OutcomeInv, SameOutcome
  <2>6. QED
    BY <1>3, <1>6, <2>2, <2>3, <2>4, <2>5 DEF IInv, RR!Next
<1>9. QED
  BY <1>7, <1>8

\* A meta event keeps IInv and is a Note of the record.
LEMMA MetaStep ==
  ASSUME IInv, NEW m \in Metas, merge_run_meta(m)
  PROVE  IInv' /\ [RR!Next]_Shown
<1> USE StoreMarkersAssumption
<1>1. /\ pc = "idle" /\ base \in Record /\ base' = base /\ crashes' = crashes
      /\ log' = Append(log, MetaEvent(m)) /\ MetaEvent(m) \in Events
      /\ AppendThenCompact(MetaEvent(m))
  BY EventTypes DEF merge_run_meta, Readable, AppendThenCompact
<1>2. TypeOK /\ LogOK(log)
  BY DEF IInv
<1>3. /\ log' \in Seq(Events) /\ LogOK(log')
      /\ Replay(base, log') = [Current EXCEPT !.meta = m]
  BY <1>1, <1>2, ReplayMeta DEF TypeOK, Current
<1>4. Current \in Record /\ Shown = Current /\ Shown' = Replay(base, log')
  BY <1>1, ShownIs DEF Current, Shown
<1>5. Replay(base, log').status = Current.status
  BY <1>3, <1>4, RecordFields
<1>6. RR!Note
  BY <1>3, <1>4, SameVocabulary DEF RR!Note
<1>7. IInv'
  BY <1>1, <1>3, <1>5, AppendStep
<1>8. QED
  BY <1>6, <1>7 DEF RR!Next

\* A write of a base-only field keeps IInv; nothing shows yet.
LEMMA FieldStep ==
  ASSUME IInv, NEW c \in Counts, PersistField(c)
  PROVE  IInv' /\ [RR!Next]_Shown
<1> USE StoreMarkersAssumption
<1>1. PICK r \in {base, Current} :
        /\ pc = "idle" /\ base \in Record /\ base' = base
        /\ log' = log /\ crashes' = crashes
        /\ pc' = "open" /\ image' = [r EXCEPT !.count = c] /\ then' = "idle"
  BY DEF PersistField, Persist, Readable
<1>2. TypeOK /\ LogOK(log) /\ OpenInv /\ ExistsInv /\ OutcomeInv
  BY DEF IInv
<1>3. /\ Current \in Record /\ r \in Record /\ image' \in Record
      /\ Replay(r, log) = Current
      /\ image'.status = r.status
  <2>1. Current \in Record /\ Replay(Current, log) = Current
    BY <1>1, ShownIs, ReplayTwice DEF Current
  <2>2. r \in Record /\ Replay(r, log) = Current
    BY <1>1, <2>1 DEF Current
  <2>3. image' \in Record /\ image'.status = r.status
    BY <1>1, <2>2 DEF Record
  <2>4. QED
    BY <2>1, <2>2, <2>3
<1>4. Replay(image', log) = [Current EXCEPT !.count = c]
  BY <1>1, <1>2, <1>3, ReplayCount DEF TypeOK
<1>5. Shown' = Shown
  BY <1>1 DEF Shown
<1>6. LengthInv' /\ [RR!Next]_Shown
  BY <1>1, <1>5, SameShown DEF Compacting
<1>7. TypeOK' /\ LogOK(log)' /\ ExistsInv'
  BY <1>1, <1>2, <1>3 DEF TypeOK, ExistsInv
<1>8. OpenInv'
  BY <1>1, <1>4 DEF OpenInv, Current
<1>9. OutcomeInv'
  <2>1. Replay(image', log).status = Current.status
    BY <1>3, <1>4, RecordFields
  <2>2. crashes = 0 => SameOutcome(base)
    BY <1>1, <1>2 DEF OutcomeInv
  <2>3. QED
    BY <1>1, <1>3, <2>1, <2>2 DEF OutcomeInv, SameOutcome, Current
<1>10. QED
  BY <1>6, <1>7, <1>8, <1>9 DEF IInv

\* The retention sweep keeps IInv and is a Remove of the record.
LEMMA CleanupStep ==
  ASSUME IInv, cleanup_old_runs
  PROVE  IInv' /\ [RR!Next]_Shown
<1> USE StoreAssumption, StoreMarkersAssumption
<1>1. /\ pc = "idle" /\ base \in Record \cup {Torn}
      /\ base' = Gone /\ pc' = "unlink"
      /\ log' = log /\ image' = image /\ then' = then /\ crashes' = crashes
  BY DEF cleanup_old_runs
<1>2. TypeOK /\ LogOK(log) /\ LengthInv
  BY DEF IInv
<1>3. Shown \in Record \cup {Torn} /\ Shown' = Gone /\ Gone \notin Record
  BY <1>1, ShownIs DEF Shown
<1>4. RR!Remove
  BY <1>3, SameVocabulary DEF RR!Remove
<1>5. LengthInv'
  <2>1. /\ CompactAt \in Nat /\ crashes \in Nat /\ Len(log) \in Nat
        /\ ShownRank \in 0..2 /\ ShownRank' = 2
    BY <1>2, <1>3, RankType DEF TypeOK, ShownRank
  <2>2. QED
    BY <1>1, <1>2, <2>1 DEF LengthInv, Compacting, Room
<1>6. TypeOK' /\ OpenInv' /\ ExistsInv' /\ OutcomeInv'
  BY <1>1, <1>2 DEF TypeOK, OpenInv, ExistsInv, OutcomeInv
<1>7. QED
  BY <1>1, <1>2, <1>4, <1>5, <1>6 DEF IInv, RR!Next

-----------------------------------------------------------------------------
(***************************************************************************)
(* The results.                                                            *)
(***************************************************************************)

\* Initially IInv holds and the files show an absent run.
LEMMA InitStep == Init => IInv /\ RR!Init
<1> SUFFICES ASSUME Init PROVE IInv /\ RR!Init
  OBVIOUS
<1> USE StoreAssumption, StoreMarkersAssumption
<1>1. /\ base = Absent /\ log = << >> /\ pc = "idle" /\ image = NewRecord
      /\ then = "idle" /\ crashes = 0
  BY DEF Init
<1>2. Shown = Absent
  BY <1>1 DEF Shown
<1>3. TypeOK /\ LogOK(log)
  BY <1>1, NewIsRecord, ReplayNothing DEF TypeOK
<1>4. OpenInv /\ ExistsInv /\ OutcomeInv
  BY <1>1 DEF OpenInv, ExistsInv, OutcomeInv
<1>5. LengthInv
  BY <1>1, <1>2 DEF LengthInv, Compacting, Room, ShownRank
<1>6. QED
  BY <1>2, <1>3, <1>4, <1>5 DEF IInv, RR!Init

\* Every step keeps IInv and is a step of the record or a stutter.
LEMMA NextStep == IInv /\ [Next]_vars => IInv' /\ [RR!Next]_Shown
<1> SUFFICES ASSUME IInv, [Next]_vars
             PROVE  IInv' /\ [RR!Next]_Shown
  OBVIOUS
<1>1. CASE CreateRun
  BY <1>1, CreateStep
<1>2. ASSUME NEW s \in Targets, update_run_status(s)
      PROVE  IInv' /\ [RR!Next]_Shown
  BY <1>2, StatusStep
<1>3. ASSUME NEW m \in Metas, merge_run_meta(m)
      PROVE  IInv' /\ [RR!Next]_Shown
  BY <1>3, MetaStep
<1>4. ASSUME NEW c \in Counts, PersistField(c)
      PROVE  IInv' /\ [RR!Next]_Shown
  BY <1>4, FieldStep
<1>5. CASE cleanup_old_runs
  BY <1>5, CleanupStep
<1>6. CASE Open
  BY <1>6, OpenStep
<1>7. CASE Fill
  BY <1>7, FillStep
<1>8. CASE Truncate
  BY <1>8, TruncateStep
<1>9. CASE Announce
  BY <1>9, AnnounceStep
<1>10. CASE UnlinkEvents
  BY <1>10, UnlinkStep
<1>11. CASE Crash
  BY <1>11, CrashStep
<1>12. CASE UNCHANGED vars
  <2>1. UNCHANGED <<base, log, pc, image, then, crashes>>
    BY <1>12 DEF vars
  <2>2. Shown' = Shown
    BY <2>1 DEF Shown
  <2>3. IInv'
    BY <2>1, <2>2 DEF IInv, TypeOK, OpenInv, ExistsInv, LengthInv, OutcomeInv,
       SameOutcome, Compacting, Room, ShownRank
  <2>4. QED
    BY <2>2, <2>3
<1>13. QED
  BY <1>1, <1>2, <1>3, <1>4, <1>5, <1>6, <1>7, <1>8, <1>9, <1>10, <1>11,
     <1>12 DEF Next, Call

\* IInv holds initially and every step of every call, and every crash,
\* preserves it: what the files say can be read off at any point of any call.
THEOREM Invariance == Spec => []IInv
<1>1. Init => IInv
  BY InitStep
<1>2. IInv /\ [Next]_vars => IInv'
  BY NextStep
<1>3. QED
  BY <1>1, <1>2, PTL DEF Spec

\* Every variable keeps its type, whatever the constants.
THEOREM TypeCorrect == Spec => []TypeOK
<1>1. IInv => TypeOK
  BY DEF IInv
<1>2. QED
  BY <1>1, Invariance, PTL

\* For any number of crashes, at any point of any call, the base and the log
\* together behave as one record whose status follows VALID_TRANSITIONS
\* (update_run_status, _compact_run_events_if_needed, cleanup_old_runs).
THEOREM StoreImplementsRecord == Spec => ImplementsRecord
<1>1. Init => RR!Init
  BY InitStep
<1>2. IInv /\ [Next]_vars => [RR!Next]_Shown
  BY NextStep
<1>3. QED
  BY <1>1, <1>2, Invariance, PTL DEF Spec, ImplementsRecord, RR!Spec

\* The log is emptied only when the base alone says the same
\* (_compact_run_events_if_needed).
THEOREM TruncateSafe == Spec => []TruncateLosesNothing
<1>1. IInv => TruncateLosesNothing
  BY DEF IInv, OpenInv, TruncateLosesNothing
<1>2. QED
  BY <1>1, Invariance, PTL

\* The log never grows past the compaction length by more than two terminal
\* moves, the event being handled and two events for each crash.
THEOREM LogStaysBounded == Spec => []LogBounded
<1>1. IInv => LogBounded
  <2> SUFFICES ASSUME IInv PROVE LogBounded
    OBVIOUS
  <2>1. /\ CompactAt \in Nat /\ crashes \in Nat /\ Len(log) \in Nat
        /\ ShownRank \in 0..2
    BY StoreAssumption, RankType DEF IInv, TypeOK, ShownRank
  <2>2. pc = "idle" => ~Compacting
    BY DEF Compacting
  <2>3. LengthInv
    BY DEF IInv
  <2>4. QED
    BY <2>1, <2>2, <2>3 DEF LogBounded, LengthInv, Room
<1>2. QED
  BY <1>1, Invariance, PTL

\* Without a crash, a run that has ended says so in its base file alone
\* (update_run_status persists terminal statuses).
THEOREM OutcomePersisted == Spec => []OutcomeInBase
<1>1. IInv => OutcomeInBase
  BY DEF IInv, OutcomeInv, SameOutcome, OutcomeInBase, Current, Readable
<1>2. QED
  BY <1>1, Invariance, PTL

-----------------------------------------------------------------------------
(***************************************************************************)
(* What the files never do.                                                *)
(***************************************************************************)

\* Nothing but a death of the process leaves a torn file behind: as long as
\* none has happened, a truncated base is one a call is about to fill
\* (_persist_run).
OnlyCrashesTear == (base = Torn /\ crashes = 0) => pc = "fill"

\* The outcomes no later call may touch; a merge conflict can still be
\* resolved (VALID_TRANSITIONS).
FinalStatuses == TERMINAL_RUN_STATUSES \ {"MERGE_CONFLICT"}

\* As long as the run can be read at all, it tells the outcome it once told:
\* no call, no compaction, no field written back from a stale base and no
\* crash between two writes changes or revives a run that has ended
\* (update_run_status, _compact_run_events_if_needed, _persist_run).
OutcomeSurvives ==
  [][ (/\ Shown \in Record /\ Shown.status \in FinalStatuses
       /\ (Shown)' \in Record)
      => (Shown)'.status = Shown.status ]_vars

\* The base is torn by Open, which is about to fill it, and otherwise only
\* while it already was.
THEOREM NoTearWithoutCrash == Spec => []OnlyCrashesTear
<1> USE StoreMarkersAssumption
<1>1. Init => OnlyCrashesTear
  BY DEF Init, OnlyCrashesTear
<1>2. ASSUME IInv, OnlyCrashesTear, [Next]_vars
      PROVE  OnlyCrashesTear'
  <2> SUFFICES ASSUME base' = Torn, crashes' = 0 PROVE pc' = "fill"
    BY DEF OnlyCrashesTear
  <2>1. crashes \in Nat /\ (pc = "fill" => base = Torn)
    BY StoreAssumption, <1>2 DEF IInv, TypeOK, OpenInv
  <2>2. CASE Open
    BY <2>2 DEF Open
  <2>3. CASE Fill
    BY <1>2, <2>3 DEF Fill, IInv, TypeOK
  <2>4. CASE Crash
    BY <2>1, <2>4 DEF Crash
  <2>5. CASE cleanup_old_runs
    BY <2>5 DEF cleanup_old_runs
  <2>6. CASE /\ pc # "fill" /\ base' = base /\ crashes' = crashes
    BY <1>2, <2>6 DEF OnlyCrashesTear
  <2>7. CASE UNCHANGED vars
    BY <1>2, <2>7 DEF OnlyCrashesTear, vars
  <2>8. (Truncate \/ Announce \/ UnlinkEvents \/ CreateRun)
          => pc # "fill" /\ base' = base /\ crashes' = crashes
    BY DEF Truncate, Announce, UnlinkEvents, CreateRun
  <2>9. \A s \in Targets : update_run_status(s)
          => pc # "fill" /\ base' = base /\ crashes' = crashes
    BY DEF update_run_status
  <2>10. \A m \in Metas : merge_run_meta(m)
          => pc # "fill" /\ base' = base /\ crashes' = crashes
    BY DEF merge_run_meta
  <2>11. \A c \in Counts : PersistField(c)
          => pc # "fill" /\ base' = base /\ crashes' = crashes
    BY DEF PersistField
  <2>12. QED
    BY <1>2, <2>2, <2>3, <2>4, <2>5, <2>6, <2>7, <2>8, <2>9, <2>10, <2>11
       DEF Next, Call
<1>3. QED
  BY <1>1, <1>2, Invariance, PTL DEF Spec

\* A final status has no successor in the table, and every other step of the
\* record the files implement keeps the status of a run that stays readable.
THEOREM OutcomeNeverChanges == Spec => OutcomeSurvives
<1>1. ASSUME IInv, [Next]_vars,
             Shown \in Record, Shown.status \in FinalStatuses,
             (Shown)' \in Record
      PROVE  (Shown)'.status = Shown.status
  <2>1. [RR!Next]_Shown
    BY <1>1, NextStep
  <2>2. \A s : s \notin VALID_TRANSITIONS(Shown.status)
    BY <1>1 DEF FinalStatuses, TERMINAL_RUN_STATUSES, VALID_TRANSITIONS
  <2>3. CASE RR!Create
    BY <1>1, <2>3, StoreMarkersAssumption DEF RR!Create
  <2>4. CASE RR!Move
    BY <2>2, <2>4, SameVocabulary DEF RR!Move
  <2>5. CASE RR!Note
    <3>1. PICK m \in Metas : Shown' = [Shown EXCEPT !.meta = m]
      BY <2>5 DEF RR!Note
    <3>2. QED
      BY <1>1, <3>1, RecordFields
  <2>6. CASE RR!Count
    <3>1. PICK c \in Counts : Shown' = [Shown EXCEPT !.count = c]
      BY <2>6 DEF RR!Count
    <3>2. QED
      BY <1>1, <3>1, RecordFields
  <2>7. CASE RR!Lose \/ RR!Remove
    BY <1>1, <2>7, StoreMarkersAssumption DEF RR!Lose, RR!Remove
  <2>8. CASE Shown' = Shown
    BY <2>8
  <2>9. QED
    BY <2>1, <2>3, <2>4, <2>5, <2>6, <2>7, <2>8 DEF RR!Next
<1>2. IInv /\ [Next]_vars =>
        [ (/\ Shown \in Record /\ Shown.status \in FinalStatuses
           /\ (Shown)' \in Record)
          => (Shown)'.status = Shown.status ]_vars
  BY <1>1
<1>3. QED
  BY <1>2, Invariance, PTL DEF Spec, OutcomeSurvives
=============================================================================
