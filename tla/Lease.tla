------------------------------- MODULE Lease -------------------------------
(***************************************************************************)
(* Abstract specification of the file leases of services/ops/_lock.py: who *)
(* works under a lease that expires, and who has lost it while working.    *)
(*                                                                         *)
(* The file names its owner; several workers may go by one name (two       *)
(* pipelines of a run), and none of them is told when it loses the lease.  *)
(***************************************************************************)
CONSTANTS
  Workers,      \* those who acquire
  Name          \* the owner each of them writes into the file

VARIABLES
  lease,        \* the file: NoLease, or its owner and whether it is past
                \* its expires_at
  working,      \* workers between acquire and release
  overtaken     \* of them, those whose lease somebody else took or removed

lvars == <<lease, working, overtaken>>

Names == { Name[w] : w \in Workers }

\* Nobody goes by the name "nobody" (every instance assumes it).
NoLease == [owner |-> "nobody", expired |-> TRUE]
Fresh(n) == [owner |-> n, expired |-> FALSE]
Leases == { NoLease } \cup [owner : Names, expired : BOOLEAN]

LInit == lease = NoLease /\ working = {} /\ overtaken = {}

Owns(w) == lease # NoLease /\ lease.owner = Name[w]

\* recover_stale_..., then acquire_...: an unexpired lease refuses everybody.
\* (The execution lock would let its owner in again; no owner asks twice.)
LAcquire(w) ==
  /\ w \notin working /\ lease.expired
  /\ lease' = Fresh(Name[w])
  /\ overtaken' = working
  /\ working' = working \cup {w}

\* heartbeat_...: extends also a lease past its expiry, if nobody took it.
LBeat(w) ==
  /\ w \in working /\ Owns(w)
  /\ lease' = Fresh(Name[w])
  /\ UNCHANGED <<working, overtaken>>

\* release_...: removes the file if it carries the worker's name, which may
\* be somebody else's by now.
LRelease(w) ==
  /\ w \in working
  /\ working' = working \ {w}
  /\ IF Owns(w)
       THEN lease' = NoLease /\ overtaken' = working \ {w}
       ELSE lease' = lease /\ overtaken' = overtaken \ {w}

LExpire ==
  /\ lease # NoLease /\ lease' = [lease EXCEPT !.expired = TRUE]
  /\ UNCHANGED <<working, overtaken>>

\* The process dies; the file stays.
LDie ==
  /\ working' = {} /\ overtaken' = {} /\ UNCHANGED lease

LNext ==
  \/ \E w \in Workers : LAcquire(w) \/ LBeat(w) \/ LRelease(w)
  \/ LExpire \/ LDie

LSpec == LInit /\ [][LNext]_lvars

-----------------------------------------------------------------------------
LTypeOK ==
  /\ lease \in Leases /\ working \subseteq Workers
  /\ overtaken \subseteq working

\* Who has not lost the lease is alone: of all who work at one time at most
\* one has not been overtaken, whatever expired in between, and its name is
\* the one in the file.
HolderAlone ==
  \A v, w \in working \ overtaken : v = w /\ Owns(v)
=============================================================================
