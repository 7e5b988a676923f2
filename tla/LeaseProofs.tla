----------------------------- MODULE LeaseProofs -----------------------------
(***************************************************************************)
(* The lease, for any number of workers and any names.                     *)
(***************************************************************************)
EXTENDS Lease, TLAPS

LInv == LTypeOK /\ HolderAlone

\* What nobody owns is not owned under any name.
LEMMA FreshIsALease ==
  ASSUME "nobody" \notin Names, NEW w \in Workers
  PROVE  /\ Fresh(Name[w]) \in Leases /\ Fresh(Name[w]) # NoLease
         /\ Fresh(Name[w]).owner = Name[w]
<1>1. Name[w] \in Names /\ Name[w] # "nobody"
  BY DEF Names
<1>2. QED
  BY <1>1 DEF Fresh, Leases, NoLease

\* Initially nobody works and the lease is free.
LEMMA LeaseInit == LInit => LInv
BY DEF LInit, LInv, LTypeOK, HolderAlone, Leases

\* One step of the lease keeps the invariant.
LEMMA LeaseStep ==
  ASSUME "nobody" \notin Names, LInv, [LNext]_lvars
  PROVE  LInv'
<1> USE DEF LInv, LTypeOK
<1>1. ASSUME NEW w \in Workers, LAcquire(w)
      PROVE  LInv'
  BY <1>1, FreshIsALease DEF LAcquire, HolderAlone, Owns
<1>2. ASSUME NEW w \in Workers, LBeat(w)
      PROVE  LInv'
  BY <1>2, FreshIsALease DEF LBeat, HolderAlone, Owns
<1>3. ASSUME NEW w \in Workers, LRelease(w)
      PROVE  LInv'
  <2>1. CASE Owns(w)
    BY <1>3, <2>1 DEF LRelease, HolderAlone, Leases
  <2>2. CASE ~Owns(w)
    BY <1>3, <2>2 DEF LRelease, HolderAlone, Owns
  <2>3. QED
    BY <2>1, <2>2
<1>4. CASE LExpire
  <2>1. /\ lease' \in Leases /\ lease' # NoLease
        /\ lease'.owner = lease.owner
    <3>1. lease \in [owner : Names, expired : BOOLEAN]
      BY <1>4 DEF LExpire, Leases
    <3>2. lease' = [lease EXCEPT !.expired = TRUE]
      BY <1>4 DEF LExpire
    <3>3. /\ lease' \in [owner : Names, expired : BOOLEAN]
          /\ lease'.owner = lease.owner /\ lease.owner # "nobody"
      BY <3>1, <3>2
    <3>4. QED
      BY <3>3 DEF Leases, NoLease
  <2>2. QED
    BY <1>4, <2>1 DEF LExpire, HolderAlone, Owns
<1>5. CASE LDie
  BY <1>5 DEF LDie, HolderAlone
<1>6. CASE UNCHANGED lvars
  BY <1>6 DEF lvars, HolderAlone, Owns
<1>7. QED
  BY <1>1, <1>2, <1>3, <1>4, <1>5, <1>6 DEF LNext

\* The lease's invariant (_lock.py: recover, acquire, heartbeat, release).
THEOREM LeaseInvariance ==
  ASSUME "nobody" \notin Names
  PROVE  LSpec => []LInv
<1>1. LInv /\ [LNext]_lvars => LInv'
  BY LeaseStep
<1>2. QED
  BY <1>1, LeaseInit, PTL DEF LSpec

\* Of all who work under the lease at one time at most one has not been
\* overtaken, and it is the one the file names.
THEOREM LeaseKeepsApart ==
  ASSUME "nobody" \notin Names
  PROVE  LSpec => []HolderAlone
<1>1. LInv => HolderAlone
  BY DEF LInv
<1>2. QED
  BY <1>1, LeaseInvariance, PTL
=============================================================================
