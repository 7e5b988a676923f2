--------------------------- MODULE MCRunLifecycle ---------------------------
(***************************************************************************)
(* RunLifecycle for TLC.  Two runs are enough for every race the module    *)
(* describes: it takes two to share a key, a slot or a place in the queue. *)
(***************************************************************************)
EXTENDS RunLifecycle, TLC

CONSTANTS k1, k2

OneKey == {k1}

TwoKeys == {k1, k2}

\* Keys are only compared, and Init starts with any of them; of use to safety
\* properties.
AnyKey == Permutations(TwoKeys)
=============================================================================
