--------------------------- MODULE MCReceivedCache --------------------------
(***************************************************************************)
(* An instance of ReceivedCache for TLC.  Peers p and q have equal stakes, *)
(* so that the sort has ties; the node itself has more than each origin,   *)
(* so that it matters whose stake the threshold is a share of.             *)
(***************************************************************************)
EXTENDS ReceivedCache, TLC

CONSTANTS me, o, p, q

MCStakes == me :> 8 @@ o :> 4 @@ p :> 2 @@ q :> 2

\* p and q have the same stake and both are origins and senders.
Symmetry == Permutations({p, q})
=============================================================================
