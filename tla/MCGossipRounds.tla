--------------------------- MODULE MCGossipRounds ---------------------------
(***************************************************************************)
(* Instances of GossipRounds for TLC: node 1 is the origin, and the stakes *)
(* give some nodes equal weight.                                           *)
(***************************************************************************)
EXTENDS GossipRounds, TLC

MCStakes == Restrict(1 :> 4 @@ 2 :> 1 @@ 3 :> 2 @@ 4 :> 2 @@ 5 :> 0, Nodes)

\* A bound on the initial states: every active set starts in ascending order.
\* Rotation reaches the other orders; and where the fanout is not below the
\* size of an active set, the order plays no part.
Ascending(entry) ==
  \A i, j \in DOMAIN entry : i < j => entry[i].node < entry[j].node

AscendingInit ==
  StartWith([n \in Nodes |-> {e \in Rotations(n, <<>>) : Ascending(e)}])

AscendingSpec == AscendingInit /\ [][Next]_vars /\ WF_vars(Next)
=============================================================================
