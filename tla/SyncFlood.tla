----------------------------- MODULE SyncFlood -----------------------------
(***************************************************************************)
(* What one round of push gossip promises: a synchronous flood.  The       *)
(* message starts at Origin; in step k + 1 every node that has a live link *)
(* from a node reached in step k, and was not reached before, is reached.  *)
(* The number a node gets is its number of hops from the origin.  Nothing  *)
(* is said of queues, of the order in which nodes are served, or of who    *)
(* delivered the message.                                                  *)
(***************************************************************************)
EXTENDS Naturals

CONSTANTS Nodes,      \* the nodes of the cluster
          Origin,     \* the node whose message is flooded, one of them
          Unreached   \* the hop count of a node the flood has not reached, no number

VARIABLES links,      \* links[n]: the live nodes n sends to
          hops        \* hops[n]: the step in which n was reached

floodVars == <<links, hops>>

Reached == {n \in Nodes : hops[n] # Unreached}

\* The nodes reached in the latest step.
Frontier == {n \in Reached : \A r \in Reached : hops[r] <= hops[n]}

\* The nodes the next step reaches.
NextLayer == {n \in Nodes \ Reached : \E f \in Frontier : n \in links[f]}

FloodInit ==
  /\ links \in [Nodes -> SUBSET Nodes]
  /\ hops = [n \in Nodes |-> IF n = Origin THEN 0 ELSE Unreached]

\* One step of the flood: the whole next layer at once.
Flood ==
  /\ NextLayer # {}
  /\ \E f \in Frontier :
       hops' = [n \in Nodes |-> IF n \in NextLayer THEN hops[f] + 1 ELSE hops[n]]
  /\ UNCHANGED links

FloodSpec == FloodInit /\ [][Flood]_floodVars
=============================================================================
