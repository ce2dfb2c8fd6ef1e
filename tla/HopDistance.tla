---------------------------- MODULE HopDistance -----------------------------
(***************************************************************************)
(* Distances in a directed graph, the reference that the breadth-first     *)
(* search is compared with and that the round model uses in its place.     *)
(* links[n] is the set of nodes n has an edge to.                          *)
(***************************************************************************)
EXTENDS Naturals, FiniteSets, FiniteSetsExt

\* Balls(links, origin, nodes)[k]: the nodes at most k hops from the origin.
Balls(links, origin, nodes) ==
  LET ball[k \in 0..Cardinality(nodes)] ==
        IF k = 0 THEN {origin}
        ELSE LET inner == ball[k - 1] IN inner \cup UNION {links[n] : n \in inner}
  IN  ball

\* The distance of every node, or `unreached` where no path leads.
HopsFrom(links, origin, nodes, unreached) ==
  LET ball == Balls(links, origin, nodes)
      rounds(n) == {k \in 0..Cardinality(nodes) : n \in ball[k]}
  IN  [n \in nodes |-> IF rounds(n) = {} THEN unreached ELSE Min(rounds(n))]
=============================================================================
