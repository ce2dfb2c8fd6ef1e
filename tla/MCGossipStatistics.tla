------------------------- MODULE MCGossipStatistics -------------------------
(***************************************************************************)
(* Instances of GossipStatistics for TLC.  The stakes fill both buckets of *)
(* the message histogram.                                                  *)
(***************************************************************************)
EXTENDS GossipStatistics

CONSTANTS o, a, b   \* the nodes; o is the origin

MCStakes == [n \in Nodes |-> CASE n = o -> 6 [] n = a -> 3 [] OTHER -> 1]

Choice(strandedCount, hopsCount, messagesCount) ==
  [stranded |-> strandedCount, hops |-> hopsCount, messages |-> messagesCount]

\* Ranges that come out even, that are rounded down, and that come out 0, and
\* no buckets at all.
MCBucketChoices ==
  {Choice(3, 2, 2), Choice(2, 3, 2), Choice(1, 4, 1), Choice(4, 2, 2), Choice(3, 5, 2),
   Choice(3, 2, 4), Choice(3, 2, 7), Choice(0, 2, 2), Choice(3, 0, 2), Choice(3, 2, 0)}
=============================================================================
