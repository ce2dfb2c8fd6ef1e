-------------------------- MODULE MCSimulationSweep --------------------------
(***************************************************************************)
(* Instances of SimulationSweep for TLC: every test type, one to three     *)
(* origin ranks (one of them of no node), up to three simulations, a step  *)
(* that is a fraction and one that is not, and start values on both sides  *)
(* of their bounds, with accounts from a file; every way to have the       *)
(* accounts written and read, with a few of those; and numbers of rounds   *)
(* and of buckets that fit each other, do not, and are 0.                  *)
(***************************************************************************)
EXTENDS SimulationSweep

CONSTANTS a, b, c   \* the nodes

Vote(node, stake) == [node |-> node, stake |-> stake]

\* Nodes with several vote accounts, of equal stake, and of none; a node that
\* leaves, and stakes that move, and that are too small for the stake buckets.
MCSnapshots ==
  {<<Vote(a, 2), Vote(b, 3), Vote(a, 1), Vote(c, 0), Vote(c, 0)>>,
   <<Vote(c, 4), Vote(b, 0), Vote(b, 1), Vote(a, 4)>>,
   <<Vote(c, 0), Vote(b, 4)>>,
   <<Vote(b, 2), Vote(a, 1)>>}

ConfigWith(fanout, activeSetSize, fraction, rank) ==
  [gossip_push_fanout |-> fanout, gossip_active_set_size |-> activeSetSize,
   min_ingress_nodes |-> 2, origin_rank |-> rank,
   prune_stake_threshold |-> fraction, fraction_to_fail |-> fraction,
   probability_of_rotation |-> fraction]

Write(filterZero, zeroStakes, count) ==
  [filterZero |-> filterZero, zeroStakes |-> zeroStakes, count |-> count]

Buckets(stranded, hops, messages) ==
  [stranded |-> stranded, hops |-> hops, messages |-> messages]

Ranks == {<<1>>, <<0>>, <<1, 2>>, <<2, 1, 4>>}

Sweeps ==
  {[testType |-> test, originRanks |-> ranks, numSimulations |-> sims, stepSize |-> step,
    iterations |-> 22, warmUp |-> 20, whenToFail |-> 1, buckets |-> Buckets(2, 15, 1),
    config |-> ConfigWith(fanout, 2, fraction, ranks[1]),
    source |-> "file", filterZero |-> FALSE, write |-> Write(FALSE, FALSE, 9)] :
      test \in TestTypes, ranks \in Ranks, sims \in 0..3, step \in {50, 100},
      fanout \in {1, 2}, fraction \in {0, 60, 120}}

WaysToLoad ==
  {[testType |-> test, originRanks |-> ranks, numSimulations |-> 2, stepSize |-> 100,
    iterations |-> 22, warmUp |-> 20, whenToFail |-> 1, buckets |-> Buckets(2, 15, 1),
    config |-> ConfigWith(1, 2, 60, ranks[1]),
    source |-> source, filterZero |-> filterZero, write |-> Write(filterWrite, zeroStakes, count)] :
      test \in {"NoTest", "OriginRank"}, ranks \in {<<1, 2>>, <<2, 3, 1>>},
      source \in {"rpc", "file", "unnamed file"}, filterZero \in BOOLEAN,
      filterWrite \in BOOLEAN, zeroStakes \in BOOLEAN, count \in 0..4}

WaysToMeasure ==
  {[testType |-> test, originRanks |-> <<1>>, numSimulations |-> 1, stepSize |-> 100,
    iterations |-> iterations, warmUp |-> 20, whenToFail |-> 21,
    buckets |-> Buckets(stranded, hops, messages),
    config |-> [ConfigWith(fanout, 2, 60, 1) EXCEPT !.fraction_to_fail = fraction],
    source |-> "file", filterZero |-> FALSE, write |-> Write(FALSE, FALSE, 9)] :
      test \in {"NoTest", "FailNodes", "MinIngressNodes"}, iterations \in {20, 21, 23},
      stranded \in {0, 3, 4}, hops \in {0, 15, 40, 70}, messages \in 0..2,
      fanout \in 0..1, fraction \in {60, 120}}

MCArgSets == Sweeps \cup WaysToLoad \cup WaysToMeasure
=============================================================================
