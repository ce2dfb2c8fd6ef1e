-------------------------- MODULE GossipStatistics --------------------------
(***************************************************************************)
(* The statistics of one simulation: the loop of run_simulation            *)
(* (gossip_main.rs) and GossipStats (gossip_stats.rs).  After the warm-up, *)
(* every round adds an entry to each of several series; when the rounds    *)
(* are over the series are put into histograms and summed up.              *)
(*                                                                         *)
(* A round is played by an arbitrary cluster: any live links, and any      *)
(* choice of which nodes prune.  GossipRounds models where they come from. *)
(* A panic ends the program: pc is then "panicked".                        *)
(***************************************************************************)
EXTENDS StatHistogram, HopDistance, DataPoints

CONSTANTS
  Nodes, Origin, Stakes,
  Unreached,          \* u64::MAX
  Iterations,         \* gossip_iterations
  WarmUp,             \* warm_up_rounds
  NumToFail,          \* nodes fail_nodes fails; 0 when the test type is another
  WhenToFail,         \* when_to_fail
  StakeBuckets,       \* VALIDATOR_STAKE_DISTRIBUTION_NUM_BUCKETS
  HopsUpper,          \* upper bound of the hops histogram: 30, 50, or 40 and more
  BucketChoices,      \* the numbers of buckets a user may ask for
  Word                \* 2^64, the numbers of a u64

ASSUME StatisticsAssumption ==
  /\ IsFiniteSet(Nodes) /\ Origin \in Nodes
  /\ Stakes \in [Nodes -> Nat]
  /\ Unreached \notin Nat
  /\ {Iterations, WarmUp, WhenToFail} \subseteq Nat
  /\ HopsUpper \in Nat \ {0, 1}
  /\ StakeBuckets \in Nat \ {0}
  /\ BucketChoices \subseteq [stranded : Nat, hops : Nat, messages : Nat]
  /\ Word \in Nat \ {0}
  /\ NumToFail \in 0..Cardinality(Nodes)

VARIABLES
  pc,             \* "start", "play", "record", "build", "calculate", "publish", "done", "panicked"
  iteration,      \* gossip_iteration
  failed,         \* failed_nodes
  hops,           \* the round's distances
  pushes,         \* the round's pushes
  pruneCounts,    \* the round's prune_messages_sent
  coverage,       \* coverage_stats: nodes reached, by measured round
  hopsStats,      \* per_round_stats
  rawHops,        \* raw_hop_collection
  strandedStats,  \* per_iter_stranded_node_stats
  timesStranded,  \* stranded_nodes: how often each was stranded
  branching,      \* outbound_branching_factors: connections and pushing nodes
  rmrs,           \* relative_message_redundancy_stats: m and n
  egress, ingress, prunesSent,  \* counts of the three message trackers
  buckets,        \* num_buckets_for_*_hist: one of BucketChoices
  histograms,     \* the histograms that have been built, by name
  report,         \* what run_all_calculations has found
  lines           \* the lines of the two labelled histograms, as published

roundVars == <<failed, hops, pushes, pruneCounts>>
seriesVars == <<coverage, hopsStats, rawHops, strandedStats, timesStranded, branching,
                rmrs, egress, ingress, prunesSent>>
resultVars == <<buckets, histograms, report, lines>>
vars == <<pc, iteration, roundVars, seriesVars, resultVars>>

NoCounts == [n \in Nodes |-> 0]
Reached == {n \in Nodes : hops[n] # Unreached}

Init ==
  /\ pc = "start"
  /\ iteration = 0
  /\ failed = {}
  /\ hops = [n \in Nodes |-> Unreached]
  /\ pushes = [n \in Nodes |-> {}]
  /\ pruneCounts = NoCounts
  /\ coverage = <<>> /\ hopsStats = <<>> /\ rawHops = <<>>
  /\ strandedStats = <<>> /\ timesStranded = <<>>
  /\ branching = <<>> /\ rmrs = <<>>
  /\ egress = NoCounts /\ ingress = NoCounts /\ prunesSent = NoCounts
  /\ buckets = <<>> /\ histograms = <<>> /\ report = <<>> /\ lines = <<>>

\* initialize_message_stats and the validator stake distribution.
Start ==
  /\ pc = "start"
  /\ IF BuildPanics(Max(Range(Stakes)), 0, StakeBuckets, Values(Stakes))
     THEN /\ pc' = "panicked"
          /\ UNCHANGED histograms
     ELSE /\ pc' = "play"
          /\ histograms' = [stakes |-> Build(Max(Range(Stakes)), 0, StakeBuckets, Values(Stakes))]
  /\ UNCHANGED <<iteration, roundVars, seriesVars, buckets, report, lines>>

-----------------------------------------------------------------------------
(* The loop.                                                               *)

\* fail_nodes in round when_to_fail, then run_gossip over any links to live
\* nodes but the origin, then prunes: a node with the message may cut any of the
\* others it has had it from, but the origin, in this round or earlier in its
\* window.
PlayRound ==
  /\ pc = "play"
  /\ iteration < Iterations
  /\ failed' \in IF iteration = WhenToFail THEN kSubset(NumToFail, Nodes) ELSE {failed}
  /\ \E links \in [Nodes -> SUBSET (Nodes \ ({Origin} \cup failed'))] :
       /\ \A n \in Nodes : n \notin links[n]
       /\ hops' = HopsFrom(links, Origin, Nodes, Unreached)
       /\ \A n \in Nodes \ Reached' : links[n] = {}
       /\ pushes' = links
  /\ \E pruned \in [Nodes -> SUBSET (Nodes \ {Origin})] :
       /\ \A n \in Nodes : n \notin pruned[n]
       /\ \A n \in {Origin} \cup (Nodes \ Reached') : pruned[n] = {}
       /\ pruneCounts' = [n \in Nodes |-> Cardinality(pruned[n])]
  /\ pc' = "record"
  /\ UNCHANGED <<iteration, seriesVars, resultVars>>

\* A round of the warm-up leaves nothing in the statistics.
WarmUpRound ==
  /\ pc = "record"
  /\ iteration < WarmUp
  /\ iteration' = iteration + 1
  /\ pc' = "play"
  /\ UNCHANGED <<roundVars, seriesVars, resultVars>>

\* Cluster::stranded_nodes.
StrandedNodes == {n \in Nodes : hops[n] = Unreached /\ n \notin failed}

\* Mutant: the nodes that pushed, not their pushes.
PusherCount == Cardinality({n \in Nodes : pushes[n] # {}})

PushCount == SumFunction([n \in Nodes |-> Cardinality(pushes[n])])

\* calculate_rmr answers an error only when no node has the message.
InsertRmr(m, n) == rmrs' = IF n = 0 THEN rmrs ELSE Append(rmrs, [m |-> m, n |-> n])

\* Mutant: a node is counted when it is first stranded only.
InsertStrandedOnce(stranded) ==
  /\ strandedStats' = Append(strandedStats, StrandedNodeStats(SetToSeq(stranded), Stakes))
  /\ timesStranded' = [n \in DOMAIN timesStranded \cup stranded |-> 1]

\* StrandedNodeCollection::insert_nodes.
InsertStranded(stranded) ==
  /\ strandedStats' = Append(strandedStats, StrandedNodeStats(SetToSeq(stranded), Stakes))
  /\ timesStranded' = [n \in DOMAIN timesStranded \cup stranded |->
                         (IF n \in DOMAIN timesStranded THEN timesStranded[n] ELSE 0)
                         + (IF n \in stranded THEN 1 ELSE 0)]

\* Mutant: the raw hops of earlier rounds are lost.
InsertHopsAfresh(values) ==
  /\ hopsStats' = Append(hopsStats, HopsStat(values, Unreached))
  /\ rawHops' = Without(values, {Unreached})

\* HopsStatCollection::insert.
InsertHops(values) ==
  /\ hopsStats' = Append(hopsStats, HopsStat(values, Unreached))
  /\ rawHops' = rawHops \o Without(values, {Unreached})

\* The statistics of a measured round.
MeasureRound ==
  /\ pc = "record"
  /\ iteration >= WarmUp
  /\ coverage' = Append(coverage, Cardinality(Reached))
  /\ InsertHops(Values(hops))
  /\ InsertStranded(StrandedNodes)
  /\ branching' = Append(branching, [edges |-> PushCount, nodes |-> Cardinality(Reached)])
  /\ egress' = [n \in Nodes |-> egress[n] + Cardinality(pushes[n])]
  /\ ingress' = [n \in Nodes |-> ingress[n] + Cardinality({s \in Nodes : n \in pushes[s]})]
  /\ prunesSent' = [n \in Nodes |-> prunesSent[n] + pruneCounts[n]]
  /\ InsertRmr(PushCount + SumFunction(pruneCounts), Cardinality(Reached))
  /\ iteration' = iteration + 1
  /\ pc' = "play"
  /\ UNCHANGED <<roundVars, resultVars>>

\* The rounds are over.  Without an entry there is nothing to report.
EndRounds ==
  /\ pc = "play"
  /\ iteration = Iterations
  /\ pc' = IF coverage = <<>> THEN "done" ELSE "build"
  /\ UNCHANGED <<iteration, roundVars, seriesVars, resultVars>>

-----------------------------------------------------------------------------
(* Histograms and calculations.                                            *)

\* The message and prune histograms, normalized, with what they were before.
MessageHistogram(counts, count) ==
  LET raw == BuildFromMap(count, counts, Stakes)
  IN  [raw |-> raw, entries |-> Normalize(raw, NodesPerBucket(count, Stakes))]

\* build_stranded_node_histogram to build_prune_histogram, with the numbers of
\* buckets the user has asked for, which nothing reads before.
BuildHistograms ==
  /\ pc = "build"
  /\ buckets' \in BucketChoices
  /\ IF \/ BuildPanics(Iterations - WarmUp, 0, buckets'.stranded, Values(timesStranded))
        \/ BuildPanics(HopsUpper, 0, buckets'.hops, rawHops)
        \/ MapPanics(buckets'.messages, Stakes)
     THEN /\ pc' = "panicked"
          /\ UNCHANGED histograms
     ELSE /\ pc' = "calculate"
          /\ histograms' =
               [stakes |-> histograms.stakes,
                stranded |-> Build(Iterations - WarmUp, 0, buckets'.stranded, Values(timesStranded)),
                hops |-> Build(HopsUpper, 0, buckets'.hops, rawHops),
                egress |-> MessageHistogram(egress, buckets'.messages),
                ingress |-> MessageHistogram(ingress, buckets'.messages),
                prunes |-> MessageHistogram(prunesSent, buckets'.messages)]
  /\ UNCHANGED <<iteration, roundVars, seriesVars, report, lines>>

\* StatCollection::calculate_stats indexes an empty series out of bounds, and
\* cannot sort a series that holds 0 / 0 besides another entry.
CalculatePanics ==
  \/ <<>> \in {coverage, rmrs, branching}
  \/ Len(rmrs) > 1 /\ \E i \in DOMAIN rmrs : rmrs[i].n = 1

\* run_all_calculations.  Of the series of fractions only coverage, whose
\* denominator never changes, is summed up here.
Calculate ==
  /\ pc = "calculate"
  /\ IF CalculatePanics
     THEN /\ pc' = "panicked"
          /\ UNCHANGED report
     ELSE /\ pc' = "publish"
          /\ report' =
               [coverage |-> Summary(coverage),
                hops |-> HopsStat(rawHops, Unreached),
                lastDelivery |-> HopsStat([i \in DOMAIN hopsStats |-> hopsStats[i].max], Unreached),
                strandedTimes |-> Summary(Values(timesStranded)),
                strandedStakes |-> Summary(Values(Restrict(Stakes, DOMAIN timesStranded))),
                weightedStake |-> SumFunction([n \in DOMAIN timesStranded |->
                                                 Stakes[n] * timesStranded[n]])]
  /\ UNCHANGED <<iteration, roundVars, seriesVars, buckets, histograms, lines>>

StrandedRange == BuildRange(Iterations - WarmUp, 0, buckets.stranded)
HopsRange == BuildRange(HopsUpper, 0, buckets.hops)

\* The final data point, if there is a queue for it.  A build that checks
\* arithmetic panics where one that does not goes on with a wrapped label.
Publish ==
  /\ pc = "publish"
  /\ \/ /\ pc' = "done"
        /\ UNCHANGED lines
     \/ /\ \/ LabelPanics(0, StrandedRange, histograms.stranded)
           \/ LabelPanics(0, HopsRange, histograms.hops)
        /\ pc' = "panicked"
        /\ UNCHANGED lines
     \/ /\ pc' = "done"
        /\ lines' = [stranded |-> LabelledLines(0, StrandedRange, histograms.stranded, Word),
                     hops |-> LabelledLines(0, HopsRange, histograms.hops, Word)]
  /\ UNCHANGED <<iteration, roundVars, seriesVars, buckets, histograms, report>>

Finished == pc \in {"done", "panicked"} /\ UNCHANGED vars

Next ==
  \/ Start \/ PlayRound \/ WarmUpRound \/ MeasureRound \/ EndRounds
  \/ BuildHistograms \/ Calculate \/ Publish \/ Finished

Spec == Init /\ [][Next]_vars

-----------------------------------------------------------------------------
(* Properties.                                                             *)

\* The rounds that have been measured.
Measured == IF iteration > WarmUp THEN iteration - WarmUp ELSE 0

\* The two accounts of stranded nodes agree: the one kept by round
\* (StrandedNodeStats) and the one kept by node (stranded_nodes), in how many
\* were stranded and in the stake that was, each time counted anew
\* (gossip_stats.rs:873-877).
StrandedTwice ==
  /\ SumFunction(timesStranded) = SumFunction([i \in DOMAIN strandedStats |-> strandedStats[i].count])
  /\ SumFunction([n \in DOMAIN timesStranded |-> Stakes[n] * timesStranded[n]])
       = SumFunction([i \in DOMAIN strandedStats |-> strandedStats[i].sum])
  /\ \A n \in DOMAIN timesStranded : timesStranded[n] \in 1..Measured

\* Every series has one entry for each measured round, whatever the round was
\* like: run_simulation reads them at gossip_iteration - warm_up_rounds.  Every
\* round accounts for every node: it is reached, or stranded, or, from the
\* round when_to_fail on, may have failed.  The hops agree: each round has
\* those of the reached nodes other than the origin, and the raw collection
\* holds the origin's 0 as well.
RoundsAccount ==
  /\ \A length \in {Len(coverage), Len(hopsStats), Len(strandedStats), Len(branching), Len(rmrs)} :
       length = Measured
  /\ \A i \in DOMAIN coverage :
       LET accounted == coverage[i] + strandedStats[i].count
       IN  IF i + WarmUp > WhenToFail
           THEN accounted \in (Cardinality(Nodes) - NumToFail)..Cardinality(Nodes)
           ELSE accounted = Cardinality(Nodes)
  /\ \A i \in DOMAIN hopsStats : hopsStats[i].count = coverage[i] - 1
  /\ Len(rawHops) = SumFunction(coverage)

\* The messages of the measured rounds, and of no others, are counted alike by
\* the trackers, by the branching factor and by the redundancy.
MessagesAccount ==
  /\ SumFunction(egress) = SumFunction(ingress)
  /\ SumFunction(egress) = SumFunction([i \in DOMAIN branching |-> branching[i].edges])
  /\ SumFunction(egress) + SumFunction(prunesSent) = SumFunction([i \in DOMAIN rmrs |-> rmrs[i].m])

\* No histogram loses an entry to the bounds it is built with: every value is
\* in some bucket, and every message is in its node's bucket.
HistogramsComplete ==
  "hops" \in DOMAIN histograms =>
    /\ SumFunction(histograms.stakes) = Cardinality(Nodes)
    /\ SumFunction(histograms.stranded) = Cardinality(DOMAIN timesStranded)
    /\ SumFunction(histograms.hops) = Len(rawHops)
    /\ SumFunction(histograms.egress.raw) = SumFunction(egress)
    /\ SumFunction(histograms.ingress.raw) = SumFunction(ingress)
    /\ SumFunction(histograms.prunes.raw) = SumFunction(prunesSent)

\* The report agrees with itself: the farthest node of all rounds is the
\* farthest of the last deliveries, the aggregate hops are those of the rounds
\* together, and a last delivery is counted for the rounds in which the message
\* left the origin.
ReportAgrees ==
  report # <<>> =>
    /\ report.hops.max = report.lastDelivery.max
    /\ report.hops.sum = SumFunction([i \in DOMAIN hopsStats |-> hopsStats[i].sum])
    /\ report.hops.count = SumFunction([i \in DOMAIN hopsStats |-> hopsStats[i].count])
    /\ report.lastDelivery.count = Cardinality({i \in DOMAIN coverage : coverage[i] > 1})
    /\ report.weightedStake = SumFunction([i \in DOMAIN strandedStats |-> strandedStats[i].sum])
    /\ report.strandedTimes.sum > 0 => report.coverage.min < Cardinality(Nodes)

\* What a reader of the database may conclude from the labels of a histogram
\* (influx_db.rs:556 computes them anew): the counts of the lines up to a label
\* add up to the values up to it.  Only the last of the buckets asked for holds
\* values past its label, those Histogram::build puts back, one range of them.
Legible(labelled, count, range, values) ==
  \A line \in labelled :
    LET greatest == line.label + (IF line.bucket = count - 1 THEN range ELSE 0)
    IN  SumFunctionOnSet([l \in labelled |-> l.count], {l \in labelled : l.label <= line.label})
          = Cardinality({i \in DOMAIN values : values[i] <= greatest})
HistogramsLegible ==
  lines # <<>> =>
    /\ Legible(lines.stranded, buckets.stranded, StrandedRange, Values(timesStranded))
    /\ Legible(lines.hops, buckets.hops, HopsRange, rawHops)

\* A simulation fails to report only after a measured round in which the
\* message did not leave the origin, or if the user has asked for no buckets, or
\* for more than there are values to put in them: as many as there are stakes,
\* measured rounds, hops, and, for the messages, as many as the square root of
\* the greatest stake.  With one measured round no buckets will do.
ReportedUnlessAlone ==
  pc = "panicked" =>
    \/ \E i \in DOMAIN coverage : coverage[i] = 1
    \/ Misfit(Max(Range(Stakes)), StakeBuckets)
    \/ Misfit(Iterations - WarmUp, buckets.stranded)
    \/ Misfit(HopsUpper, buckets.hops)
    \/ MapMisfit(Max(Range(Stakes)), buckets.messages)

\* README.md:198, "RMR = m / (n-1) - 1, for n > 1", and the message logged in
\* its place, "Network RMR error. # of nodes is 1." (gossip_main.rs:529): no
\* redundancy is recorded for a round in which only the origin has the message.
RmrOnlyWhereDefined == \A i \in DOMAIN rmrs : rmrs[i].n > 1

-----------------------------------------------------------------------------
(* The inductive invariant behind the first three.                         *)

TypeOK ==
  /\ iteration \in 0..Iterations
  /\ pc = "record" => iteration < Iterations
  /\ hops \in [Nodes -> Nat \cup {Unreached}]
  /\ failed \in SUBSET Nodes
  /\ pushes \in [Nodes -> SUBSET Nodes]
  /\ pruneCounts \in [Nodes -> Nat]
  /\ coverage \in Seq(Nat)
  /\ hopsStats \in Seq(ToSet(hopsStats))
  /\ rawHops \in Seq(Nat)
  /\ strandedStats \in Seq(ToSet(strandedStats))
  /\ \A i \in DOMAIN strandedStats : strandedStats[i].sum \in Nat /\ strandedStats[i].count \in Nat
  /\ DOMAIN timesStranded \subseteq Nodes
  /\ branching \in Seq([edges : Nat, nodes : Nat])
  /\ rmrs \in Seq([m : Nat, n : Nat])
  /\ {egress, ingress, prunesSent} \subseteq [Nodes -> Nat]

\* In a round that has been played the origin, and nobody else, is at 0 hops.
OriginAtZero == pc = "record" => \A n \in Nodes : hops[n] = 0 <=> n = Origin

\* Nobody fails before the round when_to_fail, and none later.
FailedAtOnce ==
  /\ failed # {} => Cardinality(failed) = NumToFail
  /\ (iteration < WhenToFail \/ (iteration = WhenToFail /\ pc # "record")) => failed = {}

StatisticsInv ==
  /\ TypeOK /\ OriginAtZero /\ FailedAtOnce
  /\ StrandedTwice /\ RoundsAccount /\ MessagesAccount

-----------------------------------------------------------------------------
(* The invariant behind the others: what the hops of the rounds have to do *)
(* with the raw ones, and how far histograms and report have come.         *)

\* No hops are past the bound of their histogram.
HopsInBounds == \A j \in DOMAIN rawHops : rawHops[j] <= HopsUpper

\* The labels of the buckets are small numbers.
LabelsFit ==
  \A choice \in BucketChoices :
    2 * Iterations + choice.stranded < Word /\ 2 * HopsUpper + choice.hops < Word

\* The sums and the numbers of nodes away from the origin agree, and so do the
\* farthest nodes.
HopsAgree ==
  /\ \A i \in DOMAIN hopsStats :
       /\ {hopsStats[i].sum, hopsStats[i].count, hopsStats[i].max} \subseteq Nat
       /\ hopsStats[i].max = 0 <=> hopsStats[i].count = 0
       /\ hopsStats[i].max # 0 => \E j \in DOMAIN rawHops : rawHops[j] = hopsStats[i].max
  /\ \A j \in DOMAIN rawHops : \E i \in DOMAIN hopsStats : rawHops[j] <= hopsStats[i].max
  /\ SumFunction(rawHops) = SumFunction([i \in DOMAIN hopsStats |-> hopsStats[i].sum])
  /\ SumFunction([j \in DOMAIN rawHops |-> IF rawHops[j] = 0 THEN 0 ELSE 1])
       = SumFunction([i \in DOMAIN hopsStats |-> hopsStats[i].count])

RedundanciesOfAll == \A i \in DOMAIN rmrs : rmrs[i].n = coverage[i]

RoundsOver == iteration = Iterations /\ coverage # <<>>

HistogramsBuilt ==
  /\ buckets \in BucketChoices
  /\ SumFunction(histograms.stakes) = Cardinality(Nodes)
  /\ ~BuildPanics(Iterations - WarmUp, 0, buckets.stranded, Values(timesStranded))
  /\ ~BuildPanics(HopsUpper, 0, buckets.hops, rawHops)
  /\ histograms.stranded = Build(Iterations - WarmUp, 0, buckets.stranded, Values(timesStranded))
  /\ histograms.hops = Build(HopsUpper, 0, buckets.hops, rawHops)
  /\ histograms.egress = MessageHistogram(egress, buckets.messages)
  /\ histograms.ingress = MessageHistogram(ingress, buckets.messages)
  /\ histograms.prunes = MessageHistogram(prunesSent, buckets.messages)
  /\ ~MapPanics(buckets.messages, Stakes)

Phases ==
  /\ pc = "start" => histograms = <<>>
  /\ pc \in {"play", "record", "build"} =>
       DOMAIN histograms = {"stakes"} /\ SumFunction(histograms.stakes) = Cardinality(Nodes)
  /\ pc \in {"build", "calculate", "publish"} => RoundsOver
  /\ "hops" \in DOMAIN histograms => RoundsOver /\ HistogramsBuilt
  /\ pc \in {"calculate", "publish"} => "hops" \in DOMAIN histograms
  /\ pc \in {"start", "play", "record", "build", "calculate"} => report = <<>>
  /\ pc # "done" => lines = <<>>
  /\ lines # <<>> =>
       /\ "hops" \in DOMAIN histograms
       /\ lines.stranded = LabelledLines(0, StrandedRange, histograms.stranded, Word)
       /\ lines.hops = LabelledLines(0, HopsRange, histograms.hops, Word)

ReportInv == HopsAgree /\ RedundanciesOfAll /\ Phases
=============================================================================
