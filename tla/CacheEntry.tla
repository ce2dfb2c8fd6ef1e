----------------------------- MODULE CacheEntry -----------------------------
(***************************************************************************)
(* ReceivedCacheEntry (received_cache.rs): what a node remembers of the    *)
(* peers that sent it one origin's messages.  An entry is a record: scores *)
(* is the map `nodes` from a sender to its score, upserts is num_upserts.  *)
(*                                                                         *)
(* Scores and counts stay far below the width of a usize, so the           *)
(* saturating additions are plain ones.  The stake threshold is a          *)
(* percentage, and the product with it is rounded down as `as u64` does.   *)
(***************************************************************************)
EXTENDS Naturals, Sequences, FiniteSets, Functions, FiniteSetsExt, SequencesExt

CONSTANTS
  Capacity,           \* CAPACITY: senders an entry holds, late ones included
  NumDupsThreshold    \* NUM_DUPS_THRESHOLD: copies that count as timely

ASSUME CacheEntryAssumption == Capacity \in Nat /\ NumDupsThreshold \in Nat \ {0}

\* ReceivedCacheEntry::default().
EmptyEntry == [scores |-> <<>>, upserts |-> 0]

SendersOf(entry) == DOMAIN entry.scores

\* What an entry is: its senders are some of the nodes.
IsCacheEntry(e, nodes) ==
  /\ e = [scores |-> e.scores, upserts |-> e.upserts]
  /\ SendersOf(e) \subseteq nodes
  /\ e.scores \in [SendersOf(e) -> Nat]
  /\ e.upserts \in Nat

\* entry(node).or_default() and += by.
AddScore(scores, node, by) ==
  [n \in DOMAIN scores \cup {node} |->
     (IF n \in DOMAIN scores THEN scores[n] ELSE 0) + (IF n = node THEN by ELSE 0)]

\* Mutant: late copies score too.
RecordScoringLate(entry, node, numDups) ==
  [upserts |-> IF numDups = 0 THEN entry.upserts + 1 ELSE entry.upserts,
   scores |-> AddScore(entry.scores, node, 1)]

\* ReceivedCacheEntry::record: numDups earlier copies of the message came
\* before the one from node.
RecordEntry(entry, node, numDups) ==
  [upserts |-> IF numDups = 0 THEN entry.upserts + 1 ELSE entry.upserts,
   scores |->
     IF numDups < NumDupsThreshold THEN AddScore(entry.scores, node, 1)
     ELSE IF Cardinality(SendersOf(entry)) < Capacity THEN AddScore(entry.scores, node, 0)
     ELSE entry.scores]

\* consume_messages for one node: one record for each copy of the message, in
\* the order of arrival.
RecordAll(entry, arrivals) ==
  LET after[i \in 0..Len(arrivals)] ==
        IF i = 0 THEN entry
        ELSE LET before == after[i - 1] IN RecordEntry(before, arrivals[i], i - 1)
  IN  after[Len(arrivals)]

-----------------------------------------------------------------------------
(* ReceivedCacheEntry::prune.                                              *)

\* Whether the sort may put sender a before sender b: higher score first,
\* then higher stake; equal keys in any order (sorted_unstable_by_key).
Before(entry, stakes, a, b) ==
  \/ entry.scores[a] > entry.scores[b]
  \/ entry.scores[a] = entry.scores[b] /\ stakes[a] >= stakes[b]

\* Mutant: the score is forgotten.
RankingsByStake(entry, stakes) ==
  {r \in SetToSeqs(SendersOf(entry)) :
     \A i, j \in DOMAIN r : i < j => stakes[r[i]] >= stakes[r[j]]}

Rankings(entry, stakes) ==
  {r \in SetToSeqs(SendersOf(entry)) :
     \A i, j \in DOMAIN r : i < j => Before(entry, stakes, r[i], r[j])}

\* Mutant: the i-th sender's own stake is counted already.
StakeUpTo(stakes, ranking, i) ==
  SumFunctionOnSet([j \in DOMAIN ranking |-> stakes[ranking[j]]], 1..i)

\* The stake a ranking accumulates before its i-th sender.
StakeBefore(stakes, ranking, i) ==
  SumFunctionOnSet([j \in DOMAIN ranking |-> stakes[ranking[j]]], 1..(i - 1))

\* min_ingress_stake.
MinIngressStake(stakes, node, origin, thresholdPct) ==
  ((IF stakes[node] < stakes[origin] THEN stakes[node] ELSE stakes[origin])
     * thresholdPct) \div 100

\* Mutants of the two skips, each off by one.
CutOneMore(stakes, ranking, minIngressNodes, minStake) ==
  {ranking[i] : i \in {i \in DOMAIN ranking :
     \E first \in minIngressNodes..i : StakeBefore(stakes, ranking, first) >= minStake}}

CutOneLess(stakes, ranking, minIngressNodes, minStake) ==
  {ranking[i] : i \in {i \in DOMAIN ranking :
     \E first \in (minIngressNodes + 2)..i : StakeBefore(stakes, ranking, first) >= minStake}}

\* skip(min_ingress_nodes), skip_while(stake before < min_ingress_stake).
Cut(stakes, ranking, minIngressNodes, minStake) ==
  {ranking[i] : i \in {i \in DOMAIN ranking :
     \E first \in (minIngressNodes + 1)..i : StakeBefore(stakes, ranking, first) >= minStake}}

\* The sets of senders an entry's prune can answer.
PruneOutcomes(entry, stakes, node, origin, thresholdPct, minIngressNodes) ==
  LET minStake == MinIngressStake(stakes, node, origin, thresholdPct)
  IN  {Cut(stakes, r, minIngressNodes, minStake) : r \in Rankings(entry, stakes)}
=============================================================================
