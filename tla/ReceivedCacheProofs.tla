------------------------ MODULE ReceivedCacheProofs -------------------------
(***************************************************************************)
(* Theorems about the received cache, for every set of nodes, stakes,      *)
(* capacities and limits.                                                  *)
(***************************************************************************)
EXTENDS ReceivedCache, DataProofs

-----------------------------------------------------------------------------
(* A prune of an entry.                                                    *)

\* r lists N senders with stakes, the first k of whom are FirstOf(r, k).
Lists(r, N, stakes) ==
  /\ N \in Nat
  /\ DOMAIN r = 1..N
  /\ \A i \in 1..N : stakes[r[i]] \in Nat
  /\ \A i, j \in 1..N : r[i] = r[j] => i = j

FirstOf(r, k) == {r[j] : j \in 1..k}

\* What a ranking accumulates before a place is the stake of those before it.
LEMMA StakeBeforeIs ==
  ASSUME NEW N, NEW stakes, NEW r, Lists(r, N, stakes), NEW k \in Nat, k <= N
  PROVE  StakeBefore(stakes, r, k + 1) = SumFunctionOnSet(stakes, FirstOf(r, k))
<1> USE DEF Lists, FirstOf
<1> DEFINE g == [j \in DOMAIN r |-> stakes[r[j]]]
           D == 1..k
<1>1. IsFiniteSet(D)
  <2>1. 1 \in Int /\ k \in Int
    OBVIOUS
  <2>2. QED
    BY <2>1, FS_Interval
<1>2. D \subseteq 1..N /\ 1..((k + 1) - 1) = D
  OBVIOUS
<1>3. \A j \in D : g[j] \in Nat /\ g[j] = stakes[r[j]]
  BY <1>2
<1>4. \A i, j \in D : r[i] = r[j] => i = j
  BY <1>2
<1>5. StakeBefore(stakes, r, k + 1) = SumFunctionOnSet(g, D)
  BY <1>2 DEF StakeBefore
<1> HIDE DEF g, D
<1>6. SumFunctionOnSet(g, D) = SumFunctionOnSet(stakes, {r[x] : x \in D})
  BY SMTT(60), <1>1, <1>3, <1>4, SumImage
<1>7. QED
  BY <1>5, <1>6 DEF D

\* The indices of those who are cut begin where the minimum of nodes and of
\* stake are reached, and go to the end.
LEMMA CutFacts ==
  ASSUME NEW N \in Nat, NEW stakes, NEW r, DOMAIN r = 1..N, NEW minNodes \in Nat, NEW minStake
  PROVE  \E first \in (minNodes + 1)..(N + minNodes + 1) :
           /\ Cut(stakes, r, minNodes, minStake) = {r[i] : i \in {j \in 1..N : j >= first}}
           /\ first <= N => StakeBefore(stakes, r, first) >= minStake
           /\ \A i \in 1..N : i < first /\ i > minNodes => ~(StakeBefore(stakes, r, i) >= minStake)
<1> DEFINE Enough == {i \in (minNodes + 1)..N : StakeBefore(stakes, r, i) >= minStake}
<1>1. CASE Enough = {}
  <2>1. ASSUME NEW i \in DOMAIN r, NEW first \in (minNodes + 1)..i, StakeBefore(stakes, r, first) >= minStake
        PROVE  FALSE
    <3>1. first \in (minNodes + 1)..N
      OBVIOUS
    <3>2. QED
      BY <1>1, <2>1, <3>1
  <2>2. Cut(stakes, r, minNodes, minStake) = {}
    BY <2>1 DEF Cut
  <2>3. {j \in 1..N : j >= N + minNodes + 1} = {}
    OBVIOUS
  <2>4. \A i \in 1..N : i > minNodes => ~(StakeBefore(stakes, r, i) >= minStake)
    BY <1>1
  <2>5. QED
    BY <2>2, <2>3, <2>4
<1>2. CASE Enough # {}
  <2>1. PICK first \in Enough : \A i \in Enough : first <= i
    <3>1. Enough \in SUBSET Nat
      OBVIOUS
    <3> HIDE DEF Enough
    <3>2. QED
      BY <1>2, <3>1, LeastNatural
  <2>2. first \in (minNodes + 1)..N /\ StakeBefore(stakes, r, first) >= minStake
    OBVIOUS
  <2>3. ASSUME NEW i \in 1..N
        PROVE  (\E f \in (minNodes + 1)..i : StakeBefore(stakes, r, f) >= minStake) <=> i >= first
    <3>1. ASSUME NEW f \in (minNodes + 1)..i, StakeBefore(stakes, r, f) >= minStake PROVE i >= first
      <4>1. f \in Enough
        BY <3>1
      <4> HIDE DEF Enough
      <4>2. QED
        BY <2>1, <2>2, <4>1
    <3>2. i >= first => first \in (minNodes + 1)..i
      BY <2>2
    <3>3. QED
      BY <2>2, <3>1, <3>2
  <2>4. Cut(stakes, r, minNodes, minStake) = {r[i] : i \in {j \in 1..N : j >= first}}
    BY <2>3 DEF Cut
  <2>5. ASSUME NEW i \in 1..N, i < first, i > minNodes PROVE ~(StakeBefore(stakes, r, i) >= minStake)
    <3>1. i \in (minNodes + 1)..N /\ ~(first <= i)
      BY <2>2, <2>5
    <3>2. i \notin Enough
      BY <2>1, <3>1
    <3>3. QED
      BY <3>1, <3>2
  <2>6. first \in (minNodes + 1)..(N + minNodes + 1)
    BY <2>2
  <2>7. QED
    BY <2>2, <2>4, <2>5, <2>6
<1>3. QED
  BY <1>1, <1>2

\* The stake a prune leaves at least is a number.
LEMMA MinIngressStakeType ==
  ASSUME NEW origin \in Origins
  PROVE  MinIngressStake(Stakes, Self, origin, ThresholdPct) \in Nat
<1>1. Stakes[Self] \in Nat /\ Stakes[origin] \in Nat /\ ThresholdPct \in Nat
  BY ReceivedCacheAssumption
<1> DEFINE smaller == IF Stakes[Self] < Stakes[origin] THEN Stakes[Self] ELSE Stakes[origin]
<1>2. smaller * ThresholdPct \in Nat
  <2>1. smaller \in Nat
    BY <1>1
  <2> HIDE DEF smaller
  <2>2. QED
    BY <1>1, <2>1
<1>3. (smaller * ThresholdPct) \div 100 \in Nat
  <2> DEFINE product == smaller * ThresholdPct
  <2>1. product \in Nat
    BY <1>2
  <2> HIDE DEF product
  <2>2. product \div 100 \in Nat
    BY <2>1
  <2>3. QED
    BY <2>2 DEF product
<1>4. QED
  BY <1>3 DEF MinIngressStake

\* What an entry's prune answers: of a ranking of the senders, all from a place
\* on that is past the minimum of nodes, the first where the stake before
\* suffices.
IsCut(e, cut, r, N, first, minStake) ==
  /\ N \in Nat
  /\ DOMAIN r = 1..N
  /\ SendersOf(e) = {r[i] : i \in 1..N}
  /\ \A i, j \in 1..N : r[i] = r[j] => i = j
  /\ \A i, j \in 1..N : i < j => Before(e, Stakes, r[i], r[j])
  /\ first \in Nat /\ first > MinIngressNodes
  /\ cut = {r[i] : i \in {j \in 1..N : j >= first}}
  /\ first <= N => StakeBefore(Stakes, r, first) >= minStake
  /\ \A i \in 1..N : i < first /\ i > MinIngressNodes => ~(StakeBefore(Stakes, r, i) >= minStake)

\* What ReceivedCacheEntry::prune answers is such a set (received_cache.rs:84-116).
LEMMA PruneCuts ==
  ASSUME NEW e, IsEntry(e), NEW origin \in Origins,
         NEW cut \in PruneOutcomes(e, Stakes, Self, origin, ThresholdPct, MinIngressNodes)
  PROVE  \E r, N, first : IsCut(e, cut, r, N, first, MinIngressStake(Stakes, Self, origin, ThresholdPct))
<1> DEFINE minStake == MinIngressStake(Stakes, Self, origin, ThresholdPct)
           N == Cardinality(SendersOf(e))
<1>1. PICK r \in Rankings(e, Stakes) : cut = Cut(Stakes, r, MinIngressNodes, minStake)
  BY DEF PruneOutcomes
<1>2. IsFiniteSet(SendersOf(e))
  BY ReceivedCacheAssumption, FS_Subset DEF IsEntry, IsCacheEntry
<1>3. /\ N \in Nat /\ r \in [1..N -> SendersOf(e)]
      /\ \A i, j \in 1..N : r[i] = r[j] => i = j
      /\ \A n \in SendersOf(e) : \E i \in 1..N : r[i] = n
      /\ \A i, j \in 1..N : i < j => Before(e, Stakes, r[i], r[j])
  BY <1>2, RankingFacts
<1> HIDE DEF minStake
<1>4. DOMAIN r = 1..N /\ MinIngressNodes \in Nat
  BY <1>3, ReceivedCacheAssumption
<1>5. PICK first \in (MinIngressNodes + 1)..(N + MinIngressNodes + 1) :
         /\ Cut(Stakes, r, MinIngressNodes, minStake) = {r[i] : i \in {j \in 1..N : j >= first}}
         /\ first <= N => StakeBefore(Stakes, r, first) >= minStake
         /\ \A i \in 1..N : i < first /\ i > MinIngressNodes => ~(StakeBefore(Stakes, r, i) >= minStake)
  <2> HIDE DEF N
  <2> QED
    BY ZenonT(60), <1>3, <1>4, CutFacts
<1>6. first \in Nat /\ first > MinIngressNodes
  BY <1>3, <1>4, <1>5
<1>7. SendersOf(e) = {r[i] : i \in 1..N}
  BY <1>3
<1>8. IsCut(e, cut, r, N, first, minStake)
  <2> HIDE DEF N
  <2> QED
    BY <1>1, <1>3, <1>4, <1>5, <1>6, <1>7 DEF IsCut, N
<1>9. QED
  BY <1>8 DEF minStake

\* Those who are not cut are the best ranked, all senders or as many as come
\* before the place.
NumUncut(N, first) == IF first <= N THEN first - 1 ELSE N

\* The peers uncut are the first k of those that r lists.
IsUncut(uncut, r, N, k) ==
  /\ Lists(r, N, Stakes)
  /\ k \in Nat /\ k <= N
  /\ uncut = FirstOf(r, k)
  /\ Cardinality(uncut) = k
  /\ SumFunctionOnSet(Stakes, uncut) = StakeBefore(Stakes, r, k + 1)

\* Whom such a set leaves.
LEMMA UncutFacts ==
  ASSUME NEW e, IsEntry(e), NEW cut, NEW r, NEW N, NEW first, NEW minStake,
         IsCut(e, cut, r, N, first, minStake)
  PROVE  IsUncut(SendersOf(e) \ cut, r, N, NumUncut(N, first))
<1> DEFINE m == NumUncut(N, first)
<1>1. /\ N \in Nat /\ first \in Nat /\ MinIngressNodes \in Nat /\ first > MinIngressNodes
      /\ DOMAIN r = 1..N /\ SendersOf(e) = {r[i] : i \in 1..N}
      /\ \A i, j \in 1..N : r[i] = r[j] => i = j
      /\ cut = {r[i] : i \in {j \in 1..N : j >= first}}
  BY ReceivedCacheAssumption DEF IsCut
<1>2. m \in 0..N /\ \A i \in 1..N : i <= m <=> ~(i >= first)
  BY <1>1 DEF NumUncut
<1> HIDE DEF m
<1>3. SendersOf(e) \ cut = {r[j] : j \in 1..m}
  <2>1. ASSUME NEW n \in SendersOf(e), n \notin cut PROVE n \in {r[j] : j \in 1..m}
    <3>1. PICK i \in 1..N : n = r[i]
      BY <1>1
    <3>2. ~(i >= first)
      BY <1>1, <2>1, <3>1
    <3>3. i \in 1..m
      BY <1>1, <1>2, <3>2
    <3>4. QED
      BY <3>1, <3>3
  <2>2. ASSUME NEW j \in 1..m PROVE r[j] \in SendersOf(e) /\ r[j] \notin cut
    <3>1. j \in 1..N /\ ~(j >= first)
      BY <1>1, <1>2
    <3>2. r[j] \in SendersOf(e)
      BY <1>1, <3>1
    <3>3. ASSUME NEW i \in 1..N, i >= first, r[i] = r[j] PROVE FALSE
      BY <1>1, <3>1, <3>3
    <3>4. QED
      BY <1>1, <3>2, <3>3
  <2>3. QED
    BY <2>1, <2>2
<1>4. \A i, j \in 1..m : r[i] = r[j] => i = j
  BY <1>1, <1>2
<1>5. Cardinality({r[j] : j \in 1..m}) = m
  <2> DEFINE D == 1..m
  <2>1. IsFiniteSet(D) /\ Cardinality(D) = m
    BY <1>2, FS_Interval
  <2>2. \A i, j \in D : r[i] = r[j] => i = j
    BY <1>4
  <2> HIDE DEF D
  <2>3. Cardinality({r[j] : j \in D}) = m
    BY <2>1, <2>2, FiniteImage
  <2>4. QED
    BY <2>3 DEF D
<1>6. Lists(r, N, Stakes)
  <2>1. \A i \in 1..N : Stakes[r[i]] \in Nat
    BY <1>1, ReceivedCacheAssumption DEF IsEntry, IsCacheEntry
  <2>2. QED
    BY <1>1, <2>1 DEF Lists
<1>7. m \in Nat /\ m <= N
  BY <1>1, <1>2
<1>8. SumFunctionOnSet(Stakes, FirstOf(r, m)) = StakeBefore(Stakes, r, m + 1)
  BY <1>6, <1>7, StakeBeforeIs
<1>9. SendersOf(e) \ cut = FirstOf(r, m)
  BY <1>3 DEF FirstOf
<1>10. QED
  BY <1>3, <1>5, <1>6, <1>7, <1>8, <1>9 DEF m, IsUncut

\* The answer, the origin kept, leaves the minimum of peers and of stake.
LEMMA EnoughLeft ==
  ASSUME NEW e, IsEntry(e), NEW origin \in Origins,
         NEW cut \in PruneOutcomes(e, Stakes, Self, origin, ThresholdPct, MinIngressNodes)
  PROVE  LET kept == SendersOf(e) \ (cut \ {origin})
         IN  /\ Cardinality(kept) >= MinIngressNodes \/ kept = SendersOf(e)
             /\ cut \ {origin} # {} =>
                  SumFunctionOnSet(Stakes, kept) >= MinIngressStake(Stakes, Self, origin, ThresholdPct)
<1> DEFINE kept == SendersOf(e) \ (cut \ {origin})
           minStake == MinIngressStake(Stakes, Self, origin, ThresholdPct)
           uncut == SendersOf(e) \ cut
<1>1. PICK r, N, first : IsCut(e, cut, r, N, first, minStake)
  BY PruneCuts
<1>2. N \in Nat /\ first \in Nat /\ first > MinIngressNodes /\ MinIngressNodes \in Nat /\ minStake \in Nat
  BY <1>1, ReceivedCacheAssumption, MinIngressStakeType DEF IsCut
<1> HIDE DEF minStake
<1>3. CASE first <= N
  <2>1. /\ Cardinality(uncut) = first - 1
        /\ SumFunctionOnSet(Stakes, uncut) = StakeBefore(Stakes, r, (first - 1) + 1)
    <3>1. NumUncut(N, first) = first - 1
      BY <1>3 DEF NumUncut
    <3>2. IsUncut(uncut, r, N, NumUncut(N, first))
      BY <1>1, UncutFacts
    <3> HIDE DEF uncut
    <3>3. QED
      BY <3>1, <3>2 DEF IsUncut
  <2>2. SumFunctionOnSet(Stakes, uncut) >= minStake
    <3>1. (first - 1) + 1 = first
      BY <1>2
    <3>2. QED
      BY <1>1, <1>3, <2>1, <3>1 DEF IsCut
  <2>3. IsFiniteSet(kept) /\ uncut \in SUBSET kept /\ \A n \in kept : Stakes[n] \in Nat
    BY ReceivedCacheAssumption, FS_Subset DEF IsEntry, IsCacheEntry
  <2> HIDE DEF kept, uncut
  <2>4. Cardinality(uncut) <= Cardinality(kept) /\ Cardinality(kept) \in Nat
    BY <2>3, FS_Subset, FS_CardinalityType
  <2>5. /\ SumFunctionOnSet(Stakes, kept) = SumFunctionOnSet(Stakes, uncut) + SumFunctionOnSet(Stakes, kept \ uncut)
        /\ SumFunctionOnSet(Stakes, uncut) \in Nat /\ SumFunctionOnSet(Stakes, kept \ uncut) \in Nat
    <3>1. IsFiniteSet(uncut) /\ IsFiniteSet(kept \ uncut)
      BY <2>3, FS_Subset
    <3>2. QED
      BY <2>3, <3>1, SumSubset, SumType
  <2>6. QED
    BY <1>2, <2>1, <2>2, <2>4, <2>5 DEF kept, minStake
<1>4. CASE ~(first <= N)
  <2>1. cut = {r[i] : i \in {j \in 1..N : j >= first}}
    BY <1>1 DEF IsCut
  <2>2. {j \in 1..N : j >= first} = {}
    BY <1>2, <1>4
  <2>3. cut = {}
    BY <2>1, <2>2
  <2>4. QED
    BY <2>3
<1>5. QED
  BY <1>3, <1>4

\* Who is in the answer comes after who is not.
LEMMA BestKept ==
  ASSUME NEW e, IsEntry(e), NEW origin \in Origins,
         NEW cut \in PruneOutcomes(e, Stakes, Self, origin, ThresholdPct, MinIngressNodes),
         NEW a \in cut, NEW b \in SendersOf(e) \ cut
  PROVE  Before(e, Stakes, b, a)
<1> DEFINE minStake == MinIngressStake(Stakes, Self, origin, ThresholdPct)
<1>1. PICK r, N, first : IsCut(e, cut, r, N, first, minStake)
  BY PruneCuts
<1>2. PICK i \in 1..N : i >= first /\ a = r[i]
  BY <1>1 DEF IsCut
<1>3. PICK j \in 1..N : b = r[j]
  BY <1>1 DEF IsCut
<1>4. ~(j >= first)
  BY <1>1, <1>3 DEF IsCut
<1>5. j < i
  <2>1. N \in Nat /\ first \in Nat
    BY <1>1 DEF IsCut
  <2>2. QED
    BY <1>2, <1>4, <2>1
<1>6. QED
  BY <1>1, <1>2, <1>3, <1>5 DEF IsCut

\* With more peers left than the minimum, the stake before the last of them is
\* still too small: the answer could not begin earlier.
LEMMA AllCut ==
  ASSUME NEW e, IsEntry(e), NEW origin \in Origins,
         NEW cut \in PruneOutcomes(e, Stakes, Self, origin, ThresholdPct, MinIngressNodes),
         Cardinality(SendersOf(e) \ cut) > MinIngressNodes
  PROVE  LET kept == SendersOf(e) \ cut
         IN  \E worst \in kept :
               /\ \A n \in kept : n # worst => Before(e, Stakes, n, worst)
               /\ SumFunctionOnSet(Stakes, kept \ {worst})
                    < MinIngressStake(Stakes, Self, origin, ThresholdPct)
<1> DEFINE kept == SendersOf(e) \ cut
           minStake == MinIngressStake(Stakes, Self, origin, ThresholdPct)
<1>1. PICK r, N, first : IsCut(e, cut, r, N, first, minStake)
  BY PruneCuts
<1> DEFINE m == NumUncut(N, first)
<1>2. /\ N \in Nat /\ first \in Nat /\ MinIngressNodes \in Nat /\ minStake \in Nat
      /\ DOMAIN r = 1..N /\ SendersOf(e) = {r[i] : i \in 1..N}
      /\ \A i, j \in 1..N : r[i] = r[j] => i = j
  BY <1>1, ReceivedCacheAssumption, MinIngressStakeType DEF IsCut
<1> HIDE DEF minStake
<1>3. /\ m \in Nat /\ m <= N /\ kept = {r[j] : j \in 1..m} /\ Cardinality(kept) = m
      /\ Lists(r, N, Stakes)
  <2>1. IsUncut(kept, r, N, m)
    BY <1>1, UncutFacts
  <2> HIDE DEF kept, m
  <2>2. QED
    BY <2>1 DEF IsUncut, FirstOf
<1>4. m \in 1..N /\ m > MinIngressNodes /\ m < first
  <2>1. m > MinIngressNodes
    BY <1>3
  <2>2. QED
    BY <1>2, <1>3, <2>1 DEF NumUncut
<1> HIDE DEF m
<1>5. r[m] \in kept
  BY <1>3, <1>4
<1>6. \A n \in kept : n # r[m] => Before(e, Stakes, n, r[m])
  <2> SUFFICES ASSUME NEW j \in 1..m, r[j] # r[m] PROVE Before(e, Stakes, r[j], r[m])
    BY <1>3
  <2>1. j < m /\ j \in 1..N
    <3>1. j # m
      OBVIOUS
    <3>2. QED
      BY <1>2, <1>4, <3>1
  <2>2. QED
    BY <1>1, <1>4, <2>1 DEF IsCut
<1>7. kept \ {r[m]} = {r[j] : j \in 1..(m - 1)}
  <2>1. \A j \in 1..m : r[j] = r[m] <=> j = m
    BY <1>2, <1>4
  <2>2. \A j \in 1..m : j # m <=> j \in 1..(m - 1)
    BY <1>4
  <2>3. \A j \in 1..(m - 1) : j \in 1..m
    BY <1>4
  <2>4. QED
    BY <1>3, <2>1, <2>2, <2>3
<1>8. SumFunctionOnSet(Stakes, kept \ {r[m]}) = StakeBefore(Stakes, r, m)
  <2>1. m - 1 \in Nat /\ m - 1 <= N /\ (m - 1) + 1 = m
    BY <1>2, <1>4
  <2>2. StakeBefore(Stakes, r, (m - 1) + 1) = SumFunctionOnSet(Stakes, FirstOf(r, m - 1))
    BY <1>3, <2>1, StakeBeforeIs
  <2>3. QED
    BY <1>7, <2>1, <2>2 DEF FirstOf
<1>9. ~(StakeBefore(Stakes, r, m) >= minStake)
  BY <1>1, <1>4 DEF IsCut
<1>10. StakeBefore(Stakes, r, m) \in Nat
  <2>1. IsFiniteSet(kept \ {r[m]}) /\ \A n \in kept \ {r[m]} : Stakes[n] \in Nat
    BY ReceivedCacheAssumption, FS_Subset DEF IsEntry, IsCacheEntry
  <2> HIDE DEF kept
  <2>2. QED
    BY <1>8, <2>1, SumType
<1>11. SumFunctionOnSet(Stakes, kept \ {r[m]}) < minStake
  BY <1>2, <1>8, <1>9, <1>10
<1>12. QED
  BY <1>5, <1>6, <1>11 DEF minStake

-----------------------------------------------------------------------------
(* The records of one message.                                             *)

\* What an entry's scores account for, as ScoresAccount says of each.
EntryAccounts(e) ==
  /\ \A n \in SendersOf(e) : e.scores[n] <= e.upserts
  /\ SumFunction(e.scores) <= NumDupsThreshold * e.upserts
  /\ SumFunction(e.scores) >= e.upserts
  /\ OnlyLate(e) # {} => Cardinality(OnlyLate(e)) < Capacity

ScoreIn(scores, n) == IF n \in DOMAIN scores THEN scores[n] ELSE 0

\* A score that is added to raises the sum by as much.
LEMMA AddScoreSum ==
  ASSUME NEW e, IsEntry(e), NEW node \in Nodes, NEW by \in Nat
  PROVE  SumFunction(AddScore(e.scores, node, by)) = SumFunction(e.scores) + by
<1> DEFINE old == e.scores
           new == AddScore(e.scores, node, by)
           S == DOMAIN old
<1>1. IsFiniteSet(S) /\ \A n \in S : old[n] \in Nat
  BY ReceivedCacheAssumption, FS_Subset DEF IsEntry, IsCacheEntry, SendersOf
<1>2. DOMAIN new = S \cup {node} /\ \A n \in S \cup {node} :
        new[n] = (IF n \in S THEN old[n] ELSE 0) + (IF n = node THEN by ELSE 0)
  BY DEF AddScore
<1>3. SumFunction(old) = SumFunctionOnSet(old, S) /\ SumFunction(new) = SumFunctionOnSet(new, S \cup {node})
  BY <1>2 DEF SumFunction, FoldFunction, SumFunctionOnSet
<1> HIDE DEF old, new, S
<1>4. CASE node \in S
  <2>1. S \cup {node} = S
    BY <1>4
  <2>2. \A n \in S : old[n] \in Nat /\ new[n] = IF n = node THEN old[n] + by ELSE old[n]
    BY <1>1, <1>2
  <2>3. SumFunctionOnSet(new, S) = SumFunctionOnSet(old, S) + by
    BY <1>1, <1>4, <2>2, SumChange
  <2>4. QED
    BY <1>3, <2>1, <2>3 DEF old, new
<1>5. CASE node \notin S
  <2>1. \A n \in S : old[n] \in Nat /\ old[n] = new[n]
    BY <1>1, <1>2, <1>5
  <2>2. new[node] = by
    BY <1>2, <1>5
  <2>3. \A n \in S \cup {node} : new[n] \in Nat
    BY <2>1, <2>2
  <2>4. SumFunctionOnSet(new, S \cup {node}) = new[node] + SumFunctionOnSet(new, S)
    BY <1>1, <1>5, <2>3, SumAdd
  <2>5. SumFunctionOnSet(old, S) = SumFunctionOnSet(new, S) /\ SumFunctionOnSet(old, S) \in Nat
    BY <1>1, <2>1, SumEqual, SumType
  <2>6. QED
    BY <1>3, <2>2, <2>4, <2>5 DEF old, new
<1>6. QED
  BY <1>4, <1>5

\* Where a point was given, a sender has one.
LEMMA SomeScored ==
  ASSUME NEW e, IsEntry(e), SumFunction(e.scores) # 0
  PROVE  \E n \in SendersOf(e) : e.scores[n] # 0
<1>1. IsFiniteSet(DOMAIN e.scores)
  BY ReceivedCacheAssumption, FS_Subset DEF IsEntry, IsCacheEntry, SendersOf
<1>2. SumFunction(e.scores) = SumFunctionOnSet(e.scores, DOMAIN e.scores)
  BY DEF SumFunction, FoldFunction, SumFunctionOnSet
<1>3. ~\A n \in DOMAIN e.scores : e.scores[n] = 0
  BY <1>1, <1>2, SumZero
<1>4. QED
  BY <1>3 DEF SendersOf

\* The senders who were only ever late stay fewer than the entry's capacity.
LEMMA RecordCapacity ==
  ASSUME NEW e, IsEntry(e), NEW node \in Nodes, NEW numDups \in Nat,
         OnlyLate(e) # {} => Cardinality(OnlyLate(e)) < Capacity,
         numDups < NumDupsThreshold \/ SumFunction(e.scores) # 0
  PROVE  LET new == RecordEntry(e, node, numDups)
         IN  OnlyLate(new) # {} => Cardinality(OnlyLate(new)) < Capacity
<1> DEFINE new == RecordEntry(e, node, numDups)
           S == SendersOf(e)
           size == Cardinality(S)
<1>1. IsFiniteSet(S) /\ IsFiniteSet(OnlyLate(e)) /\ Capacity \in Nat
  BY ReceivedCacheAssumption, CacheEntryAssumption, FS_Subset DEF IsEntry, IsCacheEntry, OnlyLate
<1>2. Cardinality(OnlyLate(e)) \in Nat /\ size \in Nat
  BY <1>1, FS_CardinalityType
<1>3. CASE numDups < NumDupsThreshold
  <2>1. OnlyLate(new) \in SUBSET OnlyLate(e)
    <3>1. new.scores = AddScore(e.scores, node, 1)
      BY <1>3 DEF RecordEntry
    <3>2. ASSUME NEW n \in SendersOf(new), new.scores[n] = 0 PROVE n \in OnlyLate(e)
      <4>1. n \in SendersOf(e) \cup {node}
        BY <3>1 DEF AddScore, SendersOf
      <4>2. new.scores[n] = (IF n \in SendersOf(e) THEN e.scores[n] ELSE 0) + (IF n = node THEN 1 ELSE 0)
        BY <3>1, <4>1 DEF AddScore, SendersOf
      <4>3. n \in SendersOf(e) => e.scores[n] \in Nat
        BY DEF IsEntry, IsCacheEntry
      <4>4. n # node /\ n \in SendersOf(e) /\ e.scores[n] = 0
        <5> HIDE DEF new
        <5> QED
          BY <3>2, <4>1, <4>2, <4>3
      <4>5. QED
        BY <4>4 DEF OnlyLate
    <3>3. QED
      BY <3>2 DEF OnlyLate
  <2> HIDE DEF new
  <2>2. Cardinality(OnlyLate(new)) <= Cardinality(OnlyLate(e)) /\ Cardinality(OnlyLate(new)) \in Nat
    BY <1>1, <2>1, FS_Subset, FS_CardinalityType
  <2>3. OnlyLate(new) # {} => OnlyLate(e) # {}
    BY <2>1
  <2>4. QED
    BY <1>1, <1>2, <2>2, <2>3 DEF new
<1>4. CASE ~(numDups < NumDupsThreshold) /\ size < Capacity
  <2>1. PICK first \in S : e.scores[first] # 0
    BY <1>4, SomeScored
  <2> DEFINE others == S \ {first}
             late == others \cup {node}
  <2>2. OnlyLate(new) \in SUBSET late
    <3>1. new.scores = AddScore(e.scores, node, 0)
      BY <1>4 DEF RecordEntry
    <3>2. SendersOf(new) = S \cup {node}
      BY <3>1 DEF AddScore, SendersOf
    <3>3. new.scores[first] = e.scores[first] + 0
      BY <3>1, <3>2, <2>1 DEF AddScore, SendersOf
    <3>4. e.scores[first] \in Nat
      BY <2>1 DEF IsEntry, IsCacheEntry
    <3> HIDE DEF new, S
    <3>5. first \notin OnlyLate(new)
      BY <2>1, <3>3, <3>4 DEF OnlyLate
    <3>6. OnlyLate(new) \in SUBSET (S \cup {node})
      BY <3>2 DEF OnlyLate
    <3>7. QED
      BY <3>5, <3>6
  <2> HIDE DEF new, S
  <2>3. IsFiniteSet(others) /\ Cardinality(others) = size - 1
    BY <1>1, <2>1, FS_RemoveElement
  <2> HIDE DEF others, size
  <2>4. /\ IsFiniteSet(late)
        /\ Cardinality(late) = IF node \in others THEN Cardinality(others) ELSE Cardinality(others) + 1
    BY <2>3, FS_AddElement
  <2>5. Cardinality(late) <= size
    BY <1>2, <2>3, <2>4
  <2>6. Cardinality(late) \in Nat
    BY <2>4, FS_CardinalityType
  <2> HIDE DEF late
  <2>7. Cardinality(OnlyLate(new)) <= Cardinality(late) /\ Cardinality(OnlyLate(new)) \in Nat
    BY <2>2, <2>4, FS_Subset, FS_CardinalityType
  <2>8. Cardinality(OnlyLate(new)) < Capacity
    BY <1>1, <1>2, <1>4, <2>5, <2>6, <2>7
  <2>9. QED
    BY <2>8 DEF new
<1>5. CASE ~(numDups < NumDupsThreshold) /\ ~(size < Capacity)
  <2>1. new.scores = e.scores
    BY <1>5 DEF RecordEntry
  <2>2. OnlyLate(new) = OnlyLate(e)
    BY <2>1 DEF SendersOf, OnlyLate
  <2>3. QED
    BY <2>2
<1>6. QED
  BY <1>3, <1>4, <1>5

\* An entry's scores are those the entry e had and what the first i records of
\* a message add to them.
Recorded(new, e, arrivals, i) ==
  /\ IsEntry(new)
  /\ new.upserts = IF i = 0 THEN e.upserts ELSE e.upserts + 1
  /\ \A n \in SendersOf(new) :
       /\ new.scores[n] <= e.upserts + 1
       /\ (\A j \in 1..i : arrivals[j] # n) => new.scores[n] <= e.upserts
  /\ SumFunction(new.scores) =
       SumFunction(e.scores) + (IF i < NumDupsThreshold THEN i ELSE NumDupsThreshold)
  /\ OnlyLate(new) # {} => Cardinality(OnlyLate(new)) < Capacity

\* The senders of a message are different peers.
AreArrivals(arrivals) ==
  /\ Len(arrivals) \in Nat \ {0}
  /\ \A i \in 1..Len(arrivals) : arrivals[i] \in Nodes
  /\ \A i, j \in 1..Len(arrivals) : arrivals[i] = arrivals[j] => i = j

\* The records of a message one by one.
LEMMA RecordedNext ==
  ASSUME NEW e, IsEntry(e), NEW arrivals, AreArrivals(arrivals), NEW i \in 1..Len(arrivals),
         NEW old, Recorded(old, e, arrivals, i - 1), SumFunction(e.scores) \in Nat
  PROVE  Recorded(RecordEntry(old, arrivals[i], i - 1), e, arrivals, i)
<1> DEFINE node == arrivals[i]
           new == RecordEntry(old, node, i - 1)
           T == NumDupsThreshold
<1>1. /\ IsEntry(old) /\ node \in Nodes /\ i - 1 \in Nat /\ i \in Nat /\ i # 0 /\ i \in 1..Len(arrivals)
      /\ e.upserts \in Nat /\ T \in Nat \ {0}
  BY CacheEntryAssumption DEF Recorded, AreArrivals, IsEntry, IsCacheEntry
<1>2. IsEntry(new)
  BY <1>1, RecordEntryType DEF IsEntry
<1>3. new.upserts = e.upserts + 1
  <2>1. new.upserts = IF i - 1 = 0 THEN old.upserts + 1 ELSE old.upserts
    BY DEF RecordEntry
  <2>2. old.upserts = IF i - 1 = 0 THEN e.upserts ELSE e.upserts + 1
    BY DEF Recorded
  <2> HIDE DEF new
  <2>3. QED
    BY <1>1, <2>1, <2>2
<1>4. \A j \in 1..(i - 1) : arrivals[j] # node
  BY <1>1 DEF AreArrivals
<1>5. node \in SendersOf(old) => old.scores[node] \in Nat /\ old.scores[node] <= e.upserts
  BY <1>1, <1>4 DEF Recorded, IsEntry, IsCacheEntry
<1>6. ASSUME NEW n \in SendersOf(new), n = node PROVE new.scores[n] <= e.upserts + 1
  <2>1. CASE i - 1 < T
    <3>1. new.scores[n] = (IF n \in SendersOf(old) THEN old.scores[n] ELSE 0) + 1
      BY <1>6, <2>1 DEF RecordEntry, AddScore, SendersOf
    <3> HIDE DEF new, node
    <3>2. QED
      BY <1>1, <1>5, <1>6, <3>1
  <2>2. CASE ~(i - 1 < T)
    <3>1. (n \in SendersOf(old) /\ new.scores[n] = old.scores[n] + 0) \/ new.scores[n] = old.scores[n] \/ new.scores[n] = 0 + 0
      BY <1>6, <2>2 DEF RecordEntry, AddScore, SendersOf
    <3>2. n \in SendersOf(old) \/ new.scores[n] = 0 + 0
      BY <1>6, <2>2 DEF RecordEntry, AddScore, SendersOf
    <3> HIDE DEF new, node
    <3>3. QED
      BY <1>1, <1>5, <1>6, <3>1, <3>2
  <2>3. QED
    BY <2>1, <2>2
<1>7. ASSUME NEW n \in SendersOf(new), n # node
      PROVE  n \in SendersOf(old) /\ new.scores[n] = old.scores[n]
  <2>1. n \in SendersOf(old) /\ (new.scores[n] = old.scores[n] + 0 \/ new.scores[n] = old.scores[n])
    BY <1>7 DEF RecordEntry, AddScore, SendersOf
  <2>2. old.scores[n] \in Nat
    BY <1>1, <2>1 DEF IsEntry, IsCacheEntry
  <2> HIDE DEF new, node
  <2>3. QED
    BY <2>1, <2>2
<1>8. ASSUME NEW n \in SendersOf(new)
      PROVE  /\ new.scores[n] <= e.upserts + 1
             /\ (\A j \in 1..i : arrivals[j] # n) => new.scores[n] <= e.upserts
  <2>1. CASE n = node
    BY <1>1, <1>6, <2>1
  <2>2. CASE n # node
    <3>1. new.scores[n] = old.scores[n] /\ n \in SendersOf(old)
      BY <1>7, <2>2
    <3>2. (\A j \in 1..i : arrivals[j] # n) => (\A j \in 1..(i - 1) : arrivals[j] # n)
      BY <1>1
    <3> HIDE DEF new
    <3>3. QED
      BY <3>1, <3>2 DEF Recorded
  <2>3. QED
    BY <2>1, <2>2
<1>9. SumFunction(new.scores) = SumFunction(e.scores) + (IF i < T THEN i ELSE T)
  <2>1. SumFunction(old.scores) = SumFunction(e.scores) + (IF i - 1 < T THEN i - 1 ELSE T)
    BY DEF Recorded
  <2>2. SumFunction(new.scores) = SumFunction(old.scores) + (IF i - 1 < T THEN 1 ELSE 0)
    <3>1. \A by \in {0, 1} : SumFunction(AddScore(old.scores, node, by)) = SumFunction(old.scores) + by
      BY <1>1, AddScoreSum
    <3>2. SumFunction(old.scores) \in Nat
      BY <1>1, <2>1
    <3>3. IF i - 1 < T THEN new.scores = AddScore(old.scores, node, 1)
          ELSE new.scores = AddScore(old.scores, node, 0) \/ new.scores = old.scores
      BY DEF RecordEntry
    <3> HIDE DEF new, node, T
    <3>4. QED
      BY <3>1, <3>2, <3>3
  <2> HIDE DEF new, T
  <2>3. QED
    BY <1>1, <2>1, <2>2
<1>10. OnlyLate(new) # {} => Cardinality(OnlyLate(new)) < Capacity
  <2>1. i - 1 < T \/ SumFunction(old.scores) # 0
    <3>1. SumFunction(old.scores) = SumFunction(e.scores) + (IF i - 1 < T THEN i - 1 ELSE T)
      BY DEF Recorded
    <3>2. QED
      BY <1>1, <3>1
  <2>2. OnlyLate(old) # {} => Cardinality(OnlyLate(old)) < Capacity
    BY DEF Recorded
  <2>3. QED
    BY <1>1, <2>1, <2>2, RecordCapacity
<1> HIDE DEF new
<1>11. Recorded(new, e, arrivals, i)
  BY <1>1, <1>2, <1>3, <1>8, <1>9, <1>10 DEF Recorded
<1>12. QED
  BY <1>11 DEF new

\* Recording a message keeps the account of an entry.
LEMMA RecordAllAccounts ==
  ASSUME NEW e, IsEntry(e), EntryAccounts(e), NEW arrivals, AreArrivals(arrivals)
  PROVE  IsEntry(RecordAll(e, arrivals)) /\ EntryAccounts(RecordAll(e, arrivals))
<1> DEFINE N == Len(arrivals)
           T == NumDupsThreshold
<1>1. N \in Nat \ {0} /\ T \in Nat \ {0} /\ e.upserts \in Nat
  BY CacheEntryAssumption DEF AreArrivals, IsEntry, IsCacheEntry
<1>2. PICK g : IsRecording(g, e, arrivals, Nodes) /\ RecordAll(e, arrivals) = g[N]
  BY RecordAllIs DEF AreArrivals, IsEntry
<1>3. SumFunction(e.scores) \in Nat
  <2>1. IsFiniteSet(DOMAIN e.scores) /\ \A n \in DOMAIN e.scores : e.scores[n] \in Nat
    BY ReceivedCacheAssumption, FS_Subset DEF IsEntry, IsCacheEntry, SendersOf
  <2>2. SumFunction(e.scores) = SumFunctionOnSet(e.scores, DOMAIN e.scores)
    BY DEF SumFunction, FoldFunction, SumFunctionOnSet
  <2>3. QED
    BY <2>1, <2>2, SumType
<1>4. Recorded(g[0], e, arrivals, 0)
  <2>1. g[0] = e
    BY <1>2 DEF IsRecording
  <2>2. 0 < T /\ SumFunction(e.scores) + 0 = SumFunction(e.scores)
    BY <1>1, <1>3
  <2>3. \A n \in SendersOf(e) : e.scores[n] <= e.upserts /\ e.scores[n] <= e.upserts + 1
    <3>1. \A n \in SendersOf(e) : e.scores[n] \in Nat /\ e.scores[n] <= e.upserts
      BY DEF EntryAccounts, IsEntry, IsCacheEntry
    <3>2. QED
      BY <1>1, <3>1
  <2>4. QED
    BY <2>1, <2>2, <2>3 DEF Recorded, EntryAccounts
<1> DEFINE Bad == {i \in 0..N : ~Recorded(g[i], e, arrivals, i)}
<1>5. Bad = {}
  <2> SUFFICES ASSUME Bad # {} PROVE FALSE
    OBVIOUS
  <2>1. PICK i \in Bad : \A j \in Bad : i <= j
    <3>1. Bad \in SUBSET Nat
      BY <1>1
    <3> HIDE DEF Bad
    <3>2. QED
      BY <3>1, LeastNatural
  <2>2. i # 0 /\ i \in 0..N /\ ~Recorded(g[i], e, arrivals, i)
    BY <1>4
  <2>3. i \in 1..N /\ i - 1 \in 0..N /\ ~(i <= i - 1)
    BY <1>1, <2>2
  <2>4. Recorded(g[i - 1], e, arrivals, i - 1)
    BY <2>1, <2>3
  <2>5. g[i] = RecordEntry(g[i - 1], arrivals[i], i - 1)
    BY <1>2, <2>3 DEF IsRecording
  <2>6. Recorded(RecordEntry(g[i - 1], arrivals[i], i - 1), e, arrivals, i)
    BY <1>3, <2>3, <2>4, RecordedNext
  <2>7. QED
    BY <2>2, <2>5, <2>6
<1>6. Recorded(g[N], e, arrivals, N)
  <2>1. N \in 0..N
    BY <1>1
  <2>2. QED
    BY <1>5, <2>1
<1> DEFINE new == g[N]
<1>7. EntryAccounts(new)
  <2> HIDE DEF new
  <2>1. Recorded(new, e, arrivals, N)
    BY <1>6 DEF new
  <2>2. /\ new.upserts = e.upserts + 1
        /\ \A n \in SendersOf(new) : new.scores[n] <= e.upserts + 1
        /\ OnlyLate(new) # {} => Cardinality(OnlyLate(new)) < Capacity
    BY <1>1, <2>1 DEF Recorded
  <2>3. SumFunction(new.scores) = SumFunction(e.scores) + (IF N < T THEN N ELSE T)
    BY <2>1 DEF Recorded
  <2>4. SumFunction(e.scores) <= T * e.upserts /\ SumFunction(e.scores) >= e.upserts
    BY DEF EntryAccounts
  <2>5. T * (e.upserts + 1) = T * e.upserts + T /\ T * e.upserts \in Nat
    <3> DEFINE u == e.upserts
    <3>1. u \in Nat
      BY <1>1
    <3> HIDE DEF u, T
    <3>2. T * (u + 1) = T * u + T /\ T * u \in Nat
      BY <1>1, <3>1
    <3>3. QED
      BY <3>2 DEF u
  <2>6. SumFunction(new.scores) <= T * e.upserts + T /\ SumFunction(new.scores) >= e.upserts + 1
    BY <1>1, <1>3, <2>3, <2>4, <2>5
  <2>7. QED
    BY <2>2, <2>5, <2>6 DEF EntryAccounts
<1>8. QED
  BY <1>2, <1>6, <1>7 DEF Recorded

-----------------------------------------------------------------------------
(* The order of the map and of the history.                                *)

\* r is x and then the first elements of s, the one at p left out, k in all.
IsFront(r, s, p, x, k) ==
  /\ r \in Seq(ToSet(s) \cup {x})
  /\ Len(r) = k
  /\ k > 0 => r[1] = x
  /\ \A i \in 2..k : r[i] = IF i <= p THEN s[i - 1] ELSE s[i]

\* A new element comes first, and k elements stay.
LEMMA NewToFront ==
  ASSUME NEW T, NEW s \in Seq(T), NEW x, NEW k \in 0..(Len(s) + 1)
  PROVE  IsFront(SubSeq(<<x>> \o s, 1, k), s, Len(s) + 1, x, k)
<1> DEFINE U == ToSet(s) \cup {x}
           full == <<x>> \o s
<1>1. s \in Seq(U) /\ x \in U /\ Len(s) \in Nat
  <2>1. s \in Seq(ToSet(s))
    BY SeqOfElements
  <2>2. QED
    BY <2>1, SeqMonotonic
<1> HIDE DEF U
<1>2. /\ full \in Seq(U) /\ Len(full) = Len(s) + 1 /\ full[1] = x
      /\ \A i \in 2..(Len(s) + 1) : full[i] = s[i - 1]
  BY <1>1, PushFacts
<1> HIDE DEF full
<1>3. /\ SubSeq(full, 1, k) \in Seq(U) /\ Len(SubSeq(full, 1, k)) = k
      /\ \A i \in 1..k : SubSeq(full, 1, k)[i] = full[i]
  BY <1>2, FirstElements
<1>4. k > 0 => 1 \in 1..k
  BY <1>1
<1>5. \A i \in 2..k : i \in 1..k /\ i \in 2..(Len(s) + 1) /\ i <= Len(s) + 1
  BY <1>1
<1>6. QED
  BY <1>2, <1>3, <1>4, <1>5 DEF IsFront, U, full

\* An element moves to the front, and k elements stay.
LEMMA OldToFront ==
  ASSUME NEW T, NEW s \in Seq(T), NEW p \in 1..Len(s), NEW x, NEW k \in 0..Len(s)
  PROVE  IsFront(SubSeq(<<x>> \o RemoveAt(s, p), 1, k), s, p, x, k)
<1> DEFINE U == ToSet(s) \cup {x}
           others == RemoveAt(s, p)
           full == <<x>> \o others
<1>1. s \in Seq(U) /\ x \in U /\ Len(s) \in Nat /\ p \in Nat
  <2>1. s \in Seq(ToSet(s))
    BY SeqOfElements
  <2>2. QED
    BY <2>1, SeqMonotonic
<1> HIDE DEF U
<1>2. /\ others \in Seq(U) /\ Len(others) = Len(s) - 1
      /\ \A i \in 1..(Len(s) - 1) : others[i] = IF i < p THEN s[i] ELSE s[i + 1]
  BY <1>1, RemoveAtFacts
<1> HIDE DEF others
<1>3. /\ full \in Seq(U) /\ Len(full) = Len(others) + 1 /\ full[1] = x
      /\ \A i \in 2..(Len(others) + 1) : full[i] = others[i - 1]
  BY <1>1, <1>2, PushFacts
<1> HIDE DEF full
<1>4. Len(full) = Len(s)
  BY <1>1, <1>2, <1>3
<1>5. /\ SubSeq(full, 1, k) \in Seq(U) /\ Len(SubSeq(full, 1, k)) = k
      /\ \A i \in 1..k : SubSeq(full, 1, k)[i] = full[i]
  BY <1>3, <1>4, FirstElements
<1>6. k > 0 => 1 \in 1..k
  BY <1>1
<1>7. ASSUME NEW i \in 2..k PROVE SubSeq(full, 1, k)[i] = IF i <= p THEN s[i - 1] ELSE s[i]
  <2>1. /\ i \in 1..k /\ i \in 2..(Len(others) + 1) /\ i - 1 \in 1..(Len(s) - 1)
        /\ i - 1 < p <=> i <= p /\ (i - 1) + 1 = i
    BY <1>1, <1>2
  <2>2. SubSeq(full, 1, k)[i] = others[i - 1]
    BY <1>3, <1>5, <2>1
  <2>3. others[i - 1] = IF i - 1 < p THEN s[i - 1] ELSE s[(i - 1) + 1]
    BY <1>2, <2>1
  <2>4. QED
    BY <1>1, <2>1, <2>2, <2>3
<1>8. QED
  BY <1>3, <1>5, <1>6, <1>7 DEF IsFront, U, full, others

\* The map holds the origins that come first in the history.
RecentOrigins(items, origins) ==
  /\ Len(items) = IF Len(origins) < CacheCapacity THEN Len(origins) ELSE CacheCapacity
  /\ \A i \in 1..Len(items) : items[i].origin = origins[i]

\* That is what RecentOriginsHeld says, element by element.
LEMMA RecentOriginsAre ==
  ASSUME NEW items, items \in Seq(ToSet(items)), \A i \in DOMAIN items : items[i].origin \in Origins,
         NEW origins \in Seq(Origins)
  PROVE  ([i \in DOMAIN items |-> items[i].origin] =
           SubSeq(origins, 1, IF Len(origins) < CacheCapacity THEN Len(origins) ELSE CacheCapacity))
           <=> RecentOrigins(items, origins)
<1> DEFINE k == IF Len(origins) < CacheCapacity THEN Len(origins) ELSE CacheCapacity
           names == [i \in DOMAIN items |-> items[i].origin]
           first == SubSeq(origins, 1, k)
<1>1. k \in 0..Len(origins)
  BY ReceivedCacheAssumption, LenProperties
<1>2. DOMAIN items = 1..Len(items) /\ Len(items) \in Nat
  BY LenProperties
<1>3. names \in Seq(Origins) /\ Len(names) = Len(items) /\ \A i \in 1..Len(items) : names[i] = items[i].origin
  <2>1. names \in [1..Len(items) -> Origins]
    BY <1>2
  <2>2. \A i \in 1..Len(items) : names[i] = items[i].origin
    BY <1>2
  <2>3. names \in Seq(Origins)
    <3> HIDE DEF names
    <3> QED
      BY <1>2, <2>1, SeqDef
  <2>4. Len(names) = Len(items)
    <3> HIDE DEF names
    <3> QED
      BY <1>2, <2>1, <2>3, LenProperties
  <2>5. QED
    BY <2>2, <2>3, <2>4
<1> HIDE DEF k, names
<1>4. first \in Seq(Origins) /\ Len(first) = k /\ \A i \in 1..k : first[i] = origins[i]
  BY <1>1, FirstElements
<1> HIDE DEF first
<1>5. (names = first) => Len(items) = k /\ \A i \in 1..Len(items) : items[i].origin = origins[i]
  BY <1>3, <1>4
<1>6. Len(items) = k /\ (\A i \in 1..Len(items) : items[i].origin = origins[i]) => names = first
  BY <1>3, <1>4, SeqEqual
<1>7. QED
  BY <1>5, <1>6 DEF RecentOrigins, k, names, first

\* Both sequences list an origin once.
Once(items, origins) ==
  /\ \A i, j \in 1..Len(items) : items[i].origin = items[j].origin => i = j
  /\ \A i, j \in 1..Len(origins) : origins[i] = origins[j] => i = j

\* Where an element is in a sequence, or past the end.
At(p, s) == p \in 1..(Len(s) + 1)

\* When an origin moves to the front of both, or comes in there, and the map is
\* cut to its capacity, then they still agree.
LEMMA FrontsAgree ==
  ASSUME NEW c, NEW r, Len(c) \in Nat, Len(r) \in Nat, RecentOrigins(c, r), Once(c, r),
         NEW p, NEW q, At(p, c), At(q, r), NEW x, NEW new, NEW c2, NEW r2,
         x.origin = new,
         p <= Len(c) => c[p].origin = new,
         p > Len(c) => \A i \in 1..Len(c) : c[i].origin # new,
         q <= Len(r) => r[q] = new,
         q > Len(r) => \A i \in 1..Len(r) : r[i] # new,
         IsFront(c2, c, p, x, IF p <= Len(c) THEN Len(c)
                              ELSE IF Len(c) + 1 < CacheCapacity THEN Len(c) + 1 ELSE CacheCapacity),
         IsFront(r2, r, q, new, IF q <= Len(r) THEN Len(r) ELSE Len(r) + 1)
  PROVE  RecentOrigins(c2, r2) /\ Once(c2, r2)
<1>1. CacheCapacity \in Nat \ {0} /\ p \in Nat \ {0} /\ q \in Nat \ {0}
  BY ReceivedCacheAssumption DEF At
<1> DEFINE k == IF p <= Len(c) THEN Len(c)
                ELSE IF Len(c) + 1 < CacheCapacity THEN Len(c) + 1 ELSE CacheCapacity
           m == IF q <= Len(r) THEN Len(r) ELSE Len(r) + 1
<1>2. /\ Len(c) = IF Len(r) < CacheCapacity THEN Len(r) ELSE CacheCapacity
      /\ \A i \in 1..Len(c) : c[i].origin = r[i]
  BY DEF RecentOrigins
<1>3. Len(c2) = k /\ k \in Nat /\ Len(r2) = m /\ m \in Nat
  BY <1>1 DEF IsFront
<1>4. k > 0 /\ m > 0
  BY <1>1 DEF At
<1>5. c2[1].origin = new /\ r2[1] = new
  BY <1>3, <1>4 DEF IsFront
<1>6. /\ \A i \in 2..k : c2[i] = IF i <= p THEN c[i - 1] ELSE c[i]
      /\ \A i \in 2..m : r2[i] = IF i <= q THEN r[i - 1] ELSE r[i]
  BY DEF IsFront
<1>7. \A i, j \in 1..Len(r2) : r2[i] = r2[j] => i = j
  <2>1. \A i \in 2..m : r2[i] # new
    <3> SUFFICES ASSUME NEW i \in 2..m PROVE r2[i] # new
      OBVIOUS
    <3>1. CASE i <= q
      <4>1. i - 1 \in 1..Len(r) /\ i - 1 # q
        BY <1>1, <3>1
      <4>2. r[i - 1] # new
        <5>1. CASE q <= Len(r)
          BY <1>1, <4>1, <5>1 DEF At, Once
        <5>2. CASE q > Len(r)
          BY <4>1, <5>2
        <5>3. QED
          BY <1>1, <5>1, <5>2
      <4>3. QED
        BY <1>6, <3>1, <4>2
    <3>2. CASE ~(i <= q)
      <4>1. i \in 1..Len(r) /\ q \in 1..Len(r) /\ i # q
        BY <1>1, <3>2 DEF At
      <4>2. r[i] # new
        BY <1>1, <4>1 DEF Once
      <4>3. QED
        BY <1>6, <3>2, <4>2
    <3>3. QED
      BY <3>1, <3>2
  <2>2. \A i, j \in 2..m : r2[i] = r2[j] => i = j
    <3> SUFFICES ASSUME NEW i \in 2..m, NEW j \in 2..m, r2[i] = r2[j] PROVE i = j
      OBVIOUS
    <3> DEFINE from(a) == IF a <= q THEN a - 1 ELSE a
    <3>1. r2[i] = r[from(i)] /\ r2[j] = r[from(j)]
      BY <1>6
    <3>2. from(i) \in 1..Len(r) /\ from(j) \in 1..Len(r)
      BY SMTT(60), <1>1 DEF At
    <3>3. from(i) = from(j)
      <4> HIDE DEF from
      <4> QED
        BY <3>1, <3>2 DEF Once
    <3>4. QED
      BY <1>1, <3>3
  <2>3. \A i \in 1..m : i = 1 \/ i \in 2..m
    BY <1>3
  <2> HIDE DEF m
  <2>4. QED
    BY <1>3, <1>5, <2>1, <2>2, <2>3
<1>8. RecentOrigins(c2, r2)
  <2> HIDE DEF k, m
  <2>1. SUFFICES /\ k = IF m < CacheCapacity THEN m ELSE CacheCapacity
                 /\ \A i \in 2..k : c2[i].origin = r2[i]
    <3>1. \A i \in 1..k : i = 1 \/ i \in 2..k
      BY <1>3
    <3>2. QED
      BY <1>3, <1>5, <2>1, <3>1 DEF RecentOrigins
  <2>2. CASE p <= Len(c)
    <3>1. q = p
      <4>1. p \in 1..Len(c) /\ p \in 1..Len(r) /\ r[p] = new
        BY <1>1, <1>2, <2>2 DEF At
      <4>2. q <= Len(r)
        BY <1>1, <4>1 DEF At
      <4>3. q \in 1..Len(r) /\ r[q] = new
        BY <1>1, <4>2
      <4>4. QED
        BY <4>1, <4>3 DEF Once
    <3>2. p <= Len(r)
      BY <1>1, <1>2, <2>2
    <3>3. k = Len(c) /\ m = Len(r)
      BY <2>2, <3>1, <3>2 DEF k, m
    <3>4. ASSUME NEW i \in 2..k PROVE c2[i].origin = r2[i]
      <4>1. i \in 2..m /\ i - 1 \in 1..Len(c) /\ i \in 1..Len(c)
        BY <1>1, <1>2, <3>3
      <4>2. QED
        BY <1>2, <1>6, <3>1, <4>1
    <3>5. QED
      BY <1>2, <3>3, <3>4
  <2>3. CASE p > Len(c)
    <3>1. q > Len(c) /\ p = Len(c) + 1
      <4>1. p = Len(c) + 1
        BY <1>1, <2>3 DEF At
      <4>2. SUFFICES ASSUME q <= Len(c) PROVE FALSE
        BY <1>1, <4>1
      <4>3. q \in 1..Len(c) /\ q <= Len(r)
        BY <1>1, <1>2, <4>2
      <4>4. c[q].origin = new
        BY <1>2, <4>3
      <4>5. QED
        BY <2>3, <4>3, <4>4
    <3>2. k = IF Len(c) + 1 < CacheCapacity THEN Len(c) + 1 ELSE CacheCapacity
      BY <1>1, <2>3 DEF k
    <3>3. k = IF m < CacheCapacity THEN m ELSE CacheCapacity
      <4>1. m = Len(r) \/ m = Len(r) + 1
        BY DEF m
      <4>2. q <= Len(r) => m = Len(r)
        BY DEF m
      <4>3. q > Len(r) => m = Len(r) + 1
        BY <1>1 DEF m
      <4>4. q <= Len(r) => Len(c) = CacheCapacity /\ Len(r) > CacheCapacity
        BY <1>1, <1>2, <3>1
      <4>5. QED
        BY <1>1, <1>2, <3>2, <4>2, <4>3, <4>4
    <3>4. ASSUME NEW i \in 2..k PROVE c2[i].origin = r2[i]
      <4>1. i \in Nat /\ i <= k /\ i >= 2
        BY <1>3
      <4>2. i <= Len(c) + 1
        BY <1>1, <3>2, <4>1
      <4>3. i - 1 \in 1..Len(c) /\ i <= p /\ i <= q
        BY <1>1, <3>1, <4>1, <4>2
      <4>4. i \in 2..m
        BY <1>1, <1>3, <3>3, <4>1
      <4>5. QED
        BY <1>2, <1>6, <4>3, <4>4
    <3>5. QED
      BY <3>3, <3>4
  <2>4. QED
    BY <1>1, <2>2, <2>3
<1>9. \A i, j \in 1..Len(c2) : c2[i].origin = c2[j].origin => i = j
  <2>1. Len(c2) <= Len(r2) /\ Len(c2) \in Nat
    BY <1>1, <1>3, <1>8 DEF RecentOrigins
  <2>2. \A i \in 1..Len(c2) : i \in 1..Len(r2) /\ c2[i].origin = r2[i]
    BY <1>3, <1>8, <2>1 DEF RecentOrigins
  <2>3. QED
    BY <1>7, <2>2
<1>10. QED
  BY <1>7, <1>8, <1>9 DEF Once

-----------------------------------------------------------------------------
(* The invariant.                                                          *)

\* CacheInv as a predicate of the map's items and the history's origins.
CacheFacts(items, origins) ==
  /\ items \in Seq(ToSet(items))
  /\ \A i \in 1..Len(items) : IsItem(items[i]) /\ EntryAccounts(items[i].entry)
  /\ origins \in Seq(Origins)
  /\ Once(items, origins)
  /\ RecentOrigins(items, origins)

\* CacheInv is that predicate of a state,
LEMMA CacheInvGives == CacheInv => CacheFacts(cache, recency)
<1> SUFFICES ASSUME CacheInv PROVE CacheFacts(cache, recency)
  OBVIOUS
<1>1. cache \in Seq(ToSet(cache)) /\ recency \in Seq(Origins) /\ \A i \in DOMAIN cache : IsItem(cache[i])
  BY DEF CacheInv, TypeOK
<1>2. DOMAIN cache = 1..Len(cache) /\ DOMAIN recency = 1..Len(recency)
  BY <1>1, LenProperties
<1>3. \A i \in DOMAIN cache : cache[i].origin \in Origins
  BY <1>1 DEF IsItem
<1>4. RecentOrigins(cache, recency)
  BY <1>1, <1>3, RecentOriginsAre DEF CacheInv, RecentOriginsHeld
<1>5. \A i \in 1..Len(cache) : EntryAccounts(cache[i].entry)
  BY <1>2 DEF CacheInv, ScoresAccount, EntryAccounts
<1>6. Once(cache, recency)
  BY <1>2 DEF CacheInv, OncePerOrigin, Once
<1>7. QED
  BY <1>1, <1>2, <1>4, <1>5, <1>6 DEF CacheFacts

\* and of the next one.
LEMMA CacheFactsGive == CacheFacts(cache', recency') => CacheInv'
<1> SUFFICES ASSUME CacheFacts(cache', recency') PROVE CacheInv'
  OBVIOUS
<1>1. cache' \in Seq(ToSet(cache')) /\ recency' \in Seq(Origins)
  BY DEF CacheFacts
<1>2. DOMAIN cache' = 1..Len(cache') /\ DOMAIN recency' = 1..Len(recency')
  BY <1>1, LenProperties
<1>3. \A i \in DOMAIN cache' : IsItem(cache'[i]) /\ EntryAccounts(cache'[i].entry)
  BY <1>2 DEF CacheFacts
<1>4. \A i \in DOMAIN cache' : cache'[i].origin \in Origins
  BY <1>3 DEF IsItem
<1>5. RecentOriginsHeld'
  <2>1. RecentOrigins(cache', recency')
    BY DEF CacheFacts
  <2>2. QED
    BY <1>1, <1>4, <2>1, RecentOriginsAre DEF RecentOriginsHeld
<1>6. ScoresAccount'
  BY <1>3 DEF ScoresAccount, EntryAccounts
<1>7. OncePerOrigin'
  BY <1>2 DEF OncePerOrigin, CacheFacts, Once
<1>8. QED
  BY <1>1, <1>3, <1>5, <1>6, <1>7 DEF CacheInv, TypeOK

\* An entry without senders.
LEMMA EmptyEntryFacts == IsEntry(EmptyEntry) /\ EntryAccounts(EmptyEntry)
<1> DEFINE none == <<>>
<1>1. DOMAIN none = {}
  OBVIOUS
<1> HIDE DEF none
<1>2. EmptyEntry = [scores |-> none, upserts |-> 0]
  BY DEF EmptyEntry, none
<1>3. SendersOf(EmptyEntry) = {} /\ EmptyEntry.scores = none /\ EmptyEntry.upserts = 0
  BY <1>1, <1>2 DEF SendersOf
<1>4. IsEntry(EmptyEntry)
  BY EmptyEntryIs DEF IsEntry
<1>5. SumFunction(none) = 0
  <2>1. SumFunction(none) = SumFunctionOnSet(none, {})
    BY <1>1 DEF SumFunction, FoldFunction, SumFunctionOnSet
  <2>2. QED
    BY <2>1, SumEmpty
<1>6. OnlyLate(EmptyEntry) = {}
  BY <1>3 DEF OnlyLate
<1>8. EntryAccounts(EmptyEntry)
  BY <1>3, <1>5, <1>6, CacheEntryAssumption DEF EntryAccounts
<1>9. QED
  BY <1>4, <1>8

\* The entry of an origin, held or fresh.
LEMMA EntryOfFacts ==
  ASSUME CacheFacts(cache, recency), NEW origin
  PROVE  /\ IsEntry(EntryOf(origin)) /\ EntryAccounts(EntryOf(origin))
         /\ DOMAIN cache = 1..Len(cache) /\ Len(cache) \in Nat
         /\ Holds(origin) => PositionOf(origin) \in 1..Len(cache) /\ cache[PositionOf(origin)].origin = origin
<1>1. DOMAIN cache = 1..Len(cache) /\ Len(cache) \in Nat
  BY LenProperties DEF CacheFacts
<1>2. Holds(origin) => PositionOf(origin) \in 1..Len(cache) /\ cache[PositionOf(origin)].origin = origin
  BY <1>1 DEF Holds, PositionOf
<1>3. \A i \in 1..Len(cache) : IsEntry(cache[i].entry) /\ EntryAccounts(cache[i].entry)
  BY DEF CacheFacts, IsItem
<1>4. QED
  BY <1>1, <1>2, <1>3, EmptyEntryFacts DEF EntryOf

\* The copies of a message come from different peers, and there is one.
LEMMA ArrivalsAre == ASSUME NEW arrivals \in Arrivals PROVE AreArrivals(arrivals)
<1>1. PICK S \in SUBSET (Nodes \ {Self}) : arrivals \in SetToSeqs(S)
  BY DEF Arrivals
<1>2. IsFiniteSet(S)
  BY ReceivedCacheAssumption, FS_Subset
<1> DEFINE N == Cardinality(S)
<1>3. /\ N \in Nat /\ arrivals \in [1..N -> S] /\ \A i, j \in 1..N : arrivals[i] = arrivals[j] => i = j
      /\ arrivals \in Seq(S) /\ Len(arrivals) = N
  BY <1>1, <1>2, ListingFacts
<1> HIDE DEF N
<1>4. N # 0
  <2>1. arrivals # <<>>
    BY Zenon DEF Arrivals
  <2>2. QED
    BY <1>3, <2>1, EmptySeq
<1>5. QED
  BY <1>3, <1>4 DEF AreArrivals

\* A use of an origin moves it to the front of the map.
LEMMA TouchFacts ==
  ASSUME CacheFacts(cache, recency), NEW origin, NEW entry
  PROVE  \E p : /\ At(p, cache)
                /\ p <= Len(cache) => cache[p].origin = origin
                /\ p > Len(cache) => \A i \in 1..Len(cache) : cache[i].origin # origin
                /\ IsFront(Touch(origin, entry), cache, p, Entry(origin, entry),
                           IF p <= Len(cache) THEN Len(cache)
                           ELSE IF Len(cache) + 1 < CacheCapacity THEN Len(cache) + 1 ELSE CacheCapacity)
<1> DEFINE x == Entry(origin, entry)
           T == ToSet(cache) \cup {x}
<1>1. DOMAIN cache = 1..Len(cache) /\ Len(cache) \in Nat /\ CacheCapacity \in Nat /\ Len(cache) <= CacheCapacity
  <2>1. Len(recency) \in Nat
    BY LenProperties DEF CacheFacts
  <2>2. QED
    BY <2>1, EntryOfFacts, ReceivedCacheAssumption DEF CacheFacts, RecentOrigins
<1>2. cache \in Seq(T) /\ x \in T
  <2>1. cache \in Seq(ToSet(cache))
    BY DEF CacheFacts
  <2>2. QED
    BY <2>1, SeqMonotonic
<1> HIDE DEF T, x
<1>3. CASE Holds(origin)
  <2> DEFINE p == PositionOf(origin)
             full == <<x>> \o RemoveAt(cache, p)
  <2>1. p \in 1..Len(cache) /\ cache[p].origin = origin
    BY <1>3, EntryOfFacts
  <2> HIDE DEF p
  <2>2. Len(full) = Len(cache)
    <3>1. RemoveAt(cache, p) \in Seq(T) /\ Len(RemoveAt(cache, p)) = Len(cache) - 1
      BY <1>2, <2>1, RemoveAtFacts
    <3>2. Len(full) = (Len(cache) - 1) + 1
      BY <1>2, <3>1, PushFacts
    <3> HIDE DEF full
    <3>3. QED
      BY <1>1, <3>2
  <2>3. Touch(origin, entry) = SubSeq(full, 1, Len(cache))
    <3>1. Touch(origin, entry) = SubSeq(full, 1, IF Len(full) < CacheCapacity THEN Len(full) ELSE CacheCapacity)
      BY <1>3 DEF Touch, p, x
    <3>2. (IF Len(full) < CacheCapacity THEN Len(full) ELSE CacheCapacity) = Len(cache)
      <4>1. \A n, m \in Nat : n <= m => (IF n < m THEN n ELSE m) = n
        OBVIOUS
      <4> HIDE DEF full
      <4>2. QED
        BY <1>1, <2>2, <4>1
    <3>3. QED
      BY <3>1, <3>2
  <2>4. IsFront(Touch(origin, entry), cache, p, x, Len(cache))
    <3>1. Len(cache) \in 0..Len(cache)
      BY <1>1
    <3>2. QED
      BY <1>2, <2>1, <2>3, <3>1, OldToFront
  <2>5. At(p, cache) /\ p <= Len(cache) /\ ~(p > Len(cache))
    BY <1>1, <2>1 DEF At
  <2>6. QED
    BY <2>1, <2>4, <2>5 DEF x
<1>4. CASE ~Holds(origin)
  <2> DEFINE p == Len(cache) + 1
             full == <<x>> \o cache
             k == IF Len(cache) + 1 < CacheCapacity THEN Len(cache) + 1 ELSE CacheCapacity
  <2>1. Len(full) = Len(cache) + 1
    BY <1>2, PushFacts
  <2>2. Touch(origin, entry) = SubSeq(full, 1, k)
    BY <1>4, <2>1 DEF Touch, x
  <2>3. k \in 0..(Len(cache) + 1)
    BY <1>1
  <2>4. IsFront(Touch(origin, entry), cache, p, x, k)
    <3> HIDE DEF k
    <3> QED
      BY <1>2, <2>2, <2>3, NewToFront
  <2>5. At(p, cache) /\ p > Len(cache) /\ ~(p <= Len(cache))
    BY <1>1 DEF At
  <2>6. \A i \in 1..Len(cache) : cache[i].origin # origin
    BY <1>1, <1>4 DEF Holds
  <2>7. QED
    BY <2>4, <2>5, <2>6 DEF x
<1>5. QED
  BY <1>3, <1>4

\* The history does the same.
LEMMA LatestFirstFacts ==
  ASSUME CacheFacts(cache, recency), NEW origin
  PROVE  \E q : /\ At(q, recency)
                /\ q <= Len(recency) => recency[q] = origin
                /\ q > Len(recency) => \A i \in 1..Len(recency) : recency[i] # origin
                /\ IsFront(LatestFirst(origin), recency, q, origin,
                           IF q <= Len(recency) THEN Len(recency) ELSE Len(recency) + 1)
<1> DEFINE T == ToSet(recency) \cup {origin}
<1>1. DOMAIN recency = 1..Len(recency) /\ Len(recency) \in Nat /\ ToSet(recency) = {recency[i] : i \in 1..Len(recency)}
  BY LenProperties DEF CacheFacts, ToSet
<1>2. recency \in Seq(T) /\ origin \in T
  <2>1. recency \in Seq(ToSet(recency))
    BY SeqOfElements DEF CacheFacts
  <2>2. QED
    BY <2>1, SeqMonotonic
<1> HIDE DEF T
<1>3. CASE origin \in ToSet(recency)
  <2> DEFINE q == CHOOSE i \in DOMAIN recency : recency[i] = origin
             full == <<origin>> \o RemoveAt(recency, q)
  <2>1. q \in 1..Len(recency) /\ recency[q] = origin
    BY <1>1, <1>3
  <2>2. LatestFirst(origin) = full
    BY <1>3 DEF LatestFirst
  <2> HIDE DEF q
  <2>3. full \in Seq(T) /\ Len(full) = Len(recency)
    <3>1. RemoveAt(recency, q) \in Seq(T) /\ Len(RemoveAt(recency, q)) = Len(recency) - 1
      BY <1>2, <2>1, RemoveAtFacts
    <3>2. full \in Seq(T) /\ Len(full) = (Len(recency) - 1) + 1
      BY <1>2, <3>1, PushFacts
    <3> HIDE DEF full
    <3>3. QED
      BY <1>1, <3>2
  <2>4. SubSeq(full, 1, Len(recency)) = full
    <3> HIDE DEF full
    <3>1. SubSeq(full, 1, Len(full)) = full
      BY <2>3, SubSeqFull
    <3>2. QED
      BY <2>3, <3>1
  <2>5. IsFront(full, recency, q, origin, Len(recency))
    <3>1. Len(recency) \in 0..Len(recency)
      BY <1>1
    <3>2. IsFront(SubSeq(full, 1, Len(recency)), recency, q, origin, Len(recency))
      BY <1>2, <2>1, <3>1, OldToFront
    <3>3. QED
      BY <2>4, <3>2
  <2>6. At(q, recency) /\ q <= Len(recency) /\ ~(q > Len(recency))
    BY <1>1, <2>1 DEF At
  <2> HIDE DEF full
  <2>7. QED
    BY <2>1, <2>2, <2>5, <2>6
<1>4. CASE origin \notin ToSet(recency)
  <2> DEFINE q == Len(recency) + 1
             full == <<origin>> \o recency
  <2>1. LatestFirst(origin) = full
    BY <1>4 DEF LatestFirst
  <2>2. full \in Seq(T) /\ Len(full) = q
    BY <1>2, PushFacts
  <2>3. SubSeq(full, 1, q) = full
    <3> HIDE DEF full
    <3>1. SubSeq(full, 1, Len(full)) = full
      BY <2>2, SubSeqFull
    <3>2. QED
      BY <2>2, <3>1
  <2>4. IsFront(full, recency, q, origin, q)
    <3>1. q \in 0..(Len(recency) + 1)
      BY <1>1
    <3>2. IsFront(SubSeq(full, 1, q), recency, q, origin, q)
      BY <1>2, <3>1, NewToFront
    <3>3. QED
      BY <2>3, <3>2
  <2>5. At(q, recency) /\ q > Len(recency) /\ ~(q <= Len(recency))
    BY <1>1 DEF At
  <2>6. \A i \in 1..Len(recency) : recency[i] # origin
    BY <1>1, <1>4
  <2> HIDE DEF full
  <2>7. QED
    BY <2>1, <2>4, <2>5, <2>6
<1>5. QED
  BY <1>3, <1>4

\* An empty cache.
LEMMA InitCache == Init => CacheInv
<1> SUFFICES ASSUME Init PROVE CacheInv
  OBVIOUS
<1>1. cache = <<>> /\ recency = <<>>
  BY DEF Init
<1>2. DOMAIN cache = {} /\ DOMAIN recency = {} /\ cache \in Seq(ToSet(cache)) /\ recency \in Seq(Origins)
  BY <1>1, EmptySeq
<1>3. RecentOriginsHeld
  <2>1. Len(recency) = 0 /\ 0 < CacheCapacity
    BY <1>1, EmptySeq, ReceivedCacheAssumption
  <2>2. RecentOrigins(cache, recency)
    <3>1. Len(cache) = 0
      BY <1>1, EmptySeq
    <3>2. QED
      BY <2>1, <3>1 DEF RecentOrigins
  <2>3. QED
    BY <1>2, <2>2, RecentOriginsAre DEF RecentOriginsHeld
<1>4. QED
  BY <1>2, <1>3 DEF CacheInv, TypeOK, OncePerOrigin, ScoresAccount

\* A message moves its origin to the front of the map and of the history, and
\* may push out the one that was used least recently.
LEMMA ConsumeCache ==
  ASSUME CacheInv, NEW origin \in Origins, NEW arrivals \in Arrivals, Consume(origin, arrivals)
  PROVE  CacheInv'
<1> DEFINE entry == RecordAll(EntryOf(origin), arrivals)
           x == Entry(origin, entry)
<1>1. CacheFacts(cache, recency)
  BY CacheInvGives
<1>2. IsEntry(entry) /\ EntryAccounts(entry)
  BY <1>1, ArrivalsAre, EntryOfFacts, RecordAllAccounts
<1> HIDE DEF entry
<1>3. cache' = Touch(origin, entry) /\ recency' = LatestFirst(origin)
  BY DEF Consume, entry
<1>4. x.origin = origin /\ x.entry = entry /\ IsItem(x)
  BY <1>2 DEF Entry, IsItem
<1> HIDE DEF x
<1>5. PICK p : /\ At(p, cache)
               /\ p <= Len(cache) => cache[p].origin = origin
               /\ p > Len(cache) => \A i \in 1..Len(cache) : cache[i].origin # origin
               /\ IsFront(cache', cache, p, x,
                          IF p <= Len(cache) THEN Len(cache)
                          ELSE IF Len(cache) + 1 < CacheCapacity THEN Len(cache) + 1 ELSE CacheCapacity)
  BY <1>1, <1>3, TouchFacts DEF x
<1>6. PICK q : /\ At(q, recency)
               /\ q <= Len(recency) => recency[q] = origin
               /\ q > Len(recency) => \A i \in 1..Len(recency) : recency[i] # origin
               /\ IsFront(recency', recency, q, origin,
                          IF q <= Len(recency) THEN Len(recency) ELSE Len(recency) + 1)
  BY <1>1, <1>3, LatestFirstFacts
<1>7. /\ Len(cache) \in Nat /\ Len(recency) \in Nat
      /\ Once(cache, recency) /\ RecentOrigins(cache, recency)
  BY <1>1, LenProperties DEF CacheFacts
<1>8. RecentOrigins(cache', recency') /\ Once(cache', recency')
  BY <1>4, <1>5, <1>6, <1>7, FrontsAgree
<1>9. /\ cache' \in Seq(ToSet(cache) \cup {x})
      /\ recency' \in Seq(ToSet(recency) \cup {origin})
  BY <1>5, <1>6 DEF IsFront
<1>10. recency' \in Seq(Origins)
  <2>1. ToSet(recency) \subseteq Origins
    BY <1>1, LenProperties DEF CacheFacts, ToSet
  <2>2. ToSet(recency) \cup {origin} \subseteq Origins
    BY <2>1
  <2>3. QED
    BY <1>9, <2>2, SeqMonotonic
<1>11. \A i \in 1..Len(cache') : IsItem(cache'[i]) /\ EntryAccounts(cache'[i].entry)
  <2>1. \A item \in ToSet(cache) : IsItem(item) /\ EntryAccounts(item.entry)
    BY <1>1, EntryOfFacts DEF CacheFacts, ToSet
  <2>2. \A item \in ToSet(cache) \cup {x} : IsItem(item) /\ EntryAccounts(item.entry)
    BY <1>2, <1>4, <2>1
  <2>3. \A i \in 1..Len(cache') : cache'[i] \in ToSet(cache) \cup {x}
    BY <1>9, ElementOfSeq
  <2>4. QED
    BY <2>2, <2>3
<1>12. cache' \in Seq(ToSet(cache'))
  BY <1>9, SeqOfElements
<1>13. QED
  BY <1>8, <1>10, <1>11, <1>12, CacheFactsGive DEF CacheFacts

\* A prune leaves a fresh entry where the entry was.
LEMMA PruneCache ==
  ASSUME CacheInv, NEW origin \in Origins, PruneEnough(origin)
  PROVE  CacheInv'
<1> DEFINE p == PositionOf(origin)
           x == Entry(origin, EmptyEntry)
           T == ToSet(cache) \cup {x}
<1>1. CacheFacts(cache, recency)
  BY CacheInvGives
<1>2. p \in 1..Len(cache) /\ cache[p].origin = origin
  BY <1>1, EntryOfFacts DEF PruneEnough
<1>3. cache' = [cache EXCEPT ![p] = x] /\ recency' = recency
  BY DEF PruneEnough
<1>4. x.origin = origin /\ IsItem(x) /\ EntryAccounts(x.entry)
  BY EmptyEntryFacts DEF Entry, IsItem
<1> HIDE DEF p, x
<1>5. cache \in Seq(T) /\ x \in T
  <2>1. cache \in Seq(ToSet(cache))
    BY <1>1 DEF CacheFacts
  <2>2. QED
    BY <2>1, SeqMonotonic
<1> HIDE DEF T
<1>6. /\ cache' \in Seq(T) /\ Len(cache') = Len(cache)
      /\ \A i \in 1..Len(cache) : cache'[i] = IF i = p THEN x ELSE cache[i]
  BY <1>2, <1>3, <1>5, ExceptSeq
<1>7. \A i \in 1..Len(cache') :
        /\ cache'[i].origin = cache[i].origin
        /\ IsItem(cache'[i]) /\ EntryAccounts(cache'[i].entry)
  BY <1>1, <1>2, <1>4, <1>6 DEF CacheFacts
<1>8. cache' \in Seq(ToSet(cache'))
  BY <1>6, SeqOfElements
<1>9. Once(cache', recency') /\ RecentOrigins(cache', recency')
  BY <1>1, <1>3, <1>6, <1>7 DEF CacheFacts, Once, RecentOrigins
<1>10. recency' \in Seq(Origins)
  BY <1>1, <1>3 DEF CacheFacts
<1>11. QED
  BY <1>7, <1>8, <1>9, <1>10, CacheFactsGive DEF CacheFacts

\* A prune that comes too early changes nothing.
LEMMA StutterCache == CacheInv /\ UNCHANGED vars => CacheInv'
<1> SUFFICES ASSUME CacheInv, UNCHANGED vars PROVE CacheInv'
  OBVIOUS
<1>1. cache' = cache /\ recency' = recency
  BY DEF vars
<1>2. CacheFacts(cache', recency')
  BY <1>1, CacheInvGives
<1>3. QED
  BY <1>2, CacheFactsGive

\* The inductive invariant holds in every behaviour of a node's cache.
THEOREM CacheInvariance == Spec => []CacheInv
<1>1. CacheInv /\ [Next]_vars => CacheInv'
  <2> SUFFICES ASSUME CacheInv, [Next]_vars PROVE CacheInv'
    OBVIOUS
  <2>1. CASE \E origin \in Origins, arrivals \in Arrivals : Consume(origin, arrivals)
    BY <2>1, ConsumeCache
  <2>2. CASE \E origin \in Origins : PruneTooEarly(origin)
    BY <2>2, StutterCache DEF PruneTooEarly
  <2>3. CASE \E origin \in Origins : PruneEnough(origin)
    BY <2>3, PruneCache
  <2>4. CASE UNCHANGED vars
    BY <2>4, StutterCache
  <2>5. QED
    BY <2>1, <2>2, <2>3, <2>4 DEF Next
<1>2. QED
  BY <1>1, InitCache, PTL DEF Spec

\* Only timely copies of a message score, one point for each of the first
\* senders (ReceivedCacheEntry::record), after any number of messages.
THEOREM ScoresAccounted == Spec => []ScoresAccount
<1>1. CacheInv => ScoresAccount
  BY DEF CacheInv
<1>2. QED
  BY <1>1, CacheInvariance, PTL

\* The map holds the latest origins, whatever prunes come between (get_mut
\* and peek_mut, received_cache.rs:43-81).
THEOREM RecentOriginsKept == Spec => []RecentOriginsHeld
<1>1. CacheInv => RecentOriginsHeld
  BY DEF CacheInv
<1>2. QED
  BY <1>1, CacheInvariance, PTL

-----------------------------------------------------------------------------
(* What the prunes leave.                                                  *)

\* The latest prune answered with what an entry's prune can.
PruneFromEntry ==
  Pruned =>
    /\ lastPrune.origin \in Origins
    /\ IsEntry(lastPrune.entry)
    /\ \E cut \in PruneOutcomes(lastPrune.entry, Stakes, Self, lastPrune.origin, ThresholdPct, MinIngressNodes) :
         lastPrune.pruned = cut \ {lastPrune.origin}

\* So it did in every behaviour.
LEMMA PruneFromEntryHolds == Spec => []PruneFromEntry
<1>1. Init => PruneFromEntry
  BY DEF Init, PruneFromEntry, Pruned
<1>2. CacheInv /\ PruneFromEntry /\ [Next]_vars => PruneFromEntry'
  <2> SUFFICES ASSUME CacheInv, PruneFromEntry, [Next]_vars PROVE PruneFromEntry'
    OBVIOUS
  <2>1. CASE UNCHANGED lastPrune
    BY <2>1 DEF PruneFromEntry, Pruned
  <2>2. ASSUME NEW origin \in Origins, PruneEnough(origin) PROVE PruneFromEntry'
    <3>1. IsEntry(EntryOf(origin))
      BY CacheInvGives, EntryOfFacts
    <3>2. PICK cut \in PruneOutcomes(EntryOf(origin), Stakes, Self, origin, ThresholdPct, MinIngressNodes) :
            lastPrune' = [origin |-> origin, entry |-> EntryOf(origin), pruned |-> cut \ {origin}]
      BY <2>2 DEF PruneEnough
    <3>3. lastPrune'.origin = origin /\ lastPrune'.entry = EntryOf(origin) /\ lastPrune'.pruned = cut \ {origin}
      BY <3>2
    <3>4. QED
      BY <3>1, <3>3 DEF PruneFromEntry
  <2>3. QED
    BY <2>1, <2>2 DEF Next, Consume, PruneTooEarly, vars
<1>3. QED
  BY <1>1, <1>2, CacheInvariance, PTL DEF Spec

\* A prune leaves enough peers and enough stake (received_cache.rs:84-116).
THEOREM EnoughIngressKept == Spec => []KeepsEnoughIngress
<1>1. PruneFromEntry => KeepsEnoughIngress
  <2> SUFFICES ASSUME PruneFromEntry, Pruned
               PROVE  /\ Cardinality(Kept) >= MinIngressNodes \/ Kept = Senders
                      /\ lastPrune.origin \notin lastPrune.pruned
                      /\ lastPrune.pruned # {} => StakeOf(Kept) >= MinStakeKept
    BY DEF KeepsEnoughIngress
  <2> DEFINE e == lastPrune.entry
             origin == lastPrune.origin
  <2>1. PICK cut \in PruneOutcomes(e, Stakes, Self, origin, ThresholdPct, MinIngressNodes) :
          lastPrune.pruned = cut \ {origin}
    BY DEF PruneFromEntry
  <2>2. IsEntry(e) /\ origin \in Origins
    BY DEF PruneFromEntry
  <2>3. Kept = SendersOf(e) \ (cut \ {origin}) /\ Senders = SendersOf(e)
    BY <2>1 DEF Kept, Senders
  <2>4. MinStakeKept = MinIngressStake(Stakes, Self, origin, ThresholdPct)
    BY DEF MinStakeKept
  <2> HIDE DEF e, origin
  <2>5. LET kept == SendersOf(e) \ (cut \ {origin})
        IN  /\ Cardinality(kept) >= MinIngressNodes \/ kept = SendersOf(e)
            /\ cut \ {origin} # {} =>
                 SumFunctionOnSet(Stakes, kept) >= MinIngressStake(Stakes, Self, origin, ThresholdPct)
    BY <2>1, <2>2, EnoughLeft
  <2>6. QED
    BY <2>1, <2>3, <2>4, <2>5 DEF StakeOf, origin
<1>2. QED
  BY <1>1, PruneFromEntryHolds, PTL

\* Whoever a prune cuts off is no better than who is left
\* (received_cache.rs:101-105).
THEOREM BestPeersKept == Spec => []KeepsBestPeers
<1>1. PruneFromEntry => KeepsBestPeers
  <2> SUFFICES ASSUME PruneFromEntry, Pruned, NEW a \in lastPrune.pruned, NEW b \in Kept \ {lastPrune.origin}
               PROVE  Before(lastPrune.entry, Stakes, b, a)
    BY DEF KeepsBestPeers, Better
  <2> DEFINE e == lastPrune.entry
             origin == lastPrune.origin
  <2>1. PICK cut \in PruneOutcomes(e, Stakes, Self, origin, ThresholdPct, MinIngressNodes) :
          lastPrune.pruned = cut \ {origin}
    BY DEF PruneFromEntry
  <2>2. IsEntry(e) /\ origin \in Origins
    BY DEF PruneFromEntry
  <2>3. a \in cut /\ b \in SendersOf(e) \ cut
    BY <2>1 DEF Kept, Senders
  <2> HIDE DEF e, origin
  <2>4. Before(e, Stakes, b, a)
    BY <2>1, <2>2, <2>3, BestKept
  <2>5. QED
    BY <2>4 DEF e
<1>2. QED
  BY <1>1, PruneFromEntryHolds, PTL

\* A prune cuts all that its limits allow (received_cache.rs:106-116).
THEOREM AllItMayCut == Spec => []CutsAllItMay
<1>1. PruneFromEntry => CutsAllItMay
  <2> SUFFICES ASSUME PruneFromEntry, Pruned, Cardinality(Kept) > MinIngressNodes,
                      lastPrune.origin \notin Senders
               PROVE  \E worst \in Kept : /\ \A n \in Kept : ~Better(worst, n)
                                         /\ StakeOf(Kept \ {worst}) < MinStakeKept
    BY DEF CutsAllItMay
  <2> DEFINE e == lastPrune.entry
             origin == lastPrune.origin
  <2>1. PICK cut \in PruneOutcomes(e, Stakes, Self, origin, ThresholdPct, MinIngressNodes) :
          lastPrune.pruned = cut \ {origin}
    BY DEF PruneFromEntry
  <2>2. IsEntry(e) /\ origin \in Origins
    BY DEF PruneFromEntry
  <2>3. Kept = SendersOf(e) \ cut
    BY <2>1 DEF Kept, Senders
  <2>4. MinStakeKept = MinIngressStake(Stakes, Self, origin, ThresholdPct)
    BY DEF MinStakeKept
  <2> HIDE DEF e, origin
  <2>5. LET kept == SendersOf(e) \ cut
        IN  \E worst \in kept :
              /\ \A n \in kept : n # worst => Before(e, Stakes, n, worst)
              /\ SumFunctionOnSet(Stakes, kept \ {worst})
                   < MinIngressStake(Stakes, Self, origin, ThresholdPct)
    BY <2>1, <2>2, <2>3, AllCut
  <2>6. PICK worst \in Kept :
          /\ \A n \in Kept : n # worst => Before(e, Stakes, n, worst)
          /\ StakeOf(Kept \ {worst}) < MinStakeKept
    BY <2>3, <2>4, <2>5 DEF StakeOf
  <2>7. \A n \in Kept : ~Better(worst, n)
    BY <2>6 DEF Better, e
  <2>8. QED
    BY <2>6, <2>7
<1>2. QED
  BY <1>1, PruneFromEntryHolds, PTL
=============================================================================
