------------------------- MODULE SimulationSweepProofs -------------------------
(***************************************************************************)
(* Theorems about main and the loading of accounts, for every set of       *)
(* arguments, every answer of the RPC server and clusters of any size.     *)
(* SweepInv, defined in SimulationSweep, is the inductive invariant; the   *)
(* four properties of the module follow from it.  First what the grouping  *)
(* of vote accounts, the account file and find_nth_largest_node compute    *)
(* (Accounts), by induction over the vote accounts and over the nodes.     *)
(***************************************************************************)
EXTENDS SimulationSweep, DataProofs

-----------------------------------------------------------------------------
(* The stakes of the nodes.                                                *)

\* Vote accounts, as an RPC server may answer with them.
IsAnswer(answer) ==
  /\ answer \in Seq({answer[i] : i \in DOMAIN answer})
  /\ \A i \in DOMAIN answer : answer[i].stake \in Nat

VotersUpTo(answer, k) == {answer[i].node : i \in 1..k}
VotesUpTo(answer, k, n) == {i \in 1..k : answer[i].node = n}
StakesOf(answer) == [i \in DOMAIN answer |-> answer[i].stake]

\* What the grouping has after k vote accounts.
IsGroupedUpTo(stakes, answer, k) ==
  /\ stakes \in [VotersUpTo(answer, k) -> Nat]
  /\ \A n \in VotersUpTo(answer, k) :
       stakes[n] = SumFunctionOnSet(StakesOf(answer), VotesUpTo(answer, k, n))

\* The stake of a vote account that is none of its node's before.
LEMMA VotesNext ==
  ASSUME NEW answer, IsAnswer(answer), NEW k \in 1..Len(answer), NEW n
  PROVE  LET sum(j) == SumFunctionOnSet(StakesOf(answer), VotesUpTo(answer, j, n))
         IN  /\ sum(k) = sum(k - 1) + (IF n = answer[k].node THEN answer[k].stake ELSE 0)
             /\ sum(k - 1) \in Nat
             /\ n \notin VotersUpTo(answer, k - 1) => sum(k - 1) = 0
<1> DEFINE N == Len(answer)
           fun == StakesOf(answer)
           S == VotesUpTo(answer, k - 1, n)
           T == VotesUpTo(answer, k, n)
<1>1. N \in Nat /\ DOMAIN answer = 1..N
  BY LenProperties DEF IsAnswer
<1>2. k \in Nat /\ k - 1 \in Nat /\ 1..(k - 1) \subseteq 1..N /\ 1..k \subseteq 1..N
      /\ 1..k = 1..(k - 1) \cup {k} /\ k \notin 1..(k - 1)
  BY <1>1
<1>3. \A i \in 1..N : fun[i] = answer[i].stake /\ fun[i] \in Nat
  BY <1>1 DEF StakesOf, IsAnswer
<1>4. /\ S \subseteq 1..(k - 1)
      /\ n = answer[k].node => T = S \cup {k}
      /\ n # answer[k].node => T = S
  BY <1>2 DEF VotesUpTo
<1>5. n \notin VotersUpTo(answer, k - 1) => S = {}
  BY DEF VotesUpTo, VotersUpTo
<1>6. IsFiniteSet(S)
  <2>1. 1 \in Int /\ k - 1 \in Int
    BY <1>2
  <2>2. IsFiniteSet(1..(k - 1))
    BY <2>1, FS_Interval
  <2>3. QED
    BY <1>4, <2>2, FS_Subset
<1>7. k \in 1..N /\ k \notin S /\ \A i \in S \cup {k} : fun[i] \in Nat
  BY <1>1, <1>2, <1>3, <1>4
<1> HIDE DEF fun, S, T
<1>8. SumFunctionOnSet(fun, S) \in Nat
  BY <1>6, <1>7, SumType
<1>9. SumFunctionOnSet(fun, S \cup {k}) = fun[k] + SumFunctionOnSet(fun, S)
  BY <1>6, <1>7, SumAdd
<1>10. SumFunctionOnSet(fun, {}) = 0
  BY SumEmpty
<1>11. SumFunctionOnSet(fun, T)
         = SumFunctionOnSet(fun, S) + (IF n = answer[k].node THEN answer[k].stake ELSE 0)
  <2>1. fun[k] = answer[k].stake /\ answer[k].stake \in Nat
    BY <1>3, <1>7
  <2>2. CASE n = answer[k].node
    <3>1. SumFunctionOnSet(fun, T) = fun[k] + SumFunctionOnSet(fun, S)
      BY <1>4, <1>9, <2>2
    <3>2. QED
      BY <1>8, <2>1, <2>2, <3>1
  <2>3. CASE n # answer[k].node
    BY <1>4, <1>8, <2>3
  <2>4. QED
    BY <2>2, <2>3
<1>12. n \notin VotersUpTo(answer, k - 1) => SumFunctionOnSet(fun, S) = 0
  BY <1>5, <1>10
<1>13. QED
  BY <1>8, <1>11, <1>12 DEF fun, S, T

\* One vote account more.
LEMMA CreditedNext ==
  ASSUME NEW answer, IsAnswer(answer), NEW k \in 1..Len(answer),
         NEW stakes, IsGroupedUpTo(stakes, answer, k - 1)
  PROVE  IsGroupedUpTo(Credited(stakes, answer[k]), answer, k)
<1> DEFINE before == VotersUpTo(answer, k - 1)
           after == VotersUpTo(answer, k)
           sum(j, n) == SumFunctionOnSet(StakesOf(answer), VotesUpTo(answer, j, n))
           new == Credited(stakes, answer[k])
           node == answer[k].node
           stake == answer[k].stake
<1>1. after = before \cup {node}
  <2>1. 1..k = 1..(k - 1) \cup {k}
    BY LenProperties DEF IsAnswer
  <2>2. QED
    BY <2>1 DEF VotersUpTo
<1>2. stakes \in [before -> Nat] /\ \A n \in before : stakes[n] = sum(k - 1, n)
  BY DEF IsGroupedUpTo
<1>3. stake \in Nat
  <2>1. k \in DOMAIN answer
    BY LenProperties DEF IsAnswer
  <2>2. QED
    BY <2>1 DEF IsAnswer
<1>4. \A n : /\ sum(k, n) = sum(k - 1, n) + (IF n = node THEN stake ELSE 0)
             /\ sum(k - 1, n) \in Nat
             /\ n \notin before => sum(k - 1, n) = 0
  BY VotesNext
<1>5. /\ DOMAIN new = after
      /\ \A n \in after :
           new[n] = (IF n \in before THEN stakes[n] ELSE 0) + (IF n = node THEN stake ELSE 0)
  BY <1>1, <1>2 DEF Credited
<1>6. new = [n \in after |-> new[n]]
  BY <1>1, <1>2 DEF Credited
<1> HIDE DEF before, after, sum, new, node, stake
<1>7. \A n \in after : new[n] = sum(k, n) /\ new[n] \in Nat
  BY <1>2, <1>3, <1>4, <1>5
<1>8. new \in [after -> Nat]
  BY <1>6, <1>7
<1>9. QED
  BY <1>7, <1>8 DEF IsGroupedUpTo, new, after, sum

\* A node's stake is what its vote accounts hold together.
LEMMA GroupedFacts ==
  ASSUME NEW answer, IsAnswer(answer)
  PROVE  IsGroupedUpTo(Grouped(answer), answer, Len(answer))
<1> DEFINE N == Len(answer)
           nodes == VotersUpTo(answer, N)
           S == UNION {[D -> Nat] : D \in SUBSET nodes}
           Step(k, s) == Credited(s, answer[k])
           F == [k \in 1..N |-> [s \in S |-> Step(k, s)]]
<1>1. N \in Nat /\ \A k \in 1..N : answer[k].node \in nodes /\ answer[k].stake \in Nat
  BY LenProperties DEF IsAnswer, VotersUpTo
<1>2. F \in StepsOn(N, S) /\ <<>> \in S
  <2>1. \A k \in 1..N : \A s \in S : Step(k, s) \in S
    <3> TAKE k \in 1..N
    <3> TAKE s \in S
    <3>1. PICK D \in SUBSET nodes : s \in [D -> Nat]
      OBVIOUS
    <3>2. answer[k].node \in nodes /\ answer[k].stake \in Nat
      BY <1>1
    <3> HIDE DEF nodes
    <3>3. Step(k, s) \in [D \cup {answer[k].node} -> Nat]
      BY <3>1, <3>2 DEF Credited
    <3>4. D \cup {answer[k].node} \in SUBSET nodes
      BY <3>2
    <3>5. QED
      BY <3>3, <3>4
  <2>2. <<>> \in S
    <3>1. <<>> \in [{} -> Nat]
      OBVIOUS
    <3>2. {} \in SUBSET nodes
      OBVIOUS
    <3> HIDE DEF nodes
    <3>3. QED
      BY <3>1, <3>2
  <2> HIDE DEF S, Step
  <2>3. QED
    BY <2>1, <2>2 DEF StepsOn
<1>3. PICK f : IsRun(f, N, S, <<>>, F)
  <2> HIDE DEF N, F, S
  <2> QED
    BY <1>1, <1>2, NatRecursion
<1>4. f \in [0..N -> S] /\ f[0] = <<>> /\ \A k \in 1..N : f[k] = F[k][f[k - 1]]
  BY <1>3 DEF IsRun
<1> HIDE DEF S
<1>5. \A k \in 1..N : f[k] = Step(k, f[k - 1])
  <2> SUFFICES ASSUME NEW k \in 1..N PROVE f[k] = Step(k, f[k - 1])
    OBVIOUS
  <2>1. k - 1 \in 0..N
    BY <1>1
  <2>2. f[k - 1] \in S
    BY <1>4, <2>1
  <2>3. F[k][f[k - 1]] = Step(k, f[k - 1])
    BY <2>2
  <2>4. QED
    BY <1>4, <2>3
<1>6. f = [k \in 0..N |-> IF k = 0 THEN <<>> ELSE Step(k, f[k - 1])]
  <2> DEFINE g == [k \in 0..N |-> IF k = 0 THEN <<>> ELSE Step(k, f[k - 1])]
  <2>1. \A k \in 0..N : k # 0 => k \in 1..N
    BY <1>1
  <2>2. \A k \in 0..N : f[k] = g[k]
    <3> HIDE DEF Step, N
    <3> QED
      BY <1>4, <1>5, <2>1
  <2>3. QED
    BY <1>4, <2>2
<1> DEFINE r == CHOOSE r : r = [k \in 0..N |-> IF k = 0 THEN <<>> ELSE Step(k, r[k - 1])]
<1>7. r = [k \in 0..N |-> IF k = 0 THEN <<>> ELSE Step(k, r[k - 1])]
  BY <1>6
<1>8. Grouped(answer) = r[N]
  BY DEF Grouped
<1> HIDE DEF Step, F, r, nodes
<1>9. r[0] = <<>> /\ \A k \in 1..N : r[k] = Step(k, r[k - 1])
  <2>1. 0 \in 0..N /\ \A k \in 1..N : k \in 0..N /\ k # 0
    BY <1>1
  <2> HIDE DEF N
  <2>2. QED
    BY <1>7, <2>1
<1> DEFINE Bad == {k \in 0..N : ~IsGroupedUpTo(r[k], answer, k)}
<1>10. Bad = {}
  <2> SUFFICES ASSUME Bad # {} PROVE FALSE
    OBVIOUS
  <2>1. PICK k \in Bad : \A j \in Bad : k <= j
    <3>1. Bad \in SUBSET Nat
      BY <1>1
    <3> HIDE DEF Bad
    <3>2. QED
      BY <3>1, LeastNatural
  <2>2. CASE k = 0
    <3>1. VotersUpTo(answer, 0) = {}
      BY DEF VotersUpTo
    <3>2. r[0] \in [{} -> Nat]
      BY <1>9
    <3>3. IsGroupedUpTo(r[0], answer, 0)
      BY <3>1, <3>2 DEF IsGroupedUpTo
    <3>4. QED
      BY <2>1, <2>2, <3>3
  <2>3. CASE k # 0
    <3>1. k \in 1..N /\ k - 1 \in 0..N /\ ~(k <= k - 1)
      BY <1>1, <2>1, <2>3
    <3>2. IsGroupedUpTo(r[k - 1], answer, k - 1)
      BY <2>1, <3>1
    <3>3. IsGroupedUpTo(r[k], answer, k)
      BY <1>9, <3>1, <3>2, CreditedNext DEF Step
    <3>4. QED
      BY <2>1, <3>3
  <2>4. QED
    BY <2>2, <2>3
<1>11. N \in 0..N
  BY <1>1
<1>12. QED
  BY <1>8, <1>10, <1>11

\* A cluster has the accounts, or those with a stake.
IsClusterOf(cluster, accounts, D, filterZero) ==
  LET kept == {n \in D : filterZero => accounts[n] # 0}
  IN  /\ DOMAIN cluster = kept /\ IsFiniteSet(kept)
      /\ cluster \in [kept -> Nat]
      /\ \A n \in kept : cluster[n] = accounts[n]

\* make_gossip_cluster keeps the accounts, or those with a stake.
LEMMA ClusterFacts ==
  ASSUME NEW D, IsFiniteSet(D), NEW accounts \in [D -> Nat], NEW filterZero
  PROVE  IsClusterOf(Cluster(accounts, filterZero), accounts, D, filterZero)
<1> DEFINE kept == {n \in D : filterZero => accounts[n] # 0}
<1>1. kept \subseteq D /\ IsFiniteSet(kept)
  BY FS_Subset
<1>2. Cluster(accounts, filterZero) = [n \in kept |-> accounts[n]]
  BY DEF Cluster, Restrict
<1>3. QED
  BY <1>1, <1>2 DEF IsClusterOf

\* What the program makes of an answer: the stake of a node is what its vote
\* accounts hold.
NodesOf(answer) == {answer[i].node : i \in DOMAIN answer}
IsFromAnswer(cluster, answer, filterZero) ==
  LET kept == {n \in NodesOf(answer) : filterZero => StakeIn(answer, n) # 0}
  IN  /\ DOMAIN cluster = kept /\ IsFiniteSet(kept)
      /\ cluster \in [kept -> Nat]
      /\ \A n \in kept : cluster[n] = StakeIn(answer, n)

\* make_gossip_cluster_from_rpc gives each node the stake of its vote accounts.
LEMMA FromRpcFacts ==
  ASSUME NEW answer, IsAnswer(answer), NEW filterZero
  PROVE  IsFromAnswer(ClusterFromRpc(answer, filterZero), answer, filterZero)
<1> DEFINE N == Len(answer)
           nodes == NodesOf(answer)
           stakes == Grouped(answer)
           once == Cluster(stakes, filterZero)
           twice == Cluster(once, filterZero)
           kept == {n \in nodes : filterZero => stakes[n] # 0}
           left == {n \in kept : filterZero => once[n] # 0}
<1>1. N \in Nat /\ DOMAIN answer = 1..N
  BY LenProperties DEF IsAnswer
<1>2. VotersUpTo(answer, N) = nodes
  BY <1>1 DEF VotersUpTo, NodesOf
<1>3. \A n : SumFunctionOnSet(StakesOf(answer), VotesUpTo(answer, N, n)) = StakeIn(answer, n)
  BY <1>1 DEF StakesOf, VotesUpTo, StakeIn
<1>4. IsGroupedUpTo(stakes, answer, N)
  BY GroupedFacts
<1>5. stakes \in [nodes -> Nat] /\ \A n \in nodes : stakes[n] = StakeIn(answer, n)
  BY <1>2, <1>3, <1>4 DEF IsGroupedUpTo
<1>6. IsFiniteSet(nodes)
  <2> DEFINE D == DOMAIN answer
             r == [i \in D |-> answer[i].node]
  <2>1. 1 \in Int /\ N \in Int
    BY <1>1
  <2>2. IsFiniteSet(D)
    BY <1>1, <2>1, FS_Interval
  <2>3. IsFiniteSet({r[i] : i \in D})
    <3> HIDE DEF r, D
    <3> QED
      BY <2>2, FiniteImage
  <2>4. {r[i] : i \in D} = nodes
    BY DEF NodesOf
  <2>5. QED
    BY <2>3, <2>4
<1> HIDE DEF nodes, stakes
<1>7. /\ DOMAIN once = kept /\ IsFiniteSet(kept) /\ once \in [kept -> Nat]
      /\ \A n \in kept : once[n] = stakes[n]
  <2>1. IsClusterOf(once, stakes, nodes, filterZero)
    BY <1>5, <1>6, ClusterFacts
  <2>2. QED
    BY <2>1 DEF IsClusterOf
<1> HIDE DEF once
<1>8. left = kept
  BY <1>7
<1> HIDE DEF kept
<1>9. /\ DOMAIN twice = left /\ twice \in [left -> Nat]
      /\ \A n \in left : twice[n] = once[n]
  <2>1. IsClusterOf(twice, once, kept, filterZero)
    BY <1>7, ClusterFacts
  <2>2. QED
    BY <2>1 DEF IsClusterOf
<1> HIDE DEF left, twice
<1>10. /\ DOMAIN twice = kept /\ twice \in [kept -> Nat]
       /\ \A n \in kept : twice[n] = stakes[n]
  BY <1>7, <1>8, <1>9
<1>11. kept = {n \in nodes : filterZero => StakeIn(answer, n) # 0}
  BY <1>5 DEF kept
<1>12. \A n \in kept : stakes[n] = StakeIn(answer, n)
  BY <1>5 DEF kept
<1>13. ClusterFromRpc(answer, filterZero) = twice
  BY DEF ClusterFromRpc, twice, once, stakes
<1>14. QED
  BY <1>7, <1>10, <1>11, <1>12, <1>13 DEF IsFromAnswer, nodes

\* A file has as many accounts as were asked for, if there are so many.
IsFileOf(file0, cluster, zeroStakes, count) ==
  LET eligible == {n \in DOMAIN cluster : zeroStakes => cluster[n] = 0}
      kept == DOMAIN file0
  IN  /\ kept \subseteq eligible /\ IsFiniteSet(kept)
      /\ file0 \in [kept -> Nat] /\ \A n \in kept : file0[n] = cluster[n]
      /\ IF count = 0 \/ Cardinality(eligible) < count THEN kept = eligible
         ELSE Cardinality(kept) = count

\* write-accounts writes nodes of the cluster, as many as it was asked for.
LEMMA FileFacts ==
  ASSUME NEW D, IsFiniteSet(D), NEW cluster \in [D -> Nat], NEW zeroStakes, NEW count \in Nat,
         NEW file0 \in Files(cluster, zeroStakes, count)
  PROVE  IsFileOf(file0, cluster, zeroStakes, count)
<1> DEFINE eligible == {n \in DOMAIN cluster : zeroStakes => cluster[n] = 0}
           size == Cardinality(eligible)
           limit == IF count = 0 THEN size ELSE Min({count, size})
<1>1. eligible \subseteq D /\ IsFiniteSet(eligible)
  BY FS_Subset
<1>2. size \in Nat
  BY <1>1, FS_CardinalityType
<1>3. PICK kept \in kSubset(limit, eligible) : file0 = Restrict(cluster, kept)
  BY DEF Files
<1>4. kept \subseteq eligible /\ Cardinality(kept) = limit
  BY <1>3 DEF kSubset
<1>5. file0 = [n \in kept |-> cluster[n]]
  BY <1>3 DEF Restrict
<1>6. /\ DOMAIN file0 = kept /\ file0 \in [kept -> Nat]
      /\ \A n \in kept : file0[n] = cluster[n]
  BY <1>1, <1>4, <1>5
<1>7. IsFiniteSet(kept) /\ (Cardinality(kept) = size => kept = eligible)
  <2> HIDE DEF eligible
  <2> QED
    BY <1>1, <1>4, FS_Subset
<1> HIDE DEF eligible, size
<1>8. limit = IF count = 0 \/ size < count THEN size ELSE count
  <2> DEFINE both == {count, size}
  <2>1. both # {} /\ \A x \in both : x \in Nat
    BY <1>2
  <2>2. Min(both) \in both /\ \A x \in both : Min(both) <= x
    <3> HIDE DEF both
    <3> QED
      BY <2>1, MinFacts
  <2>3. QED
    BY <1>2, <2>2
<1>9. IF count = 0 \/ size < count THEN kept = eligible ELSE Cardinality(kept) = count
  BY <1>4, <1>7, <1>8
<1>10. QED
  BY <1>4, <1>6, <1>7, <1>9 DEF IsFileOf, eligible, size

\* The answers of the RPC server.
LEMMA SnapshotFacts ==
  ASSUME NEW answer \in Snapshots
  PROVE  /\ IsAnswer(answer)
         /\ \A nodes \in SUBSET NodesOf(answer) : None \notin [nodes -> Nat]
         /\ None \notin NodesOf(answer)
BY SweepAssumption DEF IsAnswer, NodesOf

-----------------------------------------------------------------------------
(* The origin.                                                             *)

\* How many of the first k of some values are v or more.
AtLeastIn(s, k, v) == {i \in 1..k : s[i] >= v}
CountIn(s, k, v) == Cardinality(AtLeastIn(s, k, v))
One(p) == IF p THEN 1 ELSE 0

\* It is a number up to k.
LEMMA CountType ==
  ASSUME NEW s, NEW k \in Nat, NEW v
  PROVE  /\ IsFiniteSet(AtLeastIn(s, k, v)) /\ CountIn(s, k, v) \in Nat /\ CountIn(s, k, v) <= k
         /\ (\A i \in 1..k : s[i] >= v) => CountIn(s, k, v) = k
         /\ (\E i \in 1..k : ~(s[i] >= v)) => CountIn(s, k, v) < k
<1> DEFINE A == AtLeastIn(s, k, v)
           D == 1..k
<1>1. IsFiniteSet(D) /\ Cardinality(D) = k
  BY FS_Interval
<1>2. A \subseteq D
  BY DEF AtLeastIn
<1>3. (\A i \in 1..k : s[i] >= v) => A = D
  BY DEF AtLeastIn
<1>4. \A i \in 1..k : ~(s[i] >= v) => i \in D /\ i \notin A
  BY DEF AtLeastIn
<1>5. CountIn(s, k, v) = Cardinality(A)
  BY DEF CountIn
<1> HIDE DEF A, D
<1>6. IsFiniteSet(A) /\ Cardinality(A) <= k
  BY <1>1, <1>2, FS_Subset
<1>7. Cardinality(A) \in Nat
  BY <1>6, FS_CardinalityType
<1>8. ASSUME NEW i \in 1..k, ~(s[i] >= v)
      PROVE  Cardinality(A) < k
  <2>1. i \in D /\ i \notin A /\ A \in SUBSET D
    BY <1>2, <1>4, <1>8
  <2>2. QED
    BY <1>1, <2>1, ProperPart
<1>9. QED
  BY <1>1, <1>3, <1>5, <1>6, <1>7, <1>8 DEF A

\* One of the values is another now.
LEMMA CountReplaced ==
  ASSUME NEW s, NEW t, NEW k \in Nat, NEW m \in 1..k, NEW v,
         \A i \in 1..k : i # m => t[i] = s[i]
  PROVE  /\ CountIn(s, k, v) \in Nat /\ CountIn(t, k, v) \in Nat
         /\ CountIn(t, k, v) + One(s[m] >= v) = CountIn(s, k, v) + One(t[m] >= v)
<1> DEFINE A == AtLeastIn(s, k, v)
           B == AtLeastIn(t, k, v)
           C == A \ {m}
<1>1. IsFiniteSet(A) /\ IsFiniteSet(B) /\ Cardinality(A) \in Nat /\ Cardinality(B) \in Nat
  BY CountType DEF CountIn
<1>2. /\ s[m] >= v => m \in A
      /\ t[m] >= v => m \in B
      /\ ~(s[m] >= v) => A = C
      /\ ~(t[m] >= v) => B = C
      /\ B \ {m} = C
  BY DEF AtLeastIn
<1>3. CountIn(s, k, v) = Cardinality(A) /\ CountIn(t, k, v) = Cardinality(B)
  BY DEF CountIn
<1> HIDE DEF A, B, C
<1>4. s[m] >= v => Cardinality(C) = Cardinality(A) - 1
  BY <1>1, <1>2, FS_RemoveElement DEF C
<1>5. t[m] >= v => Cardinality(C) = Cardinality(B) - 1
  BY <1>1, <1>2, FS_RemoveElement
<1>6. Cardinality(A) = Cardinality(C) + One(s[m] >= v)
  <2>1. CASE s[m] >= v
    BY <1>1, <1>4, <2>1 DEF One
  <2>2. CASE ~(s[m] >= v)
    BY <1>1, <1>2, <2>2 DEF One
  <2>3. QED
    BY <2>1, <2>2
<1>7. Cardinality(B) = Cardinality(C) + One(t[m] >= v)
  <2>1. CASE t[m] >= v
    BY <1>1, <1>5, <2>1 DEF One
  <2>2. CASE ~(t[m] >= v)
    BY <1>1, <1>2, <2>2 DEF One
  <2>3. QED
    BY <2>1, <2>2
<1>8. Cardinality(C) \in Nat
  <2>1. IsFiniteSet(C)
    BY <1>1, FS_Subset DEF C
  <2>2. QED
    BY <2>1, FS_CardinalityType
<1>9. One(s[m] >= v) \in Nat /\ One(t[m] >= v) \in Nat
  BY DEF One
<1>10. QED
  BY <1>1, <1>3, <1>6, <1>7, <1>8, <1>9

\* Two sequences that are the same before k.
SameBefore(s, t, k) == \A i \in 1..(k - 1) : t[i] = s[i]

\* There is one value more.
LEMMA CountNext ==
  ASSUME NEW s, NEW t, NEW k \in Nat, k > 0, NEW v, SameBefore(s, t, k)
  PROVE  /\ CountIn(s, k - 1, v) \in Nat /\ CountIn(t, k, v) \in Nat
         /\ CountIn(t, k, v) = CountIn(s, k - 1, v) + One(t[k] >= v)
<1> DEFINE A == AtLeastIn(s, k - 1, v)
           B == AtLeastIn(t, k, v)
<1>0. k - 1 \in Nat
  OBVIOUS
<1>1. IsFiniteSet(A) /\ IsFiniteSet(B) /\ Cardinality(A) \in Nat /\ Cardinality(B) \in Nat
  BY <1>0, CountType DEF CountIn
<1>2. \A i \in 1..k : i \in 1..(k - 1) \/ i = k
  OBVIOUS
<1>3. k \in 1..k /\ k \notin 1..(k - 1) /\ \A i \in 1..(k - 1) : i \in 1..k
  OBVIOUS
<1>4. k \notin A /\ (t[k] >= v => B = A \cup {k}) /\ (~(t[k] >= v) => B = A)
  BY <1>2, <1>3 DEF AtLeastIn, SameBefore
<1>5. CountIn(s, k - 1, v) = Cardinality(A) /\ CountIn(t, k, v) = Cardinality(B)
  BY DEF CountIn
<1> HIDE DEF A, B
<1>6. Cardinality(A \cup {k}) = Cardinality(A) + 1
  BY <1>1, <1>4, FS_AddElement
<1>7. CASE t[k] >= v
  BY <1>1, <1>4, <1>5, <1>6, <1>7 DEF One
<1>8. CASE ~(t[k] >= v)
  BY <1>1, <1>4, <1>5, <1>8 DEF One
<1>9. QED
  BY <1>7, <1>8

\* What a heap that is not empty has on top.
LEMMA LeastFacts ==
  ASSUME NEW heap \in Seq(Nat), Len(heap) # 0
  PROVE  /\ LeastAt(heap) \in 1..Len(heap)
         /\ \A j \in 1..Len(heap) : heap[LeastAt(heap)] <= heap[j]
<1>1. Len(heap) \in Nat /\ DOMAIN heap = 1..Len(heap) /\ \A i \in 1..Len(heap) : heap[i] \in Nat
  BY SeqFacts
<1> DEFINE values == {heap[i] : i \in 1..Len(heap)}
<1>2. values \in SUBSET Nat /\ values # {}
  <2>1. 1 \in 1..Len(heap)
    BY <1>1
  <2>2. QED
    BY <1>1, <2>1
<1>3. PICK x \in values : \A y \in values : x <= y
  <2> HIDE DEF values
  <2> QED
    BY <1>2, LeastNatural
<1>4. \E i \in DOMAIN heap : \A j \in DOMAIN heap : heap[i] <= heap[j]
  BY <1>1, <1>3
<1>5. QED
  BY <1>1, <1>4 DEF LeastAt

\* The heap after k of the values: of those that are v or more, whatever v, it
\* has all, or n.
IsHeapOf(heap, values, k, n) ==
  /\ heap \in Seq(Nat)
  /\ Len(heap) = IF k < n THEN k ELSE n
  /\ \A v \in Nat :
       CountIn(heap, Len(heap), v) = IF CountIn(values, k, v) < n THEN CountIn(values, k, v) ELSE n

\* The heap grows by a value.
LEMMA HeapGrows ==
  ASSUME NEW values, NEW k \in Nat, k > 0, NEW n \in Nat, NEW heap, IsHeapOf(heap, values, k - 1, n),
         values[k] \in Nat, Len(heap) < n
  PROVE  IsHeapOf(Append(heap, values[k]), values, k, n)
<1> DEFINE x == values[k]
           new == Append(heap, x)
           L == Len(heap)
           old(v) == CountIn(values, k - 1, v)
           count(v) == CountIn(values, k, v)
<1>1. heap \in Seq(Nat) /\ L \in Nat /\ L = k - 1 /\ k <= n
  BY LenProperties DEF IsHeapOf
<1>2. /\ new \in Seq(Nat) /\ Len(new) = k /\ new[k] = x
      /\ \A i \in 1..(k - 1) : new[i] = heap[i]
  <2>1. /\ new \in Seq(Nat) /\ Len(new) = L + 1 /\ new[L + 1] = x
        /\ \A i \in 1..L : new[i] = heap[i]
    BY <1>1, AppendProperties
  <2>2. L + 1 = k
    BY <1>1
  <2>3. QED
    BY <1>1, <2>1, <2>2
<1>3. ASSUME NEW v \in Nat
      PROVE  CountIn(new, k, v) = IF count(v) < n THEN count(v) ELSE n
  <2>1. CountIn(heap, k - 1, v) = IF old(v) < n THEN old(v) ELSE n
    BY <1>1 DEF IsHeapOf
  <2>2. old(v) \in Nat /\ old(v) <= k - 1
    BY CountType
  <2>3. CountIn(new, k, v) = CountIn(heap, k - 1, v) + One(x >= v)
    <3> HIDE DEF new
    <3>1. SameBefore(heap, new, k)
      BY <1>2 DEF SameBefore
    <3>2. CountIn(new, k, v) = CountIn(heap, k - 1, v) + One(new[k] >= v)
      BY <3>1, CountNext
    <3>3. QED
      BY <1>2, <3>2
  <2>4. count(v) = old(v) + One(x >= v)
    BY CountNext DEF SameBefore
  <2>5. One(x >= v) \in {0, 1}
    BY DEF One
  <2> HIDE DEF new, count, old, x
  <2>6. QED
    BY <1>1, <2>1, <2>2, <2>3, <2>4, <2>5
<1> HIDE DEF new
<1>4. IsHeapOf(new, values, k, n)
  BY <1>1, <1>2, <1>3 DEF IsHeapOf
<1>5. QED
  BY <1>4 DEF new

\* A heap of n values takes one that is not below its least in place of that.
LEMMA HeapTurns ==
  ASSUME NEW values, NEW k \in Nat, k > 0, NEW n \in Nat, n > 0,
         NEW heap, IsHeapOf(heap, values, k - 1, n),
         values[k] \in Nat, ~(Len(heap) < n)
  PROVE  IsHeapOf(IF values[k] >= heap[LeastAt(heap)]
                  THEN [heap EXCEPT ![LeastAt(heap)] = values[k]] ELSE heap,
                  values, k, n)
<1> DEFINE x == values[k]
           m == LeastAt(heap)
           low == heap[m]
           new == IF x >= low THEN [heap EXCEPT ![m] = x] ELSE heap
           old(v) == CountIn(values, k - 1, v)
           count(v) == CountIn(values, k, v)
<1>1. /\ heap \in Seq(Nat) /\ Len(heap) = n /\ ~(k - 1 < n) /\ ~(k < n)
      /\ DOMAIN heap = 1..n /\ \A i \in 1..n : heap[i] \in Nat
  <2>1. heap \in Seq(Nat)
    BY DEF IsHeapOf
  <2>2. Len(heap) \in Nat /\ DOMAIN heap = 1..Len(heap) /\ \A i \in 1..Len(heap) : heap[i] \in Nat
    BY <2>1, SeqFacts
  <2>3. Len(heap) = n /\ ~(k - 1 < n) /\ ~(k < n)
    BY <2>2 DEF IsHeapOf
  <2>4. QED
    BY <2>1, <2>2, <2>3
<1>2. m \in 1..n /\ low \in Nat /\ \A i \in 1..n : low <= heap[i]
  BY <1>1, LeastFacts
<1>3. x \in Nat
  OBVIOUS
<1> HIDE DEF m
<1>4. /\ new \in Seq(Nat) /\ Len(new) = n
      /\ \A i \in 1..n : i # m => new[i] = heap[i]
      /\ new[m] = IF x >= low THEN x ELSE low
  <2>1. CASE x >= low
    <3>1. [heap EXCEPT ![m] = x] \in Seq(Nat) /\ Len([heap EXCEPT ![m] = x]) = Len(heap)
      <4>1. m \in 1..Len(heap)
        BY <1>1, <1>2
      <4> HIDE DEF x
      <4>2. QED
        BY <1>1, <1>3, <4>1, ExceptSeq
    <3>2. QED
      BY <1>1, <1>2, <2>1, <3>1
  <2>2. CASE ~(x >= low)
    BY <1>1, <2>2
  <2>3. QED
    BY <2>1, <2>2
<1>5. ASSUME NEW v \in Nat
      PROVE  CountIn(new, n, v) = IF count(v) < n THEN count(v) ELSE n
  <2>1. CountIn(heap, n, v) = IF old(v) < n THEN old(v) ELSE n
    BY <1>1 DEF IsHeapOf
  <2>2. old(v) \in Nat
    <3>1. k - 1 \in Nat
      OBVIOUS
    <3>2. QED
      BY <3>1, CountType
  <2>3. CountIn(new, n, v) + One(low >= v) = CountIn(heap, n, v) + One(new[m] >= v)
        /\ CountIn(new, n, v) \in Nat
    <3> HIDE DEF new
    <3>1. \A i \in 1..n : i # m => new[i] = heap[i]
      BY <1>4
    <3>2. m \in 1..n
      BY <1>2
    <3>3. CountIn(new, n, v) + One(heap[m] >= v) = CountIn(heap, n, v) + One(new[m] >= v)
          /\ CountIn(new, n, v) \in Nat
      BY <3>1, <3>2, CountReplaced
    <3>4. QED
      BY <3>3
  <2>4. count(v) = old(v) + One(x >= v)
    BY CountNext DEF SameBefore
  <2>5. low >= v => CountIn(heap, n, v) = n
    <3>1. low >= v => \A i \in 1..n : heap[i] >= v
      BY <1>1, <1>2
    <3>2. QED
      BY <3>1, CountType
  <2>6. ~(low >= v) => CountIn(heap, n, v) < n
    <3>1. ~(low >= v) => \E i \in 1..n : ~(heap[i] >= v)
      BY <1>2
    <3>2. QED
      BY <3>1, CountType
  <2>7. new[m] = IF x >= low THEN x ELSE low
    BY <1>4
  <2> HIDE DEF new, count, old, x, low
  <2>8. CASE low >= v
    <3>1. new[m] >= v
      BY <1>2, <1>3, <2>7, <2>8
    <3>2. CountIn(new, n, v) = n
      BY <2>3, <2>5, <2>8, <3>1 DEF One
    <3>3. count(v) >= n
      BY <2>1, <2>2, <2>4, <2>5, <2>8 DEF One
    <3>4. count(v) \in Nat
      BY <2>2, <2>4 DEF One
    <3>5. QED
      BY <3>2, <3>3, <3>4
  <2>9. CASE ~(low >= v)
    <3>1. new[m] >= v <=> x >= v
      BY <1>2, <1>3, <2>7, <2>9
    <3>2. CountIn(heap, n, v) = old(v) /\ old(v) < n
      BY <2>1, <2>2, <2>6, <2>9
    <3>3. CountIn(new, n, v) = count(v)
      BY <2>2, <2>3, <2>4, <2>9, <3>1, <3>2 DEF One
    <3>4. count(v) <= n
      BY <2>2, <2>4, <3>2 DEF One
    <3>5. count(v) \in Nat
      BY <2>2, <2>4 DEF One
    <3>6. QED
      BY <3>3, <3>4, <3>5
  <2>10. QED
    BY <2>8, <2>9
<1> HIDE DEF new
<1>6. IsHeapOf(new, values, k, n)
  BY <1>1, <1>4, <1>5 DEF IsHeapOf
<1>7. QED
  BY <1>6 DEF new, m

\* One node more is offered to the heap.
LEMMA OfferNext ==
  ASSUME NEW values, NEW k \in Nat, k > 0, NEW n \in Nat, n > 0,
         NEW heap, IsHeapOf(heap, values, k - 1, n), values[k] \in Nat
  PROVE  IsHeapOf(Offer(heap, n, values[k]), values, k, n)
<1> DEFINE x == values[k]
           turned == IF x >= heap[LeastAt(heap)] THEN [heap EXCEPT ![LeastAt(heap)] = x] ELSE heap
<1>1. Offer(heap, n, x) = IF Len(heap) < n THEN Append(heap, x) ELSE turned
  BY DEF Offer
<1>2. Len(heap) < n => IsHeapOf(Append(heap, x), values, k, n)
  BY HeapGrows
<1>3. ~(Len(heap) < n) => IsHeapOf(turned, values, k, n)
  BY HeapTurns
<1> HIDE DEF x, turned
<1>4. IsHeapOf(Offer(heap, n, x), values, k, n)
  BY <1>1, <1>2, <1>3
<1>5. QED
  BY <1>4 DEF x

\* The heap of all nodes.
LEMMA HeapFacts ==
  ASSUME NEW D, NEW nodes \in Seq(D), NEW stakes \in [D -> Nat], NEW n \in Nat, n > 0
  PROVE  IsHeapOf(HeapOf(n, nodes, stakes), [i \in 1..Len(nodes) |-> stakes[nodes[i]]],
                  Len(nodes), n)
<1> DEFINE N == Len(nodes)
           values == [i \in 1..N |-> stakes[nodes[i]]]
           S == Seq(Nat)
           Step(k, s) == Offer(s, n, stakes[nodes[k]])
           F == [k \in 1..N |-> [s \in S |-> Step(k, s)]]
<1>1. N \in Nat /\ \A k \in 1..N : stakes[nodes[k]] \in Nat
  BY SeqFacts
<1>2. F \in StepsOn(N, S) /\ <<>> \in S
  <2>1. \A k \in 1..N : \A s \in S : Step(k, s) \in S
    <3> TAKE k \in 1..N
    <3> TAKE s \in S
    <3> DEFINE x == stakes[nodes[k]]
    <3>1. x \in Nat /\ Len(s) \in Nat
      BY <1>1, SeqFacts
    <3> HIDE DEF x
    <3>2. Append(s, x) \in S
      BY <3>1, AppendProperties
    <3>3. CASE Len(s) < n
      BY <3>2, <3>3 DEF Offer, x
    <3>4. CASE ~(Len(s) < n)
      <4> DEFINE m == LeastAt(s)
      <4>1. m \in 1..Len(s)
        BY <3>1, <3>4, LeastFacts
      <4> HIDE DEF m
      <4>2. [s EXCEPT ![m] = x] \in S
        BY <3>1, <4>1, ExceptSeq
      <4>3. QED
        BY <3>4, <4>2 DEF Offer, m, x
    <3>5. QED
      BY <3>3, <3>4
  <2>2. <<>> \in S
    BY EmptySeq
  <2> HIDE DEF S, Step
  <2>3. QED
    BY <2>1, <2>2 DEF StepsOn
<1>3. PICK f : IsRun(f, N, S, <<>>, F)
  <2> HIDE DEF N, F, S
  <2> QED
    BY <1>1, <1>2, NatRecursion
<1>4. f \in [0..N -> S] /\ f[0] = <<>> /\ \A k \in 1..N : f[k] = F[k][f[k - 1]]
  BY <1>3 DEF IsRun
<1> HIDE DEF S
<1>5. \A k \in 1..N : f[k] = Step(k, f[k - 1])
  <2> SUFFICES ASSUME NEW k \in 1..N PROVE f[k] = Step(k, f[k - 1])
    OBVIOUS
  <2>1. k - 1 \in 0..N
    BY <1>1
  <2>2. f[k - 1] \in S
    BY <1>4, <2>1
  <2>3. F[k][f[k - 1]] = Step(k, f[k - 1])
    BY <2>2
  <2>4. QED
    BY <1>4, <2>3
<1>6. f = [k \in 0..N |-> IF k = 0 THEN <<>> ELSE Step(k, f[k - 1])]
  <2> DEFINE g == [k \in 0..N |-> IF k = 0 THEN <<>> ELSE Step(k, f[k - 1])]
  <2>1. \A k \in 0..N : k # 0 => k \in 1..N
    BY <1>1
  <2>2. \A k \in 0..N : f[k] = g[k]
    <3> HIDE DEF Step, N
    <3> QED
      BY <1>4, <1>5, <2>1
  <2>3. QED
    BY <1>4, <2>2
<1> DEFINE r == CHOOSE r : r = [k \in 0..N |-> IF k = 0 THEN <<>> ELSE Step(k, r[k - 1])]
<1>7. r = [k \in 0..N |-> IF k = 0 THEN <<>> ELSE Step(k, r[k - 1])]
  BY <1>6
<1>8. HeapOf(n, nodes, stakes) = r[N]
  BY DEF HeapOf
<1>9. \A k \in 1..N : values[k] = stakes[nodes[k]] /\ values[k] \in Nat
  BY <1>1
<1> HIDE DEF F, r, values
<1>10. r[0] = <<>> /\ \A k \in 1..N : r[k] = Step(k, r[k - 1])
  <2>1. 0 \in 0..N /\ \A k \in 1..N : k \in 0..N /\ k # 0
    BY <1>1
  <2> HIDE DEF N, Step
  <2>2. QED
    BY <1>7, <2>1
<1> DEFINE Bad == {k \in 0..N : ~IsHeapOf(r[k], values, k, n)}
<1>11. Bad = {}
  <2> SUFFICES ASSUME Bad # {} PROVE FALSE
    OBVIOUS
  <2>1. PICK k \in Bad : \A j \in Bad : k <= j
    <3>1. Bad \in SUBSET Nat
      BY <1>1
    <3> HIDE DEF Bad
    <3>2. QED
      BY <3>1, LeastNatural
  <2>2. CASE k = 0
    <3>1. <<>> \in Seq(Nat) /\ Len(<<>>) = 0
      BY EmptySeq
    <3>2. \A s : AtLeastIn(s, 0, 0) = {} /\ \A v : AtLeastIn(s, 0, v) = {}
      BY DEF AtLeastIn
    <3>3. \A s, v : CountIn(s, 0, v) = 0
      BY <3>2, FS_EmptySet DEF CountIn
    <3>4. IsHeapOf(<<>>, values, 0, n)
      BY <3>1, <3>3 DEF IsHeapOf
    <3>5. QED
      BY <1>10, <2>1, <2>2, <3>4
  <2>3. CASE k # 0
    <3>1. k \in 1..N /\ k \in Nat /\ k > 0 /\ k - 1 \in 0..N /\ ~(k <= k - 1)
      BY <1>1, <2>1, <2>3
    <3>2. IsHeapOf(r[k - 1], values, k - 1, n)
      BY <2>1, <3>1
    <3>3. values[k] \in Nat /\ values[k] = stakes[nodes[k]]
      BY <1>9, <3>1
    <3> DEFINE before == r[k - 1]
    <3>4. r[k] = Offer(before, n, values[k])
      BY <1>10, <3>1, <3>3
    <3> HIDE DEF before
    <3>5. IsHeapOf(Offer(before, n, values[k]), values, k, n)
      BY <3>1, <3>2, <3>3, OfferNext DEF before
    <3>6. QED
      BY <2>1, <3>4, <3>5
  <2>4. QED
    BY <2>2, <2>3
<1>12. N \in 0..N
  BY <1>1
<1>13. QED
  BY <1>8, <1>11, <1>12 DEF values

\* The origin has the rank asked for.
HasRank(origin, rank, stakes) ==
  LET AtLeast(s) == Cardinality({n \in DOMAIN stakes : stakes[n] >= s})
  IN  /\ origin \in DOMAIN stakes
      /\ AtLeast(stakes[origin] + 1) < rank /\ rank <= AtLeast(stakes[origin])

\* find_nth_largest_node answers a node of the rank, whatever the order of the nodes.
LEMMA OriginFacts ==
  ASSUME NEW D, IsFiniteSet(D), NEW stakes \in [D -> Nat], NEW nodes \in SetToSeqs(D),
         NEW rank \in 1..Cardinality(D)
  PROVE  HasRank(NthLargestNode(rank, nodes, stakes), rank, stakes)
<1> DEFINE N == Cardinality(D)
           values == [i \in 1..N |-> stakes[nodes[i]]]
           heap == HeapOf(rank, nodes, stakes)
           top == heap[LeastAt(heap)]
           above == top + 1
           AtLeast(s) == {x \in D : stakes[x] >= s}
<1>1. /\ N \in Nat /\ nodes \in Seq(D) /\ Len(nodes) = N /\ nodes \in [1..N -> D]
      /\ \A i, j \in 1..N : nodes[i] = nodes[j] => i = j
      /\ \A x \in D : \E i \in 1..N : nodes[i] = x
  BY ListingFacts
<1>2. rank \in Nat /\ rank > 0 /\ rank <= N
  BY <1>1
<1>3. IsHeapOf(heap, values, N, rank)
  BY <1>1, <1>2, HeapFacts
<1>4. DOMAIN nodes = 1..N
  BY <1>1
<1> DEFINE First(i) == /\ stakes[nodes[i]] = top
                       /\ \A j \in 1..(i - 1) : stakes[nodes[j]] # top
           at == CHOOSE i \in DOMAIN nodes : First(i)
<1>5. NthLargestNode(rank, nodes, stakes) = nodes[at]
  BY DEF NthLargestNode
<1>6. \A i \in 1..N : values[i] = stakes[nodes[i]] /\ values[i] \in Nat
  BY <1>1
<1> HIDE DEF N, values, heap
<1>7. heap \in Seq(Nat) /\ Len(heap) = rank
  BY <1>1, <1>2, <1>3 DEF IsHeapOf
<1>8. /\ LeastAt(heap) \in 1..rank /\ \A i \in 1..rank : top <= heap[i]
      /\ top \in Nat /\ \A i \in 1..rank : heap[i] \in Nat
  <2>1. Len(heap) # 0
    BY <1>2, <1>7
  <2>2. LeastAt(heap) \in 1..Len(heap) /\ \A i \in 1..Len(heap) : top <= heap[i]
    BY <1>7, <2>1, LeastFacts
  <2>3. \A i \in 1..Len(heap) : heap[i] \in Nat
    BY <1>7, SeqFacts
  <2>4. QED
    BY <1>7, <2>2, <2>3
<1>9. CountIn(heap, rank, top) = rank /\ CountIn(heap, rank, above) < rank
  <2>1. \A i \in 1..rank : heap[i] >= top
    BY <1>8
  <2>2. \E i \in 1..rank : ~(heap[i] >= above)
    BY <1>8
  <2> HIDE DEF top, above
  <2>3. QED
    BY <1>2, <2>1, <2>2, CountType
<1>10. \A v \in Nat :
         CountIn(heap, rank, v) = IF CountIn(values, N, v) < rank THEN CountIn(values, N, v) ELSE rank
  BY <1>3, <1>7 DEF IsHeapOf
<1>11. above \in Nat /\ above > top
  BY <1>8
<1> HIDE DEF top, above
<1>12. CountIn(values, N, top) >= rank /\ CountIn(values, N, above) < rank
  <2>1. CountIn(values, N, top) \in Nat /\ CountIn(values, N, above) \in Nat
    BY <1>1, CountType
  <2>2. QED
    BY <1>2, <1>8, <1>9, <1>10, <1>11, <2>1
<1>13. ASSUME NEW v \in Nat
       PROVE  CountIn(values, N, v) = Cardinality(AtLeast(v))
  <2> DEFINE I == AtLeastIn(values, N, v)
  <2>1. IsFiniteSet(I)
    BY <1>1, CountType
  <2>2. {nodes[i] : i \in I} = AtLeast(v)
    BY <1>1, <1>6 DEF AtLeastIn
  <2>3. \A i, j \in I : nodes[i] = nodes[j] => i = j
    BY <1>1 DEF AtLeastIn
  <2> HIDE DEF I
  <2>4. Cardinality({nodes[i] : i \in I}) = Cardinality(I)
    BY <2>1, <2>3, FiniteImage
  <2>5. QED
    BY <2>2, <2>4 DEF CountIn, I
<1>14. at \in 1..N /\ stakes[nodes[at]] = top
  <2> DEFINE Tops == {i \in 1..N : stakes[nodes[i]] = top}
  <2>1. Tops # {}
    <3> SUFFICES ASSUME Tops = {} PROVE FALSE
      OBVIOUS
    <3>1. \A i \in 1..N : values[i] >= top <=> values[i] >= above
      <4> TAKE i \in 1..N
      <4>1. values[i] # top /\ values[i] \in Nat /\ above = top + 1
        BY <1>6 DEF above
      <4>2. QED
        BY <1>8, <4>1
    <3>2. AtLeastIn(values, N, top) = AtLeastIn(values, N, above)
      BY <3>1 DEF AtLeastIn
    <3>3. CountIn(values, N, top) \in Nat
      BY <1>1, CountType
    <3>4. QED
      BY <1>2, <1>12, <3>2, <3>3 DEF CountIn
  <2>2. PICK m \in Tops : \A i \in Tops : m <= i
    <3>1. Tops \in SUBSET Nat
      BY <1>1
    <3> HIDE DEF Tops
    <3>2. QED
      BY <2>1, <3>1, LeastNatural
  <2>3. First(m)
    <3>1. \A j \in 1..(m - 1) : j \in 1..N /\ ~(m <= j)
      BY <1>1, <2>2
    <3>2. QED
      BY <2>2, <3>1
  <2>4. m \in DOMAIN nodes
    BY <1>4, <2>2
  <2>5. at \in DOMAIN nodes /\ First(at)
    <3> HIDE DEF First
    <3> QED
      BY <2>3, <2>4
  <2>6. QED
    BY <1>4, <2>5
<1> DEFINE origin == nodes[at]
<1>15. origin \in D /\ stakes[origin] = top /\ DOMAIN stakes = D
  BY <1>1, <1>14
<1>16. Cardinality(AtLeast(above)) < rank /\ rank <= Cardinality(AtLeast(top))
  <2>1. Cardinality(AtLeast(above)) < rank
    BY <1>11, <1>12, <1>13
  <2>2. Cardinality(AtLeast(top)) >= rank
    BY <1>8, <1>12, <1>13
  <2>3. Cardinality(AtLeast(top)) \in Nat
    <3>1. CountIn(values, N, top) \in Nat
      BY <1>1, CountType
    <3>2. QED
      BY <1>8, <1>13, <3>1
  <2> HIDE DEF AtLeast
  <2>4. QED
    BY <1>2, <2>1, <2>2, <2>3
<1>17. above = stakes[origin] + 1
  BY <1>15 DEF above
<1> HIDE DEF origin
<1>18. HasRank(origin, rank, stakes)
  BY <1>15, <1>16, <1>17 DEF HasRank
<1>19. QED
  BY <1>5, <1>18 DEF origin

-----------------------------------------------------------------------------
(* The configs of a sweep.                                                 *)

Fields == Counts \cup Fractions

\* The arguments are of their types.
LEMMA ArgsFacts ==
  ASSUME args \in ArgSets
  PROVE  /\ args.testType \in TestTypes
         /\ args.originRanks \in Seq(Nat)
         /\ args.numSimulations \in Nat /\ args.stepSize \in Nat
         /\ args.config \in [Fields -> Nat]
         /\ args.source \in {"rpc", "file", "unnamed file"}
         /\ args.write.count \in Nat
         /\ args.iterations \in Nat /\ args.warmUp \in Nat
         /\ args.buckets.stranded \in Nat /\ args.buckets.hops \in Nat
         /\ args.buckets.messages \in Nat
BY SweepAssumption DEF Config, Fields

\* A field is moved on by a natural number.
LEMMA StepFacts ==
  ASSUME args \in ArgSets, NEW field, NEW i \in Nat
  PROVE  StepFor(field) \in Nat /\ i * StepFor(field) \in Nat
<1>1. args.stepSize \in Nat
  BY ArgsFacts
<1>2. args.stepSize \div 100 \in Nat
  BY <1>1
<1>3. StepFor(field) \in Nat
  BY <1>1, <1>2 DEF StepFor
<1> DEFINE d == StepFor(field)
<1> HIDE DEF d
<1>4. d \in Nat
  BY <1>3 DEF d
<1>5. i * d \in Nat
  BY <1>4
<1>6. QED
  BY <1>4, <1>5 DEF d

\* One field is moved on.
IsMoved(config, field, i) ==
  /\ config \in [Fields -> Nat]
  /\ config[field] = args.config[field] + i * StepFor(field)
  /\ \A other \in Fields \ {field} : config[other] = args.config[other]

\* A field moved on i steps has i steps more; the others stay.
LEMMA MovedFacts ==
  ASSUME args \in ArgSets, NEW field \in Fields, NEW i \in Nat
  PROVE  IsMoved(Moved(field, i), field, i)
<1> DEFINE d == i * StepFor(field)
<1>1. d \in Nat
  BY StepFacts
<1>2. args.config \in [Fields -> Nat]
  BY ArgsFacts
<1>3. Moved(field, i) = [args.config EXCEPT ![field] = @ + d]
  BY DEF Moved
<1> HIDE DEF d
<1>4. args.config[field] + d \in Nat
  BY <1>1, <1>2
<1>5. /\ Moved(field, i) \in [Fields -> Nat]
      /\ Moved(field, i)[field] = args.config[field] + d
      /\ \A other \in Fields \ {field} : Moved(field, i)[other] = args.config[other]
  BY <1>2, <1>3, <1>4
<1>6. QED
  BY <1>5 DEF IsMoved, d

\* The names of the fields.
LEMMA FieldNames ==
  /\ "gossip_push_fanout" \in Fields /\ "gossip_active_set_size" \in Fields
  /\ "min_ingress_nodes" \in Fields /\ "origin_rank" \in Fields
  /\ "prune_stake_threshold" \in Fields /\ "fraction_to_fail" \in Fields
  /\ "probability_of_rotation" \in Fields
BY DEF Fields, Counts, Fractions

\* The active set grows with the fanout.
IsFanoutConfig(config, i) ==
  /\ config \in [Fields -> Nat]
  /\ config["gossip_push_fanout"]
       = args.config["gossip_push_fanout"] + i * StepFor("gossip_push_fanout")
  /\ \A other \in Fields \ {"gossip_push_fanout"} :
       \/ config[other] = args.config[other]
       \/ other = "gossip_active_set_size" /\ config[other] = config["gossip_push_fanout"]

\* In the fanout sweep the active set is as it was, or as large as the fanout.
LEMMA FanoutFacts ==
  ASSUME args \in ArgSets, NEW i \in Nat
  PROVE  IsFanoutConfig(FanoutConfig(i), i)
<1> DEFINE fanout == "gossip_push_fanout"
           size == "gossip_active_set_size"
           moved == Moved(fanout, i)
           new == [moved EXCEPT ![size] = IF moved[fanout] > moved[size] THEN moved[fanout] ELSE moved[size]]
<1>1. fanout \in Fields /\ size \in Fields /\ fanout # size
  BY FieldNames
<1>2. FanoutConfig(i) = new
  BY DEF FanoutConfig
<1>3. IsMoved(moved, fanout, i)
  BY <1>1, MovedFacts
<1> HIDE DEF moved, fanout, size
<1>4. /\ moved \in [Fields -> Nat]
      /\ moved[fanout] = args.config[fanout] + i * StepFor(fanout)
      /\ \A other \in Fields \ {fanout} : moved[other] = args.config[other]
  BY <1>3 DEF IsMoved
<1>5. /\ new \in [Fields -> Nat] /\ new[fanout] = moved[fanout]
      /\ new[size] = moved[size] \/ new[size] = moved[fanout]
      /\ \A other \in Fields \ {size} : new[other] = moved[other]
  BY <1>1, <1>4
<1> HIDE DEF new
<1>6. \A other \in Fields \ {fanout} :
        new[other] = args.config[other] \/ (other = size /\ new[other] = new[fanout])
  BY <1>1, <1>4, <1>5
<1>7. IsFanoutConfig(new, i)
  BY <1>4, <1>5, <1>6 DEF IsFanoutConfig, fanout, size
<1>8. QED
  BY <1>2, <1>7

\* What a sweep is of.
LEMMA SweptFacts ==
  ASSUME NEW i
  PROVE  /\ args.testType = "PushFanout" => ConfigOf(i) = FanoutConfig(i)
         /\ args.testType \in DOMAIN Swept /\ args.testType # "PushFanout" =>
              /\ ConfigOf(i) = Moved(Swept[args.testType], i)
              /\ Swept[args.testType] # "gossip_push_fanout"
         /\ args.testType = "OriginRank" => ConfigOf(i) = OriginConfig(i)
         /\ args.testType \in DOMAIN Swept => Swept[args.testType] \in Fields
         /\ Swept["PushFanout"] = "gossip_push_fanout"
         /\ args.testType \in TestTypes =>
              args.testType \in DOMAIN Swept \cup {"OriginRank", "NoTest"}
         /\ args.testType = "NoTest" => ConfigOf(i) = args.config
<1>1. /\ args.testType = "PushFanout" => ConfigOf(i) = FanoutConfig(i)
      /\ args.testType = "OriginRank" => ConfigOf(i) = OriginConfig(i)
      /\ args.testType = "NoTest" => ConfigOf(i) = args.config
  BY DEF ConfigOf
<1>2. /\ Swept["ActiveSetSize"] = "gossip_active_set_size"
      /\ Swept["PushFanout"] = "gossip_push_fanout"
      /\ Swept["MinIngressNodes"] = "min_ingress_nodes"
      /\ Swept["PruneStakeThreshold"] = "prune_stake_threshold"
      /\ Swept["FailNodes"] = "fraction_to_fail"
      /\ Swept["RotateProbability"] = "probability_of_rotation"
      /\ DOMAIN Swept = {"ActiveSetSize", "PushFanout", "MinIngressNodes", "PruneStakeThreshold",
                         "FailNodes", "RotateProbability"}
  BY DEF Swept
<1>3. args.testType \in TestTypes => args.testType \in DOMAIN Swept \cup {"OriginRank", "NoTest"}
  BY <1>2 DEF TestTypes
<1>4. ASSUME args.testType \in DOMAIN Swept
      PROVE  /\ args.testType # "PushFanout" =>
                  /\ ConfigOf(i) = Moved(Swept[args.testType], i)
                  /\ Swept[args.testType] # "gossip_push_fanout"
             /\ Swept[args.testType] \in Fields
  <2>1. CASE args.testType = "ActiveSetSize"
    BY <1>2, <2>1, FieldNames DEF ConfigOf
  <2>2. CASE args.testType = "PushFanout"
    BY <1>2, <2>2, FieldNames
  <2>3. CASE args.testType = "MinIngressNodes"
    BY <1>2, <2>3, FieldNames DEF ConfigOf
  <2>4. CASE args.testType = "PruneStakeThreshold"
    BY <1>2, <2>4, FieldNames DEF ConfigOf
  <2>5. CASE args.testType = "FailNodes"
    BY <1>2, <2>5, FieldNames DEF ConfigOf
  <2>6. CASE args.testType = "RotateProbability"
    BY <1>2, <2>6, FieldNames DEF ConfigOf
  <2>7. QED
    BY <1>2, <1>4, <2>1, <2>2, <2>3, <2>4, <2>5, <2>6
<1>5. QED
  BY <1>1, <1>2, <1>3, <1>4

\* The config of a simulation whose origin rank is in the list.
LEMMA ConfigType ==
  ASSUME args \in ArgSets, NEW i \in Nat, ~IndexPanics(i)
  PROVE  ConfigOf(i) \in [Fields -> Nat]
<1>1. args.testType \in TestTypes /\ args.originRanks \in Seq(Nat) /\ args.config \in [Fields -> Nat]
  BY ArgsFacts
<1>2. CASE args.testType = "PushFanout"
  BY <1>2, FanoutFacts, SweptFacts DEF IsFanoutConfig
<1>3. CASE args.testType \in DOMAIN Swept /\ args.testType # "PushFanout"
  BY <1>3, MovedFacts, SweptFacts DEF IsMoved
<1>4. CASE args.testType = "OriginRank"
  <2>1. Len(args.originRanks) \in Nat
        /\ \A j \in 1..Len(args.originRanks) : args.originRanks[j] \in Nat
    BY <1>1, SeqFacts
  <2>2. i + 1 \in 1..Len(args.originRanks)
    BY <1>4, <2>1 DEF IndexPanics
  <2>3. args.originRanks[i + 1] \in Nat
    BY <2>1, <2>2
  <2>4. OriginConfig(i) \in [Fields -> Nat]
    BY <1>1, <2>3 DEF OriginConfig
  <2>5. QED
    BY <1>4, <2>4, SweptFacts
<1>5. CASE args.testType = "NoTest"
  BY <1>1, <1>5, SweptFacts
<1>6. QED
  BY <1>1, <1>2, <1>3, <1>4, <1>5, SweptFacts

\* The configs of the simulations begun are comparable.
LEMMA SweepsOneField ==
  ASSUME args \in ArgSets, RunsAsAsked
  PROVE  OneFieldMoves
<1> SUFFICES ASSUME args.testType \in DOMAIN Swept PROVE OneFieldMoves
  BY DEF OneFieldMoves
<1> DEFINE field == Swept[args.testType]
           d == StepFor(field)
           start == args.config[field]
           fanout == "gossip_push_fanout"
           size == "gossip_active_set_size"
           Others(config) ==
             \A other \in Fields \ {field} :
               \/ config[other] = args.config[other]
               \/ field = fanout /\ other = size /\ config[other] = config[field]
<1>1. Len(runs) \in Nat /\ DOMAIN runs = 1..Len(runs)
  BY SeqFacts DEF RunsAsAsked
<1>2. field \in Fields /\ (args.testType = "PushFanout" => field = fanout)
  BY SweptFacts
<1>3. ASSUME NEW i \in Nat
      PROVE  ConfigOf(i)[field] = start + i * d /\ Others(ConfigOf(i))
  <2>1. CASE args.testType = "PushFanout"
    <3>1. IsFanoutConfig(ConfigOf(i), i)
      BY <2>1, FanoutFacts, SweptFacts
    <3>2. field = fanout
      BY <1>2, <2>1
    <3> HIDE DEF field
    <3>3. QED
      BY <3>1, <3>2 DEF IsFanoutConfig
  <2>2. CASE args.testType # "PushFanout"
    <3>1. ConfigOf(i) = Moved(field, i)
      BY <2>2, SweptFacts
    <3> HIDE DEF field
    <3>2. IsMoved(ConfigOf(i), field, i)
      BY <1>2, <3>1, MovedFacts
    <3>3. QED
      BY <3>2 DEF IsMoved
  <2>3. QED
    BY <2>1, <2>2
<1>4. d \in Nat /\ start \in Nat
  BY <1>2, ArgsFacts, StepFacts
<1> HIDE DEF d, start, field, Others
<1>5. \A i \in 1..Len(runs) :
        /\ i - 1 \in Nat
        /\ runs[i].config[field] = start + (i - 1) * d
        /\ Others(runs[i].config)
  <2> SUFFICES ASSUME NEW i \in 1..Len(runs)
               PROVE  /\ i - 1 \in Nat
                      /\ runs[i].config[field] = start + (i - 1) * d
                      /\ Others(runs[i].config)
    OBVIOUS
  <2>1. i - 1 \in Nat
    OBVIOUS
  <2>2. runs[i].config = ConfigOf(i - 1)
    BY <1>1 DEF RunsAsAsked
  <2>3. QED
    BY <1>3, <2>1, <2>2
<1>6. runs # <<>> => runs[1].config[field] = start
  <2> SUFFICES ASSUME runs # <<>> PROVE runs[1].config[field] = start
    OBVIOUS
  <2>1. Len(runs) # 0
    <3>1. runs \in Seq(ToSet(runs))
      BY DEF RunsAsAsked
    <3>2. QED
      BY <3>1, EmptySeq
  <2>2. 1 \in 1..Len(runs)
    BY <1>1, <2>1
  <2>3. 0 * d = 0
    BY <1>4
  <2>4. QED
    BY <1>4, <1>5, <2>2, <2>3
<1>7. ASSUME NEW i \in 1..(Len(runs) - 1)
      PROVE  runs[i + 1].config[field] = runs[i].config[field] + d
  <2>1. i \in 1..Len(runs) /\ i + 1 \in 1..Len(runs) /\ (i + 1) - 1 = i /\ i \in Nat /\ i - 1 \in Nat
    BY <1>1
  <2> DEFINE before == (i - 1) * d
  <2>2. i * d = before + d /\ before \in Nat
    BY <1>4, <2>1
  <2>3. runs[i].config[field] = start + before /\ runs[i + 1].config[field] = start + i * d
    BY <1>5, <2>1
  <2> HIDE DEF before
  <2>4. QED
    BY <1>4, <2>2, <2>3
<1>8. \A i \in DOMAIN runs : \A other \in Fields \ {field} :
        \/ runs[i].config[other] = args.config[other]
        \/ field = fanout /\ other = size /\ runs[i].config[other] = runs[i].config[field]
  BY <1>1, <1>5 DEF Others
<1>9. QED
  BY <1>6, <1>7, <1>8 DEF OneFieldMoves, Fields, field, d, start

-----------------------------------------------------------------------------
(* The account file.                                                       *)

\* What a file holds of an answer.
HoldsAnswer(file0, answer) ==
  LET cluster == ClusterFromRpc(answer, args.write.filterZero)
  IN  /\ IsFromAnswer(cluster, answer, args.write.filterZero)
      /\ IsFileOf(file0, cluster, args.write.zeroStakes, args.write.count)

\* What write-accounts leaves is a file, and it holds what it was answered.
LEMMA WrittenFacts ==
  ASSUME args \in ArgSets, NEW answer \in Snapshots,
         NEW file0 \in Files(ClusterFromRpc(answer, args.write.filterZero),
                             args.write.zeroStakes, args.write.count)
  PROVE  /\ HoldsAnswer(file0, answer) /\ file0 # None
         /\ IsFiniteSet(DOMAIN file0) /\ file0 \in [DOMAIN file0 -> Nat]
<1> DEFINE cluster == ClusterFromRpc(answer, args.write.filterZero)
<1>1. IsFromAnswer(cluster, answer, args.write.filterZero)
  BY SnapshotFacts, FromRpcFacts
<1>2. /\ IsFiniteSet(DOMAIN cluster) /\ cluster \in [DOMAIN cluster -> Nat]
      /\ DOMAIN cluster \subseteq NodesOf(answer)
  BY <1>1 DEF IsFromAnswer
<1>3. args.write.count \in Nat
  BY ArgsFacts
<1> HIDE DEF cluster
<1>4. file0 \in Files(cluster, args.write.zeroStakes, args.write.count)
  BY DEF cluster
<1>5. IsFileOf(file0, cluster, args.write.zeroStakes, args.write.count)
  BY <1>2, <1>3, <1>4, FileFacts
<1>6. /\ DOMAIN file0 \subseteq DOMAIN cluster
      /\ IsFiniteSet(DOMAIN file0) /\ file0 \in [DOMAIN file0 -> Nat]
  BY <1>5 DEF IsFileOf
<1>7. file0 # None
  <2>1. DOMAIN file0 \in SUBSET NodesOf(answer)
    BY <1>2, <1>6
  <2>2. None \notin [DOMAIN file0 -> Nat]
    BY <2>1, SnapshotFacts
  <2>3. QED
    BY <1>6, <2>2
<1>8. HoldsAnswer(file0, answer)
  BY <1>1, <1>5 DEF HoldsAnswer, cluster
<1>9. QED
  BY <1>6, <1>7, <1>8

\* The file there is, once the simulations may begin.
LEMMA KeptFileFacts ==
  ASSUME args \in ArgSets, FileAsAsked, args.source = "file", pc # "write", file # None
  PROVE  /\ HoldsAnswer(file, votes)
         /\ IsFiniteSet(DOMAIN file) /\ file \in [DOMAIN file -> Nat]
<1>1. /\ votes \in Snapshots
      /\ file \in Files(ClusterFromRpc(votes, args.write.filterZero),
                        args.write.zeroStakes, args.write.count)
  BY DEF FileAsAsked
<1>2. QED
  BY <1>1, WrittenFacts

\* Stakes that a simulation finds.
AreStakes(stakes) == IsFiniteSet(DOMAIN stakes) /\ stakes \in [DOMAIN stakes -> Nat]

\* What a simulation finds are stakes of finitely many nodes, from its source.
LEMMA FoundFacts ==
  ASSUME args \in ArgSets, FileAsAsked, pc # "write", args.source = "rpc" \/ file # None,
         NEW stakes \in Found
  PROVE  /\ AreStakes(stakes)
         /\ args.source = "file" => file # None /\ stakes = Cluster(file, args.filterZero)
<1>1. CASE args.source = "rpc"
  <2>1. PICK answer \in Snapshots : stakes = ClusterFromRpc(answer, args.filterZero)
    BY <1>1 DEF Found
  <2>2. IsFromAnswer(stakes, answer, args.filterZero)
    BY <2>1, SnapshotFacts, FromRpcFacts
  <2>3. AreStakes(stakes)
    BY <2>2 DEF IsFromAnswer, AreStakes
  <2>4. QED
    BY <1>1, <2>3
<1>2. CASE args.source # "rpc"
  <2>1. file # None /\ args.source = "file"
    BY <1>2, ArgsFacts DEF FileAsAsked
  <2>2. stakes = Cluster(file, args.filterZero)
    BY <1>2 DEF Found
  <2>3. IsFiniteSet(DOMAIN file) /\ file \in [DOMAIN file -> Nat]
    BY <2>1, KeptFileFacts
  <2>4. IsClusterOf(stakes, file, DOMAIN file, args.filterZero)
    BY <2>2, <2>3, ClusterFacts
  <2>5. AreStakes(stakes)
    BY <2>4 DEF IsClusterOf, AreStakes
  <2>6. QED
    BY <2>1, <2>2, <2>5
<1>3. QED
  BY <1>1, <1>2

\* What a simulation loads of a file that holds an answer.
LEMMA LoadedOfAnswer ==
  ASSUME NEW file0, NEW answer, HoldsAnswer(file0, answer),
         IsFiniteSet(DOMAIN file0), file0 \in [DOMAIN file0 -> Nat]
  PROVE  LET stakes == Cluster(file0, args.filterZero)
             nodes == {answer[j].node : j \in DOMAIN answer}
             unstaked == {n \in nodes : StakeIn(answer, n) = 0}
             eligible == (IF args.write.zeroStakes THEN unstaked ELSE nodes)
                           \ (IF args.write.filterZero THEN unstaked ELSE {})
         IN  /\ DOMAIN stakes \subseteq eligible \ (IF args.filterZero THEN unstaked ELSE {})
             /\ \A n \in DOMAIN stakes : stakes[n] = StakeIn(answer, n)
             /\ \/ Cardinality(DOMAIN stakes) = args.write.count
                \/ args.filterZero /\ eligible \cap unstaked # {}
                \/ /\ args.write.count = 0 \/ Cardinality(eligible) < args.write.count
                   /\ DOMAIN stakes = eligible
<1> DEFINE stakes == Cluster(file0, args.filterZero)
           cluster == ClusterFromRpc(answer, args.write.filterZero)
           nodes == {answer[j].node : j \in DOMAIN answer}
           unstaked == {n \in nodes : StakeIn(answer, n) = 0}
           eligible == (IF args.write.zeroStakes THEN unstaked ELSE nodes)
                         \ (IF args.write.filterZero THEN unstaked ELSE {})
           kept == DOMAIN file0
           count == args.write.count
           chosen == {n \in DOMAIN cluster : args.write.zeroStakes => cluster[n] = 0}
<1>1. IsFromAnswer(cluster, answer, args.write.filterZero)
  BY DEF HoldsAnswer
<1>2. IsFileOf(file0, cluster, args.write.zeroStakes, count)
  BY DEF HoldsAnswer
<1>3. nodes = NodesOf(answer)
  BY DEF NodesOf
<1> HIDE DEF cluster, nodes
<1>4. /\ DOMAIN cluster = {n \in nodes : args.write.filterZero => StakeIn(answer, n) # 0}
      /\ \A n \in DOMAIN cluster : cluster[n] = StakeIn(answer, n)
  BY <1>1, <1>3 DEF IsFromAnswer
<1>5. chosen = eligible
  BY <1>4
<1>6. /\ kept \subseteq chosen /\ \A n \in kept : file0[n] = cluster[n]
      /\ IF count = 0 \/ Cardinality(chosen) < count THEN kept = chosen ELSE Cardinality(kept) = count
  BY <1>2 DEF IsFileOf
<1>7. \A n \in kept : n \in eligible /\ file0[n] = StakeIn(answer, n)
  BY <1>4, <1>5, <1>6
<1>8. /\ DOMAIN stakes = {n \in kept : args.filterZero => file0[n] # 0}
      /\ \A n \in DOMAIN stakes : stakes[n] = file0[n]
  <2>1. IsClusterOf(stakes, file0, kept, args.filterZero)
    BY ClusterFacts
  <2>2. QED
    BY <2>1 DEF IsClusterOf
<1>9. eligible \subseteq nodes
  OBVIOUS
<1>10. unstaked = {n \in nodes : StakeIn(answer, n) = 0}
  OBVIOUS
<1> HIDE DEF stakes, unstaked, eligible
<1>11. DOMAIN stakes \subseteq eligible \ (IF args.filterZero THEN unstaked ELSE {})
  BY <1>7, <1>8, <1>10
<1>12. \A n \in DOMAIN stakes : stakes[n] = StakeIn(answer, n)
  BY <1>7, <1>8
<1>13. \/ args.filterZero /\ eligible \cap unstaked # {}
       \/ DOMAIN stakes = kept
  BY <1>7, <1>8, <1>9, <1>10
<1>14. IF count = 0 \/ Cardinality(eligible) < count THEN kept = eligible ELSE Cardinality(kept) = count
  <2> HIDE DEF chosen
  <2> QED
    BY <1>5, <1>6
<1>15. \/ Cardinality(DOMAIN stakes) = count
       \/ args.filterZero /\ eligible \cap unstaked # {}
       \/ /\ count = 0 \/ Cardinality(eligible) < count
          /\ DOMAIN stakes = eligible
  BY <1>13, <1>14
<1>16. QED
  BY <1>11, <1>12, <1>15 DEF stakes, eligible, unstaked, nodes

\* Every simulation of a sweep has the stakes of the file.
LEMMA SweepKeepsAccounts ==
  ASSUME args \in ArgSets, FileAsAsked, RunsAsAsked, pc = "write" => runs = <<>>
  PROVE  AccountsKept
<1> SUFFICES ASSUME args.source = "file", NEW i \in DOMAIN runs
             PROVE  LET stakes == runs[i].stakes
                        nodes == {votes[j].node : j \in DOMAIN votes}
                        unstaked == {n \in nodes : StakeIn(votes, n) = 0}
                        eligible == (IF args.write.zeroStakes THEN unstaked ELSE nodes)
                                      \ (IF args.write.filterZero THEN unstaked ELSE {})
                    IN  /\ stakes = runs[1].stakes
                        /\ DOMAIN stakes \subseteq
                             eligible \ (IF args.filterZero THEN unstaked ELSE {})
                        /\ \A n \in DOMAIN stakes : stakes[n] = StakeIn(votes, n)
                        /\ \/ Cardinality(DOMAIN stakes) = args.write.count
                           \/ args.filterZero /\ eligible \cap unstaked # {}
                           \/ /\ args.write.count = 0 \/ Cardinality(eligible) < args.write.count
                              /\ DOMAIN stakes = eligible
  BY DEF AccountsKept
<1>1. Len(runs) \in Nat /\ DOMAIN runs = 1..Len(runs) /\ 1 \in DOMAIN runs
  BY SeqFacts DEF RunsAsAsked
<1>2. /\ file # None
      /\ runs[i].stakes = Cluster(file, args.filterZero)
      /\ runs[1].stakes = Cluster(file, args.filterZero)
  BY <1>1 DEF RunsAsAsked
<1>3. pc # "write"
  <2>1. Len(<<>>) = 0
    BY EmptySeq
  <2>2. QED
    BY <1>1, <2>1
<1>4. HoldsAnswer(file, votes) /\ IsFiniteSet(DOMAIN file) /\ file \in [DOMAIN file -> Nat]
  BY <1>2, <1>3, KeptFileFacts
<1> DEFINE loaded == Cluster(file, args.filterZero)
<1>5. runs[i].stakes = loaded /\ runs[1].stakes = loaded
  BY <1>2
<1> DEFINE nodes == {votes[j].node : j \in DOMAIN votes}
           unstaked == {n \in nodes : StakeIn(votes, n) = 0}
           eligible == (IF args.write.zeroStakes THEN unstaked ELSE nodes)
                         \ (IF args.write.filterZero THEN unstaked ELSE {})
<1>6. /\ DOMAIN loaded \subseteq eligible \ (IF args.filterZero THEN unstaked ELSE {})
      /\ \A n \in DOMAIN loaded : loaded[n] = StakeIn(votes, n)
      /\ \/ Cardinality(DOMAIN loaded) = args.write.count
         \/ args.filterZero /\ eligible \cap unstaked # {}
         \/ /\ args.write.count = 0 \/ Cardinality(eligible) < args.write.count
            /\ DOMAIN loaded = eligible
  BY <1>4, LoadedOfAnswer
<1> HIDE DEF loaded
<1>7. QED
  BY <1>5, <1>6

-----------------------------------------------------------------------------
(* A simulation is begun.                                                  *)

\* What is run with a config and stakes.
IsRunOf(run, config, stakes) ==
  /\ run.config = config /\ run.stakes = stakes
  /\ run.origin # None => HasRank(run.origin, config.origin_rank, stakes)

\* More nodes are failed than there are only if the fraction is past 1.
LEMMA FailsTooMany ==
  ASSUME NEW config, config["fraction_to_fail"] \in Nat, NEW stakes, AreStakes(stakes),
         FailPanics(config, stakes)
  PROVE  args.testType = "FailNodes" /\ config["fraction_to_fail"] > 100
<1> DEFINE f == config["fraction_to_fail"]
           n == Cardinality(DOMAIN stakes)
           p == f * n
           q == p \div 100
<1>1. n \in Nat /\ f \in Nat
  BY FS_CardinalityType DEF AreStakes
<1>2. q > n /\ args.testType = "FailNodes"
  BY DEF FailPanics
<1> HIDE DEF f, n
<1>3. p \in Nat
  BY <1>1
<1>4. f <= 100 => p <= 100 * n
  <2> SUFFICES ASSUME f <= 100 PROVE p <= 100 * n
    OBVIOUS
  <2>1. 100 - f \in Nat
    BY <1>1
  <2> DEFINE e == 100 - f
             left == e * n
  <2>2. left \in Nat /\ left = 100 * n - p
    BY <1>1, <2>1
  <2> HIDE DEF left, p
  <2>3. QED
    BY <1>1, <1>3, <2>2
<1> HIDE DEF p
<1>5. q \in Nat /\ q * 100 <= p
  BY <1>3
<1> HIDE DEF q
<1>6. f > 100
  BY <1>1, <1>2, <1>3, <1>4, <1>5
<1>7. QED
  BY <1>2, <1>6 DEF f

\* How many rounds are measured.
LEMMA MeasuredType ==
  ASSUME args \in ArgSets
  PROVE  Measured \in Nat
<1> DEFINE N == args.iterations
           w == args.warmUp
<1>1. N \in Nat /\ w \in Nat
  BY ArgsFacts
<1>2. Measured = IF N > w THEN N - w ELSE 0
  BY DEF Measured
<1> HIDE DEF N, w
<1>3. (IF N > w THEN N - w ELSE 0) \in Nat
  BY <1>1
<1>4. QED
  BY <1>2, <1>3

\* The bounds of the histograms.
LEMMA BoundFacts ==
  ASSUME args \in ArgSets, NEW config \in [Fields -> Nat]
  PROVE  Measured \in Nat /\ HopsUpper(config) \in Nat /\ HopsUpper(config) > 1
<1>1. Measured \in Nat
  BY MeasuredType
<1> DEFINE f == config["fraction_to_fail"]
           grown == (40 * (100 + f)) \div 100
<1>2. f \in Nat
  BY FieldNames
<1> HIDE DEF f
<1>3. grown \in Nat /\ grown > 1
  BY <1>2
<1>4. \/ HopsUpper(config) = grown
      \/ HopsUpper(config) = 50
      \/ HopsUpper(config) = 30
  BY DEF HopsUpper, f
<1> HIDE DEF grown
<1>5. QED
  BY <1>1, <1>3, <1>4

\* Histograms with no buckets, or too many.
MisfitsOf(config, stakes) ==
  LET greatest == Max(Range(stakes))
  IN  \/ Misfit(greatest, StakeBuckets)
      \/ Misfit(Measured, args.buckets.stranded)
      \/ Measured > 0 /\ \/ Misfit(HopsUpper(config), args.buckets.hops)
                         \/ MapMisfit(greatest, args.buckets.messages)

\* The greatest stake of some nodes.
LEMMA GreatestStake ==
  ASSUME NEW stakes, AreStakes(stakes), DOMAIN stakes # {}
  PROVE  Max(Range(stakes)) \in Nat
<1> DEFINE D == DOMAIN stakes
           all == {stakes[n] : n \in D}
<1>1. IsFiniteSet(D) /\ stakes \in [D -> Nat]
  BY DEF AreStakes
<1>2. IsFiniteSet(all)
  BY <1>1, FiniteImage
<1>3. all # {} /\ \A x \in all : x \in Nat
  BY <1>1
<1>4. Range(stakes) = all
  BY DEF Range
<1> HIDE DEF all
<1>5. Max(all) \in all
  BY <1>2, <1>3, MaxFacts
<1>6. QED
  BY <1>3, <1>4, <1>5

\* What panics whatever the rounds were like has no buckets, or too many.
LEMMA PanicOfMisfits ==
  ASSUME args \in ArgSets, NEW config \in [Fields -> Nat],
         NEW stakes, AreStakes(stakes), DOMAIN stakes # {},
         HistogramsPanic(config, stakes)
  PROVE  MisfitsOf(config, stakes)
<1> DEFINE greatest == Max(Range(stakes))
<1>1. greatest \in Nat /\ StakeBuckets \in Nat \ {0}
  BY GreatestStake, SweepAssumption
<1>2. Measured \in Nat /\ HopsUpper(config) \in Nat /\ HopsUpper(config) > 1
  BY BoundFacts
<1>3. /\ args.buckets.stranded \in Nat /\ args.buckets.hops \in Nat
      /\ args.buckets.messages \in Nat
  BY ArgsFacts
<1>4. CASE BuildPanics(greatest, 0, StakeBuckets, Values(stakes))
  <2> HIDE DEF greatest
  <2>1. Misfit(greatest, StakeBuckets)
    BY <1>1, <1>4, BuildOfMisfit
  <2>2. QED
    BY <2>1 DEF MisfitsOf, greatest
<1>5. CASE Measured > 0 /\ BuildPanics(Measured, 0, args.buckets.stranded, <<>>)
  <2>1. ~\E i \in DOMAIN <<>> : <<>>[i] = 0
    OBVIOUS
  <2>2. Misfit(Measured, args.buckets.stranded)
    BY <1>2, <1>3, <1>5, <2>1, BuildOfMisfit
  <2>3. QED
    BY <2>2 DEF MisfitsOf
<1>6. CASE Measured > 0 /\ BuildPanics(HopsUpper(config), 0, args.buckets.hops, <<0>>)
  <2>1. Misfit(HopsUpper(config), args.buckets.hops)
    BY <1>2, <1>3, <1>6, BuildOfMisfit
  <2>2. QED
    BY <1>6, <2>1 DEF MisfitsOf
<1>7. CASE Measured > 0 /\ MapPanics(args.buckets.messages, stakes)
  <2>1. MapMisfit(Max(Range(stakes)), args.buckets.messages)
    BY <1>3, <1>7, MapOfMisfit DEF AreStakes
  <2>2. QED
    BY <1>7, <2>1 DEF MisfitsOf
<1>8. QED
  BY <1>4, <1>5, <1>6, <1>7 DEF HistogramsPanic, greatest

\* Stranded nodes, or labels, panic in a histogram with too many buckets.
LEMMA NarrowIsMisfit ==
  ASSUME args \in ArgSets, StrandedTooNarrow
  PROVE  Misfit(Measured, args.buckets.stranded)
<1>1. Measured \in Nat
  BY MeasuredType
<1>2. args.buckets.stranded \in Nat
  BY ArgsFacts
<1>3. Measured > 0 /\ BuildPanics(Measured, 0, args.buckets.stranded, <<1>>)
  BY DEF StrandedTooNarrow
<1>4. ~\E i \in DOMAIN <<1>> : <<1>>[i] = 0
  OBVIOUS
<1>5. QED
  BY <1>1, <1>2, <1>3, <1>4, BuildOfMisfit

\* A message that is alone with the origin is so in one of several rounds.
LEMMA AloneOfSeveral ==
  ASSUME NEW config, NEW stakes, NEW alone \in Alone(config, stakes), alone,
         Measured \in Nat
  PROVE  Measured > 1
<1> DEFINE m == Measured
<1>1. m <= 1 => alone = FALSE
  <2> SUFFICES ASSUME m <= 1 PROVE alone = FALSE
    OBVIOUS
  <2>1. Alone(config, stakes) = {FALSE}
    BY DEF Alone
  <2>2. QED
    BY <2>1
<1>2. m \in Nat
  OBVIOUS
<1> HIDE DEF m
<1>3. m > 1
  BY <1>1, <1>2
<1>4. QED
  BY <1>3 DEF m

\* What a simulation leaves.
LEMMA SimulateFacts ==
  ASSUME args \in ArgSets, NEW config \in [Fields -> Nat], NEW stakes, AreStakes(stakes),
         Simulate(config, stakes)
  PROVE  /\ pc' \in {"run", "panicked"}
         /\ \E run : /\ runs' = Append(runs, run) /\ IsRunOf(run, config, stakes)
                     /\ pc' = "panicked" => Unfit(run)
<1> DEFINE RunWith(origin, alone) ==
             [config |-> config, stakes |-> stakes, origin |-> origin, alone |-> alone]
<1>1. CASE RankPanics(config, stakes)
  <2>1. runs' = Append(runs, RunWith(None, FALSE)) /\ pc' = "panicked"
    BY <1>1 DEF Simulate, Begun
  <2>2. IsRunOf(RunWith(None, FALSE), config, stakes)
    BY DEF IsRunOf
  <2>3. Unfit(RunWith(None, FALSE))
    BY <1>1 DEF RankPanics, Unfit
  <2> HIDE DEF RunWith
  <2>4. QED
    BY <2>1, <2>2, <2>3
<1>2. CASE ~RankPanics(config, stakes)
  <2> DEFINE rank == config.origin_rank
             Origin(nodes) == NthLargestNode(rank, nodes, stakes)
             certain == FailPanics(config, stakes) \/ HistogramsPanic(config, stakes)
             possible == \/ config.prune_stake_threshold > 100
                         \/ StrandedTooNarrow
  <2>1. PICK nodes \in SetToSeqs(DOMAIN stakes) :
          \/ certain /\ runs' = Append(runs, RunWith(Origin(nodes), FALSE)) /\ pc' = "panicked"
          \/ possible /\ runs' = Append(runs, RunWith(Origin(nodes), FALSE)) /\ pc' = "panicked"
          \/ \E alone \in Alone(config, stakes) :
               /\ runs' = Append(runs, RunWith(Origin(nodes), alone))
               /\ pc' = IF alone THEN "panicked" ELSE "run"
    BY <1>2 DEF Simulate, Begun
  <2>2. rank \in 1..Cardinality(DOMAIN stakes)
    BY <1>2 DEF RankPanics
  <2>3. HasRank(Origin(nodes), rank, stakes)
    <3> HIDE DEF rank
    <3>1. HasRank(NthLargestNode(rank, nodes, stakes), rank, stakes)
      BY <2>2, OriginFacts DEF AreStakes
    <3>2. QED
      BY <3>1
  <2>4. DOMAIN stakes # {}
    BY <2>2, FS_EmptySet
  <2> HIDE DEF Origin
  <2>5. \A alone : IsRunOf(RunWith(Origin(nodes), alone), config, stakes)
    BY <2>3 DEF IsRunOf
  <2>6. certain \/ possible => Unfit(RunWith(Origin(nodes), FALSE))
    <3>1. FailPanics(config, stakes) =>
            args.testType = "FailNodes" /\ config.fraction_to_fail > 100
      <4>1. config["fraction_to_fail"] \in Nat
        BY FieldNames
      <4>2. QED
        BY <4>1, FailsTooMany
    <3>2. HistogramsPanic(config, stakes) => MisfitsOf(config, stakes)
      BY <2>4, PanicOfMisfits
    <3>3. StrandedTooNarrow => MisfitsOf(config, stakes)
      BY NarrowIsMisfit DEF MisfitsOf
    <3>4. QED
      BY <3>1, <3>2, <3>3 DEF Unfit, MisfitsOf
  <2>7. ASSUME NEW alone \in Alone(config, stakes), alone
        PROVE  Unfit(RunWith(Origin(nodes), alone))
    <3>1. Measured > 1
      BY <2>7, BoundFacts, AloneOfSeveral
    <3>2. QED
      BY <2>7, <3>1 DEF Unfit
  <2> HIDE DEF RunWith, certain, possible
  <2>8. CASE /\ certain \/ possible
             /\ runs' = Append(runs, RunWith(Origin(nodes), FALSE)) /\ pc' = "panicked"
    BY <2>5, <2>6, <2>8
  <2>9. CASE \E alone \in Alone(config, stakes) :
               /\ runs' = Append(runs, RunWith(Origin(nodes), alone))
               /\ pc' = IF alone THEN "panicked" ELSE "run"
    <3>1. PICK alone \in Alone(config, stakes) :
            /\ runs' = Append(runs, RunWith(Origin(nodes), alone))
            /\ pc' = IF alone THEN "panicked" ELSE "run"
      BY <2>9
    <3>2. pc' = "panicked" => alone
      BY <3>1
    <3>3. QED
      BY <2>5, <2>7, <3>1, <3>2
  <2>10. QED
    BY <2>1, <2>8, <2>9
<1>3. QED
  BY <1>1, <1>2

\* The config of a simulation is for the arguments to say.
LEMMA ConfigKept ==
  ASSUME NEW j, args' = args
  PROVE  ConfigOf(j)' = ConfigOf(j)
<1>1. \A field : StepFor(field)' = StepFor(field)
  BY DEF StepFor
<1>2. \A field : Moved(field, j)' = Moved(field, j)
  BY <1>1 DEF Moved
<1>3. FanoutConfig(j)' = FanoutConfig(j)
  BY <1>2 DEF FanoutConfig
<1>4. OriginConfig(j)' = OriginConfig(j)
  BY DEF OriginConfig
<1>5. QED
  BY <1>2, <1>3, <1>4 DEF ConfigOf

\* What it may end for, too.
LEMMA UnfitKept ==
  ASSUME NEW run, args' = args
  PROVE  Unfit(run)' <=> Unfit(run)
<1>1. Measured' = Measured
  BY DEF Measured
<1>2. HopsUpper(run.config)' = HopsUpper(run.config)
  BY DEF HopsUpper
<1>3. QED
  BY <1>1, <1>2 DEF Unfit

\* The simulations begun, with one more.
LEMMA RunAppended ==
  ASSUME RunsAsAsked, OriginAsRanked, NEW run, NEW stakes, AreStakes(stakes),
         args.source = "file" => file # None /\ stakes = Cluster(file, args.filterZero),
         IsRunOf(run, ConfigOf(Len(runs)), stakes),
         runs' = Append(runs, run), UNCHANGED <<args, file>>
  PROVE  /\ RunsAsAsked' /\ OriginAsRanked'
         /\ runs' # <<>> /\ runs'[Len(runs')] = run
<1> DEFINE N == Len(runs)
           all == ToSet(runs) \cup {run}
<1>0. args' = args /\ file' = file
  OBVIOUS
<1>1. N \in Nat /\ DOMAIN runs = 1..N
  BY SeqFacts DEF RunsAsAsked
<1>2. runs \in Seq(all)
  <2>1. runs \in Seq(ToSet(runs))
    BY DEF RunsAsAsked
  <2>2. \A i \in 1..N : runs[i] \in all
    BY <2>1, SeqFacts
  <2>3. runs \in [1..N -> all]
    <3>1. runs \in [1..N -> ToSet(runs)]
      BY <2>1, LenProperties
    <3> HIDE DEF N
    <3>2. QED
      BY <3>1, <2>2
  <2> HIDE DEF N, all
  <2>4. QED
    BY <1>1, <2>3, SeqDef
<1>3. /\ runs' \in Seq(all) /\ Len(runs') = N + 1 /\ runs'[N + 1] = run
      /\ \A i \in 1..N : runs'[i] = runs[i]
  <2>1. run \in all
    OBVIOUS
  <2> HIDE DEF all
  <2>2. QED
    BY <1>2, <2>1, AppendProperties
<1>4. DOMAIN runs' = 1..(N + 1) /\ \A i \in DOMAIN runs' : i \in DOMAIN runs \/ i = N + 1
  <2>1. DOMAIN runs' = 1..Len(runs')
    BY <1>3, LenProperties
  <2> HIDE DEF N
  <2>2. QED
    BY <1>1, <1>3, <2>1
<1>5. runs' \in Seq(ToSet(runs'))
  <2> HIDE DEF all
  <2> QED
    BY <1>3, SeqOfElements
<1> HIDE DEF N, all
<1>6. ASSUME NEW i \in DOMAIN runs'
      PROVE  /\ runs'[i].config = ConfigOf(i - 1)'
             /\ IsFiniteSet(DOMAIN runs'[i].stakes)
             /\ runs'[i].stakes \in [DOMAIN runs'[i].stakes -> Nat]
             /\ args'.source = "file" =>
                  file' # None /\ runs'[i].stakes = Cluster(file', args'.filterZero)
             /\ runs'[i].origin # None =>
                  HasRank(runs'[i].origin, runs'[i].config.origin_rank, runs'[i].stakes)
  <2>1. ConfigOf(i - 1)' = ConfigOf(i - 1)
    BY <1>0, ConfigKept
  <2>2. CASE i \in DOMAIN runs
    <3>1. runs'[i] = runs[i]
      BY <1>1, <1>3, <2>2
    <3>2. /\ runs[i].config = ConfigOf(i - 1)
          /\ IsFiniteSet(DOMAIN runs[i].stakes) /\ runs[i].stakes \in [DOMAIN runs[i].stakes -> Nat]
          /\ args.source = "file" => file # None /\ runs[i].stakes = Cluster(file, args.filterZero)
      BY <2>2 DEF RunsAsAsked
    <3>3. runs[i].origin # None =>
            HasRank(runs[i].origin, runs[i].config.origin_rank, runs[i].stakes)
      <4> SUFFICES ASSUME runs[i].origin # None
                   PROVE  HasRank(runs[i].origin, runs[i].config.origin_rank, runs[i].stakes)
        OBVIOUS
      <4>1. QED
        BY <2>2 DEF OriginAsRanked, HasRank
    <3>4. QED
      BY <1>0, <2>1, <3>1, <3>2, <3>3
  <2>3. CASE i = N + 1
    <3>1. runs'[i] = run /\ i - 1 = Len(runs)
      BY <1>1, <1>3, <2>3 DEF N
    <3>2. QED
      BY <1>0, <2>1, <3>1 DEF IsRunOf, AreStakes
  <2>4. QED
    BY <1>4, <2>2, <2>3
<1>7. RunsAsAsked'
  BY <1>5, <1>6 DEF RunsAsAsked
<1>8. OriginAsRanked'
  BY <1>6 DEF OriginAsRanked, HasRank
<1>9. runs' # <<>> /\ runs'[Len(runs')] = run
  BY <1>1, <1>3, EmptySeq
<1>10. QED
  BY <1>7, <1>8, <1>9

-----------------------------------------------------------------------------
(* The invariant.                                                          *)

\* It holds initially.
LEMMA SweepInit == Init => SweepInv
<1> SUFFICES ASSUME Init PROVE SweepInv
  OBVIOUS
<1>1. args \in ArgSets /\ file = None /\ runs = <<>>
  BY DEF Init
<1>2. pc = (IF args.source = "file" THEN "write" ELSE "parse")
  BY DEF Init
<1>3. (pc = "write" => args.source = "file") /\ pc # "run" /\ pc # "panicked"
  BY <1>2
<1>4. args.source = "file" => pc = "write"
  BY <1>2
<1>5. DOMAIN runs = {}
  BY <1>1
<1>6. RunsAsAsked
  <2>1. runs \in Seq(ToSet(runs))
    BY <1>1, EmptySeq
  <2>2. QED
    BY <1>5, <2>1 DEF RunsAsAsked
<1>7. OriginAsRanked
  BY <1>5 DEF OriginAsRanked
<1>8. FileAsAsked
  BY <1>1, <1>4 DEF FileAsAsked
<1>9. PanicsForItsConfig
  BY <1>3 DEF PanicsForItsConfig
<1>10. QED
  BY <1>1, <1>3, <1>6, <1>7, <1>8, <1>9 DEF SweepInv

\* The file stays as it is, once it is written.
LEMMA FileStays ==
  ASSUME FileAsAsked, pc # "write", UNCHANGED <<args, votes, file>>
  PROVE  FileAsAsked'
<1>1. args' = args /\ votes' = votes /\ file' = file
  OBVIOUS
<1>2. QED
  BY <1>1 DEF FileAsAsked

\* Nothing is begun.
LEMMA RunsStay ==
  ASSUME RunsAsAsked, OriginAsRanked, UNCHANGED <<args, runs>>,
         file' = file \/ runs = <<>>
  PROVE  RunsAsAsked' /\ OriginAsRanked'
<1>1. args' = args /\ runs' = runs
  OBVIOUS
<1>2. OriginAsRanked'
  BY <1>1 DEF OriginAsRanked
<1>3. runs' \in Seq(ToSet(runs'))
  BY <1>1 DEF RunsAsAsked
<1>4. ASSUME NEW i \in DOMAIN runs'
      PROVE  /\ runs'[i].config = ConfigOf(i - 1)'
             /\ IsFiniteSet(DOMAIN runs'[i].stakes)
             /\ runs'[i].stakes \in [DOMAIN runs'[i].stakes -> Nat]
             /\ args'.source = "file" =>
                  file' # None /\ runs'[i].stakes = Cluster(file', args'.filterZero)
  <2>1. i \in DOMAIN runs /\ runs'[i] = runs[i]
    BY <1>1
  <2>2. ConfigOf(i - 1)' = ConfigOf(i - 1)
    BY <1>1, ConfigKept
  <2>3. /\ runs[i].config = ConfigOf(i - 1)
        /\ IsFiniteSet(DOMAIN runs[i].stakes) /\ runs[i].stakes \in [DOMAIN runs[i].stakes -> Nat]
        /\ args.source = "file" => file # None /\ runs[i].stakes = Cluster(file, args.filterZero)
    BY <2>1 DEF RunsAsAsked
  <2>4. file' = file
    BY <2>1
  <2>5. QED
    BY <1>1, <2>1, <2>2, <2>3, <2>4
<1>5. RunsAsAsked'
  BY <1>3, <1>4 DEF RunsAsAsked
<1>6. QED
  BY <1>2, <1>5

\* A sweep whose origin ranks main has accepted does not index past their list.
LEMMA IndexInList ==
  ASSUME args \in ArgSets, RunsAsAsked, RanksAccepted, Len(runs) < args.numSimulations
  PROVE  ~IndexPanics(Len(runs)) /\ Len(runs) \in Nat
<1>1. Len(runs) \in Nat
  BY SeqFacts DEF RunsAsAsked
<1>2. args.numSimulations \in Nat /\ Len(args.originRanks) \in Nat
  <2>1. args.originRanks \in Seq(Nat) /\ args.numSimulations \in Nat
    BY ArgsFacts
  <2>2. QED
    BY <2>1, SeqFacts
<1>3. QED
  BY <1>1, <1>2 DEF RanksAccepted, IndexPanics

\* Every step keeps it.
LEMMA SweepNext == SweepInv /\ [Next]_vars => SweepInv'
<1> SUFFICES ASSUME SweepInv, [Next]_vars PROVE SweepInv'
  OBVIOUS
<1>1. /\ args \in ArgSets
      /\ pc = "write" => args.source = "file" /\ file = None /\ runs = <<>>
      /\ pc = "run" => RanksAccepted
      /\ FileAsAsked /\ RunsAsAsked /\ OriginAsRanked /\ PanicsForItsConfig
  BY DEF SweepInv
<1>2. CASE WriteAccounts
  <2>1. pc = "write" /\ pc' = "parse" /\ votes' \in Snapshots /\ args' = args /\ runs' = runs
    BY <1>2 DEF WriteAccounts
  <2>2. \/ file' \in Files(ClusterFromRpc(votes', args.write.filterZero),
                           args.write.zeroStakes, args.write.count)
        \/ args.write.count = 0 /\ file' = file
    BY <1>2 DEF WriteAccounts, WritePanics
  <2>3. args.source = "file" /\ file = None /\ runs = <<>>
    BY <1>1, <2>1
  <2>4. FileAsAsked'
    BY <2>1, <2>2, <2>3 DEF FileAsAsked
  <2>5. RunsAsAsked' /\ OriginAsRanked'
    BY <1>1, <2>1, <2>3, RunsStay
  <2>6. PanicsForItsConfig'
    BY <2>1 DEF PanicsForItsConfig
  <2>7. QED
    BY <1>1, <2>1, <2>4, <2>5, <2>6 DEF SweepInv
<1>3. ASSUME UNCHANGED <<args, votes, file, runs>>, pc \in {"parse", "check", "run"},
             pc' \notin {"write", "run", "panicked"}
      PROVE  SweepInv'
  <2>1. args' = args /\ votes' = votes /\ file' = file /\ runs' = runs /\ pc # "write"
    BY <1>3
  <2>2. FileAsAsked'
    BY <1>1, <2>1, FileStays
  <2>3. RunsAsAsked' /\ OriginAsRanked'
    BY <1>1, <2>1, RunsStay
  <2>4. PanicsForItsConfig'
    BY <1>3 DEF PanicsForItsConfig
  <2>5. QED
    BY <1>1, <1>3, <2>1, <2>2, <2>3, <2>4 DEF SweepInv
<1>4. CASE ParseMatches
  <2>1. pc = "parse" /\ UNCHANGED <<args, votes, file, runs>> /\ pc' \in {"check", "refused"}
    BY <1>4 DEF ParseMatches
  <2>2. QED
    BY <1>3, <2>1
<1>5. CASE CheckOriginRanks
  <2>1. pc = "check" /\ args' = args /\ votes' = votes /\ file' = file /\ runs' = runs
    BY <1>5 DEF CheckOriginRanks
  <2>2. CASE RanksAccepted
    <3>1. pc' = "run"
      BY <1>5, <2>2 DEF CheckOriginRanks
    <3>2. FileAsAsked'
      BY <1>1, <2>1, FileStays
    <3>3. RunsAsAsked' /\ OriginAsRanked'
      BY <1>1, <2>1, RunsStay
    <3>4. PanicsForItsConfig'
      BY <3>1 DEF PanicsForItsConfig
    <3>5. RanksAccepted'
      BY <2>1, <2>2 DEF RanksAccepted
    <3>6. QED
      BY <1>1, <2>1, <3>1, <3>2, <3>3, <3>4, <3>5 DEF SweepInv
  <2>3. CASE ~RanksAccepted
    <3>1. pc' = "refused"
      BY <1>5, <2>3 DEF CheckOriginRanks
    <3>2. QED
      BY <1>3, <2>1, <3>1
  <2>4. QED
    BY <2>2, <2>3
<1>6. CASE RunSimulation
  <2>1. /\ pc = "run" /\ Len(runs) < args.numSimulations /\ ~IndexPanics(Len(runs))
        /\ args.source = "rpc" \/ file # None
        /\ args' = args /\ votes' = votes /\ file' = file
    BY <1>6 DEF RunSimulation
  <2> DEFINE config == ConfigOf(Len(runs))
  <2>2. PICK stakes \in Found : Simulate(config, stakes)
    BY <1>6 DEF RunSimulation
  <2>3. Len(runs) \in Nat
    BY <1>1, SeqFacts DEF RunsAsAsked
  <2>4. config \in [Fields -> Nat]
    BY <1>1, <2>1, <2>3, ConfigType
  <2>5. /\ AreStakes(stakes)
        /\ args.source = "file" => file # None /\ stakes = Cluster(file, args.filterZero)
    BY <1>1, <2>1, FoundFacts
  <2>6. /\ pc' \in {"run", "panicked"}
        /\ \E run : /\ runs' = Append(runs, run) /\ IsRunOf(run, config, stakes)
                    /\ pc' = "panicked" => Unfit(run)
    <3> HIDE DEF config
    <3> QED
      BY <1>1, <2>2, <2>4, <2>5, SimulateFacts
  <2>7. PICK run : /\ runs' = Append(runs, run) /\ IsRunOf(run, config, stakes)
                   /\ pc' = "panicked" => Unfit(run)
    BY <2>6
  <2>8. RunsAsAsked' /\ OriginAsRanked' /\ runs' # <<>> /\ runs'[Len(runs')] = run
    BY <1>1, <2>1, <2>5, <2>7, RunAppended
  <2> HIDE DEF config
  <2>9. PanicsForItsConfig'
    <3>1. Unfit(run)' <=> Unfit(run)
      BY <2>1, UnfitKept
    <3>2. QED
      BY <2>7, <2>8, <3>1 DEF PanicsForItsConfig
  <2>10. FileAsAsked'
    BY <1>1, <2>1, FileStays
  <2>11. RanksAccepted'
    BY <1>1, <2>1 DEF RanksAccepted
  <2>12. QED
    BY <1>1, <2>1, <2>6, <2>8, <2>9, <2>10, <2>11 DEF SweepInv
<1>7. CASE NoSimulation
  <2>1. /\ pc = "run" /\ Len(runs) < args.numSimulations
        /\ args' = args /\ votes' = votes /\ file' = file /\ runs' = runs
        /\ \/ IndexPanics(Len(runs)) \/ args.source \in {"rpc", "unnamed file"} \/ file = None
        /\ pc' = IF args.source = "rpc" /\ ~IndexPanics(Len(runs)) THEN "unanswered"
                 ELSE IF args.source = "unnamed file" /\ ~IndexPanics(Len(runs)) THEN "refused"
                 ELSE "panicked"
    BY <1>7 DEF NoSimulation
  <2>2. ~IndexPanics(Len(runs))
    BY <1>1, <2>1, IndexInList
  <2>3. CASE args.source \in {"rpc", "unnamed file"}
    <3>1. pc' \in {"unanswered", "refused"}
      BY <2>1, <2>2, <2>3
    <3>2. QED
      BY <1>3, <2>1, <3>1
  <2>4. CASE args.source \notin {"rpc", "unnamed file"}
    <3>1. args.source = "file" /\ file = None /\ pc' = "panicked"
      BY <1>1, <2>1, <2>2, <2>4, ArgsFacts
    <3>2. args.write.count = 0
      BY <1>1, <2>1, <3>1, WrittenFacts DEF FileAsAsked
    <3>3. PanicsForItsConfig'
      BY <2>1, <3>1, <3>2 DEF PanicsForItsConfig
    <3>4. FileAsAsked'
      BY <1>1, <2>1, FileStays
    <3>5. RunsAsAsked' /\ OriginAsRanked'
      BY <1>1, <2>1, RunsStay
    <3>6. QED
      BY <1>1, <2>1, <3>1, <3>3, <3>4, <3>5 DEF SweepInv
  <2>5. QED
    BY <2>3, <2>4
<1>8. CASE EndSweep
  <2>1. /\ pc = "run" /\ args' = args /\ votes' = votes /\ file' = file /\ runs' = runs
        /\ \/ pc' = "done"
           \/ runs # <<>> /\ StrandedTooNarrow /\ pc' = "panicked"
    BY <1>8 DEF EndSweep
  <2>2. CASE pc' = "done"
    BY <1>3, <2>1, <2>2
  <2>3. CASE runs # <<>> /\ StrandedTooNarrow /\ pc' = "panicked"
    <3> DEFINE last == runs[Len(runs)]
    <3>1. Unfit(last)
      BY <1>1, <2>3, NarrowIsMisfit DEF Unfit
    <3>2. Unfit(last)'
      <4>1. last' = last
        BY <2>1
      <4> HIDE DEF last
      <4>2. QED
        BY <2>1, <3>1, <4>1, UnfitKept
    <3>3. PanicsForItsConfig'
      BY <2>1, <2>3, <3>2 DEF PanicsForItsConfig
    <3>4. FileAsAsked'
      BY <1>1, <2>1, FileStays
    <3>5. RunsAsAsked' /\ OriginAsRanked'
      BY <1>1, <2>1, RunsStay
    <3>6. QED
      BY <1>1, <2>1, <2>3, <3>3, <3>4, <3>5 DEF SweepInv
  <2>4. QED
    BY <2>1, <2>2, <2>3
<1>9. CASE UNCHANGED vars
  <2>1. args' = args /\ pc' = pc /\ votes' = votes /\ file' = file /\ runs' = runs
    BY <1>9 DEF vars
  <2>2. RunsAsAsked' /\ OriginAsRanked'
    BY <1>1, <2>1, RunsStay
  <2>3. FileAsAsked'
    BY <1>1, <2>1 DEF FileAsAsked
  <2>4. PanicsForItsConfig'
    <3>1. Unfit(runs[Len(runs)])' <=> Unfit(runs[Len(runs)])
      <4> DEFINE last == runs[Len(runs)]
      <4>1. last' = last
        BY <2>1
      <4> HIDE DEF last
      <4>2. Unfit(last)' <=> Unfit(last)
        BY <2>1, <4>1, UnfitKept
      <4>3. QED
        BY <4>2 DEF last
    <3>2. QED
      BY <1>1, <2>1, <3>1 DEF PanicsForItsConfig
  <2>5. RanksAccepted' <=> RanksAccepted
    BY <2>1 DEF RanksAccepted
  <2>6. QED
    BY <1>1, <2>1, <2>2, <2>3, <2>4, <2>5 DEF SweepInv
<1>10. CASE Ended
  BY <1>9, <1>10 DEF Ended
<1>11. QED
  BY <1>2, <1>4, <1>5, <1>6, <1>7, <1>8, <1>9, <1>10 DEF Next

-----------------------------------------------------------------------------
(* The theorems.                                                           *)

\* The invariant holds throughout: what is in the account file is what
\* write-accounts was answered, and every simulation has the config of its
\* turn and stakes loaded as its source has it.
THEOREM SweepInvariance == Spec => []SweepInv
<1>1. Init => SweepInv
  BY SweepInit
<1>2. SweepInv /\ [Next]_vars => SweepInv'
  BY SweepNext
<1>3. QED
  BY <1>1, <1>2, PTL DEF Spec

\* From one simulation of a sweep to the next only the field under test moves,
\* by the same step, for every step size and start value and however many
\* simulations there are (the loops over i in main).
THEOREM SweepsCompare == Spec => []OneFieldMoves
<1>1. SweepInv => OneFieldMoves
  BY SweepsOneField DEF SweepInv
<1>2. QED
  BY <1>1, SweepInvariance, PTL

\* What main accepted panics only for its config and its cluster (a rank, a
\* fraction to fail or a threshold too great, histograms with no buckets or too
\* many), for a message that stayed with the origin, or for want of a file that
\* was to have no accounts, never for want of an origin rank in the list.
THEOREM PanicsAreForConfigs == Spec => []PanicsForItsConfig
<1>1. SweepInv => PanicsForItsConfig
  BY DEF SweepInv
<1>2. QED
  BY <1>1, SweepInvariance, PTL

\* find_nth_largest_node answers a node of the rank asked for, of clusters of
\* any size, with stakes that are equal or not, in whatever order the map of
\* stakes has them.
THEOREM OriginsHaveTheirRank == Spec => []OriginAsRanked
<1>1. SweepInv => OriginAsRanked
  BY DEF SweepInv
<1>2. QED
  BY <1>1, SweepInvariance, PTL

\* A sweep from a file simulates the nodes and stakes that write-accounts was
\* answered, the same in all its simulations, for every answer of the server:
\* no vote account is lost or counted twice on the way.
THEOREM AccountsAreKept == Spec => []AccountsKept
<1>1. SweepInv => AccountsKept
  BY SweepKeepsAccounts DEF SweepInv
<1>2. QED
  BY <1>1, SweepInvariance, PTL
=============================================================================
