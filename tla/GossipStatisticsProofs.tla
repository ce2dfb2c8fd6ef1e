------------------------ MODULE GossipStatisticsProofs ------------------------
(***************************************************************************)
(* Proofs about GossipStatistics, for a simulation of any length over any  *)
(* cluster: the series that gossip_stats.rs collects have an entry for     *)
(* every measured round and account for the same nodes and the same        *)
(* messages; the histograms built of them hold every value, and their      *)
(* labels say which; the report agrees with the rounds; and a simulation   *)
(* fails to report only where ReportedUnlessAlone says.                    *)
(***************************************************************************)
EXTENDS GossipStatistics, DataProofs

-----------------------------------------------------------------------------
(* Sequences of numbers.                                                   *)

\* SetToSeq lists every element of a finite set once.
LEMMA SetToSeqFacts ==
  ASSUME NEW S, IsFiniteSet(S)
  PROVE  /\ Cardinality(S) \in Nat
         /\ SetToSeq(S) \in [1..Cardinality(S) -> S]
         /\ DOMAIN SetToSeq(S) = 1..Cardinality(S)
         /\ \A i, j \in 1..Cardinality(S) : SetToSeq(S)[i] = SetToSeq(S)[j] => i = j
         /\ \A x \in S : \E i \in 1..Cardinality(S) : SetToSeq(S)[i] = x
<1> DEFINE D == 1..Cardinality(S)
           r == SetToSeq(S)
<1>1. Cardinality(S) \in Nat /\ ExistsBijection(D, S)
  BY FS_CardinalityType
<1>2. \E f \in [D -> S] : IsInjective(f)
  <2>1. PICK f \in Bijection(D, S) : TRUE
    BY <1>1 DEF ExistsBijection
  <2>2. f \in [D -> S] /\ IsInjective(f)
    BY <2>1 DEF Bijection, Injection
  <2>3. QED
    BY <2>2
<1>3. r \in [D -> S] /\ IsInjective(r)
  BY <1>2 DEF SetToSeq
<1> HIDE DEF r
<1>4. r \in SetToSeqs(S)
  BY <1>3 DEF SetToSeqs, IsInjective
<1>5. /\ \A i, j \in D : r[i] = r[j] => i = j
      /\ \A x \in S : \E i \in D : r[i] = x
  BY <1>4, ListingFacts
<1>6. QED
  BY <1>1, <1>3, <1>5 DEF r

\* The values of a map, one for each key.
LEMMA ValuesFacts ==
  ASSUME NEW D, IsFiniteSet(D), NEW T, NEW f \in [D -> T]
  PROVE  /\ Values(f) \in Seq(T)
         /\ Len(Values(f)) = Cardinality(D) /\ Cardinality(D) \in Nat
         /\ \A i \in 1..Cardinality(D) : Values(f)[i] = f[SetToSeq(D)[i]]
<1> DEFINE N == Cardinality(D)
           keys == SetToSeq(D)
<1>1. N \in Nat /\ keys \in [1..N -> D]
  BY SetToSeqFacts
<1> HIDE DEF keys, N
<1>2. Values(f) = [i \in 1..N |-> f[keys[i]]]
  <2>1. DOMAIN f = D /\ DOMAIN keys = 1..N
    BY <1>1
  <2>2. QED
    BY <2>1 DEF Values, keys
<1>3. Values(f) \in Seq(T) /\ Len(Values(f)) = N
  <2>1. [i \in 1..N |-> f[keys[i]]] \in [1..N -> T]
    BY <1>1
  <2> DEFINE s == [i \in 1..N |-> f[keys[i]]]
  <2>2. s \in Seq(T) /\ DOMAIN s = 1..N
    BY <1>1, <2>1, SeqDef
  <2> HIDE DEF s
  <2>3. Len(s) \in Nat /\ 1..Len(s) = 1..N
    BY <2>2, LenProperties
  <2>4. Len(s) = N
    BY <1>1, <2>3, SameInterval
  <2>5. QED
    BY <1>2, <2>2, <2>4 DEF s
<1>4. QED
  BY <1>1, <1>2, <1>3 DEF N, keys

\* The positions of the first k values that are not left out, and what has been
\* kept of them.
Positions(values, left, k) == {j \in 1..k : values[j] \notin left}
IsKept(s, k, values, left, T) ==
  s \in Seq(T \ left) /\ Len(s) = Cardinality(Positions(values, left, k))

\* r is where they have been.
Whence(r, s, k, values, left) ==
  /\ r \in [1..Len(s) -> Positions(values, left, k)]
  /\ \A i, j \in 1..Len(s) : r[i] = r[j] => i = j
  /\ \A p \in Positions(values, left, k) : \E i \in 1..Len(s) : r[i] = p
  /\ \A i \in 1..Len(s) : s[i] = values[r[i]]
IsKeptFrom(s, k, values, left, T) ==
  IsKept(s, k, values, left, T) /\ \E r : Whence(r, s, k, values, left)

\* One value more.
LEMMA KeptNext ==
  ASSUME NEW T, NEW values \in Seq(T), NEW left, NEW k \in 1..Len(values),
         NEW s, IsKept(s, k - 1, values, left, T)
  PROVE  IsKept(IF values[k] \in left THEN s ELSE Append(s, values[k]), k, values, left, T)
<1> DEFINE P == Positions(values, left, k - 1)
           Q == Positions(values, left, k)
<1>1. values[k] \in T /\ k \in Nat /\ k - 1 \in Nat /\ Len(values) \in Nat
  BY LenProperties
<1>2. IsFiniteSet(P) /\ Cardinality(P) \in Nat /\ k \notin P
  <2>1. 1 \in Int /\ k - 1 \in Int /\ k \notin 1..(k - 1)
    BY <1>1
  <2>2. IsFiniteSet(1..(k - 1))
    BY <2>1, FS_Interval
  <2>3. QED
    BY <2>1, <2>2, FS_Subset, FS_CardinalityType DEF Positions
<1>3. s \in Seq(T \ left) /\ Len(s) = Cardinality(P)
  BY DEF IsKept
<1>4. 1..k = 1..(k - 1) \cup {k}
  BY <1>1
<1>5. CASE values[k] \in left
  <2>1. Q = P
    BY <1>4, <1>5 DEF Positions
  <2>2. QED
    BY <1>3, <1>5, <2>1 DEF IsKept
<1>6. CASE values[k] \notin left
  <2>1. Q = P \cup {k}
    BY <1>4, <1>6 DEF Positions
  <2> HIDE DEF P, Q
  <2>2. Cardinality(Q) = Cardinality(P) + 1
    BY <1>2, <2>1, FS_AddElement
  <2>3. Append(s, values[k]) \in Seq(T \ left) /\ Len(Append(s, values[k])) = Len(s) + 1
    <3>1. values[k] \in T \ left
      BY <1>1, <1>6
    <3>2. QED
      BY <1>3, <3>1, AppendProperties
  <2>4. QED
    BY <1>3, <1>6, <2>2, <2>3 DEF IsKept, Q
<1>7. QED
  BY <1>5, <1>6

\* And one more place it has been.
LEMMA WhenceNext ==
  ASSUME NEW T, NEW values \in Seq(T), NEW left, NEW k \in 1..Len(values),
         NEW s, IsKeptFrom(s, k - 1, values, left, T)
  PROVE  IsKeptFrom(IF values[k] \in left THEN s ELSE Append(s, values[k]), k, values, left, T)
<1> DEFINE P == Positions(values, left, k - 1)
           Q == Positions(values, left, k)
           t == IF values[k] \in left THEN s ELSE Append(s, values[k])
<1>1. /\ values[k] \in T /\ k \in Nat /\ k - 1 \in Nat /\ k \notin P
      /\ 1..k = 1..(k - 1) \cup {k}
  BY LenProperties DEF Positions
<1>2. IsKept(s, k - 1, values, left, T) /\ s \in Seq(T \ left)
  BY DEF IsKeptFrom, IsKept
<1>3. PICK r : Whence(r, s, k - 1, values, left)
  BY DEF IsKeptFrom
<1>4. IsKept(t, k, values, left, T)
  BY <1>2, KeptNext
<1>5. CASE values[k] \in left
  <2>1. Q = P /\ t = s
    BY <1>1, <1>5 DEF Positions
  <2>2. Whence(r, s, k, values, left)
    BY <1>3, <2>1 DEF Whence
  <2>3. QED
    BY <1>4, <2>1, <2>2 DEF IsKeptFrom
<1>6. CASE values[k] \notin left
  <2> DEFINE N == Len(s)
             more == [i \in 1..(N + 1) |-> IF i = N + 1 THEN k ELSE r[i]]
  <2>1. Q = P \cup {k}
    BY <1>1, <1>6 DEF Positions
  <2>2. t = Append(s, values[k])
    BY <1>6
  <2>3. /\ N \in Nat /\ Len(t) = N + 1 /\ t[N + 1] = values[k]
        /\ \A i \in 1..N : t[i] = s[i]
    <3>1. values[k] \in T \ left
      BY <1>1, <1>6
    <3>2. QED
      BY <1>2, <2>2, <3>1, AppendProperties, LenProperties
  <2>4. /\ r \in [1..N -> P] /\ \A i, j \in 1..N : r[i] = r[j] => i = j
        /\ \A p \in P : \E i \in 1..N : r[i] = p
        /\ \A i \in 1..N : s[i] = values[r[i]]
    BY <1>3 DEF Whence
  <2> HIDE DEF N, P, Q, t
  <2>5. /\ \A i \in 1..(N + 1) : i = N + 1 \/ i \in 1..N
        /\ \A i \in 1..N : i \in 1..(N + 1) /\ i # N + 1
        /\ N + 1 \in 1..(N + 1)
    BY <2>3
  <2>6. \A i \in 1..N : more[i] = r[i] /\ r[i] \in P /\ r[i] # k
    BY <1>1, <2>4, <2>5 DEF P
  <2>7. more[N + 1] = k
    BY <2>5
  <2>8. more \in [1..(N + 1) -> Q]
    BY <2>1, <2>4, <2>5
  <2> HIDE DEF more
  <2>9. \A i, j \in 1..(N + 1) : more[i] = more[j] => i = j
    BY <2>4, <2>5, <2>6, <2>7
  <2>10. \A p \in Q : \E i \in 1..(N + 1) : more[i] = p
    BY <2>1, <2>4, <2>5, <2>6, <2>7
  <2>11. \A i \in 1..(N + 1) : t[i] = values[more[i]]
    BY <2>3, <2>4, <2>5, <2>6, <2>7
  <2>12. Whence(more, t, k, values, left)
    BY <2>3, <2>8, <2>9, <2>10, <2>11 DEF Whence, Q
  <2>13. QED
    BY <1>4, <2>12 DEF IsKeptFrom, t
<1>7. QED
  BY <1>5, <1>6

\* Without keeps a value for each position that is not left out.
LEMMA WithoutKeeps ==
  ASSUME NEW T, NEW values \in Seq(T), NEW left
  PROVE  IsKeptFrom(Without(values, left), Len(values), values, left, T)
<1> DEFINE N == Len(values)
           Step(i, s) == IF values[i] \in left THEN s ELSE Append(s, values[i])
           S == Seq(T \ left)
           F == [i \in 1..N |-> [s \in S |-> Step(i, s)]]
<1>1. N \in Nat /\ \A i \in 1..N : values[i] \in T
  BY LenProperties
<1>2. F \in StepsOn(N, S) /\ <<>> \in S
  <2>1. \A i \in 1..N : \A s \in S : Step(i, s) \in S
    <3> TAKE i \in 1..N
    <3> TAKE s \in S
    <3>1. CASE values[i] \in left
      BY <3>1
    <3>2. CASE values[i] \notin left
      <4>1. values[i] \in T \ left
        BY <1>1, <3>2
      <4>2. Append(s, values[i]) \in S
        BY <4>1, AppendProperties
      <4>3. QED
        BY <3>2, <4>2
    <3>3. QED
      BY <3>1, <3>2
  <2>2. <<>> \in S
    BY EmptySeq
  <2> HIDE DEF S, Step
  <2>3. QED
    BY <2>1, <2>2 DEF StepsOn
<1>3. PICK f : IsRun(f, N, S, <<>>, F)
  <2> HIDE DEF N, F, S
  <2> QED
    BY <1>1, <1>2, NatRecursion
<1>4. f \in [0..N -> S] /\ f[0] = <<>> /\ \A k \in 1..N : f[k] = F[k][f[k - 1]]
  BY <1>3 DEF IsRun
<1> HIDE DEF S
<1>5. \A k \in 1..N : f[k] = Step(k, f[k - 1])
  <2> SUFFICES ASSUME NEW k \in 1..N PROVE f[k] = Step(k, f[k - 1])
    OBVIOUS
  <2>1. k - 1 \in 0..N
    BY <1>1
  <2>2. f[k - 1] \in S
    BY <1>4, <2>1
  <2>3. F[k][f[k - 1]] = Step(k, f[k - 1])
    BY <2>2
  <2>4. QED
    BY <1>4, <2>3
<1>6. f = [k \in 0..N |-> IF k = 0 THEN <<>> ELSE Step(k, f[k - 1])]
  <2> DEFINE g == [k \in 0..N |-> IF k = 0 THEN <<>> ELSE Step(k, f[k - 1])]
  <2>1. \A k \in 0..N : k # 0 => k \in 1..N
    BY <1>1
  <2>2. \A k \in 0..N : f[k] = g[k]
    <3> HIDE DEF Step, N
    <3> QED
      BY <1>4, <1>5, <2>1
  <2>3. QED
    <3> HIDE DEF Step, N
    <3> QED
      BY <1>4, <2>2
<1> DEFINE Equation(g) == g = [k \in 0..N |-> IF k = 0 THEN <<>> ELSE Step(k, g[k - 1])]
           B == CHOOSE g : Equation(g)
<1>7. Without(values, left) = B[N]
  BY DEF Without
<1>8. Equation(B)
  <2>1. Equation(f)
    BY <1>6
  <2> HIDE DEF Equation
  <2>2. QED
    BY <2>1
<1> DEFINE Bad == {k \in 0..N : ~IsKeptFrom(B[k], k, values, left, T)}
<1>9. Bad = {}
  <2> SUFFICES ASSUME Bad # {} PROVE FALSE
    OBVIOUS
  <2> HIDE DEF B
  <2>1. PICK k \in Bad : \A j \in Bad : k <= j
    <3>1. Bad \in SUBSET Nat
      BY <1>1
    <3> HIDE DEF Bad
    <3>2. QED
      BY <3>1, LeastNatural
  <2>2. B[0] = <<>>
    <3> HIDE DEF Step
    <3>1. 0 \in 0..N
      BY <1>1
    <3>2. QED
      BY <1>8, <3>1
  <2>3. k # 0
    <3>1. IsKeptFrom(<<>>, 0, values, left, T)
      <4>1. <<>> \in Seq(T \ left) /\ Len(<<>>) = 0 /\ 1..0 = {}
        BY EmptySeq
      <4>2. Positions(values, left, 0) = {}
        BY <4>1 DEF Positions
      <4>3. IsKept(<<>>, 0, values, left, T)
        BY <4>1, <4>2, FS_EmptySet DEF IsKept
      <4>4. Whence(<<>>, <<>>, 0, values, left)
        <5>1. 1..Len(<<>>) = {} /\ <<>> \in [{} -> {}]
          BY <4>1
        <5>2. QED
          BY <4>2, <5>1 DEF Whence
      <4>5. QED
        BY <4>3, <4>4 DEF IsKeptFrom
    <3>2. QED
      BY <2>2, <3>1
  <2>4. k \in 1..N /\ k - 1 \in 0..N /\ ~(k <= k - 1)
    BY <1>1, <2>3
  <2>5. IsKeptFrom(B[k - 1], k - 1, values, left, T)
    BY <2>1, <2>4
  <2>6. B[k] = Step(k, B[k - 1])
    <3> HIDE DEF Step
    <3>1. k \in 0..N
      BY <2>4
    <3>2. QED
      BY <1>8, <2>3, <3>1
  <2>7. IsKeptFrom(B[k], k, values, left, T)
    BY <2>4, <2>5, <2>6, WhenceNext
  <2>8. QED
    BY <2>7
<1>10. N \in 0..N
  BY <1>1
<1>11. QED
  BY <1>7, <1>9, <1>10

\* In particular as many.
LEMMA WithoutFacts ==
  ASSUME NEW T, NEW values \in Seq(T), NEW left
  PROVE  IsKept(Without(values, left), Len(values), values, left, T)
BY WithoutKeeps DEF IsKeptFrom

\* The keys of a map whose values are not left out.
KeysKept(f, D, left) == {x \in D : f[x] \notin left}

\* Of a map it keeps as many values as there are such keys.
LEMMA ValuesKept ==
  ASSUME NEW D, IsFiniteSet(D), NEW T, NEW f \in [D -> T], NEW left
  PROVE  /\ Without(Values(f), left) \in Seq(T \ left)
         /\ Len(Without(Values(f), left)) = Cardinality(KeysKept(f, D, left))
<1> DEFINE N == Cardinality(D)
           keys == SetToSeq(D)
           values == Values(f)
           P == Positions(values, left, N)
<1>1. /\ N \in Nat /\ keys \in [1..N -> D]
      /\ \A i, j \in 1..N : keys[i] = keys[j] => i = j
      /\ \A x \in D : \E i \in 1..N : keys[i] = x
  BY SetToSeqFacts
<1>2. values \in Seq(T) /\ Len(values) = N /\ \A i \in 1..N : values[i] = f[keys[i]]
  BY ZenonT(60), ValuesFacts
<1> HIDE DEF N, keys, values
<1>3. Without(values, left) \in Seq(T \ left) /\ Len(Without(values, left)) = Cardinality(P)
  BY <1>2, WithoutFacts DEF IsKept
<1>4. IsFiniteSet(P) /\ P \subseteq 1..N
  <2>1. 1 \in Int /\ N \in Int
    BY <1>1
  <2>2. IsFiniteSet(1..N)
    BY <2>1, FS_Interval
  <2>3. QED
    BY <2>2, FS_Subset DEF Positions
<1>5. {keys[i] : i \in P} = KeysKept(f, D, left)
  BY <1>1, <1>2 DEF Positions, KeysKept
<1>6. \A i, j \in P : keys[i] = keys[j] => i = j
  BY <1>1, <1>4
<1> HIDE DEF P
<1>7. Cardinality({keys[i] : i \in P}) = Cardinality(P)
  BY <1>4, <1>6, FiniteImage
<1>8. QED
  BY <1>3, <1>5, <1>7 DEF values

-----------------------------------------------------------------------------
(* Sums over a series.                                                     *)

\* One entry more adds its value to the sum over a series.
LEMMA SumAppended ==
  ASSUME NEW n \in Nat, NEW f, NEW g, NEW v \in Nat,
         \A i \in 1..n : f[i] \in Nat /\ g[i] = f[i], g[n + 1] = v
  PROVE  /\ SumFunctionOnSet(f, 1..n) \in Nat
         /\ SumFunctionOnSet(g, 1..(n + 1)) = SumFunctionOnSet(f, 1..n) + v
<1> DEFINE D == 1..n
           y == n + 1
<1>1. IsFiniteSet(D)
  <2>1. 1 \in Int /\ n \in Int
    OBVIOUS
  <2>2. QED
    BY <2>1, FS_Interval
<1>2. y \notin D /\ 1..(n + 1) = D \cup {y}
  OBVIOUS
<1>3. /\ \A i \in D : f[i] \in Nat /\ f[i] = g[i]
      /\ \A i \in D \cup {y} : g[i] \in Nat
      /\ g[y] = v
  OBVIOUS
<1> HIDE DEF D, y
<1>4. SumFunctionOnSet(f, D) \in Nat
  BY <1>1, <1>3, SumType
<1>5. SumFunctionOnSet(f, D) = SumFunctionOnSet(g, D)
  BY <1>1, <1>3, SumEqual
<1>6. SumFunctionOnSet(g, D \cup {y}) = g[y] + SumFunctionOnSet(g, D)
  BY <1>1, <1>2, <1>3, SumAdd
<1>7. SumFunctionOnSet(g, D \cup {y}) = SumFunctionOnSet(f, D) + v
  BY <1>3, <1>4, <1>5, <1>6
<1>8. QED
  BY <1>2, <1>4, <1>7 DEF D

\* The parameters of a simulation.
LEMMA StatisticsConstants ==
  /\ IsFiniteSet(Nodes) /\ Origin \in Nodes /\ Unreached \notin Nat
  /\ \A n \in Nodes : Stakes[n] \in Nat
  /\ {Iterations, WarmUp, WhenToFail} \subseteq Nat
  /\ Cardinality(Nodes) \in Nat /\ NumToFail \in 0..Cardinality(Nodes)
<1>1. IsFiniteSet(Nodes) /\ Stakes \in [Nodes -> Nat]
  BY StatisticsAssumption
<1>2. Cardinality(Nodes) \in Nat
  BY <1>1, FS_CardinalityType
<1>3. QED
  BY <1>1, <1>2, StatisticsAssumption

\* The statistics of a round's stranded nodes hold their number and their stake.
LEMMA StrandedStatsFacts ==
  ASSUME NEW S \in SUBSET Nodes
  PROVE  LET stats == StrandedNodeStats(SetToSeq(S), Stakes)
         IN  stats.sum = SumFunctionOnSet(Stakes, S) /\ stats.count = Cardinality(S)
<1> DEFINE N == Cardinality(S)
           D == 1..N
           r == SetToSeq(S)
           values == [i \in 1..Len(r) |-> Stakes[r[i]]]
<1>1. IsFiniteSet(S) /\ \A n \in S : Stakes[n] \in Nat
  BY StatisticsConstants, FS_Subset
<1>2. /\ N \in Nat /\ r \in [D -> S]
      /\ \A i, j \in D : r[i] = r[j] => i = j
      /\ \A x \in S : \E i \in D : r[i] = x
  BY <1>1, SetToSeqFacts
<1>3. Len(r) = N
  <2> HIDE DEF r, N
  <2>1. r \in Seq(S) /\ DOMAIN r = 1..N
    BY <1>2, SeqDef
  <2>2. Len(r) \in Nat /\ 1..Len(r) = 1..N
    BY <2>1, LenProperties
  <2>3. QED
    BY <1>2, <2>2, SameInterval
<1>4. DOMAIN values = D /\ Len(values) = N
  <2> HIDE DEF r, N
  <2>1. values = [i \in 1..N |-> Stakes[r[i]]]
    BY <1>3
  <2>2. values \in [1..N -> Nat]
    BY <1>1, <1>2, <2>1
  <2> HIDE DEF values
  <2>3. values \in Seq(Nat) /\ DOMAIN values = 1..N
    BY <1>2, <2>2, SeqDef
  <2>4. Len(values) \in Nat /\ 1..Len(values) = 1..N
    BY <2>3, LenProperties
  <2>5. QED
    BY <1>2, <2>3, <2>4, SameInterval
<1>5. IsFiniteSet(D)
  <2>1. 1 \in Int /\ N \in Int
    BY <1>2
  <2> HIDE DEF N
  <2>2. QED
    BY <2>1, FS_Interval
<1>6. \A i \in D : values[i] \in Nat /\ values[i] = Stakes[r[i]]
  BY <1>1, <1>2, <1>3
<1>7. {r[i] : i \in D} = S
  BY <1>2
<1>8. /\ StrandedNodeStats(r, Stakes).sum = SumFunctionOnSet(values, D)
      /\ StrandedNodeStats(r, Stakes).count = N
  BY <1>4 DEF StrandedNodeStats, Summary, SumFunction
<1> HIDE DEF values, D, r
<1>9. SumFunctionOnSet(values, D) = SumFunctionOnSet(Stakes, {r[i] : i \in D})
  BY SMTT(60), <1>2, <1>5, <1>6, SumImage
<1>10. QED
  BY <1>7, <1>8, <1>9 DEF r

\* A map from nodes to numbers that grows by the numbers of some nodes grows by
\* their sum.
LEMMA SumGrown ==
  ASSUME NEW D \in SUBSET Nodes, NEW S \in SUBSET Nodes, NEW f, NEW g, NEW w,
         \A n \in D : f[n] \in Nat, \A n \in S : w[n] \in Nat,
         \A n \in D \cup S : g[n] = (IF n \in D THEN f[n] ELSE 0) + (IF n \in S THEN w[n] ELSE 0)
  PROVE  /\ SumFunctionOnSet(f, D) \in Nat /\ SumFunctionOnSet(w, S) \in Nat
         /\ SumFunctionOnSet(g, D \cup S) = SumFunctionOnSet(f, D) + SumFunctionOnSet(w, S)
<1> DEFINE U == D \cup S
           old == [n \in U |-> IF n \in D THEN f[n] ELSE 0]
           new == [n \in U |-> IF n \in S THEN w[n] ELSE 0]
<1>1. IsFiniteSet(U) /\ IsFiniteSet(D) /\ IsFiniteSet(S) /\ IsFiniteSet(U \ D) /\ IsFiniteSet(U \ S)
      /\ D \in SUBSET U /\ S \in SUBSET U
  <2>1. U \subseteq Nodes /\ U \ D \subseteq Nodes /\ U \ S \subseteq Nodes
    OBVIOUS
  <2>2. QED
    BY <2>1, StatisticsConstants, FS_Subset
<1>2. \A n \in U : old[n] \in Nat /\ new[n] \in Nat /\ g[n] = old[n] + new[n]
  OBVIOUS
<1>3. /\ \A n \in D : f[n] \in Nat /\ f[n] = old[n]
      /\ \A n \in S : w[n] \in Nat /\ w[n] = new[n]
      /\ \A n \in U \ D : old[n] = 0
      /\ \A n \in U \ S : new[n] = 0
  OBVIOUS
<1> HIDE DEF U, old, new
<1>4. SumFunctionOnSet(g, U) = SumFunctionOnSet(old, U) + SumFunctionOnSet(new, U)
  BY <1>1, <1>2, SumPlus
<1>5. SumFunctionOnSet(f, D) \in Nat /\ SumFunctionOnSet(w, S) \in Nat
  BY <1>1, <1>3, SumType
<1>6. SumFunctionOnSet(old, U) = SumFunctionOnSet(f, D)
  <2>1. SumFunctionOnSet(old, U) = SumFunctionOnSet(old, D) + SumFunctionOnSet(old, U \ D)
    BY <1>1, <1>2, SumSubset
  <2>2. SumFunctionOnSet(f, D) = SumFunctionOnSet(old, D)
    BY <1>1, <1>3, SumEqual
  <2>3. SumFunctionOnSet(old, U \ D) = 0
    BY <1>1, <1>3, SumZero
  <2>4. QED
    BY <1>5, <2>1, <2>2, <2>3
<1>7. SumFunctionOnSet(new, U) = SumFunctionOnSet(w, S)
  <2>1. SumFunctionOnSet(new, U) = SumFunctionOnSet(new, S) + SumFunctionOnSet(new, U \ S)
    BY <1>1, <1>2, SumSubset
  <2>2. SumFunctionOnSet(w, S) = SumFunctionOnSet(new, S)
    BY <1>1, <1>3, SumEqual
  <2>3. SumFunctionOnSet(new, U \ S) = 0
    BY <1>1, <1>3, SumZero
  <2>4. QED
    BY <1>5, <2>1, <2>2, <2>3
<1>8. QED
  BY <1>4, <1>5, <1>6, <1>7 DEF U

-----------------------------------------------------------------------------
(* The steps around a measured round.                                      *)

\* The origin, and nobody else, is at 0 hops.
LEMMA HopsAtZero ==
  ASSUME NEW links \in [Nodes -> SUBSET Nodes]
  PROVE  LET h == HopsFrom(links, Origin, Nodes, Unreached)
         IN  h \in [Nodes -> Nat \cup {Unreached}] /\ \A n \in Nodes : h[n] = 0 <=> n = Origin
<1> DEFINE h == HopsFrom(links, Origin, Nodes, Unreached)
           ball == Balls(links, Origin, Nodes)
           N == Cardinality(Nodes)
           rounds(n) == {k \in 0..N : n \in ball[k]}
<1>1. h \in [Nodes -> Nat \cup {Unreached}]
  <2>1. Reaches(h, links, Origin, Nodes, Unreached)
    BY StatisticsConstants, HopsFromReaches
  <2>2. QED
    BY <2>1 DEF Reaches
<1>2. N \in Nat /\ ball[0] = {Origin}
  BY StatisticsConstants, BallsGrow
<1>3. h = [n \in Nodes |-> IF rounds(n) = {} THEN Unreached ELSE Min(rounds(n))]
  BY DEF HopsFrom
<1> HIDE DEF h, ball, N
<1>4. ASSUME NEW n \in Nodes PROVE h[n] = 0 <=> n = Origin
  <2> DEFINE T == rounds(n)
  <2>1. T \in SUBSET Nat /\ h[n] = IF T = {} THEN Unreached ELSE Min(T)
    BY <1>3
  <2>2. 0 \in T <=> n = Origin
    BY <1>2
  <2> HIDE DEF T
  <2>3. CASE T = {}
    BY <2>1, <2>2, <2>3, StatisticsConstants
  <2>4. CASE T # {}
    <3>1. \E k \in T : \A j \in T : k <= j
      BY <2>1, <2>4, LeastNatural
    <3>2. Min(T) \in T /\ \A j \in T : Min(T) <= j
      BY <3>1 DEF Min
    <3>3. Min(T) \in Nat /\ h[n] = Min(T)
      BY <2>1, <2>4, <3>2
    <3>4. Min(T) = 0 <=> 0 \in T
      BY <2>1, <3>2, <3>3
    <3>5. QED
      BY <2>2, <3>3, <3>4
  <2>5. QED
    BY <2>3, <2>4
<1>5. QED
  BY <1>1, <1>4 DEF h

\* What is said of the series stays true where no series changes and no measured
\* round ends.
LEMMA SeriesKept ==
  ASSUME StatisticsInv, UNCHANGED seriesVars, Measured' = Measured
  PROVE  StrandedTwice' /\ RoundsAccount' /\ MessagesAccount'
<1>1. /\ coverage' = coverage /\ hopsStats' = hopsStats /\ rawHops' = rawHops
      /\ strandedStats' = strandedStats /\ timesStranded' = timesStranded
      /\ branching' = branching /\ rmrs' = rmrs
      /\ egress' = egress /\ ingress' = ingress /\ prunesSent' = prunesSent
  BY DEF seriesVars
<1>2. StrandedTwice /\ RoundsAccount /\ MessagesAccount
  BY DEF StatisticsInv
<1>3. StrandedTwice'
  BY <1>1, <1>2 DEF StrandedTwice
<1>4. RoundsAccount'
  BY <1>1, <1>2 DEF RoundsAccount
<1>5. MessagesAccount'
  BY <1>1, <1>2 DEF MessagesAccount
<1>6. QED
  BY <1>3, <1>4, <1>5

\* The types of the series stay as well.
LEMMA SeriesTypesKept ==
  ASSUME TypeOK, UNCHANGED seriesVars,
         iteration' \in 0..Iterations, pc' = "record" => iteration' < Iterations,
         hops' \in [Nodes -> Nat \cup {Unreached}], failed' \in SUBSET Nodes,
         pushes' \in [Nodes -> SUBSET Nodes], pruneCounts' \in [Nodes -> Nat]
  PROVE  TypeOK'
<1>1. /\ coverage' = coverage /\ hopsStats' = hopsStats /\ rawHops' = rawHops
      /\ strandedStats' = strandedStats /\ timesStranded' = timesStranded
      /\ branching' = branching /\ rmrs' = rmrs
      /\ egress' = egress /\ ingress' = ingress /\ prunesSent' = prunesSent
  BY DEF seriesVars
<1>2. QED
  BY <1>1 DEF TypeOK

\* Nor does a step after the rounds, or before them, change anything else that is
\* said.
LEMMA OtherStatistics ==
  ASSUME StatisticsInv, UNCHANGED <<iteration, roundVars, seriesVars>>,
         pc' = pc \/ "record" \notin {pc, pc'}
  PROVE  StatisticsInv'
<1>1. /\ iteration' = iteration /\ failed' = failed /\ hops' = hops
      /\ pushes' = pushes /\ pruneCounts' = pruneCounts
      /\ UNCHANGED seriesVars
  BY DEF roundVars
<1>2. TypeOK /\ OriginAtZero /\ FailedAtOnce
  BY DEF StatisticsInv
<1>3. TypeOK'
  <2>1. iteration' \in 0..Iterations /\ (pc' = "record" => iteration' < Iterations)
    BY <1>1, <1>2 DEF TypeOK
  <2>2. /\ hops' \in [Nodes -> Nat \cup {Unreached}] /\ failed' \in SUBSET Nodes
        /\ pushes' \in [Nodes -> SUBSET Nodes] /\ pruneCounts' \in [Nodes -> Nat]
    BY <1>1, <1>2 DEF TypeOK
  <2>3. QED
    BY <1>1, <1>2, <2>1, <2>2, SeriesTypesKept
<1>4. OriginAtZero'
  BY <1>1, <1>2 DEF OriginAtZero
<1>5. Measured' = Measured
  BY <1>1 DEF Measured
<1>6. StrandedTwice' /\ RoundsAccount' /\ MessagesAccount'
  BY <1>1, <1>5, SeriesKept
<1>7. FailedAtOnce'
  BY <1>1, <1>2 DEF FailedAtOnce
<1>8. QED
  BY <1>3, <1>4, <1>6, <1>7 DEF StatisticsInv

\* Before the first round nothing is counted.
LEMMA InitStatistics == Init => StatisticsInv
<1> SUFFICES ASSUME Init PROVE StatisticsInv
  OBVIOUS
<1>1. /\ pc = "start" /\ iteration = 0 /\ failed = {}
      /\ hops = [n \in Nodes |-> Unreached]
      /\ pushes = [n \in Nodes |-> {}]
      /\ pruneCounts = NoCounts
      /\ coverage = <<>> /\ hopsStats = <<>> /\ rawHops = <<>>
      /\ strandedStats = <<>> /\ timesStranded = <<>>
      /\ branching = <<>> /\ rmrs = <<>>
      /\ egress = NoCounts /\ ingress = NoCounts /\ prunesSent = NoCounts
  BY DEF Init
<1> DEFINE none == <<>>
<1>2. none \in Seq({}) /\ Len(none) = 0 /\ DOMAIN none = {}
  BY EmptySeq
<1>3. \A T : none \in Seq(T)
  BY EmptySeq
<1>4. \A n \in Nodes : NoCounts[n] = 0
  BY DEF NoCounts
<1>5. NoCounts \in [Nodes -> Nat]
  BY DEF NoCounts
<1> HIDE DEF none
<1>6. /\ coverage = none /\ hopsStats = none /\ rawHops = none
      /\ strandedStats = none /\ timesStranded = none
      /\ branching = none /\ rmrs = none
  BY <1>1 DEF none
<1>7. TypeOK
  <2>1. /\ iteration \in 0..Iterations /\ (pc = "record" => iteration < Iterations)
        /\ failed \in SUBSET Nodes /\ hops \in [Nodes -> Nat \cup {Unreached}]
        /\ pushes \in [Nodes -> SUBSET Nodes] /\ pruneCounts \in [Nodes -> Nat]
    BY <1>1, <1>5, StatisticsConstants
  <2>2. /\ coverage \in Seq(Nat) /\ hopsStats \in Seq(ToSet(hopsStats)) /\ rawHops \in Seq(Nat)
        /\ strandedStats \in Seq(ToSet(strandedStats))
        /\ branching \in Seq([edges : Nat, nodes : Nat]) /\ rmrs \in Seq([m : Nat, n : Nat])
    BY <1>3, <1>6
  <2>3. DOMAIN strandedStats = {} /\ DOMAIN timesStranded = {}
    BY <1>2, <1>6
  <2>4. {egress, ingress, prunesSent} \subseteq [Nodes -> Nat]
    BY <1>1, <1>5
  <2>5. QED
    BY <2>1, <2>2, <2>3, <2>4 DEF TypeOK
<1>8. OriginAtZero /\ FailedAtOnce
  BY <1>1 DEF OriginAtZero, FailedAtOnce
<1>9. Measured = 0
  BY <1>1, StatisticsConstants DEF Measured
<1>10. SumFunction(egress) = 0 /\ SumFunction(ingress) = 0 /\ SumFunction(prunesSent) = 0
  <2>1. DOMAIN NoCounts = Nodes
    BY DEF NoCounts
  <2>2. SumFunctionOnSet(NoCounts, Nodes) = 0
    BY <1>4, StatisticsConstants, SumZero
  <2>3. QED
    BY <1>1, <2>1, <2>2 DEF SumFunction
<1>11. \A f : DOMAIN f = {} => SumFunction(f) = 0
  BY SumEmpty DEF SumFunction
<1>12. StrandedTwice
  <2>1. DOMAIN strandedStats = {} /\ DOMAIN timesStranded = {}
    BY <1>2, <1>6
  <2>2. DOMAIN [i \in DOMAIN strandedStats |-> strandedStats[i].count] = {}
    BY <2>1
  <2>3. DOMAIN [i \in DOMAIN strandedStats |-> strandedStats[i].sum] = {}
    BY <2>1
  <2>4. DOMAIN [n \in DOMAIN timesStranded |-> Stakes[n] * timesStranded[n]] = {}
    BY <2>1
  <2>5. /\ SumFunction([i \in DOMAIN strandedStats |-> strandedStats[i].count]) = 0
        /\ SumFunction([i \in DOMAIN strandedStats |-> strandedStats[i].sum]) = 0
        /\ SumFunction([n \in DOMAIN timesStranded |-> Stakes[n] * timesStranded[n]]) = 0
        /\ SumFunction(timesStranded) = 0
    BY <1>11, <2>1, <2>2, <2>3, <2>4
  <2>6. QED
    BY <2>1, <2>5 DEF StrandedTwice
<1>13. RoundsAccount
  <2>1. /\ Len(coverage) = 0 /\ Len(hopsStats) = 0 /\ Len(strandedStats) = 0
        /\ Len(branching) = 0 /\ Len(rmrs) = 0 /\ Len(rawHops) = 0
        /\ DOMAIN coverage = {} /\ DOMAIN hopsStats = {}
    BY <1>2, <1>6
  <2>2. SumFunction(coverage) = 0
    BY <1>11, <2>1
  <2>3. QED
    BY <1>9, <2>1, <2>2 DEF RoundsAccount
<1>14. MessagesAccount
  <2>1. DOMAIN branching = {} /\ DOMAIN rmrs = {}
    BY <1>2, <1>6
  <2>2. DOMAIN [i \in DOMAIN branching |-> branching[i].edges] = {}
    BY <2>1
  <2>3. DOMAIN [i \in DOMAIN rmrs |-> rmrs[i].m] = {}
    BY <2>1
  <2>4. /\ SumFunction([i \in DOMAIN branching |-> branching[i].edges]) = 0
        /\ SumFunction([i \in DOMAIN rmrs |-> rmrs[i].m]) = 0
    BY <1>11, <2>2, <2>3
  <2>5. QED
    BY <1>10, <2>4 DEF MessagesAccount
<1>15. QED
  BY <1>7, <1>8, <1>12, <1>13, <1>14 DEF StatisticsInv

\* A round is played: failed nodes fail all at once, and the hops are those of
\* its links.
LEMMA PlayStatistics == StatisticsInv /\ PlayRound => StatisticsInv'
<1> SUFFICES ASSUME StatisticsInv, PlayRound PROVE StatisticsInv'
  OBVIOUS
<1>1. /\ pc = "play" /\ pc' = "record" /\ iteration < Iterations /\ iteration' = iteration
      /\ UNCHANGED seriesVars
      /\ failed' \in IF iteration = WhenToFail THEN kSubset(NumToFail, Nodes) ELSE {failed}
  BY DEF PlayRound
<1>2. PICK links \in [Nodes -> SUBSET (Nodes \ ({Origin} \cup failed'))] :
        /\ hops' = HopsFrom(links, Origin, Nodes, Unreached)
        /\ pushes' = links
  BY DEF PlayRound
<1>3. TypeOK /\ OriginAtZero /\ FailedAtOnce
  BY DEF StatisticsInv
<1>4. links \in [Nodes -> SUBSET Nodes]
  OBVIOUS
<1>5. hops' \in [Nodes -> Nat \cup {Unreached}] /\ \A n \in Nodes : hops'[n] = 0 <=> n = Origin
  BY <1>2, <1>4, HopsAtZero
<1>6. failed' \in SUBSET Nodes
  BY <1>1, <1>3 DEF TypeOK, kSubset
<1>7. pruneCounts' \in [Nodes -> Nat]
  <2>1. PICK pruned \in [Nodes -> SUBSET (Nodes \ {Origin})] :
          pruneCounts' = [n \in Nodes |-> Cardinality(pruned[n])]
    BY DEF PlayRound
  <2> DEFINE size(n) == Cardinality(pruned[n])
  <2>2. \A n \in Nodes : IsFiniteSet(pruned[n])
    BY StatisticsConstants, FS_Subset
  <2>3. \A n \in Nodes : size(n) \in Nat
    BY <2>2, FS_CardinalityType
  <2>4. pruneCounts' = [n \in Nodes |-> size(n)]
    BY <2>1
  <2> HIDE DEF size
  <2>5. QED
    BY <2>3, <2>4
<1>8. TypeOK'
  <2>1. iteration' \in 0..Iterations /\ iteration' < Iterations
    BY <1>1, <1>3 DEF TypeOK
  <2>2. pushes' \in [Nodes -> SUBSET Nodes]
    BY <1>2, <1>4
  <2>3. QED
    BY <1>1, <1>3, <1>5, <1>6, <1>7, <2>1, <2>2, SeriesTypesKept
<1>9. OriginAtZero'
  BY <1>5 DEF OriginAtZero
<1>10. FailedAtOnce'
  <2>1. CASE iteration = WhenToFail
    <3>1. Cardinality(failed') = NumToFail
      BY <1>1, <2>1 DEF kSubset
    <3>2. ~(iteration' < WhenToFail)
      BY <1>1, <2>1, StatisticsConstants
    <3>3. QED
      BY <1>1, <3>1, <3>2 DEF FailedAtOnce
  <2>2. CASE iteration # WhenToFail
    BY <1>1, <1>3, <2>2 DEF FailedAtOnce
  <2>3. QED
    BY <2>1, <2>2
<1>11. Measured' = Measured
  BY <1>1 DEF Measured
<1>12. QED
  BY <1>1, <1>8, <1>9, <1>10, <1>11, SeriesKept DEF StatisticsInv

\* A round of the warm-up.
LEMMA WarmUpStatistics == StatisticsInv /\ WarmUpRound => StatisticsInv'
<1> SUFFICES ASSUME StatisticsInv, WarmUpRound PROVE StatisticsInv'
  OBVIOUS
<1>1. /\ pc = "record" /\ pc' = "play" /\ iteration < WarmUp /\ iteration' = iteration + 1
      /\ failed' = failed /\ hops' = hops /\ pushes' = pushes /\ pruneCounts' = pruneCounts
      /\ UNCHANGED seriesVars
  BY DEF WarmUpRound, roundVars
<1>2. TypeOK /\ FailedAtOnce
  BY DEF StatisticsInv
<1>3. iteration \in Nat /\ Iterations \in Nat /\ WarmUp \in Nat /\ WhenToFail \in Nat
      /\ iteration < Iterations
  BY <1>1, <1>2, StatisticsConstants DEF TypeOK
<1>4. TypeOK'
  <2>1. iteration' \in 0..Iterations /\ (pc' = "record" => iteration' < Iterations)
    BY <1>1, <1>3
  <2>2. /\ hops' \in [Nodes -> Nat \cup {Unreached}] /\ failed' \in SUBSET Nodes
        /\ pushes' \in [Nodes -> SUBSET Nodes] /\ pruneCounts' \in [Nodes -> Nat]
    BY <1>1, <1>2 DEF TypeOK
  <2>3. QED
    BY <1>1, <1>2, <2>1, <2>2, SeriesTypesKept
<1>5. OriginAtZero'
  BY <1>1 DEF OriginAtZero
<1>6. FailedAtOnce'
  <2>1. iteration' < WhenToFail \/ iteration' = WhenToFail => iteration < WhenToFail
    BY <1>1, <1>3
  <2>2. QED
    BY <1>1, <1>2, <2>1 DEF FailedAtOnce
<1>7. Measured' = Measured
  BY <1>1, <1>3 DEF Measured
<1>8. QED
  BY <1>1, <1>4, <1>5, <1>6, <1>7, SeriesKept DEF StatisticsInv

-----------------------------------------------------------------------------
(* A measured round.                                                       *)

\* A series with one entry more.
LEMMA AppendedFacts ==
  ASSUME NEW T, NEW s \in Seq(T), NEW x
  PROVE  LET t == Append(s, x)
         IN  /\ t \in Seq(ToSet(t))
             /\ Len(s) \in Nat /\ Len(t) = Len(s) + 1
             /\ DOMAIN s = 1..Len(s) /\ DOMAIN t = 1..(Len(s) + 1)
             /\ \A i \in 1..Len(s) : t[i] = s[i]
             /\ t[Len(s) + 1] = x
<1> DEFINE t == Append(s, x)
           U == T \cup {x}
<1>1. Len(s) \in Nat /\ s \in [1..Len(s) -> T]
  BY LenProperties
<1>2. s \in Seq(U)
  <2>1. s \in [1..Len(s) -> U]
    BY <1>1
  <2>2. QED
    BY <1>1, <2>1, SeqDef
<1>3. x \in U
  OBVIOUS
<1> HIDE DEF U
<1>4. /\ t \in Seq(U) /\ Len(t) = Len(s) + 1
      /\ \A i \in 1..Len(s) : t[i] = s[i]
      /\ t[Len(s) + 1] = x
  BY <1>2, <1>3, AppendProperties
<1> HIDE DEF t
<1>5. t \in Seq(ToSet(t)) /\ DOMAIN t = 1..Len(t)
  BY <1>4, SeqOfElements, LenProperties
<1>6. QED
  BY <1>1, <1>4, <1>5 DEF t

\* What MeasureRound finds and does.
LEMMA MeasureFacts ==
  ASSUME StatisticsInv, MeasureRound
  PROVE  /\ Measured \in Nat /\ Measured' = Measured + 1
         /\ iteration = Measured + WarmUp /\ iteration' = iteration + 1
         /\ iteration < Iterations /\ iteration \in Nat /\ pc = "record" /\ pc' = "play"
         /\ failed' = failed /\ hops' = hops /\ pushes' = pushes /\ pruneCounts' = pruneCounts
         /\ Reached \subseteq Nodes /\ IsFiniteSet(Reached) /\ Origin \in Reached
         /\ Cardinality(Reached) \in Nat \ {0}
         /\ StrandedNodes \subseteq Nodes /\ IsFiniteSet(StrandedNodes)
         /\ Cardinality(StrandedNodes) \in Nat
<1>1. /\ pc = "record" /\ pc' = "play" /\ iteration >= WarmUp /\ iteration' = iteration + 1
      /\ failed' = failed /\ hops' = hops /\ pushes' = pushes /\ pruneCounts' = pruneCounts
  BY DEF MeasureRound, roundVars
<1>2. TypeOK /\ OriginAtZero
  BY DEF StatisticsInv
<1>3. iteration \in Nat /\ iteration < Iterations /\ WarmUp \in Nat
  BY <1>1, <1>2, StatisticsConstants DEF TypeOK
<1>4. Measured = iteration - WarmUp /\ Measured' = iteration + 1 - WarmUp
  BY <1>1, <1>3 DEF Measured
<1>5. Reached \subseteq Nodes /\ StrandedNodes \subseteq Nodes
  BY DEF Reached, StrandedNodes
<1>6. Origin \in Reached
  BY <1>1, <1>2, StatisticsConstants DEF OriginAtZero, Reached
<1>7. IsFiniteSet(Reached) /\ IsFiniteSet(StrandedNodes)
  BY <1>5, StatisticsConstants, FS_Subset
<1>8. Cardinality(Reached) \in Nat /\ Cardinality(StrandedNodes) \in Nat /\ Cardinality(Reached) # 0
  BY <1>6, <1>7, FS_CardinalityType, FS_EmptySet
<1>9. QED
  BY <1>1, <1>3, <1>4, <1>5, <1>6, <1>7, <1>8

\* The two accounts of stranded nodes grow alike.
LEMMA MeasureStranded ==
  ASSUME StatisticsInv, MeasureRound
  PROVE  StrandedTwice'
<1> DEFINE S == StrandedNodes
           D == DOMAIN timesStranded
           N == Len(strandedStats)
           stats == StrandedNodeStats(SetToSeq(S), Stakes)
<1>1. /\ S \subseteq Nodes /\ IsFiniteSet(S) /\ Cardinality(S) \in Nat
      /\ Measured \in Nat /\ Measured' = Measured + 1
  BY MeasureFacts
<1>2. /\ strandedStats' = Append(strandedStats, stats)
      /\ timesStranded' = [n \in D \cup S |-> (IF n \in D THEN timesStranded[n] ELSE 0)
                                              + (IF n \in S THEN 1 ELSE 0)]
  BY DEF MeasureRound, InsertStranded
<1>3. /\ strandedStats \in Seq(ToSet(strandedStats))
      /\ \A i \in DOMAIN strandedStats : strandedStats[i].sum \in Nat /\ strandedStats[i].count \in Nat
      /\ D \subseteq Nodes
  BY DEF StatisticsInv, TypeOK
<1>4. /\ \A n \in D : timesStranded[n] \in 1..Measured
      /\ SumFunction(timesStranded)
           = SumFunction([i \in DOMAIN strandedStats |-> strandedStats[i].count])
      /\ SumFunction([n \in D |-> Stakes[n] * timesStranded[n]])
           = SumFunction([i \in DOMAIN strandedStats |-> strandedStats[i].sum])
  BY DEF StatisticsInv, StrandedTwice
<1>5. stats.sum = SumFunctionOnSet(Stakes, S) /\ stats.count = Cardinality(S)
  BY <1>1, StrandedStatsFacts
<1> HIDE DEF S, D, stats
<1>6. /\ N \in Nat /\ DOMAIN strandedStats = 1..N /\ DOMAIN strandedStats' = 1..(N + 1)
      /\ \A i \in 1..N : strandedStats'[i] = strandedStats[i]
      /\ strandedStats'[N + 1] = stats
  BY <1>2, <1>3, AppendedFacts
<1> HIDE DEF N
<1>7. \A n \in D : timesStranded[n] \in Nat
  BY <1>1, <1>4
<1>8. \A n \in S : Stakes[n] \in Nat
  BY <1>1, StatisticsConstants
<1>9. SumFunction(timesStranded') = SumFunction(timesStranded) + Cardinality(S)
  <2> DEFINE ones == [n \in S |-> 1]
             after == timesStranded'
  <2>1. \A n \in S : ones[n] \in Nat /\ ones[n] = 1
    OBVIOUS
  <2>2. \A n \in D \cup S : after[n] = (IF n \in D THEN timesStranded[n] ELSE 0)
                                       + (IF n \in S THEN ones[n] ELSE 0)
    BY <1>2
  <2>3. DOMAIN after = D \cup S
    BY <1>2
  <2> HIDE DEF ones, after
  <2>4. SumFunctionOnSet(after, D \cup S)
          = SumFunctionOnSet(timesStranded, D) + SumFunctionOnSet(ones, S)
    BY <1>1, <1>3, <1>7, <2>1, <2>2, SumGrown
  <2>5. SumFunctionOnSet(ones, S) = Cardinality(S)
    BY <1>1, <2>1, SumOnes
  <2>6. QED
    BY <2>3, <2>4, <2>5 DEF SumFunction, D, after
<1>10. SumFunction([n \in DOMAIN timesStranded' |-> Stakes[n] * timesStranded'[n]])
         = SumFunction([n \in D |-> Stakes[n] * timesStranded[n]]) + SumFunctionOnSet(Stakes, S)
  <2> DEFINE before == [n \in D |-> Stakes[n] * timesStranded[n]]
             after == [n \in DOMAIN timesStranded' |-> Stakes[n] * timesStranded'[n]]
  <2>1. DOMAIN timesStranded' = D \cup S /\ DOMAIN after = D \cup S /\ DOMAIN before = D
    BY <1>2
  <2>2. \A n \in D : Stakes[n] \in Nat /\ before[n] = Stakes[n] * timesStranded[n]
    BY <1>3, StatisticsConstants
  <2>3. \A n \in D : before[n] \in Nat
    BY <1>7, <2>2
  <2>4. ASSUME NEW n \in D \cup S
        PROVE  after[n] = (IF n \in D THEN before[n] ELSE 0) + (IF n \in S THEN Stakes[n] ELSE 0)
    <3>1. \A a, b \in Nat : a * (b + 1) = a * b + a /\ a * (b + 0) = a * b + 0
                            /\ a * (0 + 1) = 0 + a
      OBVIOUS
    <3>2. after[n] = Stakes[n] * ((IF n \in D THEN timesStranded[n] ELSE 0)
                                  + (IF n \in S THEN 1 ELSE 0))
      BY <1>2
    <3> HIDE DEF after, before
    <3>3. CASE n \in D /\ n \in S
      BY ZenonT(60), <1>7, <2>2, <3>1, <3>2, <3>3
    <3>4. CASE n \in D /\ n \notin S
      BY <1>7, <2>2, <3>1, <3>2, <3>4
    <3>5. CASE n \notin D /\ n \in S
      BY <1>8, <3>1, <3>2, <3>5
    <3>6. QED
      BY <3>3, <3>4, <3>5
  <2> HIDE DEF before, after
  <2>5. SumFunctionOnSet(after, D \cup S) = SumFunctionOnSet(before, D) + SumFunctionOnSet(Stakes, S)
    BY <1>1, <1>3, <1>8, <2>3, <2>4, SumGrown
  <2>6. SumFunction(after) = SumFunction(before) + SumFunctionOnSet(Stakes, S)
    BY <2>1, <2>5 DEF SumFunction
  <2>7. QED
    BY <2>6 DEF before, after
<1>11. SumFunction([i \in DOMAIN strandedStats' |-> strandedStats'[i].count])
         = SumFunction([i \in DOMAIN strandedStats |-> strandedStats[i].count]) + Cardinality(S)
  <2> DEFINE before == [i \in DOMAIN strandedStats |-> strandedStats[i].count]
             after == [i \in DOMAIN strandedStats' |-> strandedStats'[i].count]
  <2>1. /\ DOMAIN before = 1..N /\ DOMAIN after = 1..(N + 1)
        /\ \A i \in 1..N : before[i] \in Nat /\ after[i] = before[i]
        /\ after[N + 1] = Cardinality(S)
    BY <1>3, <1>5, <1>6
  <2> HIDE DEF before, after
  <2>2. SumFunctionOnSet(after, 1..(N + 1)) = SumFunctionOnSet(before, 1..N) + Cardinality(S)
    BY <1>1, <1>6, <2>1, SumAppended
  <2>3. SumFunction(after) = SumFunction(before) + Cardinality(S)
    BY <2>1, <2>2 DEF SumFunction
  <2>4. QED
    BY <2>3 DEF before, after
<1>12. SumFunction([i \in DOMAIN strandedStats' |-> strandedStats'[i].sum])
         = SumFunction([i \in DOMAIN strandedStats |-> strandedStats[i].sum])
           + SumFunctionOnSet(Stakes, S)
  <2> DEFINE before == [i \in DOMAIN strandedStats |-> strandedStats[i].sum]
             after == [i \in DOMAIN strandedStats' |-> strandedStats'[i].sum]
             stake == SumFunctionOnSet(Stakes, S)
  <2>1. /\ DOMAIN before = 1..N /\ DOMAIN after = 1..(N + 1)
        /\ \A i \in 1..N : before[i] \in Nat /\ after[i] = before[i]
        /\ after[N + 1] = stake
    BY SMTT(30), <1>3, <1>5, <1>6
  <2>2. stake \in Nat
    BY <1>1, <1>8, SumType
  <2> HIDE DEF before, after, stake
  <2>3. SumFunctionOnSet(after, 1..(N + 1)) = SumFunctionOnSet(before, 1..N) + stake
    BY SMTT(30), <1>6, <2>1, <2>2, SumAppended
  <2>4. SumFunction(after) = SumFunction(before) + stake
    BY <2>1, <2>3 DEF SumFunction
  <2>5. QED
    BY <2>4 DEF before, after, stake
<1>13. \A n \in DOMAIN timesStranded' : timesStranded'[n] \in 1..Measured'
  <2> SUFFICES ASSUME NEW n \in D \cup S PROVE timesStranded'[n] \in 1..(Measured + 1)
    BY <1>1, <1>2
  <2>1. timesStranded'[n] = (IF n \in D THEN timesStranded[n] ELSE 0) + (IF n \in S THEN 1 ELSE 0)
    BY <1>2
  <2>2. CASE n \in D
    BY <1>1, <1>4, <2>1, <2>2
  <2>3. CASE n \notin D
    BY <1>1, <2>1, <2>3
  <2>4. QED
    BY <2>2, <2>3
<1>14. QED
  BY <1>4, <1>9, <1>10, <1>11, <1>12, <1>13 DEF StrandedTwice, D

\* The hops of a round: the raw collection gets those of all nodes reached, the
\* statistics of the round are about all of them but the origin.
LEMMA RoundHops ==
  ASSUME StatisticsInv, MeasureRound
  PROVE  /\ Without(Values(hops), {Unreached}) \in Seq(Nat)
         /\ Len(Without(Values(hops), {Unreached})) = Cardinality(Reached)
         /\ HopsStat(Values(hops), Unreached).count = Cardinality(Reached) - 1
<1>1. /\ Reached \subseteq Nodes /\ IsFiniteSet(Reached) /\ Origin \in Reached
      /\ Cardinality(Reached) \in Nat /\ pc = "record"
  BY MeasureFacts
<1>2. /\ hops \in [Nodes -> Nat \cup {Unreached}]
      /\ \A n \in Nodes : hops[n] = 0 <=> n = Origin
  BY <1>1 DEF StatisticsInv, TypeOK, OriginAtZero
<1>3. IsFiniteSet(Nodes) /\ Unreached \notin Nat
  BY StatisticsConstants
<1> DEFINE T == Nat \cup {Unreached}
           unreached == {Unreached}
           others == {0, Unreached}
<1>4. hops \in [Nodes -> T]
  BY <1>2
<1> HIDE DEF T, unreached, others
<1>5. /\ Without(Values(hops), unreached) \in Seq(T \ unreached)
      /\ Len(Without(Values(hops), unreached)) = Cardinality(KeysKept(hops, Nodes, unreached))
      /\ Len(Without(Values(hops), others)) = Cardinality(KeysKept(hops, Nodes, others))
  BY ZenonT(60), <1>3, <1>4, ValuesKept
<1> USE DEF T, unreached, others
<1>6. T \ {Unreached} = Nat
  BY <1>3
<1>7. /\ KeysKept(hops, Nodes, {Unreached}) = Reached
      /\ KeysKept(hops, Nodes, {0, Unreached}) = Reached \ {Origin}
  BY <1>2 DEF Reached, KeysKept
<1>8. Cardinality(Reached \ {Origin}) = Cardinality(Reached) - 1
  BY <1>1, FS_RemoveElement
<1>9. HopsStat(Values(hops), Unreached).count = Len(Without(Values(hops), {0, Unreached}))
  BY DEF HopsStat, Summary
<1> HIDE DEF T
<1>10. QED
  BY <1>5, <1>6, <1>7, <1>8, <1>9

\* A round accounts for every node, those that have failed apart.
LEMMA RoundNodes ==
  ASSUME StatisticsInv, MeasureRound
  PROVE  LET accounted == Cardinality(Reached) + Cardinality(StrandedNodes)
         IN  IF iteration >= WhenToFail
             THEN accounted \in (Cardinality(Nodes) - NumToFail)..Cardinality(Nodes)
             ELSE accounted = Cardinality(Nodes)
<1> DEFINE F == {n \in Nodes : hops[n] = Unreached /\ n \in failed}
           R == Reached
           S == StrandedNodes
           U == R \cup S
           C == Cardinality(Nodes)
<1>1. /\ Reached \subseteq Nodes /\ IsFiniteSet(Reached) /\ Cardinality(Reached) \in Nat
      /\ StrandedNodes \subseteq Nodes /\ IsFiniteSet(StrandedNodes)
      /\ Cardinality(StrandedNodes) \in Nat
      /\ iteration \in Nat /\ pc = "record"
  BY MeasureFacts
<1>2. failed \in SUBSET Nodes /\ FailedAtOnce
  BY DEF StatisticsInv, TypeOK
<1>3. IsFiniteSet(Nodes) /\ WhenToFail \in Nat /\ C \in Nat /\ NumToFail \in 0..C
  BY StatisticsConstants
<1>4. Nodes = U \cup F /\ U \cap F = {} /\ R \cap S = {} /\ F \subseteq failed
  BY <1>1 DEF Reached, StrandedNodes
<1>5. /\ IsFiniteSet(F) /\ Cardinality(F) \in Nat /\ IsFiniteSet(failed)
      /\ Cardinality(failed) \in Nat /\ Cardinality(F) <= Cardinality(failed)
  <2>1. IsFiniteSet(failed)
    BY <1>2, <1>3, FS_Subset
  <2>2. QED
    BY <1>4, <2>1, FS_Subset, FS_CardinalityType
<1> HIDE DEF R, S, F, C
<1>6. IsFiniteSet(U) /\ Cardinality(U) = Cardinality(R) + Cardinality(S)
  <2>1. IsFiniteSet(R) /\ IsFiniteSet(S) /\ Cardinality(R) \in Nat /\ Cardinality(S) \in Nat
    BY <1>1 DEF R, S
  <2>2. IsFiniteSet(U) /\ Cardinality(U) = Cardinality(R) + Cardinality(S) - Cardinality(R \cap S)
    BY <2>1, FS_Union
  <2>3. Cardinality(R \cap S) = 0
    BY <1>4, FS_EmptySet
  <2>4. QED
    BY <2>1, <2>2, <2>3
<1> HIDE DEF U
<1>7. C = Cardinality(U) + Cardinality(F)
  <2>1. Cardinality(U \cup F) = Cardinality(U) + Cardinality(F) - Cardinality(U \cap F)
    BY <1>5, <1>6, FS_Union
  <2>2. Cardinality(U \cap F) = 0
    BY <1>4, FS_EmptySet
  <2>3. Cardinality(U) \in Nat
    BY <1>6, FS_CardinalityType
  <2>4. QED
    BY <1>4, <1>5, <2>1, <2>2, <2>3 DEF C
<1>8. Cardinality(U) \in Nat
  BY <1>6, FS_CardinalityType
<1>9. CASE iteration >= WhenToFail
  <2>1. Cardinality(F) <= NumToFail
    <3>1. CASE failed = {}
      <4>1. Cardinality(failed) = 0
        BY <3>1, FS_EmptySet
      <4>2. QED
        BY <1>3, <1>5, <4>1
    <3>2. CASE failed # {}
      BY <1>2, <1>5, <3>2 DEF FailedAtOnce
    <3>3. QED
      BY <3>1, <3>2
  <2>2. Cardinality(U) \in (C - NumToFail)..C
    BY <1>3, <1>5, <1>7, <1>8, <2>1
  <2>3. QED
    BY <1>6, <1>9, <2>2 DEF R, S, C
<1>10. CASE ~(iteration >= WhenToFail)
  <2>1. failed = {}
    BY <1>1, <1>2, <1>3, <1>10 DEF FailedAtOnce
  <2>2. Cardinality(F) = 0
    BY <1>4, <2>1, FS_EmptySet
  <2>3. Cardinality(U) = C
    BY <1>7, <1>8, <2>2
  <2>4. QED
    BY <1>6, <1>10, <2>3 DEF R, S, C
<1>11. QED
  BY <1>9, <1>10

\* The series grow together, and their new entries account for the round.
LEMMA MeasureRounds ==
  ASSUME StatisticsInv, MeasureRound
  PROVE  RoundsAccount'
<1> DEFINE N == Measured
           reached == Cardinality(Reached)
           stranded == StrandedNodeStats(SetToSeq(StrandedNodes), Stakes)
           stat == HopsStat(Values(hops), Unreached)
           raw == Without(Values(hops), {Unreached})
           accounted(i) == coverage[i] + strandedStats[i].count
           C == Cardinality(Nodes)
<1>1. /\ N \in Nat /\ Measured' = N + 1 /\ iteration = N + WarmUp
      /\ reached \in Nat \ {0} /\ WarmUp \in Nat /\ WhenToFail \in Nat
      /\ StrandedNodes \subseteq Nodes
  BY MeasureFacts, StatisticsConstants
<1>2. /\ coverage \in Seq(Nat) /\ hopsStats \in Seq(ToSet(hopsStats)) /\ rawHops \in Seq(Nat)
      /\ strandedStats \in Seq(ToSet(strandedStats))
      /\ branching \in Seq([edges : Nat, nodes : Nat]) /\ rmrs \in Seq([m : Nat, n : Nat])
  BY DEF StatisticsInv, TypeOK
<1>3. /\ Len(coverage) = N /\ Len(hopsStats) = N /\ Len(strandedStats) = N
      /\ Len(branching) = N /\ Len(rmrs) = N
      /\ \A i \in DOMAIN coverage :
           IF i + WarmUp > WhenToFail THEN accounted(i) \in (C - NumToFail)..C ELSE accounted(i) = C
      /\ \A i \in DOMAIN hopsStats : hopsStats[i].count = coverage[i] - 1
      /\ Len(rawHops) = SumFunction(coverage)
  BY DEF StatisticsInv, RoundsAccount
<1>4. /\ coverage' = Append(coverage, reached)
      /\ hopsStats' = Append(hopsStats, stat) /\ rawHops' = rawHops \o raw
      /\ strandedStats' = Append(strandedStats, stranded)
      /\ \E x : branching' = Append(branching, x)
      /\ \E x : rmrs' = Append(rmrs, x)
  BY <1>1 DEF MeasureRound, InsertHops, InsertStranded, InsertRmr
<1>5. raw \in Seq(Nat) /\ Len(raw) = reached /\ stat.count = reached - 1
  BY RoundHops
<1>6. stranded.count = Cardinality(StrandedNodes)
  BY <1>1, StrandedStatsFacts
<1>7. IF iteration >= WhenToFail
      THEN reached + Cardinality(StrandedNodes) \in (C - NumToFail)..C
      ELSE reached + Cardinality(StrandedNodes) = C
  BY RoundNodes
<1> HIDE DEF reached, stranded, stat, raw, N, C
<1>8. /\ DOMAIN coverage = 1..N /\ DOMAIN coverage' = 1..(N + 1) /\ Len(coverage') = N + 1
      /\ \A i \in 1..N : coverage'[i] = coverage[i]
      /\ coverage'[N + 1] = reached
  BY <1>2, <1>3, <1>4, AppendedFacts
<1>9. /\ DOMAIN hopsStats = 1..N /\ DOMAIN hopsStats' = 1..(N + 1) /\ Len(hopsStats') = N + 1
      /\ \A i \in 1..N : hopsStats'[i] = hopsStats[i]
      /\ hopsStats'[N + 1] = stat
  BY <1>2, <1>3, <1>4, AppendedFacts
<1>10. /\ DOMAIN strandedStats = 1..N /\ DOMAIN strandedStats' = 1..(N + 1)
       /\ Len(strandedStats') = N + 1
       /\ \A i \in 1..N : strandedStats'[i] = strandedStats[i]
       /\ strandedStats'[N + 1] = stranded
  BY <1>2, <1>3, <1>4, AppendedFacts
<1>11. Len(branching') = N + 1 /\ Len(rmrs') = N + 1
  BY <1>2, <1>3, <1>4, AppendedFacts
<1>12. \A i \in 1..(N + 1) : i \in 1..N \/ i = N + 1
  BY <1>1
<1>13. ASSUME NEW i \in DOMAIN coverage'
       PROVE  LET all == coverage'[i] + strandedStats'[i].count
              IN  IF i + WarmUp > WhenToFail THEN all \in (C - NumToFail)..C ELSE all = C
  <2>1. CASE i \in 1..N
    BY <1>3, <1>8, <1>10, <2>1
  <2>2. CASE i = N + 1
    <3>1. i + WarmUp > WhenToFail <=> iteration >= WhenToFail
      BY <1>1, <2>2
    <3>2. coverage'[i] + strandedStats'[i].count = reached + Cardinality(StrandedNodes)
      BY <1>6, <1>8, <1>10, <2>2
    <3>3. QED
      BY <1>7, <3>1, <3>2
  <2>3. QED
    BY <1>8, <1>12, <2>1, <2>2
<1>14. ASSUME NEW i \in DOMAIN hopsStats' PROVE hopsStats'[i].count = coverage'[i] - 1
  <2>1. CASE i \in 1..N
    BY <1>3, <1>8, <1>9, <2>1
  <2>2. CASE i = N + 1
    BY <1>5, <1>8, <1>9, <2>2
  <2>3. QED
    BY <1>9, <1>12, <2>1, <2>2
<1>15. Len(rawHops') = SumFunction(coverage')
  <2>1. Len(rawHops') = Len(rawHops) + reached
    BY <1>2, <1>4, <1>5, ConcatProperties
  <2>2. \A i \in 1..N : coverage[i] \in Nat
    BY <1>2, <1>3, LenProperties
  <2> DEFINE before == coverage
             after == coverage'
  <2>3. /\ \A i \in 1..N : before[i] \in Nat /\ after[i] = before[i]
        /\ after[N + 1] = reached
        /\ DOMAIN before = 1..N /\ DOMAIN after = 1..(N + 1)
    BY <1>8, <2>2
  <2>4. reached \in Nat
    BY <1>1
  <2> HIDE DEF before, after
  <2>5. SumFunctionOnSet(after, 1..(N + 1)) = SumFunctionOnSet(before, 1..N) + reached
    BY <1>1, <2>3, <2>4, SumAppended
  <2>6. SumFunction(after) = SumFunction(before) + reached
    BY <2>3, <2>5 DEF SumFunction
  <2>7. QED
    BY <1>3, <2>1, <2>6 DEF before, after
<1>16. QED
  BY <1>1, <1>8, <1>9, <1>10, <1>11, <1>13, <1>14, <1>15 DEF RoundsAccount, C

\* The trackers, the branching factors and the redundancies count the round's
\* messages alike.
LEMMA MeasureMessages ==
  ASSUME StatisticsInv, MeasureRound
  PROVE  MessagesAccount' /\ {egress', ingress', prunesSent'} \subseteq [Nodes -> Nat]
         /\ PushCount \in Nat /\ SumFunction(pruneCounts) \in Nat
<1> DEFINE sent == [n \in Nodes |-> Cardinality(pushes[n])]
           got == [n \in Nodes |-> Cardinality({s \in Nodes : n \in pushes[s]})]
           N == Measured
           edges == [i \in DOMAIN branching |-> branching[i].edges]
           ms == [i \in DOMAIN rmrs |-> rmrs[i].m]
           total == PushCount
           prunes == SumFunction(pruneCounts)
           reached == Cardinality(Reached)
<1>1. N \in Nat /\ reached \in Nat \ {0}
  BY MeasureFacts
<1>2. /\ pushes \in [Nodes -> SUBSET Nodes] /\ pruneCounts \in [Nodes -> Nat]
      /\ egress \in [Nodes -> Nat] /\ ingress \in [Nodes -> Nat] /\ prunesSent \in [Nodes -> Nat]
      /\ branching \in Seq([edges : Nat, nodes : Nat]) /\ rmrs \in Seq([m : Nat, n : Nat])
      /\ Len(branching) = N /\ Len(rmrs) = N
  BY DEF StatisticsInv, TypeOK, RoundsAccount
<1>3. /\ SumFunction(egress) = SumFunction(ingress)
      /\ SumFunction(egress) = SumFunction(edges)
      /\ SumFunction(egress) + SumFunction(prunesSent) = SumFunction(ms)
  BY DEF StatisticsInv, MessagesAccount
<1>4. /\ branching' = Append(branching, [edges |-> total, nodes |-> reached])
      /\ rmrs' = Append(rmrs, [m |-> total + prunes, n |-> reached])
  BY <1>1 DEF MeasureRound, InsertRmr
<1>5. /\ egress' = [n \in Nodes |-> egress[n] + sent[n]]
      /\ ingress' = [n \in Nodes |-> ingress[n] + got[n]]
      /\ prunesSent' = [n \in Nodes |-> prunesSent[n] + pruneCounts[n]]
  BY DEF MeasureRound
<1>6. IsFiniteSet(Nodes)
  BY StatisticsConstants
<1>7. \A S \in SUBSET Nodes : Cardinality(S) \in Nat
  BY <1>6, FS_Subset, FS_CardinalityType
<1>8. sent \in [Nodes -> Nat]
  BY <1>2, <1>7
<1>9. got \in [Nodes -> Nat]
  <2>1. \A n \in Nodes : {s \in Nodes : n \in pushes[s]} \in SUBSET Nodes
    OBVIOUS
  <2>2. \A n \in Nodes : Cardinality({s \in Nodes : n \in pushes[s]}) \in Nat
    BY <1>7, <2>1
  <2>3. QED
    BY <2>2
<1>10. \A n \in Nodes : sent[n] = Cardinality(pushes[n])
                        /\ got[n] = Cardinality(SourcesOf(n, pushes, Nodes))
  BY DEF SourcesOf
<1>11. total = SumFunctionOnSet(sent, Nodes)
  BY DEF PushCount, SumFunction
<1>12. prunes = SumFunctionOnSet(pruneCounts, Nodes)
  BY <1>2 DEF SumFunction
<1> HIDE DEF sent, got, edges, ms, total, prunes, reached, N
<1>13. SumFunctionOnSet(got, Nodes) = total
  <2> DEFINE links == pushes
             V == Nodes
  <2>1. \A s \in V : links[s] \subseteq V
    BY <1>2
  <2>2. /\ \A s \in V : sent[s] = Cardinality(links[s])
        /\ \A t \in V : got[t] = Cardinality(SourcesOf(t, links, V))
    BY <1>10
  <2>3. IsFiniteSet(V)
    BY <1>6
  <2> HIDE DEF links, V
  <2>4. SumFunctionOnSet(sent, V) = SumFunctionOnSet(got, V)
    BY SMTT(60), <2>1, <2>2, <2>3, SumBothWays
  <2>5. QED
    BY <1>11, <2>4 DEF V
<1>14. total \in Nat /\ prunes \in Nat
  BY <1>2, <1>6, <1>8, <1>11, <1>12, SumType
<1>15. ASSUME NEW old \in [Nodes -> Nat], NEW more \in [Nodes -> Nat], NEW new,
              new = [n \in Nodes |-> old[n] + more[n]]
       PROVE  /\ new \in [Nodes -> Nat]
              /\ SumFunction(new) = SumFunction(old) + SumFunctionOnSet(more, Nodes)
  <2>1. DOMAIN new = Nodes /\ DOMAIN old = Nodes
    BY <1>15
  <2>2. \A n \in Nodes : old[n] \in Nat /\ more[n] \in Nat /\ new[n] = old[n] + more[n]
    BY <1>15
  <2>3. SumFunctionOnSet(new, Nodes) = SumFunctionOnSet(old, Nodes) + SumFunctionOnSet(more, Nodes)
    BY <1>6, <2>2, SumPlus
  <2>4. new \in [Nodes -> Nat]
    BY <1>15, <2>2
  <2>5. QED
    BY <2>1, <2>3, <2>4 DEF SumFunction
<1>16. /\ egress' \in [Nodes -> Nat]
       /\ SumFunction(egress') = SumFunction(egress) + total
  BY ZenonT(60), <1>2, <1>5, <1>8, <1>11, <1>15
<1>17. /\ ingress' \in [Nodes -> Nat]
       /\ SumFunction(ingress') = SumFunction(ingress) + total
  BY ZenonT(60), <1>2, <1>5, <1>9, <1>13, <1>15
<1>18. /\ prunesSent' \in [Nodes -> Nat]
       /\ SumFunction(prunesSent') = SumFunction(prunesSent) + prunes
  BY ZenonT(60), <1>2, <1>5, <1>12, <1>15
<1>19. SumFunction(edges)' = SumFunction(edges) + total
  <2> DEFINE before == edges
             after == edges'
  <2>1. /\ DOMAIN branching = 1..N /\ DOMAIN branching' = 1..(N + 1)
        /\ \A i \in 1..N : branching'[i] = branching[i]
        /\ branching'[N + 1] = [edges |-> total, nodes |-> reached]
    BY <1>2, <1>4, AppendedFacts
  <2>2. \A i \in 1..N : branching[i] \in [edges : Nat, nodes : Nat]
    <3>1. branching \in [1..Len(branching) -> [edges : Nat, nodes : Nat]]
      BY <1>2, LenProperties
    <3>2. QED
      BY <1>2, <3>1
  <2>3. /\ DOMAIN before = 1..N /\ DOMAIN after = 1..(N + 1)
        /\ \A i \in 1..N : before[i] \in Nat /\ after[i] = before[i]
        /\ after[N + 1] = total
    BY <1>1, <2>1, <2>2 DEF edges
  <2> HIDE DEF before, after
  <2>4. SumFunctionOnSet(after, 1..(N + 1)) = SumFunctionOnSet(before, 1..N) + total
    BY <1>1, <1>14, <2>3, SumAppended
  <2>5. SumFunction(after) = SumFunction(before) + total
    BY <2>3, <2>4 DEF SumFunction
  <2>6. QED
    BY <2>5 DEF before, after
<1>20. SumFunction(ms)' = SumFunction(ms) + (total + prunes)
  <2> DEFINE before == ms
             after == ms'
             v == total + prunes
  <2>1. /\ DOMAIN rmrs = 1..N /\ DOMAIN rmrs' = 1..(N + 1)
        /\ \A i \in 1..N : rmrs'[i] = rmrs[i]
        /\ rmrs'[N + 1] = [m |-> v, n |-> reached]
    BY <1>2, <1>4, AppendedFacts
  <2>2. \A i \in 1..N : rmrs[i] \in [m : Nat, n : Nat]
    <3>1. rmrs \in [1..Len(rmrs) -> [m : Nat, n : Nat]]
      BY <1>2, LenProperties
    <3>2. QED
      BY <1>2, <3>1
  <2>3. /\ DOMAIN before = 1..N /\ DOMAIN after = 1..(N + 1)
        /\ \A i \in 1..N : before[i] \in Nat /\ after[i] = before[i]
        /\ after[N + 1] = v
    BY <1>1, <2>1, <2>2 DEF ms
  <2>4. v \in Nat
    BY <1>14
  <2> HIDE DEF before, after, v
  <2>5. SumFunctionOnSet(after, 1..(N + 1)) = SumFunctionOnSet(before, 1..N) + v
    BY <1>1, <2>3, <2>4, SumAppended
  <2>6. SumFunction(after) = SumFunction(before) + v
    BY <2>3, <2>5 DEF SumFunction
  <2>7. QED
    BY <2>6 DEF before, after, v
<1>21. SumFunction(egress) \in Nat /\ SumFunction(prunesSent) \in Nat
  <2>1. \A f \in [Nodes -> Nat] : SumFunction(f) \in Nat
    <3> TAKE f \in [Nodes -> Nat]
    <3>1. SumFunctionOnSet(f, Nodes) \in Nat
      BY <1>6, SumType
    <3>2. QED
      BY <3>1 DEF SumFunction
  <2>2. QED
    BY <1>2, <2>1
<1>22. /\ SumFunction(egress') = SumFunction(ingress')
       /\ SumFunction(egress') = SumFunction(edges)'
       /\ SumFunction(egress') + SumFunction(prunesSent') = SumFunction(ms)'
  <2>1. \A e, f, p, v \in Nat : (e + p) + (f + v) = (e + f) + (p + v)
    OBVIOUS
  <2>2. SumFunction(egress') + SumFunction(prunesSent')
          = (SumFunction(egress) + SumFunction(prunesSent)) + (total + prunes)
    BY <1>14, <1>16, <1>18, <1>21, <2>1
  <2>3. SumFunction(egress') + SumFunction(prunesSent') = SumFunction(ms)'
    BY <1>3, <1>20, <2>2
  <2>4. SumFunction(egress') = SumFunction(ingress')
    BY <1>3, <1>16, <1>17
  <2>5. SumFunction(egress') = SumFunction(edges)'
    BY <1>3, <1>16, <1>19
  <2>6. QED
    BY <2>3, <2>4, <2>5
<1>23. MessagesAccount'
  BY <1>22 DEF MessagesAccount, edges, ms
<1>24. QED
  BY <1>14, <1>16, <1>17, <1>18, <1>23 DEF total, prunes

\* The series keep their types, and the round its hops.
LEMMA MeasureTypes ==
  ASSUME StatisticsInv, MeasureRound
  PROVE  TypeOK' /\ OriginAtZero' /\ FailedAtOnce'
<1> DEFINE reached == Cardinality(Reached)
           stranded == StrandedNodeStats(SetToSeq(StrandedNodes), Stakes)
           stat == HopsStat(Values(hops), Unreached)
           raw == Without(Values(hops), {Unreached})
           N == Len(strandedStats)
           total == PushCount
           prunes == SumFunction(pruneCounts)
<1>1. /\ iteration' = iteration + 1 /\ iteration < Iterations /\ iteration \in Nat
      /\ pc = "record" /\ pc' = "play"
      /\ failed' = failed /\ hops' = hops /\ pushes' = pushes /\ pruneCounts' = pruneCounts
      /\ reached \in Nat \ {0}
      /\ StrandedNodes \subseteq Nodes /\ Cardinality(StrandedNodes) \in Nat
      /\ IsFiniteSet(StrandedNodes)
  BY MeasureFacts
<1>2. Iterations \in Nat /\ WhenToFail \in Nat /\ \A n \in Nodes : Stakes[n] \in Nat
  BY StatisticsConstants
<1>3. TypeOK /\ FailedAtOnce
  BY DEF StatisticsInv
<1>4. /\ hops \in [Nodes -> Nat \cup {Unreached}] /\ failed \in SUBSET Nodes
      /\ pushes \in [Nodes -> SUBSET Nodes] /\ pruneCounts \in [Nodes -> Nat]
      /\ coverage \in Seq(Nat) /\ hopsStats \in Seq(ToSet(hopsStats)) /\ rawHops \in Seq(Nat)
      /\ strandedStats \in Seq(ToSet(strandedStats))
      /\ \A i \in DOMAIN strandedStats : strandedStats[i].sum \in Nat /\ strandedStats[i].count \in Nat
      /\ DOMAIN timesStranded \subseteq Nodes
      /\ branching \in Seq([edges : Nat, nodes : Nat]) /\ rmrs \in Seq([m : Nat, n : Nat])
  BY <1>3 DEF TypeOK
<1>5. /\ coverage' = Append(coverage, reached)
      /\ hopsStats' = Append(hopsStats, stat) /\ rawHops' = rawHops \o raw
      /\ strandedStats' = Append(strandedStats, stranded)
      /\ DOMAIN timesStranded' = DOMAIN timesStranded \cup StrandedNodes
      /\ branching' = Append(branching, [edges |-> total, nodes |-> reached])
      /\ rmrs' = Append(rmrs, [m |-> total + prunes, n |-> reached])
  BY <1>1 DEF MeasureRound, InsertHops, InsertStranded, InsertRmr
<1>6. raw \in Seq(Nat)
  BY RoundHops
<1>7. /\ total \in Nat /\ prunes \in Nat
      /\ {egress', ingress', prunesSent'} \subseteq [Nodes -> Nat]
  BY MeasureMessages
<1>8. stranded.sum \in Nat /\ stranded.count \in Nat
  <2>1. /\ stranded.sum = SumFunctionOnSet(Stakes, StrandedNodes)
        /\ stranded.count = Cardinality(StrandedNodes)
    BY <1>1, StrandedStatsFacts
  <2>2. SumFunctionOnSet(Stakes, StrandedNodes) \in Nat
    BY <1>1, <1>2, SumType
  <2>3. QED
    BY <1>1, <2>1, <2>2
<1> HIDE DEF reached, stranded, stat, raw, total, prunes
<1>9. coverage' \in Seq(Nat)
  BY <1>1, <1>4, <1>5, AppendProperties
<1>10. hopsStats' \in Seq(ToSet(hopsStats'))
  BY <1>4, <1>5, AppendedFacts
<1>11. rawHops' \in Seq(Nat)
  BY <1>4, <1>5, <1>6, ConcatProperties
<1>12. /\ N \in Nat /\ DOMAIN strandedStats = 1..N /\ DOMAIN strandedStats' = 1..(N + 1)
       /\ strandedStats' \in Seq(ToSet(strandedStats'))
       /\ \A i \in 1..N : strandedStats'[i] = strandedStats[i]
       /\ strandedStats'[N + 1] = stranded
  BY <1>4, <1>5, AppendedFacts
<1> HIDE DEF N
<1>13. ASSUME NEW i \in DOMAIN strandedStats'
       PROVE  strandedStats'[i].sum \in Nat /\ strandedStats'[i].count \in Nat
  <2>1. i \in 1..N \/ i = N + 1
    BY <1>12
  <2>2. CASE i \in 1..N
    BY <1>4, <1>12, <2>2
  <2>3. CASE i = N + 1
    BY <1>8, <1>12, <2>3
  <2>4. QED
    BY <2>1, <2>2, <2>3
<1>14. branching' \in Seq([edges : Nat, nodes : Nat])
  <2>1. [edges |-> total, nodes |-> reached] \in [edges : Nat, nodes : Nat]
    BY <1>1, <1>7
  <2>2. QED
    BY <1>4, <1>5, <2>1, AppendProperties
<1>15. rmrs' \in Seq([m : Nat, n : Nat])
  <2>1. [m |-> total + prunes, n |-> reached] \in [m : Nat, n : Nat]
    BY <1>1, <1>7
  <2>2. QED
    BY <1>4, <1>5, <2>1, AppendProperties
<1>16. DOMAIN timesStranded' \subseteq Nodes
  BY <1>1, <1>4, <1>5
<1>17. iteration' \in 0..Iterations /\ (pc' = "record" => iteration' < Iterations)
  BY <1>1, <1>2
<1>18. /\ hops' \in [Nodes -> Nat \cup {Unreached}] /\ failed' \in SUBSET Nodes
       /\ pushes' \in [Nodes -> SUBSET Nodes] /\ pruneCounts' \in [Nodes -> Nat]
  BY <1>1, <1>4
<1>19. TypeOK'
  BY <1>7, <1>9, <1>10, <1>11, <1>12, <1>13, <1>14, <1>15, <1>16, <1>17, <1>18 DEF TypeOK
<1>20. OriginAtZero'
  BY <1>1 DEF OriginAtZero
<1>21. FailedAtOnce'
  <2>1. iteration' < WhenToFail \/ iteration' = WhenToFail => iteration < WhenToFail
    BY <1>1, <1>2
  <2>2. QED
    BY <1>1, <1>3, <2>1 DEF FailedAtOnce
<1>22. QED
  BY <1>19, <1>20, <1>21

-----------------------------------------------------------------------------
(* The series agree.                                                       *)

\* The inductive step.
LEMMA NextStatistics == StatisticsInv /\ [Next]_vars => StatisticsInv'
<1> SUFFICES ASSUME StatisticsInv, [Next]_vars PROVE StatisticsInv'
  OBVIOUS
<1>1. CASE Start
  <2>1. pc = "start" /\ pc' \in {"play", "panicked"}
        /\ UNCHANGED <<iteration, roundVars, seriesVars>>
    BY <1>1 DEF Start
  <2>2. QED
    BY <2>1, OtherStatistics
<1>2. CASE PlayRound
  BY <1>2, PlayStatistics
<1>3. CASE WarmUpRound
  BY <1>3, WarmUpStatistics
<1>4. CASE MeasureRound
  BY <1>4, MeasureTypes, MeasureStranded, MeasureRounds, MeasureMessages DEF StatisticsInv
<1>5. CASE EndRounds
  <2>1. pc = "play" /\ pc' \in {"done", "build"}
        /\ UNCHANGED <<iteration, roundVars, seriesVars>>
    BY <1>5 DEF EndRounds
  <2>2. QED
    BY <2>1, OtherStatistics
<1>6. CASE BuildHistograms
  <2>1. pc = "build" /\ pc' \in {"panicked", "calculate"}
        /\ UNCHANGED <<iteration, roundVars, seriesVars>>
    BY <1>6 DEF BuildHistograms
  <2>2. QED
    BY <2>1, OtherStatistics
<1>7. CASE Calculate
  <2>1. pc = "calculate" /\ pc' \in {"panicked", "publish"}
        /\ UNCHANGED <<iteration, roundVars, seriesVars>>
    BY <1>7 DEF Calculate
  <2>2. QED
    BY <2>1, OtherStatistics
<1>8. CASE Publish
  <2>1. pc = "publish" /\ pc' \in {"panicked", "done"}
        /\ UNCHANGED <<iteration, roundVars, seriesVars>>
    BY <1>8 DEF Publish
  <2>2. QED
    BY <2>1, OtherStatistics
<1>9. CASE UNCHANGED vars
  <2>1. pc' = pc /\ UNCHANGED <<iteration, roundVars, seriesVars>>
    BY <1>9 DEF vars
  <2>2. QED
    BY <2>1, OtherStatistics
<1>10. QED
  BY <1>1, <1>2, <1>3, <1>4, <1>5, <1>6, <1>7, <1>8, <1>9 DEF Next, Finished

\* Whatever the rounds were like, the series stay in step with them: the
\* invariant the next three theorems are read from.
THEOREM StatisticsInvariance == Spec => []StatisticsInv
<1>1. Init => StatisticsInv
  BY InitStatistics
<1>2. StatisticsInv /\ [Next]_vars => StatisticsInv'
  BY NextStatistics
<1>3. QED
  BY <1>1, <1>2, PTL DEF Spec

\* The message trackers, the branching factors and the redundancies of
\* run_simulation count the same messages, in simulations of any length.
THEOREM MessagesAgree == Spec => []MessagesAccount
<1>1. StatisticsInv => MessagesAccount
  BY DEF StatisticsInv
<1>2. QED
  BY <1>1, StatisticsInvariance, PTL

\* StrandedNodeCollection's count by round and its count by node agree.
THEOREM StrandedAgree == Spec => []StrandedTwice
<1>1. StatisticsInv => StrandedTwice
  BY DEF StatisticsInv
<1>2. QED
  BY <1>1, StatisticsInvariance, PTL

\* Every series of run_simulation has an entry for each measured round, which
\* accounts for every node.
THEOREM RoundsAgree == Spec => []RoundsAccount
<1>1. StatisticsInv => RoundsAccount
  BY DEF StatisticsInv
<1>2. QED
  BY <1>1, StatisticsInvariance, PTL

-----------------------------------------------------------------------------
(* Histograms hold every value.                                            *)

\* Every element is in one class: the classes together have as many.
LEMMA ClassesCount ==
  ASSUME NEW D, IsFiniteSet(D), NEW B, IsFiniteSet(B), NEW index, \A x \in D : index[x] \in B,
         NEW sizes, \A b \in B : sizes[b] = Cardinality({x \in D : index[x] = b})
  PROVE  SumFunctionOnSet(sizes, B) = Cardinality(D)
<1> DEFINE links == [x \in D |-> {index[x]}]
           ones == [x \in D |-> 1]
<1>1. \A x \in D : links[x] \subseteq B
  OBVIOUS
<1>2. \A x \in D : ones[x] = Cardinality(links[x])
  <2>1. \A x \in D : Cardinality({index[x]}) = 1
    BY FS_Singleton
  <2>2. QED
    BY <2>1
<1>3. \A b \in B : sizes[b] = Cardinality(SourcesOf(b, links, D))
  <2> SUFFICES ASSUME NEW b \in B PROVE {x \in D : index[x] = b} = SourcesOf(b, links, D)
    OBVIOUS
  <2>1. QED
    BY DEF SourcesOf
<1>4. \A x \in D : ones[x] = 1
  OBVIOUS
<1> HIDE DEF links, ones
<1>5. SumFunctionOnSet(ones, D) = SumFunctionOnSet(sizes, B)
  BY SMTT(60), <1>1, <1>2, <1>3, SumBothWays
<1>6. SumFunctionOnSet(ones, D) = Cardinality(D)
  BY <1>4, SumOnes
<1>7. QED
  BY <1>5, <1>6

\* A histogram whose bounds leave out no value has every value in a bucket.
LEMMA BuildCounts ==
  ASSUME NEW upper, NEW count \in Nat, NEW values \in Seq(Nat),
         \A i \in DOMAIN values : values[i] \in 0..upper
  PROVE  SumFunction(Build(upper, 0, count, values)) = Len(values)
<1> DEFINE D == DOMAIN values
           kept == {i \in D : values[i] \in 0..upper}
           index == [i \in kept |-> BucketIndex(values[i], 0, BuildRange(upper, 0, count), count)]
           B == 0..(count - 1) \cup Range(index)
           h == [b \in B |-> Cardinality({i \in kept : index[i] = b})]
<1>1. Build(upper, 0, count, values) = h
  BY DEF Build
<1>2. kept = D /\ D = 1..Len(values) /\ Len(values) \in Nat
  BY LenProperties
<1>3. IsFiniteSet(D) /\ Cardinality(D) = Len(values)
  BY <1>2, FS_Interval
<1>4. Range(index) = {index[i] : i \in kept}
  BY DEF Range
<1> HIDE DEF index
<1>5. IsFiniteSet(B) /\ \A i \in D : index[i] \in B
  <2>1. IsFiniteSet({index[i] : i \in D})
    <3> HIDE DEF D
    <3> QED
      BY <1>3, FiniteImage
  <2>2. IsFiniteSet(0..(count - 1))
    BY FS_Interval
  <2>3. Range(index) = {index[i] : i \in D}
    BY <1>2, <1>4
  <2> HIDE DEF D
  <2>4. IsFiniteSet(B)
    BY <2>1, <2>2, <2>3, FS_Union
  <2>5. QED
    BY <2>3, <2>4
<1>6. DOMAIN h = B /\ \A b \in B : h[b] = Cardinality({i \in D : index[i] = b})
  BY <1>2
<1> HIDE DEF h, B, D
<1>7. SumFunctionOnSet(h, B) = Cardinality(D)
  BY <1>3, <1>5, <1>6, ClassesCount
<1>8. QED
  BY <1>1, <1>3, <1>6, <1>7 DEF SumFunction

\* A sum can be taken class by class.
LEMMA SumByClasses ==
  ASSUME NEW D, IsFiniteSet(D), NEW B, IsFiniteSet(B), NEW index, \A x \in D : index[x] \in B,
         NEW w, \A x \in D : w[x] \in Nat,
         NEW sums, \A b \in B : sums[b] = SumFunctionOnSet(w, {x \in D : index[x] = b})
  PROVE  SumFunctionOnSet(sums, B) = SumFunctionOnSet(w, D)
<1> DEFINE Class(U) == {x \in D : index[x] \in U}
           Bad == {U \in SUBSET B : SumFunctionOnSet(sums, U) # SumFunctionOnSet(w, Class(U))}
<1>1. \A U : IsFiniteSet(Class(U)) /\ Class(U) \subseteq D
  <2> TAKE U
  <2>1. Class(U) \subseteq D
    OBVIOUS
  <2> HIDE DEF Class
  <2>2. QED
    BY <2>1, FS_Subset
<1>2. \A b \in B : sums[b] \in Nat /\ sums[b] = SumFunctionOnSet(w, Class({b}))
  <2> TAKE b \in B
  <2>1. {x \in D : index[x] = b} = Class({b})
    OBVIOUS
  <2>2. \A x \in Class({b}) : w[x] \in Nat
    OBVIOUS
  <2> HIDE DEF Class
  <2>3. SumFunctionOnSet(w, Class({b})) \in Nat
    BY <1>1, <2>2, SumType
  <2>4. QED
    BY <2>1, <2>3
<1>3. Bad = {}
  <2> SUFFICES ASSUME Bad # {} PROVE FALSE
    OBVIOUS
  <2>1. PICK U \in Bad : \A V \in Bad : V \subseteq U => V = U
    <3>1. Bad \in SUBSET (SUBSET B)
      OBVIOUS
    <3> HIDE DEF Bad
    <3>2. QED
      BY <3>1, MinimalSubset
  <2>2. U # {}
    <3> SUFFICES ASSUME U = {} PROVE FALSE
      OBVIOUS
    <3>1. Class({}) = {}
      OBVIOUS
    <3> HIDE DEF Class
    <3>2. QED
      BY <2>1, <3>1, SumEmpty
  <2>3. PICK b \in U : TRUE
    BY <2>2
  <2> DEFINE V == U \ {b}
  <2>4. SumFunctionOnSet(sums, V) = SumFunctionOnSet(w, Class(V))
    BY <2>1, <2>3
  <2>5. /\ Class({b}) \subseteq Class(U) /\ Class(U) \ Class({b}) = Class(V)
        /\ \A x \in Class(U) : w[x] \in Nat
    BY <2>3
  <2>6. U \subseteq B /\ V \subseteq B /\ b \in B /\ b \notin V /\ U = V \cup {b}
        /\ IsFiniteSet(V)
    BY <2>1, <2>3, FS_Subset
  <2> HIDE DEF Class, V
  <2>7. SumFunctionOnSet(w, Class(U)) = SumFunctionOnSet(w, Class({b})) + SumFunctionOnSet(w, Class(V))
    <3> DEFINE all == Class(U)
               one == Class({b})
    <3>1. IsFiniteSet(all) /\ one \in SUBSET all /\ (\A x \in all : w[x] \in Nat)
          /\ all \ one = Class(V)
      BY <1>1, <2>5
    <3> HIDE DEF all, one
    <3>2. SumFunctionOnSet(w, all) = SumFunctionOnSet(w, one) + SumFunctionOnSet(w, all \ one)
      BY <3>1, SumSubset
    <3>3. QED
      BY <3>1, <3>2 DEF all, one
  <2>8. SumFunctionOnSet(sums, U) = sums[b] + SumFunctionOnSet(sums, V)
    BY <1>2, <2>6, SumAdd
  <2>9. QED
    BY <1>2, <2>1, <2>4, <2>6, <2>7, <2>8
<1>4. Class(B) = D
  OBVIOUS
<1>5. QED
  <2> HIDE DEF Class
  <2> QED
    BY <1>3, <1>4

\* What MapPanics has not refused has a bucket for every stake.
LEMMA StakesHavePlaces ==
  ASSUME NEW count \in Nat \ {0}, ~MapPanics(count, Stakes)
  PROVE  LET range == MapRange(Max({Stakes[n] : n \in Nodes}), count)
         IN  \A n \in Nodes : BucketIndex(Stakes[n], 0, range, count) \in 0..(count - 1)
<1> DEFINE stakes == {Stakes[n] : n \in Nodes}
           max == Max(stakes)
           range == MapRange(max, count)
<1>1. DOMAIN Stakes = Nodes
  BY StatisticsAssumption
<1>2. range # 0 /\ \A n \in Nodes : ~(BucketIndex(Stakes[n], 0, range, count) >= count)
  BY <1>1 DEF MapPanics
<1>3. max \in Nat
  <2>1. IsFiniteSet(stakes)
    BY StatisticsConstants, FiniteImage
  <2>2. stakes # {} /\ \A x \in stakes : x \in Nat
    BY StatisticsConstants
  <2> HIDE DEF stakes
  <2>3. QED
    BY <2>1, <2>2, MaxFacts
<1> HIDE DEF max
<1>4. range \in Nat
  BY <1>3 DEF MapRange
<1> HIDE DEF range
<1>5. ASSUME NEW n \in Nodes PROVE BucketIndex(Stakes[n], 0, range, count) \in 0..(count - 1)
  <2> DEFINE bucket == (Stakes[n] - 0) \div range
  <2>1. Stakes[n] \in Nat
    BY StatisticsConstants
  <2>2. bucket \in Nat
    BY <1>2, <1>4, <2>1
  <2> HIDE DEF bucket
  <2>3. BucketIndex(Stakes[n], 0, range, count) = IF bucket = count THEN bucket - 1 ELSE bucket
    BY DEF BucketIndex, bucket
  <2>4. QED
    BY <1>2, <2>2, <2>3
<1>6. QED
  BY <1>5 DEF range, max

\* The histograms of messages lose no message.
LEMMA MapCounts ==
  ASSUME NEW count \in Nat \ {0}, ~MapPanics(count, Stakes),
         NEW counts, \A n \in Nodes : counts[n] \in Nat
  PROVE  SumFunction(BuildFromMap(count, counts, Stakes)) = SumFunctionOnSet(counts, Nodes)
<1> DEFINE range == MapRange(Max({Stakes[n] : n \in Nodes}), count)
           index == [n \in Nodes |-> BucketIndex(Stakes[n], 0, range, count)]
           B == 0..(count - 1)
           h == BuildFromMap(count, counts, Stakes)
<1>1. DOMAIN Stakes = Nodes
  BY StatisticsAssumption
<1>2. \A n \in Nodes : index[n] \in B
  BY StakesHavePlaces
<1>3. DOMAIN h = B /\ \A b \in B : h[b] = SumFunctionOnSet(counts, {n \in Nodes : index[n] = b})
  <2>1. NodesPerBucket(count, Stakes) = [b \in B |-> {n \in Nodes : index[n] = b}]
    BY <1>1 DEF NodesPerBucket
  <2>2. QED
    BY <2>1 DEF BuildFromMap
<1>4. IsFiniteSet(B) /\ IsFiniteSet(Nodes)
  BY FS_Interval, StatisticsConstants
<1> HIDE DEF h, B, index
<1>5. SumFunctionOnSet(h, B) = SumFunctionOnSet(counts, Nodes)
  BY SMTT(60), <1>2, <1>3, <1>4, SumByClasses
<1>6. QED
  BY <1>3, <1>5 DEF SumFunction, h

-----------------------------------------------------------------------------
(* How far a simulation has come.                                          *)

\* The values of a map with finitely many keys, whatever else it is.
LEMMA MapValues ==
  ASSUME NEW f, IsFiniteSet(DOMAIN f), NEW T, \A n \in DOMAIN f : f[n] \in T
  PROVE  /\ Values(f) \in Seq(T) /\ Len(Values(f)) = Cardinality(DOMAIN f)
         /\ DOMAIN Values(f) = 1..Cardinality(DOMAIN f) /\ Cardinality(DOMAIN f) \in Nat
         /\ \A i \in 1..Cardinality(DOMAIN f) :
              SetToSeq(DOMAIN f)[i] \in DOMAIN f /\ Values(f)[i] = f[SetToSeq(DOMAIN f)[i]]
<1> DEFINE D == DOMAIN f
           N == Cardinality(D)
           keys == SetToSeq(D)
           s == [i \in 1..N |-> f[keys[i]]]
<1>1. N \in Nat /\ keys \in [1..N -> D] /\ DOMAIN keys = 1..N
  BY SetToSeqFacts
<1> HIDE DEF keys, N
<1>2. Values(f) = s
  BY <1>1 DEF Values, keys
<1>3. DOMAIN s = 1..N /\ \A i \in 1..N : keys[i] \in D /\ s[i] = f[keys[i]] /\ s[i] \in T
  BY <1>1
<1>4. s \in [1..N -> T]
  BY <1>1
<1>5. s \in Seq(T)
  BY <1>1, <1>4, SeqDef
<1> HIDE DEF s
<1>6. Len(s) = N
  <2>1. Len(s) \in Nat /\ 1..Len(s) = 1..N
    BY <1>3, <1>5, LenProperties
  <2>2. QED
    BY <1>1, <2>1, SameInterval
<1>7. QED
  BY <1>1, <1>2, <1>3, <1>5, <1>6 DEF N, keys

\* Every stake is in a bucket.
LEMMA StakesCounted ==
  SumFunction(Build(Max(Range(Stakes)), 0, StakeBuckets, Values(Stakes))) = Cardinality(Nodes)
<1> DEFINE top == Max(Range(Stakes))
           values == Values(Stakes)
           N == Cardinality(Nodes)
           keys == SetToSeq(Nodes)
<1>1. DOMAIN Stakes = Nodes /\ StakeBuckets \in Nat
  BY StatisticsAssumption
<1>2. Range(Stakes) = {Stakes[n] : n \in Nodes}
  BY <1>1 DEF Range
<1>3. /\ top \in Nat /\ \A n \in Nodes : Stakes[n] \in Nat /\ Stakes[n] <= top
  <2> DEFINE stakes == {Stakes[n] : n \in Nodes}
  <2>1. IsFiniteSet(stakes)
    BY StatisticsConstants, FiniteImage
  <2>2. stakes # {} /\ \A x \in stakes : x \in Nat
    BY StatisticsConstants
  <2> HIDE DEF stakes
  <2>3. Max(stakes) \in stakes /\ \A x \in stakes : Max(stakes) >= x
    BY <2>1, <2>2, MaxFacts
  <2>4. \A n \in Nodes : Stakes[n] \in stakes
    BY DEF stakes
  <2>5. top = Max(stakes)
    BY <1>2 DEF stakes
  <2> HIDE DEF top
  <2>6. QED
    BY <2>2, <2>3, <2>4, <2>5
<1> HIDE DEF top
<1>4. /\ values \in Seq(Nat) /\ Len(values) = N /\ DOMAIN values = 1..N
      /\ \A i \in 1..N : keys[i] \in Nodes /\ values[i] = Stakes[keys[i]]
  <2>1. IsFiniteSet(DOMAIN Stakes) /\ \A n \in DOMAIN Stakes : Stakes[n] \in Nat
    BY <1>1, StatisticsConstants
  <2>2. QED
    BY <1>1, <2>1, MapValues
<1> HIDE DEF values, N, keys
<1>5. \A i \in DOMAIN values : values[i] \in 0..top
  BY <1>3, <1>4
<1>6. QED
  BY <1>1, <1>4, <1>5, BuildCounts DEF top, values, N

\* While the rounds go on nothing is built.
LEMMA PhasesOfRounds ==
  ASSUME Phases, pc \in {"play", "record"}, pc' \in {"play", "record"}, UNCHANGED resultVars
  PROVE  Phases'
<1>1. histograms' = histograms /\ report' = report /\ lines' = lines
  BY DEF resultVars
<1>2. DOMAIN histograms = {"stakes"} /\ SumFunction(histograms.stakes) = Cardinality(Nodes)
      /\ report = <<>> /\ lines = <<>>
  BY DEF Phases
<1>3. QED
  BY <1>1, <1>2 DEF Phases

\* What has been built stays as it is.
LEMMA BuiltStays ==
  ASSUME RoundsOver, HistogramsBuilt, UNCHANGED <<iteration, seriesVars, buckets, histograms>>
  PROVE  RoundsOver' /\ HistogramsBuilt'
<1>1. /\ iteration' = iteration /\ coverage' = coverage /\ timesStranded' = timesStranded
      /\ rawHops' = rawHops /\ egress' = egress /\ ingress' = ingress
      /\ prunesSent' = prunesSent /\ buckets' = buckets /\ histograms' = histograms
  BY DEF seriesVars
<1>2. RoundsOver'
  BY <1>1 DEF RoundsOver
<1>3. HistogramsBuilt'
  BY <1>1 DEF HistogramsBuilt
<1>4. QED
  BY <1>2, <1>3

\* Every step leaves the phases as they are.
LEMMA NextPhases == Phases /\ [Next]_vars => Phases'
<1> SUFFICES ASSUME Phases, [Next]_vars PROVE Phases'
  OBVIOUS
<1>1. CASE Start
  <2>1. /\ pc = "start" /\ pc' \in {"play", "panicked"} /\ histograms = <<>>
        /\ report' = <<>> /\ lines' = <<>>
        /\ pc' = "panicked" => histograms' = histograms
        /\ pc' = "play" =>
             histograms' = [stakes |-> Build(Max(Range(Stakes)), 0, StakeBuckets, Values(Stakes))]
    BY <1>1 DEF Start, Phases
  <2>2. CASE pc' = "panicked"
    <3>1. "hops" \notin DOMAIN histograms'
      BY <2>1, <2>2, EmptySeq
    <3>2. QED
      BY <2>1, <2>2, <3>1 DEF Phases
  <2>3. CASE pc' = "play"
    <3>1. DOMAIN histograms' = {"stakes"} /\ SumFunction(histograms'.stakes) = Cardinality(Nodes)
      BY <2>1, <2>3, StakesCounted
    <3>2. QED
      BY <2>1, <2>3, <3>1 DEF Phases
  <2>4. QED
    BY <2>1, <2>2, <2>3
<1>2. CASE PlayRound
  BY <1>2, PhasesOfRounds DEF PlayRound
<1>3. CASE WarmUpRound
  BY <1>3, PhasesOfRounds DEF WarmUpRound
<1>4. CASE MeasureRound
  BY <1>4, PhasesOfRounds DEF MeasureRound
<1>5. CASE EndRounds
  <2>1. /\ pc = "play" /\ pc' \in {"done", "build"} /\ (pc' = "build" => coverage' # <<>>)
        /\ iteration' = Iterations /\ histograms' = histograms /\ report' = report /\ lines' = lines
    BY <1>5 DEF EndRounds, resultVars, seriesVars
  <2>2. DOMAIN histograms = {"stakes"} /\ SumFunction(histograms.stakes) = Cardinality(Nodes)
        /\ report = <<>> /\ lines = <<>>
    BY <2>1 DEF Phases
  <2>3. QED
    BY <2>1, <2>2 DEF Phases, RoundsOver
<1>6. CASE BuildHistograms
  <2>1. /\ pc = "build" /\ RoundsOver /\ report' = <<>> /\ lines' = <<>>
        /\ DOMAIN histograms = {"stakes"} /\ SumFunction(histograms.stakes) = Cardinality(Nodes)
        /\ UNCHANGED <<iteration, seriesVars>> /\ pc' \in {"panicked", "calculate"}
        /\ buckets' \in BucketChoices
    BY <1>6 DEF BuildHistograms, Phases
  <2>2. RoundsOver'
    BY <2>1 DEF RoundsOver, seriesVars
  <2>3. CASE pc' = "panicked"
    <3>1. histograms' = histograms
      BY <1>6, <2>3 DEF BuildHistograms
    <3>2. QED
      BY <2>1, <2>3, <3>1 DEF Phases
  <2>4. CASE pc' = "calculate"
    <3>1. /\ ~MapPanics(buckets'.messages, Stakes)
          /\ ~BuildPanics(Iterations - WarmUp, 0, buckets'.stranded, Values(timesStranded))
          /\ ~BuildPanics(HopsUpper, 0, buckets'.hops, rawHops)
          /\ histograms' =
               [stakes |-> histograms.stakes,
                stranded |-> Build(Iterations - WarmUp, 0, buckets'.stranded, Values(timesStranded)),
                hops |-> Build(HopsUpper, 0, buckets'.hops, rawHops),
                egress |-> MessageHistogram(egress, buckets'.messages),
                ingress |-> MessageHistogram(ingress, buckets'.messages),
                prunes |-> MessageHistogram(prunesSent, buckets'.messages)]
      BY <1>6, <2>4 DEF BuildHistograms
    <3>2. /\ timesStranded' = timesStranded /\ rawHops' = rawHops /\ egress' = egress
          /\ ingress' = ingress /\ prunesSent' = prunesSent
      BY <2>1 DEF seriesVars
    <3>3. HistogramsBuilt'
      BY <2>1, <3>1, <3>2 DEF HistogramsBuilt
    <3>4. "hops" \in DOMAIN histograms'
      BY <3>1
    <3>5. QED
      BY <2>1, <2>2, <2>4, <3>3, <3>4 DEF Phases
  <2>5. QED
    BY <2>1, <2>3, <2>4
<1>7. CASE Calculate
  <2>1. /\ pc = "calculate" /\ pc' \in {"panicked", "publish"} /\ lines' = <<>>
        /\ "hops" \in DOMAIN histograms /\ RoundsOver /\ HistogramsBuilt
        /\ UNCHANGED <<iteration, seriesVars, buckets, histograms>>
    BY <1>7 DEF Calculate, Phases
  <2>2. RoundsOver' /\ HistogramsBuilt'
    BY <2>1, BuiltStays
  <2>3. QED
    BY <2>1, <2>2 DEF Phases
<1>8. CASE Publish
  <2>1. /\ pc = "publish" /\ pc' \in {"panicked", "done"}
        /\ "hops" \in DOMAIN histograms /\ RoundsOver /\ HistogramsBuilt /\ lines = <<>>
        /\ UNCHANGED <<iteration, seriesVars, buckets, histograms>>
    BY <1>8 DEF Publish, Phases
  <2>2. RoundsOver' /\ HistogramsBuilt'
    BY <2>1, BuiltStays
  <2>3. /\ pc' = "panicked" => lines' = <<>>
        /\ lines' # <<>> => lines' = [stranded |-> LabelledLines(0, StrandedRange, histograms.stranded, Word),
                                      hops |-> LabelledLines(0, HopsRange, histograms.hops, Word)]
    BY <1>8, <2>1 DEF Publish
  <2>4. StrandedRange' = StrandedRange /\ HopsRange' = HopsRange
    BY <2>1 DEF StrandedRange, HopsRange
  <2>5. QED
    BY <2>1, <2>2, <2>3, <2>4 DEF Phases
<1>9. CASE UNCHANGED vars
  <2>1. /\ pc' = pc /\ iteration' = iteration /\ coverage' = coverage /\ histograms' = histograms
        /\ report' = report /\ lines' = lines /\ buckets' = buckets
        /\ UNCHANGED <<iteration, seriesVars, buckets, histograms>>
    BY <1>9 DEF vars, resultVars, seriesVars
  <2>2. RoundsOver /\ HistogramsBuilt => RoundsOver' /\ HistogramsBuilt'
    BY <2>1, BuiltStays
  <2>3. RoundsOver => RoundsOver'
    BY <2>1 DEF RoundsOver
  <2>4. StrandedRange' = StrandedRange /\ HopsRange' = HopsRange
    BY <2>1 DEF StrandedRange, HopsRange
  <2>5. QED
    BY <2>1, <2>2, <2>3, <2>4 DEF Phases
<1>10. QED
  BY <1>1, <1>2, <1>3, <1>4, <1>5, <1>6, <1>7, <1>8, <1>9 DEF Next, Finished

\* Before the first round nothing has been built.
LEMMA InitPhases == Init => Phases
<1> SUFFICES ASSUME Init PROVE Phases
  OBVIOUS
<1>1. pc = "start" /\ histograms = <<>> /\ report = <<>> /\ lines = <<>>
  BY DEF Init
<1>2. "hops" \notin DOMAIN histograms
  BY <1>1, EmptySeq
<1>3. QED
  BY <1>1, <1>2 DEF Phases

\* Once the rounds are over the measured ones are those after the warm-up.
LEMMA MeasuredAll ==
  ASSUME StatisticsInv, RoundsOver
  PROVE  Measured = Iterations - WarmUp /\ Measured \in Nat \ {0} /\ Len(coverage) = Measured
<1>1. Len(coverage) = Measured /\ coverage \in Seq(Nat) /\ coverage # <<>>
  BY DEF StatisticsInv, RoundsAccount, TypeOK, RoundsOver
<1>2. Len(coverage) # 0 /\ Len(coverage) \in Nat
  BY <1>1, EmptySeq, LenProperties
<1>3. iteration = Iterations /\ {Iterations, WarmUp} \subseteq Nat
  BY StatisticsConstants DEF RoundsOver
<1>4. QED
  BY <1>1, <1>2, <1>3 DEF Measured

\* The values that the histogram of stranded nodes is built of.
LEMMA StrandedValues ==
  ASSUME StatisticsInv, RoundsOver
  PROVE  /\ Values(timesStranded) \in Seq(Nat)
         /\ Len(Values(timesStranded)) = Cardinality(DOMAIN timesStranded)
         /\ \A i \in DOMAIN Values(timesStranded) : Values(timesStranded)[i] \in 1..(Iterations - WarmUp)
<1> DEFINE D == DOMAIN timesStranded
           values == Values(timesStranded)
           upper == Iterations - WarmUp
<1>1. upper \in Nat /\ upper = Measured
  BY MeasuredAll
<1>2. IsFiniteSet(D) /\ \A n \in D : timesStranded[n] \in 1..upper
  <2>1. D \subseteq Nodes /\ \A n \in D : timesStranded[n] \in 1..Measured
    BY DEF StatisticsInv, TypeOK, StrandedTwice
  <2>2. QED
    BY <1>1, <2>1, StatisticsConstants, FS_Subset
<1> HIDE DEF upper
<1>3. \A n \in D : timesStranded[n] \in Nat
  BY <1>1, <1>2
<1>4. /\ values \in Seq(Nat) /\ Len(values) = Cardinality(D) /\ DOMAIN values = 1..Cardinality(D)
      /\ \A i \in 1..Cardinality(D) :
           SetToSeq(D)[i] \in D /\ values[i] = timesStranded[SetToSeq(D)[i]]
  BY <1>2, <1>3, MapValues
<1>5. \A i \in DOMAIN values : values[i] \in 1..upper
  <2> HIDE DEF D, values
  <2> QED
    BY <1>2, <1>4
<1>6. QED
  BY <1>4, <1>5 DEF upper

\* What has been built has everything in it, unless hops were past the bound.
LEMMA BuiltComplete ==
  ASSUME StatisticsInv, Phases, HopsInBounds
  PROVE  HistogramsComplete
<1> SUFFICES ASSUME "hops" \in DOMAIN histograms
             PROVE  /\ SumFunction(histograms.stakes) = Cardinality(Nodes)
                    /\ SumFunction(histograms.stranded) = Cardinality(DOMAIN timesStranded)
                    /\ SumFunction(histograms.hops) = Len(rawHops)
                    /\ SumFunction(histograms.egress.raw) = SumFunction(egress)
                    /\ SumFunction(histograms.ingress.raw) = SumFunction(ingress)
                    /\ SumFunction(histograms.prunes.raw) = SumFunction(prunesSent)
  BY DEF HistogramsComplete
<1>1. RoundsOver /\ HistogramsBuilt
  BY DEF Phases
<1>2. /\ buckets.stranded \in Nat /\ buckets.hops \in Nat /\ buckets.messages \in Nat \ {0}
      /\ HopsUpper \in Nat
  <2>1. buckets \in [stranded : Nat, hops : Nat, messages : Nat]
    BY <1>1, StatisticsAssumption DEF HistogramsBuilt
  <2>2. buckets.messages # 0
    BY <1>1 DEF HistogramsBuilt, MapPanics
  <2>3. QED
    BY <2>1, <2>2, StatisticsAssumption
<1>3. SumFunction(histograms.stranded) = Cardinality(DOMAIN timesStranded)
  <2> DEFINE values == Values(timesStranded)
             upper == Iterations - WarmUp
             count == buckets.stranded
  <2>1. /\ values \in Seq(Nat) /\ Len(values) = Cardinality(DOMAIN timesStranded)
        /\ \A i \in DOMAIN values : values[i] \in 1..upper
    BY <1>1, StrandedValues
  <2>2. histograms.stranded = Build(upper, 0, count, values) /\ count \in Nat
    BY <1>1, <1>2 DEF HistogramsBuilt
  <2> HIDE DEF values, upper, count
  <2>3. \A i \in DOMAIN values : values[i] \in 0..upper
    BY <2>1
  <2>4. QED
    BY <2>1, <2>2, <2>3, BuildCounts
<1>4. SumFunction(histograms.hops) = Len(rawHops)
  <2> DEFINE count == buckets.hops
             values == rawHops
  <2>1. values \in Seq(Nat) /\ DOMAIN values = 1..Len(values) /\ \A i \in 1..Len(values) : values[i] \in Nat
    BY LenProperties DEF StatisticsInv, TypeOK
  <2>2. \A i \in DOMAIN values : values[i] \in 0..HopsUpper
    BY <1>2, <2>1 DEF HopsInBounds
  <2>3. histograms.hops = Build(HopsUpper, 0, count, values) /\ count \in Nat
    BY <1>1, <1>2 DEF HistogramsBuilt
  <2> HIDE DEF values, count
  <2>4. SumFunction(histograms.hops) = Len(values)
    BY <2>1, <2>2, <2>3, BuildCounts
  <2>5. QED
    BY <2>4 DEF values
<1>5. ASSUME NEW counts \in [Nodes -> Nat]
      PROVE  SumFunction(MessageHistogram(counts, buckets.messages).raw) = SumFunction(counts)
  <2> DEFINE count == buckets.messages
  <2>1. ~MapPanics(count, Stakes) /\ count \in Nat \ {0} /\ \A n \in Nodes : counts[n] \in Nat
    BY <1>1, <1>2 DEF HistogramsBuilt
  <2> HIDE DEF count
  <2>2. SumFunction(BuildFromMap(count, counts, Stakes)) = SumFunctionOnSet(counts, Nodes)
    BY <2>1, MapCounts
  <2>3. QED
    BY <2>2 DEF MessageHistogram, SumFunction, count
<1>6. {egress, ingress, prunesSent} \subseteq [Nodes -> Nat]
  BY DEF StatisticsInv, TypeOK
<1>7. QED
  BY <1>1, <1>3, <1>4, <1>5, <1>6 DEF HistogramsBuilt

\* The phases of a simulation follow each other.
THEOREM PhasesInvariance == Spec => []Phases
<1>1. QED
  BY InitPhases, NextPhases, PTL DEF Spec

\* Unless hops are past the upper bound of their histogram, a constant chosen by
\* the test type (gossip_main.rs:573-587), no histogram loses an entry to its
\* bounds, and no message.
THEOREM HistogramsLoseNothing == Spec => [](HopsInBounds => HistogramsComplete)
<1>1. StatisticsInv /\ Phases => (HopsInBounds => HistogramsComplete)
  BY BuiltComplete
<1>2. QED
  BY <1>1, StatisticsInvariance, PhasesInvariance, PTL

-----------------------------------------------------------------------------
(* Labels.                                                                 *)

\* 1 less than a number, in numbers modulo word.
LEMMA OneLess ==
  ASSUME NEW x \in Nat, NEW word \in Nat, x <= word, word # 0
  PROVE  (x + word - 1) % word = IF x = 0 THEN word - 1 ELSE x - 1
OBVIOUS

\* The label of a bucket.
LEMMA BucketLabelIs ==
  ASSUME NEW range \in Nat, NEW b \in Nat, NEW word \in Nat \ {0}, b * range + range <= word
  PROVE  BucketLabel(0, range, b, word) = IF range = 0 THEN word - 1 ELSE b * range + range - 1
<1> DEFINE x == (b + 1) * range
<1>1. x = b * range + range /\ x \in Nat /\ (range = 0 => x = 0) /\ (range # 0 => x # 0)
  BY Multiples
<1> HIDE DEF x
<1>2. (x + word - 1) % word = IF x = 0 THEN word - 1 ELSE x - 1
  BY <1>1, OneLess
<1>3. BucketLabel(0, range, b, word) = (0 + x + word - 1) % word
  BY DEF BucketLabel, x
<1>4. QED
  BY <1>1, <1>2, <1>3

\* A value is in a bucket no later than another if it is no greater than that
\* one's label, or the greatest put back there.
LEMMA IndexBelow ==
  ASSUME NEW v \in Nat, NEW range \in Nat \ {0}, NEW count \in Nat, NEW b \in Nat,
         count # 0 \/ v >= range
  PROVE  LET index == BucketIndex(v, 0, range, count)
         IN  /\ index \in Nat
             /\ index <= b <=> v <= b * range + range - 1 + (IF b = count - 1 THEN range ELSE 0)
<1> DEFINE q == v \div range
           index == BucketIndex(v, 0, range, count)
<1>1. q \in Nat /\ q * range <= v /\ v < q * range + range
  BY Quotient
<1>2. index = IF q = count THEN q - 1 ELSE q
  BY DEF BucketIndex
<1>2a. count = 0 => q # 0
  <2> DEFINE low == q * range
  <2>1. q = 0 => low = 0
    OBVIOUS
  <2>2. low + range > v
    BY <1>1
  <2> HIDE DEF low, q
  <2>3. QED
    BY <2>1, <2>2
<1> HIDE DEF q, index
<1>3. ASSUME NEW c \in Nat PROVE q <= c <=> v <= c * range + range - 1
  <2> DEFINE low == q * range
             mid == c * range
  <2>1. low \in Nat /\ mid \in Nat /\ (q <= c => low <= mid) /\ (c < q => mid + range <= low)
    BY <1>1, Multiples
  <2> HIDE DEF low, mid
  <2>2. low <= v /\ v < low + range
    BY <1>1 DEF low
  <2>3. q <= c <=> v <= mid + range - 1
    BY <1>1, <2>1, <2>2
  <2>4. QED
    BY <2>3 DEF mid
<1>4. index \in Nat
  BY <1>1, <1>2, <1>2a
<1>5. ASSUME b = count - 1 PROVE index <= b <=> v <= (b * range) + range - 1 + range
  <2>1. index <= b <=> q <= count
    BY <1>1, <1>2, <1>5
  <2>2. q <= count <=> v <= count * range + range - 1
    BY <1>3
  <2>3. count * range = b * range + range /\ b * range \in Nat
    BY <1>5, Multiples
  <2> DEFINE most == count * range
             least == b * range
  <2> HIDE DEF most, least
  <2>4. most = least + range /\ least \in Nat /\ (q <= count <=> v <= most + range - 1)
    BY <2>2, <2>3 DEF most, least
  <2>5. index <= b <=> v <= least + range - 1 + range
    BY <2>1, <2>4
  <2>6. QED
    BY <2>5 DEF least
<1>6. ASSUME b # count - 1 PROVE index <= b <=> v <= (b * range) + range - 1 + 0
  <2>1. index <= b <=> q <= b
    BY <1>1, <1>2, <1>6
  <2>2. q <= b <=> v <= b * range + range - 1
    BY <1>3
  <2> DEFINE least == b * range
  <2>3. least \in Nat /\ (q <= b <=> v <= least + range - 1)
    BY <2>2, Multiples
  <2> HIDE DEF least
  <2>4. index <= b <=> v <= least + range - 1 + 0
    BY <2>1, <2>3
  <2>5. QED
    BY <2>4 DEF least
<1> DEFINE more == IF b = count - 1 THEN range ELSE 0
<1>7. index <= b <=> v <= b * range + range - 1 + more
  BY <1>5, <1>6
<1>8. QED
  BY <1>4, <1>7 DEF index

\* The range of a bucket.
LEMMA RangeBound ==
  ASSUME NEW upper \in Nat, NEW count \in Nat, count # 0 \/ upper \in {0, 1}
  PROVE  LET range == BuildRange(upper, 0, count)
         IN  range \in Nat /\ range <= upper + 1 /\ count * range <= upper + count
<1> DEFINE q == upper \div count
           range == BuildRange(upper, 0, count)
<1>0. CASE count = 0
  <2>1. range = 1
    BY <1>0 DEF BuildRange
  <2> HIDE DEF range
  <2>2. QED
    BY <1>0, <2>1 DEF range
<1> SUFFICES ASSUME count # 0
             PROVE  range \in Nat /\ range <= upper + 1 /\ count * range <= upper + count
  BY <1>0
<1>1. q \in Nat /\ q * count <= upper
  BY Quotient
<1>2. q <= upper
  <2>1. q * 1 <= q * count
    <3>1. 1 * q <= count * q
      BY <1>1, Multiples
    <3> HIDE DEF q
    <3>2. QED
      BY <1>1, <3>1
  <2> DEFINE p == q * count
  <2>2. p \in Nat /\ q <= p /\ p <= upper
    <3> HIDE DEF q
    <3> QED
      BY <1>1, <2>1
  <2> HIDE DEF q, p
  <2>3. QED
    BY <1>1, <2>2
<1>3. range = 1 \/ range = q
  BY DEF BuildRange
<1>4. CASE range = 1
  <2> HIDE DEF range
  <2> QED
    BY <1>4 DEF range
<1>5. CASE range = q
  <2> HIDE DEF q, range
  <2>1. count * range <= upper
    BY <1>1, <1>5
  <2>2. count * range \in Nat
    BY <1>1, <1>5
  <2> DEFINE p == count * range
  <2> HIDE DEF p
  <2>3. p <= upper + count
    BY <2>1, <2>2 DEF p
  <2>4. QED
    BY <1>1, <1>2, <1>5, <2>3 DEF p, range
<1>6. QED
  BY <1>3, <1>4, <1>5

\* Where a histogram has been built without buckets one round was measured, and
\* who was stranded was so in that round.
LEMMA BuiltOfNone ==
  ASSUME NEW upper \in Nat, NEW count, NEW values, ~BuildPanics(upper, 0, count, values)
  PROVE  \/ count # 0
         \/ /\ upper \in {0, 1} /\ BuildRange(upper, 0, count) = 1
            /\ ~\E i \in DOMAIN values : values[i] = 0
<1> SUFFICES ASSUME count = 0
             PROVE  /\ upper \in {0, 1} /\ BuildRange(upper, 0, count) = 1
                    /\ ~\E i \in DOMAIN values : values[i] = 0
  OBVIOUS
<1>1. ~NoBucketPanics(upper, 0, values)
  BY DEF BuildPanics
<1>2. upper \in {0, 1} /\ ~\E i \in DOMAIN values : values[i] = 0
  BY <1>1 DEF NoBucketPanics
<1>3. QED
  BY <1>2 DEF BuildRange

\* A line of a histogram.
LineOf(h, range, b) == [bucket |-> b, label |-> BucketLabel(0, range, b, Word), count |-> h[b]]

\* The counts of the lines up to a label.
SumUpTo(labelled, top) ==
  SumFunctionOnSet([l \in labelled |-> l.count], {l \in labelled : l.label <= top})

\* The buckets up to a label.
BucketsUpTo(B, range, top) == {b \in B : BucketLabel(0, range, b, Word) <= top}

\* Its lines up to a label count what its buckets up to there hold.
LEMMA LinesUpTo ==
  ASSUME NEW h, NEW B, IsFiniteSet(B), DOMAIN h = B, \A b \in B : h[b] \in Nat, NEW range, NEW top,
         NEW labelled, labelled = LabelledLines(0, range, h, Word)
  PROVE  SumUpTo(labelled, top) = SumFunctionOnSet(h, BucketsUpTo(B, range, top))
<1> DEFINE C == BucketsUpTo(B, range, top)
           r == [b \in C |-> LineOf(h, range, b)]
           f == [l \in labelled |-> l.count]
           below == {l \in labelled : l.label <= top}
<1>1. labelled = {LineOf(h, range, b) : b \in B}
  BY DEF LabelledLines, LineOf
<1>2. IsFiniteSet(C) /\ C \subseteq B
  <2>1. C \subseteq B
    BY DEF BucketsUpTo
  <2> HIDE DEF C
  <2>2. QED
    BY <2>1, FS_Subset
<1>3. \A b \in C : r[b] \in labelled /\ h[b] \in Nat /\ h[b] = f[r[b]] /\ r[b].bucket = b
  <2> TAKE b \in C
  <2>1. r[b] = LineOf(h, range, b) /\ r[b] \in labelled /\ f[r[b]] = r[b].count
    BY <1>1, <1>2
  <2>2. r[b].count = h[b] /\ r[b].bucket = b
    BY <2>1 DEF LineOf
  <2>3. QED
    BY <1>2, <2>1, <2>2
<1>4. \A b, c \in C : r[b] = r[c] => b = c
  <2> HIDE DEF r, C
  <2> QED
    BY <1>3
<1>5. {r[b] : b \in C} = below
  <2>1. \A b \in B : LineOf(h, range, b).label = BucketLabel(0, range, b, Word)
    BY DEF LineOf
  <2>2. \A b \in C : r[b] = LineOf(h, range, b)
    OBVIOUS
  <2> HIDE DEF r
  <2>3. QED
    BY <1>1, <1>2, <2>1, <2>2 DEF BucketsUpTo
<1> HIDE DEF r, f, below, C
<1>6. SumFunctionOnSet(h, C) = SumFunctionOnSet(f, {r[b] : b \in C})
  BY SMTT(60), <1>2, <1>3, <1>4, SumImage
<1>7. QED
  BY <1>5, <1>6 DEF f, below, SumUpTo, C

\* The labels of a histogram that leaves no value out can be read as what they
\* say.
LEMMA LegibleHistogram ==
  ASSUME NEW upper \in Nat, NEW count \in Nat, NEW values \in Seq(Nat),
         \A i \in DOMAIN values : values[i] \in 0..upper,
         ~BuildPanics(upper, 0, count, values), 2 * upper + count < Word,
         NEW range, range = BuildRange(upper, 0, count),
         NEW h, h = Build(upper, 0, count, values)
  PROVE  Legible(LabelledLines(0, range, h, Word), count, range, values)
<1> DEFINE D == DOMAIN values
           kept == {i \in D : values[i] \in 0..upper}
           index == [i \in kept |-> BucketIndex(values[i], 0, range, count)]
           B == 0..(count - 1) \cup Range(index)
           labelled == LabelledLines(0, range, h, Word)
<1>1. h = [b \in B |-> Cardinality({i \in kept : index[i] = b})]
  BY DEF Build
<1>2. /\ kept = D /\ D = 1..Len(values) /\ Len(values) \in Nat
      /\ \A i \in D : values[i] \in Nat /\ values[i] <= upper
  <2>1. D = 1..Len(values) /\ Len(values) \in Nat
    BY LenProperties
  <2>2. \A i \in D : values[i] \in 0..upper
    OBVIOUS
  <2>3. kept = D
    BY <2>2
  <2> HIDE DEF kept, D
  <2>4. \A i \in D : values[i] \in Nat /\ values[i] <= upper
    BY <2>2
  <2>5. QED
    BY <2>1, <2>3, <2>4
<1>3. IsFiniteSet(D)
  BY <1>2, FS_Interval
<1>4. Range(index) = {index[i] : i \in D} /\ \A i \in D : index[i] = BucketIndex(values[i], 0, range, count)
  BY <1>2 DEF Range
<1>5. /\ range \in Nat /\ range <= upper + 1 /\ count * range <= upper + count
      /\ count # 0 \/ (range = 1 /\ \A i \in D : values[i] # 0)
  <2>1. \/ count # 0
        \/ /\ upper \in {0, 1} /\ range = 1
           /\ ~\E i \in DOMAIN values : values[i] = 0
    BY BuiltOfNone
  <2>2. range \in Nat /\ range <= upper + 1 /\ count * range <= upper + count
    BY <2>1, RangeBound
  <2>3. count # 0 \/ (range = 1 /\ \A i \in D : values[i] # 0)
    BY <2>1
  <2>4. QED
    BY <2>2, <2>3
<1>6. Word \in Nat \ {0}
  BY StatisticsAssumption
<1> HIDE DEF index
<1>7. IsFiniteSet(B) /\ \A i \in D : index[i] \in B
  <2>1. IsFiniteSet({index[i] : i \in D})
    <3> HIDE DEF D
    <3> QED
      BY <1>3, FiniteImage
  <2>2. IsFiniteSet(0..(count - 1))
    BY FS_Interval
  <2> HIDE DEF D
  <2>3. QED
    BY <1>4, <2>1, <2>2, FS_Union
<1>8. DOMAIN h = B /\ \A b \in B : h[b] = Cardinality({i \in D : index[i] = b})
  BY <1>1, <1>2
<1>9. \A b \in B : h[b] \in Nat /\ IsFiniteSet({i \in D : index[i] = b})
  <2> SUFFICES ASSUME NEW b \in B
               PROVE  h[b] \in Nat /\ IsFiniteSet({i \in D : index[i] = b})
    OBVIOUS
  <2> DEFINE part == {i \in D : index[i] = b}
  <2>1. part \subseteq D /\ h[b] = Cardinality(part)
    BY <1>8
  <2> HIDE DEF part, D
  <2>2. QED
    BY <1>3, <2>1, FS_Subset, FS_CardinalityType DEF part
<1> HIDE DEF D, B, labelled
<1>10. ASSUME NEW line \in labelled
       PROVE  SumFunctionOnSet([l \in labelled |-> l.count], {l \in labelled : l.label <= line.label})
                = Cardinality({i \in DOMAIN values :
                     values[i] <= line.label + (IF line.bucket = count - 1 THEN range ELSE 0)})
  <2> DEFINE label(b) == BucketLabel(0, range, b, Word)
             top == line.label
             C == BucketsUpTo(B, range, top)
             E == {i \in D : index[i] \in C}
             more == IF line.bucket = count - 1 THEN range ELSE 0
             F == {i \in D : values[i] <= line.label + more}
  <2>1. PICK b \in B : line.bucket = b /\ line.label = label(b)
    BY <1>8 DEF labelled, LabelledLines
  <2>2. SumUpTo(labelled, top) = SumFunctionOnSet(h, C)
    <3>1. labelled = LabelledLines(0, range, h, Word)
      BY DEF labelled
    <3>2. \A c \in B : h[c] \in Nat
      BY <1>9
    <3> HIDE DEF top
    <3>3. QED
      BY <1>7, <1>8, <3>1, <3>2, LinesUpTo
  <2>3. SumFunctionOnSet(h, C) = Cardinality(E)
    <3>1. C \subseteq B /\ E \subseteq D /\ \A i \in E : index[i] \in C
      BY DEF BucketsUpTo
    <3>2. \A c \in C : h[c] = Cardinality({i \in E : index[i] = c})
      <4>1. ASSUME NEW c \in C PROVE {i \in E : index[i] = c} = {i \in D : index[i] = c}
        OBVIOUS
      <4> HIDE DEF C, E
      <4>2. QED
        BY <1>8, <3>1, <4>1
    <3> HIDE DEF C, E
    <3>3. IsFiniteSet(C) /\ IsFiniteSet(E)
      BY <1>3, <1>7, <3>1, FS_Subset
    <3>4. QED
      BY SMTT(60), <3>1, <3>2, <3>3, ClassesCount
  <2>4. E = F
    <3>1. CASE range = 0
      <4>1. D = {}
        BY <1>5, <3>1 DEF BuildPanics, D
      <4>2. QED
        BY <4>1
    <3>2. CASE range # 0
      <4>1. \A i \in D : /\ index[i] \in Nat
                         /\ \A c \in Nat : index[i] <= c <=>
                              values[i] <= c * range + range - 1 + (IF c = count - 1 THEN range ELSE 0)
        <5> SUFFICES ASSUME NEW i \in D
                     PROVE  /\ index[i] \in Nat
                            /\ \A c \in Nat : index[i] <= c <=>
                                 values[i] <= c * range + range - 1 + (IF c = count - 1 THEN range ELSE 0)
          OBVIOUS
        <5> DEFINE v == values[i]
                   place == BucketIndex(v, 0, range, count)
        <5>1. /\ v \in Nat /\ index[i] = place /\ range \in Nat \ {0}
              /\ count # 0 \/ v >= range
          BY <1>2, <1>4, <1>5, <3>2
        <5> HIDE DEF v
        <5>2. \A c \in Nat : /\ place \in Nat
                             /\ place <= c <=>
                                  v <= c * range + range - 1 + (IF c = count - 1 THEN range ELSE 0)
          BY <5>1, IndexBelow
        <5> HIDE DEF place
        <5>3. 0 \in Nat
          OBVIOUS
        <5>4. QED
          BY <5>1, <5>2, <5>3 DEF v
      <4>2. \A c \in B : c \in Nat /\ c * range + range <= Word
        <5> SUFFICES ASSUME NEW c \in B PROVE c \in Nat /\ c * range + range <= Word
          OBVIOUS
        <5>1. CASE c \in 0..(count - 1)
          <6>1. c \in Nat /\ c < count
            BY <5>1
          <6>2. c * range + range <= count * range /\ c * range \in Nat /\ count * range \in Nat
            BY <1>5, <6>1, Multiples
          <6> DEFINE p == c * range
                     s == count * range
          <6>3. p + range <= s /\ s <= upper + count /\ p \in Nat /\ s \in Nat
            BY <1>5, <6>2
          <6> HIDE DEF p, s
          <6>4. p + range <= Word
            BY <1>5, <1>6, <6>3
          <6>5. QED
            BY <6>1, <6>4 DEF p
        <5>2. CASE c \notin 0..(count - 1)
          <6>1. PICK i \in D : c = index[i] /\ index[i] \in Nat
            BY <1>4, <4>1, <5>2 DEF B
          <6> DEFINE q == values[i] \div range
          <6>2. values[i] \in Nat /\ values[i] <= upper /\ q \in Nat /\ q * range <= values[i]
            BY <1>2, <1>5, <3>2, Quotient
          <6>3. c = IF q = count THEN q - 1 ELSE q
            BY <1>4, <6>1, <6>2 DEF BucketIndex
          <6> DEFINE p == q * range
          <6>8. p \in Nat /\ p <= values[i]
            BY <1>5, <6>2, Multiples
          <6> HIDE DEF p
          <6>4. p <= upper /\ p \in Nat
            BY <6>2, <6>8
          <6> HIDE DEF q, p
          <6>5. c = q
            BY <5>2, <6>1, <6>2, <6>3
          <6>6. p + range <= Word
            BY <1>5, <1>6, <6>4
          <6>7. QED
            BY <6>2, <6>5, <6>6 DEF p
        <5>3. QED
          BY <5>1, <5>2
      <4>3. \A c \in B : label(c) = c * range + range - 1
        BY <1>5, <1>6, <3>2, <4>2, BucketLabelIs
      <4>4. \A c \in B : label(c) <= top <=> c <= b
        <5> SUFFICES ASSUME NEW c \in B PROVE label(c) <= top <=> c <= b
          OBVIOUS
        <5> DEFINE p == c * range
                   s == b * range
        <5>1. c \in Nat /\ b \in Nat /\ p \in Nat /\ s \in Nat
              /\ (c <= b => p <= s) /\ (b < c => s + range <= p)
          BY <1>5, <4>2, Multiples
        <5>2. label(c) = p + range - 1 /\ top = s + range - 1
          BY <2>1, <4>3
        <5>3. range \in Nat /\ range # 0
          BY <1>5, <3>2
        <5> HIDE DEF p, s, label, top
        <5>4. QED
          BY <5>1, <5>2, <5>3
      <4>5. \A i \in D : index[i] \in C <=> values[i] <= top + more
        <5> SUFFICES ASSUME NEW i \in D PROVE index[i] \in C <=> values[i] <= top + more
          OBVIOUS
        <5>1. index[i] \in C <=> index[i] <= b
          BY <1>7, <4>4 DEF BucketsUpTo
        <5>2. b \in Nat /\ top = b * range + range - 1
              /\ more = IF b = count - 1 THEN range ELSE 0
          BY <2>1, <4>2, <4>3
        <5> HIDE DEF C, top, more
        <5>3. QED
          BY <4>1, <5>1, <5>2
      <4>6. QED
        BY <4>5
    <3>3. QED
      BY <3>1, <3>2
  <2>5. QED
    BY <2>2, <2>3, <2>4 DEF D, SumUpTo
<1>11. QED
  BY <1>10 DEF Legible, labelled

\* So the lines of both histograms can be read.
LEMMA LinesLegible ==
  ASSUME StatisticsInv, Phases, HopsInBounds, LabelsFit
  PROVE  HistogramsLegible
<1> SUFFICES ASSUME lines # <<>>
             PROVE  /\ Legible(lines.stranded, buckets.stranded, StrandedRange, Values(timesStranded))
                    /\ Legible(lines.hops, buckets.hops, HopsRange, rawHops)
  BY DEF HistogramsLegible
<1>1. /\ RoundsOver /\ HistogramsBuilt
      /\ lines.stranded = LabelledLines(0, StrandedRange, histograms.stranded, Word)
      /\ lines.hops = LabelledLines(0, HopsRange, histograms.hops, Word)
  BY DEF Phases
<1>2. /\ buckets.stranded \in Nat /\ buckets.hops \in Nat /\ HopsUpper \in Nat
      /\ 2 * Iterations + buckets.stranded < Word /\ 2 * HopsUpper + buckets.hops < Word
  <2>1. buckets \in [stranded : Nat, hops : Nat, messages : Nat]
    BY <1>1, StatisticsAssumption DEF HistogramsBuilt
  <2>2. QED
    BY <1>1, <2>1, StatisticsAssumption DEF HistogramsBuilt, LabelsFit
<1>3. Legible(lines.stranded, buckets.stranded, StrandedRange, Values(timesStranded))
  <2> DEFINE values == Values(timesStranded)
             upper == Iterations - WarmUp
             count == buckets.stranded
             range == StrandedRange
             h == histograms.stranded
  <2>1. /\ values \in Seq(Nat) /\ \A i \in DOMAIN values : values[i] \in 1..upper
    BY <1>1, StrandedValues
  <2>2. /\ h = Build(upper, 0, count, values) /\ ~BuildPanics(upper, 0, count, values)
        /\ range = BuildRange(upper, 0, count) /\ lines.stranded = LabelledLines(0, range, h, Word)
    BY <1>1 DEF HistogramsBuilt, StrandedRange
  <2>3. upper \in Nat /\ count \in Nat /\ 2 * upper + count < Word
    <3>1. {Iterations, WarmUp} \subseteq Nat /\ upper \in Nat /\ upper <= Iterations
      BY <1>1, MeasuredAll, StatisticsConstants
    <3> DEFINE c == buckets.stranded
    <3>2. c \in Nat /\ 2 * Iterations + c < Word
      BY <1>2
    <3> HIDE DEF c
    <3>3. Word \in Nat
      BY StatisticsAssumption
    <3>4. 2 * upper + c < Word
      BY <3>1, <3>2, <3>3
    <3>5. QED
      BY <1>2, <3>1, <3>4 DEF c
  <2> HIDE DEF values, upper, count, range, h
  <2>4. \A i \in DOMAIN values : values[i] \in 0..upper
    BY <2>1
  <2>5. QED
    BY <2>1, <2>2, <2>3, <2>4, LegibleHistogram DEF values, count, range
<1>4. Legible(lines.hops, buckets.hops, HopsRange, rawHops)
  <2> DEFINE values == rawHops
             upper == HopsUpper
             count == buckets.hops
             range == HopsRange
             h == histograms.hops
  <2>1. values \in Seq(Nat) /\ DOMAIN values = 1..Len(values) /\ \A i \in 1..Len(values) : values[i] \in Nat
    BY LenProperties DEF StatisticsInv, TypeOK
  <2>2. /\ h = Build(upper, 0, count, values) /\ ~BuildPanics(upper, 0, count, values)
        /\ range = BuildRange(upper, 0, count) /\ lines.hops = LabelledLines(0, range, h, Word)
    BY <1>1 DEF HistogramsBuilt, HopsRange
  <2>3. upper \in Nat /\ count \in Nat /\ 2 * upper + count < Word
    BY <1>2
  <2>4. \A i \in DOMAIN values : values[i] \in 0..upper
    BY <2>1, <2>3 DEF HopsInBounds
  <2> HIDE DEF values, upper, count, range, h
  <2>5. QED
    BY <2>1, <2>2, <2>3, <2>4, LegibleHistogram DEF values, count, range
<1>5. QED
  BY <1>3, <1>4

\* The labels that create_histogram_point computes anew say what the buckets of
\* Histogram::build hold, whatever upper bounds and numbers of buckets they are
\* built with.
THEOREM LabelsAreTrue == LabelsFit => (Spec => [](HopsInBounds => HistogramsLegible))
<1> SUFFICES ASSUME LabelsFit PROVE Spec => [](HopsInBounds => HistogramsLegible)
  OBVIOUS
<1>1. StatisticsInv /\ Phases => (HopsInBounds => HistogramsLegible)
  BY LinesLegible
<1>2. QED
  BY <1>1, StatisticsInvariance, PhasesInvariance, PTL

-----------------------------------------------------------------------------
(* Weights of a sequence of numbers.                                       *)

\* The weights of its entries, all together.
Weighed(w, s) == [i \in 1..Len(s) |-> w[s[i]]]
Total(w, s) == SumFunctionOnSet(Weighed(w, s), 1..Len(s))

\* The weights of a sequence without those of the entries left out.
WeighedWithout(w, values, left) ==
  [j \in 1..Len(values) |-> IF values[j] \in left THEN 0 ELSE w[values[j]]]

\* What Without keeps has the weight of what it does not leave out.
LEMMA WithoutTotal ==
  ASSUME NEW T, NEW values \in Seq(T), NEW left, NEW w, \A x \in T \ left : w[x] \in Nat
  PROVE  Total(w, Without(values, left))
           = SumFunctionOnSet(WeighedWithout(w, values, left), 1..Len(values))
<1> DEFINE s == Without(values, left)
           N == Len(values)
           D == 1..N
           E == 1..Len(s)
           P == Positions(values, left, N)
           g == Weighed(w, s)
           h == [j \in D |-> w[values[j]]]
           f == WeighedWithout(w, values, left)
<1>1. IsKeptFrom(s, N, values, left, T)
  BY WithoutKeeps
<1>2. N \in Nat /\ \A j \in D : values[j] \in T
  BY LenProperties
<1>3. s \in Seq(T \ left) /\ Len(s) \in Nat /\ \A i \in E : s[i] \in T \ left
  <2>1. s \in Seq(T \ left)
    BY <1>1 DEF IsKeptFrom, IsKept
  <2> HIDE DEF s
  <2>2. QED
    BY <2>1, LenProperties
<1>4. PICK r : Whence(r, s, N, values, left)
  BY <1>1 DEF IsKeptFrom
<1> HIDE DEF s, N
<1>5. /\ r \in [E -> P] /\ \A i, j \in E : r[i] = r[j] => i = j
      /\ \A p \in P : \E i \in E : r[i] = p
      /\ \A i \in E : s[i] = values[r[i]]
  BY <1>4 DEF Whence
<1>6. P \subseteq D /\ IsFiniteSet(D) /\ IsFiniteSet(E) /\ IsFiniteSet(P) /\ IsFiniteSet(D \ P)
  <2>1. IsFiniteSet(D) /\ IsFiniteSet(E)
    BY <1>2, <1>3, FS_Interval
  <2>2. P \subseteq D
    BY DEF Positions
  <2> HIDE DEF D, P
  <2>3. QED
    BY <2>1, <2>2, FS_Subset
<1>7. /\ \A j \in P : values[j] \notin left /\ f[j] = h[j] /\ h[j] \in Nat
      /\ \A j \in D \ P : f[j] = 0
      /\ \A j \in D : f[j] \in Nat
  <2>1. \A j \in D : j \in P <=> values[j] \notin left
    BY DEF Positions
  <2>2. \A j \in D : f[j] = IF values[j] \in left THEN 0 ELSE w[values[j]]
    BY DEF WeighedWithout, N
  <2>3. \A j \in D : h[j] = w[values[j]]
    OBVIOUS
  <2> HIDE DEF P, D, f, h
  <2>4. QED
    BY <1>2, <1>6, <2>1, <2>2, <2>3
<1>8. {r[i] : i \in E} = P
  BY <1>5
<1>9. \A i \in E : g[i] \in Nat /\ g[i] = h[r[i]]
  <2> TAKE i \in E
  <2>1. g[i] = w[s[i]] /\ s[i] \in T \ left
    BY <1>3 DEF Weighed
  <2>2. r[i] \in D /\ s[i] = values[r[i]]
    BY <1>5, <1>6
  <2>3. h[r[i]] = w[values[r[i]]]
    BY <2>2
  <2>4. QED
    BY <2>1, <2>2, <2>3
<1> HIDE DEF D, E, P, f, g, h
<1>10. SumFunctionOnSet(g, E) = SumFunctionOnSet(h, {r[i] : i \in E})
  BY SMTT(60), <1>5, <1>6, <1>9, SumImage
<1>11. SumFunctionOnSet(f, D) = SumFunctionOnSet(f, P) + SumFunctionOnSet(f, D \ P)
  BY <1>6, <1>7, SumSubset
<1>12. SumFunctionOnSet(f, D \ P) = 0
  BY <1>6, <1>7, SumZero
<1>13. SumFunctionOnSet(f, P) = SumFunctionOnSet(h, P)
  BY <1>6, <1>7, SumEqual
<1>14. SumFunctionOnSet(h, P) \in Nat
  BY <1>6, <1>7, SumType
<1>15. SumFunctionOnSet(g, E) = SumFunctionOnSet(f, D)
  <2>1. SumFunctionOnSet(g, E) = SumFunctionOnSet(h, P)
    BY <1>8, <1>10
  <2>2. QED
    BY <2>1, <1>11, <1>12, <1>13, <1>14
<1>16. QED
  BY <1>15 DEF Total, g, E, f, D, s, N

\* And its entries are the others.
HasOthers(s, values, left, T) ==
  /\ s \in Seq(T \ left)
  /\ \A i \in 1..Len(s) : \E j \in 1..Len(values) : s[i] = values[j] /\ values[j] \notin left
  /\ \A j \in 1..Len(values) : values[j] \notin left => \E i \in 1..Len(s) : s[i] = values[j]

\* So it is a sequence of the elements that are not left out.
LEMMA WithoutElements ==
  ASSUME NEW T, NEW values \in Seq(T), NEW left
  PROVE  HasOthers(Without(values, left), values, left, T)
<1> DEFINE s == Without(values, left)
           N == Len(values)
<1>1. IsKeptFrom(s, N, values, left, T)
  BY WithoutKeeps
<1>2. PICK r : Whence(r, s, N, values, left)
  BY <1>1 DEF IsKeptFrom
<1>3. s \in Seq(T \ left)
  BY <1>1 DEF IsKeptFrom, IsKept
<1> HIDE DEF s, N
<1>4. /\ r \in [1..Len(s) -> Positions(values, left, N)]
      /\ \A p \in Positions(values, left, N) : \E i \in 1..Len(s) : r[i] = p
      /\ \A i \in 1..Len(s) : s[i] = values[r[i]]
  BY <1>2 DEF Whence
<1>5. \A i \in 1..Len(s) : \E j \in 1..N : s[i] = values[j] /\ values[j] \notin left
  BY <1>4 DEF Positions
<1>6. \A j \in 1..N : values[j] \notin left => \E i \in 1..Len(s) : s[i] = values[j]
  <2> SUFFICES ASSUME NEW j \in 1..N, values[j] \notin left
               PROVE  \E i \in 1..Len(s) : s[i] = values[j]
    OBVIOUS
  <2>1. j \in Positions(values, left, N)
    BY DEF Positions
  <2>2. QED
    BY <1>4, <2>1
<1>7. QED
  BY <1>3, <1>5, <1>6 DEF HasOthers, s, N

\* Of two sequences the weights add up.
LEMMA ConcatTotal ==
  ASSUME NEW s \in Seq(Nat), NEW t \in Seq(Nat), NEW w, \A x \in Nat : w[x] \in Nat
  PROVE  /\ Total(w, s) \in Nat /\ Total(w, t) \in Nat
         /\ Total(w, s \o t) = Total(w, s) + Total(w, t)
<1> DEFINE M == Len(s)
           N == Len(t)
           u == s \o t
           A == 1..M
           B == 1..N
           C == 1..(M + N)
           later == [i \in B |-> M + i]
           f == Weighed(w, s)
           g == Weighed(w, t)
           h == Weighed(w, u)
<1>1. /\ M \in Nat /\ N \in Nat /\ Len(u) = M + N
      /\ \A i \in A : s[i] \in Nat /\ u[i] = s[i]
      /\ \A i \in B : t[i] \in Nat /\ u[M + i] = t[i]
  <2>1. /\ M \in Nat /\ N \in Nat
        /\ \A i \in A : s[i] \in Nat
        /\ \A i \in B : t[i] \in Nat
    BY LenProperties
  <2>2. Len(u) = M + N /\ \A i \in C : u[i] = IF i <= M THEN s[i] ELSE t[i - M]
    BY ConcatProperties
  <2> HIDE DEF u, M, N
  <2>3. \A i \in A : i \in C /\ i <= M
    BY <2>1
  <2>4. \A i \in B : M + i \in C /\ ~(M + i <= M) /\ (M + i) - M = i
    BY <2>1
  <2>5. QED
    BY <2>1, <2>2, <2>3, <2>4
<1> HIDE DEF u, M, N
<1>2. /\ IsFiniteSet(A) /\ IsFiniteSet(B) /\ IsFiniteSet(C) /\ A \subseteq C
      /\ C \ A = {later[i] : i \in B} /\ \A i, j \in B : later[i] = later[j] => i = j
  <2>1. IsFiniteSet(A) /\ IsFiniteSet(B) /\ IsFiniteSet(C)
    BY <1>1, FS_Interval
  <2>2. A \subseteq C /\ \A i, j \in B : later[i] = later[j] => i = j
    BY <1>1
  <2>3. C \ A = {later[i] : i \in B}
    <3>1. \A i \in B : later[i] \in C \ A
      BY <1>1
    <3>2. \A k \in C \ A : k - M \in B /\ k = M + (k - M)
      BY <1>1
    <3>3. \A k \in C \ A : k = later[k - M]
      BY <3>2
    <3> HIDE DEF A, B, C, later
    <3>4. QED
      BY <3>1, <3>2, <3>3
  <2>4. QED
    BY <2>1, <2>2, <2>3
<1>3. /\ \A i \in A : f[i] \in Nat /\ f[i] = h[i]
      /\ \A i \in B : g[i] \in Nat /\ g[i] = h[later[i]]
      /\ \A k \in C : h[k] \in Nat
  <2>1. \A i \in A : i \in C /\ f[i] = w[s[i]]
    BY <1>1 DEF Weighed, M
  <2>2. \A i \in B : later[i] \in C /\ later[i] = M + i /\ g[i] = w[t[i]]
    BY <1>1 DEF Weighed, N
  <2>3. \A k \in C : h[k] = w[u[k]]
    BY <1>1 DEF Weighed
  <2>4. \A k \in C : k \in A \/ \E i \in B : k = later[i]
    BY <1>2
  <2> HIDE DEF A, B, C, later, f, g, h
  <2>5. \A i \in A : f[i] \in Nat /\ f[i] = h[i]
    BY <1>1, <2>1, <2>3
  <2>6. \A i \in B : g[i] \in Nat /\ g[i] = h[later[i]]
    <3> SUFFICES ASSUME NEW i \in B PROVE g[i] \in Nat /\ g[i] = h[later[i]]
      OBVIOUS
    <3>1. t[i] \in Nat /\ u[M + i] = t[i]
      BY <1>1
    <3>2. h[later[i]] = w[u[M + i]]
      BY <2>2, <2>3
    <3>3. QED
      BY <2>2, <3>1, <3>2
  <2>7. \A k \in C : h[k] \in Nat
    BY <2>4, <2>5, <2>6
  <2>8. QED
    BY <2>5, <2>6, <2>7
<1>4. Total(w, s) = SumFunctionOnSet(f, A) /\ Total(w, t) = SumFunctionOnSet(g, B)
      /\ Total(w, u) = SumFunctionOnSet(h, C)
  BY <1>1 DEF Total, M, N
<1> HIDE DEF A, B, C, later, f, g, h
<1>5. SumFunctionOnSet(h, C) = SumFunctionOnSet(h, A) + SumFunctionOnSet(h, C \ A)
  <2>1. IsFiniteSet(C) /\ A \in SUBSET C /\ \A k \in C : h[k] \in Nat
    BY <1>2, <1>3
  <2>2. QED
    BY <2>1, SumSubset
<1>6. SumFunctionOnSet(f, A) = SumFunctionOnSet(h, A)
  BY <1>2, <1>3, SumEqual
<1>7. SumFunctionOnSet(g, B) = SumFunctionOnSet(h, {later[i] : i \in B})
  <2>1. /\ IsFiniteSet(B) /\ \A i \in B : g[i] \in Nat /\ g[i] = h[later[i]]
        /\ \A i, j \in B : later[i] = later[j] => i = j
    BY <1>2, <1>3
  <2>2. QED
    BY SMTT(60), <2>1, SumImage
<1>8. SumFunctionOnSet(f, A) \in Nat /\ SumFunctionOnSet(g, B) \in Nat
  BY <1>2, <1>3, SumType
<1>9. QED
  BY <1>2, <1>4, <1>5, <1>6, <1>7, <1>8 DEF u

\* A number weighs itself; it weighs 1 unless it is 0.
Itself == [x \in Nat |-> x]
Apart == [x \in Nat |-> IF x = 0 THEN 0 ELSE 1]

\* What a sequence without some entries weighs, if those are all Unreached or
\* weigh nothing.
LEMMA WeightlessOut ==
  ASSUME NEW values \in Seq(Nat \cup {Unreached}), NEW w, \A x \in Nat : w[x] \in Nat, w[0] = 0
  PROVE  Total(w, Without(values, {0, Unreached})) = Total(w, Without(values, {Unreached}))
<1> DEFINE T == Nat \cup {Unreached}
           others == {0, Unreached}
           unreached == {Unreached}
           D == 1..Len(values)
           f == WeighedWithout(w, values, others)
           g == WeighedWithout(w, values, unreached)
<1>1. Unreached \notin Nat
  BY StatisticsConstants
<1>2. /\ \A x \in T \ others : w[x] \in Nat
      /\ \A x \in T \ unreached : w[x] \in Nat
  OBVIOUS
<1>3. values \in Seq(T) /\ Len(values) \in Nat /\ \A j \in D : values[j] \in T
  BY LenProperties
<1>4. IsFiniteSet(D)
  BY <1>3, FS_Interval
<1>5. \A j \in D : f[j] \in Nat /\ f[j] = g[j]
  <2> SUFFICES ASSUME NEW j \in D PROVE f[j] \in Nat /\ f[j] = g[j]
    OBVIOUS
  <2>1. /\ f[j] = IF values[j] \in others THEN 0 ELSE w[values[j]]
        /\ g[j] = IF values[j] \in unreached THEN 0 ELSE w[values[j]]
    BY DEF WeighedWithout
  <2>2. values[j] = Unreached \/ values[j] \in Nat
    BY <1>3
  <2> HIDE DEF f, g, D
  <2>3. QED
    BY <1>1, <2>1, <2>2
<1> HIDE DEF T, others, unreached
<1>6. /\ Total(w, Without(values, others)) = SumFunctionOnSet(f, D)
      /\ Total(w, Without(values, unreached)) = SumFunctionOnSet(g, D)
  BY <1>2, <1>3, WithoutTotal
<1> HIDE DEF D, f, g
<1>7. SumFunctionOnSet(f, D) = SumFunctionOnSet(g, D)
  BY <1>4, <1>5, SumEqual
<1>8. QED
  BY <1>6, <1>7 DEF others, unreached

\* Of a sequence that has none Unreached leaves out nothing.
LEMMA NothingOut ==
  ASSUME NEW values \in Seq(Nat), NEW w, \A x \in Nat : w[x] \in Nat
  PROVE  /\ values \in Seq(Nat \cup {Unreached})
         /\ Total(w, Without(values, {Unreached})) = Total(w, values)
         /\ \A i \in 1..Len(Without(values, {Unreached})) :
              \E j \in 1..Len(values) : Without(values, {Unreached})[i] = values[j]
         /\ \A j \in 1..Len(values) :
              \E i \in 1..Len(Without(values, {Unreached})) : Without(values, {Unreached})[i] = values[j]
<1> DEFINE unreached == {Unreached}
           D == 1..Len(values)
           f == WeighedWithout(w, values, unreached)
           g == Weighed(w, values)
<1>1. Unreached \notin Nat
  BY StatisticsConstants
<1>2. values \in [D -> Nat] /\ Len(values) \in Nat /\ \A j \in D : values[j] \in Nat /\ values[j] \notin unreached
  BY <1>1, LenProperties
<1>3. values \in Seq(Nat \cup {Unreached})
  <2>1. values \in [D -> Nat \cup {Unreached}]
    BY <1>2
  <2>2. QED
    BY <1>2, <2>1, SeqDef
<1>4. IsFiniteSet(D)
  BY <1>2, FS_Interval
<1>5. \A j \in D : f[j] \in Nat /\ f[j] = g[j]
  BY <1>2 DEF WeighedWithout, Weighed
<1> HIDE DEF unreached
<1>6. /\ \A i \in 1..Len(Without(values, unreached)) :
           \E j \in D : Without(values, unreached)[i] = values[j] /\ values[j] \notin unreached
      /\ \A j \in D : values[j] \notin unreached =>
           \E i \in 1..Len(Without(values, unreached)) : Without(values, unreached)[i] = values[j]
  <2>1. HasOthers(Without(values, unreached), values, unreached, Nat)
    BY WithoutElements
  <2>2. QED
    BY <2>1 DEF HasOthers
<1>7. Total(w, Without(values, unreached)) = SumFunctionOnSet(f, D)
  <2>1. \A x \in Nat \ unreached : w[x] \in Nat
    OBVIOUS
  <2>2. QED
    BY <2>1, WithoutTotal
<1>8. Total(w, values) = SumFunctionOnSet(g, D)
  BY DEF Total
<1> HIDE DEF f, g
<1>9. SumFunctionOnSet(f, D) = SumFunctionOnSet(g, D)
  <2> HIDE DEF D
  <2> QED
    BY <1>4, <1>5, SumEqual
<1>10. QED
  BY <1>2, <1>3, <1>6, <1>7, <1>8, <1>9 DEF unreached

\* What HopsStat says of numbers, in terms of these numbers: their sum, how many
\* are not 0, and the greatest of them.
StatOf(stat, kept) ==
  /\ stat.sum = Total(Itself, kept) /\ stat.count = Total(Apart, kept)
  /\ {stat.sum, stat.count, stat.max} \subseteq Nat
  /\ stat.max = 0 <=> stat.count = 0
  /\ \A j \in 1..Len(kept) : kept[j] <= stat.max
  /\ stat.max # 0 => \E j \in 1..Len(kept) : kept[j] = stat.max

\* What HopsStat says of the hops that were taken.
LEMMA HopsStatFacts ==
  ASSUME NEW values \in Seq(Nat \cup {Unreached}), NEW kept, kept = Without(values, {Unreached}),
         NEW stat, stat = HopsStat(values, Unreached)
  PROVE  kept \in Seq(Nat) /\ StatOf(stat, kept)
<1> DEFINE T == Nat \cup {Unreached}
           others == {0, Unreached}
           unreached == {Unreached}
           s == Without(values, others)
           D == 1..Len(s)
<1>1. Unreached \notin Nat
  BY StatisticsConstants
<1>2. /\ s \in Seq(T \ others)
      /\ \A i \in D : \E j \in 1..Len(values) : s[i] = values[j] /\ values[j] \notin others
      /\ \A j \in 1..Len(values) : values[j] \notin others => \E i \in D : s[i] = values[j]
  <2>1. HasOthers(s, values, others, T)
    <3> HIDE DEF T, others
    <3> QED
      BY WithoutElements DEF T
  <2> HIDE DEF s
  <2>2. QED
    BY <2>1 DEF HasOthers
<1>3. /\ kept \in Seq(T \ unreached)
      /\ \A i \in 1..Len(kept) : \E j \in 1..Len(values) : kept[i] = values[j] /\ values[j] \notin unreached
      /\ \A j \in 1..Len(values) : values[j] \notin unreached => \E i \in 1..Len(kept) : kept[i] = values[j]
  <2>1. HasOthers(Without(values, unreached), values, unreached, T)
    <3> HIDE DEF T, unreached
    <3> QED
      BY WithoutElements DEF T
  <2>2. HasOthers(kept, values, unreached, T)
    BY <2>1
  <2>3. QED
    BY <2>2 DEF HasOthers
<1>4. T \ unreached = Nat /\ T \ others = Nat \ {0}
  BY <1>1
<1>5. kept \in Seq(Nat) /\ Len(kept) \in Nat /\ \A j \in 1..Len(kept) : kept[j] \in Nat
  <2>1. kept \in Seq(Nat)
    <3> HIDE DEF T, unreached
    <3> QED
      BY <1>3, <1>4
  <2>2. QED
    BY <2>1, LenProperties
<1>6. s \in Seq(Nat \ {0}) /\ Len(s) \in Nat /\ DOMAIN s = D /\ \A i \in D : s[i] \in Nat \ {0}
  <2>1. s \in Seq(Nat \ {0})
    BY <1>2, <1>4
  <2> HIDE DEF s
  <2>2. QED
    BY <2>1, LenProperties
<1>7. /\ \A x \in Nat : Itself[x] = x /\ Apart[x] = IF x = 0 THEN 0 ELSE 1
      /\ Itself[0] = 0 /\ Apart[0] = 0
      /\ \A x \in Nat : Itself[x] \in Nat /\ Apart[x] \in Nat
  BY DEF Itself, Apart
<1>8. Total(Itself, s) = Total(Itself, kept) /\ Total(Apart, s) = Total(Apart, kept)
  BY <1>7, WeightlessOut
<1>9. stat.sum = SumFunction(s) /\ stat.count = Len(s)
      /\ stat.max = IF s = <<>> THEN 0 ELSE Max(Range(s))
  BY DEF HopsStat, Summary
<1> HIDE DEF s
<1>10. IsFiniteSet(D) /\ Cardinality(D) = Len(s)
  <2> DEFINE n == Len(s)
  <2>1. n \in Nat /\ D = 1..n
    BY <1>6
  <2> HIDE DEF n, D
  <2>2. IsFiniteSet(1..n) /\ Cardinality(1..n) = n
    <3>1. 1 \in Int /\ n \in Int
      BY <2>1
    <3>2. IsFiniteSet(1..n) /\ Cardinality(1..n) = IF 1 > n THEN 0 ELSE n - 1 + 1
      BY <3>1, FS_Interval
    <3>3. QED
      BY <2>1, <3>2
  <2>3. QED
    BY <2>1, <2>2 DEF n
<1>11. stat.sum = Total(Itself, s) /\ stat.sum \in Nat
  <2> DEFINE f == Weighed(Itself, s)
  <2>1. \A i \in D : s[i] \in Nat /\ s[i] = f[i]
    BY <1>6, <1>7 DEF Weighed
  <2>2. Total(Itself, s) = SumFunctionOnSet(f, D) /\ stat.sum = SumFunctionOnSet(s, D)
    BY <1>6, <1>9 DEF Total, SumFunction
  <2> HIDE DEF f, D
  <2>3. SumFunctionOnSet(s, D) = SumFunctionOnSet(f, D) /\ SumFunctionOnSet(s, D) \in Nat
    BY <1>10, <2>1, SumEqual, SumType
  <2>4. QED
    BY <2>2, <2>3
<1>12. stat.count = Total(Apart, s)
  <2> DEFINE f == Weighed(Apart, s)
  <2>1. \A i \in D : f[i] = 1
    BY <1>6, <1>7 DEF Weighed
  <2>2. Total(Apart, s) = SumFunctionOnSet(f, D)
    BY DEF Total
  <2> HIDE DEF f, D
  <2>3. SumFunctionOnSet(f, D) = Cardinality(D)
    BY <1>10, <2>1, SumOnes
  <2>4. QED
    BY <1>9, <1>10, <2>2, <2>3
<1>13. \A x : (\E i \in D : s[i] = x) <=> x # 0 /\ \E j \in 1..Len(kept) : kept[j] = x
  <2>1. \A x : (\E i \in D : s[i] = x) =>
           x # 0 /\ x # Unreached /\ \E j \in 1..Len(values) : values[j] = x
    BY <1>2
  <2>2. \A x : x # Unreached /\ (\E j \in 1..Len(values) : values[j] = x) =>
           \E j \in 1..Len(kept) : kept[j] = x
    BY <1>3
  <2>3. \A x : (\E j \in 1..Len(kept) : kept[j] = x) =>
           x # Unreached /\ \E j \in 1..Len(values) : values[j] = x
    <3> SUFFICES ASSUME NEW x, NEW j \in 1..Len(kept), kept[j] = x
                 PROVE  x # Unreached /\ \E k \in 1..Len(values) : values[k] = x
      OBVIOUS
    <3>1. PICK k \in 1..Len(values) : kept[j] = values[k] /\ values[k] \notin unreached
      BY <1>3
    <3>2. QED
      BY <3>1
  <2>4. \A x : x # 0 /\ x # Unreached /\ (\E j \in 1..Len(values) : values[j] = x) =>
           \E i \in D : s[i] = x
    BY <1>2
  <2>5. QED
    BY <2>1, <2>2, <2>3, <2>4
<1>14. ASSUME s = <<>>
       PROVE  /\ stat.sum = Total(Itself, kept) /\ stat.count = Total(Apart, kept)
              /\ {stat.sum, stat.count, stat.max} \subseteq Nat
              /\ stat.max = 0 <=> stat.count = 0
              /\ \A j \in 1..Len(kept) : kept[j] <= stat.max
              /\ stat.max # 0 => \E j \in 1..Len(kept) : kept[j] = stat.max
  <2>1. Len(s) = 0 /\ D = {}
    BY <1>14, EmptySeq
  <2>2. \A j \in 1..Len(kept) : kept[j] = 0
    BY <1>13, <2>1
  <2>3. stat.max = 0 /\ stat.count = 0
    BY <1>9, <1>14, <2>1
  <2>4. \A j \in 1..Len(kept) : kept[j] <= stat.max
    <3> SUFFICES ASSUME NEW j \in 1..Len(kept) PROVE kept[j] <= stat.max
      OBVIOUS
    <3>1. kept[j] = 0 /\ stat.max = 0
      BY <2>2, <2>3
    <3>2. QED
      BY <3>1
  <2>5. {stat.sum, stat.count, stat.max} \subseteq Nat
    BY <1>11, <2>3
  <2>6. QED
    BY <1>5, <1>8, <1>11, <1>12, <2>3, <2>4, <2>5
<1>15. ASSUME s # <<>>
       PROVE  /\ stat.sum = Total(Itself, kept) /\ stat.count = Total(Apart, kept)
              /\ {stat.sum, stat.count, stat.max} \subseteq Nat
              /\ stat.max = 0 <=> stat.count = 0
              /\ \A j \in 1..Len(kept) : kept[j] <= stat.max
              /\ stat.max # 0 => \E j \in 1..Len(kept) : kept[j] = stat.max
  <2> DEFINE R == {s[i] : i \in D}
             m == Max(R)
  <2>1. Len(s) # 0 /\ 1 \in D
    BY <1>6, <1>15, EmptySeq
  <2>2. R # {} /\ IsFiniteSet(R) /\ \A x \in R : x \in Nat
    <3>1. R # {} /\ \A x \in R : x \in Nat
      BY <1>6, <2>1
    <3> HIDE DEF D
    <3>2. IsFiniteSet(R)
      BY <1>10, FiniteImage
    <3>3. QED
      BY <3>1, <3>2
  <2>3. Range(s) = R
    BY <1>6 DEF Range
  <2>4. \A x : x \in R <=> \E i \in D : s[i] = x
    OBVIOUS
  <2> HIDE DEF R
  <2>5. m \in R /\ \A x \in R : m >= x
    BY <2>2, MaxFacts
  <2>6. stat.max = m
    BY <1>9, <1>15, <2>3
  <2> HIDE DEF m
  <2>7. m # 0 /\ m \in Nat /\ \E j \in 1..Len(kept) : kept[j] = m
    BY <1>13, <2>2, <2>4, <2>5
  <2>8. \A j \in 1..Len(kept) : kept[j] <= m
    <3> SUFFICES ASSUME NEW j \in 1..Len(kept) PROVE kept[j] <= m
      OBVIOUS
    <3>1. CASE kept[j] = 0
      BY <2>7, <3>1
    <3>2. CASE kept[j] # 0
      <4>1. kept[j] \in R
        BY <1>13, <2>4, <3>2
      <4>2. QED
        BY <2>2, <2>5, <4>1
    <3>3. QED
      BY <3>1, <3>2
  <2>9. stat.count # 0 /\ stat.count \in Nat
    BY <1>6, <1>9, <2>1
  <2>10. QED
    BY <1>5, <1>8, <1>11, <1>12, <2>6, <2>7, <2>8, <2>9
<1>16. QED
  BY <1>5, <1>14, <1>15 DEF StatOf

-----------------------------------------------------------------------------
(* The hops of the rounds, and all hops.                                   *)

\* The weights of a sequence as the model writes them.
LEMMA TotalIs ==
  ASSUME NEW s \in Seq(Nat)
  PROVE  /\ Total(Itself, s) = SumFunction(s)
         /\ Total(Apart, s) = SumFunction([j \in DOMAIN s |-> IF s[j] = 0 THEN 0 ELSE 1])
<1> DEFINE D == 1..Len(s)
           f == Weighed(Itself, s)
           g == Weighed(Apart, s)
           h == [j \in DOMAIN s |-> IF s[j] = 0 THEN 0 ELSE 1]
<1>1. DOMAIN s = D /\ Len(s) \in Nat /\ \A i \in D : s[i] \in Nat
  BY LenProperties
<1>2. /\ \A i \in D : f[i] \in Nat /\ f[i] = s[i]
      /\ \A i \in D : g[i] \in Nat /\ g[i] = h[i]
      /\ DOMAIN h = D
  BY <1>1 DEF Weighed, Itself, Apart
<1>3. /\ Total(Itself, s) = SumFunctionOnSet(f, D) /\ Total(Apart, s) = SumFunctionOnSet(g, D)
      /\ SumFunction(s) = SumFunctionOnSet(s, D) /\ SumFunction(h) = SumFunctionOnSet(h, D)
  BY <1>1, <1>2 DEF Total, SumFunction
<1>4. IsFiniteSet(D)
  BY <1>1, FS_Interval
<1> HIDE DEF D, f, g, h
<1>5. SumFunctionOnSet(f, D) = SumFunctionOnSet(s, D) /\ SumFunctionOnSet(g, D) = SumFunctionOnSet(h, D)
  BY <1>2, <1>4, SumEqual
<1>6. QED
  BY <1>3, <1>5 DEF h

\* HopsStat of numbers, none of them Unreached.
LEMMA HopsStatOf ==
  ASSUME NEW values \in Seq(Nat)
  PROVE  StatOf(HopsStat(values, Unreached), values)
<1> DEFINE kept == Without(values, {Unreached})
           stat == HopsStat(values, Unreached)
<1>1. \A x \in Nat : Itself[x] \in Nat /\ Apart[x] \in Nat
  BY DEF Itself, Apart
<1>2. /\ values \in Seq(Nat \cup {Unreached})
      /\ Total(Itself, kept) = Total(Itself, values) /\ Total(Apart, kept) = Total(Apart, values)
      /\ \A i \in 1..Len(kept) : \E j \in 1..Len(values) : kept[i] = values[j]
      /\ \A j \in 1..Len(values) : \E i \in 1..Len(kept) : kept[i] = values[j]
  BY <1>1, NothingOut
<1>3. StatOf(stat, kept)
  BY <1>2, HopsStatFacts
<1> HIDE DEF kept, stat
<1>4. StatOf(stat, values)
  BY <1>2, <1>3 DEF StatOf
<1>5. QED
  BY <1>4 DEF stat

\* The sum over a series, one entry later.
LEMMA SumOneMore ==
  ASSUME NEW m \in Nat, NEW f, NEW g, NEW v \in Nat, DOMAIN f = 1..m, DOMAIN g = 1..(m + 1),
         \A i \in 1..m : f[i] \in Nat /\ g[i] = f[i], g[m + 1] = v
  PROVE  SumFunction(g) = SumFunction(f) + v
<1>1. SumFunctionOnSet(g, 1..(m + 1)) = SumFunctionOnSet(f, 1..m) + v
  BY SumAppended
<1>2. QED
  BY <1>1 DEF SumFunction

\* HopsAgree, of any series.
AgreeOf(stats, raw) ==
  /\ \A i \in DOMAIN stats :
       /\ {stats[i].sum, stats[i].count, stats[i].max} \subseteq Nat
       /\ stats[i].max = 0 <=> stats[i].count = 0
       /\ stats[i].max # 0 => \E j \in DOMAIN raw : raw[j] = stats[i].max
  /\ \A j \in DOMAIN raw : \E i \in DOMAIN stats : raw[j] <= stats[i].max
  /\ SumFunction(raw) = SumFunction([i \in DOMAIN stats |-> stats[i].sum])
  /\ SumFunction([j \in DOMAIN raw |-> IF raw[j] = 0 THEN 0 ELSE 1])
       = SumFunction([i \in DOMAIN stats |-> stats[i].count])

\* Hops that are added with the statistics of them keep the agreement.
LEMMA AgreeGrows ==
  ASSUME NEW T, NEW stats \in Seq(T), NEW raw \in Seq(Nat), NEW stat, NEW more \in Seq(Nat),
         StatOf(stat, more), AgreeOf(stats, raw)
  PROVE  AgreeOf(Append(stats, stat), raw \o more)
<1> DEFINE m == Len(stats)
           k == Len(raw)
           l == Len(more)
           t == Append(stats, stat)
           u == raw \o more
<1>1. /\ m \in Nat /\ DOMAIN stats = 1..m /\ DOMAIN t = 1..(m + 1)
      /\ \A i \in 1..m : t[i] = stats[i]
      /\ t[m + 1] = stat
  BY AppendedFacts
<1>2. /\ k \in Nat /\ l \in Nat /\ DOMAIN raw = 1..k /\ u \in Seq(Nat) /\ DOMAIN u = 1..(k + l)
      /\ \A i \in 1..k : raw[i] \in Nat /\ u[i] = raw[i]
      /\ \A i \in 1..l : u[k + i] = more[i]
  <2>1. /\ k \in Nat /\ l \in Nat /\ DOMAIN raw = 1..k
        /\ \A i \in 1..k : raw[i] \in Nat
    BY LenProperties
  <2>2. /\ u \in Seq(Nat) /\ Len(u) = k + l
        /\ \A i \in 1..(k + l) : u[i] = IF i <= k THEN raw[i] ELSE more[i - k]
    BY ConcatProperties
  <2> HIDE DEF u, k, l
  <2>3. DOMAIN u = 1..(k + l)
    BY <2>2, LenProperties
  <2>4. \A i \in 1..k : i \in 1..(k + l) /\ i <= k
    BY <2>1
  <2>5. \A i \in 1..l : k + i \in 1..(k + l) /\ ~(k + i <= k) /\ (k + i) - k = i
    BY <2>1
  <2>6. QED
    BY <2>1, <2>2, <2>3, <2>4, <2>5
<1>3. /\ {stat.sum, stat.count, stat.max} \subseteq Nat
      /\ stat.max = 0 <=> stat.count = 0
      /\ \A j \in 1..l : more[j] <= stat.max
      /\ stat.max # 0 => \E j \in 1..l : more[j] = stat.max
      /\ stat.sum = Total(Itself, more) /\ stat.count = Total(Apart, more)
  BY DEF StatOf
<1>4. /\ \A i \in 1..m :
           /\ {stats[i].sum, stats[i].count, stats[i].max} \subseteq Nat
           /\ stats[i].max = 0 <=> stats[i].count = 0
           /\ stats[i].max # 0 => \E j \in 1..k : raw[j] = stats[i].max
      /\ \A j \in 1..k : \E i \in 1..m : raw[j] <= stats[i].max
      /\ SumFunction(raw) = SumFunction([i \in DOMAIN stats |-> stats[i].sum])
      /\ SumFunction([j \in DOMAIN raw |-> IF raw[j] = 0 THEN 0 ELSE 1])
           = SumFunction([i \in DOMAIN stats |-> stats[i].count])
  BY <1>1, <1>2 DEF AgreeOf
<1>5. /\ Total(Itself, raw) = SumFunction(raw) /\ Total(Itself, u) = SumFunction(u)
      /\ Total(Apart, raw) = SumFunction([j \in DOMAIN raw |-> IF raw[j] = 0 THEN 0 ELSE 1])
      /\ Total(Apart, u) = SumFunction([j \in DOMAIN u |-> IF u[j] = 0 THEN 0 ELSE 1])
  <2>1. u \in Seq(Nat)
    BY <1>2
  <2> HIDE DEF u
  <2>2. QED
    BY <2>1, TotalIs
<1>6. /\ Total(Itself, u) = Total(Itself, raw) + Total(Itself, more)
      /\ Total(Apart, u) = Total(Apart, raw) + Total(Apart, more)
  <2>1. \A x \in Nat : Itself[x] \in Nat /\ Apart[x] \in Nat
    BY DEF Itself, Apart
  <2>2. QED
    BY <2>1, ConcatTotal
<1>7. SumFunction([i \in DOMAIN t |-> t[i].sum])
        = SumFunction([i \in DOMAIN stats |-> stats[i].sum]) + stat.sum
  <2> DEFINE f == [i \in DOMAIN stats |-> stats[i].sum]
             g == [i \in DOMAIN t |-> t[i].sum]
             v == stat.sum
  <2> HIDE DEF t, m
  <2>1. /\ v \in Nat /\ \A i \in 1..m : f[i] \in Nat /\ g[i] = f[i]
        /\ g[m + 1] = v /\ DOMAIN f = 1..m /\ DOMAIN g = 1..(m + 1)
    BY <1>1, <1>3, <1>4
  <2> HIDE DEF f, g, v
  <2>2. m \in Nat
    BY <1>1
  <2>3. SumFunction(g) = SumFunction(f) + v
    BY <2>1, <2>2, SumOneMore
  <2>4. QED
    BY <2>3 DEF f, g, v
<1>8. SumFunction([i \in DOMAIN t |-> t[i].count])
        = SumFunction([i \in DOMAIN stats |-> stats[i].count]) + stat.count
  <2> DEFINE f == [i \in DOMAIN stats |-> stats[i].count]
             g == [i \in DOMAIN t |-> t[i].count]
             v == stat.count
  <2> HIDE DEF t, m
  <2>1. /\ v \in Nat /\ \A i \in 1..m : f[i] \in Nat /\ g[i] = f[i]
        /\ g[m + 1] = v /\ DOMAIN f = 1..m /\ DOMAIN g = 1..(m + 1)
    BY <1>1, <1>3, <1>4
  <2> HIDE DEF f, g, v
  <2>2. m \in Nat
    BY <1>1
  <2>3. SumFunction(g) = SumFunction(f) + v
    BY <2>1, <2>2, SumOneMore
  <2>4. QED
    BY <2>3 DEF f, g, v
<1> HIDE DEF t, u, m, k, l
<1>9. ASSUME NEW i \in DOMAIN t
      PROVE  /\ {t[i].sum, t[i].count, t[i].max} \subseteq Nat
             /\ t[i].max = 0 <=> t[i].count = 0
             /\ t[i].max # 0 => \E j \in DOMAIN u : u[j] = t[i].max
  <2>1. CASE i \in 1..m
    <3>1. /\ {t[i].sum, t[i].count, t[i].max} \subseteq Nat
          /\ t[i].max = 0 <=> t[i].count = 0
          /\ t[i].max # 0 => \E j \in 1..k : raw[j] = t[i].max
      BY <1>1, <1>4, <2>1
    <3>2. \A j \in 1..k : j \in DOMAIN u
      BY <1>2
    <3>3. QED
      BY <1>2, <3>1, <3>2
  <2>2. CASE i = m + 1
    <3>1. \A j \in 1..l : k + j \in DOMAIN u
      BY <1>2
    <3>2. QED
      BY <1>1, <1>2, <1>3, <2>2, <3>1
  <2>3. QED
    BY <1>1, <2>1, <2>2
<1>10. ASSUME NEW j \in DOMAIN u PROVE \E i \in DOMAIN t : u[j] <= t[i].max
  <2>1. CASE j \in 1..k
    <3>1. PICK i \in 1..m : raw[j] <= stats[i].max
      BY <1>4, <2>1
    <3>2. i \in DOMAIN t /\ t[i].max = stats[i].max
      BY <1>1
    <3>3. QED
      BY <1>2, <2>1, <3>1, <3>2
  <2>2. CASE j \notin 1..k
    <3>1. j - k \in 1..l /\ j = k + (j - k)
      BY <1>2, <2>2
    <3>2. u[j] <= stat.max
      BY <1>2, <1>3, <3>1
    <3>3. m + 1 \in DOMAIN t
      BY <1>1
    <3>4. QED
      BY <1>1, <3>2, <3>3
  <2>3. QED
    BY <2>1, <2>2
<1>11. /\ SumFunction(u) = SumFunction([i \in DOMAIN t |-> t[i].sum])
       /\ SumFunction([j \in DOMAIN u |-> IF u[j] = 0 THEN 0 ELSE 1])
            = SumFunction([i \in DOMAIN t |-> t[i].count])
  BY <1>3, <1>4, <1>5, <1>6, <1>7, <1>8
<1>12. AgreeOf(t, u)
  BY <1>9, <1>10, <1>11 DEF AgreeOf
<1>13. QED
  BY <1>12 DEF t, u

\* So does a measured round.
LEMMA MeasureAgree ==
  ASSUME StatisticsInv, MeasureRound, HopsAgree
  PROVE  HopsAgree'
<1> DEFINE values == Values(hops)
           stat == HopsStat(values, Unreached)
           more == Without(values, {Unreached})
           T == Nat \cup {Unreached}
<1>1. hopsStats' = Append(hopsStats, stat) /\ rawHops' = rawHops \o more
  BY DEF MeasureRound, InsertHops
<1>2. hopsStats \in Seq(ToSet(hopsStats)) /\ rawHops \in Seq(Nat) /\ hops \in [Nodes -> T]
  BY DEF StatisticsInv, TypeOK
<1>3. values \in Seq(T)
  <2>1. IsFiniteSet(DOMAIN hops) /\ \A n \in DOMAIN hops : hops[n] \in T
    BY <1>2, StatisticsConstants
  <2> HIDE DEF T
  <2>2. QED
    BY <2>1, MapValues
<1> HIDE DEF values
<1>4. more \in Seq(Nat) /\ StatOf(stat, more)
  BY <1>3, HopsStatFacts
<1>5. AgreeOf(hopsStats, rawHops)
  BY DEF HopsAgree, AgreeOf
<1> HIDE DEF stat, more
<1>6. AgreeOf(hopsStats', rawHops')
  BY <1>1, <1>2, <1>4, <1>5, AgreeGrows
<1>7. QED
  BY <1>6 DEF HopsAgree, AgreeOf

\* The redundancy of a round is about the nodes its coverage counts.
LEMMA MeasureRedundancies ==
  ASSUME StatisticsInv, MeasureRound, RedundanciesOfAll
  PROVE  RedundanciesOfAll'
<1> DEFINE N == Measured
           reached == Cardinality(Reached)
           m == PushCount + SumFunction(pruneCounts)
           entry == [m |-> m, n |-> reached]
<1>1. N \in Nat /\ reached \in Nat \ {0}
  BY MeasureFacts
<1>2. coverage \in Seq(Nat) /\ rmrs \in Seq([m : Nat, n : Nat]) /\ Len(coverage) = N /\ Len(rmrs) = N
  BY DEF StatisticsInv, TypeOK, RoundsAccount
<1>3. coverage' = Append(coverage, reached) /\ rmrs' = Append(rmrs, entry)
  BY <1>1 DEF MeasureRound, InsertRmr
<1>4. entry.n = reached
  OBVIOUS
<1> HIDE DEF reached, N, entry
<1>5. /\ \A i \in 1..N : coverage'[i] = coverage[i]
      /\ coverage'[N + 1] = reached
  BY <1>2, <1>3, AppendedFacts
<1>6. /\ DOMAIN rmrs = 1..N /\ DOMAIN rmrs' = 1..(N + 1)
      /\ \A i \in 1..N : rmrs'[i] = rmrs[i]
      /\ rmrs'[N + 1] = entry
  BY <1>2, <1>3, AppendedFacts
<1>7. \A i \in 1..N : rmrs'[i].n = coverage'[i]
  BY <1>5, <1>6 DEF RedundanciesOfAll
<1>8. rmrs'[N + 1].n = coverage'[N + 1]
  BY <1>4, <1>5, <1>6
<1>9. \A i \in 1..(N + 1) : i \in 1..N \/ i = N + 1
  BY <1>1
<1>10. QED
  BY <1>6, <1>7, <1>8, <1>9 DEF RedundanciesOfAll

\* Before the first round there is nothing to agree about.
LEMMA InitReports == Init => HopsAgree /\ RedundanciesOfAll
<1> SUFFICES ASSUME Init PROVE HopsAgree /\ RedundanciesOfAll
  OBVIOUS
<1>1. hopsStats = <<>> /\ rawHops = <<>> /\ rmrs = <<>>
  BY DEF Init
<1>2. DOMAIN hopsStats = {} /\ DOMAIN rawHops = {} /\ DOMAIN rmrs = {}
  BY <1>1
<1> DEFINE a == [i \in DOMAIN hopsStats |-> hopsStats[i].sum]
           b == [i \in DOMAIN hopsStats |-> hopsStats[i].count]
           c == [j \in DOMAIN rawHops |-> IF rawHops[j] = 0 THEN 0 ELSE 1]
<1>3. DOMAIN a = {} /\ DOMAIN b = {} /\ DOMAIN c = {}
  BY <1>2
<1> HIDE DEF a, b, c
<1>4. SumFunction(rawHops) = 0 /\ SumFunction(a) = 0 /\ SumFunction(b) = 0 /\ SumFunction(c) = 0
  BY <1>2, <1>3, SumEmpty DEF SumFunction
<1>5. QED
  BY <1>2, <1>4 DEF HopsAgree, RedundanciesOfAll, a, b, c

\* The hops of the rounds agree with the raw ones, and the redundancies with the
\* coverage, in any simulation.
THEOREM ReportInvariance == Spec => []ReportInv
<1>1. Init => HopsAgree /\ RedundanciesOfAll
  BY InitReports
<1>2. StatisticsInv /\ HopsAgree /\ RedundanciesOfAll /\ [Next]_vars => HopsAgree' /\ RedundanciesOfAll'
  <2> SUFFICES ASSUME StatisticsInv, HopsAgree, RedundanciesOfAll, [Next]_vars
               PROVE  HopsAgree' /\ RedundanciesOfAll'
    OBVIOUS
  <2>1. CASE MeasureRound
    BY <2>1, MeasureAgree, MeasureRedundancies
  <2>2. CASE UNCHANGED seriesVars
    <3>1. hopsStats' = hopsStats /\ rawHops' = rawHops /\ rmrs' = rmrs /\ coverage' = coverage
      BY <2>2 DEF seriesVars
    <3>2. HopsAgree'
      BY <3>1 DEF HopsAgree
    <3>3. RedundanciesOfAll'
      BY <3>1 DEF RedundanciesOfAll
    <3>4. QED
      BY <3>2, <3>3
  <2>3. MeasureRound \/ UNCHANGED seriesVars
    BY DEF Next, Start, PlayRound, WarmUpRound, EndRounds, BuildHistograms, Calculate, Publish,
           Finished, vars
  <2>4. QED
    BY <2>1, <2>2, <2>3
<1>3. QED
  BY <1>1, <1>2, StatisticsInvariance, PhasesInvariance, PTL DEF Spec, ReportInv

-----------------------------------------------------------------------------
(* The report.                                                             *)

\* A sum of zeros and ones counts the ones.
LEMMA SumCounts ==
  ASSUME NEW S, IsFiniteSet(S), NEW f, NEW ones, ones \subseteq S,
         \A x \in S : f[x] = IF x \in ones THEN 1 ELSE 0
  PROVE  SumFunctionOnSet(f, S) = Cardinality(ones)
<1>1. /\ IsFiniteSet(ones) /\ IsFiniteSet(S \ ones) /\ ones \in SUBSET S
      /\ \A x \in S : f[x] \in Nat
      /\ \A x \in ones : f[x] = 1
      /\ \A x \in S \ ones : f[x] = 0
  BY FS_Subset
<1>2. SumFunctionOnSet(f, S) = SumFunctionOnSet(f, ones) + SumFunctionOnSet(f, S \ ones)
  BY <1>1, SumSubset
<1>3. SumFunctionOnSet(f, ones) = Cardinality(ones) /\ SumFunctionOnSet(f, S \ ones) = 0
  BY <1>1, SumOnes, SumZero
<1>4. Cardinality(ones) \in Nat
  BY <1>1, FS_CardinalityType
<1>5. QED
  BY <1>2, <1>3, <1>4

\* A sum of numbers is 0 only if they all are.
LEMMA SumPositive ==
  ASSUME NEW S, IsFiniteSet(S), NEW f, \A x \in S : f[x] \in Nat, NEW y \in S, f[y] # 0
  PROVE  SumFunctionOnSet(f, S) # 0
<1>1. SumFunctionOnSet(f, S) = f[y] + SumFunctionOnSet(f, S \ {y})
  BY SumRemove
<1>2. SumFunctionOnSet(f, S \ {y}) \in Nat
  <2>1. IsFiniteSet(S \ {y}) /\ \A x \in S \ {y} : f[x] \in Nat
    BY FS_Subset
  <2>2. QED
    BY <2>1, SumType
<1>3. QED
  BY <1>1, <1>2

\* The greatest hops of each round, which report.lastDelivery is about.
Maxes == [i \in DOMAIN hopsStats |-> hopsStats[i].max]

\* The farthest of all hops are the farthest of the last deliveries, and the
\* other numbers about hops add up.
LEMMA HopsReported ==
  ASSUME StatisticsInv, HopsAgree
  PROVE  /\ HopsStat(rawHops, Unreached).max = HopsStat(Maxes, Unreached).max
         /\ HopsStat(rawHops, Unreached).sum = SumFunction([i \in DOMAIN hopsStats |-> hopsStats[i].sum])
         /\ HopsStat(rawHops, Unreached).count = SumFunction([i \in DOMAIN hopsStats |-> hopsStats[i].count])
         /\ HopsStat(Maxes, Unreached).count = Cardinality({i \in DOMAIN coverage : coverage[i] > 1})
<1> DEFINE D == 1..Len(coverage)
           far == HopsStat(rawHops, Unreached)
           last == HopsStat(Maxes, Unreached)
<1>1. /\ rawHops \in Seq(Nat) /\ DOMAIN hopsStats = D /\ DOMAIN coverage = D
      /\ DOMAIN rawHops = 1..Len(rawHops)
      /\ \A i \in D : hopsStats[i].count = coverage[i] - 1 /\ coverage[i] \in Nat
      /\ Len(coverage) \in Nat
  <2>1. /\ coverage \in Seq(Nat) /\ hopsStats \in Seq(ToSet(hopsStats)) /\ rawHops \in Seq(Nat)
        /\ Len(hopsStats) = Len(coverage)
        /\ \A i \in DOMAIN hopsStats : hopsStats[i].count = coverage[i] - 1
    BY DEF StatisticsInv, TypeOK, RoundsAccount
  <2>2. /\ DOMAIN coverage = D /\ \A i \in D : coverage[i] \in Nat
        /\ DOMAIN rawHops = 1..Len(rawHops) /\ Len(coverage) \in Nat
    BY <2>1, LenProperties
  <2>3. DOMAIN hopsStats = D
    BY <2>1, LenProperties
  <2>4. QED
    BY <2>1, <2>2, <2>3
<1>2. /\ \A i \in D :
           /\ {hopsStats[i].sum, hopsStats[i].count, hopsStats[i].max} \subseteq Nat
           /\ hopsStats[i].max = 0 <=> hopsStats[i].count = 0
           /\ hopsStats[i].max # 0 => \E j \in DOMAIN rawHops : rawHops[j] = hopsStats[i].max
      /\ \A j \in DOMAIN rawHops : \E i \in D : rawHops[j] <= hopsStats[i].max
      /\ SumFunction(rawHops) = SumFunction([i \in DOMAIN hopsStats |-> hopsStats[i].sum])
      /\ SumFunction([j \in DOMAIN rawHops |-> IF rawHops[j] = 0 THEN 0 ELSE 1])
           = SumFunction([i \in DOMAIN hopsStats |-> hopsStats[i].count])
  BY <1>1 DEF HopsAgree
<1>3. Maxes \in Seq(Nat) /\ Len(Maxes) = Len(coverage) /\ \A i \in D : Maxes[i] = hopsStats[i].max
  <2>1. DOMAIN Maxes = D /\ \A i \in D : Maxes[i] = hopsStats[i].max
    BY <1>1 DEF Maxes
  <2>2. Maxes \in [D -> Nat]
    BY <1>1, <1>2 DEF Maxes
  <2>3. Maxes \in Seq(Nat)
    BY <1>1, <2>2, SeqDef
  <2>4. Len(Maxes) \in Nat /\ 1..Len(Maxes) = 1..Len(coverage)
    BY <2>1, <2>3, LenProperties
  <2>5. QED
    BY <1>1, <2>1, <2>3, <2>4, SameInterval
<1>4. StatOf(far, rawHops) /\ StatOf(last, Maxes)
  BY <1>1, <1>3, HopsStatOf
<1> HIDE DEF far, last
<1>5. /\ far.sum = Total(Itself, rawHops) /\ far.count = Total(Apart, rawHops)
      /\ far.max \in Nat
      /\ \A j \in DOMAIN rawHops : rawHops[j] <= far.max
      /\ far.max # 0 => \E j \in DOMAIN rawHops : rawHops[j] = far.max
  BY <1>1, <1>4 DEF StatOf
<1>6. /\ last.count = Total(Apart, Maxes)
      /\ last.max \in Nat
      /\ \A i \in D : hopsStats[i].max <= last.max
      /\ last.max # 0 => \E i \in D : hopsStats[i].max = last.max
  BY <1>3, <1>4 DEF StatOf
<1>7. \A i \in D : hopsStats[i].max \in Nat
  BY <1>2
<1>8. \A j \in DOMAIN rawHops : rawHops[j] \in Nat
  BY <1>1, LenProperties
<1>9. far.max <= last.max
  <2>1. CASE far.max = 0
    BY <1>6, <2>1
  <2>2. CASE far.max # 0
    <3>1. PICK j \in DOMAIN rawHops : rawHops[j] = far.max
      BY <1>5, <2>2
    <3>2. PICK i \in D : rawHops[j] <= hopsStats[i].max
      BY <1>2
    <3>3. hopsStats[i].max <= last.max /\ hopsStats[i].max \in Nat
      BY <1>6, <1>7
    <3>4. QED
      BY <1>5, <1>6, <3>1, <3>2, <3>3
  <2>3. QED
    BY <2>1, <2>2
<1>10. last.max <= far.max
  <2>1. CASE last.max = 0
    BY <1>5, <2>1
  <2>2. CASE last.max # 0
    <3>1. PICK i \in D : hopsStats[i].max = last.max
      BY <1>6, <2>2
    <3>2. PICK j \in DOMAIN rawHops : rawHops[j] = hopsStats[i].max
      BY <1>2, <2>2, <3>1
    <3>3. QED
      BY <1>5, <3>1, <3>2
  <2>3. QED
    BY <2>1, <2>2
<1>11. last.count = Cardinality({i \in DOMAIN coverage : coverage[i] > 1})
  <2> DEFINE f == Weighed(Apart, Maxes)
             away == {i \in DOMAIN coverage : coverage[i] > 1}
  <2>1. Total(Apart, Maxes) = SumFunctionOnSet(f, D)
    BY <1>3 DEF Total
  <2>2. \A i \in D : f[i] = IF i \in away THEN 1 ELSE 0
    <3> SUFFICES ASSUME NEW i \in D PROVE f[i] = IF i \in away THEN 1 ELSE 0
      OBVIOUS
    <3>1. f[i] = Apart[hopsStats[i].max] /\ hopsStats[i].max \in Nat
      BY <1>3, <1>7 DEF Weighed
    <3>2. f[i] = IF hopsStats[i].max = 0 THEN 0 ELSE 1
      BY <3>1 DEF Apart
    <3>3. hopsStats[i].max = 0 <=> hopsStats[i].count = 0
      BY <1>2
    <3>4. hopsStats[i].count = coverage[i] - 1 /\ coverage[i] \in Nat /\ hopsStats[i].count \in Nat
      BY <1>1, <1>2
    <3>5. i \in away <=> coverage[i] > 1
      BY <1>1
    <3> HIDE DEF f, away
    <3>6. QED
      BY <3>2, <3>3, <3>4, <3>5
  <2>3. IsFiniteSet(D) /\ away \subseteq D
    BY <1>1, FS_Interval
  <2> HIDE DEF f, away, D
  <2>4. SumFunctionOnSet(f, D) = Cardinality(away)
    BY <2>2, <2>3, SumCounts
  <2>5. QED
    BY <1>6, <2>1, <2>4 DEF away
<1>12. /\ Total(Itself, rawHops) = SumFunction(rawHops)
       /\ Total(Apart, rawHops) = SumFunction([j \in DOMAIN rawHops |-> IF rawHops[j] = 0 THEN 0 ELSE 1])
  BY <1>1, TotalIs
<1>13. far.max = last.max
  BY <1>5, <1>6, <1>9, <1>10
<1>14. QED
  BY <1>2, <1>5, <1>11, <1>12, <1>13 DEF far, last

\* A node has been stranded only if some round has not reached all nodes.
LEMMA StrandedReported ==
  ASSUME StatisticsInv, RoundsOver, Summary(Values(timesStranded)).sum > 0
  PROVE  Summary(coverage).min < Cardinality(Nodes)
<1> DEFINE D == DOMAIN timesStranded
           N == 1..Len(coverage)
           C == Cardinality(Nodes)
           counts == [i \in DOMAIN strandedStats |-> strandedStats[i].count]
<1>1. /\ coverage \in Seq(Nat) /\ strandedStats \in Seq(ToSet(strandedStats))
      /\ Len(strandedStats) = Len(coverage)
      /\ \A i \in DOMAIN strandedStats : strandedStats[i].count \in Nat
      /\ SumFunction(timesStranded) = SumFunction(counts)
      /\ D \subseteq Nodes /\ \A n \in D : timesStranded[n] \in 1..Measured
      /\ \A i \in DOMAIN coverage :
           LET accounted == coverage[i] + strandedStats[i].count
           IN  IF i + WarmUp > WhenToFail THEN accounted \in (C - NumToFail)..C ELSE accounted = C
  BY DEF StatisticsInv, TypeOK, RoundsAccount, StrandedTwice
<1>2. /\ Len(coverage) \in Nat /\ DOMAIN coverage = N /\ DOMAIN strandedStats = N
      /\ \A i \in N : coverage[i] \in Nat /\ strandedStats[i].count \in Nat
  BY <1>1, LenProperties
<1>3. C \in Nat /\ NumToFail \in 0..C
  BY StatisticsConstants
<1>4. IsFiniteSet(D) /\ D # {}
  <2>1. IsFiniteSet(D)
    BY <1>1, StatisticsConstants, FS_Subset
  <2>2. ASSUME D = {} PROVE FALSE
    <3>1. \A n \in DOMAIN timesStranded : timesStranded[n] \in Nat
      BY <2>2
    <3>2. DOMAIN Values(timesStranded) = 1..0
      BY <2>1, <2>2, <3>1, MapValues, FS_EmptySet
    <3>3. SumFunction(Values(timesStranded)) = SumFunctionOnSet(Values(timesStranded), {})
      BY <3>2 DEF SumFunction
    <3>4. Summary(Values(timesStranded)).sum = 0
      BY <3>3, SumEmpty DEF Summary
    <3>5. QED
      BY <3>4
  <2>3. QED
    BY <2>1, <2>2
<1>5. SumFunction(counts) # 0
  <2>1. PICK n \in D : TRUE
    BY <1>4
  <2>2. Measured \in Nat
    BY MeasuredAll
  <2>3. (\A x \in D : timesStranded[x] \in Nat) /\ timesStranded[n] # 0
    BY <1>1, <2>2
  <2> HIDE DEF D
  <2>4. SumFunctionOnSet(timesStranded, D) # 0
    BY <1>4, <2>3, SumPositive
  <2>5. QED
    BY <1>1, <2>4 DEF SumFunction, D
<1>6. PICK i \in N : strandedStats[i].count # 0
  <2> SUFFICES ASSUME \A i \in N : strandedStats[i].count = 0 PROVE FALSE
    OBVIOUS
  <2>1. DOMAIN counts = N /\ \A i \in N : counts[i] = 0
    BY <1>2
  <2>2. IsFiniteSet(N)
    <3>1. 1 \in Int /\ Len(coverage) \in Int
      BY <1>2
    <3>2. QED
      BY <3>1, FS_Interval
  <2> HIDE DEF N, counts
  <2>3. SumFunctionOnSet(counts, N) = 0
    BY <2>1, <2>2, SumZero
  <2>4. QED
    BY <1>5, <2>1, <2>3 DEF SumFunction
<1>7. coverage[i] < C
  <2>1. coverage[i] + strandedStats[i].count <= C
    BY <1>1, <1>2, <1>3
  <2> HIDE DEF C
  <2>2. QED
    BY <1>2, <1>3, <1>6, <2>1
<1>8. Range(coverage) # {} /\ (\A x \in Range(coverage) : x \in Nat) /\ coverage[i] \in Range(coverage)
  BY <1>2 DEF Range
<1>9. Min(Range(coverage)) \in Nat /\ Min(Range(coverage)) <= coverage[i]
  <2> DEFINE S == Range(coverage)
  <2> HIDE DEF S
  <2>1. S # {} /\ (\A x \in S : x \in Nat) /\ coverage[i] \in S
    BY <1>8 DEF S
  <2>2. Min(S) \in S /\ \A y \in S : Min(S) <= y
    BY <2>1, MinFacts
  <2>3. Min(S) \in Nat /\ Min(S) <= coverage[i]
    BY <2>1, <2>2
  <2>4. QED
    BY <2>3 DEF S
<1>10. Summary(coverage).min = Min(Range(coverage))
  BY DEF Summary, RoundsOver
<1>11. QED
  BY <1>2, <1>3, <1>7, <1>9, <1>10

\* A report that is made agrees with itself.
LEMMA CalculateAgrees ==
  ASSUME StatisticsInv, ReportInv, ReportAgrees, Calculate
  PROVE  ReportAgrees'
<1>1. /\ pc = "calculate" /\ report = <<>> /\ RoundsOver /\ HopsAgree
      /\ coverage' = coverage /\ hopsStats' = hopsStats /\ strandedStats' = strandedStats
  <2>1. pc = "calculate" /\ UNCHANGED seriesVars
    BY DEF Calculate
  <2>2. QED
    BY <2>1 DEF ReportInv, Phases, seriesVars
<1>2. CASE report' = report
  BY <1>1, <1>2 DEF ReportAgrees
<1>3. CASE report' =
             [coverage |-> Summary(coverage),
              hops |-> HopsStat(rawHops, Unreached),
              lastDelivery |-> HopsStat(Maxes, Unreached),
              strandedTimes |-> Summary(Values(timesStranded)),
              strandedStakes |-> Summary(Values(Restrict(Stakes, DOMAIN timesStranded))),
              weightedStake |-> SumFunction([n \in DOMAIN timesStranded |->
                                               Stakes[n] * timesStranded[n]])]
  <2>1. /\ report'.hops = HopsStat(rawHops, Unreached)
        /\ report'.lastDelivery = HopsStat(Maxes, Unreached)
        /\ report'.coverage.min = Summary(coverage).min
        /\ report'.strandedTimes.sum = Summary(Values(timesStranded)).sum
        /\ report'.weightedStake = SumFunction([n \in DOMAIN timesStranded |->
                                                  Stakes[n] * timesStranded[n]])
    BY <1>3
  <2>2. report'.weightedStake = SumFunction([i \in DOMAIN strandedStats |-> strandedStats[i].sum])
    BY <2>1 DEF StatisticsInv, StrandedTwice
  <2>3. /\ report'.hops.max = report'.lastDelivery.max
        /\ report'.hops.sum = SumFunction([i \in DOMAIN hopsStats |-> hopsStats[i].sum])
        /\ report'.hops.count = SumFunction([i \in DOMAIN hopsStats |-> hopsStats[i].count])
        /\ report'.lastDelivery.count = Cardinality({i \in DOMAIN coverage : coverage[i] > 1})
    BY <1>1, <2>1, HopsReported
  <2>4. report'.strandedTimes.sum > 0 => report'.coverage.min < Cardinality(Nodes)
    BY <1>1, <2>1, StrandedReported
  <2>5. QED
    BY <1>1, <2>2, <2>3, <2>4 DEF ReportAgrees
<1>4. QED
  BY <1>2, <1>3 DEF Calculate, Maxes

\* The report agrees with itself, whatever the rounds were like: the farthest
\* node of all rounds is that of the last deliveries, and the aggregate numbers
\* of hops, of deliveries and of stranded stake are those of the rounds.
THEOREM ReportsAgree == Spec => []ReportAgrees
<1>1. Init => ReportAgrees
  BY DEF Init, ReportAgrees
<1>2. StatisticsInv /\ ReportInv /\ ReportAgrees /\ [Next]_vars => ReportAgrees'
  <2> SUFFICES ASSUME StatisticsInv, ReportInv, ReportAgrees, [Next]_vars
               PROVE  ReportAgrees'
    OBVIOUS
  <2>1. CASE Calculate
    BY <2>1, CalculateAgrees
  <2>2. CASE UNCHANGED <<report, seriesVars>>
    <3>1. report' = report /\ coverage' = coverage /\ hopsStats' = hopsStats
          /\ strandedStats' = strandedStats
      BY <2>2 DEF seriesVars
    <3>2. QED
      BY <3>1 DEF ReportAgrees
  <2>3. CASE pc \in {"start", "play", "record", "build"} /\ report' = report
    BY <2>3 DEF ReportInv, Phases, ReportAgrees
  <2>4. QED
    BY <2>1, <2>2, <2>3 DEF Next, Start, PlayRound, WarmUpRound, MeasureRound, EndRounds,
       BuildHistograms, Publish, Finished, vars, resultVars
<1>3. QED
  BY <1>1, <1>2, StatisticsInvariance, ReportInvariance, PTL DEF Spec

-----------------------------------------------------------------------------
(* How far a node can be.                                                  *)

\* No node is farther than there are nodes.
LEMMA HopsBelow ==
  ASSUME NEW links \in [Nodes -> SUBSET Nodes], NEW n \in Nodes
  PROVE  LET h == HopsFrom(links, Origin, Nodes, Unreached)
         IN  h[n] = Unreached \/ h[n] \in 0..Cardinality(Nodes)
<1> DEFINE h == HopsFrom(links, Origin, Nodes, Unreached)
           ball == Balls(links, Origin, Nodes)
           T == {k \in 0..Cardinality(Nodes) : n \in ball[k]}
<1>1. h[n] = IF T = {} THEN Unreached ELSE Min(T)
  BY DEF HopsFrom
<1>2. T \subseteq 0..Cardinality(Nodes) /\ Cardinality(Nodes) \in Nat
  BY StatisticsConstants
<1> HIDE DEF h, T
<1>3. \A x \in T : x \in Nat
  BY <1>2
<1>4. T # {} => Min(T) \in T
  BY <1>3, MinFacts
<1>5. h[n] = Unreached \/ h[n] \in 0..Cardinality(Nodes)
  BY <1>1, <1>2, <1>4
<1>6. QED
  BY <1>5 DEF h

\* The hops of the round, and those collected, are of nodes that can be as far.
HopsOfNodes ==
  /\ \A n \in Nodes : hops[n] = Unreached \/ hops[n] \in 0..Cardinality(Nodes)
  /\ \A j \in DOMAIN rawHops : rawHops[j] \in 0..Cardinality(Nodes)

\* A measured round collects hops of its own.
LEMMA MeasureHopsOfNodes ==
  ASSUME StatisticsInv, MeasureRound, HopsOfNodes
  PROVE  HopsOfNodes'
<1> DEFINE N == Cardinality(Nodes)
           T == 0..N \cup {Unreached}
           unreached == {Unreached}
           values == Values(hops)
           more == Without(values, unreached)
<1>1. hops' = hops /\ rawHops' = rawHops \o more
  BY DEF MeasureRound, InsertHops, roundVars
<1>2. rawHops \in Seq(Nat) /\ DOMAIN hops = Nodes /\ Unreached \notin Nat /\ IsFiniteSet(Nodes)
  BY StatisticsConstants DEF StatisticsInv, TypeOK
<1>3. \A n \in DOMAIN hops : hops[n] \in T
  BY <1>2 DEF HopsOfNodes
<1> HIDE DEF T
<1>4. values \in Seq(T)
  BY <1>2, <1>3, MapValues
<1> HIDE DEF values, unreached
<1>5. HasOthers(more, values, unreached, T)
  BY <1>4, WithoutElements
<1>6. more \in Seq(T \ unreached)
  BY <1>5 DEF HasOthers
<1>7. T \ unreached \subseteq 0..N
  BY DEF T, unreached
<1> HIDE DEF more
<1>8. \A i \in 1..Len(more) : more[i] \in 0..N
  <2> DEFINE U == T \ unreached
  <2>1. more \in Seq(U) /\ U \subseteq 0..N
    BY <1>6, <1>7
  <2> HIDE DEF U, N
  <2>2. QED
    BY <2>1, LenProperties
<1>9. \A i \in 1..Len(rawHops) : rawHops[i] \in 0..N
  <2>1. DOMAIN rawHops = 1..Len(rawHops)
    BY <1>2, LenProperties
  <2>2. QED
    BY <2>1 DEF HopsOfNodes
<1>10. \A j \in DOMAIN rawHops' : rawHops'[j] \in 0..N
  <2> DEFINE u == rawHops \o more
             k == Len(rawHops)
             l == Len(more)
             U == T \ unreached
  <2>1. k \in Nat /\ l \in Nat
    BY <1>2, <1>6, LenProperties
  <2>2. rawHops \in Seq(Nat) /\ more \in Seq(Nat)
    <3>1. more \in [1..l -> Nat]
      <4>1. more \in [1..l -> U] /\ \A i \in 1..l : more[i] \in Nat
        BY <1>6, <1>8, LenProperties, StatisticsConstants
      <4>2. QED
        BY <4>1
    <3>2. QED
      BY <1>2, <2>1, <3>1, SeqDef
  <2>3. u \in Seq(Nat) /\ Len(u) = k + l
        /\ \A i \in 1..(k + l) : u[i] = IF i <= k THEN rawHops[i] ELSE more[i - k]
    BY <2>2, ConcatProperties
  <2> HIDE DEF u, k, l
  <2>4. DOMAIN u = 1..(k + l)
    BY <2>3, LenProperties
  <2>5. \A i \in 1..(k + l) : i \in 1..k \/ (~(i <= k) /\ i - k \in 1..l)
    BY <2>1
  <2>6. \A j \in 1..(k + l) : u[j] \in 0..N
    <3> HIDE DEF N
    <3> SUFFICES ASSUME NEW j \in 1..(k + l) PROVE u[j] \in 0..N
      OBVIOUS
    <3>1. CASE j \in 1..k
      BY <1>9, <2>1, <2>3, <3>1 DEF k
    <3>2. CASE ~(j <= k) /\ j - k \in 1..l
      BY <1>8, <2>3, <3>2 DEF l
    <3>3. QED
      BY <2>5, <3>1, <3>2
  <2>7. QED
    BY <1>1, <2>4, <2>6 DEF u
<1>11. QED
  BY <1>1, <1>10 DEF HopsOfNodes

\* No hops are more than there are nodes.
THEOREM HopsAreOfNodes == Spec => []HopsOfNodes
<1>1. Init => HopsOfNodes
  BY DEF Init, HopsOfNodes
<1>2. StatisticsInv /\ HopsOfNodes /\ [Next]_vars => HopsOfNodes'
  <2> SUFFICES ASSUME StatisticsInv, HopsOfNodes, [Next]_vars PROVE HopsOfNodes'
    OBVIOUS
  <2>1. CASE MeasureRound
    BY <2>1, MeasureHopsOfNodes
  <2>2. CASE PlayRound
    <3>1. PICK links \in [Nodes -> SUBSET (Nodes \ ({Origin} \cup failed'))] :
            hops' = HopsFrom(links, Origin, Nodes, Unreached)
      BY <2>2 DEF PlayRound
    <3>2. links \in [Nodes -> SUBSET Nodes]
      OBVIOUS
    <3>3. \A n \in Nodes : hops'[n] = Unreached \/ hops'[n] \in 0..Cardinality(Nodes)
      BY <3>1, <3>2, HopsBelow
    <3>4. rawHops' = rawHops
      BY <2>2 DEF PlayRound, seriesVars
    <3>5. QED
      BY <3>3, <3>4 DEF HopsOfNodes
  <2>3. CASE hops' = hops /\ rawHops' = rawHops
    BY <2>3 DEF HopsOfNodes
  <2>4. QED
    BY <2>1, <2>2, <2>3 DEF Next, Start, WarmUpRound, EndRounds, BuildHistograms, Calculate,
       Publish, Finished, vars, roundVars, seriesVars
<1>3. QED
  BY <1>1, <1>2, StatisticsInvariance, PTL DEF Spec

\* So an upper bound that is not below the number of nodes is never passed.
LEMMA BoundHolds ==
  ASSUME HopsUpper >= Cardinality(Nodes), HopsOfNodes
  PROVE  HopsInBounds
<1>1. HopsUpper \in Nat /\ Cardinality(Nodes) \in Nat
  BY StatisticsAssumption, StatisticsConstants
<1>2. \A j \in DOMAIN rawHops : rawHops[j] \in 0..Cardinality(Nodes)
  BY DEF HopsOfNodes
<1> DEFINE N == Cardinality(Nodes)
<1> HIDE DEF N
<1>3. HopsUpper >= N /\ HopsUpper \in Nat /\ N \in Nat /\ \A j \in DOMAIN rawHops : rawHops[j] \in 0..N
  BY <1>1, <1>2 DEF N
<1>4. QED
  BY <1>3 DEF HopsInBounds

\* In a cluster no larger than the upper bound of the hops histogram, no
\* histogram loses an entry.
THEOREM HistogramsWhole == HopsUpper >= Cardinality(Nodes) => (Spec => []HistogramsComplete)
<1> SUFFICES ASSUME HopsUpper >= Cardinality(Nodes) PROVE Spec => []HistogramsComplete
  OBVIOUS
<1>1. HopsOfNodes => HopsInBounds
  BY BoundHolds
<1>2. QED
  BY <1>1, HistogramsLoseNothing, HopsAreOfNodes, PTL

\* In such a cluster the labels are true as well, if they are small numbers.
THEOREM LabelsTellAll ==
  HopsUpper >= Cardinality(Nodes) /\ LabelsFit => (Spec => []HistogramsLegible)
<1> SUFFICES ASSUME HopsUpper >= Cardinality(Nodes), LabelsFit PROVE Spec => []HistogramsLegible
  OBVIOUS
<1>1. HopsOfNodes => HopsInBounds
  BY BoundHolds
<1>2. Spec => [](HopsInBounds => HistogramsLegible)
  BY LabelsAreTrue
<1>3. QED
  BY <1>1, <1>2, HopsAreOfNodes, PTL

-----------------------------------------------------------------------------
(* Panics.                                                                 *)

\* A label is computed from 0 only if there are more buckets than values.
LEMMA LabelOfMisfit ==
  ASSUME NEW upper \in Nat, NEW count \in Nat, NEW values \in Seq(Nat),
         ~BuildPanics(upper, 0, count, values),
         LabelPanics(0, BuildRange(upper, 0, count), Build(upper, 0, count, values))
  PROVE  Misfit(upper, count)
<1> DEFINE range == BuildRange(upper, 0, count)
           kept == {i \in DOMAIN values : values[i] \in 0..upper}
           index == [i \in kept |-> BucketIndex(values[i], 0, range, count)]
<1>0. count # 0 \/ (upper \in {0, 1} /\ range = 1 /\ ~\E i \in DOMAIN values : values[i] = 0)
  BY BuiltOfNone
<1>1. range \in Nat
  BY <1>0, RangeBound
<1>1a. CASE range = 0
  BY <1>0, <1>1a, RangeOfNone
<1> SUFFICES ASSUME range # 0 PROVE FALSE
  BY <1>1a
<1>2. DOMAIN Build(upper, 0, count, values) = 0..(count - 1) \cup Range(index)
  BY DEF Build
<1>3. \A i \in kept : index[i] \in Nat
  <2> SUFFICES ASSUME NEW i \in kept PROVE index[i] \in Nat
    OBVIOUS
  <2> DEFINE v == values[i]
  <2>1. v \in Nat /\ range \in Nat \ {0} /\ (count # 0 \/ v >= range)
    <3>1. v \in Nat /\ range \in Nat \ {0}
      BY <1>1
    <3>2. count = 0 => range = 1 /\ v # 0
      BY <1>0
    <3> HIDE DEF v, range
    <3>3. QED
      BY <3>1, <3>2
  <2>2. index[i] = BucketIndex(v, 0, range, count)
    OBVIOUS
  <2> HIDE DEF v, range, index, kept
  <2>3. BucketIndex(v, 0, range, count) \in Nat
    BY <2>1, IndexBelow
  <2>4. QED
    BY <2>2, <2>3
<1>4. PICK b \in 0..(count - 1) \cup Range(index) : 0 + (b + 1) * range = 0
  BY <1>2 DEF LabelPanics
<1> HIDE DEF range
<1>5. b \in Nat
  <2>1. Range(index) = {index[i] : i \in kept}
    BY DEF Range
  <2> HIDE DEF index, kept
  <2>2. \A x \in Range(index) : x \in Nat
    BY <1>3, <2>1
  <2>3. QED
    BY <1>4, <2>2
<1>6. (b + 1) * range = b * range + range /\ b * range \in Nat
  BY <1>1, <1>5, Multiples
<1> DEFINE p == b * range
           r == (b + 1) * range
<1>7. r = p + range /\ p \in Nat /\ 0 + r = 0
  BY <1>4, <1>6
<1> HIDE DEF p, r
<1>8. QED
  BY <1>1, <1>7

\* What the numbers of buckets and of rounds are when histograms are built.
LEMMA BuildNumbers ==
  ASSUME StatisticsInv, RoundsOver
  PROVE  /\ Iterations - WarmUp \in Nat /\ HopsUpper \in Nat
         /\ Iterations - WarmUp # 0 /\ HopsUpper > 1
         /\ \A choice \in BucketChoices :
              choice.stranded \in Nat /\ choice.hops \in Nat /\ choice.messages \in Nat
<1>1. Iterations - WarmUp \in Nat /\ Iterations - WarmUp # 0
  BY MeasuredAll
<1>2. BucketChoices \subseteq [stranded : Nat, hops : Nat, messages : Nat]
  BY StatisticsAssumption
<1>3. QED
  BY <1>1, <1>2, StatisticsAssumption

\* The stakes' own histogram.
LEMMA StartReported ==
  ASSUME Start, pc' = "panicked"
  PROVE  ReportedUnlessAlone'
<1> DEFINE top == Max(Range(Stakes))
<1>1. BuildPanics(top, 0, StakeBuckets, Values(Stakes))
  BY DEF Start
<1>2. top \in Nat /\ StakeBuckets \in Nat \ {0}
  <2> DEFINE stakes == {Stakes[n] : n \in Nodes}
  <2>1. Range(Stakes) = stakes
    BY StatisticsAssumption DEF Range
  <2>2. IsFiniteSet(stakes)
    BY StatisticsConstants, FiniteImage
  <2>3. stakes # {} /\ \A x \in stakes : x \in Nat
    BY StatisticsConstants
  <2> HIDE DEF stakes
  <2>4. Max(stakes) \in Nat
    BY <2>2, <2>3, MaxFacts
  <2>5. QED
    BY <2>1, <2>4, StatisticsAssumption
<1>3. Misfit(top, StakeBuckets)
  <2> HIDE DEF top
  <2>1. QED
    BY <1>1, <1>2, BuildOfMisfit
<1>4. QED
  BY <1>3 DEF ReportedUnlessAlone

\* The other histograms.
LEMMA BuildReported ==
  ASSUME StatisticsInv, Phases, BuildHistograms, pc' = "panicked"
  PROVE  ReportedUnlessAlone'
<1> DEFINE upper == Iterations - WarmUp
<1>1. /\ pc = "build" /\ buckets' \in BucketChoices
      /\ \/ BuildPanics(upper, 0, buckets'.stranded, Values(timesStranded))
         \/ BuildPanics(HopsUpper, 0, buckets'.hops, rawHops)
         \/ MapPanics(buckets'.messages, Stakes)
  BY DEF BuildHistograms
<1>2. RoundsOver
  BY <1>1 DEF Phases
<1>3. /\ upper \in Nat /\ HopsUpper \in Nat /\ upper # 0 /\ HopsUpper > 1
      /\ buckets'.stranded \in Nat /\ buckets'.hops \in Nat /\ buckets'.messages \in Nat
  BY <1>1, <1>2, BuildNumbers
<1>4. CASE BuildPanics(upper, 0, buckets'.stranded, Values(timesStranded))
  <2> DEFINE count == buckets'.stranded
             values == Values(timesStranded)
  <2>1. ~\E i \in DOMAIN values : values[i] = 0
    BY <1>2, StrandedValues
  <2> HIDE DEF upper, count, values
  <2>2. BuildPanics(upper, 0, count, values) /\ upper \in Nat /\ upper # 0 /\ count \in Nat
    BY <1>3, <1>4 DEF count, values
  <2>3. Misfit(upper, count)
    BY <2>1, <2>2, BuildOfMisfit
  <2>4. QED
    BY <2>3 DEF ReportedUnlessAlone, upper, count
<1>5. CASE BuildPanics(HopsUpper, 0, buckets'.hops, rawHops)
  <2> DEFINE count == buckets'.hops
  <2>1. BuildPanics(HopsUpper, 0, count, rawHops) /\ count \in Nat
    BY <1>3, <1>5
  <2> HIDE DEF count
  <2>2. Misfit(HopsUpper, count)
    BY <1>3, <2>1, BuildOfMisfit
  <2>3. QED
    BY <2>2 DEF ReportedUnlessAlone, count
<1>6. CASE MapPanics(buckets'.messages, Stakes)
  <2> DEFINE count == buckets'.messages
  <2>1. MapPanics(count, Stakes) /\ count \in Nat
    BY <1>3, <1>6
  <2>2. IsFiniteSet(Nodes) /\ Nodes # {} /\ Stakes \in [Nodes -> Nat]
    BY StatisticsAssumption
  <2> HIDE DEF count
  <2>3. MapMisfit(Max(Range(Stakes)), count)
    BY <2>1, <2>2, MapOfMisfit
  <2>4. QED
    BY <2>3 DEF ReportedUnlessAlone, count
<1>7. QED
  BY <1>1, <1>4, <1>5, <1>6

\* The calculations.
LEMMA CalculateReported ==
  ASSUME StatisticsInv, ReportInv, Calculate, pc' = "panicked"
  PROVE  ReportedUnlessAlone'
<1>1. CalculatePanics /\ pc = "calculate" /\ coverage' = coverage
  BY DEF Calculate, seriesVars
<1>2. RoundsOver /\ RedundanciesOfAll
  BY <1>1 DEF ReportInv, Phases
<1>3. /\ coverage # <<>> /\ Len(rmrs) = Len(coverage) /\ Len(branching) = Len(coverage)
      /\ coverage \in Seq(Nat) /\ rmrs \in Seq([m : Nat, n : Nat])
  BY <1>2 DEF StatisticsInv, TypeOK, RoundsAccount, RoundsOver
<1>4. Len(coverage) # 0 /\ DOMAIN coverage = 1..Len(coverage) /\ DOMAIN rmrs = 1..Len(coverage)
  BY <1>3, EmptySeq, LenProperties
<1>5. rmrs # <<>> /\ branching # <<>>
  BY <1>3, <1>4, EmptySeq
<1>6. PICK i \in DOMAIN rmrs : rmrs[i].n = 1
  BY <1>1, <1>3, <1>5 DEF CalculatePanics
<1>7. i \in DOMAIN coverage /\ coverage[i] = 1
  BY <1>2, <1>4, <1>6 DEF RedundanciesOfAll
<1>8. QED
  BY <1>1, <1>7 DEF ReportedUnlessAlone

\* The labels.
LEMMA PublishReported ==
  ASSUME StatisticsInv, Phases, Publish, pc' = "panicked"
  PROVE  ReportedUnlessAlone'
<1> DEFINE upper == Iterations - WarmUp
           values == Values(timesStranded)
<1>1. /\ pc = "publish" /\ buckets' = buckets
      /\ LabelPanics(0, StrandedRange, histograms.stranded) \/ LabelPanics(0, HopsRange, histograms.hops)
  BY DEF Publish
<1>2. RoundsOver /\ HistogramsBuilt
  BY <1>1 DEF Phases
<1>3. /\ upper \in Nat /\ HopsUpper \in Nat
      /\ buckets.stranded \in Nat /\ buckets.hops \in Nat
  BY <1>2, BuildNumbers DEF HistogramsBuilt
<1>4. values \in Seq(Nat) /\ rawHops \in Seq(Nat)
  BY <1>2, StrandedValues DEF StatisticsInv, TypeOK
<1>5. /\ histograms.stranded = Build(upper, 0, buckets.stranded, values)
      /\ histograms.hops = Build(HopsUpper, 0, buckets.hops, rawHops)
      /\ ~BuildPanics(upper, 0, buckets.stranded, values)
      /\ ~BuildPanics(HopsUpper, 0, buckets.hops, rawHops)
  BY <1>2 DEF HistogramsBuilt
<1>6. CASE LabelPanics(0, StrandedRange, histograms.stranded)
  <2> DEFINE count == buckets.stranded
  <2>1. /\ LabelPanics(0, BuildRange(upper, 0, count), Build(upper, 0, count, values))
        /\ ~BuildPanics(upper, 0, count, values)
    BY <1>5, <1>6 DEF StrandedRange
  <2>2. upper \in Nat /\ count \in Nat
    BY <1>3
  <2> HIDE DEF upper, count, values
  <2>3. Misfit(upper, count)
    BY <1>4, <2>1, <2>2, LabelOfMisfit
  <2>4. QED
    BY <1>1, <2>3 DEF ReportedUnlessAlone, upper, count
<1>7. CASE LabelPanics(0, HopsRange, histograms.hops)
  <2> DEFINE count == buckets.hops
  <2>1. /\ LabelPanics(0, BuildRange(HopsUpper, 0, count), Build(HopsUpper, 0, count, rawHops))
        /\ ~BuildPanics(HopsUpper, 0, count, rawHops)
    BY <1>5, <1>7 DEF HopsRange
  <2>2. HopsUpper \in Nat /\ count \in Nat
    BY <1>3
  <2> HIDE DEF count
  <2>3. Misfit(HopsUpper, count)
    BY <1>4, <2>1, <2>2, LabelOfMisfit
  <2>4. QED
    BY <1>1, <2>3 DEF ReportedUnlessAlone, count
<1>8. QED
  BY <1>1, <1>6, <1>7

\* Every way in which a simulation can fail to report: after a measured round in
\* which the message did not leave the origin, or with no buckets, or more than
\* there are values for them.
THEOREM AllReported == Spec => []ReportedUnlessAlone
<1>1. Init => ReportedUnlessAlone
  BY DEF Init, ReportedUnlessAlone
<1>2. StatisticsInv /\ ReportInv /\ ReportedUnlessAlone /\ [Next]_vars => ReportedUnlessAlone'
  <2> SUFFICES ASSUME StatisticsInv, ReportInv, ReportedUnlessAlone, [Next]_vars, pc' = "panicked"
               PROVE  ReportedUnlessAlone'
    BY DEF ReportedUnlessAlone
  <2>1. Phases
    BY DEF ReportInv
  <2>2. CASE Start
    BY <2>2, StartReported
  <2>3. CASE BuildHistograms
    BY <2>1, <2>3, BuildReported
  <2>4. CASE Calculate
    BY <2>4, CalculateReported
  <2>5. CASE Publish
    BY <2>1, <2>5, PublishReported
  <2>6. CASE PlayRound \/ WarmUpRound \/ MeasureRound \/ EndRounds
    BY <2>6 DEF PlayRound, WarmUpRound, MeasureRound, EndRounds
  <2>7. CASE UNCHANGED vars
    <3>1. pc' = pc /\ coverage' = coverage /\ buckets' = buckets
      BY <2>7 DEF vars, seriesVars, resultVars
    <3>2. QED
      BY <3>1 DEF ReportedUnlessAlone
  <2>8. QED
    BY <2>2, <2>3, <2>4, <2>5, <2>6, <2>7 DEF Next, Finished
<1>3. QED
  BY <1>1, <1>2, StatisticsInvariance, ReportInvariance, PTL DEF Spec
=============================================================================
