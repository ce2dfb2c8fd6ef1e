----------------------------- MODULE DataProofs -----------------------------
(***************************************************************************)
(* Induction over finite sets and numbers, and what it gives: functions    *)
(* defined by recursion, and sums.  The theorems of the library that take  *)
(* an induction hypothesis as an operator are of no use to the provers;    *)
(* here a proof by induction names the set of counterexamples and takes a  *)
(* least one (MinimalSubset, LeastNatural).                                *)
(*                                                                         *)
(* Sums are SumFunctionOnSet(fun, S) of the module Functions: the counts   *)
(* of messages in a round (gossip.rs) and the scores of an entry of the    *)
(* received cache (received_cache.rs) are sums of this form.  At the end:  *)
(* sequences, the listings of a set (the shuffles of an active set), the   *)
(* balls that HopDistance measures distances with, and the entries of a    *)
(* node's two maps: what get_nodes answers and what a rotation does to an  *)
(* entry of the push active set (push_active_set.rs), what a message and a *)
(* prune do to an entry of the received cache (received_cache.rs); and     *)
(* what the building of a histogram panics on (gossip_stats.rs).           *)
(***************************************************************************)
EXTENDS HopDistance, ActiveSetEntry, CacheEntry, StatHistogram, SequencesExt,
  FiniteSetTheorems, SequenceTheorems, TLAPS

-----------------------------------------------------------------------------
(* Least counterexamples.                                                  *)

\* A set of subsets of a finite set has a smallest member: what an induction over
\* finite sets takes its counterexample from.
LEMMA MinimalSubset ==
  ASSUME NEW S, IsFiniteSet(S), NEW T \in SUBSET (SUBSET S), T # {}
  PROVE  \E x \in T : \A y \in T : y \subseteq x => y = x
<1>1. T \subseteq FiniteSubsetsOf(S)
  BY FS_Subset DEF FiniteSubsetsOf
<1>2. PICK x \in T : \A y \in T : <<y, x>> \notin StrictSubsetOrdering(S)
  BY <1>1, FS_StrictSubsetOrderingWellFounded, WFMin
<1>3. QED
  BY <1>2 DEF StrictSubsetOrdering

\* A set of numbers has a least one: the same for an induction over numbers.
LEMMA LeastNatural ==
  ASSUME NEW T \in SUBSET Nat, T # {}
  PROVE  \E m \in T : \A k \in T : m <= k
<1>1. PICK top \in T : TRUE
  OBVIOUS
<1> DEFINE Segments == {s \in SUBSET (0..top) : \E k \in T : s = 0..k}
<1>2. IsFiniteSet(0..top) /\ Segments \in SUBSET (SUBSET (0..top)) /\ Segments # {}
  <2>1. top \in Int /\ 0 \in Int
    BY <1>1
  <2>2. IsFiniteSet(0..top)
    BY <2>1, FS_Interval
  <2>3. 0..top \in Segments
    BY <1>1
  <2>4. QED
    BY <2>2, <2>3
<1> HIDE DEF Segments
<1>3. PICK x \in Segments : \A y \in Segments : y \subseteq x => y = x
  <2> DEFINE S == 0..top
  <2>1. IsFiniteSet(S) /\ Segments \in SUBSET (SUBSET S) /\ Segments # {}
    BY <1>2
  <2> HIDE DEF S
  <2>2. QED
    BY <2>1, MinimalSubset
<1>4. PICK m \in T : x = 0..m /\ 0..m \subseteq 0..top
  BY <1>3 DEF Segments
<1>5. ASSUME NEW k \in T, k < m PROVE FALSE
  <2>1. 0..k \in Segments
    <3>1. 0..k \subseteq 0..top
      BY <1>4, <1>5, <1>1
    <3>2. QED
      BY <3>1 DEF Segments
  <2>2. 0..k \subseteq 0..m /\ m \in 0..m /\ m \notin 0..k
    BY <1>5
  <2>3. QED
    BY <1>3, <1>4, <2>1, <2>2
<1>6. QED
  BY <1>5

\* The greatest of finitely many numbers.
LEMMA MaxFacts ==
  ASSUME NEW S, IsFiniteSet(S), S # {}, \A x \in S : x \in Nat
  PROVE  Max(S) \in S /\ \A y \in S : Max(S) >= y
<1> DEFINE Tops(T) == {x \in T : \A y \in T : x >= y}
           Bad == {T \in SUBSET S : T # {} /\ Tops(T) = {}}
<1>1. Bad = {}
  <2> SUFFICES ASSUME Bad # {} PROVE FALSE
    OBVIOUS
  <2>1. PICK T \in Bad : \A U \in Bad : U \subseteq T => U = T
    <3>1. Bad \in SUBSET (SUBSET S)
      OBVIOUS
    <3> HIDE DEF Bad
    <3>2. QED
      BY <3>1, MinimalSubset
  <2>2. PICK x \in T : TRUE
    BY <2>1
  <2> DEFINE U == T \ {x}
  <2>3. U \subseteq S /\ U # T /\ U \subseteq T /\ x \in Nat
    BY <2>1, <2>2
  <2>4. CASE U = {}
    <3>1. T = {x}
      BY <2>2, <2>4
    <3>2. x \in Tops(T)
      BY <2>3, <3>1
    <3>3. QED
      BY <2>1, <3>2
  <2>5. CASE U # {}
    <3>1. PICK y \in U : \A z \in U : y >= z
      BY <2>1, <2>3, <2>5
    <3>2. y \in Nat /\ y \in T /\ \A z \in T : z = x \/ y >= z
      BY <2>1, <3>1
    <3>3. CASE y >= x
      <4>1. y \in Tops(T)
        BY <3>2, <3>3
      <4>2. QED
        BY <2>1, <4>1
    <3>4. CASE ~(y >= x)
      <4>1. \A z \in T : z \in Nat /\ x >= z
        BY <2>1, <2>3, <3>2, <3>4
      <4>2. x \in Tops(T)
        BY <2>2, <4>1
      <4>3. QED
        BY <2>1, <4>2
    <3>5. QED
      BY <3>3, <3>4
  <2>6. QED
    BY <2>4, <2>5
<1>2. PICK m \in S : \A y \in S : m >= y
  BY <1>1
<1>3. QED
  BY <1>2 DEF Max

\* The least of some numbers.
LEMMA MinFacts ==
  ASSUME NEW S, S # {}, \A x \in S : x \in Nat
  PROVE  Min(S) \in S /\ \A y \in S : Min(S) <= y
<1>1. S \in SUBSET Nat
  OBVIOUS
<1>2. PICK m \in S : \A y \in S : m <= y
  BY <1>1, LeastNatural
<1>3. QED
  BY <1>2 DEF Min

-----------------------------------------------------------------------------
(* Recursion over numbers and over the subsets of a set.                   *)

\* f runs through n steps from s0, the i-th of them by F[i].
StepsOn(n, S) == [1..n -> [S -> S]]
IsRun(f, n, S, s0, F) ==
  f \in [0..n -> S] /\ f[0] = s0 /\ \A i \in 1..n : f[i] = F[i][f[i - 1]]

\* A recursion over 0..n with the steps F has a solution: what a recursive
\* function over an interval needs to have the values its equation gives.
LEMMA NatRecursion ==
  ASSUME NEW n \in Nat, NEW S, NEW s0 \in S, NEW F \in StepsOn(n, S)
  PROVE  \E f : IsRun(f, n, S, s0, F)
<1> USE DEF StepsOn, IsRun
<1> DEFINE Good(m) == \E f \in [0..m -> S] : f[0] = s0 /\ \A i \in 1..m : f[i] = F[i][f[i - 1]]
           Bad == {m \in 0..n : ~Good(m)}
<1>1. SUFFICES ASSUME Bad # {} PROVE FALSE
  <2>1. n \in 0..n
    OBVIOUS
  <2>2. Good(n)
    BY <1>1, <2>1
  <2>3. QED
    BY <2>2
<1>2. PICK m \in Bad : \A k \in Bad : m <= k
  <2>1. Bad \in SUBSET Nat
    OBVIOUS
  <2> HIDE DEF Bad
  <2>2. QED
    BY <1>1, <2>1, LeastNatural
<1>3. m \in 0..n /\ ~Good(m)
  BY <1>2
<1>4. m # 0
  <2>1. Good(0)
    <3> DEFINE h == [i \in 0..0 |-> s0]
    <3>1. h \in [0..0 -> S] /\ h[0] = s0
      OBVIOUS
    <3>2. \A i \in 1..0 : FALSE
      OBVIOUS
    <3> HIDE DEF h
    <3>3. QED
      BY <3>1, <3>2
  <2> HIDE DEF Good
  <2>2. QED
    BY <2>1, <1>3
<1>5. Good(m - 1)
  <2> HIDE DEF Good
  <2>1. m - 1 \in 0..n /\ ~(m <= m - 1)
    BY <1>3, <1>4
  <2>2. QED
    BY <1>2, <2>1
<1>6. PICK f \in [0..(m-1) -> S] : f[0] = s0 /\ \A i \in 1..(m-1) : f[i] = F[i][f[i - 1]]
  BY <1>5
<1> DEFINE g == [i \in 0..m |-> IF i = m THEN F[m][f[m - 1]] ELSE f[i]]
<1>7. g \in [0..m -> S]
  <2>1. F[m][f[m - 1]] \in S
    BY <1>3, <1>4, <1>6
  <2>2. \A i \in 0..m : i # m => i \in 0..(m - 1)
    BY <1>3
  <2>3. QED
    BY <2>1, <2>2, <1>6
<1>8. g[0] = s0
  BY <1>3, <1>4, <1>6
<1>9. ASSUME NEW i \in 1..m PROVE g[i] = F[i][g[i - 1]]
  <2>1. g[i - 1] = f[i - 1]
    BY <1>3, <1>9
  <2>2. CASE i = m
    BY <1>3, <2>1, <2>2
  <2>3. CASE i # m
    <3>1. i \in 1..(m-1)
      BY <1>3, <2>3
    <3>2. QED
      BY <1>3, <1>6, <2>1, <2>3, <3>1
  <2>4. QED
    BY <2>2, <2>3
<1>10. QED
  <2>1. Good(m)
    <3> HIDE DEF g
    <3> QED
    BY <1>7, <1>8, <1>9
  <2>2. QED
    BY <2>1, <1>3

\* it computes from base on, the value of a subset s by F[s] from the value of
\* s without one element.
IsSetRun(it, S, V, base, F) ==
  /\ it \in [SUBSET S -> V]
  /\ it[{}] = base
  /\ \A s \in SUBSET S : s # {} => it[s] = F[s][it[s \ {CHOOSE x \in s : TRUE}]]

\* A recursion over the subsets of a finite set, taking out one element at a
\* time, has a solution.
LEMMA SetRecursion ==
  ASSUME NEW S, IsFiniteSet(S), NEW V, NEW base \in V, NEW F \in [SUBSET S -> [V -> V]]
  PROVE  \E it : IsSetRun(it, S, V, base, F)
<1> DEFINE c(s) == CHOOSE x \in s : TRUE
           W == [SUBSET S -> V]
           N == Cardinality(S)
           Deeper(g) == [s \in SUBSET S |-> IF s = {} THEN base ELSE F[s][g[s \ {c(s)}]]]
           flat == [s \in SUBSET S |-> base]
           Steps == [i \in 1..N |-> [g \in W |-> Deeper(g)]]
<1>1. N \in Nat
  BY FS_CardinalityType
<1>2. flat \in W /\ Steps \in StepsOn(N, W)
  <2>1. \A g \in W : Deeper(g) \in W
    <3> SUFFICES ASSUME NEW g \in W PROVE Deeper(g) \in W
      OBVIOUS
    <3>1. ASSUME NEW s \in SUBSET S, s # {} PROVE F[s][g[s \ {c(s)}]] \in V
      <4>1. s \ {c(s)} \in SUBSET S
        OBVIOUS
      <4>2. g[s \ {c(s)}] \in V
        BY <4>1
      <4>3. QED
        BY <4>2
    <3> HIDE DEF c
    <3>2. QED
      BY <3>1
  <2>2. flat \in W
    OBVIOUS
  <2> HIDE DEF Deeper, W, flat
  <2>3. QED
    BY <2>1, <2>2 DEF StepsOn
<1>3. PICK f : IsRun(f, N, W, flat, Steps)
  <2> HIDE DEF N, W, flat, Steps
  <2> QED
    BY <1>1, <1>2, NatRecursion
<1>4. f \in [0..N -> W] /\ f[0] = flat /\ \A i \in 1..N : f[i] = Steps[i][f[i - 1]]
  BY <1>3 DEF IsRun
<1>5. \A i \in 1..N : f[i] = Deeper(f[i - 1]) /\ f[i - 1] \in W
  <2> SUFFICES ASSUME NEW i \in 1..N PROVE f[i] = Deeper(f[i - 1]) /\ f[i - 1] \in W
    OBVIOUS
  <2>1. i - 1 \in 0..N
    BY <1>1
  <2>2. f[i - 1] \in W
    BY <1>4, <2>1
  <2>3. Steps[i][f[i - 1]] = Deeper(f[i - 1])
    <3> HIDE DEF Deeper, W
    <3> QED
      BY <2>2
  <2> HIDE DEF Steps, W
  <2>4. QED
    BY <1>4, <2>2, <2>3
<1> DEFINE it == [s \in SUBSET S |-> f[Cardinality(s)][s]]
<1>6. \A s \in SUBSET S : IsFiniteSet(s) /\ Cardinality(s) \in 0..N
  BY <1>1, FS_Subset, FS_CardinalityType
<1>7. it \in [SUBSET S -> V]
  <2>1. ASSUME NEW s \in SUBSET S PROVE f[Cardinality(s)][s] \in V
    <3>1. f[Cardinality(s)] \in W
      <4> HIDE DEF W
      <4> QED
        BY <1>4, <1>6
    <3>2. QED
      BY <3>1
  <2>2. QED
    BY <2>1
<1>8. it[{}] = base
  <2>1. Cardinality({}) = 0
    BY FS_EmptySet
  <2>2. it[{}] = f[0][{}]
    BY <2>1
  <2>3. flat[{}] = base
    OBVIOUS
  <2> HIDE DEF it, flat
  <2>4. QED
    BY <1>4, <2>2, <2>3
<1>9. ASSUME NEW s \in SUBSET S, s # {} PROVE it[s] = F[s][it[s \ {c(s)}]]
  <2> DEFINE t == s \ {c(s)}
             k == Cardinality(s)
  <2>1. c(s) \in s
    BY <1>9
  <2>2. t \in SUBSET S /\ Cardinality(t) = k - 1 /\ k \in Nat /\ k - 1 \in Nat /\ k <= N
    <3>1. IsFiniteSet(s) /\ Cardinality(s) \in 0..N /\ IsFiniteSet(t) /\ Cardinality(t) \in Nat
      BY <1>6, FS_Subset, FS_CardinalityType
    <3>2. Cardinality(t) = Cardinality(s) - 1
      <4> HIDE DEF c
      <4> QED
        BY <2>1, <3>1, FS_RemoveElement
    <3> HIDE DEF c, t
    <3>3. t \in SUBSET S
      BY DEF t
    <3>4. QED
      BY <1>1, <3>1, <3>2, <3>3
  <2>3. k \in 1..N
    BY <1>1, <2>2
  <2>4. it[s] = f[k][s] /\ it[t] = f[k - 1][t]
    <3> HIDE DEF c
    <3>1. it[s] = f[Cardinality(s)][s]
      OBVIOUS
    <3>2. it[t] = f[Cardinality(t)][t]
      BY <2>2
    <3>3. QED
      BY <2>2, <3>1, <3>2
  <2>5. f[k] = Deeper(f[k - 1])
    BY <1>5, <2>3
  <2>6. Deeper(f[k - 1])[s] = F[s][f[k - 1][t]]
    <3> HIDE DEF c, k
    <3> QED
      BY <1>9
  <2> HIDE DEF it, t, k, Deeper
  <2>7. it[s] = F[s][it[t]]
    BY <2>4, <2>5, <2>6
  <2>8. QED
    BY <2>7 DEF t
<1> HIDE DEF it
<1>10. IsSetRun(it, S, V, base, F)
  BY <1>7, <1>8, <1>9 DEF IsSetRun
<1>11. QED
  BY <1>10

-----------------------------------------------------------------------------
(* Sums.                                                                   *)

\* it is the function that SumFunctionOnSet(fun, S) is defined with.
IsSum(it, S, fun) ==
  it = [s \in SUBSET S |-> IF s = {} THEN 0
                           ELSE fun[CHOOSE x \in s : TRUE] + it[s \ {CHOOSE x \in s : TRUE}]]

\* Two functions that satisfy the equation of a sum agree where both are defined.
LEMMA SumUnique ==
  ASSUME NEW S, NEW T, NEW fun, NEW g, NEW h, IsSum(g, S, fun), IsSum(h, T, fun),
         NEW U, U \subseteq S, U \subseteq T, IsFiniteSet(U)
  PROVE  g[U] = h[U]
<1> DEFINE Bad == {s \in SUBSET U : g[s] # h[s]}
<1> SUFFICES ASSUME g[U] # h[U] PROVE FALSE
  OBVIOUS
<1>1. U \in Bad /\ Bad \in SUBSET (SUBSET U)
  OBVIOUS
<1>2. PICK s \in Bad : \A t \in Bad : t \subseteq s => t = s
  <2> HIDE DEF Bad
  <2>1. QED
    BY <1>1, MinimalSubset
<1> DEFINE c == CHOOSE x \in s : TRUE
<1>3. s \in SUBSET S /\ s \in SUBSET T /\ g[s] # h[s]
  OBVIOUS
<1>4. s # {}
  BY <1>3 DEF IsSum
<1>5. c \in s
  BY <1>4
<1>6. g[s] = fun[c] + g[s \ {c}] /\ h[s] = fun[c] + h[s \ {c}]
  BY <1>3, <1>4 DEF IsSum
<1> HIDE DEF c
<1>7. g[s \ {c}] = h[s \ {c}]
  BY <1>2, <1>5
<1>8. QED
  BY <1>3, <1>6, <1>7

\* The equation of a sum has a solution over every finite set.
LEMMA SumExists ==
  ASSUME NEW S, IsFiniteSet(S), NEW fun
  PROVE  \E it : IsSum(it, S, fun)
<1> DEFINE Good(s) == \E it : IsSum(it, s, fun)
           Bad == {s \in SUBSET S : ~Good(s)}
<1> SUFFICES ASSUME S \in Bad PROVE FALSE
  OBVIOUS
<1>1. PICK T \in Bad : \A t \in Bad : t \subseteq T => t = T
  <2>1. Bad \in SUBSET (SUBSET S) /\ Bad # {}
    OBVIOUS
  <2> HIDE DEF Bad
  <2>2. QED
    BY <2>1, MinimalSubset
<1>2. T \in SUBSET S /\ ~Good(T) /\ IsFiniteSet(T)
  BY FS_Subset
<1>3. \A s \in SUBSET T : s # T => Good(s)
  BY <1>1, <1>2
<1> DEFINE H(s) == CHOOSE it : IsSum(it, s, fun)
<1>4. \A s \in SUBSET T : s # T => IsSum(H(s), s, fun)
  BY <1>3
<1> DEFINE c(s) == CHOOSE x \in s : TRUE
           g == [s \in SUBSET T |->
                   IF s = {} THEN 0
                   ELSE fun[c(s)] + H(s \ {c(s)})[s \ {c(s)}]]
<1>5. \A s : s # {} => c(s) \in s
  OBVIOUS
<1>6. ASSUME NEW s \in SUBSET T, s # T PROVE g[s] = H(s)[s]
  <2>1. IsSum(H(s), s, fun)
    BY <1>4, <1>6
  <2>2. CASE s = {}
    BY <2>1, <2>2 DEF IsSum
  <2>3. CASE s # {}
    <3> DEFINE t == s \ {c(s)}
    <3>1. c(s) \in s /\ t \in SUBSET T /\ t # T /\ t \subseteq s
      BY <1>5, <2>3
    <3>2. IsSum(H(t), t, fun) /\ IsFiniteSet(t)
      <4> HIDE DEF t, H
      <4> QED
        BY <1>2, <1>4, <3>1, FS_Subset
    <3>3. H(s)[t] = H(t)[t]
      <4> HIDE DEF t, H
      <4>1. QED
        BY <2>1, <3>1, <3>2, SumUnique
    <3>4. H(s)[s] = fun[c(s)] + H(s)[t]
      <4>1. s \in SUBSET s
        OBVIOUS
      <4> HIDE DEF H
      <4>2. QED
        BY <2>1, <2>3, <4>1 DEF IsSum
    <3>5. g[s] = fun[c(s)] + H(t)[t]
      <4> HIDE DEF H, c
      <4> QED
        BY <2>3
    <3> HIDE DEF H, g, c, t
    <3>6. QED
      BY <3>3, <3>4, <3>5
  <2>4. QED
    BY <2>2, <2>3
<1>7. IsSum(g, T, fun)
  <2>1. ASSUME NEW s \in SUBSET T, s # {}
        PROVE  g[s] = fun[c(s)] + g[s \ {c(s)}]
    <3>1. s \ {c(s)} \in SUBSET T /\ s \ {c(s)} # T
      BY <1>5, <2>1
    <3> DEFINE t == s \ {c(s)}
    <3>2. g[t] = H(t)[t]
      <4> HIDE DEF g, H, c
      <4> QED
        BY <1>6, <3>1
    <3>3. g[s] = fun[c(s)] + H(t)[t]
      <4> HIDE DEF H, c
      <4> QED
        BY <2>1
    <3> HIDE DEF g, H, c
    <3>4. QED
      BY <3>2, <3>3
  <2>2. g[{}] = 0
    OBVIOUS
  <2>3. g = [s \in SUBSET T |-> g[s]]
    OBVIOUS
  <2> HIDE DEF g
  <2>4. QED
    BY <2>1, <2>2, <2>3 DEF IsSum
<1>8. QED
  <2> HIDE DEF g
  <2> QED
    BY <1>2, <1>7

\* So the sum of the module Functions satisfies its equation.
LEMMA SumIs ==
  ASSUME NEW S, IsFiniteSet(S), NEW fun
  PROVE  \E it : IsSum(it, S, fun) /\ SumFunctionOnSet(fun, S) = it[S]
<1>1. \E it : IsSum(it, S, fun)
  BY SumExists
<1> DEFINE it == CHOOSE it : IsSum(it, S, fun)
<1>2. IsSum(it, S, fun)
  BY <1>1
<1>3. SumFunctionOnSet(fun, S) = it[S]
  BY DEF SumFunctionOnSet, FoldFunctionOnSet, MapThenFoldSet, IsSum
<1>4. QED
  BY <1>2, <1>3

\* The sum over no elements is 0.
THEOREM SumEmpty == ASSUME NEW fun PROVE SumFunctionOnSet(fun, {}) = 0
<1>1. PICK it : IsSum(it, {}, fun) /\ SumFunctionOnSet(fun, {}) = it[{}]
  BY FS_EmptySet, SumIs
<1>2. QED
  BY <1>1 DEF IsSum

\* A sum is one of its terms plus the sum of the others.
LEMMA SumChosen ==
  ASSUME NEW S, IsFiniteSet(S), S # {}, NEW fun
  PROVE  \E c \in S : SumFunctionOnSet(fun, S) = fun[c] + SumFunctionOnSet(fun, S \ {c})
<1> DEFINE c == CHOOSE x \in S : TRUE
           T == S \ {c}
<1>1. c \in S
  OBVIOUS
<1>2. IsFiniteSet(T)
  BY FS_Subset
<1>3. PICK g : IsSum(g, S, fun) /\ SumFunctionOnSet(fun, S) = g[S]
  BY SumIs
<1>4. PICK h : IsSum(h, T, fun) /\ SumFunctionOnSet(fun, T) = h[T]
  <2> HIDE DEF T
  <2> QED
    BY <1>2, SumIs
<1>5. g[S] = fun[c] + g[T]
  BY <1>3 DEF IsSum
<1>6. g[T] = h[T]
  <2>1. T \subseteq S
    OBVIOUS
  <2> HIDE DEF T
  <2>2. QED
    BY <1>2, <1>3, <1>4, <2>1, SumUnique
<1> HIDE DEF c
<1>7. QED
  BY <1>1, <1>3, <1>4, <1>5, <1>6

\* A sum of natural numbers is one.
THEOREM SumType ==
  ASSUME NEW S, IsFiniteSet(S), NEW fun, \A x \in S : fun[x] \in Nat
  PROVE  SumFunctionOnSet(fun, S) \in Nat
<1> DEFINE Bad == {s \in SUBSET S : SumFunctionOnSet(fun, s) \notin Nat}
<1> SUFFICES ASSUME S \in Bad PROVE FALSE
  OBVIOUS
<1>1. PICK T \in Bad : \A t \in Bad : t \subseteq T => t = T
  <2>1. Bad \in SUBSET (SUBSET S) /\ Bad # {}
    OBVIOUS
  <2> HIDE DEF Bad
  <2>2. QED
    BY <2>1, MinimalSubset
<1>2. T \in SUBSET S /\ SumFunctionOnSet(fun, T) \notin Nat /\ IsFiniteSet(T)
  BY FS_Subset
<1>3. T # {}
  BY <1>2, SumEmpty
<1>4. PICK c \in T : SumFunctionOnSet(fun, T) = fun[c] + SumFunctionOnSet(fun, T \ {c})
  BY <1>2, <1>3, SumChosen
<1>5. SumFunctionOnSet(fun, T \ {c}) \in Nat
  BY <1>1
<1>6. QED
  BY <1>2, <1>4, <1>5

\* Any term can be taken out of a sum, not only the chosen one.
THEOREM SumRemove ==
  ASSUME NEW S, IsFiniteSet(S), NEW fun, \A x \in S : fun[x] \in Nat, NEW y \in S
  PROVE  SumFunctionOnSet(fun, S) = fun[y] + SumFunctionOnSet(fun, S \ {y})
<1> DEFINE Sum(s) == SumFunctionOnSet(fun, s)
           Bad == {s \in SUBSET S : \E x \in s : Sum(s) # fun[x] + Sum(s \ {x})}
<1> SUFFICES ASSUME S \in Bad PROVE FALSE
  OBVIOUS
<1>1. PICK T \in Bad : \A t \in Bad : t \subseteq T => t = T
  <2>1. Bad \in SUBSET (SUBSET S) /\ Bad # {}
    OBVIOUS
  <2> HIDE DEF Bad
  <2>2. QED
    BY <2>1, MinimalSubset
<1>2. \A s \in SUBSET S : IsFiniteSet(s) /\ Sum(s) \in Nat
  <2> TAKE s \in SUBSET S
  <2>1. IsFiniteSet(s)
    BY FS_Subset
  <2>2. QED
    BY <2>1, SumType
<1>3. PICK x \in T : Sum(T) # fun[x] + Sum(T \ {x})
  OBVIOUS
<1>4. PICK c \in T : Sum(T) = fun[c] + Sum(T \ {c})
  BY <1>2, <1>3, SumChosen
<1> HIDE DEF Sum
<1>5. c # x
  BY <1>3, <1>4
<1>6. Sum(T \ {c}) = fun[x] + Sum((T \ {c}) \ {x})
  <2>1. T \ {c} \in SUBSET S /\ T \ {c} \notin Bad /\ x \in T \ {c}
    BY <1>1, <1>5
  <2>2. QED
    BY <2>1
<1>7. Sum(T \ {x}) = fun[c] + Sum((T \ {x}) \ {c})
  <2>1. T \ {x} \in SUBSET S /\ T \ {x} \notin Bad /\ c \in T \ {x}
    BY <1>1, <1>5
  <2>2. QED
    BY <2>1
<1>8. (T \ {c}) \ {x} = (T \ {x}) \ {c}
  OBVIOUS
<1>9. fun[c] \in Nat /\ fun[x] \in Nat /\ Sum((T \ {x}) \ {c}) \in Nat
  BY <1>2
<1>10. QED
  BY <1>3, <1>4, <1>6, <1>7, <1>8, <1>9

\* Adding an element to the set adds its term to the sum.
THEOREM SumAdd ==
  ASSUME NEW S, IsFiniteSet(S), NEW fun, NEW y, y \notin S,
         \A x \in S \cup {y} : fun[x] \in Nat
  PROVE  SumFunctionOnSet(fun, S \cup {y}) = fun[y] + SumFunctionOnSet(fun, S)
<1>1. IsFiniteSet(S \cup {y}) /\ (S \cup {y}) \ {y} = S
  BY FS_AddElement
<1> DEFINE T == S \cup {y}
<1>2. IsFiniteSet(T) /\ y \in T /\ \A x \in T : fun[x] \in Nat
  BY <1>1
<1> HIDE DEF T
<1>3. SumFunctionOnSet(fun, T) = fun[y] + SumFunctionOnSet(fun, T \ {y})
  BY <1>2, SumRemove
<1>4. QED
  BY <1>1, <1>3 DEF T

\* A sum of larger terms is larger.
THEOREM SumMonotone ==
  ASSUME NEW S, IsFiniteSet(S), NEW f, NEW g,
         \A x \in S : f[x] \in Nat /\ g[x] \in Nat /\ f[x] <= g[x]
  PROVE  SumFunctionOnSet(f, S) <= SumFunctionOnSet(g, S)
<1> DEFINE Bad == {s \in SUBSET S : ~(SumFunctionOnSet(f, s) <= SumFunctionOnSet(g, s))}
<1> SUFFICES ASSUME S \in Bad PROVE FALSE
  OBVIOUS
<1>1. PICK T \in Bad : \A t \in Bad : t \subseteq T => t = T
  <2>1. Bad \in SUBSET (SUBSET S) /\ Bad # {}
    OBVIOUS
  <2> HIDE DEF Bad
  <2>2. QED
    BY <2>1, MinimalSubset
<1>2. /\ T \in SUBSET S /\ IsFiniteSet(T)
      /\ ~(SumFunctionOnSet(f, T) <= SumFunctionOnSet(g, T))
  BY FS_Subset
<1>3. T # {}
  BY <1>2, SumEmpty
<1>4. PICK c \in T : TRUE
  BY <1>3
<1>5. /\ SumFunctionOnSet(f, T) = f[c] + SumFunctionOnSet(f, T \ {c})
      /\ SumFunctionOnSet(g, T) = g[c] + SumFunctionOnSet(g, T \ {c})
  BY <1>2, SumRemove
<1>6. SumFunctionOnSet(f, T \ {c}) <= SumFunctionOnSet(g, T \ {c})
  BY <1>1
<1>7. IsFiniteSet(T \ {c})
  BY <1>2, FS_Subset
<1>8. SumFunctionOnSet(f, T \ {c}) \in Nat /\ SumFunctionOnSet(g, T \ {c}) \in Nat
  BY <1>2, <1>7, SumType
<1>9. QED
  BY <1>2, <1>5, <1>6, <1>8

\* Sums of functions that agree on the set are the same.
THEOREM SumEqual ==
  ASSUME NEW S, IsFiniteSet(S), NEW f, NEW g,
         \A x \in S : f[x] \in Nat /\ f[x] = g[x]
  PROVE  SumFunctionOnSet(f, S) = SumFunctionOnSet(g, S)
<1>1. SumFunctionOnSet(f, S) <= SumFunctionOnSet(g, S)
  BY SumMonotone
<1>2. SumFunctionOnSet(g, S) <= SumFunctionOnSet(f, S)
  BY SumMonotone
<1>3. SumFunctionOnSet(f, S) \in Nat /\ SumFunctionOnSet(g, S) \in Nat
  BY SumType
<1>4. QED
  BY <1>1, <1>2, <1>3

\* A sum splits into the sums over a subset and over the rest.
THEOREM SumSubset ==
  ASSUME NEW S, IsFiniteSet(S), NEW fun, \A x \in S : fun[x] \in Nat, NEW T \in SUBSET S
  PROVE  SumFunctionOnSet(fun, S) = SumFunctionOnSet(fun, T) + SumFunctionOnSet(fun, S \ T)
<1> DEFINE Sum(s) == SumFunctionOnSet(fun, s)
           Bad == {s \in SUBSET T : Sum(S) # Sum(s) + Sum(S \ s)}
<1> SUFFICES ASSUME T \in Bad PROVE FALSE
  OBVIOUS
<1>1. \A s \in SUBSET S : IsFiniteSet(s) /\ Sum(s) \in Nat
  <2> TAKE s \in SUBSET S
  <2>1. IsFiniteSet(s)
    BY FS_Subset
  <2>2. QED
    BY <2>1, SumType
<1>2. PICK U \in Bad : \A t \in Bad : t \subseteq U => t = U
  <2>1. Bad \in SUBSET (SUBSET T) /\ Bad # {} /\ IsFiniteSet(T)
    BY <1>1
  <2> HIDE DEF Bad
  <2>2. QED
    BY <2>1, MinimalSubset
<1>3. U \in SUBSET S /\ Sum(S) # Sum(U) + Sum(S \ U)
  OBVIOUS
<1>4. U # {}
  <2>1. Sum({}) = 0 /\ S \ {} = S /\ Sum(S) \in Nat
    BY <1>1, SumEmpty
  <2> HIDE DEF Sum
  <2>2. QED
    BY <2>1, <1>3
<1>5. PICK c \in U : TRUE
  BY <1>4
<1>6. Sum(S) = Sum(U \ {c}) + Sum(S \ (U \ {c}))
  BY <1>2
<1>7. Sum(U) = fun[c] + Sum(U \ {c})
  BY <1>1, <1>3, SumRemove
<1>8. Sum(S \ (U \ {c})) = fun[c] + Sum(S \ U)
  <2> DEFINE W == S \ (U \ {c})
  <2>1. W \in SUBSET S /\ c \in W /\ W \ {c} = S \ U /\ IsFiniteSet(W) /\ \A x \in W : fun[x] \in Nat
    <3>1. W \in SUBSET S /\ c \in W /\ W \ {c} = S \ U /\ \A x \in W : fun[x] \in Nat
      BY <1>3
    <3> HIDE DEF W
    <3>2. QED
      BY <3>1, <1>1
  <2> HIDE DEF W
  <2>2. Sum(W) = fun[c] + Sum(W \ {c})
    BY <2>1, SumRemove
  <2>3. QED
    BY <2>1, <2>2 DEF W
<1>9. fun[c] \in Nat /\ Sum(U \ {c}) \in Nat /\ Sum(S \ U) \in Nat
  <2>1. U \ {c} \in SUBSET S /\ S \ U \in SUBSET S
    BY <1>3
  <2>2. QED
    BY <1>1, <1>3, <2>1
<1> HIDE DEF Sum
<1>10. QED
  BY <1>3, <1>6, <1>7, <1>8, <1>9

\* The sum of the sums is the sum of two functions added term by term.
THEOREM SumPlus ==
  ASSUME NEW S, IsFiniteSet(S), NEW f, NEW g, NEW h,
         \A x \in S : f[x] \in Nat /\ g[x] \in Nat /\ h[x] = f[x] + g[x]
  PROVE  SumFunctionOnSet(h, S) = SumFunctionOnSet(f, S) + SumFunctionOnSet(g, S)
<1> DEFINE Sum(u, s) == SumFunctionOnSet(u, s)
           Bad == {s \in SUBSET S : Sum(h, s) # Sum(f, s) + Sum(g, s)}
<1> SUFFICES ASSUME S \in Bad PROVE FALSE
  OBVIOUS
<1>1. PICK T \in Bad : \A t \in Bad : t \subseteq T => t = T
  <2>1. Bad \in SUBSET (SUBSET S) /\ Bad # {}
    OBVIOUS
  <2> HIDE DEF Bad
  <2>2. QED
    BY <2>1, MinimalSubset
<1>2. /\ T \in SUBSET S /\ IsFiniteSet(T)
      /\ Sum(h, T) # Sum(f, T) + Sum(g, T)
  BY FS_Subset
<1>3. T # {}
  <2> SUFFICES ASSUME T = {} PROVE FALSE
    OBVIOUS
  <2>1. SumFunctionOnSet(h, T) = 0 /\ SumFunctionOnSet(f, T) = 0 /\ SumFunctionOnSet(g, T) = 0
    BY SumEmpty
  <2>2. QED
    BY <1>2, <2>1
<1>4. PICK c \in T : TRUE
  BY <1>3
<1>5. /\ Sum(f, T) = f[c] + Sum(f, T \ {c})
      /\ Sum(g, T) = g[c] + Sum(g, T \ {c})
      /\ Sum(h, T) = h[c] + Sum(h, T \ {c})
  BY <1>2, SumRemove
<1>6. Sum(h, T \ {c}) = Sum(f, T \ {c}) + Sum(g, T \ {c})
  BY <1>1
<1>7. IsFiniteSet(T \ {c})
  BY <1>2, FS_Subset
<1>8. Sum(f, T \ {c}) \in Nat /\ Sum(g, T \ {c}) \in Nat
  BY <1>2, <1>7, SumType
<1>9. f[c] \in Nat /\ g[c] \in Nat /\ h[c] = f[c] + g[c]
  BY <1>2
<1> HIDE DEF Sum
<1>10. QED
  BY <1>2, <1>5, <1>6, <1>8, <1>9

\* A sum grows by what one of its terms grows by.
THEOREM SumChange ==
  ASSUME NEW S, IsFiniteSet(S), NEW f, NEW g, NEW y \in S, NEW d \in Nat,
         \A x \in S : f[x] \in Nat /\ g[x] = IF x = y THEN f[x] + d ELSE f[x]
  PROVE  SumFunctionOnSet(g, S) = SumFunctionOnSet(f, S) + d
<1> DEFINE T == S \ {y}
<1>1. IsFiniteSet(T) /\ \A x \in T : f[x] \in Nat /\ f[x] = g[x]
  BY FS_Subset
<1>2. SumFunctionOnSet(f, T) = SumFunctionOnSet(g, T) /\ SumFunctionOnSet(f, T) \in Nat
  <2> HIDE DEF T
  <2> QED
    BY <1>1, SumEqual, SumType
<1>3. /\ SumFunctionOnSet(f, S) = f[y] + SumFunctionOnSet(f, T)
      /\ SumFunctionOnSet(g, S) = g[y] + SumFunctionOnSet(g, T)
  BY SumRemove
<1> HIDE DEF T
<1>4. QED
  BY <1>2, <1>3

\* A sum of zeros is 0.
THEOREM SumZero ==
  ASSUME NEW S, IsFiniteSet(S), NEW fun, \A x \in S : fun[x] = 0
  PROVE  SumFunctionOnSet(fun, S) = 0
<1> DEFINE Bad == {s \in SUBSET S : SumFunctionOnSet(fun, s) # 0}
<1> SUFFICES ASSUME S \in Bad PROVE FALSE
  OBVIOUS
<1>1. PICK T \in Bad : \A t \in Bad : t \subseteq T => t = T
  <2>1. Bad \in SUBSET (SUBSET S) /\ Bad # {}
    OBVIOUS
  <2> HIDE DEF Bad
  <2>2. QED
    BY <2>1, MinimalSubset
<1>2. T \in SUBSET S /\ SumFunctionOnSet(fun, T) # 0 /\ IsFiniteSet(T)
  BY FS_Subset
<1>3. T # {}
  BY <1>2, SumEmpty
<1>4. PICK c \in T : SumFunctionOnSet(fun, T) = fun[c] + SumFunctionOnSet(fun, T \ {c})
  BY <1>2, <1>3, SumChosen
<1>5. SumFunctionOnSet(fun, T \ {c}) = 0
  BY <1>1
<1>6. QED
  BY <1>2, <1>4, <1>5

\* The image of a finite set under a function is finite, and as large as the set
\* if the function is injective on it.
LEMMA FiniteImage ==
  ASSUME NEW S, IsFiniteSet(S), NEW r
  PROVE  /\ IsFiniteSet({r[x] : x \in S})
         /\ Cardinality({r[x] : x \in S}) <= Cardinality(S)
         /\ (\A x, y \in S : r[x] = r[y] => x = y) =>
              Cardinality({r[x] : x \in S}) = Cardinality(S)
<1> DEFINE T == {r[x] : x \in S}
           f == [x \in S |-> r[x]]
<1>1. f \in Surjection(S, T)
  <2>1. f \in [S -> T] /\ \A t \in T : \E x \in S : f[x] = t
    OBVIOUS
  <2> HIDE DEF f, T
  <2>2. QED
    BY <2>1 DEF Surjection
<1>2. (\A x, y \in S : r[x] = r[y] => x = y) => f \in Injection(S, T)
  <2>1. f \in [S -> T] /\ DOMAIN f = S /\ \A x \in S : f[x] = r[x]
    OBVIOUS
  <2> HIDE DEF f, T
  <2>2. QED
    BY <2>1 DEF Injection, IsInjective
<1>3. /\ IsFiniteSet(T) /\ Cardinality(T) <= Cardinality(S)
      /\ f \in Injection(S, T) => Cardinality(T) = Cardinality(S)
  <2> HIDE DEF f, T
  <2> QED
    BY <1>1, FS_Surjection
<1> HIDE DEF f
<1>4. QED
  BY <1>2, <1>3

\* A part of a finite set that misses something is smaller.
LEMMA ProperPart ==
  ASSUME NEW B, IsFiniteSet(B), NEW A \in SUBSET B, NEW x \in B, x \notin A
  PROVE  Cardinality(A) \in Nat /\ Cardinality(B) \in Nat /\ Cardinality(A) < Cardinality(B)
<1>1. /\ IsFiniteSet(A) /\ Cardinality(A) <= Cardinality(B)
      /\ (Cardinality(A) = Cardinality(B) => A = B)
  BY FS_Subset
<1>2. Cardinality(A) \in Nat /\ Cardinality(B) \in Nat
  BY <1>1, FS_CardinalityType
<1>3. Cardinality(A) # Cardinality(B)
  BY <1>1
<1>4. QED
  BY <1>1, <1>2, <1>3

\* What is in so many places is no more.
LEMMA FirstPlaces ==
  ASSUME NEW k \in Nat, NEW r
  PROVE  IsFiniteSet({r[i] : i \in 1..k}) /\ Cardinality({r[i] : i \in 1..k}) <= k
<1> DEFINE D == 1..k
<1>1. IsFiniteSet(D) /\ Cardinality(D) = k
  BY FS_Interval
<1> HIDE DEF D
<1>2. IsFiniteSet({r[i] : i \in D}) /\ Cardinality({r[i] : i \in D}) <= Cardinality(D)
  BY <1>1, FiniteImage
<1>3. QED
  BY <1>1, <1>2 DEF D

\* A sum can be taken over other indices.
THEOREM SumImage ==
  ASSUME NEW S, IsFiniteSet(S), NEW r, NEW f, NEW g,
         \A x \in S : g[x] \in Nat /\ g[x] = f[r[x]],
         \A x, y \in S : r[x] = r[y] => x = y
  PROVE  SumFunctionOnSet(g, S) = SumFunctionOnSet(f, {r[x] : x \in S})
<1> DEFINE Image(s) == {r[x] : x \in s}
           Bad == {s \in SUBSET S : SumFunctionOnSet(g, s) # SumFunctionOnSet(f, Image(s))}
<1> SUFFICES ASSUME S \in Bad PROVE FALSE
  OBVIOUS
<1>1. PICK T \in Bad : \A t \in Bad : t \subseteq T => t = T
  <2>1. Bad \in SUBSET (SUBSET S) /\ Bad # {}
    OBVIOUS
  <2> HIDE DEF Bad
  <2>2. QED
    BY <2>1, MinimalSubset
<1>2. /\ T \in SUBSET S /\ IsFiniteSet(T)
      /\ SumFunctionOnSet(g, T) # SumFunctionOnSet(f, Image(T))
  BY FS_Subset
<1>3. T # {}
  <2> SUFFICES ASSUME T = {} PROVE FALSE
    OBVIOUS
  <2>1. Image(T) = {}
    OBVIOUS
  <2>2. SumFunctionOnSet(g, T) = 0 /\ SumFunctionOnSet(f, Image(T)) = 0
    BY <2>1, SumEmpty
  <2>3. QED
    BY <1>2, <2>2
<1>4. PICK c \in T : TRUE
  BY <1>3
<1> DEFINE U == T \ {c}
<1>5. U \in SUBSET S /\ U \notin Bad
  BY <1>1
<1>6. SumFunctionOnSet(g, U) = SumFunctionOnSet(f, Image(U))
  BY <1>5
<1>7. IsFiniteSet(U) /\ IsFiniteSet(Image(U))
  <2>1. IsFiniteSet(U)
    BY <1>2, FS_Subset
  <2> HIDE DEF U
  <2>2. QED
    BY <2>1, FiniteImage
<1>8. Image(T) = Image(U) \cup {r[c]} /\ r[c] \notin Image(U)
  BY <1>2
<1>9. \A y \in Image(U) \cup {r[c]} : f[y] \in Nat
  BY <1>2
<1>10. SumFunctionOnSet(g, T) = g[c] + SumFunctionOnSet(g, U)
  BY <1>2, SumRemove
<1>11. SumFunctionOnSet(f, Image(T)) = f[r[c]] + SumFunctionOnSet(f, Image(U))
  <2> HIDE DEF Image, U
  <2> QED
    BY <1>7, <1>8, <1>9, SumAdd
<1>12. g[c] = f[r[c]]
  BY <1>2
<1> HIDE DEF Image, U
<1>13. QED
  BY <1>2, <1>6, <1>10, <1>11, <1>12

\* A sum of ones counts.
THEOREM SumOnes ==
  ASSUME NEW S, IsFiniteSet(S), NEW fun, \A x \in S : fun[x] = 1
  PROVE  SumFunctionOnSet(fun, S) = Cardinality(S)
<1> DEFINE Bad == {s \in SUBSET S : SumFunctionOnSet(fun, s) # Cardinality(s)}
<1> SUFFICES ASSUME S \in Bad PROVE FALSE
  OBVIOUS
<1>1. PICK T \in Bad : \A t \in Bad : t \subseteq T => t = T
  <2>1. Bad \in SUBSET (SUBSET S) /\ Bad # {}
    OBVIOUS
  <2> HIDE DEF Bad
  <2>2. QED
    BY <2>1, MinimalSubset
<1>2. T \in SUBSET S /\ IsFiniteSet(T) /\ SumFunctionOnSet(fun, T) # Cardinality(T)
  BY FS_Subset
<1>3. T # {}
  BY <1>2, SumEmpty, FS_EmptySet
<1>4. PICK c \in T : TRUE
  BY <1>3
<1> DEFINE U == T \ {c}
<1>5. SumFunctionOnSet(fun, U) = Cardinality(U)
  BY <1>1
<1>6. SumFunctionOnSet(fun, T) = fun[c] + SumFunctionOnSet(fun, U)
  BY <1>2, SumRemove
<1>7. IsFiniteSet(U) /\ Cardinality(U) \in Nat /\ Cardinality(T) \in Nat /\ Cardinality(U) = Cardinality(T) - 1
  BY <1>2, FS_RemoveElement, FS_CardinalityType
<1>8. fun[c] = 1
  BY <1>2
<1> HIDE DEF U
<1>9. QED
  BY <1>2, <1>5, <1>6, <1>7, <1>8

\* The elements of S with a link to t.
SourcesOf(t, links, S) == {s \in S : t \in links[s]}

\* The links of a finite graph counted by their sources and by their targets.
THEOREM SumBothWays ==
  ASSUME NEW S, IsFiniteSet(S), NEW T, IsFiniteSet(T), NEW links, \A s \in S : links[s] \subseteq T,
         NEW out, \A s \in S : out[s] = Cardinality(links[s]),
         NEW in, \A t \in T : in[t] = Cardinality(SourcesOf(t, links, S))
  PROVE  SumFunctionOnSet(out, S) = SumFunctionOnSet(in, T)
<1> DEFINE Into(U) == [t \in T |-> Cardinality({s \in U : t \in links[s]})]
           Bad == {U \in SUBSET S : SumFunctionOnSet(out, U) # SumFunctionOnSet(Into(U), T)}
<1>1. \A U \in SUBSET S : \A t \in T : Into(U)[t] \in Nat
  <2> SUFFICES ASSUME NEW U \in SUBSET S, NEW t \in T PROVE Into(U)[t] \in Nat
    OBVIOUS
  <2> DEFINE V == {s \in U : t \in links[s]}
  <2>1. IsFiniteSet(V)
    BY FS_Subset
  <2> HIDE DEF V
  <2>2. Cardinality(V) \in Nat
    BY <2>1, FS_CardinalityType
  <2>3. QED
    BY <2>2 DEF V
<1>2. Bad = {}
  <2> SUFFICES ASSUME Bad # {} PROVE FALSE
    OBVIOUS
  <2>1. PICK U \in Bad : \A V \in Bad : V \subseteq U => V = U
    <3>1. Bad \in SUBSET (SUBSET S) /\ Bad # {}
      OBVIOUS
    <3> HIDE DEF Bad
    <3>2. QED
      BY <3>1, MinimalSubset
  <2>2. U \in SUBSET S /\ IsFiniteSet(U) /\ SumFunctionOnSet(out, U) # SumFunctionOnSet(Into(U), T)
    BY <2>1, FS_Subset
  <2>3. U # {}
    <3> SUFFICES ASSUME U = {} PROVE FALSE
      OBVIOUS
    <3>1. SumFunctionOnSet(out, U) = 0
      BY SumEmpty
    <3>2. \A t \in T : Into(U)[t] = 0
      BY FS_EmptySet
    <3> HIDE DEF Into
    <3>3. SumFunctionOnSet(Into(U), T) = 0
      BY <3>2, SumZero
    <3>4. QED
      BY <2>2, <3>1, <3>3
  <2>4. PICK c \in U : TRUE
    BY <2>3
  <2> DEFINE V == U \ {c}
             mark == [t \in T |-> IF t \in links[c] THEN 1 ELSE 0]
  <2>5. V \in SUBSET S /\ V \notin Bad /\ IsFiniteSet(V) /\ c \in S
    BY <2>1, <2>2, <2>4, FS_Subset
  <2>6. SumFunctionOnSet(out, V) = SumFunctionOnSet(Into(V), T)
    BY <2>5
  <2>7. links[c] \subseteq T /\ IsFiniteSet(links[c]) /\ out[c] = Cardinality(links[c])
        /\ Cardinality(links[c]) \in Nat
    BY <2>5, FS_Subset, FS_CardinalityType
  <2>8. SumFunctionOnSet(out, U) = out[c] + SumFunctionOnSet(out, V)
    <3>1. \A s \in U : out[s] \in Nat
      <4> SUFFICES ASSUME NEW s \in U PROVE out[s] \in Nat
        OBVIOUS
      <4>1. out[s] = Cardinality(links[s]) /\ IsFiniteSet(links[s])
        BY <2>2, FS_Subset
      <4>2. QED
        BY <4>1, FS_CardinalityType
    <3>2. QED
      BY <2>2, <3>1, SumRemove
  <2>9. SumFunctionOnSet(mark, T) = Cardinality(links[c])
    <3>1. \A t \in T : mark[t] \in Nat
      OBVIOUS
    <3>2. (\A t \in links[c] : mark[t] = 1) /\ (\A t \in T \ links[c] : mark[t] = 0)
      BY <2>7
    <3> DEFINE L == links[c]
               M == T \ L
    <3>3. L \in SUBSET T /\ IsFiniteSet(L) /\ IsFiniteSet(M)
      BY <2>7, FS_Subset
    <3>4. \A t \in M : mark[t] = 0
      BY <3>2
    <3>5. SumFunctionOnSet(mark, T) = SumFunctionOnSet(mark, L) + SumFunctionOnSet(mark, M)
      <4> HIDE DEF mark, L
      <4> QED
        BY <3>1, <3>3, SumSubset
    <3> HIDE DEF M
    <3>6. SumFunctionOnSet(mark, L) = Cardinality(L)
      <4> HIDE DEF mark
      <4>1. \A t \in L : mark[t] = 1
        BY <3>2
      <4> HIDE DEF L
      <4> QED
        BY <3>3, <4>1, SumOnes
    <3>7. SumFunctionOnSet(mark, M) = 0
      <4> HIDE DEF mark
      <4> QED
        BY <3>3, <3>4, SumZero
    <3>8. QED
      BY <2>7, <3>5, <3>6, <3>7
  <2>10. \A t \in T : Into(U)[t] = Into(V)[t] + mark[t]
    <3> SUFFICES ASSUME NEW t \in T PROVE Into(U)[t] = Into(V)[t] + mark[t]
      OBVIOUS
    <3> DEFINE P == {s \in U : t \in links[s]}
               Q == {s \in V : t \in links[s]}
    <3>1. IsFiniteSet(Q) /\ Cardinality(Q) \in Nat /\ c \notin Q
      BY <2>5, FS_Subset, FS_CardinalityType
    <3>2. Into(U)[t] = Cardinality(P) /\ Into(V)[t] = Cardinality(Q)
      OBVIOUS
    <3>3. CASE t \in links[c]
      <4>1. P = Q \cup {c}
        BY <2>4, <3>3
      <4> HIDE DEF P, Q
      <4>2. Cardinality(P) = Cardinality(Q) + 1
        BY <3>1, <4>1, FS_AddElement
      <4> HIDE DEF Into
      <4>3. QED
        BY <3>2, <3>3, <4>2
    <3>4. CASE t \notin links[c]
      <4>1. P = Q
        BY <3>4
      <4> HIDE DEF P, Q, Into
      <4>2. mark[t] = 0
        BY <3>4
      <4>3. QED
        BY <3>1, <3>2, <4>1, <4>2
    <3>5. QED
      BY <3>3, <3>4
  <2>11. SumFunctionOnSet(Into(U), T) = SumFunctionOnSet(Into(V), T) + SumFunctionOnSet(mark, T)
    <3> DEFINE f == Into(U)
               g == Into(V)
    <3>1. \A t \in T : g[t] \in Nat /\ mark[t] \in Nat /\ f[t] = g[t] + mark[t]
      <4>1. \A t \in T : g[t] \in Nat
        BY <1>1, <2>5
      <4>2. \A t \in T : mark[t] \in Nat
        OBVIOUS
      <4>3. QED
        BY <4>1, <4>2, <2>10
    <3> HIDE DEF f, g, mark
    <3>2. SumFunctionOnSet(f, T) = SumFunctionOnSet(g, T) + SumFunctionOnSet(mark, T)
      BY <3>1, SumPlus
    <3>3. QED
      BY <3>2 DEF f, g
  <2> HIDE DEF Into, V, mark
  <2>12. SumFunctionOnSet(Into(V), T) \in Nat
    <3> DEFINE g == Into(V)
    <3>1. \A t \in T : g[t] \in Nat
      BY <1>1, <2>5
    <3> HIDE DEF g
    <3>2. SumFunctionOnSet(g, T) \in Nat
      BY <3>1, SumType
    <3>3. QED
      BY <3>2 DEF g
  <2>13. QED
    BY <2>2, <2>6, <2>7, <2>8, <2>9, <2>11, <2>12
<1>3. SumFunctionOnSet(out, S) = SumFunctionOnSet(Into(S), T)
  BY <1>2
<1>4. SumFunctionOnSet(Into(S), T) = SumFunctionOnSet(in, T)
  <2> DEFINE f == Into(S)
  <2>1. \A t \in T : f[t] \in Nat /\ f[t] = in[t]
    BY <1>1 DEF SourcesOf
  <2> HIDE DEF f
  <2>2. SumFunctionOnSet(f, T) = SumFunctionOnSet(in, T)
    BY <2>1, SumEqual
  <2>3. QED
    BY <2>2 DEF f
<1>5. QED
  BY <1>3, <1>4

-----------------------------------------------------------------------------
(* Sequences.                                                              *)

\* A sequence is one of its elements.
LEMMA SeqOfElements ==
  ASSUME NEW T, NEW s \in Seq(T)
  PROVE  s \in Seq(ToSet(s)) /\ \A i \in 1..Len(s) : s[i] \in ToSet(s)
<1>1. Len(s) \in Nat /\ s \in [1..Len(s) -> T]
  BY LenProperties
<1>2. \A i \in 1..Len(s) : s[i] \in ToSet(s)
  BY <1>1 DEF ToSet
<1>3. s \in [1..Len(s) -> ToSet(s)]
  BY <1>1, <1>2
<1>4. QED
  BY <1>1, <1>2, <1>3, SeqDef

\* The first k elements of a sequence.
LEMMA FirstElements ==
  ASSUME NEW T, NEW s \in Seq(T), NEW k \in 0..Len(s)
  PROVE  /\ SubSeq(s, 1, k) \in Seq(T)
         /\ Len(SubSeq(s, 1, k)) = k
         /\ \A i \in 1..k : SubSeq(s, 1, k)[i] = s[i]
<1>1. Len(s) \in Nat /\ s \in [1..Len(s) -> T]
  BY LenProperties
<1>2. 1 \in Int /\ k \in Int /\ \A i \in 1..k : s[i] \in T
  BY <1>1
<1>3. /\ SubSeq(s, 1, k) \in Seq(T)
      /\ Len(SubSeq(s, 1, k)) = IF 1 <= k THEN k - 1 + 1 ELSE 0
      /\ \A i \in 1..(k - 1 + 1) : SubSeq(s, 1, k)[i] = s[1 + i - 1]
  BY <1>2, SubSeqProperties
<1>4. /\ 1..(k - 1 + 1) = 1..k
      /\ (IF 1 <= k THEN k - 1 + 1 ELSE 0) = k
      /\ \A i \in 1..k : 1 + i - 1 = i
  BY <1>1
<1>5. QED
  BY <1>3, <1>4

\* Taking an element out of a sequence.
LEMMA RemoveAtFacts ==
  ASSUME NEW T, NEW s \in Seq(T), NEW p \in 1..Len(s)
  PROVE  /\ RemoveAt(s, p) \in Seq(T)
         /\ Len(RemoveAt(s, p)) = Len(s) - 1
         /\ \A i \in 1..(Len(s) - 1) : RemoveAt(s, p)[i] = IF i < p THEN s[i] ELSE s[i + 1]
<1> DEFINE front == SubSeq(s, 1, p - 1)
           back == SubSeq(s, p + 1, Len(s))
<1>1. Len(s) \in Nat /\ s \in [1..Len(s) -> T] /\ p \in Nat
  BY LenProperties
<1>2. /\ front \in Seq(T) /\ Len(front) = p - 1
      /\ \A i \in 1..(p - 1) : front[i] = s[i]
  <2>1. p - 1 \in 0..Len(s)
    BY <1>1
  <2>2. QED
    BY <2>1, FirstElements
<1>3. /\ back \in Seq(T) /\ Len(back) = Len(s) - p
      /\ \A i \in 1..(Len(s) - p) : back[i] = s[p + i]
  <2>1. p + 1 \in Int /\ Len(s) \in Int /\ \A i \in (p + 1)..Len(s) : s[i] \in T
    BY <1>1
  <2>2. /\ back \in Seq(T)
        /\ Len(back) = IF p + 1 <= Len(s) THEN Len(s) - (p + 1) + 1 ELSE 0
        /\ \A i \in 1..(Len(s) - (p + 1) + 1) : back[i] = s[p + 1 + i - 1]
    BY SMTT(60), <2>1, SubSeqProperties
  <2>3. /\ 1..(Len(s) - (p + 1) + 1) = 1..(Len(s) - p)
        /\ (IF p + 1 <= Len(s) THEN Len(s) - (p + 1) + 1 ELSE 0) = Len(s) - p
        /\ \A i \in 1..(Len(s) - p) : p + 1 + i - 1 = p + i
    <3>1. \A n \in Nat : \A m \in 1..n :
                                    /\ n - (m + 1) + 1 = n - m
                                    /\ (IF m + 1 <= n THEN n - m ELSE 0) = n - m
      BY SMTT(60)
    <3>2. /\ Len(s) - (p + 1) + 1 = Len(s) - p
          /\ (IF p + 1 <= Len(s) THEN Len(s) - p ELSE 0) = Len(s) - p
      BY <1>1, <3>1
    <3>3. \A i \in Nat : p + 1 + i - 1 = p + i
      BY <1>1
    <3> DEFINE n == Len(s) - p
    <3>4. n \in Nat /\ \A i \in 1..n : p + 1 + i - 1 = p + i
      BY <1>1, <3>3
    <3>5. QED
      BY <3>2, <3>4
  <2>4. QED
    BY <2>2, <2>3
<1> HIDE DEF front, back
<1>4. /\ front \o back \in Seq(T)
      /\ Len(front \o back) = Len(front) + Len(back)
      /\ \A i \in 1..(Len(front) + Len(back)) :
           (front \o back)[i] = IF i <= Len(front) THEN front[i] ELSE back[i - Len(front)]
  BY <1>2, <1>3, ConcatProperties
<1>5. RemoveAt(s, p) = front \o back
  BY DEF RemoveAt, front, back
<1>6. Len(front) + Len(back) = Len(s) - 1
  BY <1>1, <1>2, <1>3
<1>7. ASSUME NEW i \in 1..(Len(s) - 1)
      PROVE  (front \o back)[i] = IF i < p THEN s[i] ELSE s[i + 1]
  <2>1. CASE i < p
    <3>1. i <= p - 1 /\ i \in 1..(p - 1)
      BY <1>1, <2>1
    <3>2. QED
      BY <1>2, <1>4, <1>6, <2>1, <3>1
  <2>2. CASE ~(i < p)
    <3>1. ~(i <= p - 1) /\ i - (p - 1) \in 1..(Len(s) - p) /\ p + (i - (p - 1)) = i + 1
      BY <1>1, <2>2
    <3>2. (front \o back)[i] = back[i - (p - 1)]
      BY <1>2, <1>4, <1>6, <3>1
    <3>3. QED
      BY <1>3, <2>2, <3>1, <3>2
  <2>3. QED
    BY <2>1, <2>2
<1>8. QED
  BY <1>4, <1>5, <1>6, <1>7

\* Putting an element in front of a sequence.
LEMMA PushFacts ==
  ASSUME NEW T, NEW s \in Seq(T), NEW x \in T
  PROVE  /\ <<x>> \o s \in Seq(T)
         /\ Len(<<x>> \o s) = Len(s) + 1
         /\ (<<x>> \o s)[1] = x
         /\ \A i \in 2..(Len(s) + 1) : (<<x>> \o s)[i] = s[i - 1]
<1>1. <<x>> \in Seq(T) /\ Len(<<x>>) = 1 /\ <<x>>[1] = x /\ Len(s) \in Nat
  OBVIOUS
<1> DEFINE one == <<x>>
<1> HIDE DEF one
<1>2. /\ one \o s \in Seq(T)
      /\ Len(one \o s) = Len(one) + Len(s)
      /\ \A i \in 1..(Len(one) + Len(s)) :
           (one \o s)[i] = IF i <= Len(one) THEN one[i] ELSE s[i - Len(one)]
  BY <1>1, ConcatProperties DEF one
<1>3. Len(one) + Len(s) = Len(s) + 1 /\ Len(one) = 1 /\ one[1] = x
  BY <1>1 DEF one
<1>4. /\ 1 \in 1..(Len(s) + 1) /\ 1 <= 1
      /\ \A i \in 2..(Len(s) + 1) : i \in 1..(Len(s) + 1) /\ ~(i <= 1)
  BY <1>1
<1>5. (one \o s)[1] = x
  BY <1>2, <1>3, <1>4
<1>6. \A i \in 2..(Len(s) + 1) : (one \o s)[i] = s[i - 1]
  BY <1>2, <1>3, <1>4
<1>7. QED
  BY <1>2, <1>3, <1>5, <1>6 DEF one

\* An interval from 1 tells its end.
LEMMA SameInterval ==
  ASSUME NEW n \in Nat, NEW m \in Nat, 1..n = 1..m
  PROVE  n = m
<1>1. n > m => n \in 1..n /\ ~(n <= m)
  OBVIOUS
<1>2. m > n => m \in 1..m /\ ~(m <= n)
  OBVIOUS
<1>3. \A x \in 1..n : x <= m
  <2>1. \A x \in 1..m : x <= m
    OBVIOUS
  <2>2. QED
    BY <2>1
<1>4. \A x \in 1..m : x <= n
  <2>1. \A x \in 1..n : x <= n
    OBVIOUS
  <2>2. QED
    BY <2>1
<1>5. QED
  BY <1>1, <1>2, <1>3, <1>4

\* What SetToSeqs(S) lists: every element of S once.
LEMMA ListingFacts ==
  ASSUME NEW S, IsFiniteSet(S), NEW r \in SetToSeqs(S)
  PROVE  /\ Cardinality(S) \in Nat
         /\ r \in [1..Cardinality(S) -> S]
         /\ r \in Seq(S) /\ Len(r) = Cardinality(S)
         /\ \A i, j \in 1..Cardinality(S) : r[i] = r[j] => i = j
         /\ \A x \in S : \E i \in 1..Cardinality(S) : r[i] = x
<1> DEFINE N == Cardinality(S)
           D == 1..N
<1>1. N \in Nat
  BY FS_CardinalityType
<1>2. r \in [D -> S] /\ \A i, j \in D : i # j => r[i] # r[j]
  BY DEF SetToSeqs
<1>3. IsFiniteSet(D) /\ Cardinality(D) = N
  <2>1. 1 \in Int /\ N \in Int
    BY <1>1
  <2> HIDE DEF N
  <2>2. QED
    BY <1>1, <2>1, FS_Interval
<1>4. r \in Seq(S) /\ Len(r) = N
  <2> HIDE DEF N
  <2>1. r \in Seq(S)
    BY <1>1, <1>2, SeqDef
  <2>2. DOMAIN r = 1..Len(r) /\ Len(r) \in Nat
    BY <2>1, LenProperties
  <2>3. 1..N = 1..Len(r)
    BY ZenonT(30), <1>2, <2>2
  <2>4. Len(r) = N
    BY <1>1, <2>2, <2>3, SameInterval
  <2>5. QED
    BY <2>1, <2>4
<1> HIDE DEF D
<1>5. r \in Injection(D, S)
  BY <1>2 DEF Injection, IsInjective
<1>6. r \in Surjection(D, S)
  BY <1>3, <1>5, FS_Injection DEF N
<1>7. \A x \in S : \E i \in D : r[i] = x
  BY <1>6 DEF Surjection
<1>8. QED
  BY <1>1, <1>2, <1>4, <1>7 DEF D

-----------------------------------------------------------------------------
(* Distances in a graph.                                                   *)

\* Balls satisfies its recursion equation.
LEMMA BallsGrow ==
  ASSUME NEW nodes, IsFiniteSet(nodes), NEW links \in [nodes -> SUBSET nodes], NEW origin \in nodes
  PROVE  /\ Balls(links, origin, nodes)[0] = {origin}
         /\ \A k \in 1..Cardinality(nodes) :
              LET inner == Balls(links, origin, nodes)[k - 1]
              IN  Balls(links, origin, nodes)[k] = inner \cup UNION {links[n] : n \in inner}
<1> DEFINE N == Cardinality(nodes)
           S == SUBSET nodes
           Grow(s) == s \cup UNION {links[n] : n \in s}
           F == [i \in 1..N |-> [s \in S |-> Grow(s)]]
<1>1. N \in Nat
  BY FS_CardinalityType
<1>2. F \in StepsOn(N, S) /\ {origin} \in S
  BY DEF StepsOn
<1>3. PICK f : IsRun(f, N, S, {origin}, F)
  <2> HIDE DEF N, S, F
  <2> QED
    BY <1>1, <1>2, NatRecursion
<1>4. f \in [0..N -> S] /\ f[0] = {origin} /\ \A k \in 1..N : f[k] = F[k][f[k - 1]]
  BY <1>3 DEF IsRun
<1>5. \A k \in 1..N : f[k] = Grow(f[k - 1])
  <2> SUFFICES ASSUME NEW k \in 1..N PROVE f[k] = Grow(f[k - 1])
    OBVIOUS
  <2>1. k - 1 \in 0..N
    BY <1>1
  <2>2. f[k - 1] \in S
    BY <1>4, <2>1
  <2>3. F[k][f[k - 1]] = Grow(f[k - 1])
    BY <2>2
  <2>4. QED
    BY <1>4, <2>3
<1>6. f = [k \in 0..N |-> IF k = 0 THEN {origin} ELSE Grow(f[k - 1])]
  <2> DEFINE g == [k \in 0..N |-> IF k = 0 THEN {origin} ELSE Grow(f[k - 1])]
  <2>1. \A k \in 0..N : k # 0 => k \in 1..N
    BY <1>1
  <2>2. \A k \in 0..N : f[k] = g[k]
    <3> HIDE DEF Grow, N
    <3> QED
      BY <1>4, <1>5, <2>1
  <2>3. QED
    <3> HIDE DEF Grow, N, S
    <3> QED
      BY <1>4, <2>2
<1> DEFINE B == Balls(links, origin, nodes)
           Equation(g) == g = [k \in 0..N |-> IF k = 0 THEN {origin} ELSE Grow(g[k - 1])]
<1>7. B = CHOOSE g : Equation(g)
  BY DEF Balls
<1>8. Equation(B)
  <2>1. Equation(f)
    BY <1>6
  <2> HIDE DEF Equation, B
  <2>2. QED
    BY <1>7, <2>1
<1>9. B[0] = {origin}
  <2> HIDE DEF N, Grow, B
  <2> QED
    BY <1>1, <1>8
<1>10. ASSUME NEW k \in 1..N PROVE B[k] = Grow(B[k - 1])
  <2>1. k \in 0..N /\ k # 0
    BY <1>1
  <2> HIDE DEF Grow, B, N
  <2>2. QED
    BY <1>8, <2>1
<1>11. QED
  BY <1>9, <1>10

\* The balls grow up to the one that no link leaves: among so many nodes, a ball
\* that is still growing would have more of them than there are.
LEMMA BallsClose ==
  ASSUME NEW nodes, IsFiniteSet(nodes), NEW links \in [nodes -> SUBSET nodes], NEW origin \in nodes
  PROVE  LET N == Cardinality(nodes)
             ball == Balls(links, origin, nodes)
         IN  /\ \A k \in 0..N : ball[k] \subseteq ball[N] /\ ball[k] \subseteq nodes
             /\ \A n \in ball[N] : links[n] \subseteq ball[N]
<1> DEFINE N == Cardinality(nodes)
           ball == Balls(links, origin, nodes)
           Grow(s) == s \cup UNION {links[n] : n \in s}
<1>1. N \in Nat
  BY FS_CardinalityType
<1>2. ball[0] = {origin} /\ \A k \in 1..N : ball[k] = Grow(ball[k - 1])
  BY BallsGrow
<1> HIDE DEF N, ball
<1>3. \A k \in 0..N : ball[k] \subseteq nodes
  <2> DEFINE Bad == {k \in 0..N : ~(ball[k] \subseteq nodes)}
  <2> SUFFICES ASSUME Bad # {} PROVE FALSE
    OBVIOUS
  <2>1. PICK k \in Bad : \A j \in Bad : k <= j
    <3>1. Bad \in SUBSET Nat
      OBVIOUS
    <3> HIDE DEF Bad
    <3>2. QED
      BY <3>1, LeastNatural
  <2>2. k # 0
    BY <1>2, <2>1
  <2>3. k \in 1..N /\ k - 1 \in 0..N /\ ~(k <= k - 1)
    BY <1>1, <2>1, <2>2
  <2>4. ball[k - 1] \subseteq nodes
    BY <2>1, <2>3
  <2>5. ball[k] = Grow(ball[k - 1])
    BY <1>2, <2>3
  <2>6. QED
    BY <2>1, <2>4, <2>5
\* From a ball that does not grow on, all are the same.
<1>4. ASSUME NEW k \in 0..N, Grow(ball[k]) = ball[k]
      PROVE  \A j \in k..N : ball[j] = ball[k]
  <2> DEFINE Bad == {j \in k..N : ball[j] # ball[k]}
  <2> SUFFICES ASSUME Bad # {} PROVE FALSE
    OBVIOUS
  <2>1. PICK j \in Bad : \A i \in Bad : j <= i
    <3>1. Bad \in SUBSET Nat
      BY <1>1
    <3> HIDE DEF Bad
    <3>2. QED
      BY <3>1, LeastNatural
  <2>2. j \in 1..N /\ j - 1 \in k..N /\ ~(j <= j - 1)
    BY <1>1, <2>1
  <2>3. ball[j - 1] = ball[k]
    BY <2>1, <2>2
  <2>4. ball[j] = Grow(ball[j - 1])
    BY <1>2, <2>2
  <2> HIDE DEF Grow
  <2>5. QED
    BY <1>4, <2>1, <2>3, <2>4
<1>5. \A k \in 0..N : ball[k] \subseteq ball[N]
  <2> DEFINE Bad == {i \in 0..N : ~(ball[N - i] \subseteq ball[N])}
  <2>1. Bad = {}
    <3> SUFFICES ASSUME Bad # {} PROVE FALSE
      OBVIOUS
    <3>1. PICK i \in Bad : \A j \in Bad : i <= j
      <4>1. Bad \in SUBSET Nat
        OBVIOUS
      <4> HIDE DEF Bad
      <4>2. QED
        BY <4>1, LeastNatural
    <3>2. i # 0
      BY <1>1, <3>1
    <3>3. i - 1 \in 0..N /\ ~(i <= i - 1) /\ N - (i - 1) \in 1..N /\ (N - (i - 1)) - 1 = N - i
      BY <1>1, <3>1, <3>2
    <3>4. ball[N - (i - 1)] \subseteq ball[N]
      BY <3>1, <3>3
    <3>5. ball[N - (i - 1)] = Grow(ball[N - i])
      BY <1>2, <3>3
    <3>6. QED
      BY <3>1, <3>4, <3>5
  <2>2. ASSUME NEW k \in 0..N PROVE ball[k] \subseteq ball[N]
    <3>1. N - k \in 0..N /\ N - (N - k) = k
      BY <1>1
    <3>2. QED
      BY <2>1, <3>1
  <2>3. QED
    BY <2>2
<1>6. Grow(ball[N]) = ball[N]
  <2> SUFFICES ASSUME Grow(ball[N]) # ball[N] PROVE FALSE
    OBVIOUS
  <2>1. \A k \in 0..N : Grow(ball[k]) # ball[k]
    <3> SUFFICES ASSUME NEW k \in 0..N, Grow(ball[k]) = ball[k] PROVE FALSE
      OBVIOUS
    <3>1. N \in k..N
      BY <1>1
    <3>2. ball[N] = ball[k]
      BY <1>4, <3>1
    <3> HIDE DEF Grow
    <3>3. QED
      BY <3>2
  <2>2. \A k \in 0..N : IsFiniteSet(ball[k]) /\ Cardinality(ball[k]) \in Nat /\ Cardinality(ball[k]) <= N
    BY <1>3, FS_Subset, FS_CardinalityType DEF N
  <2>3. \A k \in 0..N : Cardinality(ball[k]) >= k + 1
    <3> DEFINE Bad == {k \in 0..N : ~(Cardinality(ball[k]) >= k + 1)}
    <3> SUFFICES ASSUME Bad # {} PROVE FALSE
      OBVIOUS
    <3>1. PICK k \in Bad : \A j \in Bad : k <= j
      <4>1. Bad \in SUBSET Nat
        OBVIOUS
      <4> HIDE DEF Bad
      <4>2. QED
        BY <4>1, LeastNatural
    <3>2. k # 0
      <4>1. Cardinality(ball[0]) = 1
        BY <1>2, FS_Singleton
      <4>2. QED
        BY <3>1, <4>1
    <3>3. k \in 1..N /\ k \in 0..N /\ k - 1 \in 0..N /\ ~(k <= k - 1)
      BY <1>1, <3>1, <3>2
    <3>4. Cardinality(ball[k - 1]) >= k
      BY <1>1, <3>1, <3>3
    <3>5. ball[k - 1] \subseteq ball[k] /\ ball[k - 1] # ball[k]
      BY <1>2, <2>1, <3>3
    <3>6. Cardinality(ball[k - 1]) <= Cardinality(ball[k])
          /\ Cardinality(ball[k - 1]) # Cardinality(ball[k])
      BY <2>2, <3>3, <3>5, FS_Subset
    <3>7. Cardinality(ball[k - 1]) \in Nat /\ Cardinality(ball[k]) \in Nat
      BY <2>2, <3>3
    <3>8. ~(Cardinality(ball[k]) >= k + 1)
      BY <3>1
    <3>9. QED
      BY <3>3, <3>4, <3>6, <3>7, <3>8
  <2>4. N \in 0..N
    BY <1>1
  <2>5. QED
    BY <1>1, <2>2, <2>3, <2>4
<1>7. \A n \in ball[N] : links[n] \subseteq ball[N]
  BY <1>6
<1>8. QED
  BY <1>3, <1>5, <1>7 DEF N, ball

\* Distances that certify themselves: the origin's is 0, the others' come from a
\* node one hop nearer, and no link leads more than one hop farther.
Certify(nodes, links, origin, unreached, reached, hops) ==
  /\ links \in [nodes -> SUBSET nodes] /\ reached \in SUBSET nodes /\ origin \in reached
  /\ hops \in [nodes -> Nat \cup {unreached}]
  /\ \A n \in nodes : n \in reached <=> hops[n] # unreached
  /\ hops[origin] = 0
  /\ \A n \in reached \ {origin} : \E u \in reached : n \in links[u] /\ hops[n] = hops[u] + 1
  /\ \A u \in reached : \A n \in links[u] : n \in reached /\ hops[n] <= hops[u] + 1

\* Such distances are the ones in the graph.
LEMMA CertifiedAreTrue ==
  ASSUME NEW nodes, IsFiniteSet(nodes), NEW links, NEW origin, NEW unreached, unreached \notin Nat,
         NEW reached, NEW hops, Certify(nodes, links, origin, unreached, reached, hops)
  PROVE  hops = HopsFrom(links, origin, nodes, unreached)
<1> USE DEF Certify
<1> DEFINE N == Cardinality(nodes)
           ball == Balls(links, origin, nodes)
           Within(k) == {n \in reached : hops[n] <= k}
<1>1. N \in Nat
  BY FS_CardinalityType
<1>2. \A n \in reached : n \in nodes /\ hops[n] \in Nat
  OBVIOUS
<1>3. ball[0] = {origin} /\ \A k \in 1..N : ball[k] = ball[k - 1] \cup UNION {links[n] : n \in ball[k - 1]}
  BY BallsGrow
<1> HIDE DEF N, ball
\* The balls are what is reached within so many hops.
<1>4. \A k \in 0..N : ball[k] = Within(k)
  <2> DEFINE Bad == {k \in 0..N : ball[k] # Within(k)}
  <2> SUFFICES ASSUME Bad # {} PROVE FALSE
    OBVIOUS
  <2>1. PICK k \in Bad : \A j \in Bad : k <= j
    <3>1. Bad \in SUBSET Nat
      OBVIOUS
    <3> HIDE DEF Bad
    <3>2. QED
      BY <3>1, LeastNatural
  <2>2. k \in 0..N /\ ball[k] # Within(k)
    OBVIOUS
  <2>3. Within(0) = {origin}
    <3>1. ASSUME NEW n \in reached \ {origin} PROVE hops[n] > 0
      BY <1>2
    <3>2. QED
      BY <1>2, <3>1
  <2>4. k # 0
    BY <1>3, <2>2, <2>3
  <2>5. k \in 1..N /\ k - 1 \in 0..N /\ ~(k <= k - 1)
    BY <1>1, <2>2, <2>4
  <2>6. ball[k - 1] = Within(k - 1)
    <3>1. k - 1 \notin Bad
      <4> HIDE DEF Bad
      <4> QED
        BY <2>1, <2>5
    <3>2. QED
      BY <2>5, <3>1
  <2>7. ball[k] = ball[k - 1] \cup UNION {links[n] : n \in ball[k - 1]}
    BY <1>3, <2>5
  <2>8. ASSUME NEW n \in ball[k] PROVE n \in Within(k)
    <3>1. CASE n \in ball[k - 1]
      BY <1>2, <2>5, <2>6, <3>1
    <3>2. CASE \E m \in ball[k - 1] : n \in links[m]
      <4>1. PICK m \in Within(k - 1) : n \in links[m]
        BY <2>6, <3>2
      <4>2. n \in reached /\ hops[n] <= hops[m] + 1
        BY <4>1
      <4>3. hops[m] \in Nat /\ hops[n] \in Nat /\ hops[m] <= k - 1
        BY <1>2, <4>1, <4>2
      <4>4. QED
        BY <2>5, <4>2, <4>3
    <3>3. QED
      BY <2>7, <2>8, <3>1, <3>2
  <2>9. ASSUME NEW n \in Within(k) PROVE n \in ball[k]
    <3>1. n \in reached /\ hops[n] \in Nat /\ hops[n] <= k
      BY <1>2
    <3>2. CASE hops[n] <= k - 1
      BY <2>6, <2>7, <3>1, <3>2
    <3>3. CASE hops[n] = k
      <4>1. n # origin
        BY <2>4, <3>3
      <4>2. PICK u \in reached : n \in links[u] /\ hops[n] = hops[u] + 1
        BY <3>1, <4>1
      <4>3. hops[u] \in Nat /\ hops[u] <= k - 1
        BY <1>2, <3>3, <4>2
      <4>4. QED
        BY <2>6, <2>7, <4>2, <4>3
    <3>4. QED
      BY <2>5, <3>1, <3>2, <3>3
  <2>10. QED
    BY <2>2, <2>8, <2>9
\* Every layer between the origin and a reached node has a node, so no node is
\* as far as there are nodes.
<1>5. \A n \in reached : hops[n] \in 0..N
  <2> SUFFICES ASSUME NEW n \in reached PROVE hops[n] < N
    BY <1>1, <1>2
  <2> DEFINE top == hops[n]
             Empty == {h \in 0..top : \A m \in reached : hops[m] # top - h}
  <2>0. top \in Nat
    BY <1>2
  <2> HIDE DEF top
  <2>1. Empty = {}
    <3> SUFFICES ASSUME Empty # {} PROVE FALSE
      OBVIOUS
    <3>1. PICK h \in Empty : \A j \in Empty : h <= j
      <4>1. Empty \in SUBSET Nat
        OBVIOUS
      <4> HIDE DEF Empty
      <4>2. QED
        BY <4>1, LeastNatural
    <3>2. h \in 0..top /\ \A m \in reached : hops[m] # top - h
      OBVIOUS
    <3>3. h # 0
      BY <2>0, <3>2 DEF top
    <3>4. h - 1 \in 0..top /\ ~(h <= h - 1)
      BY <2>0, <3>2, <3>3
    <3>5. h - 1 \notin Empty
      <4> HIDE DEF Empty
      <4> QED
        BY <3>1, <3>4
    <3>6. PICK m \in reached : hops[m] = top - (h - 1)
      BY <3>4, <3>5
    <3>7. hops[m] # 0
      BY <2>0, <3>2, <3>6
    <3>8. PICK u \in reached : hops[m] = hops[u] + 1
      BY <3>7
    <3>9. hops[u] = top - h
      BY <1>2, <2>0, <3>2, <3>6, <3>8
    <3>10. QED
      BY <3>2, <3>9
  <2>2. \A j \in 0..top : \E m \in reached : hops[m] = j
    <3> TAKE j \in 0..top
    <3>1. top - j \in 0..top /\ top - (top - j) = j
      BY <2>0
    <3>2. top - j \notin Empty
      BY <2>1
    <3>3. QED
      BY <3>1, <3>2
  <2> DEFINE f == [j \in 0..top |-> CHOOSE m \in reached : hops[m] = j]
             Layers == 0..top
  <2>3. \A j \in 0..top : f[j] \in reached /\ hops[f[j]] = j
    BY <2>2
  <2>4. f \in Injection(Layers, nodes)
    <3>1. f \in [Layers -> nodes]
      BY <2>3
    <3>2. ASSUME NEW i \in Layers, NEW j \in Layers, f[i] = f[j] PROVE i = j
      <4> HIDE DEF f
      <4> QED
        BY <2>3, <3>2
    <3> HIDE DEF f
    <3>3. QED
      BY <3>1, <3>2 DEF Injection, IsInjective
  <2>5. Cardinality(Layers) <= N
    <3> HIDE DEF f, Layers
    <3> QED
      BY <2>4, FS_Injection DEF N
  <2>6. Cardinality(Layers) = top + 1
    <3>1. Cardinality(0..top) = IF 0 > top THEN 0 ELSE top - 0 + 1
      BY <2>0, FS_Interval
    <3>2. QED
      BY <2>0, <3>1
  <2>7. QED
    BY <1>1, <2>0, <2>5, <2>6 DEF top
<1>6. ASSUME NEW n \in nodes
      PROVE  LET rounds == {k \in 0..N : n \in ball[k]}
             IN  hops[n] = IF rounds = {} THEN unreached ELSE Min(rounds)
  <2> DEFINE rounds == {k \in 0..N : n \in ball[k]}
  <2>1. CASE n \notin reached
    <3>1. rounds = {}
      BY <1>4, <2>1
    <3>2. QED
      BY <2>1, <3>1
  <2>2. CASE n \in reached
    <3>1. hops[n] \in 0..N /\ n \in ball[hops[n]]
      BY <1>4, <1>5, <2>2
    <3>2. hops[n] \in rounds /\ \A k \in rounds : hops[n] <= k
      BY <1>4, <3>1
    <3>3. \A k \in rounds : k \in Nat
      OBVIOUS
    <3>4. Min(rounds) = hops[n]
      <4> HIDE DEF rounds
      <4>1. Min(rounds) \in rounds /\ \A k \in rounds : Min(rounds) <= k
        BY <3>2 DEF Min
      <4>2. QED
        BY <3>2, <3>3, <4>1
    <3>5. QED
      BY <3>2, <3>4
  <2>3. QED
    BY <2>1, <2>2
<1>7. QED
  BY <1>6 DEF HopsFrom, N, ball

\* HopsFrom certifies itself.
LEMMA HopsFromCertifies ==
  ASSUME NEW nodes, IsFiniteSet(nodes), NEW links \in [nodes -> SUBSET nodes], NEW origin \in nodes,
         NEW unreached, unreached \notin Nat
  PROVE  LET hops == HopsFrom(links, origin, nodes, unreached)
         IN  Certify(nodes, links, origin, unreached, {n \in nodes : hops[n] # unreached}, hops)
<1> DEFINE N == Cardinality(nodes)
           ball == Balls(links, origin, nodes)
           rounds(n) == {k \in 0..N : n \in ball[k]}
           hops == HopsFrom(links, origin, nodes, unreached)
<1>1. N \in Nat
  BY FS_CardinalityType
<1>2. ball[0] = {origin} /\ \A k \in 1..N : ball[k] = ball[k - 1] \cup UNION {links[n] : n \in ball[k - 1]}
  BY BallsGrow
<1>3. /\ \A k \in 0..N : ball[k] \subseteq ball[N] /\ ball[k] \subseteq nodes
      /\ \A n \in ball[N] : links[n] \subseteq ball[N]
  BY BallsClose
<1>4. hops = [n \in nodes |-> IF rounds(n) = {} THEN unreached ELSE Min(rounds(n))]
  BY DEF HopsFrom
<1> HIDE DEF N, ball, hops
<1>5. ASSUME NEW n \in nodes, rounds(n) # {}
      PROVE  hops[n] \in rounds(n) /\ \A k \in rounds(n) : hops[n] <= k
  <2> DEFINE T == rounds(n)
  <2>1. T \in SUBSET Nat /\ T # {} /\ hops[n] = Min(T)
    BY <1>4, <1>5
  <2> HIDE DEF T
  <2>2. \E k \in T : \A j \in T : k <= j
    BY <2>1, LeastNatural
  <2>3. Min(T) \in T /\ \A j \in T : Min(T) <= j
    BY <2>2 DEF Min
  <2>4. QED
    BY <2>1, <2>3 DEF T
<1>6. \A n \in nodes : hops[n] # unreached <=> n \in ball[N]
  <2> SUFFICES ASSUME NEW n \in nodes PROVE hops[n] # unreached <=> n \in ball[N]
    OBVIOUS
  <2>1. CASE rounds(n) = {}
    <3>1. hops[n] = unreached
      BY <1>4, <2>1
    <3>2. N \in 0..N
      BY <1>1
    <3>3. QED
      BY <2>1, <3>1, <3>2
  <2>2. CASE rounds(n) # {}
    <3>1. hops[n] \in 0..N /\ n \in ball[hops[n]]
      BY <1>5, <2>2
    <3>2. QED
      BY <1>3, <3>1
  <2>3. QED
    BY <2>1, <2>2
<1>7. hops \in [nodes -> Nat \cup {unreached}]
  <2>1. \A n \in nodes : hops[n] \in Nat \cup {unreached}
    <3> SUFFICES ASSUME NEW n \in nodes PROVE hops[n] \in Nat \cup {unreached}
      OBVIOUS
    <3>1. CASE rounds(n) = {}
      BY <1>4, <3>1
    <3>2. CASE rounds(n) # {}
      <4>1. hops[n] \in 0..N
        BY <1>5, <3>2
      <4>2. QED
        BY <4>1
    <3>3. QED
      BY <3>1, <3>2
  <2>2. hops = [n \in nodes |-> hops[n]]
    BY <1>4
  <2>3. QED
    BY <2>1, <2>2
<1>8. ASSUME NEW n \in nodes, NEW k \in 0..N, n \in ball[k]
      PROVE  hops[n] \in 0..N /\ n \in ball[hops[n]] /\ hops[n] <= k /\ hops[n] # unreached
  <2>1. rounds(n) # {}
    BY <1>8
  <2>2. hops[n] \in rounds(n) /\ \A j \in rounds(n) : hops[n] <= j
    BY <1>5, <2>1
  <2>3. hops[n] \in Nat
    BY <1>1, <2>2
  <2>4. QED
    BY <1>8, <2>2, <2>3
<1>9. hops[origin] = 0
  <2>1. 0 \in 0..N /\ origin \in ball[0]
    BY <1>1, <1>2
  <2>2. hops[origin] \in 0..N /\ hops[origin] <= 0
    BY <1>8, <2>1
  <2>3. QED
    BY <2>2
<1>10. ASSUME NEW d \in nodes \ {origin}, hops[d] # unreached
       PROVE  \E s \in nodes : hops[s] # unreached /\ d \in links[s] /\ hops[d] = hops[s] + 1
  <2>1. N \in 0..N /\ d \in ball[N]
    BY <1>1, <1>6, <1>10
  <2> DEFINE k == hops[d]
  <2>2. k \in 0..N /\ d \in ball[k]
    BY <1>8, <2>1
  <2> HIDE DEF k
  <2>3. k # 0
    BY <1>2, <1>10, <2>2
  <2>4. k \in 1..N /\ k - 1 \in 0..N
    BY <1>1, <2>2, <2>3
  <2>5. d \notin ball[k - 1]
    <3> SUFFICES ASSUME d \in ball[k - 1] PROVE FALSE
      OBVIOUS
    <3>1. hops[d] <= k - 1
      BY <1>8, <2>4
    <3>2. QED
      BY <2>4, <3>1 DEF k
  <2>6. PICK s \in ball[k - 1] : d \in links[s]
    BY <1>2, <2>2, <2>4, <2>5
  <2>7. s \in nodes
    BY <1>3, <2>4
  <2> DEFINE h == hops[s]
  <2>8. h \in 0..N /\ s \in ball[h] /\ h <= k - 1 /\ hops[s] # unreached
    BY <1>8, <2>4, <2>6, <2>7
  <2> HIDE DEF h
  <2>9. h + 1 \in 1..N /\ (h + 1) - 1 = h
    BY <1>1, <2>4, <2>8
  <2>10. d \in ball[h + 1]
    BY <1>2, <2>6, <2>8, <2>9
  <2>11. k <= h + 1
    <3>1. h + 1 \in 0..N
      BY <2>9
    <3>2. QED
      BY <1>8, <2>10, <3>1 DEF k
  <2>12. k = h + 1
    BY <2>4, <2>8, <2>11
  <2>13. QED
    BY <2>6, <2>7, <2>8, <2>12 DEF h, k
<1>11. ASSUME NEW u \in nodes, hops[u] # unreached, NEW n \in links[u]
       PROVE  n \in nodes /\ hops[n] # unreached /\ hops[n] <= hops[u] + 1
  <2>1. N \in 0..N /\ u \in ball[N] /\ n \in nodes /\ n \in ball[N]
    BY <1>1, <1>3, <1>6, <1>11
  <2> DEFINE h == hops[u]
  <2>2. h \in 0..N /\ u \in ball[h]
    BY <1>8, <2>1
  <2> HIDE DEF h
  <2>3. hops[n] \in 0..N /\ hops[n] # unreached
    BY <1>8, <2>1
  <2>4. hops[n] <= h + 1
    <3>1. CASE h + 1 \in 1..N
      <4>1. n \in ball[h + 1] /\ h + 1 \in 0..N
        <5>1. (h + 1) - 1 = h
          BY <2>2
        <5>2. QED
          BY <1>2, <2>2, <3>1, <5>1
      <4>2. QED
        BY <1>8, <2>1, <4>1
    <3>2. CASE h + 1 \notin 1..N
      BY <1>1, <2>2, <2>3, <3>2
    <3>3. QED
      BY <3>1, <3>2
  <2>5. QED
    BY <2>1, <2>3, <2>4 DEF h
<1>12. Certify(nodes, links, origin, unreached, {n \in nodes : hops[n] # unreached}, hops)
  <2> DEFINE reached == {n \in nodes : hops[n] # unreached}
  <2>1. origin \in reached
    BY <1>9
  <2>2. /\ links \in [nodes -> SUBSET nodes] /\ reached \in SUBSET nodes
        /\ \A n \in nodes : n \in reached <=> hops[n] # unreached
    OBVIOUS
  <2>3. \A n \in reached \ {origin} : \E u \in reached : n \in links[u] /\ hops[n] = hops[u] + 1
    BY <1>10
  <2>4. \A u \in reached : \A n \in links[u] : n \in reached /\ hops[n] <= hops[u] + 1
    BY <1>11
  <2> HIDE DEF reached
  <2>5. QED
    BY <1>7, <1>9, <2>1, <2>2, <2>3, <2>4 DEF Certify, reached
<1>13. QED
  BY <1>12 DEF hops

\* Whom a search reaches: the origin, and those that a link leads to from
\* someone reached.
Reaches(hops, links, origin, nodes, unreached) ==
  /\ hops \in [nodes -> Nat \cup {unreached}]
  /\ \A s \in nodes : hops[s] # unreached => \A d \in links[s] : hops[d] # unreached
  /\ \A d \in nodes \ {origin} :
       hops[d] # unreached => \E s \in nodes : hops[s] # unreached /\ d \in links[s]

\* HopsFrom reaches exactly them.
LEMMA HopsFromReaches ==
  ASSUME NEW nodes, IsFiniteSet(nodes), NEW links \in [nodes -> SUBSET nodes], NEW origin \in nodes,
         NEW unreached, unreached \notin Nat
  PROVE  Reaches(HopsFrom(links, origin, nodes, unreached), links, origin, nodes, unreached)
<1> DEFINE hops == HopsFrom(links, origin, nodes, unreached)
<1>1. Certify(nodes, links, origin, unreached, {n \in nodes : hops[n] # unreached}, hops)
  BY HopsFromCertifies
<1> HIDE DEF hops
<1>2. Reaches(hops, links, origin, nodes, unreached)
  BY <1>1 DEF Certify, Reaches
<1>3. QED
  BY <1>2 DEF hops

-----------------------------------------------------------------------------
(* Entries.                                                                *)

\* An entry holds items for different peers, with filters for some keys.
ItemsOf(peers, keys) == [node : peers, filter : SUBSET keys]

IsPeerEntry(entry, peers, keys) ==
  /\ entry \in Seq(ItemsOf(peers, keys))
  /\ \A i, j \in 1..Len(entry) : entry[i].node = entry[j].node => i = j

\* What a sequence in a set is made of.
LEMMA SeqFacts ==
  ASSUME NEW T, NEW s \in Seq(T)
  PROVE  Len(s) \in Nat /\ DOMAIN s = 1..Len(s) /\ \A i \in 1..Len(s) : s[i] \in T
BY LenProperties

-----------------------------------------------------------------------------
(* get_nodes.                                                              *)

\* The nodes answered of the first i items.
IsAnswered(s, i, entry, peers, origin) ==
  /\ s \in Seq(peers) /\ Len(s) <= i
  /\ \A x \in peers :
       x \in ToSet(s) <=> \E j \in 1..i : entry[j].node = x /\ origin \notin entry[j].filter

\* One item more.
LEMMA AnsweredNext ==
  ASSUME NEW peers, NEW keys, NEW entry \in Seq(ItemsOf(peers, keys)), NEW origin,
         NEW i \in 1..Len(entry), NEW s, IsAnswered(s, i - 1, entry, peers, origin)
  PROVE  IsAnswered(IF origin \in entry[i].filter THEN s ELSE Append(s, entry[i].node),
                    i, entry, peers, origin)
<1> DEFINE new == IF origin \in entry[i].filter THEN s ELSE Append(s, entry[i].node)
<1>1. s \in Seq(peers) /\ entry[i].node \in peers /\ i \in Nat
  <2>1. entry[i] \in ItemsOf(peers, keys)
    BY SeqFacts
  <2>2. QED
    BY <2>1, SeqFacts DEF ItemsOf, IsAnswered
<1>2. \A x \in peers : (\E j \in 1..i : entry[j].node = x /\ origin \notin entry[j].filter)
        <=> \/ \E j \in 1..(i - 1) : entry[j].node = x /\ origin \notin entry[j].filter
            \/ entry[i].node = x /\ origin \notin entry[i].filter
  BY <1>1
<1>3. CASE origin \in entry[i].filter
  <2>1. Len(s) <= i
    BY <1>1, SeqFacts DEF IsAnswered
  <2>2. QED
    BY <1>2, <1>3, <2>1 DEF IsAnswered
<1>4. CASE origin \notin entry[i].filter
  <2> DEFINE node == entry[i].node
  <2>1. /\ Append(s, node) \in Seq(peers) /\ Len(Append(s, node)) = Len(s) + 1
        /\ \A j \in 1..Len(s) : Append(s, node)[j] = s[j]
        /\ Append(s, node)[Len(s) + 1] = node
    BY <1>1, AppendProperties
  <2> DEFINE t == Append(s, node)
  <2>2. \A x : x \in ToSet(t) <=> x \in ToSet(s) \/ x = node
    <3>1. /\ DOMAIN s = 1..Len(s) /\ Len(s) \in Nat /\ DOMAIN t = 1..(Len(s) + 1)
          /\ \A j \in 1..Len(s) : t[j] = s[j] /\ t[Len(s) + 1] = node
      BY <1>1, <2>1, SeqFacts
    <3>2. t[Len(s) + 1] = node
      BY <2>1
    <3> HIDE DEF t, node
    <3>3. \A j \in 1..(Len(s) + 1) : j \in 1..Len(s) \/ j = Len(s) + 1
      BY <3>1
    <3>4. \A j \in 1..Len(s) : j \in 1..(Len(s) + 1)
      BY <3>1
    <3>5. Len(s) + 1 \in 1..(Len(s) + 1)
      BY <3>1
    <3>6. QED
      BY <3>1, <3>2, <3>3, <3>4, <3>5 DEF ToSet
  <2> HIDE DEF t
  <2>3. Len(t) <= i
    <3>1. Len(s) \in Nat /\ Len(s) <= i - 1
      BY <1>1, SeqFacts DEF IsAnswered
    <3>2. QED
      BY <1>1, <2>1, <3>1 DEF t
  <2>4. IsAnswered(t, i, entry, peers, origin)
    BY <1>2, <1>4, <2>1, <2>2, <2>3 DEF IsAnswered, t
  <2>5. QED
    BY <1>4, <2>4 DEF t
<1>5. QED
  BY <1>3, <1>4

\* get_nodes answers the peers whose filters let the origin through.
LEMMA GetNodesAnswers ==
  ASSUME NEW peers, NEW keys, NEW entry \in Seq(ItemsOf(peers, keys)), NEW origin
  PROVE  IsAnswered(GetNodes(entry, origin), Len(entry), entry, peers, origin)
<1> DEFINE N == Len(entry)
           Step(i, s) == IF origin \in entry[i].filter THEN s ELSE Append(s, entry[i].node)
           S == Seq(peers)
           F == [i \in 1..N |-> [s \in S |-> Step(i, s)]]
<1>1. N \in Nat /\ \A i \in 1..N : entry[i].node \in peers
  <2>1. N \in Nat /\ \A i \in 1..N : entry[i] \in ItemsOf(peers, keys)
    BY SeqFacts
  <2>2. QED
    BY <2>1 DEF ItemsOf
<1>2. F \in StepsOn(N, S) /\ <<>> \in S
  <2>1. \A i \in 1..N : \A s \in S : Step(i, s) \in S
    <3> TAKE i \in 1..N
    <3> TAKE s \in S
    <3>1. Append(s, entry[i].node) \in S
      BY <1>1, AppendProperties
    <3>2. QED
      BY <3>1
  <2>2. <<>> \in S
    BY EmptySeq
  <2> HIDE DEF S, Step
  <2>3. QED
    BY <2>1, <2>2 DEF StepsOn
<1>3. PICK f : IsRun(f, N, S, <<>>, F)
  <2> HIDE DEF N, F, S
  <2> QED
    BY <1>1, <1>2, NatRecursion
<1>4. f \in [0..N -> S] /\ f[0] = <<>> /\ \A k \in 1..N : f[k] = F[k][f[k - 1]]
  BY <1>3 DEF IsRun
<1> HIDE DEF S
<1>5. \A k \in 1..N : f[k] = Step(k, f[k - 1])
  <2> SUFFICES ASSUME NEW k \in 1..N PROVE f[k] = Step(k, f[k - 1])
    OBVIOUS
  <2>1. k - 1 \in 0..N
    BY <1>1
  <2>2. f[k - 1] \in S
    BY <1>4, <2>1
  <2>3. F[k][f[k - 1]] = Step(k, f[k - 1])
    BY <2>2
  <2>4. QED
    BY <1>4, <2>3
<1>6. f = [k \in 0..N |-> IF k = 0 THEN <<>> ELSE Step(k, f[k - 1])]
  <2> DEFINE g == [k \in 0..N |-> IF k = 0 THEN <<>> ELSE Step(k, f[k - 1])]
  <2>1. \A k \in 0..N : k # 0 => k \in 1..N
    BY <1>1
  <2>2. \A k \in 0..N : f[k] = g[k]
    <3> HIDE DEF Step, N
    <3> QED
      BY <1>4, <1>5, <2>1
  <2>3. QED
    <3> HIDE DEF Step, N
    <3> QED
      BY <1>4, <2>2
<1> DEFINE Equation(g) == g = [k \in 0..N |-> IF k = 0 THEN <<>> ELSE Step(k, g[k - 1])]
           B == CHOOSE g : Equation(g)
<1>7. GetNodes(entry, origin) = B[N]
  BY DEF GetNodes
<1>8. Equation(B)
  <2>1. Equation(f)
    BY <1>6
  <2> HIDE DEF Equation
  <2>2. QED
    BY <2>1
<1> DEFINE Bad == {k \in 0..N : ~IsAnswered(B[k], k, entry, peers, origin)}
<1>9. Bad = {}
  <2> SUFFICES ASSUME Bad # {} PROVE FALSE
    OBVIOUS
  <2> HIDE DEF B
  <2>1. PICK k \in Bad : \A j \in Bad : k <= j
    <3>1. Bad \in SUBSET Nat
      BY <1>1
    <3> HIDE DEF Bad
    <3>2. QED
      BY <3>1, LeastNatural
  <2>2. B[0] = <<>>
    <3> HIDE DEF Step
    <3>1. 0 \in 0..N
      BY <1>1
    <3>2. QED
      BY <1>8, <3>1
  <2>3. k # 0
    <3>1. IsAnswered(<<>>, 0, entry, peers, origin)
      <4>1. <<>> \in Seq(peers) /\ Len(<<>>) = 0 /\ ToSet(<<>>) = {} /\ 1..0 = {}
        BY EmptySeq DEF ToSet
      <4>2. QED
        BY <4>1 DEF IsAnswered
    <3>2. QED
      BY <2>2, <3>1
  <2>4. k \in 1..N /\ k - 1 \in 0..N /\ ~(k <= k - 1)
    BY <1>1, <2>3
  <2>5. IsAnswered(B[k - 1], k - 1, entry, peers, origin)
    BY <2>1, <2>4
  <2>6. B[k] = Step(k, B[k - 1])
    <3> HIDE DEF Step
    <3>1. k \in 0..N
      BY <2>4
    <3>2. QED
      BY <1>8, <2>3, <3>1
  <2>7. IsAnswered(B[k], k, entry, peers, origin)
    BY <2>4, <2>5, <2>6, AnsweredNext
  <2>8. QED
    BY <2>7
<1>10. N \in 0..N
  BY <1>1
<1> HIDE DEF B
<1>11. QED
  BY <1>7, <1>9, <1>10

-----------------------------------------------------------------------------
(* rotate.                                                                 *)

\* The set an entry's keys are.
LEMMA KeysFacts ==
  ASSUME NEW T, NEW entry \in Seq(T)
  PROVE  KeysOf(entry) = {entry[i].node : i \in 1..Len(entry)}
BY LenProperties DEF KeysOf

\* An entry has as many keys as items.
LEMMA KeysCount ==
  ASSUME NEW peers, NEW keys, NEW entry, IsPeerEntry(entry, peers, keys)
  PROVE  /\ Cardinality(KeysOf(entry)) = Len(entry)
         /\ KeysOf(entry) \subseteq peers
         /\ Len(entry) \in Nat
         /\ IsFiniteSet(KeysOf(entry))
<1> DEFINE D == 1..Len(entry)
           r == [i \in D |-> entry[i].node]
<1>1. /\ entry \in Seq(ItemsOf(peers, keys))
      /\ \A i, j \in 1..Len(entry) : entry[i].node = entry[j].node => i = j
  BY DEF IsPeerEntry
<1>2. Len(entry) \in Nat /\ \A i \in D : entry[i].node \in peers
  <2>1. Len(entry) \in Nat /\ \A i \in 1..Len(entry) : entry[i] \in ItemsOf(peers, keys)
    BY <1>1, SeqFacts
  <2>2. QED
    BY <2>1 DEF ItemsOf
<1>3. IsFiniteSet(D) /\ Cardinality(D) = Len(entry)
  <2>1. 1 \in Int /\ Len(entry) \in Int
    BY <1>2
  <2>2. QED
    BY SMTT(60), <1>2, <2>1, FS_Interval
<1>4. KeysOf(entry) = {r[i] : i \in D}
  <2>1. KeysOf(entry) = {entry[i].node : i \in D}
    BY <1>1, KeysFacts
  <2>2. QED
    BY <2>1
<1>5. \A i, j \in D : r[i] = r[j] => i = j
  BY <1>1
<1> HIDE DEF D, r
<1>6. IsFiniteSet({r[i] : i \in D}) /\ Cardinality({r[i] : i \in D}) = Cardinality(D)
  BY <1>3, <1>5, FiniteImage
<1>7. KeysOf(entry) \subseteq peers
  BY <1>2, <1>4 DEF D, r
<1>8. QED
  BY <1>2, <1>3, <1>4, <1>6, <1>7

\* An entry that new peers have come into, at the end.
Extends(new, entry, peers, keys, falsely) ==
  /\ IsPeerEntry(new, peers, keys)
  /\ Len(entry) <= Len(new)
  /\ \A i \in 1..Len(entry) : new[i] = entry[i]
  /\ \A i \in (Len(entry) + 1)..Len(new) :
       new[i] = NewItem(new[i].node, falsely) /\ new[i].node \notin KeysOf(entry)

\* After i turns of the loop: it is full, or holds the nodes so far.
Filling(new, i, entry, shuffle, peers, keys, size, falsely) ==
  /\ Extends(new, entry, peers, keys, falsely)
  /\ Len(new) <= size + 1
  /\ Len(new) = size + 1 \/ \A j \in 1..i : shuffle[j] \in KeysOf(new)

\* The last turn of the loop.
LEMMA FillingNext ==
  ASSUME NEW peers, NEW keys, peers \subseteq keys, NEW entry \in Seq(ItemsOf(peers, keys)),
         NEW falsely \in SUBSET keys, NEW size \in Nat,
         NEW shuffle, NEW i \in Nat, i # 0, shuffle[i] \in peers,
         NEW old, Filling(old, i - 1, entry, shuffle, peers, keys, size, falsely)
  PROVE  Filling(WithNode(old, shuffle[i], size, falsely), i, entry, shuffle, peers, keys, size, falsely)
<1> DEFINE node == shuffle[i]
<1>1. /\ Extends(old, entry, peers, keys, falsely) /\ IsPeerEntry(old, peers, keys)
      /\ Len(old) <= size + 1
      /\ Len(old) = size + 1 \/ \A j \in 1..(i - 1) : shuffle[j] \in KeysOf(old)
  BY DEF Filling, Extends
<1>2. Len(old) \in Nat /\ Len(entry) \in Nat /\ Len(entry) <= Len(old)
      /\ KeysOf(entry) = {entry[j].node : j \in 1..Len(entry)}
      /\ KeysOf(old) = {old[j].node : j \in 1..Len(old)}
      /\ old \in Seq(ItemsOf(peers, keys))
  BY <1>1, SeqFacts, KeysCount, KeysFacts DEF Extends, IsPeerEntry
<1>3. \A j \in 1..i : j \in 1..(i - 1) \/ j = i
  OBVIOUS
<1>4. CASE Len(old) > size
  <2>1. Len(old) = size + 1 /\ WithNode(old, node, size, falsely) = old
    BY <1>1, <1>2, <1>4 DEF WithNode
  <2>2. QED
    BY <1>1, <2>1 DEF Filling
<1>5. CASE ~(Len(old) > size) /\ node \in KeysOf(old)
  <2>1. WithNode(old, node, size, falsely) = old
    BY <1>5 DEF WithNode
  <2>2. Len(old) # size + 1
    BY <1>2, <1>5
  <2>3. \A j \in 1..i : shuffle[j] \in KeysOf(old)
    BY <1>1, <1>3, <1>5, <2>2
  <2>4. QED
    BY <1>1, <2>1, <2>3 DEF Filling
<1>6. CASE ~(Len(old) > size) /\ node \notin KeysOf(old)
  <2> DEFINE item == NewItem(node, falsely)
             new == Append(old, item)
             n == Len(old)
  <2>1. item \in ItemsOf(peers, keys) /\ item.node = node
    BY DEF NewItem, PeerItem, AddToFilter, ItemsOf
  <2> HIDE DEF item
  <2>2. /\ new \in Seq(ItemsOf(peers, keys)) /\ Len(new) = n + 1
        /\ \A j \in 1..n : new[j] = old[j]
        /\ new[n + 1] = item
    BY <1>2, <2>1, AppendProperties
  <2> HIDE DEF new
  <2>3. n \in Nat /\ n <= size /\ \A j \in 1..(n + 1) : j \in 1..n \/ j = n + 1
    BY <1>2, <1>6
  <2>4. \A j \in 1..n : old[j].node # node
    BY <1>2, <1>6
  <2>5. \A j, l \in 1..(n + 1) : new[j].node = new[l].node => j = l
    <3>1. \A j, l \in 1..n : old[j].node = old[l].node => j = l
      BY <1>1 DEF IsPeerEntry
    <3> HIDE DEF n
    <3>2. QED
      BY <2>1, <2>2, <2>3, <2>4, <3>1
  <2>6. IsPeerEntry(new, peers, keys)
    BY <2>2, <2>5 DEF IsPeerEntry
  <2>7. KeysOf(new) = {new[j].node : j \in 1..(n + 1)}
    BY <2>2, KeysFacts
  <2>8. \A j \in 1..n : j \in 1..(n + 1)
    BY <2>3
  <2>9. n + 1 \in 1..(n + 1)
    BY <2>3
  <2>10. KeysOf(old) \subseteq KeysOf(new) /\ node \in KeysOf(new)
    BY <1>2, <2>1, <2>2, <2>7, <2>8, <2>9
  <2>11. \A j \in 1..Len(entry) : new[j] = entry[j]
    BY <1>1, <1>2, <2>2 DEF Extends
  <2>12. node \notin KeysOf(entry)
    <3>1. \A j \in 1..Len(entry) : j \in 1..n /\ old[j] = entry[j]
      BY <1>1, <1>2 DEF Extends
    <3>2. QED
      BY <1>2, <2>4, <3>1
  <2>13. \A j \in (Len(entry) + 1)..(n + 1) :
           new[j] = NewItem(new[j].node, falsely) /\ new[j].node \notin KeysOf(entry)
    <3> SUFFICES ASSUME NEW j \in (Len(entry) + 1)..(n + 1)
                 PROVE  new[j] = NewItem(new[j].node, falsely) /\ new[j].node \notin KeysOf(entry)
      OBVIOUS
    <3>1. CASE j = n + 1
      BY <2>1, <2>2, <2>12, <3>1 DEF item
    <3>2. CASE j # n + 1
      <4>1. j \in (Len(entry) + 1)..n /\ j \in 1..n
        BY <1>2, <3>2
      <4>2. QED
        BY <1>1, <2>2, <4>1 DEF Extends
    <3>3. QED
      BY <3>1, <3>2
  <2>14. Extends(new, entry, peers, keys, falsely)
    BY <1>2, <2>2, <2>6, <2>11, <2>13 DEF Extends
  <2>15. \A j \in 1..i : shuffle[j] \in KeysOf(new)
    <3>1. n # size + 1
      BY <2>3
    <3>2. QED
      BY <1>1, <1>3, <2>10, <3>1
  <2>16. WithNode(old, node, size, falsely) = new
    BY <1>6 DEF WithNode, new, item
  <2>17. Len(new) <= size + 1
    BY <2>2, <2>3
  <2>18. QED
    BY <2>14, <2>15, <2>16, <2>17 DEF Filling
<1>7. QED
  BY <1>4, <1>5, <1>6

\* What the loop of a rotation makes of an entry.
LEMMA WithNodesFacts ==
  ASSUME NEW peers, IsFiniteSet(peers), NEW keys, peers \subseteq keys,
         NEW entry, IsPeerEntry(entry, peers, keys),
         NEW falsely \in SUBSET keys, NEW size \in Nat, Len(entry) <= size + 1,
         NEW shuffle \in SetToSeqs(peers)
  PROVE  LET new == WithNodes(entry, shuffle, size, falsely)
         IN  /\ Extends(new, entry, peers, keys, falsely)
             /\ Len(new) = IF Cardinality(peers) < size + 1 THEN Cardinality(peers) ELSE size + 1
<1> DEFINE N == Len(shuffle)
           Step(i, s) == WithNode(s, shuffle[i], size, falsely)
           S == Seq(ItemsOf(peers, keys))
           F == [i \in 1..N |-> [s \in S |-> Step(i, s)]]
<1>1. /\ N = Cardinality(peers) /\ N \in Nat
      /\ \A i \in 1..N : shuffle[i] \in peers
      /\ \A x \in peers : \E i \in 1..N : shuffle[i] = x
  <2>1. /\ Cardinality(peers) \in Nat /\ shuffle \in [1..Cardinality(peers) -> peers]
        /\ Len(shuffle) = Cardinality(peers)
        /\ \A x \in peers : \E i \in 1..Cardinality(peers) : shuffle[i] = x
    BY ListingFacts
  <2>2. QED
    BY <2>1
<1>2. entry \in S
  BY DEF IsPeerEntry
<1>3. F \in StepsOn(N, S)
  <2>1. \A i \in 1..N : \A s \in S : Step(i, s) \in S
    <3> TAKE i \in 1..N
    <3> TAKE s \in S
    <3>1. NewItem(shuffle[i], falsely) \in ItemsOf(peers, keys)
      BY <1>1 DEF NewItem, PeerItem, AddToFilter, ItemsOf
    <3>2. Append(s, NewItem(shuffle[i], falsely)) \in S
      BY <3>1, AppendProperties
    <3>3. QED
      BY <3>2 DEF WithNode
  <2> HIDE DEF S, Step
  <2>2. QED
    BY <2>1 DEF StepsOn
<1>4. PICK f : IsRun(f, N, S, entry, F)
  <2> HIDE DEF N, F, S
  <2> QED
    BY <1>1, <1>2, <1>3, NatRecursion
<1>5. f \in [0..N -> S] /\ f[0] = entry /\ \A k \in 1..N : f[k] = F[k][f[k - 1]]
  BY <1>4 DEF IsRun
<1> HIDE DEF S, N
<1>6. \A k \in 1..N : f[k] = Step(k, f[k - 1])
  <2> SUFFICES ASSUME NEW k \in 1..N PROVE f[k] = Step(k, f[k - 1])
    OBVIOUS
  <2>1. k - 1 \in 0..N
    BY <1>1
  <2>2. f[k - 1] \in S
    BY <1>5, <2>1
  <2>3. F[k][f[k - 1]] = Step(k, f[k - 1])
    BY <2>2
  <2>4. QED
    BY <1>5, <2>3
<1>7. f = [k \in 0..N |-> IF k = 0 THEN entry ELSE Step(k, f[k - 1])]
  <2> DEFINE g == [k \in 0..N |-> IF k = 0 THEN entry ELSE Step(k, f[k - 1])]
  <2>1. \A k \in 0..N : k # 0 => k \in 1..N
    BY <1>1
  <2>2. \A k \in 0..N : f[k] = g[k]
    <3> HIDE DEF Step
    <3> QED
      BY <1>5, <1>6, <2>1
  <2>3. QED
    <3> HIDE DEF Step
    <3> QED
      BY <1>5, <2>2
<1> DEFINE Equation(g) == g = [k \in 0..N |-> IF k = 0 THEN entry ELSE Step(k, g[k - 1])]
           B == CHOOSE g : Equation(g)
           Good(k) == Filling(B[k], k, entry, shuffle, peers, keys, size, falsely)
<1>8. WithNodes(entry, shuffle, size, falsely) = B[N]
  BY DEF WithNodes, N
<1>9. Equation(B)
  <2>1. Equation(f)
    BY <1>7
  <2> HIDE DEF Equation
  <2>2. QED
    BY <2>1
<1> HIDE DEF B
<1>10. B[0] = entry /\ \A k \in 1..N : B[k] = Step(k, B[k - 1])
  <2>1. 0 \in 0..N /\ \A k \in 1..N : k \in 0..N /\ k # 0
    BY <1>1
  <2> HIDE DEF Step
  <2>2. QED
    BY <1>9, <2>1
<1>11. Good(0)
  <2>1. Len(entry) \in Nat
    BY KeysCount
  <2>2. (Len(entry) + 1)..Len(entry) = {} /\ 1..0 = {}
    BY <2>1
  <2>3. QED
    BY <1>10, <2>1, <2>2 DEF Filling, Extends
<1>12. \A k \in 1..N : Good(k - 1) => Good(k)
  <2> SUFFICES ASSUME NEW k \in 1..N, Good(k - 1) PROVE Good(k)
    OBVIOUS
  <2>1. k \in Nat /\ k # 0 /\ shuffle[k] \in peers /\ B[k] = WithNode(B[k - 1], shuffle[k], size, falsely)
    BY <1>1, <1>10
  <2>2. entry \in Seq(ItemsOf(peers, keys))
    BY DEF IsPeerEntry
  <2>3. QED
    BY <2>1, <2>2, FillingNext
<1> HIDE DEF Good
<1> DEFINE Bad == {k \in 0..N : ~Good(k)}
<1>13. Bad = {}
  <2> SUFFICES ASSUME Bad # {} PROVE FALSE
    OBVIOUS
  <2>1. PICK k \in Bad : \A j \in Bad : k <= j
    <3>1. Bad \in SUBSET Nat
      BY <1>1
    <3> HIDE DEF Bad
    <3>2. QED
      BY <3>1, LeastNatural
  <2>2. k # 0
    BY <1>11
  <2>3. k \in 1..N /\ k - 1 \in 0..N /\ ~(k <= k - 1)
    BY <1>1, <2>2
  <2>4. Good(k - 1)
    BY <2>1, <2>3
  <2>5. QED
    BY <1>12, <2>3, <2>4
<1>14. Good(N)
  <2>1. N \in 0..N
    BY <1>1
  <2>2. QED
    BY <1>13, <2>1
<1> DEFINE new == B[N]
<1>15. /\ Extends(new, entry, peers, keys, falsely) /\ Len(new) <= size + 1
       /\ Len(new) = size + 1 \/ \A j \in 1..N : shuffle[j] \in KeysOf(new)
  BY <1>14 DEF Good, Filling
<1> HIDE DEF new
<1>16. /\ Cardinality(KeysOf(new)) = Len(new) /\ KeysOf(new) \subseteq peers
       /\ Len(new) \in Nat /\ IsFiniteSet(KeysOf(new))
  <2>1. IsPeerEntry(new, peers, keys)
    BY <1>15 DEF Extends
  <2>2. QED
    BY <2>1, KeysCount
<1>17. Len(new) <= Cardinality(peers)
  BY <1>16, FS_Subset
<1>18. Len(new) # size + 1 => Len(new) = Cardinality(peers)
  <2> SUFFICES ASSUME Len(new) # size + 1 PROVE Len(new) = Cardinality(peers)
    OBVIOUS
  <2>1. peers \subseteq KeysOf(new)
    BY <1>1, <1>15
  <2>2. KeysOf(new) = peers
    BY <1>16, <2>1
  <2>3. QED
    BY <1>16, <2>2
<1>19. Len(new) = IF Cardinality(peers) < size + 1 THEN Cardinality(peers) ELSE size + 1
  BY <1>1, <1>15, <1>16, <1>17, <1>18
<1>20. QED
  BY <1>8, <1>15, <1>19 DEF new

\* A rotation lets new peers in at the end, and the oldest out if there is
\* one too many.
Rotated(after, entry, peers, keys, size, falsely) ==
  \E new :
    /\ Extends(new, entry, peers, keys, falsely)
    /\ \/ after = new /\ Len(new) = Cardinality(peers) /\ Cardinality(peers) <= size
       \/ /\ Len(new) = size + 1 /\ Cardinality(peers) > size
          /\ after \in Seq(ItemsOf(peers, keys)) /\ Len(after) = size
          /\ \A i \in 1..size : after[i] = new[i + 1]

\* This is what `rotate` does, for every shuffle.
LEMMA RotateEntryFacts ==
  ASSUME NEW peers, IsFiniteSet(peers), NEW keys, peers \subseteq keys,
         NEW entry, IsPeerEntry(entry, peers, keys),
         NEW falsely \in SUBSET keys, NEW size \in Nat, Len(entry) <= size,
         NEW shuffle \in SetToSeqs(peers)
  PROVE  Rotated(RotateEntry(entry, shuffle, size, falsely), entry, peers, keys, size, falsely)
<1> DEFINE new == WithNodes(entry, shuffle, size, falsely)
           after == RotateEntry(entry, shuffle, size, falsely)
<1>1. Len(entry) \in Nat /\ Cardinality(peers) \in Nat
  BY KeysCount, FS_CardinalityType
<1>2. /\ Extends(new, entry, peers, keys, falsely)
      /\ Len(new) = IF Cardinality(peers) < size + 1 THEN Cardinality(peers) ELSE size + 1
  <2>1. Len(entry) <= size + 1
    BY <1>1
  <2>2. QED
    BY <2>1, WithNodesFacts
<1>3. after = IF Len(new) > size THEN SubSeq(new, Len(new) - size + 1, Len(new)) ELSE new
  BY DEF RotateEntry, DropOldest
<1> HIDE DEF new, after
<1>4. CASE Cardinality(peers) <= size
  <2>1. Len(new) = Cardinality(peers)
    BY <1>1, <1>2, <1>4
  <2>2. after = new
    BY <1>1, <1>3, <1>4, <2>1
  <2>3. QED
    BY <1>2, <1>4, <2>1, <2>2 DEF Rotated, after
<1>5. CASE Cardinality(peers) > size
  <2>1. Len(new) = size + 1
    BY <1>1, <1>2, <1>5
  <2>2. after = SubSeq(new, 2, size + 1)
    <3>1. size + 1 > size /\ (size + 1) - size + 1 = 2
      OBVIOUS
    <3>2. QED
      BY <1>3, <2>1, <3>1
  <2>3. /\ after \in Seq(ItemsOf(peers, keys))
        /\ Len(after) = IF 2 <= size + 1 THEN (size + 1) - 2 + 1 ELSE 0
        /\ \A i \in 1..((size + 1) - 2 + 1) : after[i] = new[2 + i - 1]
    <3>1. \A i \in 2..(size + 1) : new[i] \in ItemsOf(peers, keys)
      <4>1. new \in Seq(ItemsOf(peers, keys))
        BY <1>2 DEF Extends, IsPeerEntry
      <4>2. \A i \in 1..(size + 1) : new[i] \in ItemsOf(peers, keys)
        BY <2>1, <4>1, SeqFacts
      <4>3. QED
        BY <4>2
    <3>2. 2 \in Int /\ size + 1 \in Int
      OBVIOUS
    <3>3. QED
      BY <2>2, <3>1, <3>2, SubSeqProperties
  <2>4. /\ (size + 1) - 2 + 1 = size
        /\ (IF 2 <= size + 1 THEN (size + 1) - 2 + 1 ELSE 0) = size
        /\ \A i \in Nat : 2 + i - 1 = i + 1
    OBVIOUS
  <2>5. Len(after) = size /\ \A i \in 1..size : after[i] = new[i + 1]
    BY <2>3, <2>4
  <2>6. QED
    BY <1>2, <1>5, <2>1, <2>3, <2>5 DEF Rotated, after
<1>6. QED
  BY <1>1, <1>4, <1>5

\* An entry after a rotation: each item is an old one or a new one, its node
\* is there once, and its length is fixed.
LEMMA AfterRotation ==
  ASSUME NEW peers, Cardinality(peers) \in Nat, NEW keys, NEW size \in Nat,
         NEW after, NEW entry, IsPeerEntry(entry, peers, keys), NEW falsely,
         Rotated(after, entry, peers, keys, size, falsely)
  PROVE  /\ after \in Seq(ItemsOf(peers, keys))
         /\ Len(after) = IF Cardinality(peers) <= size THEN Cardinality(peers) ELSE size
         /\ \A i, j \in 1..Len(after) : after[i].node = after[j].node => i = j
         /\ \A i \in 1..Len(after) :
              \/ \E j \in 1..Len(entry) : after[i] = entry[j]
              \/ after[i] = NewItem(after[i].node, falsely) /\ after[i].node \notin KeysOf(entry)
<1>1. PICK new :
        /\ Extends(new, entry, peers, keys, falsely)
        /\ \/ after = new /\ Len(new) = Cardinality(peers) /\ Cardinality(peers) <= size
           \/ /\ Len(new) = size + 1 /\ Cardinality(peers) > size
              /\ after \in Seq(ItemsOf(peers, keys)) /\ Len(after) = size
              /\ \A i \in 1..size : after[i] = new[i + 1]
  BY DEF Rotated
<1>2. /\ new \in Seq(ItemsOf(peers, keys))
      /\ \A i, j \in 1..Len(new) : new[i].node = new[j].node => i = j
  BY <1>1 DEF Extends, IsPeerEntry
<1>3. Len(new) \in Nat /\ Len(entry) \in Nat /\ size \in Nat /\ Cardinality(peers) \in Nat
  <2>1. Len(entry) \in Nat
    BY KeysCount
  <2>2. QED
    BY <1>2, <2>1, SeqFacts
<1>4. \A i \in 1..Len(new) :
        \/ \E j \in 1..Len(entry) : new[i] = entry[j]
        \/ new[i] = NewItem(new[i].node, falsely) /\ new[i].node \notin KeysOf(entry)
  <2> SUFFICES ASSUME NEW i \in 1..Len(new)
               PROVE  \/ \E j \in 1..Len(entry) : new[i] = entry[j]
                      \/ new[i] = NewItem(new[i].node, falsely) /\ new[i].node \notin KeysOf(entry)
    OBVIOUS
  <2>1. i \in 1..Len(entry) \/ i \in (Len(entry) + 1)..Len(new)
    BY <1>3
  <2>2. QED
    BY <1>1, <2>1 DEF Extends
<1>5. CASE after = new /\ Len(new) = Cardinality(peers) /\ Cardinality(peers) <= size
  BY <1>2, <1>3, <1>4, <1>5
<1>6. CASE /\ Len(new) = size + 1 /\ Cardinality(peers) > size
           /\ after \in Seq(ItemsOf(peers, keys)) /\ Len(after) = size
           /\ \A i \in 1..size : after[i] = new[i + 1]
  <2>1. \A i \in 1..size : i + 1 \in 1..Len(new)
    BY <1>3, <1>6
  <2>2. \A i, j \in 1..size : after[i].node = after[j].node => i = j
    <3> SUFFICES ASSUME NEW i \in 1..size, NEW j \in 1..size, after[i].node = after[j].node PROVE i = j
      OBVIOUS
    <3>1. new[i + 1].node = new[j + 1].node
      BY <1>6
    <3>2. i + 1 = j + 1
      BY <1>2, <2>1, <3>1
    <3>3. QED
      BY <1>3, <3>2
  <2>3. \A i \in 1..size :
          \/ \E j \in 1..Len(entry) : after[i] = entry[j]
          \/ after[i] = NewItem(after[i].node, falsely) /\ after[i].node \notin KeysOf(entry)
    BY <1>4, <1>6, <2>1
  <2>4. Len(after) = IF Cardinality(peers) <= size THEN Cardinality(peers) ELSE size
    BY <1>3, <1>6
  <2>5. QED
    BY <1>6, <2>2, <2>3, <2>4
<1>7. QED
  BY <1>1, <1>5, <1>6

\* An entry with the filters of some peers grown.
Grown(after, entry, pruners, origins, falsely, peers, keys) ==
  /\ after \in Seq(ItemsOf(peers, keys))
  /\ Len(after) = Len(entry) /\ KeysOf(after) = KeysOf(entry)
  /\ \A i \in 1..Len(entry) :
       /\ after[i].node = entry[i].node
       /\ after[i].filter = IF entry[i].node \in pruners /\ origins # {}
                            THEN entry[i].filter \cup origins \cup falsely ELSE entry[i].filter

\* A prune message changes filters, and those of its pruners alone.
LEMMA PruneEntryFacts ==
  ASSUME NEW peers, NEW keys, NEW entry \in Seq(ItemsOf(peers, keys)), NEW pruners, NEW origins \in SUBSET keys,
         NEW falsely \in SUBSET keys
  PROVE  Grown(PruneEntry(entry, pruners, origins, falsely), entry, pruners, origins, falsely, peers, keys)
<1> DEFINE after == PruneEntry(entry, pruners, origins, falsely)
<1>1. /\ DOMAIN entry = 1..Len(entry) /\ Len(entry) \in Nat
      /\ \A i \in 1..Len(entry) : entry[i] \in ItemsOf(peers, keys)
  BY SeqFacts
<1>2. after = [i \in 1..Len(entry) |->
                 IF entry[i].node \in pruners /\ origins # {}
                 THEN PeerItem(entry[i].node, AddToFilter(entry[i].filter, origins, falsely))
                 ELSE entry[i]]
  BY <1>1 DEF PruneEntry
<1>3. \A i \in 1..Len(entry) :
        /\ after[i].node = entry[i].node
        /\ after[i].filter = IF entry[i].node \in pruners /\ origins # {}
                             THEN entry[i].filter \cup origins \cup falsely ELSE entry[i].filter
        /\ after[i] \in ItemsOf(peers, keys)
  <2> TAKE i \in 1..Len(entry)
  <2>1. CASE entry[i].node \in pruners /\ origins # {}
    <3>1. after[i] = [node |-> entry[i].node, filter |-> entry[i].filter \cup origins \cup falsely]
      BY <1>2, <2>1 DEF PeerItem, AddToFilter
    <3>2. entry[i].node \in peers /\ entry[i].filter \in SUBSET keys
      BY <1>1 DEF ItemsOf
    <3> DEFINE n == entry[i].node
               f == entry[i].filter \cup origins \cup falsely
               new == after[i]
    <3>3. n \in peers /\ f \in SUBSET keys /\ new = [node |-> n, filter |-> f]
      BY <3>1, <3>2
    <3> HIDE DEF n, f, new
    <3>4. new \in ItemsOf(peers, keys) /\ new.node = n /\ new.filter = f
      BY <3>3 DEF ItemsOf
    <3>5. /\ after[i] \in ItemsOf(peers, keys) /\ after[i].node = entry[i].node
          /\ after[i].filter = entry[i].filter \cup origins \cup falsely
      BY <3>4 DEF n, f, new
    <3>6. QED
      BY <2>1, <3>5
  <2>2. CASE ~(entry[i].node \in pruners /\ origins # {})
    <3>1. after[i] = entry[i]
      BY <1>2, <2>2
    <3>2. QED
      BY <1>1, <2>2, <3>1
  <2>3. QED
    BY <2>1, <2>2
<1>4. DOMAIN after = 1..Len(entry)
  BY <1>2
<1> HIDE DEF after
<1>5. after \in Seq(ItemsOf(peers, keys)) /\ Len(after) = Len(entry)
  <2>1. after \in [1..Len(entry) -> ItemsOf(peers, keys)]
    BY <1>2, <1>3
  <2>2. after \in Seq(ItemsOf(peers, keys))
    BY <1>1, <2>1, SeqDef
  <2>3. Len(after) = Len(entry)
    <3>1. DOMAIN after = 1..Len(after) /\ Len(after) \in Nat
      BY <2>2, SeqFacts
    <3>2. \A n, m \in Nat : 1..n = 1..m => n = m
      OBVIOUS
    <3>3. QED
      BY <1>1, <1>4, <3>1, <3>2
  <2>4. QED
    BY <2>2, <2>3
<1>6. KeysOf(after) = KeysOf(entry)
  BY <1>1, <1>3, <1>4 DEF KeysOf
<1>7. QED
  BY <1>3, <1>5, <1>6 DEF Grown, after

-----------------------------------------------------------------------------
(* The prune of an entry of the received cache.                            *)

\* A ranking lists every sender once.
LEMMA RankingFacts ==
  ASSUME NEW e, IsFiniteSet(SendersOf(e)), NEW stakes, NEW r \in Rankings(e, stakes)
  PROVE  /\ Cardinality(SendersOf(e)) \in Nat
         /\ r \in [1..Cardinality(SendersOf(e)) -> SendersOf(e)]
         /\ \A i, j \in 1..Cardinality(SendersOf(e)) : r[i] = r[j] => i = j
         /\ \A n \in SendersOf(e) : \E i \in 1..Cardinality(SendersOf(e)) : r[i] = n
         /\ \A i, j \in 1..Cardinality(SendersOf(e)) : i < j => Before(e, stakes, r[i], r[j])
<1> DEFINE S == SendersOf(e)
<1>1. r \in SetToSeqs(S) /\ \A i, j \in DOMAIN r : i < j => Before(e, stakes, r[i], r[j])
  BY DEF Rankings
<1> HIDE DEF S
<1>2. /\ Cardinality(S) \in Nat /\ r \in [1..Cardinality(S) -> S]
      /\ \A i, j \in 1..Cardinality(S) : r[i] = r[j] => i = j
      /\ \A n \in S : \E i \in 1..Cardinality(S) : r[i] = n
  BY <1>1, ListingFacts DEF S
<1>3. QED
  BY <1>1, <1>2 DEF S

\* Only senders are cut.
LEMMA CutSenders ==
  ASSUME NEW e, IsFiniteSet(SendersOf(e)), NEW stakes, NEW node, NEW origin, NEW pct, NEW minNodes,
         NEW cut \in PruneOutcomes(e, stakes, node, origin, pct, minNodes)
  PROVE  cut \subseteq SendersOf(e)
<1>1. PICK r \in Rankings(e, stakes) :
        cut = Cut(stakes, r, minNodes, MinIngressStake(stakes, node, origin, pct))
  BY DEF PruneOutcomes
<1>2. r \in [1..Cardinality(SendersOf(e)) -> SendersOf(e)]
  BY RankingFacts
<1>3. QED
  BY <1>1, <1>2 DEF Cut

\* The first places of a ranking are not cut: not those whom fewer than the
\* minimum outscore, and if anyone is cut, the minimum is left.
LEMMA CutSpares ==
  ASSUME NEW e, IsFiniteSet(SendersOf(e)), e.scores \in [SendersOf(e) -> Nat],
         NEW stakes, NEW node, NEW origin, NEW pct, NEW minNodes \in Nat,
         NEW cut \in PruneOutcomes(e, stakes, node, origin, pct, minNodes)
  PROVE  /\ cut # {} => Cardinality(SendersOf(e) \ cut) >= minNodes
         /\ \A f \in SendersOf(e) :
              Cardinality({s \in SendersOf(e) : e.scores[s] >= e.scores[f]}) <= minNodes => f \notin cut
<1> DEFINE N == Cardinality(SendersOf(e))
           minStake == MinIngressStake(stakes, node, origin, pct)
<1>1. PICK r \in Rankings(e, stakes) : cut = Cut(stakes, r, minNodes, minStake)
  BY DEF PruneOutcomes
<1>2. /\ N \in Nat /\ r \in [1..N -> SendersOf(e)]
      /\ \A i, j \in 1..N : r[i] = r[j] => i = j
      /\ \A n \in SendersOf(e) : \E i \in 1..N : r[i] = n
      /\ \A i, j \in 1..N : i < j => Before(e, stakes, r[i], r[j])
  BY RankingFacts
<1> HIDE DEF N, minStake
<1>3. \A s \in cut : \E i \in 1..N : s = r[i] /\ i > minNodes
  BY <1>1, <1>2 DEF Cut
<1>4. ASSUME NEW k \in Nat, k <= N
      PROVE  Cardinality({r[i] : i \in 1..k}) = k /\ IsFiniteSet({r[i] : i \in 1..k})
  <2> DEFINE D == 1..k
  <2>1. IsFiniteSet(D) /\ Cardinality(D) = k
    BY FS_Interval
  <2>2. \A i, j \in D : r[i] = r[j] => i = j
    BY <1>2, <1>4
  <2> HIDE DEF D
  <2>3. Cardinality({r[i] : i \in D}) = k /\ IsFiniteSet({r[i] : i \in D})
    BY <2>1, <2>2, FiniteImage
  <2>4. QED
    BY <2>3 DEF D
<1>5. ASSUME cut # {} PROVE Cardinality(SendersOf(e) \ cut) >= minNodes
  <2> DEFINE best == {r[i] : i \in 1..minNodes}
             left == SendersOf(e) \ cut
  <2>1. minNodes <= N
    BY <1>2, <1>3, <1>5
  <2>2. best \subseteq left
    <3> SUFFICES ASSUME NEW i \in 1..minNodes PROVE r[i] \in left
      OBVIOUS
    <3>1. i \in 1..N /\ ~(i > minNodes)
      BY <1>2, <2>1
    <3>2. r[i] \notin cut
      BY <1>2, <1>3, <3>1
    <3>3. QED
      BY <1>2, <3>1, <3>2
  <2>3. IsFiniteSet(left)
    BY FS_Subset
  <2>4. Cardinality(best) = minNodes
    BY <1>4, <2>1
  <2> HIDE DEF best, left
  <2>5. Cardinality(best) <= Cardinality(left) /\ Cardinality(left) \in Nat
    BY <2>2, <2>3, FS_Subset, FS_CardinalityType
  <2>6. QED
    BY <2>4, <2>5 DEF left
<1>6. ASSUME NEW f \in SendersOf(e), f \in cut,
             Cardinality({s \in SendersOf(e) : e.scores[s] >= e.scores[f]}) <= minNodes
      PROVE  FALSE
  <2> DEFINE scored == {s \in SendersOf(e) : e.scores[s] >= e.scores[f]}
  <2>1. PICK k \in 1..N : f = r[k] /\ k > minNodes
    BY <1>3, <1>6
  <2> DEFINE best == {r[i] : i \in 1..k}
  <2>2. best \subseteq scored
    <3> SUFFICES ASSUME NEW i \in 1..k PROVE r[i] \in scored
      OBVIOUS
    <3>1. i \in 1..N /\ (i = k \/ i < k)
      BY <1>2, <2>1
    <3>2. r[i] \in SendersOf(e) /\ e.scores[r[i]] \in Nat /\ e.scores[f] \in Nat
      BY <1>2, <3>1
    <3>3. e.scores[r[i]] >= e.scores[f]
      <4>1. CASE i = k
        BY <2>1, <3>2, <4>1
      <4>2. CASE i < k
        <5>1. Before(e, stakes, r[i], f)
          BY <1>2, <2>1, <3>1, <4>2
        <5>2. QED
          BY <3>2, <5>1 DEF Before
      <4>3. QED
        BY <3>1, <4>1, <4>2
    <3>4. QED
      BY <3>2, <3>3
  <2>3. IsFiniteSet(scored)
    BY FS_Subset
  <2>4. Cardinality(best) = k
    <3>1. k \in Nat /\ k <= N
      BY <1>2, <2>1
    <3>2. QED
      BY <1>4, <3>1
  <2> HIDE DEF best
  <2>5. Cardinality(best) <= Cardinality(scored) /\ Cardinality(scored) \in Nat
    <3> HIDE DEF scored
    <3> QED
      BY <2>2, <2>3, FS_Subset, FS_CardinalityType
  <2>6. Cardinality(scored) <= minNodes
    BY <1>6
  <2> HIDE DEF scored
  <2>7. QED
    BY <1>2, <2>1, <2>4, <2>5, <2>6
<1>7. QED
  BY <1>5, <1>6

-----------------------------------------------------------------------------
(* The records of one message.                                             *)

CacheEntries(nodes) == [scores : UNION {[D -> Nat] : D \in SUBSET nodes}, upserts : Nat]

\* They are the entries of senders among the nodes.
LEMMA EntriesAre == ASSUME NEW nodes, NEW e PROVE IsCacheEntry(e, nodes) <=> e \in CacheEntries(nodes)
<1>1. ASSUME IsCacheEntry(e, nodes) PROVE e \in CacheEntries(nodes)
  <2>1. e.scores \in UNION {[D -> Nat] : D \in SUBSET nodes}
    BY <1>1 DEF IsCacheEntry
  <2>2. QED
    BY <1>1, <2>1 DEF IsCacheEntry, CacheEntries
<1>2. ASSUME e \in CacheEntries(nodes) PROVE IsCacheEntry(e, nodes)
  <2>1. PICK D \in SUBSET nodes : e.scores \in [D -> Nat]
    BY <1>2 DEF CacheEntries
  <2>2. e = [scores |-> e.scores, upserts |-> e.upserts] /\ e.upserts \in Nat
    BY <1>2 DEF CacheEntries
  <2>3. QED
    BY <2>1, <2>2 DEF IsCacheEntry, SendersOf
<1>3. QED
  BY <1>1, <1>2

\* A record leaves an entry an entry.
LEMMA RecordEntryType ==
  ASSUME NEW nodes, NEW e, IsCacheEntry(e, nodes), NEW node \in nodes, NEW numDups \in Nat
  PROVE  IsCacheEntry(RecordEntry(e, node, numDups), nodes)
<1> DEFINE new == RecordEntry(e, node, numDups)
<1>1. \A by \in {0, 1} :
         /\ DOMAIN AddScore(e.scores, node, by) \subseteq nodes
         /\ AddScore(e.scores, node, by) \in [DOMAIN AddScore(e.scores, node, by) -> Nat]
  BY DEF IsCacheEntry, AddScore, SendersOf
<1>2. /\ DOMAIN new.scores \subseteq nodes
      /\ new.scores \in [DOMAIN new.scores -> Nat]
  BY <1>1 DEF RecordEntry, IsCacheEntry, SendersOf
<1>3. new.upserts \in Nat
  BY DEF RecordEntry, IsCacheEntry
<1>4. new = [scores |-> new.scores, upserts |-> new.upserts]
  BY DEF RecordEntry
<1>5. IsCacheEntry(new, nodes)
  <2> HIDE DEF new
  <2> QED
    BY <1>2, <1>3, <1>4 DEF IsCacheEntry, SendersOf
<1>6. QED
  BY <1>5

\* The entries after each of the records of one message.
IsRecording(g, e, arrivals, nodes) ==
  /\ g[0] = e
  /\ \A i \in 0..Len(arrivals) : IsCacheEntry(g[i], nodes)
  /\ \A i \in 1..Len(arrivals) : g[i] = RecordEntry(g[i - 1], arrivals[i], i - 1)

\* RecordAll satisfies its recursion equation.
LEMMA RecordAllIs ==
  ASSUME NEW nodes, NEW e, IsCacheEntry(e, nodes), NEW arrivals, Len(arrivals) \in Nat,
         \A i \in 1..Len(arrivals) : arrivals[i] \in nodes
  PROVE  \E g : IsRecording(g, e, arrivals, nodes) /\ RecordAll(e, arrivals) = g[Len(arrivals)]
<1> DEFINE N == Len(arrivals)
           Step(i, x) == RecordEntry(x, arrivals[i], i - 1)
           F == [i \in 1..N |-> [x \in CacheEntries(nodes) |-> Step(i, x)]]
<1>1. \A i \in 1..N : \A x \in CacheEntries(nodes) : Step(i, x) \in CacheEntries(nodes)
  <2> TAKE i \in 1..N
  <2> TAKE x \in CacheEntries(nodes)
  <2>1. IsCacheEntry(x, nodes) /\ arrivals[i] \in nodes /\ i - 1 \in Nat
    BY EntriesAre
  <2>2. QED
    BY <2>1, RecordEntryType, EntriesAre
<1>2. F \in StepsOn(N, CacheEntries(nodes)) /\ e \in CacheEntries(nodes)
  <2>1. e \in CacheEntries(nodes)
    BY EntriesAre
  <2>2. QED
    BY <1>1, <2>1 DEF StepsOn
<1>3. PICK f : IsRun(f, N, CacheEntries(nodes), e, F)
  <2> HIDE DEF N, F
  <2> QED
    BY <1>2, NatRecursion DEF N
<1>4. f \in [0..N -> CacheEntries(nodes)] /\ f[0] = e /\ \A k \in 1..N : f[k] = F[k][f[k - 1]]
  BY <1>3 DEF IsRun
<1>5. \A k \in 1..N : f[k] = Step(k, f[k - 1])
  <2> SUFFICES ASSUME NEW k \in 1..N PROVE f[k] = Step(k, f[k - 1])
    OBVIOUS
  <2>1. k - 1 \in 0..N
    OBVIOUS
  <2>2. f[k - 1] \in CacheEntries(nodes)
    BY <1>4, <2>1
  <2>3. F[k][f[k - 1]] = Step(k, f[k - 1])
    BY <2>2
  <2>4. QED
    BY <1>4, <2>3
<1>6. f = [k \in 0..N |-> IF k = 0 THEN e ELSE Step(k, f[k - 1])]
  <2> DEFINE g == [k \in 0..N |-> IF k = 0 THEN e ELSE Step(k, f[k - 1])]
  <2>1. \A k \in 0..N : k # 0 => k \in 1..N
    OBVIOUS
  <2>2. \A k \in 0..N : f[k] = g[k]
    <3> HIDE DEF Step, N
    <3> QED
      BY <1>4, <1>5, <2>1
  <2>3. QED
    <3> HIDE DEF Step, N
    <3> QED
      BY <1>4, <2>2
<1> DEFINE Equation(g) == g = [k \in 0..N |-> IF k = 0 THEN e ELSE Step(k, g[k - 1])]
           B == CHOOSE g : Equation(g)
<1>7. RecordAll(e, arrivals) = B[N]
  BY DEF RecordAll
<1>8. Equation(B)
  <2>1. Equation(f)
    BY <1>6
  <2> HIDE DEF Equation
  <2>2. QED
    BY <2>1
<1>9. B = f
  <2> DEFINE Bad == {k \in 0..N : B[k] # f[k]}
  <2>1. SUFFICES ASSUME Bad # {} PROVE FALSE
    <3> HIDE DEF B, Step, N
    <3> QED
      BY <1>4, <1>8, <2>1
  <2> HIDE DEF B, Step
  <2>2. PICK k \in Bad : \A j \in Bad : k <= j
    <3>1. Bad \in SUBSET Nat
      OBVIOUS
    <3> HIDE DEF Bad
    <3>2. QED
      BY <2>1, <3>1, LeastNatural
  <2>3. k # 0
    BY <1>4, <1>8
  <2>4. k \in 1..N /\ k - 1 \in 0..N /\ ~(k <= k - 1)
    BY <2>3
  <2>5. B[k - 1] = f[k - 1]
    BY <2>2, <2>4
  <2>6. QED
    BY <1>6, <1>8, <2>4, <2>5
<1>10. IsRecording(f, e, arrivals, nodes)
  <2>1. \A i \in 0..N : IsCacheEntry(f[i], nodes)
    BY <1>4, EntriesAre
  <2>2. QED
    BY <1>4, <1>5, <2>1 DEF IsRecording
<1>11. QED
  BY <1>7, <1>9, <1>10

\* A fresh entry has no senders.
LEMMA EmptyEntryIs ==
  /\ \A nodes : IsCacheEntry(EmptyEntry, nodes)
  /\ SendersOf(EmptyEntry) = {} /\ EmptyEntry.upserts = 0
<1> DEFINE none == <<>>
<1>1. DOMAIN none = {} /\ none \in [{} -> Nat]
  OBVIOUS
<1> HIDE DEF none
<1>2. EmptyEntry = [scores |-> none, upserts |-> 0]
  BY DEF EmptyEntry, none
<1>3. SendersOf(EmptyEntry) = {} /\ EmptyEntry.scores = none /\ EmptyEntry.upserts = 0
  BY <1>1, <1>2 DEF SendersOf
<1>4. QED
  BY <1>1, <1>2, <1>3 DEF IsCacheEntry

\* A message counts once, if a copy of it came.
LEMMA RecordAllCounts ==
  ASSUME NEW nodes, NEW e, IsCacheEntry(e, nodes), NEW arrivals, Len(arrivals) \in Nat,
         \A i \in 1..Len(arrivals) : arrivals[i] \in nodes
  PROVE  /\ IsCacheEntry(RecordAll(e, arrivals), nodes)
         /\ RecordAll(e, arrivals).upserts = IF Len(arrivals) = 0 THEN e.upserts ELSE e.upserts + 1
<1> DEFINE N == Len(arrivals)
<1>1. PICK g : IsRecording(g, e, arrivals, nodes) /\ RecordAll(e, arrivals) = g[N]
  BY RecordAllIs
<1>2. /\ g[0] = e /\ \A i \in 0..N : IsCacheEntry(g[i], nodes)
      /\ \A i \in 1..N : g[i] = RecordEntry(g[i - 1], arrivals[i], i - 1)
  BY <1>1 DEF IsRecording
<1> DEFINE Bad == {i \in 0..N : g[i].upserts # IF i = 0 THEN e.upserts ELSE e.upserts + 1}
<1>3. Bad = {}
  <2> SUFFICES ASSUME Bad # {} PROVE FALSE
    OBVIOUS
  <2>1. PICK i \in Bad : \A j \in Bad : i <= j
    <3>1. Bad \in SUBSET Nat
      OBVIOUS
    <3> HIDE DEF Bad
    <3>2. QED
      BY <3>1, LeastNatural
  <2>2. i # 0
    BY <1>2, <2>1
  <2>3. i \in 1..N /\ i - 1 \in 0..N /\ ~(i <= i - 1)
    BY <2>1, <2>2
  <2>4. g[i - 1].upserts = IF i - 1 = 0 THEN e.upserts ELSE e.upserts + 1
    BY <2>1, <2>3
  <2>5. g[i].upserts = IF i - 1 = 0 THEN g[i - 1].upserts + 1 ELSE g[i - 1].upserts
    <3>1. g[i] = RecordEntry(g[i - 1], arrivals[i], i - 1)
      BY <1>2, <2>3
    <3> DEFINE old == g[i - 1]
    <3>2. RecordEntry(old, arrivals[i], i - 1).upserts
            = IF i - 1 = 0 THEN old.upserts + 1 ELSE old.upserts
      <4> HIDE DEF old
      <4> QED
        BY DEF RecordEntry
    <3>3. QED
      BY <3>1, <3>2
  <2>6. g[i].upserts # e.upserts + 1
    BY <2>1, <2>2
  <2>7. QED
    BY <2>4, <2>5, <2>6
<1>4. N \in 0..N
  OBVIOUS
<1>5. QED
  BY <1>1, <1>2, <1>3, <1>4

\* What the first i copies of a message do to an entry's scores: they add none
\* but their senders, score none but those among the first NumDupsThreshold,
\* and the first of them for certain.
IsScored(new, i, e, arrivals) ==
  /\ SendersOf(e) \subseteq SendersOf(new)
  /\ \A s \in SendersOf(e) : e.scores[s] <= new.scores[s]
  /\ \A s \in SendersOf(new) : s \in SendersOf(e) \/ \E j \in 1..i : s = arrivals[j]
  /\ \A s \in SendersOf(new) : new.scores[s] > 0 =>
       \/ s \in SendersOf(e) /\ e.scores[s] > 0
       \/ \E j \in 1..i : j <= NumDupsThreshold /\ s = arrivals[j]
  /\ i > 0 => arrivals[1] \in SendersOf(new) /\ new.scores[arrivals[1]] > 0

\* One copy more.
LEMMA ScoredNext ==
  ASSUME NEW nodes, NEW e, IsCacheEntry(e, nodes), NEW x, IsCacheEntry(x, nodes),
         NEW arrivals, NEW i \in Nat, i # 0, arrivals[i] \in nodes, IsScored(x, i - 1, e, arrivals)
  PROVE  IsScored(RecordEntry(x, arrivals[i], i - 1), i, e, arrivals)
<1> DEFINE new == RecordEntry(x, arrivals[i], i - 1)
           a == arrivals[i]
           by == IF i - 1 < NumDupsThreshold THEN 1 ELSE 0
<1>1. /\ SendersOf(e) \subseteq SendersOf(x)
      /\ \A s \in SendersOf(e) : e.scores[s] <= x.scores[s]
      /\ \A s \in SendersOf(x) : s \in SendersOf(e) \/ \E j \in 1..(i - 1) : s = arrivals[j]
      /\ \A s \in SendersOf(x) : x.scores[s] > 0 =>
           \/ s \in SendersOf(e) /\ e.scores[s] > 0
           \/ \E j \in 1..(i - 1) : j <= NumDupsThreshold /\ s = arrivals[j]
      /\ i - 1 > 0 => arrivals[1] \in SendersOf(x) /\ x.scores[arrivals[1]] > 0
  BY DEF IsScored
<1>2. /\ \A s \in SendersOf(e) : e.scores[s] \in Nat
      /\ \A s \in SendersOf(x) : x.scores[s] \in Nat
      /\ NumDupsThreshold \in Nat /\ NumDupsThreshold # 0
  BY CacheEntryAssumption DEF IsCacheEntry
<1>3. \/ new.scores = x.scores /\ ~(i - 1 < NumDupsThreshold)
      \/ /\ SendersOf(new) = SendersOf(x) \cup {a}
         /\ \A s \in SendersOf(new) :
              new.scores[s] = (IF s \in SendersOf(x) THEN x.scores[s] ELSE 0) + (IF s = a THEN by ELSE 0)
  <2>1. new.scores = IF i - 1 < NumDupsThreshold THEN AddScore(x.scores, a, 1)
                     ELSE IF Cardinality(SendersOf(x)) < Capacity THEN AddScore(x.scores, a, 0)
                     ELSE x.scores
    BY DEF RecordEntry
  <2>2. \/ new.scores = AddScore(x.scores, a, by)
        \/ new.scores = x.scores /\ ~(i - 1 < NumDupsThreshold)
    BY <2>1
  <2> HIDE DEF new, a, by
  <2>3. ASSUME new.scores = AddScore(x.scores, a, by)
        PROVE  /\ SendersOf(new) = SendersOf(x) \cup {a}
               /\ \A s \in SendersOf(new) :
                    new.scores[s] = (IF s \in SendersOf(x) THEN x.scores[s] ELSE 0) + (IF s = a THEN by ELSE 0)
    BY <2>3 DEF AddScore, SendersOf
  <2>4. QED
    BY <2>2, <2>3
<1>4. by \in {0, 1} /\ (by = 1 <=> i <= NumDupsThreshold) /\ (i = 1 => by = 1)
  BY <1>2
<1>5. \A j \in 1..(i - 1) : j \in 1..i
  OBVIOUS
<1>6. i \in 1..i /\ (i - 1 > 0 \/ i = 1)
  OBVIOUS
<1> HIDE DEF new, by
<1>7. CASE new.scores = x.scores /\ ~(i - 1 < NumDupsThreshold)
  <2>1. SendersOf(new) = SendersOf(x) /\ i - 1 > 0
    BY <1>2, <1>7 DEF SendersOf
  <2>2. IsScored(new, i, e, arrivals)
    BY <1>1, <1>5, <1>7, <2>1 DEF IsScored
  <2>3. QED
    BY <2>2 DEF new
<1>8. CASE /\ SendersOf(new) = SendersOf(x) \cup {a}
           /\ \A s \in SendersOf(new) :
                new.scores[s] = (IF s \in SendersOf(x) THEN x.scores[s] ELSE 0) + (IF s = a THEN by ELSE 0)
  <2>1. SendersOf(e) \subseteq SendersOf(new)
    BY <1>1, <1>8
  <2>2. \A s \in SendersOf(e) : e.scores[s] <= new.scores[s]
    <3> SUFFICES ASSUME NEW s \in SendersOf(e) PROVE e.scores[s] <= new.scores[s]
      OBVIOUS
    <3>1. s \in SendersOf(x) /\ s \in SendersOf(new) /\ e.scores[s] <= x.scores[s]
          /\ e.scores[s] \in Nat /\ x.scores[s] \in Nat
      BY <1>1, <1>2, <2>1
    <3>2. QED
      BY <1>4, <1>8, <3>1
  <2>3. \A s \in SendersOf(new) : s \in SendersOf(e) \/ \E j \in 1..i : s = arrivals[j]
    BY <1>1, <1>5, <1>6, <1>8
  <2>4. ASSUME NEW s \in SendersOf(new), new.scores[s] > 0
        PROVE  \/ s \in SendersOf(e) /\ e.scores[s] > 0
               \/ \E j \in 1..i : j <= NumDupsThreshold /\ s = arrivals[j]
    <3>1. CASE s = a /\ by = 1
      BY <1>4, <1>6, <3>1
    <3>2. CASE ~(s = a /\ by = 1)
      <4>1. s \in SendersOf(x) /\ x.scores[s] > 0
        BY <1>2, <1>4, <1>8, <2>4, <3>2
      <4>2. QED
        BY <1>1, <1>5, <4>1
    <3>3. QED
      BY <3>1, <3>2
  <2>5. arrivals[1] \in SendersOf(new) /\ new.scores[arrivals[1]] > 0
    <3> DEFINE b == arrivals[1]
    <3>1. CASE i = 1
      <4>1. b = a /\ b \in SendersOf(new) /\ by = 1
        BY <1>4, <1>8, <3>1
      <4> HIDE DEF a, b
      <4>2. new.scores[b] = (IF b \in SendersOf(x) THEN x.scores[b] ELSE 0) + 1
        BY <1>8, <4>1
      <4>3. new.scores[b] > 0
        BY <1>2, <4>2
      <4>4. QED
        BY <4>1, <4>3 DEF b
    <3>2. CASE i # 1
      <4>1. b \in SendersOf(x) /\ x.scores[b] > 0 /\ x.scores[b] \in Nat
        BY <1>1, <1>2, <1>6, <3>2
      <4> HIDE DEF a, b
      <4>2. b \in SendersOf(new) /\ new.scores[b] = x.scores[b] + (IF b = a THEN by ELSE 0)
        BY <1>8, <4>1
      <4>3. new.scores[b] > 0
        BY <1>4, <4>1, <4>2
      <4>4. QED
        BY <4>2, <4>3 DEF b
    <3>3. QED
      BY <3>1, <3>2
  <2>6. IsScored(new, i, e, arrivals)
    BY <2>1, <2>2, <2>3, <2>4, <2>5 DEF IsScored
  <2>7. QED
    BY <2>6 DEF new
<1>9. QED
  BY <1>3, <1>7, <1>8

\* All of them.
LEMMA RecordAllScores ==
  ASSUME NEW nodes, NEW e, IsCacheEntry(e, nodes), NEW arrivals, Len(arrivals) \in Nat,
         \A i \in 1..Len(arrivals) : arrivals[i] \in nodes
  PROVE  IsScored(RecordAll(e, arrivals), Len(arrivals), e, arrivals)
<1> DEFINE N == Len(arrivals)
<1>1. PICK g : IsRecording(g, e, arrivals, nodes) /\ RecordAll(e, arrivals) = g[N]
  BY RecordAllIs
<1>2. /\ g[0] = e /\ \A i \in 0..N : IsCacheEntry(g[i], nodes)
      /\ \A i \in 1..N : g[i] = RecordEntry(g[i - 1], arrivals[i], i - 1)
  BY <1>1 DEF IsRecording
<1> DEFINE Bad == {i \in 0..N : ~IsScored(g[i], i, e, arrivals)}
<1>3. Bad = {}
  <2> SUFFICES ASSUME Bad # {} PROVE FALSE
    OBVIOUS
  <2>1. PICK i \in Bad : \A j \in Bad : i <= j
    <3>1. Bad \in SUBSET Nat
      OBVIOUS
    <3> HIDE DEF Bad
    <3>2. QED
      BY <3>1, LeastNatural
  <2>2. i # 0
    <3>1. IsScored(e, 0, e, arrivals)
      <4>1. \A s \in SendersOf(e) : e.scores[s] <= e.scores[s]
        BY DEF IsCacheEntry
      <4>2. QED
        BY <4>1 DEF IsScored
    <3>2. QED
      BY <1>2, <2>1, <3>1
  <2>3. i \in 1..N /\ i - 1 \in 0..N /\ ~(i <= i - 1)
    BY <2>1, <2>2
  <2> DEFINE x == g[i - 1]
  <2>4. IsScored(x, i - 1, e, arrivals) /\ IsCacheEntry(x, nodes)
    BY <1>2, <2>1, <2>3
  <2>5. g[i] = RecordEntry(x, arrivals[i], i - 1)
    BY <1>2, <2>3
  <2>6. IsScored(g[i], i, e, arrivals)
    <3>1. i \in Nat /\ arrivals[i] \in nodes
      BY <2>3
    <3> HIDE DEF x
    <3>2. IsScored(RecordEntry(x, arrivals[i], i - 1), i, e, arrivals)
      BY <2>2, <2>4, <3>1, ScoredNext
    <3>3. QED
      BY <2>5, <3>2
  <2>7. QED
    BY <2>1, <2>6
<1>4. N \in 0..N
  OBVIOUS
<1>5. QED
  BY <1>1, <1>3, <1>4

-----------------------------------------------------------------------------
(* Ranges and buckets of histograms.                                       *)

\* A quotient, by what it bounds.
LEMMA Quotient ==
  ASSUME NEW v \in Nat, NEW r \in Nat \ {0}
  PROVE  v \div r \in Nat /\ (v \div r) * r <= v /\ v < (v \div r) * r + r
<1> DEFINE q == v \div r
<1>1. q \in Int /\ v = q * r + (v % r) /\ v % r \in 0..(r - 1)
  OBVIOUS
<1>2. QED
  BY <1>1

\* Multiples of a number are in the order of their factors.
LEMMA Multiples ==
  ASSUME NEW a \in Nat, NEW b \in Nat, NEW r \in Nat
  PROVE  /\ a * r \in Nat /\ (a + 1) * r = a * r + r
         /\ a <= b => a * r <= b * r
         /\ a < b => a * r + r <= b * r
<1>1. a * r \in Nat /\ b * r \in Nat /\ (a + 1) * r = a * r + r
  OBVIOUS
<1>2. ASSUME a < b PROVE a * r + r <= b * r
  <2>1. b - (a + 1) \in Nat
    BY <1>2
  <2>2. (b - (a + 1)) * r \in Nat
    BY <2>1
  <2>3. b * r = (b - (a + 1)) * r + (a + 1) * r
    OBVIOUS
  <2>4. QED
    BY <1>1, <2>2, <2>3
<1>3. QED
  BY <1>1, <1>2

\* The range of the buckets is 0 only if there are more of them than values.
LEMMA RangeOfNone ==
  ASSUME NEW upper \in Nat, NEW count \in Nat \ {0}, BuildRange(upper, 0, count) = 0
  PROVE  Misfit(upper, count)
<1> DEFINE q == upper \div count
<1>1. q \in Nat /\ upper < q * count + count
  BY Quotient
<1>2. upper # 0 /\ upper # 1 /\ q = 0
  BY DEF BuildRange
<1>3. upper < count
  <2> HIDE DEF q
  <2>1. q * count = 0
    BY <1>2
  <2>2. QED
    BY <1>1, <2>1
<1>4. QED
  BY <1>2, <1>3 DEF Misfit

\* What Histogram::build panics on: no buckets, or more than values.  Values past
\* 0 find a bucket where there is none to be found, if one round is measured.
LEMMA BuildOfMisfit ==
  ASSUME NEW upper \in Nat, NEW count \in Nat, NEW values,
         BuildPanics(upper, 0, count, values),
         \/ upper > 1 \/ count # 0
         \/ upper # 0 /\ ~\E i \in DOMAIN values : values[i] = 0
  PROVE  Misfit(upper, count)
<1>1. CASE count # 0
  <2>1. BuildRange(upper, 0, count) = 0
    BY <1>1 DEF BuildPanics
  <2>2. QED
    BY <1>1, <2>1, RangeOfNone
<1>2. CASE count = 0
  <2>1. NoBucketPanics(upper, 0, values)
    BY <1>2 DEF BuildPanics
  <2>2. upper > 1
    BY <1>2, <2>1 DEF NoBucketPanics
  <2>3. QED
    BY <1>2, <2>2 DEF Misfit
<1>3. QED
  BY <1>1, <1>2

\* build_from_map panics only on no buckets, or if the greatest stake is below
\* the square of their number, and not 0.
LEMMA MapOfMisfit ==
  ASSUME NEW nodes, IsFiniteSet(nodes), nodes # {}, NEW stakes \in [nodes -> Nat],
         NEW count \in Nat, MapPanics(count, stakes)
  PROVE  MapMisfit(Max(Range(stakes)), count)
<1> DEFINE all == {stakes[n] : n \in nodes}
           max == Max(all)
           range == MapRange(max, count)
           square == count * count
           product == range * count
<1> SUFFICES ASSUME count # 0 PROVE max > 0 /\ max < square
  BY DEF MapMisfit, Range
<1>1. range = 0 \/ \E n \in nodes : BucketIndex(stakes[n], 0, range, count) >= count
  <2>1. DOMAIN stakes = nodes
    OBVIOUS
  <2>2. QED
    BY <2>1 DEF MapPanics
<1>2. max \in Nat /\ \A n \in nodes : stakes[n] \in Nat /\ stakes[n] <= max
  <2>1. IsFiniteSet(all)
    BY FiniteImage
  <2>2. all # {} /\ \A x \in all : x \in Nat
    OBVIOUS
  <2>3. \A n \in nodes : stakes[n] \in all
    OBVIOUS
  <2> HIDE DEF all
  <2>4. max \in all /\ \A x \in all : max >= x
    BY <2>1, <2>2, MaxFacts
  <2> HIDE DEF max
  <2>5. QED
    BY <2>2, <2>3, <2>4
<1>3. range = IF max = 0 THEN 1 ELSE max \div count
  <2> HIDE DEF max
  <2> QED
    BY <1>2 DEF MapRange
<1> HIDE DEF max, all
<1>4. square \in Nat /\ count <= square
  <2>1. 1 * count <= count * count
    BY Multiples
  <2>2. QED
    BY <2>1
<1>5. max # 0
  <2> SUFFICES ASSUME max = 0 PROVE FALSE
    OBVIOUS
  <2>1. range = 1
    BY <1>3
  <2> HIDE DEF range
  <2>2. PICK n \in nodes : BucketIndex(stakes[n], 0, range, count) >= count
    BY <1>1, <2>1
  <2>3. stakes[n] = 0
    BY <1>2
  <2>4. BucketIndex(stakes[n], 0, range, count) = 0
    BY <2>1, <2>3 DEF BucketIndex
  <2>5. QED
    BY <2>2, <2>4
<1>6. range \in Nat /\ product \in Nat /\ max < product + count
  <2> DEFINE q == max \div count
  <2>1. q \in Nat /\ max < q * count + count /\ q * count \in Nat
    BY <1>2, Quotient, Multiples
  <2>2. QED
    BY <1>3, <1>5, <2>1
<1> HIDE DEF range
<1>7. CASE range = 0
  <2>1. product = 0
    BY <1>7
  <2> HIDE DEF product, square
  <2>2. QED
    BY <1>2, <1>4, <1>5, <1>6, <2>1
<1>8. CASE range # 0
  <2>1. PICK n \in nodes : BucketIndex(stakes[n], 0, range, count) >= count
    BY <1>1, <1>8
  <2> DEFINE q == stakes[n] \div range
             low == q * range
             next == (count + 1) * range
  <2>2. q \in Nat /\ low \in Nat /\ low <= stakes[n] /\ stakes[n] \in Nat /\ stakes[n] <= max
    BY <1>2, <1>6, <1>8, Quotient, Multiples
  <2>3. BucketIndex(stakes[n], 0, range, count) = IF q = count THEN q - 1 ELSE q
    BY <2>2 DEF BucketIndex
  <2>4. count + 1 <= q
    <3> HIDE DEF q
    <3> QED
      BY <2>1, <2>2, <2>3
  <2>5. next <= low /\ next = product + range
    <3> HIDE DEF q
    <3>1. next <= low
      BY <1>6, <2>2, <2>4, Multiples
    <3>2. next = count * range + range
      BY <1>6, Multiples
    <3>3. count * range = range * count
      BY <1>6
    <3>4. QED
      BY <3>1, <3>2, <3>3
  <2> HIDE DEF q, low, next
  <2>6. range < count
    <3> HIDE DEF product
    <3> QED
      BY <1>2, <1>6, <2>2, <2>5
  <2>7. product + count <= square
    BY <1>6, <2>6, Multiples
  <2> HIDE DEF product, square
  <2>8. QED
    BY <1>2, <1>4, <1>5, <1>6, <2>7
<1>9. QED
  BY <1>7, <1>8
=============================================================================
