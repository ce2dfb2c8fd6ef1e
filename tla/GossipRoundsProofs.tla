------------------------- MODULE GossipRoundsProofs -------------------------
(***************************************************************************)
(* Theorems about the rounds of a simulation, for every cluster, fanout,   *)
(* size of active sets, pruning parameters and number of failed nodes.     *)
(* RoundsInv, defined in GossipRounds, is the inductive invariant; each    *)
(* call of a round preserves it by one lemma.  For clusters that only      *)
(* prunes change StaticInv is inductive beside it.                         *)
(***************************************************************************)
EXTENDS GossipRounds, DataProofs

-----------------------------------------------------------------------------
(* Choices for every node.                                                 *)

\* Adding a choice for one more element.
Extended(picks, some, n, xs) ==
  {[m \in some |-> IF m = n THEN x ELSE f[m]] : f \in picks, x \in xs}

\* Where such functions are.
LEMMA ExtendedIn ==
  ASSUME NEW picks, NEW some, NEW n, NEW xs, NEW T,
         \A f \in picks : \A x \in xs : [m \in some |-> IF m = n THEN x ELSE f[m]] \in T
  PROVE  Extended(picks, some, n, xs) \subseteq T
BY DEF Extended

\* OneEach picks an element of each set.
LEMMA OneEachFacts ==
  ASSUME NEW choices, IsFiniteSet(DOMAIN choices), NEW f \in OneEach(choices)
  PROVE  /\ DOMAIN f = DOMAIN choices /\ f = [n \in DOMAIN choices |-> f[n]]
         /\ \A n \in DOMAIN choices : f[n] \in choices[n]
<1> DEFINE D == DOMAIN choices
           U == UNION {choices[n] : n \in D}
           V == SUBSET (UNION {[s -> U] : s \in SUBSET D})
           c(s) == CHOOSE x \in s : TRUE
           More(s, v) == Extended(v, s, c(s), choices[c(s)])
           F == [s \in SUBSET D |-> [v \in V |-> IF s # {} /\ v \subseteq [(s \ {c(s)}) -> U]
                                                 THEN More(s, v) ELSE {}]]
           Into(v, s) == v \subseteq [s -> U]
           Equation(g) == g = [s \in SUBSET D |-> IF s = {} THEN {<<>>} ELSE More(s, g[s \ {c(s)}])]
           B == CHOOSE g : Equation(g)
<1>1. \A n \in D : choices[n] \subseteq U
  OBVIOUS
<1>2. \A s \in SUBSET D : s # {} => c(s) \in s /\ c(s) \in D
  OBVIOUS
<1> HIDE DEF U, c
<1>3. ASSUME NEW s \in SUBSET D, s # {}, NEW v, Into(v, s \ {c(s)})
      PROVE  Into(More(s, v), s)
  <2> SUFFICES ASSUME NEW g \in v, NEW x \in choices[c(s)]
               PROVE  [m \in s |-> IF m = c(s) THEN x ELSE g[m]] \in [s -> U]
    BY DEF Extended
  <2>1. x \in U
    BY <1>1, <1>2, <1>3
  <2>2. g \in [(s \ {c(s)}) -> U]
    BY <1>3
  <2>3. QED
    BY <2>1, <2>2
<1>4. <<>> \in [{} -> U]
  <2>1. <<>> \in Seq(U) /\ Len(<<>>) = 0
    BY EmptySeq
  <2> DEFINE none == <<>>
  <2>2. none \in Seq(U) /\ Len(none) = 0
    BY <2>1
  <2> HIDE DEF none
  <2>3. none \in [1..0 -> U]
    <3>1. PICK n \in Nat : none \in [1..n -> U]
      BY <2>2, SeqDef
    <3>2. DOMAIN none = 1..n /\ DOMAIN none = 1..0
      BY <2>2, <3>1, LenProperties
    <3>3. QED
      BY <3>1, <3>2
  <2>4. 1..0 = {}
    OBVIOUS
  <2>5. none \in [{} -> U]
    BY <2>3, <2>4
  <2>6. QED
    BY <2>5 DEF none
<1>5. {<<>>} \in V /\ F \in [SUBSET D -> [V -> V]]
  <2>1. {<<>>} \in V
    BY <1>4
  <2>2. \A s \in SUBSET D : \A v \in V :
          (IF s # {} /\ v \subseteq [(s \ {c(s)}) -> U] THEN More(s, v) ELSE {}) \in V
    <3> TAKE s \in SUBSET D
    <3> TAKE v \in V
    <3>1. CASE s # {} /\ v \subseteq [(s \ {c(s)}) -> U]
      <4>1. More(s, v) \subseteq [s -> U]
        BY <1>3, <3>1
      <4> HIDE DEF More
      <4>2. QED
        BY <3>1, <4>1
    <3>2. CASE ~(s # {} /\ v \subseteq [(s \ {c(s)}) -> U])
      BY <3>2
    <3>3. QED
      BY <3>1, <3>2
  <2> HIDE DEF V, More
  <2>3. QED
    BY <2>1, <2>2
<1>6. PICK it \in [SUBSET D -> V] :
        /\ it[{}] = {<<>>}
        /\ \A s \in SUBSET D : s # {} => it[s] = F[s][it[s \ {c(s)}]]
  <2> DEFINE base == {<<>>}
  <2>1. base \in V
    BY <1>5
  <2> HIDE DEF D, V, F, base
  <2>2. IsFiniteSet(D) /\ F \in [SUBSET D -> [V -> V]]
    BY <1>5 DEF D
  <2>3. PICK it : IsSetRun(it, D, V, base, F)
    BY <2>1, <2>2, SetRecursion
  <2>4. QED
    BY <2>3 DEF IsSetRun, c, base
<1>7. \A s \in SUBSET D : it[s] \subseteq [s -> U]
  <2> DEFINE Bad == {s \in SUBSET D : ~(it[s] \subseteq [s -> U])}
  <2> SUFFICES ASSUME Bad # {} PROVE FALSE
    OBVIOUS
  <2>1. PICK s \in Bad : \A t \in Bad : t \subseteq s => t = s
    <3>1. Bad \in SUBSET (SUBSET D) /\ IsFiniteSet(D)
      OBVIOUS
    <3> HIDE DEF Bad, D
    <3>2. QED
      BY <3>1, MinimalSubset
  <2>2. s # {}
    BY <1>4, <1>6, <2>1
  <2>3. s \ {c(s)} \in SUBSET D /\ s \ {c(s)} \notin Bad
    BY <1>2, <2>1, <2>2
  <2>4. it[s \ {c(s)}] \subseteq [(s \ {c(s)}) -> U] /\ it[s \ {c(s)}] \in V
    BY <1>6, <2>3
  <2>5. it[s] = More(s, it[s \ {c(s)}])
    <3> HIDE DEF More, V
    <3> QED
      BY <1>6, <2>1, <2>2, <2>4
  <2>6. Into(it[s], s)
    <3> HIDE DEF More, V, D
    <3>1. s \in SUBSET D
      BY <2>1
    <3> DEFINE v == it[s \ {c(s)}]
    <3>2. Into(v, s \ {c(s)}) /\ it[s] = More(s, v)
      BY <2>4, <2>5
    <3> HIDE DEF Bad, v, Into
    <3> QED
      BY <1>3, <2>2, <3>1, <3>2
  <2>7. QED
    BY <2>1, <2>6
<1>8. Equation(it)
  <2>1. \A s \in SUBSET D : it[s] = IF s = {} THEN {<<>>} ELSE More(s, it[s \ {c(s)}])
    <3> TAKE s \in SUBSET D
    <3>1. CASE s = {}
      BY <1>6, <3>1
    <3>2. CASE s # {}
      <4>1. s \ {c(s)} \in SUBSET D
        OBVIOUS
      <4>2. it[s \ {c(s)}] \subseteq [(s \ {c(s)}) -> U] /\ it[s \ {c(s)}] \in V
        BY <1>6, <1>7, <4>1
      <4> HIDE DEF More, V
      <4>3. QED
        BY <1>6, <3>2, <4>2
    <3>3. QED
      BY <3>1, <3>2
  <2>2. it = [s \in SUBSET D |-> it[s]]
    BY <1>6
  <2> HIDE DEF More, V, D
  <2>3. QED
    BY <2>1, <2>2
<1>9. Equation(B)
  <2> HIDE DEF Equation
  <2> QED
    BY <1>8
<1>10. OneEach(choices) = B[D]
  BY DEF OneEach, Extended, c
<1> DEFINE Picks(s) == \A g \in B[s] : /\ DOMAIN g = s /\ g = [n \in s |-> g[n]]
                                       /\ \A n \in s : g[n] \in choices[n]
<1> HIDE DEF B
<1>11. B[{}] = {<<>>} /\ \A s \in SUBSET D : s # {} => B[s] = More(s, B[s \ {c(s)}])
  <2> HIDE DEF More
  <2> QED
    BY <1>9
<1>12. \A s \in SUBSET D : Picks(s)
  <2> DEFINE Bad == {s \in SUBSET D : ~Picks(s)}
  <2> SUFFICES ASSUME Bad # {} PROVE FALSE
    OBVIOUS
  <2>1. PICK s \in Bad : \A t \in Bad : t \subseteq s => t = s
    <3>1. Bad \in SUBSET (SUBSET D) /\ IsFiniteSet(D)
      OBVIOUS
    <3> HIDE DEF Bad, D
    <3>2. QED
      BY <3>1, MinimalSubset
  <2>2. s # {}
    <3>1. ASSUME NEW g, g \in [{} -> U] PROVE DOMAIN g = {} /\ g = [n \in {} |-> g[n]]
      BY <3>1
    <3>2. Picks({})
      BY <1>4, <1>11, <3>1
    <3> HIDE DEF Picks
    <3>3. QED
      BY <2>1, <3>2
  <2>3. s \ {c(s)} \in SUBSET D /\ s \ {c(s)} \notin Bad /\ s \in SUBSET D
    BY <1>2, <2>1, <2>2
  <2>4. Picks(s \ {c(s)})
    <3> HIDE DEF Picks
    <3> QED
      BY <2>3
  <2>5. Picks(s)
    <3> DEFINE Picked == {g \in [s -> U] : \A n \in s : g[n] \in choices[n]}
    <3>1. More(s, B[s \ {c(s)}]) \subseteq Picked
      <4> SUFFICES ASSUME NEW h \in B[s \ {c(s)}], NEW x \in choices[c(s)]
                   PROVE  [m \in s |-> IF m = c(s) THEN x ELSE h[m]] \in Picked
        <5> HIDE DEF Picked, Picks, Bad, Equation, F, V
        <5> QED
          BY ExtendedIn
      <4>1. \A n \in s \ {c(s)} : h[n] \in choices[n] /\ h[n] \in U
        BY <1>1, <2>3, <2>4
      <4>2. x \in U
        BY <1>1, <1>2, <2>2, <2>3
      <4>3. QED
        BY <4>1, <4>2
    <3>2. B[s] = More(s, B[s \ {c(s)}])
      <4> HIDE DEF More
      <4> QED
        BY <1>11, <2>2, <2>3
    <3> HIDE DEF More
    <3>3. QED
      BY <3>1, <3>2
  <2> HIDE DEF Picks
  <2>6. QED
    BY <2>1, <2>5
<1>13. QED
  BY <1>10, <1>12

-----------------------------------------------------------------------------
(* Active sets.                                                            *)

\* The constants.
LEMMA RoundsConstants ==
  /\ IsFiniteSet(Nodes) /\ Origin \in Nodes /\ Unreached \notin Nat
  /\ Size \in Nat /\ Size # 0 /\ MinNumUpserts \in Nat /\ MinNumUpserts # 0 /\ MaxRotations \in Nat
  /\ \A n \in Nodes : /\ Candidates(n) \subseteq Nodes /\ n \notin Candidates(n)
                      /\ IsFiniteSet(Candidates(n)) /\ Cardinality(Candidates(n)) \in Nat
<1>1. \A n \in Nodes : Candidates(n) \subseteq Nodes /\ n \notin Candidates(n)
  BY DEF Candidates
<1>2. IsFiniteSet(Nodes) /\ Origin \in Nodes /\ Unreached \notin Nat
      /\ Size \in Nat /\ Size # 0 /\ MinNumUpserts \in Nat /\ MinNumUpserts # 0 /\ MaxRotations \in Nat
  BY RoundsAssumption
<1>3. QED
  BY <1>1, <1>2, FS_Subset, FS_CardinalityType

\* What the invariant says of one active set, its node and the peers it has
\* obeyed.
IsActiveSet(entry, n, obeyed) ==
  /\ IsPeerEntry(entry, Candidates(n), Nodes)
  /\ Len(entry) <= Size
  /\ obeyed \subseteq KeysOf(entry)
  /\ \A i \in 1..Len(entry) : entry[i].node \in obeyed \cup {Origin} => Origin \in entry[i].filter

ActiveSets(sets, obeyed) ==
  /\ DOMAIN sets = Nodes
  /\ \A n \in Nodes : IsActiveSet(sets[n], n, obeyed[n])

\* The invariant says it of every node,
LEMMA ActiveSetsHold == TypeOK /\ PeersOnce /\ FiltersHold => ActiveSets(entries, silenced)
<1> SUFFICES ASSUME TypeOK, PeersOnce, FiltersHold, NEW n \in Nodes
             PROVE  IsActiveSet(entries[n], n, silenced[n])
  BY DEF TypeOK, ActiveSets
<1>1. entries[n] \in Seq(ItemsOf(Candidates(n), Nodes))
  BY DEF TypeOK, ItemsOf
<1>2. DOMAIN entries[n] = 1..Len(entries[n])
  BY <1>1, SeqFacts
<1>3. IsPeerEntry(entries[n], Candidates(n), Nodes) /\ Len(entries[n]) <= Size
  BY <1>1, <1>2 DEF IsPeerEntry, PeersOnce
<1>4. QED
  BY <1>2, <1>3 DEF IsActiveSet, FiltersHold

\* and nothing else of the active sets.
LEMMA ActiveSetsSuffice ==
  ASSUME ActiveSets(entries', silenced')
  PROVE  /\ DOMAIN entries' = Nodes
         /\ \A n \in Nodes : entries'[n] \in Seq([node : Candidates(n), filter : SUBSET Nodes])
         /\ \A n \in Nodes : silenced'[n] \subseteq Nodes
         /\ PeersOnce' /\ FiltersHold'
<1>1. ASSUME NEW n \in Nodes
      PROVE  /\ entries'[n] \in Seq([node : Candidates(n), filter : SUBSET Nodes])
             /\ DOMAIN entries'[n] = 1..Len(entries'[n])
             /\ Len(entries'[n]) <= Size
             /\ \A i, j \in 1..Len(entries'[n]) :
                  entries'[n][i].node = entries'[n][j].node => i = j
             /\ silenced'[n] \subseteq KeysOf(entries'[n])
             /\ \A i \in 1..Len(entries'[n]) :
                  entries'[n][i].node \in silenced'[n] \cup {Origin} => Origin \in entries'[n][i].filter
             /\ KeysOf(entries'[n]) \subseteq Nodes
  <2>1. IsActiveSet(entries'[n], n, silenced'[n])
    BY DEF ActiveSets
  <2>2. IsPeerEntry(entries'[n], Candidates(n), Nodes)
    BY <2>1 DEF IsActiveSet
  <2>3. entries'[n] \in Seq(ItemsOf(Candidates(n), Nodes))
    BY <2>2 DEF IsPeerEntry
  <2>4. DOMAIN entries'[n] = 1..Len(entries'[n])
    BY <2>3, SeqFacts
  <2>5. KeysOf(entries'[n]) \subseteq Nodes
    BY <2>2, KeysCount, RoundsConstants
  <2>6. QED
    BY <2>1, <2>2, <2>3, <2>4, <2>5 DEF IsActiveSet, IsPeerEntry, ItemsOf
<1>2. PeersOnce'
  BY <1>1 DEF PeersOnce
<1>3. FiltersHold'
  BY <1>1 DEF FiltersHold
<1>4. DOMAIN entries' = Nodes
  BY DEF ActiveSets
<1>5. QED
  BY <1>1, <1>2, <1>3, <1>4

\* A node pushes to live peers that it has not obeyed, and never to the origin.
LEMMA PushTargetsFacts ==
  ASSUME ActiveSets(entries, silenced), NEW n \in Nodes
  PROVE  /\ PushTargets(n) \subseteq Nodes \ {n}
         /\ PushTargets(n) \cap (failed \cup silenced[n] \cup {Origin}) = {}
<1> DEFINE entry == entries[n]
           answered == GetNodes(entry, Origin)
<1>1. IsActiveSet(entry, n, silenced[n])
  BY DEF ActiveSets
<1>2. entry \in Seq(ItemsOf(Candidates(n), Nodes))
      /\ \A i \in 1..Len(entry) : entry[i].node \in silenced[n] \cup {Origin} => Origin \in entry[i].filter
  BY <1>1 DEF IsActiveSet, IsPeerEntry
<1>3. IsAnswered(answered, Len(entry), entry, Candidates(n), Origin)
  <2> HIDE DEF entry
  <2> QED
    BY <1>2, GetNodesAnswers
<1> HIDE DEF answered, entry
<1>4. /\ answered \in Seq(Candidates(n))
      /\ \A x \in Candidates(n) :
           x \in ToSet(answered) => \E j \in 1..Len(entry) : entry[j].node = x /\ Origin \notin entry[j].filter
  BY <1>3 DEF IsAnswered
<1>5. DOMAIN answered = 1..Len(answered) /\ \A i \in 1..Len(answered) : answered[i] \in Candidates(n)
  BY <1>4, SeqFacts
<1>6. \A i \in DOMAIN answered : /\ answered[i] \in Candidates(n)
                                 /\ answered[i] \notin silenced[n] \cup {Origin}
  <2> SUFFICES ASSUME NEW i \in 1..Len(answered)
               PROVE  answered[i] \in Candidates(n) /\ answered[i] \notin silenced[n] \cup {Origin}
    BY <1>5
  <2>1. answered[i] \in ToSet(answered) /\ answered[i] \in Candidates(n)
    BY <1>5 DEF ToSet
  <2>2. QED
    BY <1>2, <1>4, <2>1
<1>7. PushTargets(n) \subseteq {answered[i] : i \in DOMAIN answered} \ failed
  BY DEF PushTargets, answered, entry
<1>8. QED
  BY <1>6, <1>7, RoundsConstants

\* A rotation leaves an active set an active set, of which the new peers have
\* pruned nothing.
LEMMA RotationsFacts ==
  ASSUME NEW n \in Nodes, NEW entry, NEW obeyed, IsActiveSet(entry, n, obeyed),
         NEW after \in Rotations(n, entry)
  PROVE  IsActiveSet(after, n, obeyed \cap KeysOf(after))
<1>1. PICK shuffle \in SetToSeqs(Candidates(n)) : after = RotateEntry(entry, shuffle, Size, {})
  BY DEF Rotations
<1>2. IsPeerEntry(entry, Candidates(n), Nodes) /\ Len(entry) <= Size
  BY DEF IsActiveSet
<1> DEFINE none == {}
<1>3. Rotated(after, entry, Candidates(n), Nodes, Size, none)
  <2>1. after = RotateEntry(entry, shuffle, Size, none) /\ none \in SUBSET Nodes
    BY <1>1
  <2> HIDE DEF none
  <2>2. QED
    BY <1>2, <2>1, RoundsConstants, RotateEntryFacts
<1>4. /\ after \in Seq(ItemsOf(Candidates(n), Nodes))
      /\ Len(after) = IF Cardinality(Candidates(n)) <= Size THEN Cardinality(Candidates(n)) ELSE Size
      /\ \A i, j \in 1..Len(after) : after[i].node = after[j].node => i = j
      /\ \A i \in 1..Len(after) :
           \/ \E j \in 1..Len(entry) : after[i] = entry[j]
           \/ after[i] = NewItem(after[i].node, none) /\ after[i].node \notin KeysOf(entry)
  <2> HIDE DEF none
  <2> QED
    BY <1>2, <1>3, RoundsConstants, AfterRotation
<1>5. Len(after) <= Size
  <2>1. Len(after) \in Nat
    BY <1>4, SeqFacts
  <2>2. QED
    BY <1>4, <2>1, RoundsConstants
<1>6. ASSUME NEW i \in 1..Len(after), after[i].node \in (obeyed \cap KeysOf(after)) \cup {Origin}
      PROVE  Origin \in after[i].filter
  <2>1. CASE \E j \in 1..Len(entry) : after[i] = entry[j]
    BY <1>6, <2>1 DEF IsActiveSet
  <2>2. CASE after[i] = NewItem(after[i].node, none) /\ after[i].node \notin KeysOf(entry)
    <3>1. after[i].node = Origin
      BY <1>6, <2>2 DEF IsActiveSet
    <3>2. after[i].filter = {after[i].node} \cup none
      BY <2>2 DEF NewItem, PeerItem, AddToFilter
    <3>3. QED
      BY <3>1, <3>2
  <2>3. QED
    BY <1>4, <2>1, <2>2
<1>7. IsPeerEntry(after, Candidates(n), Nodes)
  BY <1>4 DEF IsPeerEntry
<1>8. QED
  BY <1>5, <1>6, <1>7 DEF IsActiveSet

-----------------------------------------------------------------------------
(* The calls of a round.                                                   *)

\* Of a node's senders there are finitely many.
LEMMA SendersFinite ==
  ASSUME NEW n \in Nodes
  PROVE  /\ SendersTo(n) \subseteq Nodes /\ IsFiniteSet(SendersTo(n))
         /\ Cardinality(SendersTo(n)) \in Nat
<1>1. SendersTo(n) \subseteq Nodes
  BY DEF SendersTo
<1>2. QED
  BY <1>1, RoundsConstants, FS_Subset, FS_CardinalityType

\* What nodes fail is known from the next round on.
LEMMA FailNodesRounds == RoundsInv /\ FailNodes => RoundsInv'
<1> SUFFICES ASSUME RoundsInv, FailNodes PROVE RoundsInv'
  OBVIOUS
<1>1. phase = "run" /\ failed' \subseteq Nodes /\ hasFailed' = TRUE
      /\ UNCHANGED <<phase, entries, cache, distances, orders, prunes, messages,
                     pruneCounts, rotations, silenced>>
  BY DEF FailNodes, kSubset
<1>2. TypeOK' /\ PeersOnce' /\ FiltersHold'
  BY <1>1 DEF RoundsInv, TypeOK, PeersOnce, FiltersHold
<1>3. PrunedLinksSilent' /\ PrunesHeard' /\ WindowsFill'
  BY <1>1 DEF RoundsInv, PrunedLinksSilent, PrunesHeard, WindowsFill, SendersTo
<1>4. CopiesVisit' /\ MessagesSoFar'
  BY <1>1 DEF CopiesVisit, MessagesSoFar, RanThisRound
<1>5. QED
  BY <1>2, <1>3, <1>4 DEF RoundsInv

\* A peer that obeys a prune pushes nothing to the pruner in the next round;
\* the copies that are pushed are those that are received.
LEMMA RunGossipRounds == RoundsInv /\ RunGossip => RoundsInv'
<1> SUFFICES ASSUME RoundsInv, RunGossip PROVE RoundsInv'
  OBVIOUS
<1> DEFINE links == [n \in Nodes |-> PushTargets(n)]
           outs == [n \in Nodes |-> Cardinality(links[n])]
           ins == [n \in Nodes |-> Cardinality(SendersTo(n)')]
           reached == {n \in Nodes : distances'[n] # Unreached}
<1>1. /\ phase = "run" /\ phase' = "consume" /\ prunes' = NoPrunes /\ pruneCounts' = NoCounts
      /\ UNCHANGED <<entries, cache, failed, hasFailed, rotations, silenced>>
      /\ distances' = HopsFrom(links, Origin, Nodes, Unreached)
      /\ orders' = [d \in Nodes |-> [s \in Nodes |->
                      IF distances'[s] # Unreached /\ d \in links[s]
                      THEN distances'[s] + 1 ELSE Unreached]]
      /\ messages' = SumFunctionOnSet(outs, reached)
  BY DEF RunGossip
<1>2. \A n \in Nodes : /\ links[n] \subseteq Nodes \ {n}
                       /\ links[n] \cap (failed \cup silenced[n] \cup {Origin}) = {}
  BY ActiveSetsHold, PushTargetsFacts DEF RoundsInv
<1>3. links \in [Nodes -> SUBSET Nodes]
  BY <1>2
<1> HIDE DEF links
<1>4. /\ distances' \in [Nodes -> Hops]
      /\ \A s \in Nodes : distances'[s] # Unreached => \A d \in links[s] : distances'[d] # Unreached
      /\ \A d \in Nodes \ {Origin} :
           distances'[d] # Unreached => \E s \in Nodes : distances'[s] # Unreached /\ d \in links[s]
  <2>1. Reaches(HopsFrom(links, Origin, Nodes, Unreached), links, Origin, Nodes, Unreached)
    BY <1>3, RoundsConstants, HopsFromReaches
  <2>2. QED
    BY <1>1, <2>1 DEF Reaches, Hops
<1>5. ASSUME NEW d \in Nodes, NEW s \in Nodes
      PROVE  /\ orders'[d][s] \in Hops
             /\ orders'[d][s] # Unreached <=> distances'[s] # Unreached /\ d \in links[s]
  <2>1. orders'[d][s] = IF distances'[s] # Unreached /\ d \in links[s]
                        THEN distances'[s] + 1 ELSE Unreached
    BY <1>1
  <2>2. CASE distances'[s] # Unreached /\ d \in links[s]
    <3>1. distances'[s] + 1 \in Nat
      BY <1>4, <2>2 DEF Hops
    <3>2. QED
      BY <2>1, <2>2, <3>1, RoundsConstants DEF Hops
  <2>3. QED
    BY <2>1, <2>2 DEF Hops
<1>6. \A d \in Nodes : SendersTo(d)' = {s \in reached : d \in links[s]}
  BY <1>5 DEF SendersTo
<1>7. IsFiniteSet(reached) /\ reached \subseteq Nodes
  BY RoundsConstants, FS_Subset
<1>8. messages' = SumFunctionOnSet(ins, Nodes)
  <2>1. \A s \in reached : links[s] \subseteq Nodes /\ outs[s] = Cardinality(links[s])
    BY <1>2
  <2>2. \A t \in Nodes : ins[t] = Cardinality(SourcesOf(t, links, reached))
    BY <1>6 DEF SourcesOf
  <2>3. IsFiniteSet(Nodes)
    BY RoundsConstants
  <2> HIDE DEF outs, ins, reached
  <2>4. SumFunctionOnSet(outs, reached) = SumFunctionOnSet(ins, Nodes)
    BY <1>7, <2>1, <2>2, <2>3, SumBothWays
  <2>5. QED
    BY <1>1, <2>4 DEF outs, reached
<1>9. messages' \in Nat
  <2>1. \A n \in Nodes : ins[n] \in Nat
    <3> SUFFICES ASSUME NEW n \in Nodes PROVE Cardinality(SendersTo(n)') \in Nat
      OBVIOUS
    <3>1. IsFiniteSet(SendersTo(n)')
      BY <1>6, <1>7, FS_Subset
    <3>2. QED
      BY <3>1, FS_CardinalityType
  <2> HIDE DEF ins
  <2>2. QED
    BY <1>8, <2>1, RoundsConstants, SumType
<1>10. orders' \in [Nodes -> [Nodes -> Hops]]
  <2> DEFINE T == [Nodes -> Hops]
  <2>1. \A d \in Nodes : orders'[d] \in T
    <3> SUFFICES ASSUME NEW d \in Nodes PROVE orders'[d] \in T
      OBVIOUS
    <3>1. orders'[d] = [s \in Nodes |-> orders'[d][s]]
      BY <1>1
    <3>2. QED
      BY <1>5, <3>1
  <2>2. orders' = [d \in Nodes |-> orders'[d]]
    BY <1>1
  <2> HIDE DEF T
  <2>3. orders' \in [Nodes -> T]
    BY <2>1, <2>2
  <2>4. QED
    BY <2>3 DEF T
<1>11. TypeOK'
  <2>1. prunes' \in [Nodes -> SUBSET Nodes] /\ pruneCounts' \in [Nodes -> Nat]
    BY <1>1 DEF NoPrunes, NoCounts
  <2>2. QED
    BY <1>1, <1>4, <1>9, <1>10, <2>1 DEF RoundsInv, TypeOK
<1>12. PeersOnce' /\ FiltersHold'
  BY <1>1 DEF RoundsInv, PeersOnce, FiltersHold
<1>13. PrunedLinksSilent'
  <2> SUFFICES ASSUME NEW prunee \in Nodes, NEW pruner \in silenced[prunee]
               PROVE  orders'[pruner][prunee] = Unreached
    BY <1>1 DEF PrunedLinksSilent
  <2>1. pruner \in Nodes /\ pruner \notin links[prunee]
    BY <1>2 DEF RoundsInv, TypeOK
  <2>2. QED
    BY <1>5, <2>1
<1>14. SendersTo(Origin)' = {} /\ \A n \in Nodes : prunes'[n] = {}
  BY <1>1, <1>2, <1>6, RoundsConstants DEF NoPrunes
<1>15. PrunesHeard'
  BY <1>14 DEF PrunesHeard
<1>16. CopiesVisit'
  <2>1. \A n \in Nodes : SendersTo(n)' # {} => n \in reached \ failed
    BY <1>2, <1>4, <1>6
  <2>2. reached \cap failed \subseteq {Origin}
    BY <1>2, <1>4
  <2>3. QED
    BY <1>1, <2>1, <2>2 DEF CopiesVisit, Visited
<1>17. WindowsFill'
  BY <1>1, <1>14, RoundsConstants DEF RoundsInv, WindowsFill
<1>18. MessagesSoFar'
  BY <1>1, <1>8 DEF MessagesSoFar
<1>19. QED
  BY <1>11, <1>12, <1>13, <1>15, <1>16, <1>17, <1>18 DEF RoundsInv

\* A window counts a round once, and only if its node heard of it.
LEMMA ConsumeMessagesRounds == RoundsInv /\ ConsumeMessages => RoundsInv'
<1> SUFFICES ASSUME RoundsInv, ConsumeMessages PROVE RoundsInv'
  OBVIOUS
<1> DEFINE choices == [n \in Nodes |-> IF n = Origin THEN {cache[n]}
                                       ELSE {RecordAll(cache[n], r) : r \in ArrivalOrders(n)}]
<1>1. /\ phase = "consume" /\ phase' = "send" /\ cache' \in OneEach(choices)
      /\ UNCHANGED <<entries, failed, hasFailed, distances, orders, prunes,
                     messages, pruneCounts, rotations, silenced>>
  BY DEF ConsumeMessages
<1>2. DOMAIN cache' = Nodes /\ \A n \in Nodes : cache'[n] \in choices[n]
  <2>1. DOMAIN choices = Nodes /\ IsFiniteSet(DOMAIN choices)
    BY RoundsConstants
  <2> HIDE DEF choices
  <2>2. QED
    BY <1>1, <2>1, OneEachFacts
<1>3. cache'[Origin] = cache[Origin]
  BY <1>2, RoundsConstants
<1>4. ASSUME NEW n \in Nodes
      PROVE  /\ IsCacheEntry(cache[n], Nodes) /\ cache[n].upserts \in 0..MinNumUpserts
             /\ cache[n].upserts # MinNumUpserts
  BY <1>1 DEF RoundsInv, TypeOK, WindowsFill
<1>5. ASSUME NEW n \in Nodes
      PROVE  /\ IsCacheEntry(cache'[n], Nodes) /\ cache'[n].upserts \in 0..MinNumUpserts
             /\ cache'[n].upserts = MinNumUpserts => SendersTo(n) # {}
  <2>1. CASE n = Origin
    BY <1>3, <1>4, <2>1
  <2>2. CASE n # Origin
    <3>1. PICK r \in ArrivalOrders(n) : cache'[n] = RecordAll(cache[n], r)
      BY <1>2, <2>2
    <3>2. r \in SetToSeqs(SendersTo(n))
      BY DEF ArrivalOrders
    <3>3. /\ Len(r) = Cardinality(SendersTo(n)) /\ Len(r) \in Nat
          /\ \A i \in 1..Len(r) : r[i] \in Nodes
      BY <3>2, SendersFinite, ListingFacts
    <3> DEFINE e == cache[n]
    <3>4. IsCacheEntry(e, Nodes)
      BY <1>4
    <3>5. /\ IsCacheEntry(RecordAll(e, r), Nodes)
          /\ RecordAll(e, r).upserts = IF Len(r) = 0 THEN e.upserts ELSE e.upserts + 1
      <4> HIDE DEF e
      <4> QED
        BY <3>3, <3>4, RecordAllCounts
    <3>6. SendersTo(n) = {} => Len(r) = 0
      BY <3>3, FS_EmptySet
    <3>7. QED
      BY <1>4, <3>1, <3>5, <3>6, RoundsConstants
  <2>3. QED
    BY <2>1, <2>2
<1>6. TypeOK'
  BY <1>1, <1>2, <1>5 DEF RoundsInv, TypeOK
<1>7. PeersOnce' /\ FiltersHold'
  BY <1>1 DEF RoundsInv, PeersOnce, FiltersHold
<1>8. PrunedLinksSilent' /\ PrunesHeard' /\ CopiesVisit' /\ MessagesSoFar'
  BY <1>1 DEF RoundsInv, PrunedLinksSilent, PrunesHeard, CopiesVisit, MessagesSoFar,
              SendersTo, RanThisRound, Visited
<1>9. WindowsFill'
  BY <1>1, <1>3, <1>5 DEF RoundsInv, WindowsFill, SendersTo
<1>10. QED
  BY <1>6, <1>7, <1>8, <1>9 DEF RoundsInv

\* Whoever prunes has a full window, and so has heard of the round; it starts
\* a new window.
LEMMA SendPrunesRounds == RoundsInv /\ SendPrunes => RoundsInv'
<1> SUFFICES ASSUME RoundsInv, SendPrunes PROVE RoundsInv'
  OBVIOUS
<1> DEFINE choices == [n \in Nodes |-> PruneChoices(n)]
           counts == [n \in Nodes |-> Cardinality(prunes'[n])]
<1>1. /\ phase = "send" /\ phase' = "prune" /\ prunes' \in OneEach(choices)
      /\ cache' = [n \in Nodes |-> IF Ready(n) THEN EmptyEntry ELSE cache[n]]
      /\ messages' = messages + PruneMessages(prunes')
      /\ UNCHANGED <<entries, failed, hasFailed, distances, orders, pruneCounts,
                     rotations, silenced>>
  BY DEF SendPrunes
<1>2. prunes' = [n \in Nodes |-> prunes'[n]] /\ \A n \in Nodes : prunes'[n] \in PruneChoices(n)
  <2>1. DOMAIN choices = Nodes /\ IsFiniteSet(DOMAIN choices)
    BY RoundsConstants
  <2> HIDE DEF choices
  <2>2. /\ prunes' = [n \in DOMAIN choices |-> prunes'[n]]
        /\ \A n \in DOMAIN choices : prunes'[n] \in choices[n]
    BY <1>1, <2>1, OneEachFacts
  <2>3. QED
    BY <2>1, <2>2 DEF choices
<1>3. ASSUME NEW n \in Nodes
      PROVE  /\ IsCacheEntry(cache[n], Nodes)
             /\ cache[n].upserts \in 0..MinNumUpserts
             /\ Ready(n) => SendersTo(n) # {}
  BY <1>1, RoundsConstants DEF RoundsInv, TypeOK, WindowsFill, Ready
<1>4. ASSUME NEW n \in Nodes
      PROVE  /\ prunes'[n] \subseteq Nodes \ {Origin}
             /\ prunes'[n] # {} => Ready(n)
  <2>1. CASE ~Ready(n)
    BY <1>2, <2>1 DEF PruneChoices
  <2>2. CASE Ready(n)
    <3> DEFINE e == cache[n]
    <3>1. SendersOf(e) \subseteq Nodes /\ IsFiniteSet(SendersOf(e))
      BY <1>3, RoundsConstants, FS_Subset DEF IsCacheEntry
    <3>2. PICK cut \in PruneOutcomes(e, Stakes, n, Origin, ThresholdPct, MinIngressNodes) :
            prunes'[n] = cut \ {Origin}
      BY <1>2, <2>2 DEF PruneChoices
    <3>3. cut \subseteq SendersOf(e)
      <4> HIDE DEF e
      <4> QED
        BY <3>1, CutSenders
    <3>4. QED
      BY <2>2, <3>1, <3>2, <3>3
  <2>3. QED
    BY <2>1, <2>2
<1>5. prunes' \in [Nodes -> SUBSET Nodes]
  BY <1>2, <1>4
<1>6. ~Ready(Origin) /\ prunes'[Origin] = {} /\ cache'[Origin] = EmptyEntry
  <2>1. cache[Origin] = EmptyEntry /\ EmptyEntry.upserts = 0
    BY EmptyEntryIs DEF RoundsInv, WindowsFill
  <2>2. ~Ready(Origin)
    BY <2>1, RoundsConstants DEF Ready
  <2>3. QED
    BY <1>1, <1>4, <2>1, <2>2, RoundsConstants
<1>7. ASSUME NEW n \in Nodes
      PROVE  /\ IsCacheEntry(cache'[n], Nodes)
             /\ cache'[n].upserts \in 0..MinNumUpserts /\ cache'[n].upserts # MinNumUpserts
  <2>1. CASE Ready(n)
    BY <1>1, <2>1, EmptyEntryIs, RoundsConstants
  <2>2. CASE ~Ready(n)
    BY <1>1, <1>3, <2>2, RoundsConstants DEF Ready
  <2>3. QED
    BY <2>1, <2>2
<1>8. messages' \in Nat
  <2>1. ASSUME NEW n \in Nodes PROVE counts[n] \in Nat
    <3>1. IsFiniteSet(prunes'[n])
      BY <1>4, RoundsConstants, FS_Subset
    <3>2. QED
      BY <3>1, FS_CardinalityType
  <2>2. PruneMessages(prunes') = SumFunctionOnSet(counts, Nodes)
    BY DEF PruneMessages
  <2> HIDE DEF counts
  <2>3. PruneMessages(prunes') \in Nat
    BY <2>1, <2>2, RoundsConstants, SumType
  <2>4. QED
    BY <1>1, <2>3 DEF RoundsInv, TypeOK
<1>9. TypeOK'
  <2>1. DOMAIN cache' = Nodes
    BY <1>1
  <2>2. QED
    BY <1>1, <1>5, <1>7, <1>8, <2>1 DEF RoundsInv, TypeOK
<1>10. PeersOnce' /\ FiltersHold'
  BY <1>1 DEF RoundsInv, PeersOnce, FiltersHold
<1>11. PrunedLinksSilent' /\ CopiesVisit'
  BY <1>1 DEF RoundsInv, PrunedLinksSilent, CopiesVisit, SendersTo, RanThisRound, Visited
<1>12. PrunesHeard'
  BY <1>1, <1>3, <1>4 DEF PrunesHeard, SendersTo
<1>13. WindowsFill'
  BY <1>1, <1>6, <1>7 DEF RoundsInv, WindowsFill, SendersTo
<1>14. MessagesSoFar'
  BY <1>1 DEF RoundsInv, MessagesSoFar, SendersTo
<1>15. QED
  BY <1>9, <1>10, <1>11, <1>12, <1>13, <1>14 DEF RoundsInv

\* A node that obeys keeps its peers, and adds the origin to the filters of
\* the pruners among them; the origin has no pruners.
LEMMA PruneConnectionsRounds == RoundsInv /\ PruneConnections => RoundsInv'
<1> SUFFICES ASSUME RoundsInv, PruneConnections PROVE RoundsInv'
  OBVIOUS
<1>1. /\ phase = "prune" /\ phase' = "rotate"
      /\ entries' = [n \in Nodes |-> Obey(n, PrunersOf(n))]
      /\ pruneCounts' = [n \in Nodes |-> Cardinality(prunes[n])]
      /\ silenced' = [n \in Nodes |-> silenced[n] \cup (PrunersOf(n) \cap KeysOf(entries[n]))]
      /\ UNCHANGED <<cache, failed, hasFailed, distances, orders, prunes, messages, rotations>>
  BY DEF PruneConnections
<1>2. PrunersOf(Origin) = {} /\ \A n \in Nodes : PrunersOf(n) \subseteq Nodes
  BY DEF RoundsInv, PrunesHeard, PrunersOf
<1>3. ASSUME NEW n \in Nodes PROVE IsActiveSet(entries'[n], n, silenced'[n])
  <2> DEFINE entry == entries[n]
             after == entries'[n]
             pruners == PrunersOf(n)
             obeyed == silenced[n]
             origins == {Origin}
             none == {}
  <2>1. IsActiveSet(entry, n, obeyed)
    BY ActiveSetsHold DEF RoundsInv, ActiveSets
  <2>2. after = Obey(n, pruners) /\ silenced'[n] = obeyed \cup (pruners \cap KeysOf(entry))
    BY <1>1
  <2>3. CASE n = Origin
    <3>1. after = entry /\ silenced'[n] = obeyed
      BY <1>2, <2>2, <2>3 DEF Obey
    <3>2. IsActiveSet(after, n, silenced'[n])
      <4> HIDE DEF entry, after, obeyed
      <4> QED
        BY <2>1, <3>1
    <3>3. QED
      BY <3>2
  <2>4. CASE n # Origin
    <3>1. after = PruneEntry(entry, pruners, origins, none)
      BY <2>2, <2>4 DEF Obey
    <3>2. origins \in SUBSET Nodes /\ none \in SUBSET Nodes /\ Origin \in origins /\ origins # {}
      BY RoundsConstants
    <3> HIDE DEF entry, after, pruners, obeyed, origins, none
    <3>3. /\ entry \in Seq(ItemsOf(Candidates(n), Nodes)) /\ Len(entry) <= Size
          /\ \A i, j \in 1..Len(entry) : entry[i].node = entry[j].node => i = j
          /\ obeyed \subseteq KeysOf(entry)
          /\ \A i \in 1..Len(entry) : entry[i].node \in obeyed \cup {Origin} => Origin \in entry[i].filter
      BY <2>1 DEF IsActiveSet, IsPeerEntry
    <3>4. Grown(after, entry, pruners, origins, none, Candidates(n), Nodes)
      BY <3>1, <3>2, <3>3, PruneEntryFacts
    <3>5. /\ after \in Seq(ItemsOf(Candidates(n), Nodes))
          /\ Len(after) = Len(entry) /\ KeysOf(after) = KeysOf(entry)
          /\ \A i \in 1..Len(entry) :
               /\ after[i].node = entry[i].node
               /\ after[i].filter = IF entry[i].node \in pruners /\ origins # {}
                                    THEN entry[i].filter \cup origins \cup none ELSE entry[i].filter
      BY <3>4 DEF Grown
    <3>6. IsPeerEntry(after, Candidates(n), Nodes)
      BY <3>3, <3>5 DEF IsPeerEntry
    <3>7. silenced'[n] \subseteq KeysOf(after)
      BY <2>2, <3>3, <3>5
    <3>8. ASSUME NEW i \in 1..Len(after), after[i].node \in silenced'[n] \cup {Origin}
          PROVE  Origin \in after[i].filter
      <4>1. CASE entry[i].node \in pruners
        BY <3>2, <3>5, <4>1
      <4>2. CASE entry[i].node \notin pruners
        BY <2>2, <3>3, <3>5, <3>8, <4>2
      <4>3. QED
        BY <4>1, <4>2
    <3>9. IsActiveSet(after, n, silenced'[n])
      BY <3>3, <3>5, <3>6, <3>7, <3>8 DEF IsActiveSet
    <3>10. QED
      BY <3>9 DEF after
  <2>5. QED
    BY <2>3, <2>4
<1>4. ActiveSets(entries', silenced')
  BY <1>1, <1>3 DEF ActiveSets
<1>5. TypeOK'
  <2>1. silenced' \in [Nodes -> SUBSET Nodes]
    BY <1>1, <1>4, ActiveSetsSuffice
  <2>2. pruneCounts' \in [Nodes -> Nat]
    <3> SUFFICES ASSUME NEW n \in Nodes PROVE Cardinality(prunes[n]) \in Nat
      BY <1>1
    <3>1. IsFiniteSet(prunes[n])
      BY RoundsConstants, FS_Subset DEF RoundsInv, TypeOK
    <3>2. QED
      BY <3>1, FS_CardinalityType
  <2>3. /\ DOMAIN entries' = Nodes
        /\ \A n \in Nodes : entries'[n] \in Seq([node : Candidates(n), filter : SUBSET Nodes])
    BY <1>4, ActiveSetsSuffice
  <2>4. QED
    BY <1>1, <2>1, <2>2, <2>3 DEF RoundsInv, TypeOK
<1>6. PeersOnce' /\ FiltersHold'
  BY <1>4, ActiveSetsSuffice
<1>7. PrunedLinksSilent' /\ PrunesHeard' /\ CopiesVisit'
  BY <1>1 DEF RoundsInv, PrunedLinksSilent, PrunesHeard, CopiesVisit, SendersTo, RanThisRound, Visited
<1>8. WindowsFill'
  BY <1>1 DEF RoundsInv, WindowsFill, SendersTo
<1>9. MessagesSoFar'
  BY <1>1 DEF RoundsInv, MessagesSoFar, SendersTo, PruneMessages
<1>10. QED
  BY <1>5, <1>6, <1>7, <1>8, <1>9 DEF RoundsInv

\* A node that rotates forgets the prunes of the peers it drops.
LEMMA ChanceToRotateRounds == RoundsInv /\ ChanceToRotate => RoundsInv'
<1> SUFFICES ASSUME RoundsInv, ChanceToRotate PROVE RoundsInv'
  OBVIOUS
<1>1. /\ phase = "rotate" /\ phase' = "run"
      /\ silenced' = [n \in Nodes |-> silenced[n] \cap KeysOf(entries'[n])]
      /\ UNCHANGED <<cache, failed, hasFailed, distances, orders, prunes, messages, pruneCounts>>
  BY DEF ChanceToRotate
<1>2. PICK rotating \in SUBSET Nodes :
        /\ rotations + Cardinality(rotating) <= MaxRotations
        /\ rotations' = rotations + Cardinality(rotating)
        /\ entries' \in OneEach([n \in Nodes |-> IF n \in rotating THEN Rotations(n, entries[n])
                                                 ELSE {entries[n]}])
  BY DEF ChanceToRotate
<1> DEFINE choices == [n \in Nodes |-> IF n \in rotating THEN Rotations(n, entries[n])
                                       ELSE {entries[n]}]
<1>3. DOMAIN entries' = Nodes /\ \A n \in Nodes : entries'[n] \in choices[n]
  <2>1. DOMAIN choices = Nodes /\ IsFiniteSet(DOMAIN choices) /\ entries' \in OneEach(choices)
    BY <1>2, RoundsConstants
  <2> HIDE DEF choices
  <2>2. QED
    BY <2>1, OneEachFacts
<1>4. ASSUME NEW n \in Nodes PROVE IsActiveSet(entries'[n], n, silenced'[n])
  <2> DEFINE entry == entries[n]
             after == entries'[n]
             obeyed == silenced[n]
  <2>1. IsActiveSet(entry, n, obeyed)
    BY ActiveSetsHold DEF RoundsInv, ActiveSets
  <2>2. silenced'[n] = obeyed \cap KeysOf(after)
    BY <1>1
  <2>3. CASE n \in rotating
    <3>1. after \in Rotations(n, entry)
      BY <1>3, <2>3
    <3>2. IsActiveSet(after, n, obeyed \cap KeysOf(after))
      <4> HIDE DEF entry, after, obeyed
      <4> QED
        BY <2>1, <3>1, RotationsFacts
    <3>3. QED
      BY <2>2, <3>2
  <2>4. CASE n \notin rotating
    <3>1. after = entry
      BY <1>3, <2>4
    <3>2. silenced'[n] = obeyed
      BY <2>1, <2>2, <3>1 DEF IsActiveSet
    <3>3. QED
      BY <2>1, <3>1, <3>2
  <2>5. QED
    BY <2>3, <2>4
<1>5. ActiveSets(entries', silenced')
  BY <1>3, <1>4 DEF ActiveSets
<1>6. TypeOK'
  <2>1. silenced' \in [Nodes -> SUBSET Nodes]
    BY <1>1, <1>5, ActiveSetsSuffice
  <2>2. rotations' \in 0..MaxRotations
    <3>1. Cardinality(rotating) \in Nat
      BY RoundsConstants, FS_Subset, FS_CardinalityType
    <3>2. rotations \in 0..MaxRotations
      BY DEF RoundsInv, TypeOK
    <3>3. QED
      BY <1>2, <3>1, <3>2, RoundsConstants
  <2>3. /\ DOMAIN entries' = Nodes
        /\ \A n \in Nodes : entries'[n] \in Seq([node : Candidates(n), filter : SUBSET Nodes])
    BY <1>5, ActiveSetsSuffice
  <2>4. QED
    BY <1>1, <2>1, <2>2, <2>3 DEF RoundsInv, TypeOK
<1>7. PeersOnce' /\ FiltersHold'
  BY <1>5, ActiveSetsSuffice
<1>8. PrunedLinksSilent' /\ PrunesHeard' /\ CopiesVisit' /\ MessagesSoFar'
  BY <1>1 DEF RoundsInv, PrunedLinksSilent, PrunesHeard, CopiesVisit, MessagesSoFar,
              SendersTo, RanThisRound, Visited
<1>9. WindowsFill'
  BY <1>1 DEF RoundsInv, WindowsFill, SendersTo
<1>10. QED
  BY <1>6, <1>7, <1>8, <1>9 DEF RoundsInv

\* At the start every node has rotated once, and nothing else has happened.
LEMMA InitRounds == Init => RoundsInv
<1> SUFFICES ASSUME Init PROVE RoundsInv
  OBVIOUS
<1> DEFINE none == <<>>
           choices == [n \in Nodes |-> Rotations(n, none)]
<1>1. /\ phase = "run" /\ entries \in OneEach(choices)
      /\ cache = [n \in Nodes |-> EmptyEntry]
      /\ failed = {} /\ hasFailed = (NumToFail = 0)
      /\ distances = [n \in Nodes |-> Unreached] /\ orders = NoOrders
      /\ prunes = NoPrunes /\ messages = 0 /\ pruneCounts = NoCounts /\ rotations = 0
      /\ silenced = [n \in Nodes |-> {}]
  BY DEF Init, StartWith
<1>2. DOMAIN entries = Nodes /\ \A n \in Nodes : entries[n] \in Rotations(n, none)
  <2>1. DOMAIN choices = Nodes /\ IsFiniteSet(DOMAIN choices)
    BY RoundsConstants
  <2>2. DOMAIN entries = DOMAIN choices /\ \A n \in DOMAIN choices : entries[n] \in choices[n]
    <3> HIDE DEF choices
    <3> QED
      BY <1>1, <2>1, OneEachFacts
  <2>3. QED
    BY <2>1, <2>2
<1>3. ASSUME NEW n \in Nodes PROVE IsActiveSet(entries[n], n, {})
  <2>1. none \in Seq(ItemsOf(Candidates(n), Nodes)) /\ Len(none) = 0
    BY EmptySeq
  <2> DEFINE after == entries[n]
             obeyed == {}
  <2>2. after \in Rotations(n, none) /\ obeyed \subseteq KeysOf(none) /\ obeyed \cap KeysOf(after) = {}
        /\ \A x : x \notin obeyed
    BY <1>2
  <2>3. IsActiveSet(after, n, obeyed \cap KeysOf(after))
    <3> HIDE DEF none, after, obeyed
    <3>1. IsActiveSet(none, n, obeyed)
      BY <2>1, <2>2, RoundsConstants DEF IsActiveSet, IsPeerEntry
    <3>2. QED
      BY <2>2, <3>1, RotationsFacts
  <2>4. QED
    BY <2>2, <2>3
<1> HIDE DEF none
<1>4. ASSUME NEW n \in Nodes
      PROVE  /\ entries[n] \in Seq([node : Candidates(n), filter : SUBSET Nodes])
             /\ DOMAIN entries[n] = 1..Len(entries[n])
  BY <1>3, SeqFacts DEF IsActiveSet, IsPeerEntry, ItemsOf
<1>5. PeersOnce
  BY <1>3, <1>4 DEF PeersOnce, IsActiveSet, IsPeerEntry
<1>6. FiltersHold
  BY <1>1, <1>3, <1>4 DEF FiltersHold, IsActiveSet
<1>7. TypeOK
  <2>1. /\ \A n \in Nodes : IsCacheEntry(cache[n], Nodes)
        /\ DOMAIN cache = Nodes
    BY <1>1, EmptyEntryIs
  <2>2. /\ distances \in [Nodes -> Hops] /\ orders \in [Nodes -> [Nodes -> Hops]]
        /\ prunes \in [Nodes -> SUBSET Nodes] /\ pruneCounts \in [Nodes -> Nat]
        /\ silenced \in [Nodes -> SUBSET Nodes]
    BY <1>1 DEF NoOrders, NoPrunes, NoCounts, Hops
  <2>3. DOMAIN entries = Nodes
        /\ \A n \in Nodes : entries[n] \in Seq([node : Candidates(n), filter : SUBSET Nodes])
    BY <1>2, <1>4
  <2>4. phase \in {"run", "consume", "send", "prune", "rotate"}
        /\ failed \in SUBSET Nodes /\ hasFailed \in BOOLEAN
        /\ messages \in Nat
    BY <1>1
  <2>5. rotations \in 0..MaxRotations
    BY <1>1, RoundsConstants
  <2>6. QED
    BY <2>1, <2>2, <2>3, <2>4, <2>5 DEF TypeOK
<1>8. SendersTo(Origin) = {} /\ \A n \in Nodes : prunes[n] = {}
  BY <1>1, RoundsConstants DEF SendersTo, NoOrders, NoPrunes
<1>9. PrunedLinksSilent /\ PrunesHeard /\ CopiesVisit /\ MessagesSoFar
  BY <1>1, <1>8 DEF PrunedLinksSilent, PrunesHeard, CopiesVisit, MessagesSoFar, RanThisRound
<1>10. WindowsFill
  BY <1>1, <1>8, EmptyEntryIs, RoundsConstants DEF WindowsFill
<1>11. QED
  BY <1>5, <1>6, <1>7, <1>9, <1>10 DEF RoundsInv

\* A step that changes nothing.
LEMMA StutterRounds == RoundsInv /\ UNCHANGED vars => RoundsInv'
<1> SUFFICES ASSUME RoundsInv, UNCHANGED vars PROVE RoundsInv'
  OBVIOUS
<1>1. UNCHANGED <<phase, entries, cache, failed, hasFailed, distances, orders, prunes,
                  messages, pruneCounts, rotations, silenced>>
  BY DEF vars
<1>2. TypeOK' /\ PeersOnce' /\ FiltersHold'
  BY <1>1 DEF RoundsInv, TypeOK, PeersOnce, FiltersHold
<1>3. PrunedLinksSilent' /\ PrunesHeard' /\ CopiesVisit' /\ WindowsFill'
  BY <1>1 DEF RoundsInv, PrunedLinksSilent, PrunesHeard, CopiesVisit, WindowsFill,
              SendersTo, RanThisRound, Visited
<1>4. MessagesSoFar'
  BY <1>1 DEF RoundsInv, MessagesSoFar, SendersTo, PruneMessages
<1>5. QED
  BY <1>2, <1>3, <1>4 DEF RoundsInv

\* RoundsInv is an invariant.
THEOREM RoundsInvariance == Spec => []RoundsInv
<1>1. RoundsInv /\ [Next]_vars => RoundsInv'
  BY FailNodesRounds, RunGossipRounds, ConsumeMessagesRounds, SendPrunesRounds,
     PruneConnectionsRounds, ChanceToRotateRounds, StutterRounds DEF Next
<1>2. QED
  BY InitRounds, <1>1, PTL DEF Spec

-----------------------------------------------------------------------------
(* What the rounds promise.                                                *)

\* A peer that has obeyed a prune sends the pruner nothing until it has
\* rotated the pruner out of its active set.
THEOREM PrunedLinksStaySilent == Spec => []PrunedLinksSilent
<1>1. RoundsInv => PrunedLinksSilent
  BY DEF RoundsInv
<1>2. QED
  BY RoundsInvariance, <1>1, PTL

\* Only nodes that hear of a round prune in it, and they do as soon as their
\* windows are full.
THEOREM PrunesAreDue == Spec => []PrunesWhenDue
<1>1. ASSUME RoundsInv PROVE PrunesWhenDue
  <2>1. RanThisRound => Visited \cap failed \subseteq {Origin}
    BY <1>1 DEF RoundsInv, CopiesVisit
  <2>2. RanThisRound => \A n \in Nodes : prunes[n] # {} => n \in Visited \ failed
    BY <1>1 DEF RoundsInv, CopiesVisit, PrunesHeard, RanThisRound
  <2>3. QED
    BY <1>1, <2>1, <2>2 DEF RoundsInv, WindowsFill, PrunesWhenDue
<1>2. QED
  BY RoundsInvariance, <1>1, PTL

\* The messages of a round are the copies received and the prunes counted.
THEOREM MessagesAccounted == Spec => []MessageAccount
<1>1. ASSUME RoundsInv PROVE MessageAccount
  <2> SUFFICES ASSUME phase = "rotate"
               PROVE  messages = SumFunctionOnSet(
                                   [n \in Nodes |-> Cardinality(SendersTo(n)) + pruneCounts[n]], Nodes)
    BY DEF MessageAccount
  <2> DEFINE received == [n \in Nodes |-> Cardinality(SendersTo(n))]
             counted == [n \in Nodes |-> Cardinality(prunes[n])]
             both == [n \in Nodes |-> Cardinality(SendersTo(n)) + pruneCounts[n]]
  <2>1. messages = SumFunctionOnSet(received, Nodes) + SumFunctionOnSet(counted, Nodes)
        /\ pruneCounts = counted /\ pruneCounts \in [Nodes -> Nat]
    BY <1>1 DEF RoundsInv, TypeOK, MessagesSoFar, PruneMessages
  <2>2. ASSUME NEW n \in Nodes
        PROVE  received[n] \in Nat /\ counted[n] \in Nat /\ both[n] = received[n] + counted[n]
    BY <2>1, SendersFinite
  <2> HIDE DEF received, counted
  <2>3. SumFunctionOnSet(both, Nodes) = SumFunctionOnSet(received, Nodes) + SumFunctionOnSet(counted, Nodes)
    <3> HIDE DEF both
    <3> QED
      BY <2>2, RoundsConstants, SumPlus
  <2>4. QED
    BY <2>1, <2>3
<1>2. QED
  BY RoundsInvariance, <1>1, PTL

-----------------------------------------------------------------------------
(* A cluster that only prunes change: what a round finds, and who is timely.*)

\* With room for its whole active set a node pushes to all peers in it whose
\* filter lets the origin through.
LEMMA WholeSetAnswered ==
  ASSUME NEW n \in Nodes, NEW entry, NEW obeyed, IsActiveSet(entry, n, obeyed), Fanout >= Size
  PROVE  LET answered == GetNodes(entry, Origin)
         IN  \A x : x \in {answered[i] : i \in {i \in DOMAIN answered : i <= Fanout}} <=>
                      \E j \in 1..Len(entry) : entry[j].node = x /\ Origin \notin entry[j].filter
<1> DEFINE answered == GetNodes(entry, Origin)
           first == {answered[i] : i \in {i \in DOMAIN answered : i <= Fanout}}
<1>1. entry \in Seq(ItemsOf(Candidates(n), Nodes)) /\ Len(entry) <= Size
  BY DEF IsActiveSet, IsPeerEntry
<1>2. IsAnswered(answered, Len(entry), entry, Candidates(n), Origin)
  BY <1>1, GetNodesAnswers
<1> HIDE DEF answered
<1>3. /\ answered \in Seq(Candidates(n)) /\ Len(answered) <= Len(entry)
      /\ \A x \in Candidates(n) :
           x \in ToSet(answered) <=> \E j \in 1..Len(entry) : entry[j].node = x /\ Origin \notin entry[j].filter
  BY <1>2 DEF IsAnswered
<1>4. /\ DOMAIN answered = 1..Len(answered) /\ Len(answered) \in Nat /\ Len(entry) \in Nat
      /\ \A i \in 1..Len(answered) : answered[i] \in Candidates(n)
  BY <1>1, <1>3, SeqFacts
<1>5. \A i \in DOMAIN answered : i <= Fanout
  BY <1>1, <1>3, <1>4, RoundsAssumption
<1>6. first = ToSet(answered)
  BY <1>5 DEF ToSet
<1>7. \A j \in 1..Len(entry) : entry[j].node \in Candidates(n)
  <2>1. \A j \in 1..Len(entry) : entry[j] \in ItemsOf(Candidates(n), Nodes)
    BY <1>1, SeqFacts
  <2>2. QED
    BY <2>1 DEF ItemsOf
<1>8. \A x \in ToSet(answered) : x \in Candidates(n)
  BY <1>4 DEF ToSet
<1>9. \A x : x \in first <=> \E j \in 1..Len(entry) : entry[j].node = x /\ Origin \notin entry[j].filter
  BY <1>3, <1>6, <1>7, <1>8
<1>10. QED
  BY <1>9 DEF answered

\* The pushers of a node, in a strict order.
LEMMA PushersOrdered ==
  ASSUME TypeOK, NEW n \in Nodes
  PROVE  /\ Pushers(n) \subseteq Visited /\ Visited \subseteq Nodes /\ IsFiniteSet(Pushers(n))
         /\ \A a \in Visited : distances[a] \in Nat /\ a \in Nat
         /\ \A a, b \in Visited : /\ a = b \/ Nearer(a, b) \/ Nearer(b, a)
                                  /\ ~(Nearer(a, b) /\ Nearer(b, a)) /\ ~Nearer(a, a)
         /\ \A a, b, c \in Visited : Nearer(a, b) /\ Nearer(b, c) => Nearer(a, c)
<1>1. Pushers(n) \subseteq Visited /\ Visited \subseteq Nodes
  BY DEF Pushers, Visited
<1>2. IsFiniteSet(Pushers(n))
  BY <1>1, RoundsConstants, FS_Subset
<1>3. \A a \in Visited : distances[a] \in Nat /\ a \in Nat
  BY <1>1, RoundsAssumption DEF TypeOK, Hops, Visited
<1>4. \A a, b \in Visited : /\ a = b \/ Nearer(a, b) \/ Nearer(b, a)
                            /\ ~(Nearer(a, b) /\ Nearer(b, a)) /\ ~Nearer(a, a)
  BY <1>3 DEF Nearer
<1>5. \A a, b, c \in Visited : Nearer(a, b) /\ Nearer(b, c) => Nearer(a, c)
  BY <1>3 DEF Nearer
<1>6. QED
  BY <1>1, <1>2, <1>3, <1>4, <1>5

\* The pushers ahead of one.
NearerPushers(n, s) == {t \in Pushers(n) : Nearer(t, s)}

\* No more than NumDupsThreshold of them are timely: those before the last one
\* that is, and it.
LEMMA FewAreTimely ==
  ASSUME TypeOK, NEW n \in Nodes
  PROVE  IsFiniteSet(TimelyPushers(n)) /\ Cardinality(TimelyPushers(n)) <= NumDupsThreshold
<1> DEFINE K == NumDupsThreshold
           T == TimelyPushers(n)
           rank(s) == Cardinality(NearerPushers(n, s))
           Left == {K - rank(s) : s \in T}
<1>1. K \in Nat /\ K # 0
  BY CacheEntryAssumption
<1>2. /\ Pushers(n) \subseteq Visited /\ IsFiniteSet(Pushers(n))
      /\ \A a, b \in Visited : /\ a = b \/ Nearer(a, b) \/ Nearer(b, a)
                               /\ ~(Nearer(a, b) /\ Nearer(b, a)) /\ ~Nearer(a, a)
      /\ \A a, b, c \in Visited : Nearer(a, b) /\ Nearer(b, c) => Nearer(a, c)
  BY PushersOrdered
<1>3. T \subseteq Pushers(n) /\ \A s \in T : rank(s) < K
  BY DEF TimelyPushers, NearerPushers
<1>4. \A s \in Pushers(n) : IsFiniteSet(NearerPushers(n, s)) /\ rank(s) \in Nat
  <2> SUFFICES ASSUME NEW s \in Pushers(n) PROVE IsFiniteSet(NearerPushers(n, s)) /\ rank(s) \in Nat
    OBVIOUS
  <2>1. NearerPushers(n, s) \subseteq Pushers(n)
    BY DEF NearerPushers
  <2>2. QED
    BY <1>2, <2>1, FS_Subset, FS_CardinalityType
<1>5. IsFiniteSet(T)
  BY <1>2, <1>3, FS_Subset
<1> HIDE DEF K, T, rank
<1>6. CASE T = {}
  BY <1>1, <1>5, <1>6, FS_EmptySet DEF T, K
<1>7. CASE T # {}
  <2>1. PICK m \in T : \A s \in T : rank(s) <= rank(m)
    <3>1. Left # {} /\ Left \in SUBSET Nat
      BY <1>1, <1>3, <1>4, <1>7
    <3>2. PICK l \in Left : \A j \in Left : l <= j
      <4> HIDE DEF Left
      <4> QED
        BY <3>1, LeastNatural
    <3>3. PICK m \in T : l = K - rank(m)
      OBVIOUS
    <3>4. \A s \in T : K - rank(m) <= K - rank(s)
      BY <3>2, <3>3
    <3>5. \A s \in T : rank(s) <= rank(m)
      <4> TAKE s \in T
      <4>1. rank(s) \in Nat /\ rank(m) \in Nat
        BY <1>3, <1>4
      <4>2. QED
        BY <1>1, <3>4, <4>1
    <3>6. QED
      BY <3>5
  <2>2. m \in Pushers(n) /\ m \in Visited
    BY <1>2, <1>3
  <2>3. ASSUME NEW s \in T, s # m PROVE s \in NearerPushers(n, m)
    <3>1. s \in Pushers(n) /\ s \in Visited
      BY <1>2, <1>3
    <3>2. ASSUME Nearer(m, s) PROVE FALSE
      <4> DEFINE mine == NearerPushers(n, m)
                 its == NearerPushers(n, s)
      <4>1. mine \cup {m} \subseteq its /\ m \notin mine
        BY <1>2, <2>2, <3>1, <3>2 DEF NearerPushers
      <4>2. IsFiniteSet(mine) /\ IsFiniteSet(its) /\ Cardinality(mine) = rank(m) /\ Cardinality(its) = rank(s)
            /\ rank(m) \in Nat /\ rank(s) \in Nat
        BY <1>4, <2>2, <3>1 DEF rank
      <4> HIDE DEF mine, its
      <4>3. Cardinality(mine \cup {m}) = rank(m) + 1
        BY <4>1, <4>2, FS_AddElement
      <4>4. Cardinality(mine \cup {m}) <= rank(s)
        BY <4>1, <4>2, FS_Subset
      <4>5. QED
        BY <2>1, <4>2, <4>3, <4>4
    <3>3. Nearer(s, m)
      BY <1>2, <2>2, <2>3, <3>1, <3>2
    <3>4. QED
      BY <3>1, <3>3 DEF NearerPushers
  <2> DEFINE mine == NearerPushers(n, m)
  <2>4. T \subseteq mine \cup {m}
    BY <2>3
  <2>5. IsFiniteSet(mine) /\ Cardinality(mine) = rank(m) /\ rank(m) \in Nat
    BY <1>4, <2>2 DEF rank
  <2>6. Cardinality(mine \cup {m}) <= rank(m) + 1 /\ IsFiniteSet(mine \cup {m})
    <3> HIDE DEF mine
    <3>1. Cardinality(mine \cup {m}) = IF m \in mine THEN rank(m) ELSE rank(m) + 1
      BY <2>5, FS_AddElement
    <3>2. QED
      BY <2>5, <3>1, FS_AddElement
  <2>7. Cardinality(T) <= Cardinality(mine \cup {m}) /\ Cardinality(T) \in Nat
        /\ Cardinality(mine \cup {m}) \in Nat
    <3> HIDE DEF mine
    <3> QED
      BY <1>5, <2>4, <2>6, FS_Subset, FS_CardinalityType
  <2>8. rank(m) < K
    BY <1>3
  <2>9. Cardinality(T) <= K
    <3> HIDE DEF mine
    <3> QED
      BY <1>1, <2>5, <2>6, <2>7, <2>8
  <2>10. QED
    BY <1>5, <2>9 DEF T, K
<1>8. QED
  BY <1>6, <1>7

\* What the pushers are depends on the distances and the active sets alone.
LEMMA PushersKept ==
  ASSUME distances' = distances, \A n \in Nodes : PushTargets(n)' = PushTargets(n)
  PROVE  /\ Visited' = Visited
         /\ \A n \in Nodes : /\ Pushers(n)' = Pushers(n)
                             /\ TimelyPushers(n)' = TimelyPushers(n)
                             /\ \A f : FirstPusher(n, f)' <=> FirstPusher(n, f)
<1>1. Visited' = Visited /\ \A a, b : Nearer(a, b)' <=> Nearer(a, b)
  BY DEF Visited, Nearer
<1>2. \A n \in Nodes : Pushers(n)' = Pushers(n)
  BY <1>1 DEF Pushers, Visited
<1>3. \A n \in Nodes : TimelyPushers(n)' = TimelyPushers(n)
  BY <1>1, <1>2 DEF TimelyPushers
<1>4. \A n \in Nodes : \A f : FirstPusher(n, f)' <=> FirstPusher(n, f)
  BY <1>1, <1>2 DEF FirstPusher
<1>5. QED
  BY <1>1, <1>2, <1>3, <1>4

\* So what stands of a node's window goes on standing while the window does.
WindowStands(n) ==
  LET scored == {s \in SendersOf(cache[n]) : cache[n].scores[s] > 0}
  IN  /\ SendersOf(cache[n]) \subseteq Pushers(n)
      /\ scored \subseteq TimelyPushers(n)
      /\ cache[n].upserts > 0 => \E f \in scored : FirstPusher(n, f)

\* A window that stands does so after a step that leaves it, the distances and
\* the targets of pushes alone.
LEMMA WindowKept ==
  ASSUME NEW n \in Nodes, WindowStands(n), cache'[n] = cache[n], distances' = distances,
         \A m \in Nodes : PushTargets(m)' = PushTargets(m)
  PROVE  WindowStands(n)'
<1>1. /\ Pushers(n)' = Pushers(n) /\ TimelyPushers(n)' = TimelyPushers(n)
      /\ \A f : FirstPusher(n, f)' <=> FirstPusher(n, f)
  BY PushersKept
<1>2. QED
  BY <1>1 DEF WindowStands

\* A fresh window stands.
LEMMA EmptyStands ==
  ASSUME NEW n \in Nodes
  PROVE  /\ cache[n] = EmptyEntry => WindowStands(n)
         /\ cache'[n] = EmptyEntry => WindowStands(n)'
BY EmptyEntryIs DEF WindowStands

\* WindowsStand says so of every node.
LEMMA WindowsAll == WindowsStand <=> \A n \in Nodes : WindowStands(n)
BY DEF WindowsStand, WindowStands

\* At the start nothing has been visited, and all windows are empty.
LEMMA InitStatic == StaticCluster /\ Init => StaticInv
<1> SUFFICES ASSUME StaticCluster, Init PROVE StaticInv
  OBVIOUS
<1>1. /\ phase = "run" /\ cache = [n \in Nodes |-> EmptyEntry] /\ failed = {}
      /\ hasFailed = (NumToFail = 0) /\ distances = [n \in Nodes |-> Unreached]
  BY DEF Init, StartWith
<1>2. Visited = {} /\ hasFailed
  BY <1>1 DEF Visited, StaticCluster
<1>3. DistancesStand
  BY <1>1, <1>2 DEF DistancesStand
<1>4. WindowsStand
  BY <1>1, EmptyStands, WindowsAll
<1>5. PrunesSpareFirst
  BY <1>1 DEF PrunesSpareFirst
<1>6. QED
  BY <1>3, <1>4, <1>5 DEF StaticInv

\* A round finds the distances the last one found, if there was one.
LEMMA RunGossipStands ==
  ASSUME RoundsInv, DistancesStand, RunGossip
  PROVE  /\ Visited # {} => distances' = distances
         /\ DistancesStand'
         /\ \A n \in Nodes : PushTargets(n)' = PushTargets(n)
<1> DEFINE links == [n \in Nodes |-> PushTargets(n)]
<1>1. /\ phase' = "consume" /\ UNCHANGED <<entries, cache, failed, hasFailed>>
      /\ distances' = HopsFrom(links, Origin, Nodes, Unreached)
      /\ orders' = [d \in Nodes |-> [s \in Nodes |->
                      IF distances'[s] # Unreached /\ d \in links[s]
                      THEN distances'[s] + 1 ELSE Unreached]]
  BY DEF RunGossip
<1>2. \A n \in Nodes : PushTargets(n)' = PushTargets(n)
  BY <1>1 DEF PushTargets
<1>3. Visited # {} => distances' = distances
  BY <1>1 DEF DistancesStand
<1>4. links \in [Nodes -> SUBSET Nodes]
  <2>1. \A n \in Nodes : PushTargets(n) \subseteq Nodes \ {n}
    BY ActiveSetsHold, PushTargetsFacts DEF RoundsInv
  <2>2. QED
    BY <2>1
<1>5. distances'[Origin] = 0
  <2> DEFINE reached == {n \in Nodes : distances'[n] # Unreached}
  <2> HIDE DEF links
  <2>1. Certify(Nodes, links, Origin, Unreached, reached, distances')
    BY <1>1, <1>4, RoundsConstants, HopsFromCertifies
  <2>2. QED
    BY <2>1 DEF Certify
<1>6. Visited' # {}
  <2>1. Origin \in Visited'
    BY <1>5, RoundsConstants DEF Visited
  <2>2. QED
    BY <2>1
<1>7. \A d, s \in Nodes :
        orders'[d][s] = IF s \in Pushers(d)' THEN distances'[s] + 1 ELSE Unreached
  <2> SUFFICES ASSUME NEW d \in Nodes, NEW s \in Nodes
               PROVE  orders'[d][s] = IF s \in Pushers(d)' THEN distances'[s] + 1 ELSE Unreached
    OBVIOUS
  <2>1. s \in Pushers(d)' <=> distances'[s] # Unreached /\ d \in PushTargets(s)
    BY <1>2 DEF Pushers, Visited
  <2>2. orders'[d][s] = IF distances'[s] # Unreached /\ d \in links[s]
                        THEN distances'[s] + 1 ELSE Unreached
    BY <1>1
  <2>3. QED
    BY <2>1, <2>2
<1>8. distances' = HopsFrom([n \in Nodes |-> PushTargets(n)'], Origin, Nodes, Unreached)
  <2>1. [n \in Nodes |-> PushTargets(n)'] = links
    BY <1>2
  <2>2. QED
    BY <1>1, <2>1
<1>9. DistancesStand'
  BY <1>1, <1>6, <1>7, <1>8 DEF DistancesStand
<1>10. QED
  BY <1>2, <1>3, <1>9

\* So the windows stand: they were empty before the first round.
LEMMA RunGossipStatic == RoundsInv /\ StaticInv /\ RunGossip => StaticInv'
<1> SUFFICES ASSUME RoundsInv, StaticInv, RunGossip PROVE StaticInv'
  OBVIOUS
<1>1. phase' = "consume" /\ cache' = cache
  BY DEF RunGossip
<1>2. DistancesStand' /\ (Visited # {} => distances' = distances)
      /\ \A n \in Nodes : PushTargets(n)' = PushTargets(n)
  BY RunGossipStands DEF StaticInv
<1>3. ASSUME NEW n \in Nodes PROVE WindowStands(n)'
  <2>1. WindowStands(n)
    BY WindowsAll DEF StaticInv
  <2>2. CASE Visited # {}
    BY <1>1, <1>2, <2>1, <2>2, WindowKept
  <2>3. CASE Visited = {}
    <3>1. Pushers(n) = {}
      BY <2>3 DEF Pushers
    <3>2. SendersOf(cache[n]) = {} /\ ~(cache[n].upserts > 0)
      BY <2>1, <3>1 DEF WindowStands, FirstPusher
    <3>3. QED
      BY <1>1, <3>2 DEF WindowStands
  <2>4. QED
    BY <2>2, <2>3
<1>4. WindowsStand'
  BY <1>3 DEF WindowsStand, WindowStands
<1>5. PrunesSpareFirst'
  BY <1>1 DEF PrunesSpareFirst
<1>6. QED
  BY <1>2, <1>4, <1>5 DEF StaticInv

\* In a round, the senders of copies are the pushers, and in their order the
\* copies arrive.
LEMMA PushersSend ==
  ASSUME TypeOK, DistancesStand, phase \in {"consume", "send", "prune"}, NEW n \in Nodes
  PROVE  /\ SendersTo(n) = Pushers(n)
         /\ \A a, b \in Pushers(n) : ArrivesBefore(n, a, b) <=> Nearer(a, b)
<1>1. \A s \in Nodes : orders[n][s] = IF s \in Pushers(n) THEN distances[s] + 1 ELSE Unreached
  BY DEF DistancesStand
<1>2. Pushers(n) \subseteq Nodes /\ \A s \in Pushers(n) : distances[s] \in Nat
  BY PushersOrdered
<1>3. SendersTo(n) = Pushers(n)
  <2>1. \A s \in Pushers(n) : distances[s] + 1 # Unreached
    BY <1>2, RoundsConstants
  <2>2. QED
    BY <1>1, <1>2, <2>1 DEF SendersTo
<1>4. \A a, b \in Pushers(n) : ArrivesBefore(n, a, b) <=> Nearer(a, b)
  <2> SUFFICES ASSUME NEW a \in Pushers(n), NEW b \in Pushers(n)
               PROVE  ArrivesBefore(n, a, b) <=> Nearer(a, b)
    OBVIOUS
  <2>1. orders[n][a] = distances[a] + 1 /\ orders[n][b] = distances[b] + 1
        /\ distances[a] \in Nat /\ distances[b] \in Nat
    BY <1>1, <1>2
  <2>2. QED
    BY <2>1 DEF ArrivesBefore, Nearer
<1>5. QED
  BY <1>3, <1>4

-----------------------------------------------------------------------------
(* There a round scores the senders the last one scored, and prunes others.*)

\* The places before NumDupsThreshold in the order of arrival are timely.
LEMMA FirstAreTimely ==
  ASSUME TypeOK, NEW n \in Nodes, NEW N \in Nat, NEW r \in [1..N -> Pushers(n)],
         \A x \in Pushers(n) : \E i \in 1..N : r[i] = x,
         \A i, j \in 1..N : i < j => Nearer(r[i], r[j])
  PROVE  /\ \A j \in 1..N : j <= NumDupsThreshold => r[j] \in TimelyPushers(n)
         /\ N > 0 => FirstPusher(n, r[1])
<1>1. /\ Pushers(n) \subseteq Visited /\ IsFiniteSet(Pushers(n))
      /\ \A a, b \in Visited : ~(Nearer(a, b) /\ Nearer(b, a)) /\ ~Nearer(a, a)
  BY PushersOrdered
<1>2. ASSUME NEW j \in 1..N, j <= NumDupsThreshold PROVE r[j] \in TimelyPushers(n)
  <2> DEFINE nearer == NearerPushers(n, r[j])
             D == 1..(j - 1)
             before == {r[i] : i \in D}
  <2>1. nearer \subseteq before
    <3> SUFFICES ASSUME NEW x \in nearer PROVE x \in before
      OBVIOUS
    <3>1. x \in Pushers(n) /\ Nearer(x, r[j])
      BY DEF NearerPushers
    <3>2. PICK i \in 1..N : r[i] = x
      BY <3>1
    <3>3. r[j] \in Visited /\ x \in Visited
      BY <1>1, <3>1
    <3>4. ~(j < i) /\ i # j
      BY <1>1, <3>1, <3>2, <3>3
    <3>5. i \in 1..(j - 1)
      BY <3>4
    <3>6. QED
      BY <3>2, <3>5
  <2>2. IsFiniteSet(before) /\ Cardinality(before) <= j - 1
    <3>1. j - 1 \in Nat
      OBVIOUS
    <3>2. QED
      BY <3>1, FirstPlaces
  <2> HIDE DEF nearer, before
  <2>3. Cardinality(nearer) <= Cardinality(before) /\ Cardinality(nearer) \in Nat
        /\ Cardinality(before) \in Nat
    BY <2>1, <2>2, FS_Subset, FS_CardinalityType
  <2>4. Cardinality(nearer) < NumDupsThreshold
    BY <1>2, <2>2, <2>3, CacheEntryAssumption
  <2>5. r[j] \in Pushers(n)
    OBVIOUS
  <2>6. QED
    BY <2>4, <2>5 DEF TimelyPushers, nearer, NearerPushers
<1>3. ASSUME N > 0 PROVE FirstPusher(n, r[1])
  <2>1. 1 \in 1..N
    BY <1>3
  <2>2. ASSUME NEW s \in Pushers(n) PROVE s = r[1] \/ Nearer(r[1], s)
    <3>1. PICK i \in 1..N : r[i] = s
      OBVIOUS
    <3>2. i = 1 \/ 1 < i
      OBVIOUS
    <3>3. QED
      BY <2>1, <3>1, <3>2
  <2>3. QED
    BY <2>1, <2>2 DEF FirstPusher
<1>4. QED
  BY <1>2, <1>3

\* Every round scores the same senders, the first among them.
LEMMA ConsumeStatic == RoundsInv /\ StaticInv /\ ConsumeMessages => StaticInv'
<1> SUFFICES ASSUME RoundsInv, StaticInv, ConsumeMessages PROVE StaticInv'
  OBVIOUS
<1> DEFINE choices == [n \in Nodes |-> IF n = Origin THEN {cache[n]}
                                       ELSE {RecordAll(cache[n], r) : r \in ArrivalOrders(n)}]
<1>1. /\ phase = "consume" /\ phase' = "send" /\ cache' \in OneEach(choices)
      /\ UNCHANGED <<entries, failed, hasFailed, distances, orders>>
  BY DEF ConsumeMessages
<1>2. \A n \in Nodes : cache'[n] \in choices[n]
  <2>1. DOMAIN choices = Nodes /\ IsFiniteSet(DOMAIN choices)
    BY RoundsConstants
  <2> HIDE DEF choices
  <2>2. QED
    BY <1>1, <2>1, OneEachFacts
<1>3. TypeOK /\ DistancesStand
  BY DEF RoundsInv, StaticInv
<1>4. \A n \in Nodes : PushTargets(n)' = PushTargets(n)
  BY <1>1 DEF PushTargets
<1>5. /\ Visited' = Visited
      /\ \A n \in Nodes : /\ Pushers(n)' = Pushers(n) /\ TimelyPushers(n)' = TimelyPushers(n)
                          /\ \A f : FirstPusher(n, f)' <=> FirstPusher(n, f)
  BY <1>1, <1>4, PushersKept
<1>6. DistancesStand'
  <2>1. [n \in Nodes |-> PushTargets(n)'] = [n \in Nodes |-> PushTargets(n)]
    BY <1>4
  <2>2. QED
    BY <1>1, <1>3, <1>5, <2>1 DEF DistancesStand
<1>7. ASSUME NEW n \in Nodes PROVE WindowStands(n)'
  <2> DEFINE e == cache[n]
             new == cache'[n]
  <2>1. WindowStands(n)
    BY WindowsAll DEF StaticInv
  <2>2. CASE n = Origin
    <3>1. cache'[n] = cache[n]
      BY <1>2, <2>2
    <3>2. QED
      BY <1>1, <1>4, <2>1, <3>1, WindowKept
  <2>3. CASE n # Origin
    <3>1. PICK r \in ArrivalOrders(n) : new = RecordAll(e, r)
      BY <1>2, <2>3
    <3>2. /\ SendersTo(n) = Pushers(n)
          /\ \A a, b \in Pushers(n) : ArrivesBefore(n, a, b) <=> Nearer(a, b)
      BY <1>1, <1>3, PushersSend
    <3>3. /\ r \in SetToSeqs(Pushers(n))
          /\ \A i, j \in DOMAIN r : i < j => ArrivesBefore(n, r[i], r[j])
      BY <3>2 DEF ArrivalOrders
    <3>4. /\ IsFiniteSet(Pushers(n)) /\ Pushers(n) \subseteq Nodes
          /\ \A s \in Pushers(n) : s \in Visited
      BY <1>3, PushersOrdered
    <3> DEFINE N == Cardinality(Pushers(n))
    <3>5. /\ N \in Nat /\ r \in [1..N -> Pushers(n)] /\ Len(r) = N
          /\ \A x \in Pushers(n) : \E i \in 1..N : r[i] = x
      BY <3>3, <3>4, ListingFacts
    <3> HIDE DEF N
    <3>6. \A i, j \in 1..N : i < j => Nearer(r[i], r[j])
      BY <3>2, <3>3, <3>5
    <3>7. /\ \A j \in 1..N : j <= NumDupsThreshold => r[j] \in TimelyPushers(n)
          /\ N > 0 => FirstPusher(n, r[1])
      BY <1>3, <3>5, <3>6, FirstAreTimely
    <3> HIDE DEF e, new
    <3>8. IsCacheEntry(e, Nodes)
      BY <1>3 DEF TypeOK, e
    <3>9. Len(r) \in Nat /\ \A i \in 1..Len(r) : r[i] \in Nodes
      BY <3>4, <3>5
    <3>10. IsScored(new, N, e, r)
      BY <3>1, <3>5, <3>8, <3>9, RecordAllScores
    <3>11. IsCacheEntry(new, Nodes) /\ new.upserts = IF N = 0 THEN e.upserts ELSE e.upserts + 1
      BY <3>1, <3>5, <3>8, <3>9, RecordAllCounts
    <3> DEFINE held == {s \in SendersOf(e) : e.scores[s] > 0}
               scored == {s \in SendersOf(new) : new.scores[s] > 0}
    <3>12. /\ SendersOf(e) \subseteq Pushers(n) /\ held \subseteq TimelyPushers(n)
           /\ e.upserts > 0 => \E f \in held : FirstPusher(n, f)
      BY <2>1 DEF WindowStands, e
    <3>13. SendersOf(new) \subseteq Pushers(n)
      BY <3>5, <3>10, <3>12 DEF IsScored
    <3>14. scored \subseteq TimelyPushers(n)
      <4> SUFFICES ASSUME NEW s \in SendersOf(new), new.scores[s] > 0 PROVE s \in TimelyPushers(n)
        OBVIOUS
      <4>1. \/ s \in SendersOf(e) /\ e.scores[s] > 0
            \/ \E j \in 1..N : j <= NumDupsThreshold /\ s = r[j]
        BY <3>10 DEF IsScored
      <4>2. QED
        BY <3>7, <3>12, <4>1
    <3>15. held \subseteq scored
      <4> SUFFICES ASSUME NEW s \in SendersOf(e), e.scores[s] > 0
                   PROVE  s \in SendersOf(new) /\ new.scores[s] > 0
        OBVIOUS
      <4>1. s \in SendersOf(new) /\ e.scores[s] <= new.scores[s]
        BY <3>10 DEF IsScored
      <4>2. e.scores[s] \in Nat /\ new.scores[s] \in Nat
        BY <3>8, <3>11, <4>1 DEF IsCacheEntry
      <4>3. QED
        BY <4>1, <4>2
    <3>16. new.upserts > 0 => \E f \in scored : FirstPusher(n, f)
      <4>1. CASE e.upserts > 0
        BY <3>12, <3>15, <4>1
      <4>2. CASE N > 0
        BY <3>7, <3>10, <4>2 DEF IsScored
      <4>3. CASE ~(e.upserts > 0) /\ ~(N > 0)
        BY <3>5, <3>11, <4>3
      <4>4. QED
        BY <4>1, <4>2, <4>3
    <3>17. QED
      BY <1>5, <3>13, <3>14, <3>16 DEF WindowStands, new
  <2>4. QED
    BY <2>2, <2>3
<1>8. WindowsStand'
  BY <1>7 DEF WindowsStand, WindowStands
<1>9. PrunesSpareFirst'
  BY <1>1 DEF PrunesSpareFirst
<1>10. QED
  BY <1>6, <1>8, <1>9 DEF StaticInv

\* Of a window that stands a prune cuts off neither the first pusher, whom
\* fewer than the minimum outscore, nor too many.
LEMMA WindowSpares ==
  ASSUME TypeOK, StaticCluster, NEW n \in Nodes, WindowStands(n), cache[n].upserts > 0,
         NEW cut \in PruneOutcomes(cache[n], Stakes, n, Origin, ThresholdPct, MinIngressNodes)
  PROVE  /\ cut \ {Origin} # {} => Cardinality(Pushers(n) \ (cut \ {Origin})) >= MinIngressNodes
         /\ \E f \in Pushers(n) \ (cut \ {Origin}) : FirstPusher(n, f)
<1> DEFINE e == cache[n]
           scored == {s \in SendersOf(e) : e.scores[s] > 0}
<1>1. IsCacheEntry(e, Nodes) /\ MinIngressNodes \in Nat /\ NumDupsThreshold \in Nat
      /\ MinIngressNodes >= NumDupsThreshold
  BY RoundsAssumption, CacheEntryAssumption DEF TypeOK, StaticCluster
<1>2. /\ SendersOf(e) \subseteq Pushers(n) /\ scored \subseteq TimelyPushers(n)
      /\ \E f \in scored : FirstPusher(n, f)
  BY DEF WindowStands
<1>3. IsFiniteSet(Pushers(n)) /\ IsFiniteSet(TimelyPushers(n))
      /\ Cardinality(TimelyPushers(n)) <= NumDupsThreshold
  BY PushersOrdered, FewAreTimely
<1>4. cut \in PruneOutcomes(e, Stakes, n, Origin, ThresholdPct, MinIngressNodes)
  OBVIOUS
<1> HIDE DEF e
<1>5. IsFiniteSet(SendersOf(e)) /\ e.scores \in [SendersOf(e) -> Nat]
  BY <1>1, <1>2, <1>3, FS_Subset DEF IsCacheEntry
<1>6. /\ cut # {} => Cardinality(SendersOf(e) \ cut) >= MinIngressNodes
      /\ \A f \in SendersOf(e) :
           Cardinality({s \in SendersOf(e) : e.scores[s] >= e.scores[f]}) <= MinIngressNodes => f \notin cut
  BY <1>1, <1>4, <1>5, CutSpares
<1>7. ASSUME cut \ {Origin} # {} PROVE Cardinality(Pushers(n) \ (cut \ {Origin})) >= MinIngressNodes
  <2> DEFINE kept == SendersOf(e) \ cut
             left == Pushers(n) \ (cut \ {Origin})
  <2>1. kept \subseteq left /\ IsFiniteSet(left) /\ Cardinality(kept) >= MinIngressNodes
    BY <1>2, <1>3, <1>6, <1>7, FS_Subset
  <2> HIDE DEF kept, left
  <2>2. IsFiniteSet(kept) /\ Cardinality(kept) <= Cardinality(left)
        /\ Cardinality(kept) \in Nat /\ Cardinality(left) \in Nat
    BY <2>1, FS_Subset, FS_CardinalityType
  <2>3. Cardinality(left) >= MinIngressNodes
    BY <1>1, <2>1, <2>2
  <2>4. QED
    BY <2>3 DEF left
<1>8. PICK f \in scored : FirstPusher(n, f)
  BY <1>2
<1>9. f \notin cut
  <2> DEFINE above == {s \in SendersOf(e) : e.scores[s] >= e.scores[f]}
  <2>1. f \in SendersOf(e) /\ e.scores[f] > 0
    OBVIOUS
  <2>2. above \subseteq scored
    <3> SUFFICES ASSUME NEW s \in SendersOf(e), e.scores[s] >= e.scores[f] PROVE e.scores[s] > 0
      OBVIOUS
    <3>1. e.scores[s] \in Nat /\ e.scores[f] \in Nat
      BY <1>5, <2>1
    <3>2. QED
      BY <2>1, <3>1
  <2> DEFINE timely == TimelyPushers(n)
  <2>3. above \subseteq timely /\ IsFiniteSet(timely) /\ Cardinality(timely) <= NumDupsThreshold
    BY <1>2, <1>3, <2>2
  <2> HIDE DEF above, timely
  <2>4. Cardinality(above) <= Cardinality(timely) /\ Cardinality(above) \in Nat /\ Cardinality(timely) \in Nat
    BY <2>3, FS_Subset, FS_CardinalityType
  <2>5. Cardinality(above) <= MinIngressNodes
    BY <1>1, <2>3, <2>4
  <2>6. QED
    BY <1>6, <2>1, <2>5 DEF above
<1>10. f \in Pushers(n) \ (cut \ {Origin})
  BY <1>8, <1>9 DEF FirstPusher
<1>11. QED
  BY <1>7, <1>8, <1>10

\* So the prunes of a round spare the first pushers.
LEMMA SendStatic == StaticCluster /\ RoundsInv /\ StaticInv /\ SendPrunes => StaticInv'
<1> SUFFICES ASSUME StaticCluster, RoundsInv, StaticInv, SendPrunes PROVE StaticInv'
  OBVIOUS
<1> DEFINE choices == [n \in Nodes |-> PruneChoices(n)]
<1>1. /\ phase = "send" /\ phase' = "prune" /\ prunes' \in OneEach(choices)
      /\ cache' = [n \in Nodes |-> IF Ready(n) THEN EmptyEntry ELSE cache[n]]
      /\ UNCHANGED <<entries, failed, hasFailed, distances, orders>>
  BY DEF SendPrunes
<1>2. \A n \in Nodes : prunes'[n] \in PruneChoices(n)
  <2>1. DOMAIN choices = Nodes /\ IsFiniteSet(DOMAIN choices)
    BY RoundsConstants
  <2> HIDE DEF choices
  <2>2. \A n \in DOMAIN choices : prunes'[n] \in choices[n]
    BY <1>1, <2>1, OneEachFacts
  <2>3. QED
    BY <2>1, <2>2 DEF choices
<1>3. TypeOK /\ DistancesStand
  BY DEF RoundsInv, StaticInv
<1>4. \A n \in Nodes : PushTargets(n)' = PushTargets(n)
  BY <1>1 DEF PushTargets
<1>5. /\ Visited' = Visited
      /\ \A n \in Nodes : /\ Pushers(n)' = Pushers(n)
                          /\ \A f : FirstPusher(n, f)' <=> FirstPusher(n, f)
  BY <1>1, <1>4, PushersKept
<1>6. DistancesStand'
  <2>1. [n \in Nodes |-> PushTargets(n)'] = [n \in Nodes |-> PushTargets(n)]
    BY <1>4
  <2>2. QED
    BY <1>1, <1>3, <1>5, <2>1 DEF DistancesStand
<1>7. ASSUME NEW n \in Nodes PROVE WindowStands(n)'
  <2>1. WindowStands(n)
    BY WindowsAll DEF StaticInv
  <2>2. CASE Ready(n)
    BY <1>1, <2>2, EmptyStands
  <2>3. CASE ~Ready(n)
    <3>1. cache'[n] = cache[n]
      BY <1>1, <2>3
    <3>2. QED
      BY <1>1, <1>4, <2>1, <3>1, WindowKept
  <2>4. QED
    BY <2>2, <2>3
<1>8. WindowsStand'
  BY <1>7 DEF WindowsStand, WindowStands
<1>9. PrunesSpareFirst'
  <2> SUFFICES ASSUME NEW n \in Nodes, prunes'[n] # {}
               PROVE  /\ cache'[n] = EmptyEntry
                      /\ Cardinality(Pushers(n)' \ prunes'[n]) >= MinIngressNodes
                      /\ \E f \in Pushers(n)' \ prunes'[n] : FirstPusher(n, f)'
    BY DEF PrunesSpareFirst
  <2>1. Ready(n)
    BY <1>2 DEF PruneChoices
  <2>2. cache[n].upserts > 0
    <3>1. cache[n].upserts \in Nat
      BY <1>3 DEF TypeOK, IsCacheEntry
    <3>2. QED
      BY <2>1, <3>1, RoundsConstants DEF Ready
  <2>3. PICK cut \in PruneOutcomes(cache[n], Stakes, n, Origin, ThresholdPct, MinIngressNodes) :
          prunes'[n] = cut \ {Origin}
    BY <1>2, <2>1 DEF PruneChoices
  <2>4. WindowStands(n)
    BY WindowsAll DEF StaticInv
  <2>5. /\ Cardinality(Pushers(n) \ (cut \ {Origin})) >= MinIngressNodes
        /\ \E f \in Pushers(n) \ (cut \ {Origin}) : FirstPusher(n, f)
    BY <1>3, <2>2, <2>3, <2>4, WindowSpares
  <2>6. cache'[n] = EmptyEntry
    BY <1>1, <2>1
  <2>7. QED
    BY <1>5, <2>3, <2>5, <2>6
<1>10. QED
  BY <1>6, <1>8, <1>9 DEF StaticInv

-----------------------------------------------------------------------------
(* So the links a round prunes are none that the next one needs.          *)

\* The peers among the first Fanout of an entry's answer.
FirstAnswered(entry) ==
  LET answered == GetNodes(entry, Origin)
  IN  {answered[i] : i \in {i \in DOMAIN answered : i <= Fanout}}

\* after is entry with the origin in the filters of the pruners.
Heeds(after, entry, pruners) ==
  /\ Len(after) = Len(entry)
  /\ \A i \in 1..Len(entry) :
       /\ after[i].node = entry[i].node
       /\ Origin \in after[i].filter <=> entry[i].node \in pruners \/ Origin \in entry[i].filter

\* The pruners of an entry whose filters take the origin drop out of the peers it
\* answers with, and nobody else does.
LEMMA PrunersUnanswered ==
  ASSUME NEW n \in Nodes, NEW entry, NEW after, NEW obeyed, NEW still, NEW pruners,
         IsActiveSet(entry, n, obeyed), IsActiveSet(after, n, still), Fanout >= Size,
         Heeds(after, entry, pruners)
  PROVE  FirstAnswered(after) = FirstAnswered(entry) \ pruners
<1> DEFINE answered == GetNodes(entry, Origin)
           answers == GetNodes(after, Origin)
           first == {answered[i] : i \in {i \in DOMAIN answered : i <= Fanout}}
           firsts == {answers[i] : i \in {i \in DOMAIN answers : i <= Fanout}}
<1>1. \A x : x \in first <=> \E j \in 1..Len(entry) : entry[j].node = x /\ Origin \notin entry[j].filter
  BY WholeSetAnswered
<1>2. \A x : x \in firsts <=> \E j \in 1..Len(after) : after[j].node = x /\ Origin \notin after[j].filter
  BY WholeSetAnswered
<1> HIDE DEF first, firsts
<1>3. firsts = first \ pruners
  BY <1>1, <1>2 DEF Heeds
<1>4. QED
  BY <1>3 DEF first, firsts, FirstAnswered

\* A node that obeys stops pushing to its pruners, and to nobody else.
LEMMA ObeyStopsPushing ==
  ASSUME RoundsInv, StaticCluster, PruneConnections, NEW n \in Nodes
  PROVE  PushTargets(n)' = PushTargets(n) \ PrunersOf(n)
<1> DEFINE entry == entries[n]
           after == entries'[n]
           pruners == PrunersOf(n)
           obeyed == silenced[n]
           origins == {Origin}
           none == {}
           first == FirstAnswered(entry)
           firsts == FirstAnswered(after)
<1>1. PushTargets(n) = first \ failed /\ PushTargets(n)' = firsts \ failed
  BY DEF PushTargets, PruneConnections, FirstAnswered
<1>2. IsActiveSet(entry, n, obeyed)
  BY ActiveSetsHold DEF RoundsInv, ActiveSets
<1>3. after = Obey(n, pruners)
  BY DEF PruneConnections
<1>4. CASE n = Origin
  <2>1. after = entry
    BY <1>3, <1>4 DEF Obey
  <2>2. pruners = {}
    BY <1>4 DEF RoundsInv, PrunesHeard, PrunersOf
  <2>3. firsts = first
    <3> HIDE DEF after, entry
    <3> QED
      BY <2>1
  <2>4. QED
    BY <1>1, <2>2, <2>3
<1>5. CASE n # Origin
  <2>1. after = PruneEntry(entry, pruners, origins, none) /\ origins \in SUBSET Nodes
        /\ none \in SUBSET Nodes /\ origins # {} /\ Fanout >= Size
    BY <1>3, <1>5, RoundsConstants DEF Obey, StaticCluster
  <2> HIDE DEF entry, after, pruners, obeyed, none
  <2>2. entry \in Seq(ItemsOf(Candidates(n), Nodes)) /\ Len(entry) <= Size
        /\ \A i, j \in 1..Len(entry) : entry[i].node = entry[j].node => i = j
    BY <1>2 DEF IsActiveSet, IsPeerEntry
  <2>3. Grown(after, entry, pruners, origins, none, Candidates(n), Nodes)
    <3> HIDE DEF origins
    <3> QED
      BY <2>1, <2>2, PruneEntryFacts
  <2>4. /\ after \in Seq(ItemsOf(Candidates(n), Nodes)) /\ Len(after) = Len(entry)
        /\ \A i \in 1..Len(entry) :
             /\ after[i].node = entry[i].node
             /\ Origin \in after[i].filter <=> entry[i].node \in pruners \/ Origin \in entry[i].filter
    BY <2>3 DEF Grown, none
  <2>5. IsActiveSet(after, n, none)
    <3>1. IsPeerEntry(after, Candidates(n), Nodes)
      BY <2>2, <2>4 DEF IsPeerEntry
    <3>2. \A i \in 1..Len(after) : after[i].node = Origin => Origin \in after[i].filter
      BY <1>2, <2>4 DEF IsActiveSet
    <3>3. QED
      BY <2>2, <2>4, <3>1, <3>2 DEF IsActiveSet, none
  <2>6. firsts = first \ pruners
    <3>1. Heeds(after, entry, pruners)
      BY <2>4 DEF Heeds
    <3>2. QED
      BY <1>2, <2>1, <2>5, <3>1, PrunersUnanswered
  <2>7. QED
    BY <1>1, <2>6 DEF pruners
<1>6. QED
  BY <1>4, <1>5

\* Without the links that prunes cut, every distance has its certificate: the
\* first pusher is as near as any.
LEMMA PruneConnectionsStands ==
  ASSUME RoundsInv, StaticCluster, StaticInv, PruneConnections
  PROVE  /\ DistancesStand'
         /\ \A n \in Nodes : Pushers(n)' = Pushers(n) \ prunes[n]
<1> DEFINE links == [n \in Nodes |-> PushTargets(n)]
           fewer == [n \in Nodes |-> PushTargets(n)']
<1>1. /\ phase = "prune" /\ phase' = "rotate"
      /\ UNCHANGED <<cache, failed, hasFailed, distances, orders>>
  BY DEF PruneConnections
<1>2. \A n \in Nodes : PushTargets(n)' = PushTargets(n) \ PrunersOf(n)
  BY ObeyStopsPushing
<1>3. Visited' = Visited
  BY <1>1 DEF Visited
<1>4. \A n \in Nodes : Pushers(n)' = Pushers(n) \ prunes[n]
  <2> SUFFICES ASSUME NEW n \in Nodes, NEW s
               PROVE  s \in Pushers(n)' <=> s \in Pushers(n) /\ s \notin prunes[n]
    OBVIOUS
  <2>1. s \in Pushers(n)' <=> s \in Visited /\ n \in PushTargets(s)'
    BY <1>3 DEF Pushers
  <2>2. s \in Visited => s \in Nodes /\ (n \in PrunersOf(s) <=> s \in prunes[n])
    BY DEF Visited, PrunersOf
  <2>3. QED
    BY <1>2, <2>1, <2>2 DEF Pushers
<1>5. TypeOK /\ DistancesStand /\ PrunesSpareFirst
  BY DEF RoundsInv, StaticInv
<1>6. links \in [Nodes -> SUBSET Nodes]
  <2>1. \A n \in Nodes : PushTargets(n) \subseteq Nodes \ {n}
    BY ActiveSetsHold, PushTargetsFacts DEF RoundsInv
  <2>2. QED
    BY <2>1
<1>7. Certify(Nodes, links, Origin, Unreached, Visited, distances)
  <2> HIDE DEF links
  <2>1. distances = HopsFrom(links, Origin, Nodes, Unreached)
    BY <1>1, <1>5 DEF DistancesStand, links
  <2>2. QED
    BY <1>6, <2>1, RoundsConstants, HopsFromCertifies DEF Visited
<1>8. /\ Origin \in Visited /\ Visited \in SUBSET Nodes
      /\ distances \in [Nodes -> Nat \cup {Unreached}]
      /\ \A n \in Nodes : n \in Visited <=> distances[n] # Unreached
      /\ distances[Origin] = 0
      /\ \A n \in Visited \ {Origin} : \E u \in Visited : n \in PushTargets(u) /\ distances[n] = distances[u] + 1
      /\ \A u \in Visited : \A n \in PushTargets(u) : n \in Visited /\ distances[n] <= distances[u] + 1
  BY <1>7 DEF Certify
<1>9. ASSUME NEW n \in Visited \ {Origin}
      PROVE  \E u \in Visited : n \in PushTargets(u)' /\ distances[n] = distances[u] + 1
  <2>1. PICK u \in Visited : n \in PushTargets(u) /\ distances[n] = distances[u] + 1
    BY <1>8
  <2>2. u \in Pushers(n) /\ n \in Nodes
    BY <1>8, <2>1 DEF Pushers
  <2>3. CASE prunes[n] = {}
    <3>1. u \in Pushers(n)'
      BY <1>4, <2>2, <2>3
    <3>2. QED
      BY <2>1, <3>1 DEF Pushers
  <2>4. CASE prunes[n] # {}
    <3>1. PICK f \in Pushers(n) \ prunes[n] : FirstPusher(n, f)
      BY <1>1, <1>5, <2>2, <2>4 DEF PrunesSpareFirst
    <3>2. f = u \/ Nearer(f, u)
      BY <2>2, <3>1 DEF FirstPusher
    <3>3. f \in Visited /\ n \in PushTargets(f) /\ f \in Pushers(n)'
      BY <1>4, <2>2, <3>1 DEF Pushers
    <3>4. distances[f] \in Nat /\ distances[u] \in Nat /\ distances[n] \in Nat
      BY <1>5, <1>8, <2>1, <3>3, RoundsConstants
    <3>5. distances[f] <= distances[u] /\ distances[n] <= distances[f] + 1
      BY <1>8, <3>2, <3>3, <3>4 DEF Nearer
    <3>6. distances[n] = distances[f] + 1
      BY <2>1, <3>4, <3>5
    <3>7. QED
      BY <3>3, <3>6 DEF Pushers
  <2>5. QED
    BY <2>3, <2>4
<1>10. distances = HopsFrom(fewer, Origin, Nodes, Unreached)
  <2>1. /\ fewer \in [Nodes -> SUBSET Nodes]
        /\ \A n \in Nodes : fewer[n] = PushTargets(n)' /\ fewer[n] \subseteq PushTargets(n)
    <3>1. \A n \in Nodes : PushTargets(n)' \subseteq PushTargets(n) /\ PushTargets(n) \subseteq Nodes
      BY <1>2, <1>6
    <3>2. QED
      BY <3>1
  <2> HIDE DEF fewer
  <2>2. \A n \in Visited \ {Origin} : \E u \in Visited : n \in fewer[u] /\ distances[n] = distances[u] + 1
    BY <1>8, <1>9, <2>1
  <2>3. \A u \in Visited : \A n \in fewer[u] : n \in Visited /\ distances[n] <= distances[u] + 1
    BY <1>8, <2>1
  <2>4. Certify(Nodes, fewer, Origin, Unreached, Visited, distances)
    BY <1>8, <2>1, <2>2, <2>3 DEF Certify
  <2>5. QED
    BY <2>4, RoundsConstants, CertifiedAreTrue
<1>11. DistancesStand'
  BY <1>1, <1>5, <1>10 DEF DistancesStand
<1>12. QED
  BY <1>4, <1>11

\* The windows that stand are of nodes that have pruned nobody.
LEMMA PruneConnectionsStatic == StaticCluster /\ RoundsInv /\ StaticInv /\ PruneConnections => StaticInv'
<1> SUFFICES ASSUME StaticCluster, RoundsInv, StaticInv, PruneConnections PROVE StaticInv'
  OBVIOUS
<1>1. phase = "prune" /\ phase' = "rotate" /\ UNCHANGED <<cache, distances>>
  BY DEF PruneConnections
<1>2. DistancesStand' /\ \A n \in Nodes : Pushers(n)' = Pushers(n) \ prunes[n]
  BY PruneConnectionsStands
<1>3. ASSUME NEW n \in Nodes PROVE WindowStands(n)'
  <2>1. WindowStands(n)
    BY WindowsAll DEF StaticInv
  <2>2. CASE prunes[n] # {}
    <3>1. cache'[n] = EmptyEntry
      BY <1>1, <2>2 DEF StaticInv, PrunesSpareFirst
    <3>2. QED
      BY <3>1, EmptyStands
  <2>3. CASE prunes[n] = {}
    <3>1. Pushers(n)' = Pushers(n) /\ \A a, b : Nearer(a, b)' <=> Nearer(a, b)
      BY <1>1, <1>2, <2>3 DEF Nearer
    <3>2. TimelyPushers(n)' = TimelyPushers(n) /\ \A f : FirstPusher(n, f)' <=> FirstPusher(n, f)
      BY <3>1 DEF TimelyPushers, FirstPusher
    <3>3. QED
      BY <1>1, <2>1, <3>1, <3>2 DEF WindowStands
  <2>4. QED
    BY <2>2, <2>3
<1>4. WindowsStand'
  BY <1>3 DEF WindowsStand, WindowStands
<1>5. PrunesSpareFirst'
  BY <1>1 DEF PrunesSpareFirst
<1>6. QED
  BY <1>2, <1>4, <1>5 DEF StaticInv

\* Nobody rotates,
LEMMA RotateStatic == StaticCluster /\ RoundsInv /\ StaticInv /\ ChanceToRotate => StaticInv'
<1> SUFFICES ASSUME StaticCluster, RoundsInv, StaticInv, ChanceToRotate PROVE StaticInv'
  OBVIOUS
<1>1. /\ phase = "rotate" /\ phase' = "run"
      /\ UNCHANGED <<cache, failed, hasFailed, distances, orders, prunes>>
  BY DEF ChanceToRotate
<1>2. PICK rotating \in SUBSET Nodes :
        /\ rotations + Cardinality(rotating) <= MaxRotations
        /\ entries' \in OneEach([n \in Nodes |-> IF n \in rotating THEN Rotations(n, entries[n])
                                                 ELSE {entries[n]}])
  BY DEF ChanceToRotate
<1>3. rotating = {}
  <2>1. IsFiniteSet(rotating) /\ Cardinality(rotating) \in Nat
    BY RoundsConstants, FS_Subset, FS_CardinalityType
  <2>2. rotations \in Nat /\ MaxRotations = 0
    BY RoundsConstants DEF RoundsInv, TypeOK, StaticCluster
  <2>3. Cardinality(rotating) = 0
    BY <1>2, <2>1, <2>2
  <2>4. QED
    BY <2>1, <2>3, FS_EmptySet
<1> DEFINE choices == [n \in Nodes |-> IF n \in rotating THEN Rotations(n, entries[n])
                                       ELSE {entries[n]}]
<1>4. \A n \in Nodes : entries'[n] = entries[n]
  <2>1. \A n \in Nodes : choices[n] = {entries[n]}
    BY <1>3
  <2>2. DOMAIN choices = Nodes /\ IsFiniteSet(DOMAIN choices) /\ entries' \in OneEach(choices)
    BY <1>2, RoundsConstants
  <2> HIDE DEF choices
  <2>3. \A n \in Nodes : entries'[n] \in choices[n]
    BY <2>2, OneEachFacts
  <2>4. QED
    BY <2>1, <2>3
<1>5. \A n \in Nodes : PushTargets(n)' = PushTargets(n)
  BY <1>1, <1>4 DEF PushTargets
<1>6. \A n \in Nodes : WindowStands(n)'
  <2>1. \A n \in Nodes : WindowStands(n)
    BY WindowsAll DEF StaticInv
  <2>2. QED
    BY <1>1, <1>5, <2>1, WindowKept
<1>7. WindowsStand'
  BY <1>6 DEF WindowsStand, WindowStands
<1>8. DistancesStand'
  <2>1. Visited' = Visited
    BY <1>1 DEF Visited
  <2>2. [n \in Nodes |-> PushTargets(n)'] = [n \in Nodes |-> PushTargets(n)]
    BY <1>5
  <2>3. QED
    BY <1>1, <2>1, <2>2 DEF StaticInv, DistancesStand
<1>9. PrunesSpareFirst'
  BY <1>1 DEF PrunesSpareFirst
<1>10. QED
  BY <1>7, <1>8, <1>9 DEF StaticInv

\* and nothing fails.
LEMMA FailStatic == StaticInv => ~FailNodes
BY DEF StaticInv, DistancesStand, FailNodes

\* A step that changes nothing.
LEMMA StutterStatic == StaticInv /\ UNCHANGED vars => StaticInv'
<1> SUFFICES ASSUME StaticInv, UNCHANGED vars PROVE StaticInv'
  OBVIOUS
<1>1. UNCHANGED <<phase, entries, cache, failed, hasFailed, distances, orders, prunes>>
  BY DEF vars
<1>2. \A n \in Nodes : PushTargets(n)' = PushTargets(n)
  BY <1>1 DEF PushTargets
<1>3. /\ Visited' = Visited
      /\ \A n \in Nodes : /\ Pushers(n)' = Pushers(n)
                          /\ \A f : FirstPusher(n, f)' <=> FirstPusher(n, f)
  BY <1>1, <1>2, PushersKept
<1>4. \A n \in Nodes : WindowStands(n)'
  <2>1. \A n \in Nodes : WindowStands(n)
    BY WindowsAll DEF StaticInv
  <2>2. QED
    BY <1>1, <1>2, <2>1, WindowKept
<1>5. WindowsStand'
  BY <1>4 DEF WindowsStand, WindowStands
<1>6. DistancesStand'
  <2>1. [n \in Nodes |-> PushTargets(n)'] = [n \in Nodes |-> PushTargets(n)]
    BY <1>2
  <2>2. QED
    BY <1>1, <1>3, <2>1 DEF StaticInv, DistancesStand
<1>7. PrunesSpareFirst'
  BY <1>1, <1>3 DEF StaticInv, PrunesSpareFirst
<1>8. QED
  BY <1>5, <1>6, <1>7 DEF StaticInv

\* In a cluster that only prunes change, StaticInv is an invariant.
THEOREM StaticInvariance == StaticCluster => (Spec => []StaticInv)
<1> SUFFICES ASSUME StaticCluster PROVE Spec => []StaticInv
  OBVIOUS
<1>1. Init => StaticInv
  BY InitStatic
<1>2. RoundsInv /\ StaticInv /\ [Next]_vars => StaticInv'
  BY FailStatic, RunGossipStatic, ConsumeStatic, SendStatic, PruneConnectionsStatic, RotateStatic,
     StutterStatic DEF Next
<1>3. QED
  BY RoundsInvariance, <1>1, <1>2, PTL DEF Spec

\* There, of the peers that reached a node in a round its prunes leave it
\* MinIngressNodes, or all of them ("Minimum number of incoming peers a node
\* must keep", the help of --min-ingress-nodes).
THEOREM EnoughPeersKept == StaticCluster => (Spec => []IngressPeersKept)
<1> SUFFICES ASSUME StaticCluster PROVE Spec => []IngressPeersKept
  OBVIOUS
<1>1. ASSUME RoundsInv, StaticInv PROVE IngressPeersKept
  <2> SUFFICES ASSUME phase = "prune", NEW n \in Nodes, prunes[n] \cap SendersTo(n) # {}
               PROVE  Cardinality(SendersTo(n) \ prunes[n]) >= MinIngressNodes
    BY DEF IngressPeersKept
  <2>1. SendersTo(n) = Pushers(n)
    BY <1>1, PushersSend DEF RoundsInv, StaticInv
  <2>2. QED
    BY <1>1, <2>1 DEF StaticInv, PrunesSpareFirst
<1>2. QED
  BY RoundsInvariance, StaticInvariance, <1>1, PTL

\* And there pruning costs nothing: whoever a round has reached the next one
\* reaches again, in as many hops.
THEOREM PruningIsFree == StaticCluster => (Spec => PruningCostsNothing)
<1> SUFFICES ASSUME StaticCluster PROVE Spec => PruningCostsNothing
  OBVIOUS
<1>1. ASSUME RoundsInv, StaticInv, [Next]_vars
      PROVE  [phase = "run" /\ phase' = "consume" =>
                \A n \in Visited : distances'[n] # Unreached /\ distances'[n] <= distances[n]]_vars
  <2> SUFFICES ASSUME phase = "run", phase' = "consume", NEW n \in Visited
               PROVE  distances'[n] # Unreached /\ distances'[n] <= distances[n]
    OBVIOUS
  <2>1. RunGossip
    BY <1>1 DEF Next, FailNodes, RunGossip, ConsumeMessages, SendPrunes, PruneConnections,
                ChanceToRotate, vars
  <2>2. distances' = distances
    BY <1>1, <2>1, RunGossipStands DEF StaticInv
  <2>3. distances[n] # Unreached /\ distances[n] \in Nat
    <3>1. n \in Nodes /\ distances[n] # Unreached
      BY DEF Visited
    <3>2. QED
      BY <1>1, <3>1 DEF RoundsInv, TypeOK, Hops
  <2>4. QED
    BY <2>2, <2>3
<1>2. QED
  BY RoundsInvariance, StaticInvariance, <1>1, PTL DEF Spec, PruningCostsNothing
=============================================================================
