------------------------- MODULE PushActiveSetProofs ------------------------
(***************************************************************************)
(* Theorems about the push active set of a node, for every set of peers,   *)
(* stakes, numbers of buckets and sizes.                                   *)
(***************************************************************************)
EXTENDS PushActiveSet, DataProofs

\* A stake falls into one of the buckets.
LEMMA StakeBucketType ==
  ASSUME NEW stake, NEW max \in Nat
  PROVE  StakeBucket(stake, max) \in 0..max
<1> DEFINE T == {b \in 0..max : Fits(stake, b, max)}
<1>1. T \in SUBSET Nat /\ max \in T
  BY DEF Fits
<1>2. PICK m \in T : \A k \in T : m <= k
  <2> HIDE DEF T
  <2> QED
    BY <1>1, LeastNatural
<1>3. m \in 0..max /\ Fits(stake, m, max) /\ \A lower \in 0..max : Fits(stake, lower, max) => m <= lower
  BY <1>2
<1>4. QED
  BY <1>3 DEF StakeBucket

\* So does every origin.
LEMMA BucketOfType == ASSUME NEW o \in Nodes PROVE BucketOf(o) \in Buckets
BY StakeBucketType, ActiveSetAssumption DEF BucketOf, Buckets

\* The candidates are finitely many nodes.
LEMMA CandidateFacts ==
  /\ IsFiniteSet(Candidates) /\ Candidates \subseteq Nodes /\ Cardinality(Candidates) \in Nat
  /\ Size \in Nat /\ Size # 0
BY ActiveSetAssumption, FS_Subset, FS_CardinalityType DEF Candidates

\* What the invariant says of one entry.
LEMMA EntryFacts ==
  ASSUME TypeOK, PeersOnce, FilledTogether, NEW k \in Buckets
  PROVE  /\ IsPeerEntry(entries[k], Candidates, Nodes)
         /\ entries[k] \in Seq(ItemsOf(Candidates, Nodes))
         /\ DOMAIN entries[k] = 1..Len(entries[k]) /\ Len(entries[k]) \in Nat
         /\ Len(entries[k]) <= Size
<1>1. entries[k] \in Seq(ItemsOf(Candidates, Nodes))
  BY DEF TypeOK, ItemsOf
<1>2. DOMAIN entries[k] = 1..Len(entries[k]) /\ Len(entries[k]) \in Nat
  BY <1>1, SeqFacts
<1>3. Len(entries[k]) <= Size
  <2>1. CASE entries[k] = <<>>
    <3>1. Len(entries[k]) = 0
      BY <2>1, EmptySeq
    <3>2. QED
      BY <3>1, CandidateFacts
  <2>2. CASE Len(entries[k]) = IF Cardinality(Candidates) <= Size THEN Cardinality(Candidates) ELSE Size
    BY <2>2, CandidateFacts
  <2>3. QED
    BY <2>1, <2>2 DEF FilledTogether
<1>4. QED
  BY <1>1, <1>2, <1>3 DEF IsPeerEntry, PeersOnce

\* Empty entries satisfy the invariant.
LEMMA InitActiveSet == Init => ActiveSetInv
<1> SUFFICES ASSUME Init PROVE ActiveSetInv
  OBVIOUS
<1>1. \A k \in Buckets : entries[k] = <<>>
  BY DEF Init
<1> DEFINE none == <<>>
<1>2. none \in Seq([node : Candidates, filter : SUBSET Nodes]) /\ DOMAIN none = {}
  BY EmptySeq
<1>3. entries = [k \in Buckets |-> none]
  BY DEF Init
<1> HIDE DEF none
<1>4. \A k \in Buckets : entries[k] = none
  BY <1>3
<1>5. TypeOK
  BY <1>2, <1>3 DEF TypeOK, Init
<1>6. PeersOnce
  BY <1>2, <1>4 DEF PeersOnce
<1>7. FiltersExact
  <2> SUFFICES ASSUME NEW o \in Nodes
               PROVE  DOMAIN entries[BucketOf(o)] = {} /\ silenced[o] = {}
    BY DEF FiltersExact
  <2>1. entries[BucketOf(o)] = none
    BY <1>4, BucketOfType
  <2>2. QED
    BY <1>2, <2>1 DEF Init
<1>8. FilledTogether
  BY <1>1 DEF FilledTogether
<1>9. QED
  BY <1>5, <1>6, <1>7, <1>8 DEF ActiveSetInv

\* What a rotation makes of every entry, each with its own shuffle.
LEMMA RotateFacts ==
  ASSUME TypeOK, PeersOnce, FilledTogether, Rotate
  PROVE  \E falsely \in SUBSET FalsePositives :
           /\ entries' = [k \in Buckets |-> entries'[k]]
           /\ \A k \in Buckets : Rotated(entries'[k], entries[k], Candidates, Nodes, Size, falsely)
<1>1. PICK falsely \in {{}, FalsePositives} :
        \E rotated \in {[k \in Buckets |-> {RotateEntry(entries[k], shuffle, Size, falsely) :
                                              shuffle \in SetToSeqs(Candidates)}]} :
          entries' \in {after \in [Buckets -> UNION {rotated[k] : k \in Buckets}] :
                          \A k \in Buckets : after[k] \in rotated[k]}
  BY DEF Rotate
<1>2. /\ entries' = [k \in Buckets |-> entries'[k]]
      /\ \A k \in Buckets : \E shuffle \in SetToSeqs(Candidates) :
           entries'[k] = RotateEntry(entries[k], shuffle, Size, falsely)
  BY <1>1
<1>3. falsely \in SUBSET FalsePositives /\ falsely \in SUBSET Nodes
  BY ActiveSetAssumption
<1>4. ASSUME NEW k \in Buckets
      PROVE  Rotated(entries'[k], entries[k], Candidates, Nodes, Size, falsely)
  <2>1. PICK shuffle \in SetToSeqs(Candidates) :
          entries'[k] = RotateEntry(entries[k], shuffle, Size, falsely)
    BY <1>2
  <2>2. IsPeerEntry(entries[k], Candidates, Nodes) /\ Len(entries[k]) <= Size
    BY EntryFacts
  <2>3. QED
    BY <1>3, <2>1, <2>2, CandidateFacts, RotateEntryFacts
<1>5. QED
  BY <1>2, <1>3, <1>4

\* What the invariant says of the filters of one entry and one origin.
Exact(entry, o, peers) ==
  /\ peers \subseteq KeysOf(entry)
  /\ \A i \in DOMAIN entry :
       /\ entry[i].node \in peers \cup {o} => o \in entry[i].filter
       /\ o \in entry[i].filter => entry[i].node \in peers \cup {o} \cup
            (IF o \in FalsePositives THEN Nodes ELSE {})

\* FiltersExact says it of every origin,
LEMMA ExactForAll == FiltersExact <=> \A o \in Nodes : Exact(entries[BucketOf(o)], o, silenced[o])
BY DEF FiltersExact, Exact

\* in the next state too.
LEMMA ExactForAllNext ==
  FiltersExact' <=> \A o \in Nodes : Exact(entries'[BucketOf(o)], o, silenced'[o])
BY DEF FiltersExact, Exact, BucketOf

\* Filters stay exact in a rotation: an item is an old one or holds just its
\* own key, and a new peer has silenced nothing.
LEMMA RotateExact ==
  ASSUME NEW entry \in Seq(ItemsOf(Candidates, Nodes)),
         NEW after \in Seq(ItemsOf(Candidates, Nodes)),
         NEW falsely \in SUBSET FalsePositives, NEW o \in Nodes, NEW peers,
         Exact(entry, o, peers),
         \A i \in 1..Len(after) :
           \/ \E j \in 1..Len(entry) : after[i] = entry[j]
           \/ after[i] = NewItem(after[i].node, falsely) /\ after[i].node \notin KeysOf(entry)
  PROVE  Exact(after, o, peers \cap KeysOf(after))
<1>1. DOMAIN entry = 1..Len(entry) /\ DOMAIN after = 1..Len(after)
      /\ \A i \in 1..Len(after) : after[i] \in ItemsOf(Candidates, Nodes)
  BY SeqFacts
<1> SUFFICES ASSUME NEW i \in 1..Len(after)
             PROVE  /\ after[i].node \in (peers \cap KeysOf(after)) \cup {o} => o \in after[i].filter
                    /\ o \in after[i].filter =>
                         after[i].node \in (peers \cap KeysOf(after)) \cup {o} \cup
                           (IF o \in FalsePositives THEN Nodes ELSE {})
  BY <1>1 DEF Exact
<1>2. after[i].node \in KeysOf(after) /\ after[i].node \in Nodes
  <2>1. after[i].node \in Nodes
    BY <1>1, CandidateFacts DEF ItemsOf
  <2>2. QED
    BY <1>1, <2>1 DEF KeysOf
<1>3. CASE \E j \in 1..Len(entry) : after[i] = entry[j]
  <2>1. PICK j \in 1..Len(entry) : after[i] = entry[j]
    BY <1>3
  <2>2. /\ entry[j].node \in peers \cup {o} => o \in entry[j].filter
        /\ o \in entry[j].filter => entry[j].node \in peers \cup {o} \cup
             (IF o \in FalsePositives THEN Nodes ELSE {})
    BY <1>1 DEF Exact
  <2>3. QED
    BY <1>2, <2>1, <2>2
<1>4. CASE after[i] = NewItem(after[i].node, falsely) /\ after[i].node \notin KeysOf(entry)
  <2>1. after[i].filter = {after[i].node} \cup falsely
    BY <1>4 DEF NewItem, PeerItem, AddToFilter
  <2>2. after[i].node \notin peers
    BY <1>4 DEF Exact
  <2>3. QED
    BY <1>2, <2>1, <2>2
<1>5. QED
  BY <1>3, <1>4

\* A rotation keeps the invariant.
LEMMA RotateActiveSet == ActiveSetInv /\ Rotate => ActiveSetInv'
<1> SUFFICES ASSUME ActiveSetInv, Rotate PROVE ActiveSetInv'
  OBVIOUS
<1>1. TypeOK /\ PeersOnce /\ FilledTogether /\ FiltersExact
  BY DEF ActiveSetInv
<1>2. PICK falsely \in SUBSET FalsePositives :
        /\ entries' = [k \in Buckets |-> entries'[k]]
        /\ \A k \in Buckets : Rotated(entries'[k], entries[k], Candidates, Nodes, Size, falsely)
  BY <1>1, RotateFacts
<1>3. \A k \in Buckets :
        /\ entries'[k] \in Seq(ItemsOf(Candidates, Nodes))
        /\ Len(entries'[k]) = IF Cardinality(Candidates) <= Size THEN Cardinality(Candidates) ELSE Size
        /\ \A i, j \in 1..Len(entries'[k]) : entries'[k][i].node = entries'[k][j].node => i = j
        /\ \A i \in 1..Len(entries'[k]) :
             \/ \E j \in 1..Len(entries[k]) : entries'[k][i] = entries[k][j]
             \/ entries'[k][i] = NewItem(entries'[k][i].node, falsely)
                /\ entries'[k][i].node \notin KeysOf(entries[k])
  <2> SUFFICES ASSUME NEW k \in Buckets
               PROVE  /\ entries'[k] \in Seq(ItemsOf(Candidates, Nodes))
                      /\ Len(entries'[k]) = IF Cardinality(Candidates) <= Size
                                            THEN Cardinality(Candidates) ELSE Size
                      /\ \A i, j \in 1..Len(entries'[k]) :
                           entries'[k][i].node = entries'[k][j].node => i = j
                      /\ \A i \in 1..Len(entries'[k]) :
                           \/ \E j \in 1..Len(entries[k]) : entries'[k][i] = entries[k][j]
                           \/ entries'[k][i] = NewItem(entries'[k][i].node, falsely)
                              /\ entries'[k][i].node \notin KeysOf(entries[k])
    OBVIOUS
  <2>1. IsPeerEntry(entries[k], Candidates, Nodes)
    BY <1>1, EntryFacts
  <2>2. Rotated(entries'[k], entries[k], Candidates, Nodes, Size, falsely)
    BY <1>2
  <2>3. QED
    BY <2>1, <2>2, CandidateFacts, AfterRotation
<1>4. silenced' = [o \in Nodes |-> silenced[o] \cap KeysOf(entries'[BucketOf(o)])]
  BY DEF Rotate
<1>5. TypeOK'
  <2>1. entries' \in [Buckets -> Seq([node : Candidates, filter : SUBSET Nodes])]
    BY <1>2, <1>3 DEF ItemsOf
  <2>2. silenced' \in [Nodes -> SUBSET Candidates]
    BY <1>1, <1>4 DEF TypeOK
  <2>3. QED
    BY <2>1, <2>2 DEF TypeOK, Buckets, Candidates
<1>6. PeersOnce'
  <2>1. \A k \in Buckets : DOMAIN entries'[k] = 1..Len(entries'[k])
    BY <1>3, SeqFacts
  <2>2. QED
    BY <1>3, <2>1 DEF PeersOnce, Buckets
<1>7. FilledTogether'
  BY <1>3 DEF FilledTogether, Buckets, Candidates
<1>8. FiltersExact'
  <2> SUFFICES ASSUME NEW o \in Nodes PROVE Exact(entries'[BucketOf(o)], o, silenced'[o])
    BY ExactForAllNext
  <2>1. BucketOf(o) \in Buckets
    BY BucketOfType
  <2>2. /\ entries[BucketOf(o)] \in Seq(ItemsOf(Candidates, Nodes))
        /\ entries'[BucketOf(o)] \in Seq(ItemsOf(Candidates, Nodes))
    BY <1>1, <1>3, <2>1, EntryFacts
  <2>3. Exact(entries[BucketOf(o)], o, silenced[o])
    BY <1>1, ExactForAll
  <2>4. \A i \in 1..Len(entries'[BucketOf(o)]) :
          \/ \E j \in 1..Len(entries[BucketOf(o)]) : entries'[BucketOf(o)][i] = entries[BucketOf(o)][j]
          \/ entries'[BucketOf(o)][i] = NewItem(entries'[BucketOf(o)][i].node, falsely)
             /\ entries'[BucketOf(o)][i].node \notin KeysOf(entries[BucketOf(o)])
    BY <1>3, <2>1
  <2>5. Exact(entries'[BucketOf(o)], o, silenced[o] \cap KeysOf(entries'[BucketOf(o)]))
    BY <2>2, <2>3, <2>4, RotateExact
  <2>6. QED
    BY <1>4, <2>5
<1>9. QED
  BY <1>5, <1>6, <1>7, <1>8 DEF ActiveSetInv

\* A prune message keeps the invariant: it reaches the entry that get_nodes
\* looks up for the origin.
LEMMA PruneActiveSet ==
  ASSUME ActiveSetInv, NEW node \in Candidates, NEW origins \in SUBSET Nodes, Prune(node, origins)
  PROVE  /\ ActiveSetInv'
         /\ \A k \in Buckets : KeysOf(entries'[k]) = KeysOf(entries[k])
<1> DEFINE heeded == origins \ {Self}
           hit(k) == {o \in heeded : BucketOf(o) = k}
<1>1. TypeOK /\ PeersOnce /\ FilledTogether /\ FiltersExact
  BY DEF ActiveSetInv
<1>2. PICK falsely \in {{}, FalsePositives} :
        entries' = [k \in Buckets |-> PruneEntry(entries[k], {node}, hit(k), falsely)]
  BY DEF Prune, PruneBucket, BucketOf
<1>3. silenced' = [o \in Nodes |-> IF o \in heeded /\ node \in KeysOf(entries[BucketOf(o)])
                                   THEN silenced[o] \cup {node} ELSE silenced[o]]
  BY DEF Prune
<1>4. falsely \in SUBSET FalsePositives /\ falsely \in SUBSET Nodes /\ \A k : hit(k) \in SUBSET Nodes
  BY ActiveSetAssumption
<1>5. \A k \in Buckets : entries[k] \in Seq(ItemsOf(Candidates, Nodes))
  BY <1>1, EntryFacts
<1>6. \A k \in Buckets :
        /\ entries'[k] \in Seq(ItemsOf(Candidates, Nodes))
        /\ Len(entries'[k]) = Len(entries[k]) /\ KeysOf(entries'[k]) = KeysOf(entries[k])
        /\ \A i \in 1..Len(entries[k]) :
             /\ entries'[k][i].node = entries[k][i].node
             /\ entries'[k][i].filter =
                  IF entries[k][i].node = node /\ hit(k) # {}
                  THEN entries[k][i].filter \cup hit(k) \cup falsely ELSE entries[k][i].filter
  <2> TAKE k \in Buckets
  <2>1. entries'[k] = PruneEntry(entries[k], {node}, hit(k), falsely)
    BY <1>2
  <2>2. hit(k) \in SUBSET Nodes /\ entries[k] \in Seq(ItemsOf(Candidates, Nodes))
    BY <1>4, <1>5
  <2> DEFINE after == entries'[k]
             entry == entries[k]
             some == hit(k)
  <2>3. after = PruneEntry(entry, {node}, some, falsely)
    BY <2>1
  <2>4. some \in SUBSET Nodes /\ entry \in Seq(ItemsOf(Candidates, Nodes)) /\ falsely \in SUBSET Nodes
    BY <1>4, <2>2
  <2>5. Grown(after, entry, {node}, some, falsely, Candidates, Nodes)
    <3> HIDE DEF after, entry, some
    <3>1. QED
      BY <2>3, <2>4, PruneEntryFacts
  <2>6. QED
    BY <2>5 DEF Grown
<1>7. \A k \in Buckets : /\ DOMAIN entries[k] = 1..Len(entries[k])
                         /\ DOMAIN entries'[k] = 1..Len(entries[k])
  BY <1>5, <1>6, SeqFacts
<1>8. TypeOK'
  <2>1. entries' \in [Buckets -> Seq([node : Candidates, filter : SUBSET Nodes])]
    BY <1>2, <1>6 DEF ItemsOf
  <2>2. silenced' \in [Nodes -> SUBSET Candidates]
    BY <1>1, <1>3 DEF TypeOK
  <2>3. QED
    BY <2>1, <2>2 DEF TypeOK, Buckets, Candidates
<1>9. PeersOnce'
  BY ZenonT(60), <1>1, <1>6, <1>7 DEF PeersOnce, Buckets
<1>10. FilledTogether'
  <2>1. CASE \A k \in Buckets : entries[k] = <<>>
    <3>1. \A k \in Buckets : entries'[k] = <<>>
      <4> TAKE k \in Buckets
      <4>1. Len(entries'[k]) = 0
        BY <1>6, <2>1, EmptySeq
      <4>2. QED
        BY <1>6, <4>1, EmptySeq
    <3>2. QED
      BY <3>1 DEF FilledTogether, Buckets
  <2>2. CASE \A k \in Buckets :
               Len(entries[k]) = IF Cardinality(Candidates) <= Size THEN Cardinality(Candidates) ELSE Size
    BY <1>6, <2>2 DEF FilledTogether, Buckets, Candidates
  <2>3. QED
    BY <1>1, <2>1, <2>2 DEF FilledTogether
<1>11. FiltersExact'
  <2> SUFFICES ASSUME NEW o \in Nodes PROVE Exact(entries'[BucketOf(o)], o, silenced'[o])
    BY ExactForAllNext
  <2> DEFINE k == BucketOf(o)
  <2>1. k \in Buckets
    BY BucketOfType
  <2>2. o \in hit(k) <=> o \in heeded
    OBVIOUS
  <2>3. /\ silenced[o] \subseteq KeysOf(entries[k])
        /\ \A i \in 1..Len(entries[k]) :
             /\ entries[k][i].node \in silenced[o] \cup {o} => o \in entries[k][i].filter
             /\ o \in entries[k][i].filter => entries[k][i].node \in silenced[o] \cup {o} \cup
                  (IF o \in FalsePositives THEN Nodes ELSE {})
             /\ entries[k][i].node \in KeysOf(entries[k]) /\ entries[k][i].node \in Nodes
    <3>1. Exact(entries[k], o, silenced[o])
      BY <1>1, ExactForAll
    <3>2. \A i \in 1..Len(entries[k]) :
            entries[k][i].node \in KeysOf(entries[k]) /\ entries[k][i].node \in Nodes
      <4> TAKE i \in 1..Len(entries[k])
      <4>1. entries[k][i] \in ItemsOf(Candidates, Nodes)
        BY <1>5, <2>1, SeqFacts
      <4>2. QED
        BY <1>7, <2>1, <4>1, CandidateFacts DEF ItemsOf, KeysOf
    <3>3. QED
      BY <1>7, <2>1, <3>1, <3>2 DEF Exact
  <2>4. /\ silenced'[o] = IF o \in heeded /\ node \in KeysOf(entries[k])
                          THEN silenced[o] \cup {node} ELSE silenced[o]
    BY <1>3
  <2>5. /\ KeysOf(entries'[k]) = KeysOf(entries[k])
        /\ \A i \in 1..Len(entries[k]) :
             /\ entries'[k][i].node = entries[k][i].node
             /\ entries'[k][i].filter =
                  IF entries[k][i].node = node /\ hit(k) # {}
                  THEN entries[k][i].filter \cup hit(k) \cup falsely ELSE entries[k][i].filter
    BY <1>6, <2>1
  <2>6. DOMAIN entries'[k] = 1..Len(entries[k])
    BY <1>7, <2>1
  <2> HIDE DEF hit, heeded, k
  <2>7. silenced'[o] \subseteq KeysOf(entries'[k])
    BY <2>3, <2>4, <2>5
  <2>8. ASSUME NEW i \in 1..Len(entries[k])
        PROVE  /\ entries'[k][i].node \in silenced'[o] \cup {o} => o \in entries'[k][i].filter
               /\ o \in entries'[k][i].filter => entries'[k][i].node \in silenced'[o] \cup {o} \cup
                    (IF o \in FalsePositives THEN Nodes ELSE {})
    BY ZenonT(60), <1>4, <2>2, <2>3, <2>4, <2>5
  <2>9. Exact(entries'[k], o, silenced'[o])
    BY <2>6, <2>7, <2>8 DEF Exact
  <2>10. QED
    BY <2>9 DEF k
<1>12. QED
  BY <1>6, <1>8, <1>9, <1>10, <1>11 DEF ActiveSetInv

\* Every reachable active set satisfies the invariant: entries fill together
\* and stay full, each peer has one item, and a filter holds the origins its
\* peer has silenced, its own key, and otherwise only what it holds falsely.
THEOREM ActiveSetInvariance == Spec => []ActiveSetInv
<1>1. ActiveSetInv /\ [Next]_vars => ActiveSetInv'
  <2> SUFFICES ASSUME ActiveSetInv, [Next]_vars PROVE ActiveSetInv'
    OBVIOUS
  <2>1. CASE Rotate
    BY <2>1, RotateActiveSet
  <2>2. ASSUME NEW node \in Candidates, NEW origins \in (SUBSET Nodes) \ {{}}, Prune(node, origins)
        PROVE  ActiveSetInv'
    BY <2>2, PruneActiveSet
  <2>3. CASE UNCHANGED vars
    BY <2>3 DEF vars, ActiveSetInv, TypeOK, PeersOnce, FilledTogether, FiltersExact, Buckets,
                Candidates, BucketOf
  <2>4. QED
    BY <2>1, <2>2, <2>3 DEF Next
<1>2. QED
  BY <1>1, InitActiveSet, PTL DEF Spec

\* After its first rotation every entry holds `size` different peers, or the
\* whole cluster, after any number of rotations and prunes (what
\* test_push_active_set asserts of one rotation).
THEOREM ActiveSetsFilled == Spec => []EntriesFilled
<1>1. ActiveSetInv => EntriesFilled
  <2> SUFFICES ASSUME TypeOK, PeersOnce, FilledTogether, NEW k \in Buckets
               PROVE  /\ KeysOf(entries[k]) \subseteq Candidates
                      /\ Cardinality(KeysOf(entries[k])) = Len(entries[k])
                      /\ Len(entries[k]) \in {0, Size, Cardinality(Candidates)}
                      /\ Len(entries[k]) <= Size
                      /\ (\E j \in Buckets : entries[j] # <<>>) => (entries[k] # <<>> \/ Candidates = {})
    BY DEF ActiveSetInv, EntriesFilled
  <2>1. /\ IsPeerEntry(entries[k], Candidates, Nodes) /\ Len(entries[k]) <= Size
        /\ Len(entries[k]) \in Nat
    BY EntryFacts
  <2>2. KeysOf(entries[k]) \subseteq Candidates /\ Cardinality(KeysOf(entries[k])) = Len(entries[k])
    BY <2>1, KeysCount
  <2>3. CASE \A j \in Buckets : entries[j] = <<>>
    <3>1. Len(entries[k]) = 0
      BY <2>3, EmptySeq
    <3>2. QED
      BY <2>1, <2>2, <2>3, <3>1
  <2>4. CASE Len(entries[k]) = IF Cardinality(Candidates) <= Size THEN Cardinality(Candidates) ELSE Size
    <3>1. Len(entries[k]) \in {0, Size, Cardinality(Candidates)}
      BY <2>4
    <3>2. ASSUME entries[k] = <<>> PROVE Candidates = {}
      <4>1. Len(entries[k]) = 0
        BY <3>2, EmptySeq
      <4>2. Cardinality(Candidates) = 0
        BY <2>4, <4>1, CandidateFacts
      <4>3. QED
        BY <4>2, CandidateFacts, FS_EmptySet
    <3>3. QED
      BY <2>1, <2>2, <3>1, <3>2
  <2>5. QED
    BY <2>3, <2>4 DEF FilledTogether
<1>2. QED
  BY <1>1, ActiveSetInvariance, PTL

\* get_nodes answers exactly the peers that have not pruned the origin and are
\* not the origin, whatever was rotated and pruned before; it may answer fewer
\* only for an origin that filters contain falsely.
THEOREM SilenceKept == Spec => []SilenceIsExact
<1>1. ActiveSetInv => SilenceIsExact
  <2> SUFFICES ASSUME TypeOK, PeersOnce, FilledTogether, FiltersExact, NEW o \in Nodes
               PROVE  /\ ToSet(NodesFor(o)) \cap (silenced[o] \cup {o}) = {}
                      /\ o \notin FalsePositives =>
                           ToSet(NodesFor(o)) = KeysOf(entries[BucketOf(o)]) \ (silenced[o] \cup {o})
    BY DEF ActiveSetInv, SilenceIsExact
  <2> DEFINE entry == entries[BucketOf(o)]
             answered == NodesFor(o)
  <2>1. /\ entry \in Seq(ItemsOf(Candidates, Nodes)) /\ IsPeerEntry(entry, Candidates, Nodes)
        /\ DOMAIN entry = 1..Len(entry)
    BY BucketOfType, EntryFacts
  <2>2. IsAnswered(answered, Len(entry), entry, Candidates, o)
    <3> HIDE DEF entry
    <3>1. answered = GetNodes(entry, o)
      BY DEF NodesFor, entry
    <3>2. QED
      BY <2>1, <3>1, GetNodesAnswers
  <2>3. Exact(entry, o, silenced[o])
    BY ExactForAll
  <2>4. ToSet(answered) \subseteq Candidates
    <3>1. answered \in Seq(Candidates)
      BY <2>2 DEF IsAnswered
    <3> HIDE DEF answered
    <3>2. DOMAIN answered = 1..Len(answered) /\ \A i \in 1..Len(answered) : answered[i] \in Candidates
      BY <3>1, SeqFacts
    <3>3. QED
      BY <3>2 DEF ToSet
  <2>5. \A x \in Candidates : x \in ToSet(answered)
          <=> \E j \in 1..Len(entry) : entry[j].node = x /\ o \notin entry[j].filter
    BY <2>2 DEF IsAnswered
  <2>6. KeysOf(entry) = {entry[j].node : j \in 1..Len(entry)} /\ KeysOf(entry) \subseteq Candidates
    BY <2>1, KeysFacts, KeysCount
  <2>7. \A j \in 1..Len(entry) :
          /\ entry[j].node \in silenced[o] \cup {o} => o \in entry[j].filter
          /\ o \in entry[j].filter => entry[j].node \in silenced[o] \cup {o} \cup
               (IF o \in FalsePositives THEN Nodes ELSE {})
    BY <2>1, <2>3 DEF Exact
  <2> DEFINE heard == ToSet(answered)
             keys == KeysOf(entry)
             quiet == silenced[o] \cup {o}
  <2>8. \A x \in Candidates : x \in heard
          <=> \E j \in 1..Len(entry) : entry[j].node = x /\ o \notin entry[j].filter
    BY <2>5
  <2>9. heard \subseteq Candidates /\ keys \subseteq Candidates
        /\ keys = {entry[j].node : j \in 1..Len(entry)}
    BY <2>4, <2>6
  <2>10. \A j \in 1..Len(entry) :
          /\ entry[j].node \in quiet => o \in entry[j].filter
          /\ o \in entry[j].filter => entry[j].node \in quiet \cup
               (IF o \in FalsePositives THEN Nodes ELSE {})
    BY <2>7
  <2> HIDE DEF heard, keys, quiet, entry, answered
  <2>11. heard \cap quiet = {}
    BY <2>8, <2>9, <2>10
  <2>12. ASSUME o \notin FalsePositives PROVE heard = keys \ quiet
    BY <2>8, <2>9, <2>10, <2>12
  <2>13. QED
    BY <2>11, <2>12 DEF heard, keys, quiet, entry, answered
<1>2. QED
  BY <1>1, ActiveSetInvariance, PTL

\* The rotation of a full entry drops its oldest peer and appends a new one;
\* the others keep their order and what they have pruned.
THEOREM OldestDropped == Spec => OldestLeavesFirst
<1>1. ASSUME ActiveSetInv, Next, NEW k \in Buckets,
             KeysOf(entries[k]) # KeysOf(entries'[k]), Len(entries[k]) = Size
      PROVE  /\ Len(entries'[k]) = Size
             /\ \A i \in 1..(Size - 1) : entries'[k][i] = entries[k][i + 1]
             /\ entries'[k][Size].node \notin KeysOf(entries[k])
  <2>1. CASE Rotate
    <3> DEFINE entry == entries[k]
               after == entries'[k]
    <3>1. TypeOK /\ PeersOnce /\ FilledTogether
      BY <1>1 DEF ActiveSetInv
    <3>2. PICK falsely : Rotated(after, entry, Candidates, Nodes, Size, falsely)
      BY <2>1, <3>1, RotateFacts
    <3>3. DOMAIN entry = 1..Len(entry) /\ Len(entry) = Size
      BY <1>1, <3>1, EntryFacts
    <3>4. KeysOf(entry) # KeysOf(after)
      BY <1>1
    <3> HIDE DEF entry, after
    <3>5. PICK new :
            /\ Extends(new, entry, Candidates, Nodes, falsely)
            /\ \/ after = new /\ Len(new) = Cardinality(Candidates) /\ Cardinality(Candidates) <= Size
               \/ /\ Len(new) = Size + 1 /\ Cardinality(Candidates) > Size
                  /\ after \in Seq(ItemsOf(Candidates, Nodes)) /\ Len(after) = Size
                  /\ \A i \in 1..Size : after[i] = new[i + 1]
      BY <3>2 DEF Rotated
    <3>6. /\ new \in Seq(ItemsOf(Candidates, Nodes)) /\ Len(entry) <= Len(new)
          /\ \A i \in 1..Len(entry) : new[i] = entry[i]
          /\ \A i \in (Len(entry) + 1)..Len(new) : new[i].node \notin KeysOf(entry)
      BY <3>5 DEF Extends, IsPeerEntry
    <3>7. DOMAIN new = 1..Len(new)
      BY <3>6, SeqFacts
    <3>8. CASE after = new /\ Len(new) = Cardinality(Candidates) /\ Cardinality(Candidates) <= Size
      <4>1. Len(new) = Size
        BY <3>3, <3>6, <3>8, CandidateFacts
      <4>2. KeysOf(after) = KeysOf(entry)
        BY <3>3, <3>6, <3>7, <3>8, <4>1 DEF KeysOf
      <4>3. QED
        BY <3>4, <4>2
    <3>9. CASE /\ Len(new) = Size + 1 /\ Len(after) = Size
               /\ \A i \in 1..Size : after[i] = new[i + 1]
      <4>1. \A i \in 1..(Size - 1) : i \in 1..Size /\ i + 1 \in 1..Size
        BY CandidateFacts
      <4>2. Size \in 1..Size /\ Size + 1 \in (Size + 1)..(Size + 1)
        BY CandidateFacts
      <4>3. \A i \in 1..(Size - 1) : after[i] = entry[i + 1]
        BY <3>3, <3>6, <3>9, <4>1
      <4>4. after[Size].node \notin KeysOf(entry)
        BY <3>3, <3>6, <3>9, <4>2
      <4>5. QED
        BY <3>9, <4>3, <4>4 DEF entry, after
    <3>10. QED
      BY <3>5, <3>8, <3>9
  <2>2. ASSUME NEW node \in Candidates, NEW origins \in (SUBSET Nodes) \ {{}}, Prune(node, origins)
        PROVE  FALSE
    BY <1>1, <2>2, PruneActiveSet
  <2>3. QED
    BY <1>1, <2>1, <2>2 DEF Next
<1>2. ActiveSetInv /\ [Next]_vars =>
        [\A k \in Buckets :
           KeysOf(entries[k]) # KeysOf(entries'[k]) /\ Len(entries[k]) = Size =>
             /\ Len(entries'[k]) = Size
             /\ \A i \in 1..(Size - 1) : entries'[k][i] = entries[k][i + 1]
             /\ entries'[k][Size].node \notin KeysOf(entries[k])]_vars
  BY <1>1
<1>3. QED
  BY <1>2, ActiveSetInvariance, PTL DEF Spec, OldestLeavesFirst
=============================================================================
