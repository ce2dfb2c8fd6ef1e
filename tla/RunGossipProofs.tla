-------------------------- MODULE RunGossipProofs ---------------------------
(***************************************************************************)
(* Theorems about run_gossip, for every cluster, every answer of the       *)
(* active sets, every set of failed nodes and every fanout.  HopsInv, defined *)
(* in RunGossip, is the inductive invariant; each action preserves it by   *)
(* one lemma, with a step for each of its parts.                           *)
(***************************************************************************)
EXTENDS RunGossip, DataProofs, SequenceTheorems, TLAPS

-----------------------------------------------------------------------------
(* What the inputs and the loop's position give.                           *)

\* The peers the inner loop visits are nodes, other than the one that pushes
\* and the origin (get_nodes and take, gossip.rs:527-535).
LEMMA PeerFacts ==
  ASSUME TypeOK, NEW n \in Nodes
  PROVE  /\ peers[n] \in Seq(Nodes)
         /\ NumTargets(n) \in Nat
         /\ NumTargets(n) <= Len(peers[n])
         /\ \A i \in 1..NumTargets(n) : peers[n][i] \in Nodes \ {n, Origin}
<1>1. peers \in [Nodes -> Seq(Nodes)] /\ IsPeerSeq(n, peers[n])
  BY GossipAssumption DEF TypeOK
<1>2. /\ peers[n] \in Seq(Nodes) /\ Len(peers[n]) \in Nat
      /\ peers[n] \in Seq(Nodes \ {n, Origin})
  BY <1>1 DEF IsPeerSeq
<1>3. NumTargets(n) \in Nat /\ NumTargets(n) <= Len(peers[n])
  BY <1>2, GossipAssumption DEF NumTargets
<1>4. \A i \in 1..Len(peers[n]) : peers[n][i] \in Nodes \ {n, Origin}
  BY <1>2, ElementOfSeq
<1>5. \A i \in 1..NumTargets(n) : i \in 1..Len(peers[n])
  BY <1>2, <1>3
<1>6. QED
  BY <1>2, <1>3, <1>4, <1>5

\* Inside the loop the neighbor is such a peer of the current node.
LEMMA NeighborFacts ==
  ASSUME TypeOK, InLoop
  PROVE  /\ current \in Nodes
         /\ fanout_count + 1 \in 1..NumTargets(current)
         /\ Neighbor \in Nodes \ {current, Origin}
         /\ Neighbor \notin failed => Neighbor \in LiveLinks(current)
<1>1. current \in Nodes /\ fanout_count \in Nat /\ fanout_count < NumTargets(current)
  BY DEF InLoop, TypeOK
<1>2. NumTargets(current) \in Nat
  BY <1>1, PeerFacts
<1>3. fanout_count + 1 \in 1..NumTargets(current)
  BY <1>1, <1>2
<1>4. Neighbor \in Nodes \ {current, Origin}
  BY <1>1, <1>3, PeerFacts DEF Neighbor
<1>5. Neighbor \notin failed => Neighbor \in LiveLinks(current)
  BY <1>3 DEF Neighbor, LiveLinks
<1>6. QED
  BY <1>1, <1>3, <1>4, <1>5

\* A visited node's distance is a number.
LEMMA VisitedNat ==
  ASSUME TypeOK, VisitedHaveHops
  PROVE  \A n \in visited : n \in Nodes /\ distances[n] \in Nat
BY DEF TypeOK, VisitedHaveHops, Hops

\* The bookkeeping of a push keeps the types of its maps.
LEMMA RecordPushType ==
  ASSUME TypeOK, NEW src \in Nodes, NEW dst \in Nodes, distances[src] \in Nat,
         RecordPush(src, dst)
  PROVE  /\ pushes' \in [Nodes -> SUBSET Nodes]
         /\ egress' \in [Nodes -> Nat]
         /\ ingress' \in [Nodes -> Nat]
         /\ orders' \in [Nodes -> [Nodes -> Hops]]
<1>1. pushes' \in [Nodes -> SUBSET Nodes]
  BY DEF TypeOK, RecordPush
<1>2. egress' \in [Nodes -> Nat]
  BY DEF TypeOK, RecordPush
<1>3. ingress' \in [Nodes -> Nat]
  BY DEF TypeOK, RecordPush
<1>4. orders' \in [Nodes -> [Nodes -> Hops]]
  BY SMTT(60) DEF TypeOK, RecordPush, Hops
<1>5. QED
  BY <1>1, <1>2, <1>3, <1>4

\* A recorded push keeps the copies already recorded: the same sender pushes
\* the same hops.
LEMMA RecordPushKeeps ==
  ASSUME TypeOK, CopiesOneFarther, NEW src \in Nodes, NEW dst \in Nodes, RecordPush(src, dst),
         NEW d \in Nodes, NEW s \in Nodes, orders[d][s] # Unreached
  PROVE  orders'[d][s] = orders[d][s]
<1>1. orders \in [Nodes -> [Nodes -> Hops]]
      /\ orders' = [orders EXCEPT ![dst][src] = distances[src] + 1]
  BY DEF TypeOK, RecordPush
<1>2. CASE d = dst /\ s = src
  BY <1>1, <1>2 DEF CopiesOneFarther
<1>3. CASE ~(d = dst /\ s = src)
  BY <1>1, <1>3
<1>4. QED
  BY <1>2, <1>3

-----------------------------------------------------------------------------
(* The invariant holds at first, and every action preserves it.            *)

\* The origin alone is queued and visited, at distance 0.
LEMMA InitHopsInv == Init => HopsInv
<1> SUFFICES ASSUME Init PROVE HopsInv
  OBVIOUS
<1> USE GossipAssumption
<1>1. queue \in Seq(Nodes) /\ Len(queue) = 1 /\ queue[1] = Origin
  BY DEF Init
<1>2. TypeOK
  BY <1>1 DEF Init, TypeOK, Hops
<1>3. VisitedHaveHops
  BY DEF Init, VisitedHaveHops
<1>4. QueueVisited
  BY <1>1 DEF Init, QueueVisited
<1>5. BreadthFirst
  BY <1>1 DEF Init, BreadthFirst
<1>6. NobodyFarther /\ HasPredecessor
  BY DEF Init, NobodyFarther, HasPredecessor
<1>7. LinksFollowed
  BY <1>1 DEF Init, LinksFollowed, Queued
<1>8. CopiesOneFarther /\ TreeOfFirstCopies
  BY DEF Init, CopiesOneFarther, TreeOfFirstCopies
<1>9. QED
  BY <1>2, <1>3, <1>4, <1>5, <1>6, <1>7, <1>8 DEF HopsInv

\* Taking the next node from the queue (gossip.rs:511-522).
LEMMA DequeueHopsInv == HopsInv /\ Dequeue => HopsInv'
<1> SUFFICES ASSUME HopsInv, Dequeue PROVE HopsInv'
  OBVIOUS
<1> USE GossipAssumption
<1>0. TypeOK /\ VisitedHaveHops
  BY DEF HopsInv
<1>1. /\ queue \in Seq(Nodes) /\ queue # <<>>
      /\ current' = Head(queue) /\ queue' = Tail(queue) /\ fanout_count' = 0
      /\ UNCHANGED <<peers, failed, visited, distances, orders>>
  BY DEF HopsInv, TypeOK, Dequeue, inputs
<1>2. /\ Len(queue) \in Nat /\ 1 \in 1..Len(queue) /\ current' = queue[1]
      /\ queue' \in Seq(Nodes) /\ Len(queue') = Len(queue) - 1
      /\ \A i \in 1..Len(queue') : i + 1 \in 1..Len(queue) /\ queue'[i] = queue[i + 1]
  BY <1>1, HeadTailProperties
<1>3. current' \in visited /\ current' \in Nodes /\ distances[current'] \in Nat
  BY <1>0, <1>2, VisitedNat DEF HopsInv, QueueVisited
<1>4. \A i \in 1..Len(queue) : queue[i] \in visited /\ distances[queue[i]] \in Nat
  BY <1>0, VisitedNat DEF HopsInv, QueueVisited
<1>5. TypeOK'
  <2>1. pushes' \in [Nodes -> SUBSET Nodes] /\ egress' \in [Nodes -> Nat]
    BY <1>0, <1>3 DEF TypeOK, Dequeue
  <2>2. UNCHANGED <<mst, ingress, rmr>>
    BY DEF Dequeue
  <2>3. QED
    BY <1>0, <1>1, <1>2, <1>3, <2>1, <2>2 DEF TypeOK
<1>6. VisitedHaveHops'
  BY <1>1 DEF HopsInv, VisitedHaveHops
<1>7. QueueVisited'
  BY <1>1, <1>2, <1>3, <1>4 DEF QueueVisited
<1>8. BreadthFirst'
  <2>1. \A i, j \in 1..Len(queue') : i < j => distances'[queue'[i]] <= distances'[queue'[j]]
    BY <1>1, <1>2 DEF HopsInv, BreadthFirst
  <2>2. \A i \in 1..Len(queue') :
          distances'[queue'[i]] \in {distances'[current'], distances'[current'] + 1}
    <3> SUFFICES ASSUME NEW i \in 1..Len(queue')
                 PROVE  distances[queue[i + 1]] \in {distances[queue[1]], distances[queue[1]] + 1}
      BY <1>1, <1>2
    <3>1. distances[queue[1]] <= distances[queue[i + 1]]
      BY <1>2 DEF HopsInv, BreadthFirst
    <3>2. CASE current = NoNode
      BY <1>2, <3>2 DEF HopsInv, QueueVisited
    <3>3. CASE current # NoNode
      <4>1. /\ distances[queue[1]] \in {distances[current], distances[current] + 1}
            /\ distances[queue[i + 1]] \in {distances[current], distances[current] + 1}
        BY <1>2, <3>3 DEF HopsInv, BreadthFirst
      <4>2. distances[current] \in Nat
        BY <1>0, <3>3, VisitedNat DEF HopsInv, QueueVisited
      <4>3. QED
        BY <3>1, <4>1, <4>2
    <3>4. QED
      BY <3>2, <3>3
  <2>3. QED
    BY <2>1, <2>2 DEF BreadthFirst
<1>9. NobodyFarther'
  <2> SUFFICES ASSUME NEW n \in visited
               PROVE  distances[n] <= distances[current'] + 1
    BY <1>1 DEF NobodyFarther
  <2>1. distances[n] \in Nat
    BY <1>0, VisitedNat
  <2>2. CASE current = NoNode
    BY <1>2, <1>3, <2>1, <2>2 DEF HopsInv, QueueVisited
  <2>3. CASE current # NoNode
    <3>1. /\ distances[n] <= distances[current] + 1
          /\ distances[current'] \in {distances[current], distances[current] + 1}
      BY <1>2, <2>3 DEF HopsInv, NobodyFarther, BreadthFirst
    <3>2. distances[current] \in Nat
      BY <1>0, <2>3, VisitedNat DEF HopsInv, QueueVisited
    <3>3. QED
      BY <3>1, <3>2, <2>1
  <2>4. QED
    BY <2>2, <2>3
<1>10. HasPredecessor'
  BY <1>1 DEF HopsInv, HasPredecessor, LiveLinks, NumTargets
<1>11. LinksFollowed'
  <2>1. ASSUME NEW u \in visited, ~Queued(u)', u # current', NEW i \in 1..NumTargets(u)
        PROVE  Followed(u, peers[u][i])
    <3>1. ~Queued(u)
      <4> SUFFICES ASSUME NEW j \in 1..Len(queue), queue[j] = u PROVE FALSE
        BY DEF Queued
      <4>1. j # 1
        BY <1>2, <2>1
      <4>2. j - 1 \in 1..Len(queue') /\ queue'[j - 1] = queue[j]
        BY <1>2, <4>1
      <4>3. QED
        BY <4>2, <2>1 DEF Queued
    <3>2. CASE u # current
      BY <2>1, <3>1, <3>2 DEF HopsInv, LinksFollowed
    <3>3. CASE u = current
      <4>1. u \in Nodes /\ u # NoNode
        BY <1>0, <2>1, VisitedNat
      <4>2. NumTargets(u) \in Nat /\ fanout_count \in Nat /\ ~(fanout_count < NumTargets(u))
        BY <1>0, <4>1, <3>3, PeerFacts DEF Dequeue, InLoop, TypeOK
      <4>3. i <= fanout_count
        BY <4>2, <2>1
      <4>4. QED
        BY <4>1, <4>3, <3>3, <2>1 DEF HopsInv, LinksFollowed
    <3>4. QED
      BY <3>2, <3>3
  <2>2. \A i \in 1..NumTargets(current') : ~(i <= fanout_count')
    BY <1>1
  <2>3. QED
    BY <1>1, <2>1, <2>2 DEF LinksFollowed, Followed, NumTargets
<1>12. CopiesOneFarther'
  BY <1>1 DEF HopsInv, CopiesOneFarther, LiveLinks, NumTargets
<1>13. TreeOfFirstCopies'
  BY <1>1 DEF Dequeue, HopsInv, TreeOfFirstCopies
<1>14. QED
  BY <1>5, <1>6, <1>7, <1>8, <1>9, <1>10, <1>11, <1>12, <1>13 DEF HopsInv

\* Coming past a failed neighbor (gossip.rs:538-541).
LEMMA SkipHopsInv == HopsInv /\ SkipFailed => HopsInv'
<1> SUFFICES ASSUME HopsInv, SkipFailed PROVE HopsInv'
  OBVIOUS
<1> USE GossipAssumption
<1>0. TypeOK /\ InLoop
  BY DEF HopsInv, SkipFailed
<1>1. /\ UNCHANGED <<peers, failed, queue, visited, distances, orders, mst, pushes,
                     egress, ingress, rmr, current>>
      /\ fanout_count' = fanout_count + 1 /\ fanout_count \in Nat
      /\ Neighbor \in failed
  BY DEF HopsInv, TypeOK, SkipFailed, inputs
<1>2. TypeOK'
  BY SMTT(60), <1>0, <1>1 DEF TypeOK
<1>3. VisitedHaveHops' /\ QueueVisited' /\ BreadthFirst' /\ NobodyFarther'
  BY <1>1 DEF HopsInv, VisitedHaveHops, QueueVisited, BreadthFirst, NobodyFarther
<1>4. HasPredecessor' /\ CopiesOneFarther' /\ TreeOfFirstCopies'
  BY <1>1 DEF HopsInv, HasPredecessor, CopiesOneFarther, TreeOfFirstCopies, LiveLinks, NumTargets
<1>5. LinksFollowed'
  <2>1. ASSUME NEW i \in 1..NumTargets(current), i <= fanout_count + 1
        PROVE  Followed(current, peers[current][i])
    <3>1. CASE i <= fanout_count
      BY <1>0, <3>1 DEF HopsInv, LinksFollowed, InLoop
    <3>2. CASE i = fanout_count + 1
      BY <1>1, <3>2 DEF Neighbor, Followed
    <3>3. NumTargets(current) \in Nat
      BY <1>0, NeighborFacts, PeerFacts
    <3>4. QED
      BY <2>1, <3>1, <3>2, <3>3, <1>1
  <2>2. \A u \in visited : ~Queued(u) /\ u # current =>
          \A i \in 1..NumTargets(u) : Followed(u, peers[u][i])
    BY DEF HopsInv, LinksFollowed
  <2>3. QED
    BY <1>1, <2>1, <2>2 DEF LinksFollowed, Followed, NumTargets, Queued
<1>6. QED
  BY <1>2, <1>3, <1>4, <1>5 DEF HopsInv

\* A redundant copy (gossip.rs:549-571 and 601-607).
LEMMA DuplicateHopsInv == HopsInv /\ PushDuplicate => HopsInv'
<1> SUFFICES ASSUME HopsInv, PushDuplicate PROVE HopsInv'
  OBVIOUS
<1> USE GossipAssumption
<1>0. TypeOK /\ InLoop /\ VisitedHaveHops
  BY DEF HopsInv, PushDuplicate
<1>1. /\ UNCHANGED <<peers, failed, queue, visited, distances, mst, current>>
      /\ fanout_count' = fanout_count + 1 /\ fanout_count \in Nat
      /\ Neighbor \in visited
      /\ orders' = [orders EXCEPT ![Neighbor][current] = distances[current] + 1]
  BY DEF HopsInv, TypeOK, PushDuplicate, RecordPush, inputs
<1>2. /\ current \in Nodes /\ current \in visited /\ distances[current] \in Nat
      /\ Neighbor \in Nodes /\ current # NoNode
  BY <1>0, NeighborFacts, VisitedNat DEF HopsInv, QueueVisited, InLoop
<1>3. TypeOK'
  <2>1. RecordPush(current, Neighbor) /\ mst' = mst
    BY DEF PushDuplicate
  <2>2. rmr' \in [m : Nat, n : Nat]
    BY <1>0 DEF TypeOK, PushDuplicate
  <2>3. /\ pushes' \in [Nodes -> SUBSET Nodes] /\ egress' \in [Nodes -> Nat]
        /\ ingress' \in [Nodes -> Nat] /\ orders' \in [Nodes -> [Nodes -> Hops]]
    BY <1>0, <1>2, <2>1, RecordPushType
  <2>4. /\ peers' \in ActiveSets /\ failed' \in SUBSET Nodes /\ queue' \in Seq(Nodes)
        /\ visited' \in SUBSET Nodes /\ distances' \in [Nodes -> Hops]
        /\ current' \in Nodes \cup {NoNode} /\ mst' \in [Nodes -> SUBSET Nodes]
    BY <1>0, <1>1, <2>1 DEF TypeOK
  <2>5. fanout_count' \in Nat
    BY <1>1
  <2>6. QED
    BY <2>2, <2>3, <2>4, <2>5 DEF TypeOK
<1>4. VisitedHaveHops' /\ QueueVisited' /\ BreadthFirst' /\ NobodyFarther'
  BY <1>1 DEF HopsInv, VisitedHaveHops, QueueVisited, BreadthFirst, NobodyFarther
<1>5. HasPredecessor'
  BY <1>1 DEF HopsInv, HasPredecessor, LiveLinks, NumTargets
<1>6. LinksFollowed'
  <2> DEFINE Holds(u, v) == v \in failed \/ ( /\ v \in visited /\ distances[v] <= distances[u] + 1
                                             /\ orders'[v][u] # Unreached)
  <2>1. \A u, v \in Nodes : Followed(u, v) => Holds(u, v)
    BY <1>0, <1>2, RecordPushKeeps DEF PushDuplicate, Followed, HopsInv
  <2>2. Holds(current, Neighbor)
    <3>1. orders'[Neighbor][current] = distances[current] + 1
      BY <1>0, <1>1, <1>2 DEF TypeOK
    <3>2. orders'[Neighbor][current] # Unreached
      BY <3>1, <1>2
    <3>3. distances[Neighbor] <= distances[current] + 1
      BY <1>1, <1>2 DEF HopsInv, NobodyFarther
    <3>4. QED
      BY <1>1, <3>2, <3>3
  <2>3. ASSUME NEW i \in 1..NumTargets(current), i <= fanout_count + 1
        PROVE  Holds(current, peers[current][i])
    <3>1. CASE i <= fanout_count
      <4>1. Followed(current, peers[current][i]) /\ peers[current][i] \in Nodes
        BY <1>0, <1>2, <3>1, PeerFacts DEF HopsInv, LinksFollowed
      <4>2. QED
        BY <1>2, <2>1, <4>1
    <3>2. CASE i = fanout_count + 1
      BY <2>2, <3>2 DEF Neighbor
    <3>3. NumTargets(current) \in Nat
      BY <1>0, <1>2, PeerFacts
    <3>4. QED
      BY <2>3, <3>1, <3>2, <3>3, <1>1
  <2>4. ASSUME NEW u \in visited, ~Queued(u), u # current, NEW i \in 1..NumTargets(u)
        PROVE  Holds(u, peers[u][i])
    <3>1. u \in Nodes /\ peers[u][i] \in Nodes
      BY <1>0, PeerFacts, VisitedNat
    <3>2. Followed(u, peers[u][i])
      BY <2>4 DEF HopsInv, LinksFollowed
    <3>3. QED
      BY <2>1, <3>1, <3>2
  <2>5. QED
    BY <1>1, <2>3, <2>4 DEF LinksFollowed, Followed, NumTargets, Queued
<1>7. CopiesOneFarther'
  <2> SUFFICES ASSUME NEW d \in Nodes, NEW n \in Nodes, orders'[d][n] # Unreached
               PROVE  /\ n \in visited /\ d \in LiveLinks(n) /\ orders'[d][n] = distances[n] + 1
                      /\ d \in visited /\ distances[d] <= orders'[d][n]
    BY <1>1 DEF CopiesOneFarther, LiveLinks, NumTargets
  <2>1. CASE d = Neighbor /\ n = current
    <3>1. Neighbor \in LiveLinks(current)
      BY <1>0, NeighborFacts DEF PushDuplicate
    <3>2. orders'[d][n] = distances[current] + 1
      BY <1>0, <1>1, <1>2, <2>1 DEF TypeOK
    <3>3. distances[Neighbor] <= distances[current] + 1
      BY <1>1, <1>2 DEF HopsInv, NobodyFarther
    <3>4. QED
      BY <1>1, <1>2, <2>1, <3>1, <3>2, <3>3
  <2>2. CASE ~(d = Neighbor /\ n = current)
    <3>1. orders'[d][n] = orders[d][n]
      BY <1>0, <1>1, <2>2 DEF TypeOK
    <3>2. QED
      BY <3>1 DEF HopsInv, CopiesOneFarther
  <2>3. QED
    BY <2>1, <2>2
<1>8. TreeOfFirstCopies'
  <2>1. \A d, n \in Nodes : orders[d][n] # Unreached => orders'[d][n] # Unreached
    BY <1>0, <1>2, RecordPushKeeps DEF PushDuplicate, HopsInv
  <2>2. visited \subseteq Nodes
    BY <1>0 DEF TypeOK
  <2>3. QED
    BY <1>1, <2>1, <2>2 DEF HopsInv, TreeOfFirstCopies
<1>9. QED
  BY <1>3, <1>4, <1>5, <1>6, <1>7, <1>8 DEF HopsInv

\* A first copy (gossip.rs:549-607).
LEMMA PushFirstHopsInv == HopsInv /\ PushFirst => HopsInv'
<1> SUFFICES ASSUME HopsInv, PushFirst PROVE HopsInv'
  OBVIOUS
<1> USE GossipAssumption
<1>0. TypeOK /\ InLoop /\ VisitedHaveHops
  BY DEF HopsInv, PushFirst, Enqueue
<1>1. /\ UNCHANGED <<peers, failed, current>>
      /\ fanout_count' = fanout_count + 1 /\ fanout_count \in Nat
      /\ Neighbor \notin visited /\ Neighbor \notin failed
      /\ visited' = visited \cup {Neighbor}
      /\ distances' = [distances EXCEPT ![Neighbor] = distances[current] + 1]
      /\ queue' = Append(queue, Neighbor)
      /\ orders' = [orders EXCEPT ![Neighbor][current] = distances[current] + 1]
  BY DEF HopsInv, TypeOK, PushFirst, Enqueue, RecordPush, inputs
<1>2. /\ current \in Nodes /\ current \in visited /\ distances[current] \in Nat
      /\ current # NoNode /\ Neighbor \in Nodes /\ Neighbor # Origin
      /\ Neighbor # current /\ Neighbor \in LiveLinks(current)
  BY <1>0, <1>1, NeighborFacts, VisitedNat DEF HopsInv, QueueVisited, InLoop
<1>3. /\ queue \in Seq(Nodes) /\ Len(queue) \in Nat
      /\ queue' \in Seq(Nodes) /\ Len(queue') = Len(queue) + 1
      /\ \A i \in 1..Len(queue) : queue'[i] = queue[i]
      /\ queue'[Len(queue) + 1] = Neighbor
  BY SMTT(60), <1>0, <1>1, <1>2, AppendProperties DEF TypeOK
<1>4. /\ distances'[Neighbor] = distances[current] + 1
      /\ \A n \in Nodes : n # Neighbor => distances'[n] = distances[n]
  BY <1>0, <1>1, <1>2 DEF TypeOK
<1>5. \A n \in visited : /\ n \in Nodes /\ n # Neighbor
                         /\ distances'[n] = distances[n] /\ distances[n] \in Nat
  BY <1>0, <1>1, <1>4, VisitedNat
<1>6. TypeOK'
  <2>1. RecordPush(current, Neighbor)
    BY DEF PushFirst, Enqueue
  <2>2. /\ rmr' \in [m : Nat, n : Nat] /\ mst' \in [Nodes -> SUBSET Nodes]
        /\ distances' \in [Nodes -> Hops]
    <3>1. rmr' \in [m : Nat, n : Nat]
      BY <1>0 DEF TypeOK, PushFirst, Enqueue
    <3>2. mst' \in [Nodes -> SUBSET Nodes]
      BY <1>0, <1>2 DEF TypeOK, PushFirst, Enqueue
    <3>3. distances' \in [Nodes -> Hops]
      <4>1. distances[current] + 1 \in Hops
        BY <1>2 DEF Hops
      <4>2. QED
        BY <4>1, <1>0, <1>1 DEF TypeOK
    <3>4. QED
      BY <3>1, <3>2, <3>3
  <2>3. /\ pushes' \in [Nodes -> SUBSET Nodes] /\ egress' \in [Nodes -> Nat]
        /\ ingress' \in [Nodes -> Nat] /\ orders' \in [Nodes -> [Nodes -> Hops]]
    BY <1>0, <1>2, <2>1, RecordPushType
  <2>4. /\ peers' \in ActiveSets /\ failed' \in SUBSET Nodes
        /\ visited' \in SUBSET Nodes /\ current' \in Nodes \cup {NoNode}
    BY <1>0, <1>1, <1>2 DEF TypeOK
  <2>5. fanout_count' \in Nat
    BY <1>1
  <2>6. QED
    BY <1>3, <2>2, <2>3, <2>4, <2>5 DEF TypeOK
<1>7. VisitedHaveHops'
  BY <1>0, <1>1, <1>2, <1>4 DEF VisitedHaveHops
<1>8. QueueVisited'
  <2>1. \A i \in 1..Len(queue') : queue'[i] \in visited'
    <3>1. \A i \in 1..Len(queue) : queue'[i] \in visited
      BY <1>3 DEF HopsInv, QueueVisited
    <3>2. \A i \in 1..Len(queue') : i \in 1..Len(queue) \/ i = Len(queue) + 1
      BY <1>3
    <3>3. QED
      BY <3>1, <3>2, <1>1, <1>3
  <2>2. QED
    BY <2>1, <1>1, <1>2 DEF QueueVisited
<1>9. BreadthFirst'
  <2>1. \A i \in 1..Len(queue) :
          /\ queue'[i] = queue[i] /\ queue[i] \in visited
          /\ distances'[queue'[i]] = distances[queue[i]] /\ distances[queue[i]] \in Nat
          /\ distances[queue[i]] \in {distances[current], distances[current] + 1}
    BY <1>2, <1>3, <1>5 DEF HopsInv, QueueVisited, BreadthFirst
  <2>2. distances'[current'] = distances[current]
    BY <1>1, <1>2, <1>5
  <2>3. \A i \in 1..Len(queue') : i \in 1..Len(queue) \/ i = Len(queue) + 1
    BY <1>3
  <2>4. \A i \in 1..Len(queue') :
          distances'[queue'[i]] \in {distances'[current'], distances'[current'] + 1}
    BY <1>3, <1>4, <2>1, <2>2, <2>3
  <2>5. ASSUME NEW i \in 1..Len(queue'), NEW j \in 1..Len(queue'), i < j
        PROVE  distances'[queue'[i]] <= distances'[queue'[j]]
    <3>1. i \in 1..Len(queue)
      BY <1>3, <2>5
    <3>2. CASE j \in 1..Len(queue)
      BY <2>1, <2>5, <3>1, <3>2 DEF HopsInv, BreadthFirst
    <3>3. CASE j = Len(queue) + 1
      <4>1. distances'[queue'[j]] = distances[current] + 1
        BY <1>3, <1>4, <3>3
      <4>2. distances'[queue'[i]] \in {distances[current], distances[current] + 1}
        BY <2>1, <3>1
      <4>3. QED
        BY <4>1, <4>2, <1>2
    <3>4. QED
      BY <2>3, <3>2, <3>3
  <2>6. QED
    BY <2>4, <2>5 DEF BreadthFirst
<1>10. NobodyFarther'
  <2>1. \A n \in visited : distances'[n] <= distances[current] + 1
    BY <1>2, <1>5 DEF HopsInv, NobodyFarther
  <2>2. distances'[Neighbor] <= distances[current] + 1
    BY <1>2, <1>4
  <2>3. distances'[current'] = distances[current]
    BY <1>1, <1>2, <1>5
  <2>4. QED
    BY <1>1, <2>1, <2>2, <2>3 DEF NobodyFarther
<1>11. HasPredecessor'
  <2>1. \A u \in Nodes : LiveLinks(u)' = LiveLinks(u)
    BY <1>1 DEF LiveLinks, NumTargets
  <2>2. ASSUME NEW n \in visited' \ {Origin}
        PROVE  \E u \in visited' : n \in LiveLinks(u) /\ distances'[n] = distances'[u] + 1
    <3>1. CASE n = Neighbor
      BY <1>1, <1>2, <1>4, <1>5, <3>1
    <3>2. CASE n \in visited \ {Origin}
      <4>1. PICK u \in visited : n \in LiveLinks(u) /\ distances[n] = distances[u] + 1
        BY <3>2 DEF HopsInv, HasPredecessor
      <4>2. u \in visited' /\ distances'[n] = distances'[u] + 1
        BY <4>1, <1>1, <1>5, <3>2
      <4>3. QED
        BY <4>1, <4>2
    <3>3. QED
      BY <1>1, <2>2, <3>1, <3>2
  <2>3. visited' \subseteq Nodes
    BY <1>6 DEF TypeOK
  <2>4. QED
    BY <2>1, <2>2, <2>3 DEF HasPredecessor
<1>12. LinksFollowed'
  <2> DEFINE Holds(u, v) == v \in failed \/ ( /\ v \in visited' /\ distances'[v] <= distances'[u] + 1
                                             /\ orders'[v][u] # Unreached)
  <2>1. \A u, v : u \in visited /\ Followed(u, v) => Holds(u, v)
    <3>1. RecordPush(current, Neighbor)
      BY DEF PushFirst, Enqueue
    <3>2. QED
      BY <1>0, <1>1, <1>2, <1>5, <3>1, RecordPushKeeps DEF Followed, HopsInv
  <2>2. Holds(current, Neighbor)
    <3>1. orders'[Neighbor][current] = distances[current] + 1
      BY <1>0, <1>1, <1>2 DEF TypeOK
    <3>2. orders'[Neighbor][current] # Unreached
      BY <3>1, <1>2
    <3>3. QED
      BY <1>1, <1>2, <1>4, <1>5, <3>2
  <2>3. ASSUME NEW i \in 1..NumTargets(current), i <= fanout_count + 1
        PROVE  Holds(current, peers[current][i])
    <3>1. CASE i <= fanout_count
      <4>1. Followed(current, peers[current][i])
        BY <1>2, <3>1 DEF HopsInv, LinksFollowed
      <4>2. QED
        BY <4>1, <2>1, <1>2
    <3>2. CASE i = fanout_count + 1
      BY <2>2, <3>2 DEF Neighbor
    <3>3. NumTargets(current) \in Nat
      BY <1>0, <1>2, PeerFacts
    <3>4. QED
      BY <2>3, <3>1, <3>2, <3>3, <1>1
  <2>4. ASSUME NEW u \in visited', ~Queued(u)', u # current, NEW i \in 1..NumTargets(u)
        PROVE  Holds(u, peers[u][i])
    <3>1. \A k \in 1..Len(queue) : k \in 1..Len(queue') /\ queue'[k] = queue[k]
      BY <1>3
    <3>2. u # Neighbor
      BY <1>3, <2>4 DEF Queued
    <3>3. u \in visited /\ ~Queued(u)
      BY <1>1, <2>4, <3>1, <3>2 DEF Queued
    <3>4. Followed(u, peers[u][i])
      BY <2>4, <3>3 DEF HopsInv, LinksFollowed
    <3>5. QED
      BY <2>1, <3>3, <3>4
  <2>5. QED
    BY <1>1, <1>2, <2>3, <2>4 DEF LinksFollowed, Followed, NumTargets
<1>13. CopiesOneFarther'
  <2> SUFFICES ASSUME NEW d \in Nodes, NEW n \in Nodes, orders'[d][n] # Unreached
               PROVE  /\ n \in visited' /\ d \in LiveLinks(n) /\ orders'[d][n] = distances'[n] + 1
                      /\ d \in visited' /\ distances'[d] <= orders'[d][n]
    BY <1>1 DEF CopiesOneFarther, LiveLinks, NumTargets
  <2>1. CASE d = Neighbor /\ n = current
    <3>1. orders'[d][n] = distances[current] + 1
      BY <1>0, <1>1, <1>2, <2>1 DEF TypeOK
    <3>2. QED
      BY <3>1, <1>1, <1>2, <1>4, <1>5, <2>1
  <2>2. CASE ~(d = Neighbor /\ n = current)
    <3>1. orders'[d][n] = orders[d][n]
      BY <1>0, <1>1, <2>2 DEF TypeOK
    <3>2. QED
      BY <3>1, <1>1, <1>5 DEF HopsInv, CopiesOneFarther
  <2>3. QED
    BY <2>1, <2>2
<1>14. TreeOfFirstCopies'
  <2>1. /\ mst' = [mst EXCEPT ![current] = @ \cup {Neighbor}]
        /\ mst \in [Nodes -> SUBSET Nodes]
    BY <1>0 DEF PushFirst, Enqueue, TypeOK
  <2>2. \A p \in Nodes : mst'[p] = IF p = current THEN mst[p] \cup {Neighbor} ELSE mst[p]
    BY <1>2, <2>1
  <2>3. \A p \in Nodes : Neighbor \notin mst[p]
    BY <1>1 DEF HopsInv, TreeOfFirstCopies
  <2>4. \A n \in visited' \ {Origin} : \E p \in Nodes : n \in mst'[p]
    BY <1>1, <1>2, <2>2 DEF HopsInv, TreeOfFirstCopies
  <2>5. ASSUME NEW p \in Nodes, NEW n \in mst'[p]
        PROVE  /\ n \in visited' \ {Origin} /\ orders'[n][p] # Unreached
               /\ distances'[n] = distances'[p] + 1
               /\ \A q \in Nodes : n \in mst'[q] => q = p
    <3>1. CASE n = Neighbor
      <4>1. p = current /\ \A q \in Nodes : n \in mst'[q] => q = current
        BY <2>2, <2>3, <2>5, <3>1
      <4>2. orders'[Neighbor][current] = distances[current] + 1
        BY <1>0, <1>1, <1>2 DEF TypeOK
      <4>3. distances'[current] = distances[current]
        BY <1>2, <1>5
      <4>4. QED
        BY <1>1, <1>2, <1>4, <3>1, <4>1, <4>2, <4>3
    <3>2. CASE n # Neighbor
      <4>1. n \in mst[p] /\ \A q \in Nodes : n \in mst'[q] => n \in mst[q]
        BY <2>2, <2>5, <3>2
      <4>2. /\ n \in visited \ {Origin} /\ orders[n][p] # Unreached
            /\ distances[n] = distances[p] + 1
            /\ \A q \in Nodes : n \in mst[q] => q = p
        BY <4>1 DEF HopsInv, TreeOfFirstCopies
      <4>3. n \in Nodes /\ p \in visited
        BY <1>5, <4>2 DEF HopsInv, CopiesOneFarther
      <4>4. orders'[n][p] = orders[n][p]
        BY <1>0, <1>1, <1>2, <3>2, <4>3 DEF TypeOK
      <4>5. QED
        BY <1>1, <1>5, <4>1, <4>2, <4>3, <4>4
    <3>3. QED
      BY <3>1, <3>2
  <2>6. QED
    BY <2>4, <2>5 DEF TreeOfFirstCopies
<1>15. QED
  BY <1>6, <1>7, <1>8, <1>9, <1>10, <1>11, <1>12, <1>13, <1>14 DEF HopsInv

\* Nothing happens once run_gossip has returned, nor in a stuttering step.
LEMMA StutterHopsInv == HopsInv /\ UNCHANGED vars => HopsInv'
<1> SUFFICES ASSUME HopsInv, UNCHANGED vars PROVE HopsInv'
  OBVIOUS
<1>1. UNCHANGED <<peers, failed, queue, visited, distances, orders, mst, pushes,
                  egress, ingress, rmr, current, fanout_count>>
  BY DEF vars
<1>2. TypeOK' /\ VisitedHaveHops' /\ QueueVisited' /\ BreadthFirst' /\ NobodyFarther'
  BY <1>1 DEF HopsInv, TypeOK, VisitedHaveHops, QueueVisited, BreadthFirst, NobodyFarther
<1>3. HasPredecessor' /\ CopiesOneFarther' /\ TreeOfFirstCopies'
  BY <1>1 DEF HopsInv, HasPredecessor, CopiesOneFarther, TreeOfFirstCopies, LiveLinks, NumTargets
<1>4. LinksFollowed'
  BY <1>1 DEF HopsInv, LinksFollowed, Followed, NumTargets, Queued
<1>5. QED
  BY <1>2, <1>3, <1>4 DEF HopsInv

\* A node that is neither queued nor still pushing has followed each of its
\* live links (gossip.rs:523-607, the whole inner loop).
LEMMA ServedLinksFollowed ==
  ASSUME HopsInv, ~InLoop, NEW u \in visited, ~Queued(u), NEW n \in LiveLinks(u)
  PROVE  /\ n \in visited /\ distances[n] <= distances[u] + 1
         /\ orders[n][u] # Unreached
<1>1. TypeOK
  BY DEF HopsInv
<1>2. u \in Nodes /\ u # NoNode
  BY <1>1, GossipAssumption DEF TypeOK
<1>3. PICK i \in 1..NumTargets(u) : n = peers[u][i] /\ n \notin failed
  BY DEF LiveLinks
<1>4. Followed(u, peers[u][i])
  <2>1. CASE u # current
    BY <2>1 DEF HopsInv, LinksFollowed
  <2>2. CASE u = current
    <3>1. /\ NumTargets(u) \in Nat /\ fanout_count \in Nat
          /\ ~(fanout_count < NumTargets(u))
      BY <1>1, <1>2, <2>2, PeerFacts DEF InLoop, TypeOK
    <3>2. i <= fanout_count
      BY <3>1
    <3>3. QED
      BY <1>2, <2>2, <3>2 DEF HopsInv, LinksFollowed
  <2>3. QED
    BY <2>1, <2>2
<1>5. QED
  BY <1>3, <1>4 DEF Followed

-----------------------------------------------------------------------------
(* The theorems.                                                           *)

\* The half about the hops does not need the other one.
THEOREM HopsInvariance == Spec => []HopsInv
<1>1. HopsInv /\ [Next]_vars => HopsInv'
  BY DequeueHopsInv, SkipHopsInv, PushFirstHopsInv, DuplicateHopsInv, StutterHopsInv DEF Next, Returned
<1>2. QED
  BY <1>1, InitHopsInv, PTL DEF Spec

\* The maps of the Cluster struct keep their types, whatever the cluster.
THEOREM TypeCorrect == Spec => []TypeOK
<1>1. HopsInv => TypeOK
  BY DEF HopsInv
<1>2. QED
  BY <1>1, HopsInvariance, PTL

\* "BFS searches at ever increasing distances" (gossip.rs:581).
THEOREM BreadthFirstCorrect == Spec => []BreadthFirst
<1>1. HopsInv => BreadthFirst
  BY DEF HopsInv
<1>2. QED
  BY <1>1, HopsInvariance, PTL

\* "There is no chance we will find a shorter path" (gossip.rs:580): the
\* distances run_gossip leaves certify themselves as shortest.
THEOREM HopsCertified == Spec => []CertifiedHops
<1>1. HopsInv => CertifiedHops
  <2> SUFFICES ASSUME HopsInv PROVE CertifiedHops
    OBVIOUS
  <2> USE GossipAssumption
  <2>1. TypeOK /\ VisitedHaveHops /\ HasPredecessor
    BY DEF HopsInv
  <2>2. ASSUME Done, NEW u \in visited, NEW n \in LiveLinks(u)
        PROVE  n \in visited /\ distances[n] <= distances[u] + 1
    <3>1. ~Queued(u)
      BY <2>2 DEF Done, Queued
    <3>2. QED
      BY <2>2, <3>1, ServedLinksFollowed DEF Done
  <2>3. QED
    BY <2>1, <2>2 DEF CertifiedHops, VisitedHaveHops, HasPredecessor
<1>2. QED
  BY <1>1, HopsInvariance, PTL

\* When run_gossip returns, orders holds what consume_messages is to read
\* (gossip.rs:601-607): every copy pushed over a live link, and no other.
THEOREM OrdersCompleteCorrect == Spec => []OrdersComplete
<1>1. HopsInv => OrdersComplete
  <2> SUFFICES ASSUME HopsInv, Done
               PROVE  orders = [dst \in Nodes |-> [src \in Nodes |->
                        IF src \in visited /\ dst \in LiveLinks(src)
                        THEN distances[src] + 1 ELSE Unreached]]
    BY DEF OrdersComplete
  <2>1. TypeOK /\ CopiesOneFarther
    BY DEF HopsInv
  <2>2. ASSUME NEW dst \in Nodes, NEW src \in Nodes
        PROVE  orders[dst][src] = IF src \in visited /\ dst \in LiveLinks(src)
                                  THEN distances[src] + 1 ELSE Unreached
    <3>1. CASE src \in visited /\ dst \in LiveLinks(src)
      <4>1. ~Queued(src) /\ ~InLoop
        BY DEF Done, Queued
      <4>2. orders[dst][src] # Unreached
        BY <3>1, <4>1, ServedLinksFollowed
      <4>3. QED
        BY <2>1, <3>1, <4>2 DEF CopiesOneFarther
    <3>2. CASE ~(src \in visited /\ dst \in LiveLinks(src))
      BY <2>1, <3>2 DEF CopiesOneFarther
    <3>3. QED
      BY <3>1, <3>2
  <2>3. QED
    BY <2>1, <2>2 DEF TypeOK
<1>2. QED
  BY <1>1, HopsInvariance, PTL

\* mst is a tree of first copies at every moment (gossip.rs:573-596).
THEOREM SpanningTreeCorrect == Spec => []SpanningTree
<1>1. HopsInv => SpanningTree
  <2> SUFFICES ASSUME HopsInv PROVE SpanningTree
    OBVIOUS
  <2>1. TypeOK /\ TreeOfFirstCopies /\ CopiesOneFarther
    BY DEF HopsInv
  <2>2. UNION {mst[n] : n \in Nodes} = visited \ {Origin}
    BY <2>1 DEF TreeOfFirstCopies
  <2>3. ASSUME NEW n \in visited \ {Origin}
        PROVE  \E p \in visited :
                 /\ \A q \in Nodes : n \in mst[q] <=> q = p
                 /\ \A s \in Nodes : orders[n][s] # Unreached => orders[n][p] <= orders[n][s]
    <3>1. PICK p \in Nodes : n \in mst[p]
      BY <2>1 DEF TreeOfFirstCopies
    <3>2. /\ orders[n][p] # Unreached /\ distances[n] = distances[p] + 1
          /\ \A q \in Nodes : n \in mst[q] => q = p
      BY <2>1, <3>1 DEF TreeOfFirstCopies
    <3>3. n \in Nodes
      BY <2>1 DEF TypeOK
    <3>4. p \in visited /\ orders[n][p] = distances[n]
      BY <2>1, <3>2, <3>3 DEF CopiesOneFarther
    <3>5. \A s \in Nodes : orders[n][s] # Unreached => orders[n][p] <= orders[n][s]
      BY <2>1, <3>3, <3>4 DEF CopiesOneFarther
    <3>6. QED
      BY <3>1, <3>2, <3>4, <3>5
  <2>4. QED
    BY <2>2, <2>3 DEF SpanningTree
<1>2. QED
  BY <1>1, HopsInvariance, PTL

\* No step of the search revises a distance or a recorded copy
\* (gossip.rs:580-607): a shorter path is never found later.
THEOREM NeverRevised == Spec => NothingRevised
<1> DEFINE Kept ==
      /\ \A n \in Nodes : distances[n] # Unreached => distances'[n] = distances[n]
      /\ \A d, s \in Nodes : orders[d][s] # Unreached => orders'[d][s] = orders[d][s]
<1>1. HopsInv /\ [Next]_vars => [Kept]_vars
  <2> SUFFICES ASSUME HopsInv, [Next]_vars PROVE Kept \/ UNCHANGED vars
    OBVIOUS
  <2> USE GossipAssumption
  <2>1. TypeOK /\ VisitedHaveHops /\ CopiesOneFarther
    BY DEF HopsInv
  <2>2. CASE Dequeue \/ SkipFailed
    BY <2>2 DEF Dequeue, SkipFailed
  <2>3. CASE PushFirst
    <3>1. current \in Nodes /\ Neighbor \in Nodes /\ RecordPush(current, Neighbor)
      BY <2>1, <2>3, NeighborFacts DEF PushFirst, Enqueue
    <3>2. \A d, s \in Nodes : orders[d][s] # Unreached => orders'[d][s] = orders[d][s]
      BY <2>1, <3>1, RecordPushKeeps
    <3>3. Neighbor \notin visited
          /\ distances' = [distances EXCEPT ![Neighbor] = distances[current] + 1]
          /\ distances \in [Nodes -> Hops]
      BY <2>1, <2>3 DEF PushFirst, Enqueue, TypeOK
    <3>4. \A n \in Nodes : distances[n] # Unreached => distances'[n] = distances[n]
      BY <2>1, <3>3 DEF VisitedHaveHops
    <3>5. QED
      BY <3>2, <3>4
  <2>4. CASE PushDuplicate
    <3>1. current \in Nodes /\ Neighbor \in Nodes /\ RecordPush(current, Neighbor)
      BY <2>1, <2>4, NeighborFacts DEF PushDuplicate
    <3>2. \A d, s \in Nodes : orders[d][s] # Unreached => orders'[d][s] = orders[d][s]
      BY <2>1, <3>1, RecordPushKeeps
    <3>3. QED
      BY <2>4, <3>2 DEF PushDuplicate
  <2>5. CASE Returned \/ UNCHANGED vars
    BY <2>5 DEF Returned
  <2>6. QED
    BY <2>2, <2>3, <2>4, <2>5 DEF Next
<1>2. QED
  BY <1>1, HopsInvariance, PTL DEF Spec, NothingRevised

-----------------------------------------------------------------------------
(* The counts.                                                             *)

\* The sums at the start, and the counts they are compared with.
LEMMA InitCounts == Init => CountsInv
<1> SUFFICES ASSUME Init PROVE CountsInv
  OBVIOUS
<1> USE GossipAssumption
<1>1. queue = <<Origin>> /\ Len(queue) = 1 /\ queue[1] = Origin
  BY DEF Init
<1>2. QueuedOnce
  BY <1>1 DEF Init, QueuedOnce
<1>3. PushesServed
  BY DEF Init, PushesServed
<1>4. SumFunction(egress) = 0 /\ SumFunction(ingress) = 0
  <2>1. DOMAIN egress = Nodes /\ DOMAIN ingress = Nodes
        /\ \A n \in Nodes : egress[n] = 0 /\ ingress[n] = 0
    BY DEF Init
  <2>2. QED
    BY <2>1, SumZero DEF SumFunction
<1>5. Cardinality(visited) = 1 /\ \A n \in Nodes : egress[n] = Cardinality(pushes[n])
  BY FS_Singleton, FS_EmptySet DEF Init
<1>6. MessageConservation
  BY <1>4, <1>5 DEF Init, MessageConservation
<1>7. QED
  BY <1>2, <1>3, <1>6 DEF CountsInv

\* The node taken from the queue has not pushed yet, so the reset of its pushes
\* and its egress (gossip.rs:520-522) loses no count.
LEMMA DequeueCounts == HopsInv /\ CountsInv /\ Dequeue => CountsInv'
<1> SUFFICES ASSUME HopsInv, CountsInv, Dequeue PROVE CountsInv'
  OBVIOUS
<1> USE GossipAssumption
<1>1. TypeOK /\ QueuedOnce /\ PushesServed /\ MessageConservation /\ QueueVisited
  BY DEF HopsInv, CountsInv
<1>2. /\ queue \in Seq(Nodes) /\ queue # <<>>
      /\ current' = Head(queue) /\ queue' = Tail(queue) /\ fanout_count' = 0
      /\ pushes' = [pushes EXCEPT ![current'] = {}] /\ egress' = [egress EXCEPT ![current'] = 0]
      /\ UNCHANGED <<peers, visited, ingress, rmr>>
  BY <1>1 DEF TypeOK, Dequeue, inputs
<1>3. /\ Len(queue) \in Nat /\ 1 \in 1..Len(queue) /\ current' = queue[1] /\ current' \in Nodes
      /\ Len(queue') = Len(queue) - 1
      /\ \A i \in 1..Len(queue') : i + 1 \in 1..Len(queue) /\ queue'[i] = queue[i + 1]
  BY <1>2, HeadTailProperties
<1>4. pushes[current'] = {}
  BY <1>1, <1>3 DEF PushesServed, Queued
<1>5. egress[current'] = 0
  BY <1>1, <1>3, <1>4, FS_EmptySet DEF MessageConservation
<1>6. pushes' = pushes /\ egress' = egress
  BY <1>1, <1>2, <1>3, <1>4, <1>5 DEF TypeOK
<1>7. QueuedOnce'
  <2>1. ASSUME NEW i \in 1..Len(queue'), NEW j \in 1..Len(queue'), queue'[i] = queue'[j]
        PROVE  i = j
    <3>1. i + 1 \in 1..Len(queue) /\ j + 1 \in 1..Len(queue) /\ queue[i + 1] = queue[j + 1]
      BY <1>3, <2>1
    <3>2. i + 1 = j + 1
      BY <1>1, <3>1 DEF QueuedOnce
    <3>3. QED
      BY <1>3, <3>2
  <2>2. ASSUME NEW i \in 1..Len(queue'), queue'[i] = current' PROVE FALSE
    <3>1. i + 1 \in 1..Len(queue) /\ queue[i + 1] = queue[1] /\ i + 1 # 1
      BY <1>3, <2>2
    <3>2. QED
      BY <1>1, <1>3, <3>1 DEF QueuedOnce
  <2>3. QED
    BY <2>1, <2>2 DEF QueuedOnce, Queued
<1>8. PushesServed'
  <2>1. \A n \in Nodes : Queued(n)' => Queued(n)
    BY <1>3 DEF Queued
  <2>2. \A n \in Nodes : pushes'[n] # {} => n \in visited' /\ ~Queued(n)'
    BY <1>1, <1>2, <1>6, <2>1 DEF PushesServed
  <2>3. pushes'[current'] = {}
    BY <1>4, <1>6
  <2>4. QED
    BY <2>2, <2>3 DEF PushesServed
<1>9. MessageConservation'
  BY <1>1, <1>2, <1>6 DEF MessageConservation
<1>10. QED
  BY <1>7, <1>8, <1>9 DEF CountsInv

\* A push to a new peer of the current node adds one to each of the counts and
\* one node to its pushes (gossip.rs:549-571).
LEMMA PushCounts ==
  ASSUME HopsInv, CountsInv, InLoop, RecordPush(current, Neighbor)
  PROVE  /\ SumFunction(egress') = rmr.m + 1
         /\ SumFunction(ingress') = rmr.m + 1
         /\ \A n \in Nodes : egress'[n] = Cardinality(pushes'[n])
<1> USE GossipAssumption
<1>1. TypeOK /\ PushesServed /\ MessageConservation
  BY DEF HopsInv, CountsInv
<1>2. current \in Nodes /\ Neighbor \in Nodes /\ fanout_count + 1 \in 1..NumTargets(current)
  BY <1>1, NeighborFacts
<1>3. Neighbor \notin pushes[current]
  <2> SUFFICES ASSUME Neighbor \in pushes[current] PROVE FALSE
    OBVIOUS
  <2>1. PICK i \in 1..NumTargets(current) : i <= fanout_count /\ peers[current][i] = Neighbor
    BY <1>1, <1>2 DEF PushesServed
  <2>2. IsPeerSeq(current, peers[current]) /\ peers[current] \in Seq(Nodes)
    BY <1>1, <1>2 DEF TypeOK
  <2>3. /\ NumTargets(current) \in Nat /\ NumTargets(current) <= Len(peers[current])
        /\ Len(peers[current]) \in Nat
    BY <1>1, <1>2, <2>2, PeerFacts
  <2>4. i \in 1..Len(peers[current]) /\ fanout_count + 1 \in 1..Len(peers[current])
    BY <1>2, <2>1, <2>3
  <2>5. i = fanout_count + 1
    BY <2>1, <2>2, <2>4 DEF Neighbor, IsPeerSeq
  <2>6. QED
    BY <1>1, <2>1, <2>5 DEF TypeOK
<1>4. /\ egress \in [Nodes -> Nat] /\ egress' = [egress EXCEPT ![current] = @ + 1]
      /\ ingress \in [Nodes -> Nat] /\ ingress' = [ingress EXCEPT ![Neighbor] = @ + 1]
      /\ pushes \in [Nodes -> SUBSET Nodes] /\ pushes' = [pushes EXCEPT ![current] = @ \cup {Neighbor}]
  BY <1>1 DEF TypeOK, RecordPush
<1>5. SumFunctionOnSet(egress', Nodes) = SumFunctionOnSet(egress, Nodes) + 1
  <2>1. \A n \in Nodes : egress[n] \in Nat /\ egress'[n] = IF n = current THEN egress[n] + 1 ELSE egress[n]
    BY <1>2, <1>4
  <2>2. QED
    BY <1>2, <2>1, SumChange
<1>6. SumFunctionOnSet(ingress', Nodes) = SumFunctionOnSet(ingress, Nodes) + 1
  <2>1. \A n \in Nodes : ingress[n] \in Nat /\ ingress'[n] = IF n = Neighbor THEN ingress[n] + 1 ELSE ingress[n]
    BY <1>2, <1>4
  <2>2. QED
    BY <1>2, <2>1, SumChange
<1>7. SumFunction(egress') = rmr.m + 1 /\ SumFunction(ingress') = rmr.m + 1
  <2>1. DOMAIN egress = Nodes /\ DOMAIN egress' = Nodes /\ DOMAIN ingress = Nodes /\ DOMAIN ingress' = Nodes
    BY <1>4
  <2>2. QED
    BY <1>1, <1>5, <1>6, <2>1 DEF MessageConservation, SumFunction
<1>8. ASSUME NEW n \in Nodes PROVE egress'[n] = Cardinality(pushes'[n])
  <2>1. egress[n] = Cardinality(pushes[n]) /\ IsFiniteSet(pushes[n])
    BY <1>1, <1>4, FS_Subset DEF MessageConservation
  <2>2. CASE n = current
    <3>1. Cardinality(pushes[n] \cup {Neighbor}) = Cardinality(pushes[n]) + 1
      BY <1>3, <2>1, <2>2, FS_AddElement
    <3>2. QED
      BY <1>4, <2>1, <2>2, <3>1
  <2>3. CASE n # current
    BY <1>4, <2>1, <2>3
  <2>4. QED
    BY <2>2, <2>3
<1>9. QED
  BY <1>7, <1>8

\* After a push only the current node has one more push, to a peer it has come
\* past; the neighbor waits if it had no copy before.
LEMMA PushServed ==
  ASSUME HopsInv, CountsInv, InLoop, RecordPush(current, Neighbor),
         fanout_count' = fanout_count + 1, UNCHANGED <<peers, current>>,
         visited \subseteq visited',
         \A n \in Nodes : Queued(n)' <=> Queued(n) \/ (n = Neighbor /\ n \notin visited)
  PROVE  PushesServed'
<1> USE GossipAssumption
<1>1. TypeOK /\ PushesServed /\ QueuedOnce /\ QueueVisited
  BY DEF HopsInv, CountsInv
<1>2. /\ current \in Nodes /\ Neighbor \in Nodes /\ Neighbor # current
      /\ fanout_count + 1 \in 1..NumTargets(current) /\ fanout_count \in Nat /\ current # NoNode
  BY <1>1, NeighborFacts DEF TypeOK
<1>3. pushes \in [Nodes -> SUBSET Nodes] /\ pushes' = [pushes EXCEPT ![current] = @ \cup {Neighbor}]
  BY <1>1 DEF TypeOK, RecordPush
<1>4. ASSUME NEW n \in Nodes, pushes'[n] # {} PROVE n \in visited' /\ ~Queued(n)'
  <2>1. CASE n = current
    BY <1>1, <1>2, <2>1 DEF QueueVisited, QueuedOnce
  <2>2. CASE n # current
    <3>1. pushes[n] # {}
      BY <1>3, <1>4, <2>2
    <3>2. QED
      BY <1>1, <3>1 DEF PushesServed
  <2>3. QED
    BY <2>1, <2>2
<1>5. NumTargets(current)' = NumTargets(current)
  BY DEF NumTargets
<1>6. ASSUME NEW p \in pushes'[current]
      PROVE  \E i \in 1..NumTargets(current) : i <= fanout_count + 1 /\ peers[current][i] = p
  <2>1. CASE p = Neighbor
    BY <1>2, <2>1 DEF Neighbor
  <2>2. CASE p # Neighbor
    <3>1. p \in pushes[current]
      BY <1>2, <1>3, <2>2
    <3>2. PICK i \in 1..NumTargets(current) : i <= fanout_count /\ peers[current][i] = p
      BY <1>1, <1>2, <3>1 DEF PushesServed
    <3>3. QED
      BY <1>2, <3>2
  <2>3. QED
    BY <2>1, <2>2
<1>7. QED
  BY <1>4, <1>5, <1>6 DEF PushesServed

\* A first copy counts one message and one node (gossip.rs:549-594).
LEMMA PushFirstCounts == HopsInv /\ CountsInv /\ PushFirst => CountsInv'
<1> SUFFICES ASSUME HopsInv, CountsInv, PushFirst PROVE CountsInv'
  OBVIOUS
<1> USE GossipAssumption
<1>1. TypeOK /\ QueuedOnce /\ PushesServed /\ MessageConservation /\ QueueVisited
  BY DEF HopsInv, CountsInv
<1>2. /\ InLoop /\ RecordPush(current, Neighbor) /\ Neighbor \notin visited
      /\ visited' = visited \cup {Neighbor} /\ queue' = Append(queue, Neighbor)
      /\ rmr' = [m |-> rmr.m + 1, n |-> rmr.n + 1]
      /\ fanout_count' = fanout_count + 1 /\ UNCHANGED <<peers, current>>
  BY DEF PushFirst, Enqueue, inputs
<1>3. current \in Nodes /\ Neighbor \in Nodes \ {current} /\ queue \in Seq(Nodes) /\ visited \in SUBSET Nodes
  BY <1>1, <1>2, NeighborFacts DEF TypeOK
<1>4. /\ Len(queue) \in Nat /\ Len(queue') = Len(queue) + 1
      /\ \A i \in 1..Len(queue) : queue'[i] = queue[i] /\ queue[i] # Neighbor
      /\ queue'[Len(queue) + 1] = Neighbor
  BY <1>1, <1>2, <1>3, AppendProperties DEF QueueVisited
<1>5. \A n \in Nodes : Queued(n)' <=> Queued(n) \/ (n = Neighbor /\ n \notin visited)
  <2> TAKE n \in Nodes
  <2>1. Queued(n)' => Queued(n) \/ n = Neighbor
    BY <1>4 DEF Queued
  <2>2. Queued(n) => Queued(n)'
    BY <1>4 DEF Queued
  <2>3. n = Neighbor => Queued(n)'
    <3>1. Len(queue) + 1 \in 1..Len(queue')
      BY <1>4
    <3>2. QED
      BY <1>4, <3>1 DEF Queued
  <2>4. QED
    BY <1>2, <2>1, <2>2, <2>3
<1>6. QueuedOnce'
  <2>1. \A i, j \in 1..Len(queue') : queue'[i] = queue'[j] => i = j
    BY <1>1, <1>4 DEF QueuedOnce
  <2>2. current # NoNode /\ ~Queued(current) /\ current # Neighbor
    BY <1>1, <1>3 DEF QueuedOnce
  <2>3. QED
    BY <1>2, <1>3, <1>5, <2>1, <2>2 DEF QueuedOnce
<1>7. PushesServed'
  BY <1>2, <1>5, PushServed
<1>8. MessageConservation'
  <2>1. /\ SumFunction(egress') = rmr.m + 1 /\ SumFunction(ingress') = rmr.m + 1
        /\ \A n \in Nodes : egress'[n] = Cardinality(pushes'[n])
    BY <1>2, PushCounts
  <2>2. Cardinality(visited') = Cardinality(visited) + 1
    <3>1. IsFiniteSet(visited)
      BY <1>3, FS_Subset
    <3>2. QED
      BY <1>2, <3>1, FS_AddElement
  <2>3. rmr.m \in Nat /\ rmr.n \in Nat /\ rmr'.m = rmr.m + 1 /\ rmr'.n = rmr.n + 1
    BY <1>1, <1>2 DEF TypeOK
  <2>4. QED
    BY <1>1, <2>1, <2>2, <2>3 DEF MessageConservation
<1>9. QED
  BY <1>6, <1>7, <1>8 DEF CountsInv

\* A redundant copy counts one message (gossip.rs:549-571).
LEMMA DuplicateCounts == HopsInv /\ CountsInv /\ PushDuplicate => CountsInv'
<1> SUFFICES ASSUME HopsInv, CountsInv, PushDuplicate PROVE CountsInv'
  OBVIOUS
<1>1. TypeOK /\ QueuedOnce /\ PushesServed /\ MessageConservation
  BY DEF HopsInv, CountsInv
<1>2. /\ InLoop /\ RecordPush(current, Neighbor) /\ Neighbor \in visited
      /\ rmr' = [m |-> rmr.m + 1, n |-> rmr.n]
      /\ fanout_count' = fanout_count + 1 /\ UNCHANGED <<peers, current, queue, visited>>
  BY DEF PushDuplicate, inputs
<1>3. QueuedOnce'
  BY <1>1, <1>2 DEF QueuedOnce, Queued
<1>4. \A n \in Nodes : Queued(n)' <=> Queued(n) \/ (n = Neighbor /\ n \notin visited)
  BY <1>2 DEF Queued
<1>5. PushesServed'
  BY <1>2, <1>4, PushServed
<1>6. MessageConservation'
  <2>1. /\ SumFunction(egress') = rmr.m + 1 /\ SumFunction(ingress') = rmr.m + 1
        /\ \A n \in Nodes : egress'[n] = Cardinality(pushes'[n])
    BY <1>2, PushCounts
  <2>2. rmr.m \in Nat /\ rmr.n \in Nat /\ rmr'.m = rmr.m + 1 /\ rmr'.n = rmr.n
    BY <1>1, <1>2 DEF TypeOK
  <2>3. QED
    BY <1>1, <1>2, <2>1, <2>2 DEF MessageConservation
<1>7. QED
  BY <1>3, <1>5, <1>6 DEF CountsInv

\* A failed peer counts nothing (gossip.rs:538-541).
LEMMA SkipCounts == HopsInv /\ CountsInv /\ SkipFailed => CountsInv'
<1> SUFFICES ASSUME HopsInv, CountsInv, SkipFailed PROVE CountsInv'
  OBVIOUS
<1>1. fanout_count \in Nat
  BY DEF HopsInv, TypeOK
<1>2. QueuedOnce'
  BY DEF CountsInv, SkipFailed, QueuedOnce, Queued
<1>3. PushesServed'
  <2>1. NumTargets(current)' = NumTargets(current)
    BY DEF SkipFailed, NumTargets, inputs
  <2>2. PushesServed /\ UNCHANGED <<peers, pushes, visited, queue, current>> /\ fanout_count' = fanout_count + 1
    BY DEF CountsInv, SkipFailed, inputs
  <2>3. \A n \in Nodes : Queued(n)' <=> Queued(n)
    BY <2>2 DEF Queued
  <2>4. \A i \in 1..NumTargets(current) : i <= fanout_count => i <= fanout_count + 1
    BY <1>1
  <2>5. QED
    BY <2>1, <2>2, <2>3, <2>4 DEF PushesServed
<1>4. MessageConservation'
  BY DEF CountsInv, SkipFailed, MessageConservation
<1>5. QED
  BY <1>2, <1>3, <1>4 DEF CountsInv

\* Nor does a step that changes nothing.
LEMMA StutterCounts == CountsInv /\ UNCHANGED vars => CountsInv'
BY DEF CountsInv, QueuedOnce, PushesServed, MessageConservation, vars, Queued, NumTargets

\* Hops and counts together: the inductive invariant holds in every behaviour
\* of run_gossip.
THEOREM Invariance == Spec => []IInv
<1>1. Init => IInv
  BY InitHopsInv, InitCounts DEF IInv
<1>2. IInv /\ [Next]_vars => IInv'
  BY DequeueHopsInv, SkipHopsInv, PushFirstHopsInv, DuplicateHopsInv, StutterHopsInv,
     DequeueCounts, SkipCounts, PushFirstCounts, DuplicateCounts, StutterCounts
     DEF IInv, Next, Returned
<1>3. QED
  BY <1>1, <1>2, PTL DEF Spec

\* The message counts of a round agree at every moment: what the rmr, the
\* egress and the ingress counts and the pushes say (gossip.rs:549-571, 594).
THEOREM MessagesConserved == Spec => []MessageConservation
<1>1. IInv => MessageConservation
  BY DEF IInv, CountsInv
<1>2. QED
  BY <1>1, Invariance, PTL

-----------------------------------------------------------------------------
(* The distances are those in the graph.                                   *)

\* The live links of a node are nodes.
LEMMA LiveLinksType ==
  ASSUME TypeOK, NEW n \in Nodes
  PROVE  LiveLinks(n) \in SUBSET Nodes
<1>1. \A i \in 1..NumTargets(n) : peers[n][i] \in Nodes
  BY PeerFacts
<1>2. QED
  BY <1>1 DEF LiveLinks

\* "There is no chance we will find a shorter path" (gossip.rs:580): when
\* run_gossip returns, the distances are the true numbers of hops over live
\* links, by induction over the balls around the origin.
THEOREM ShortestPathsFound == Spec => []ShortestPaths
<1>1. HopsInv /\ CertifiedHops => ShortestPaths
  <2> SUFFICES ASSUME HopsInv, CertifiedHops, Done PROVE distances = TrueHops
    BY DEF ShortestPaths
  <2> USE GossipAssumption
  <2> DEFINE links == [n \in Nodes |-> LiveLinks(n)]
  <2>1. TypeOK /\ QueueVisited
    BY DEF HopsInv
  <2>2. links \in [Nodes -> SUBSET Nodes]
    BY <2>1, LiveLinksType
  <2>3. \A n \in Nodes : links[n] = LiveLinks(n)
    OBVIOUS
  <2>4. visited \in SUBSET Nodes /\ distances \in [Nodes -> Nat \cup {Unreached}]
    BY <2>1 DEF TypeOK, Hops
  <2>5. /\ \A n \in Nodes : n \in visited <=> distances[n] # Unreached
        /\ distances[Origin] = 0
        /\ \A n \in visited \ {Origin} : \E u \in visited : n \in LiveLinks(u) /\ distances[n] = distances[u] + 1
        /\ \A u \in visited : \A n \in LiveLinks(u) : n \in visited /\ distances[n] <= distances[u] + 1
    BY DEF CertifiedHops
  <2>6. Origin \in visited
    BY <2>5
  <2>7. TrueHops = HopsFrom(links, Origin, Nodes, Unreached)
    BY DEF TrueHops
  <2> HIDE DEF links
  <2>8. /\ \A n \in visited \ {Origin} : \E u \in visited : n \in links[u] /\ distances[n] = distances[u] + 1
        /\ \A u \in visited : \A n \in links[u] : n \in visited /\ distances[n] <= distances[u] + 1
    BY <2>3, <2>4, <2>5
  <2>9. Certify(Nodes, links, Origin, Unreached, visited, distances)
    BY <2>2, <2>4, <2>5, <2>6, <2>8 DEF Certify
  <2>10. QED
    BY <2>7, <2>9, CertifiedAreTrue
<1>2. QED
  BY <1>1, HopsInvariance, HopsCertified, PTL

-----------------------------------------------------------------------------
(* The search implements the synchronous flood.                            *)

\* initialize (gossip.rs:504-508) starts the flood.
LEMMA FloodStarts == Init => Flooding!FloodInit
<1> SUFFICES ASSUME Init PROVE Flooding!FloodInit
  OBVIOUS
<1>1. TypeOK
  BY InitHopsInv DEF HopsInv
<1>2. [n \in Nodes |-> LiveLinks(n)] \in [Nodes -> SUBSET Nodes]
  BY <1>1, LiveLinksType
<1>3. CompleteHops = [n \in Nodes |-> IF n = Origin THEN 0 ELSE Unreached]
  BY GossipAssumption DEF Init, CompleteHops, Layer
<1>4. QED
  BY <1>2, <1>3 DEF Flooding!FloodInit

\* A step that leaves the queue's service where it is, or serves another node
\* of the same layer, is invisible to the flood.
LEMMA SameLayerInvisible ==
  ASSUME Layer' = Layer, UNCHANGED <<peers, failed, visited, distances>>
  PROVE  UNCHANGED Flooding!floodVars
<1>1. CompleteHops' = CompleteHops
  BY DEF CompleteHops
<1>2. [n \in Nodes |-> LiveLinks(n)]' = [n \in Nodes |-> LiveLinks(n)]
  BY DEF LiveLinks, NumTargets
<1>3. QED
  BY <1>1, <1>2 DEF Flooding!floodVars

\* A first copy (gossip.rs:580-607) lands in the layer that is not complete
\* yet.
LEMMA PushFirstInvisible == HopsInv /\ PushFirst => UNCHANGED Flooding!floodVars
<1> SUFFICES ASSUME HopsInv, PushFirst PROVE UNCHANGED Flooding!floodVars
  OBVIOUS
<1> USE GossipAssumption
<1>1. TypeOK /\ VisitedHaveHops /\ InLoop
  BY DEF HopsInv, PushFirst, Enqueue
<1>2. /\ UNCHANGED <<peers, failed, current>>
      /\ Neighbor \notin visited /\ visited' = visited \cup {Neighbor}
      /\ distances' = [distances EXCEPT ![Neighbor] = distances[current] + 1]
      /\ distances \in [Nodes -> Hops]
  BY <1>1 DEF PushFirst, Enqueue, inputs, TypeOK
<1>3. /\ current \in visited /\ current \in Nodes /\ current # NoNode
      /\ distances[current] \in Nat /\ Neighbor \in Nodes /\ Neighbor # current
  BY <1>1, NeighborFacts, VisitedNat DEF HopsInv, QueueVisited, InLoop
<1>4. /\ distances'[Neighbor] = distances[current] + 1
      /\ \A n \in Nodes : n # Neighbor => distances'[n] = distances[n]
  BY <1>2, <1>3
<1>5. Layer = distances[current] /\ Layer' = distances[current]
  BY <1>2, <1>3, <1>4 DEF Layer
<1>6. CompleteHops' = CompleteHops
  <2> SUFFICES ASSUME NEW n \in Nodes
               PROVE  (IF n \in visited' /\ distances'[n] <= Layer' THEN distances'[n] ELSE Unreached)
                      = (IF n \in visited /\ distances[n] <= Layer THEN distances[n] ELSE Unreached)
    BY DEF CompleteHops
  <2>1. CASE n = Neighbor
    <3>1. ~(distances'[n] <= Layer')
      BY <1>3, <1>4, <1>5, <2>1
    <3>2. QED
      BY <1>2, <3>1, <2>1
  <2>2. CASE n # Neighbor
    BY <1>2, <1>4, <1>5, <2>2
  <2>3. QED
    BY <2>1, <2>2
<1>7. [n \in Nodes |-> LiveLinks(n)]' = [n \in Nodes |-> LiveLinks(n)]
  BY <1>2 DEF LiveLinks, NumTargets
<1>8. QED
  BY <1>6, <1>7 DEF Flooding!floodVars

\* Taking the first node of a layer from the queue (gossip.rs:511-522)
\* completes that layer: the flood has made its step.
LEMMA NextLayerFloods ==
  ASSUME HopsInv, Dequeue, current # NoNode, distances[Head(queue)] = distances[current] + 1
  PROVE  Flooding!Flood
<1> USE GossipAssumption
<1> DEFINE hop == distances[current]
<1>0. TypeOK /\ VisitedHaveHops
  BY DEF HopsInv
<1>1. /\ queue \in Seq(Nodes) /\ queue # <<>> /\ ~InLoop
      /\ current' = Head(queue)
      /\ UNCHANGED <<peers, failed, visited, distances>>
  BY DEF HopsInv, TypeOK, Dequeue, inputs
<1>2. Len(queue) \in Nat /\ 1 \in 1..Len(queue) /\ Head(queue) = queue[1]
  BY <1>1, HeadTailProperties
<1>3. /\ queue[1] \in visited /\ queue[1] # NoNode /\ distances[queue[1]] = hop + 1
      /\ current \in visited /\ hop \in Nat
  BY <1>0, <1>2, VisitedNat DEF HopsInv, QueueVisited
<1>4. Layer = hop /\ Layer' = hop + 1
  BY <1>1, <1>2, <1>3 DEF Layer
<1>5. \A n \in visited : n \in Nodes /\ distances[n] \in Nat /\ distances[n] <= hop + 1
  BY <1>0, VisitedNat DEF HopsInv, NobodyFarther
<1>6. \A i \in 1..Len(queue) : distances[queue[i]] >= hop + 1
  <2> SUFFICES ASSUME NEW i \in 1..Len(queue) PROVE distances[queue[i]] >= hop + 1
    OBVIOUS
  <2>1. CASE i = 1
    BY <1>3, <2>1
  <2>2. CASE i # 1
    <3>1. distances[queue[1]] <= distances[queue[i]]
      BY <1>2, <2>2 DEF HopsInv, BreadthFirst
    <3>2. distances[queue[i]] \in Nat
      BY <1>5 DEF HopsInv, QueueVisited
    <3>3. QED
      BY <1>3, <3>1, <3>2
  <2>3. QED
    BY <2>1, <2>2
<1>7. Flooding!Reached = {n \in visited : distances[n] <= hop}
  BY <1>4, <1>5 DEF Flooding!Reached, CompleteHops
<1>8. \A n \in Flooding!Reached : CompleteHops[n] = distances[n]
  BY <1>4, <1>5, <1>7 DEF CompleteHops
<1>9. Flooding!Frontier = {n \in visited : distances[n] = hop}
  <2>1. current \in Flooding!Reached /\ CompleteHops[current] = hop
    BY <1>3, <1>7, <1>8
  <2>2. ASSUME NEW n \in Flooding!Frontier PROVE n \in visited /\ distances[n] = hop
    <3>1. n \in Flooding!Reached /\ CompleteHops[current] <= CompleteHops[n]
      BY <2>1 DEF Flooding!Frontier
    <3>2. QED
      BY <3>1, <2>1, <1>3, <1>5, <1>7, <1>8
  <2>3. ASSUME NEW n \in visited, distances[n] = hop PROVE n \in Flooding!Frontier
    <3>1. n \in Flooding!Reached
      BY <1>3, <1>7, <2>3
    <3>2. \A r \in Flooding!Reached : CompleteHops[r] <= CompleteHops[n]
      BY <1>7, <1>8, <2>3, <3>1
    <3>3. QED
      BY <3>1, <3>2 DEF Flooding!Frontier
  <2>4. QED
    BY <2>2, <2>3
<1>10. Flooding!NextLayer = {n \in visited : distances[n] = hop + 1}
  <2>1. ASSUME NEW n \in Flooding!NextLayer PROVE n \in visited /\ distances[n] = hop + 1
    <3>1. /\ n \in Nodes \ Flooding!Reached
          /\ \E f \in Flooding!Frontier : n \in [m \in Nodes |-> LiveLinks(m)][f]
      BY DEF Flooding!NextLayer
    <3>2. PICK f \in visited : distances[f] = hop /\ n \in LiveLinks(f)
      BY <3>1, <1>5, <1>9
    <3>3. ~Queued(f)
      BY <1>3, <1>6, <3>2 DEF Queued
    <3>4. n \in visited /\ distances[n] <= hop + 1
      BY <1>1, <3>2, <3>3, ServedLinksFollowed
    <3>5. ~(distances[n] <= hop)
      BY <1>7, <3>1, <3>4
    <3>6. QED
      BY <1>3, <1>5, <3>4, <3>5
  <2>2. ASSUME NEW n \in visited, distances[n] = hop + 1 PROVE n \in Flooding!NextLayer
    <3>1. n # Origin
      BY <1>0, <1>3, <2>2 DEF VisitedHaveHops
    <3>2. PICK u \in visited : n \in LiveLinks(u) /\ distances[n] = distances[u] + 1
      BY <2>2, <3>1 DEF HopsInv, HasPredecessor
    <3>3. u \in Flooding!Frontier /\ u \in Nodes
      BY <1>3, <1>5, <1>9, <2>2, <3>2
    <3>4. n \in Nodes \ Flooding!Reached
      BY <1>3, <1>5, <1>7, <2>2
    <3>5. QED
      BY <3>2, <3>3, <3>4 DEF Flooding!NextLayer
  <2>3. QED
    BY <2>1, <2>2
<1>11. Flooding!NextLayer # {}
  BY <1>3, <1>10
<1>12. current \in Flooding!Frontier /\ CompleteHops[current] = hop
  BY <1>3, <1>7, <1>8, <1>9
<1>13. CompleteHops' = [n \in Nodes |-> IF n \in Flooding!NextLayer
                                        THEN CompleteHops[current] + 1 ELSE CompleteHops[n]]
  <2> SUFFICES ASSUME NEW n \in Nodes
               PROVE  (IF n \in visited /\ distances[n] <= hop + 1 THEN distances[n] ELSE Unreached)
                      = (IF n \in Flooding!NextLayer THEN hop + 1
                         ELSE IF n \in visited /\ distances[n] <= hop
                              THEN distances[n] ELSE Unreached)
    BY <1>1, <1>4, <1>12 DEF CompleteHops
  <2>1. CASE n \in Flooding!NextLayer
    BY <1>3, <1>10, <2>1
  <2>2. CASE n \notin Flooding!NextLayer /\ n \in visited
    BY <1>3, <1>5, <1>10, <2>2
  <2>3. CASE n \notin visited
    BY <1>10, <2>3
  <2>4. QED
    BY <2>1, <2>2, <2>3
<1>14. [n \in Nodes |-> LiveLinks(n)]' = [n \in Nodes |-> LiveLinks(n)]
  BY <1>1 DEF LiveLinks, NumTargets
<1>15. QED
  BY <1>11, <1>12, <1>13, <1>14 DEF Flooding!Flood

\* Any other dequeue stays in its layer.
LEMMA DequeueFloods == HopsInv /\ Dequeue => [Flooding!Flood]_(Flooding!floodVars)
<1> SUFFICES ASSUME HopsInv, Dequeue
             PROVE  Flooding!Flood \/ UNCHANGED Flooding!floodVars
  OBVIOUS
<1> USE GossipAssumption
<1>1. /\ queue \in Seq(Nodes) /\ queue # <<>> /\ current' = Head(queue)
      /\ UNCHANGED <<peers, failed, visited, distances>>
  BY DEF HopsInv, TypeOK, Dequeue, inputs
<1>2. Len(queue) \in Nat /\ 1 \in 1..Len(queue) /\ Head(queue) = queue[1]
  BY <1>1, HeadTailProperties
<1>3. queue[1] \in visited /\ queue[1] # NoNode
  BY <1>2 DEF HopsInv, QueueVisited, TypeOK
<1>4. CASE current = NoNode
  <2>1. queue[1] = Origin /\ distances[Origin] = 0
    BY <1>2, <1>4 DEF HopsInv, QueueVisited, VisitedHaveHops
  <2>2. Layer' = Layer
    BY <1>1, <1>2, <1>3, <1>4, <2>1 DEF Layer
  <2>3. QED
    BY <1>1, <2>2, SameLayerInvisible
<1>5. CASE current # NoNode
  <2>1. distances[queue[1]] \in {distances[current], distances[current] + 1}
    BY <1>2, <1>5 DEF HopsInv, BreadthFirst
  <2>2. CASE distances[queue[1]] = distances[current]
    <3>1. Layer' = Layer
      BY <1>1, <1>2, <1>3, <1>5, <2>2 DEF Layer
    <3>2. QED
      BY <1>1, <3>1, SameLayerInvisible
  <2>3. CASE distances[queue[1]] = distances[current] + 1
    BY <1>2, <1>5, <2>3, NextLayerFloods
  <2>4. QED
    BY <2>1, <2>2, <2>3
<1>6. QED
  BY <1>4, <1>5

\* run_gossip implements the synchronous flood, for every cluster, fanout and
\* set of failed nodes: each layer of the search is one step of the flood
\* (gossip.rs:581, "BFS searches at ever increasing distances").
THEOREM FloodRefined == Spec => FloodsInLayers
<1>1. HopsInv /\ [Next]_vars => [Flooding!Flood]_(Flooding!floodVars)
  <2> SUFFICES ASSUME HopsInv, [Next]_vars
               PROVE  [Flooding!Flood]_(Flooding!floodVars)
    OBVIOUS
  <2>1. CASE Dequeue
    BY <2>1, DequeueFloods
  <2>2. CASE PushFirst
    BY <2>2, PushFirstInvisible
  <2>3. CASE SkipFailed \/ PushDuplicate \/ Returned \/ UNCHANGED vars
    <3>1. UNCHANGED <<peers, failed, visited, distances, current>>
      BY <2>3 DEF SkipFailed, PushDuplicate, Returned, vars, inputs
    <3>2. Layer' = Layer
      BY <3>1 DEF Layer
    <3>3. QED
      BY <3>1, <3>2, SameLayerInvisible
  <2>4. QED
    BY <2>1, <2>2, <2>3 DEF Next
<1>2. QED
  BY <1>1, HopsInvariance, FloodStarts, PTL DEF Spec, FloodsInLayers, Flooding!FloodSpec
=============================================================================
