----------------------------- MODULE RunGossip -----------------------------
(***************************************************************************)
(* Cluster::run_gossip (gossip.rs): the breadth-first search that plays    *)
(* one round of push gossip for one origin.  A step is one dequeue of the  *)
(* outer loop or one iteration of the inner loop over the current node's   *)
(* peers.                                                                  *)
(*                                                                         *)
(* A HashMap of the Cluster struct is a total function here; a key the map *)
(* does not hold has the map's neutral value ({}, 0 or Unreached).         *)
(*                                                                         *)
(* Two parts of the loop are left out.  prune_exists (lines 563-568) never *)
(* finds anything, because initialize has just cleared the prunes map;     *)
(* GossipRounds states what that check was meant to say.  pase_counter     *)
(* only chooses whether a warning is logged.                               *)
(***************************************************************************)
EXTENDS Naturals, FiniteSets, Sequences, Functions, FiniteSetsExt, HopDistance

CONSTANTS
  Nodes,       \* the keys of node_map and of stakes
  Origin,      \* origin_pubkey
  NoNode,      \* current_node before the first dequeue
  Unreached,   \* u64::MAX, the distance of a node no message has reached
  Fanout,      \* gossip_push_fanout
  ActiveSets   \* what get_nodes can answer: functions from a node to a sequence

\* The answers of get_nodes hold no duplicates (an active set is an IndexMap),
\* never the node itself (rotate_active_set leaves it out) and never the origin
\* (an entry's filter holds the entry's own key).  PushActiveSet checks all
\* three of the code that answers.
IsPeerSeq(n, s) ==
  /\ s \in Seq(Nodes \ {n, Origin})
  /\ \A i, j \in DOMAIN s : s[i] = s[j] => i = j

ASSUME GossipAssumption ==
  /\ IsFiniteSet(Nodes)
  /\ Origin \in Nodes
  /\ NoNode \notin Nodes
  /\ Unreached \notin Nat
  /\ Fanout \in Nat
  /\ \A as \in ActiveSets : /\ as \in [Nodes -> Seq(Nodes)]
                            /\ \A n \in Nodes : IsPeerSeq(n, as[n])

VARIABLES
  peers,          \* input: peers[n] is what get_nodes answers for n and Origin
  failed,         \* input: failed_nodes, the nodes whose failed() is true
  queue,          \* visited nodes that still have to push
  visited,        \* nodes that have received the message
  distances,      \* hops from the origin
  orders,         \* orders[dst][src]: the hops of the copy src pushed to dst
  mst,            \* mst[src]: nodes that received their first copy from src
  pushes,         \* pushes[src]: nodes src has pushed to
  egress,         \* egress_message_count
  ingress,        \* ingress_message_count
  rmr,            \* m: messages sent, n: nodes that received one
  current,        \* current_node_pubkey
  fanout_count    \* iterations of the inner loop done for current

inputs == <<peers, failed>>
vars == <<peers, failed, queue, visited, distances, orders, mst, pushes,
          egress, ingress, rmr, current, fanout_count>>

Hops == Nat \cup {Unreached}

-----------------------------------------------------------------------------
\* How many peers the inner loop visits: take(gossip_push_fanout).
NumTargets(n) == IF Len(peers[n]) < Fanout THEN Len(peers[n]) ELSE Fanout

\* Mutant: the last peer is left out.
InLoopButLast == current # NoNode /\ fanout_count + 1 < NumTargets(current)

InLoop == current # NoNode /\ fanout_count < NumTargets(current)

\* The peer the next iteration of the inner loop looks at.
Neighbor == peers[current][fanout_count + 1]

\* `initialize` and lines 504-508: the origin is visited and queued.
Init ==
  /\ peers \in ActiveSets
  /\ failed \in SUBSET Nodes
  /\ queue = <<Origin>>
  /\ visited = {Origin}
  /\ distances = [n \in Nodes |-> IF n = Origin THEN 0 ELSE Unreached]
  /\ orders = [d \in Nodes |-> [s \in Nodes |-> Unreached]]
  /\ mst = [n \in Nodes |-> {}]
  /\ pushes = [n \in Nodes |-> {}]
  /\ egress = [n \in Nodes |-> 0]
  /\ ingress = [n \in Nodes |-> 0]
  /\ rmr = [m |-> 0, n |-> 1]
  /\ current = NoNode
  /\ fanout_count = 0

\* The head of the outer loop: pop_front, fresh pushes and egress entries.
Dequeue ==
  /\ ~InLoop
  /\ queue # <<>>
  /\ current' = Head(queue)
  /\ queue' = Tail(queue)
  /\ pushes' = [pushes EXCEPT ![current'] = {}]
  /\ egress' = [egress EXCEPT ![current'] = 0]
  /\ fanout_count' = 0
  /\ UNCHANGED <<inputs, visited, distances, orders, mst, ingress, rmr>>

\* Mutant: `continue` comes before the count.
SkipFailedUncounted ==
  /\ InLoop
  /\ Neighbor \in failed
  /\ UNCHANGED vars

\* A failed peer takes a place in the fanout and gets nothing.
SkipFailed ==
  /\ InLoop
  /\ Neighbor \in failed
  /\ fanout_count' = fanout_count + 1
  /\ UNCHANGED <<inputs, queue, visited, distances, orders, mst, pushes,
                 egress, ingress, rmr, current>>

\* Mutants of the bookkeeping: the copy is recorded at its sender's hops, the
\* sender's count is forgotten, the earlier copies to dst are overwritten.
RecordPushAtSenderHops(src, dst) ==
  /\ pushes' = [pushes EXCEPT ![src] = @ \cup {dst}]
  /\ egress' = [egress EXCEPT ![src] = @ + 1]
  /\ ingress' = [ingress EXCEPT ![dst] = @ + 1]
  /\ orders' = [orders EXCEPT ![dst][src] = distances[src]]

RecordPushNoEgress(src, dst) ==
  /\ pushes' = [pushes EXCEPT ![src] = @ \cup {dst}]
  /\ UNCHANGED egress
  /\ ingress' = [ingress EXCEPT ![dst] = @ + 1]
  /\ orders' = [orders EXCEPT ![dst][src] = distances[src] + 1]

RecordPushOverwriting(src, dst) ==
  /\ pushes' = [pushes EXCEPT ![src] = @ \cup {dst}]
  /\ egress' = [egress EXCEPT ![src] = @ + 1]
  /\ ingress' = [ingress EXCEPT ![dst] = @ + 1]
  /\ orders' = [orders EXCEPT ![dst] = [s \in Nodes |->
                   IF s = src THEN distances[src] + 1 ELSE Unreached]]

\* The bookkeeping of one message from src to dst, first copy or not.
RecordPush(src, dst) ==
  /\ pushes' = [pushes EXCEPT ![src] = @ \cup {dst}]
  /\ egress' = [egress EXCEPT ![src] = @ + 1]
  /\ ingress' = [ingress EXCEPT ![dst] = @ + 1]
  /\ orders' = [orders EXCEPT ![dst][src] = distances[src] + 1]

\* Mutant: push_front.
EnqueueFirst(n) == <<n>> \o queue

\* push_back.
Enqueue(n) == Append(queue, n)

\* The neighbor gets its first copy: it joins the tree and the queue.
PushFirst ==
  /\ InLoop
  /\ Neighbor \notin failed
  /\ Neighbor \notin visited
  /\ RecordPush(current, Neighbor)
  /\ visited' = visited \cup {Neighbor}
  /\ distances' = [distances EXCEPT ![Neighbor] = distances[current] + 1]
  /\ queue' = Enqueue(Neighbor)
  /\ mst' = [mst EXCEPT ![current] = @ \cup {Neighbor}]
  /\ rmr' = [m |-> rmr.m + 1, n |-> rmr.n + 1]
  /\ fanout_count' = fanout_count + 1
  /\ UNCHANGED <<inputs, current>>

\* The neighbor already has the message: a redundant copy.
PushDuplicate ==
  /\ InLoop
  /\ Neighbor \notin failed
  /\ Neighbor \in visited
  /\ RecordPush(current, Neighbor)
  /\ rmr' = [m |-> rmr.m + 1, n |-> rmr.n]
  /\ fanout_count' = fanout_count + 1
  /\ UNCHANGED <<inputs, queue, visited, distances, mst, current>>

Done == ~InLoop /\ queue = <<>>

\* run_gossip has returned.
Returned == Done /\ UNCHANGED vars

Next == Dequeue \/ SkipFailed \/ PushFirst \/ PushDuplicate \/ Returned

\* The loop runs on one thread and never waits, so it always goes on.
Spec == Init /\ [][Next]_vars /\ WF_vars(Next)

-----------------------------------------------------------------------------
(* The reference: distances in the graph of live links.                    *)

\* The nodes n pushes to: the live ones of its first Fanout peers.
LiveLinks(n) == {peers[n][i] : i \in 1..NumTargets(n)} \ failed

TrueHops == HopsFrom([n \in Nodes |-> LiveLinks(n)], Origin, Nodes, Unreached)

-----------------------------------------------------------------------------
(* Properties.                                                             *)

\* Every map keeps its type.
TypeOK ==
  /\ peers \in ActiveSets
  /\ failed \in SUBSET Nodes
  /\ queue \in Seq(Nodes)
  /\ visited \in SUBSET Nodes
  /\ distances \in [Nodes -> Hops]
  /\ orders \in [Nodes -> [Nodes -> Hops]]
  /\ mst \in [Nodes -> SUBSET Nodes]
  /\ pushes \in [Nodes -> SUBSET Nodes]
  /\ egress \in [Nodes -> Nat]
  /\ ingress \in [Nodes -> Nat]
  /\ rmr \in [m : Nat, n : Nat]
  /\ current \in Nodes \cup {NoNode}
  /\ fanout_count \in Nat

\* The comment at gossip.rs:581, "BFS searches at ever increasing distances":
\* the queue is sorted by distance and spans at most two layers, the one being
\* served and the next.
BreadthFirst ==
  /\ \A i, j \in 1..Len(queue) : i < j => distances[queue[i]] <= distances[queue[j]]
  /\ current # NoNode =>
       \A i \in 1..Len(queue) :
         distances[queue[i]] \in {distances[current], distances[current] + 1}

\* The same comment, "no chance we will find a shorter path": when run_gossip
\* returns, every distance is the true number of hops over live links, and a
\* node nobody live links to keeps u64::MAX.
ShortestPaths ==
  Done => distances = TrueHops

\* What consume_messages relies on: when run_gossip returns, orders holds
\* exactly the copies that were pushed, each with one hop more than its
\* sender.
OrdersComplete ==
  Done => orders = [dst \in Nodes |-> [src \in Nodes |->
                      IF src \in visited /\ dst \in LiveLinks(src)
                      THEN distances[src] + 1 ELSE Unreached]]

\* mst is a tree over the visited nodes at every moment: each visited node
\* but the origin has one parent, and no copy it gets arrives in fewer hops
\* than the parent's.
SpanningTree ==
  /\ UNION {mst[n] : n \in Nodes} = visited \ {Origin}
  /\ \A n \in visited \ {Origin} : \E p \in visited :
       /\ \A q \in Nodes : n \in mst[q] <=> q = p
       /\ \A s \in Nodes : orders[n][s] # Unreached => orders[n][p] <= orders[n][s]

\* The three message counts and the pushes map agree at every moment, and the
\* rmr node count is the number of visited nodes, so the redundancy
\* (m / (n - 1)) - 1 is never negative.
MessageConservation ==
  /\ rmr.m = SumFunction(egress)
  /\ rmr.m = SumFunction(ingress)
  /\ \A n \in Nodes : egress[n] = Cardinality(pushes[n])
  /\ rmr.n = Cardinality(visited)
  /\ rmr.m >= rmr.n - 1

\* The distances certify themselves: the origin's is 0, every other visited
\* node has a live link from a node one hop nearer, and when run_gossip
\* returns no live link leads to a node more than one hop farther.  No shorter
\* path can exist then, and a node without a distance has no path.
CertifiedHops ==
  /\ \A n \in Nodes : n \in visited <=> distances[n] # Unreached
  /\ distances[Origin] = 0
  /\ \A n \in visited \ {Origin} :
       \E u \in visited : n \in LiveLinks(u) /\ distances[n] = distances[u] + 1
  /\ Done => \A u \in visited : \A n \in LiveLinks(u) :
               n \in visited /\ distances[n] <= distances[u] + 1

\* A distance, once set, is never revised, and a copy once recorded is never
\* recorded again with other hops.
NothingRevised ==
  [][/\ \A n \in Nodes : distances[n] # Unreached => distances'[n] = distances[n]
     /\ \A d, s \in Nodes : orders[d][s] # Unreached => orders'[d][s] = orders[d][s]
    ]_vars

\* run_gossip returns.
Termination == <>[]Done

\* The hops of the layers that are complete: those up to the layer of the
\* node being served.
Layer == IF current = NoNode THEN 0 ELSE distances[current]
CompleteHops ==
  [n \in Nodes |-> IF n \in visited /\ distances[n] <= Layer
                   THEN distances[n] ELSE Unreached]

\* Seen through the complete layers, the search is the synchronous flood:
\* dequeuing the first node of a layer is the flood's step, and every other
\* step is invisible.
Flooding == INSTANCE SyncFlood
              WITH links <- [n \in Nodes |-> LiveLinks(n)], hops <- CompleteHops
FloodsInLayers == Flooding!FloodSpec

-----------------------------------------------------------------------------
(* The inductive invariant behind CertifiedHops, BreadthFirst,             *)
(* ShortestPaths, OrdersComplete, SpanningTree, MessageConservation,       *)
(* NothingRevised and FloodsInLayers.                                      *)

\* The link from u to v leads to a failed node, or has been followed: v has the
\* message and u's copy is recorded.
Followed(u, v) ==
  v \in failed \/ ( /\ v \in visited /\ distances[v] <= distances[u] + 1
                    /\ orders[v][u] # Unreached)

Queued(n) == \E i \in 1..Len(queue) : queue[i] = n

VisitedHaveHops ==
  /\ \A n \in Nodes : n \in visited <=> distances[n] # Unreached
  /\ distances[Origin] = 0

\* What waits or is served has been visited; before the first dequeue only the
\* origin has been.
QueueVisited ==
  /\ \A i \in 1..Len(queue) : queue[i] \in visited
  /\ current # NoNode => current \in visited
  /\ current = NoNode => queue = <<Origin>> /\ visited = {Origin}

\* Nobody is more than one hop beyond the node being served.
NobodyFarther ==
  current # NoNode => \A n \in visited : distances[n] <= distances[current] + 1

HasPredecessor ==
  \A n \in visited \ {Origin} :
    \E u \in visited : n \in LiveLinks(u) /\ distances[n] = distances[u] + 1

\* A visited node that neither waits nor is being served has followed all its
\* links, and the one being served has followed those it has come past.
LinksFollowed ==
  /\ \A u \in visited : ~Queued(u) /\ u # current =>
       \A i \in 1..NumTargets(u) : Followed(u, peers[u][i])
  /\ current # NoNode =>
       \A i \in 1..NumTargets(current) : i <= fanout_count => Followed(current, peers[current][i])

\* A recorded copy came over a live link, has one hop more than its sender, and
\* is no earlier than the first.
CopiesOneFarther ==
  \A d, n \in Nodes : orders[d][n] # Unreached =>
    /\ n \in visited /\ d \in LiveLinks(n) /\ orders[d][n] = distances[n] + 1
    /\ d \in visited /\ distances[d] <= orders[d][n]

\* mst holds the first copies: one for each visited node but the origin, from a
\* node one hop nearer, and recorded.
TreeOfFirstCopies ==
  /\ \A n \in visited \ {Origin} : \E p \in Nodes : n \in mst[p]
  /\ \A p \in Nodes : \A n \in mst[p] :
       /\ n \in visited \ {Origin} /\ orders[n][p] # Unreached
       /\ distances[n] = distances[p] + 1
       /\ \A q \in Nodes : n \in mst[q] => q = p

\* The parts about the hops and the copies.
HopsInv ==
  /\ TypeOK /\ VisitedHaveHops /\ QueueVisited /\ BreadthFirst
  /\ NobodyFarther /\ HasPredecessor /\ LinksFollowed /\ CopiesOneFarther
  /\ TreeOfFirstCopies

\* A node waits at most once, and not while it is served: its pushes and its
\* egress are reset once.
QueuedOnce ==
  /\ \A i, j \in 1..Len(queue) : queue[i] = queue[j] => i = j
  /\ current # NoNode => ~Queued(current)

\* Only a node that has been taken from the queue has pushed, and the one being
\* served only to peers it has come past: it pushes to nobody twice.
PushesServed ==
  /\ \A n \in Nodes : pushes[n] # {} => n \in visited /\ ~Queued(n)
  /\ current # NoNode =>
       \A p \in pushes[current] :
         \E i \in 1..NumTargets(current) : i <= fanout_count /\ peers[current][i] = p

\* The parts about the counts.
CountsInv == QueuedOnce /\ PushesServed /\ MessageConservation

\* All parts together are inductive.
IInv == HopsInv /\ CountsInv
=============================================================================
