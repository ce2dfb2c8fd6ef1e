------------------------------- MODULE Accounts -------------------------------
(***************************************************************************)
(* Where the nodes of a simulation and their stakes come from (gossip.rs,  *)
(* write_accounts_main.rs), and which of the nodes is the origin           *)
(* (gossip_main.rs).  A vote account names a node and a stake; a node may  *)
(* have several.  Stakes are functions from nodes to numbers.  The maps of *)
(* the program are iterated over in no particular order.                   *)
(***************************************************************************)
EXTENDS Naturals, SequencesExt

\* Mutant: of a node's vote accounts the last one counts.
CreditedLast(stakes, vote) ==
  [n \in DOMAIN stakes \cup {vote.node} |-> IF n = vote.node THEN vote.stake ELSE stakes[n]]

\* The grouping's aggregate: a vote account adds to what its node has so far.
Credited(stakes, vote) ==
  [n \in DOMAIN stakes \cup {vote.node} |->
     (IF n \in DOMAIN stakes THEN stakes[n] ELSE 0) + (IF n = vote.node THEN vote.stake ELSE 0)]

\* The grouping of make_gossip_cluster_from_rpc, one vote account at a time.
Grouped(votes) ==
  LET after[i \in 0..Len(votes)] ==
        IF i = 0 THEN <<>>
        ELSE LET before == after[i - 1] IN Credited(before, votes[i])
  IN  after[Len(votes)]

\* make_gossip_cluster: all nodes, or those with a stake.
Cluster(accounts, filterZero) ==
  Restrict(accounts, {n \in DOMAIN accounts : filterZero => accounts[n] # 0})

ClusterFromRpc(votes, filterZero) == Cluster(Cluster(Grouped(votes), filterZero), filterZero)

\* The files write-accounts may leave for a cluster: the first `count` nodes,
\* or the first without stake.  The count is compared with after a node has
\* been written, as count - 1, which for 0 is the greatest number there is:
\* all are written.
Files(cluster, zeroStakes, count) ==
  LET eligible == {n \in DOMAIN cluster : zeroStakes => cluster[n] = 0}
      limit == IF count = 0 THEN Cardinality(eligible) ELSE Min({count, Cardinality(eligible)})
  IN  {Restrict(cluster, kept) : kept \in kSubset(limit, eligible)}

\* A build that checks arithmetic panics at 0 - 1, with a node to write.
WritePanics(cluster, zeroStakes, count) ==
  count = 0 /\ \E n \in DOMAIN cluster : zeroStakes => cluster[n] = 0

-----------------------------------------------------------------------------
(* find_nth_largest_node.  A heap is a sequence of numbers; of these it     *)
(* tells only where a least one is, which is the one it peeks at and pops.  *)

LeastAt(heap) == CHOOSE i \in DOMAIN heap : \A j \in DOMAIN heap : heap[i] <= heap[j]

\* Mutant: the heap grows to n + 1.
OfferPast(heap, n, stake) ==
  IF Len(heap) <= n THEN Append(heap, stake)
  ELSE IF stake >= heap[LeastAt(heap)] THEN [heap EXCEPT ![LeastAt(heap)] = stake] ELSE heap

\* A node's stake is pushed while there are fewer than n, and then in place of
\* the least.
Offer(heap, n, stake) ==
  IF Len(heap) < n THEN Append(heap, stake)
  ELSE IF stake >= heap[LeastAt(heap)] THEN [heap EXCEPT ![LeastAt(heap)] = stake] ELSE heap

\* The heap once all nodes, in the given order, have been offered.
HeapOf(n, nodes, stakes) ==
  LET after[i \in 0..Len(nodes)] ==
        IF i = 0 THEN <<>>
        ELSE LET before == after[i - 1] IN Offer(before, n, stakes[nodes[i]])
  IN  after[Len(nodes)]

\* The node it answers: the first one that has the stake on top of the heap.
NthLargestNode(n, nodes, stakes) ==
  LET heap == HeapOf(n, nodes, stakes)
      top == heap[LeastAt(heap)]
  IN  nodes[CHOOSE i \in DOMAIN nodes :
              /\ stakes[nodes[i]] = top
              /\ \A j \in 1..(i - 1) : stakes[nodes[j]] # top]
=============================================================================
