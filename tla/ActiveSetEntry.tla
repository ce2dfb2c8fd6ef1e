--------------------------- MODULE ActiveSetEntry ---------------------------
(***************************************************************************)
(* PushActiveSetEntry (push_active_set.rs): the peers a node pushes to in  *)
(* one stake bucket, an IndexMap from a peer to the bloom filter of the    *)
(* origins that peer has pruned.  An entry is the sequence of the map's    *)
(* items in insertion order; a filter is the set of the keys it answers    *)
(* `contains` for.                                                         *)
(*                                                                         *)
(* A bloom filter may contain keys nobody added.  Such a false positive is *)
(* a member of `falsely`, a set a caller chooses when the filter changes.  *)
(***************************************************************************)
EXTENDS Naturals, Sequences, FiniteSets, Functions, SequencesExt

\* The items an entry is a sequence of.
PeerItem(node, filter) == [node |-> node, filter |-> filter]

KeysOf(entry) == {entry[i].node : i \in DOMAIN entry}

\* PushActiveSetEntry::get_nodes without forced pushes: the peers whose filter
\* lets the origin through, in the order of the map.
GetNodes(entry, origin) ==
  LET answered[i \in 0..Len(entry)] ==
        IF i = 0 THEN <<>>
        ELSE LET before == answered[i - 1]
             IN  IF origin \in entry[i].filter THEN before ELSE Append(before, entry[i].node)
  IN  answered[Len(entry)]

\* AtomicBloom::add, for each of some keys.
AddToFilter(filter, keys, falsely) == filter \cup keys \cup falsely

\* Mutant: the filter gets the pruner's key instead of the origin's.
PruneEntryByPruner(entry, pruners, origins, falsely) ==
  [i \in DOMAIN entry |->
     IF entry[i].node \in pruners /\ origins # {}
     THEN PeerItem(entry[i].node, AddToFilter(entry[i].filter, {entry[i].node}, falsely))
     ELSE entry[i]]

\* PushActiveSetEntry::prune for some origins that each of the pruners has
\* pruned: a pruner without an item has no effect.
PruneEntry(entry, pruners, origins, falsely) ==
  [i \in DOMAIN entry |->
     IF entry[i].node \in pruners /\ origins # {}
     THEN PeerItem(entry[i].node, AddToFilter(entry[i].filter, origins, falsely))
     ELSE entry[i]]

\* A new peer's filter holds its own key, so that nothing it originated is
\* pushed back to it.
NewItem(node, falsely) == PeerItem(node, AddToFilter({}, {node}, falsely))

\* Mutant: a full entry gets no new peer.
WithNodeIfRoom(entry, node, size, falsely) ==
  IF Len(entry) >= size \/ node \in KeysOf(entry) THEN entry
  ELSE Append(entry, NewItem(node, falsely))

\* One turn of the loop of `rotate`: an entry that holds one more than size
\* takes no more nodes, and none twice.
WithNode(entry, node, size, falsely) ==
  IF Len(entry) > size \/ node \in KeysOf(entry) THEN entry
  ELSE Append(entry, NewItem(node, falsely))

\* The loop over the nodes in shuffled order.
WithNodes(entry, shuffle, size, falsely) ==
  LET after[i \in 0..Len(shuffle)] ==
        IF i = 0 THEN entry
        ELSE LET before == after[i - 1] IN WithNode(before, shuffle[i], size, falsely)
  IN  after[Len(shuffle)]

\* Mutants: one item too many stays; swap_remove_index(0).
DropNone(entry, size) == entry

SwapOldest(entry, size) ==
  IF Len(entry) > size THEN <<Last(entry)>> \o SubSeq(entry, 2, size) ELSE entry

\* shift_remove_index(0) while there are more than size items.
DropOldest(entry, size) ==
  IF Len(entry) > size THEN SubSeq(entry, Len(entry) - size + 1, Len(entry)) ELSE entry

\* PushActiveSetEntry::rotate with the nodes in shuffled order.
RotateEntry(entry, shuffle, size, falsely) ==
  DropOldest(WithNodes(entry, shuffle, size, falsely), size)

-----------------------------------------------------------------------------
(* get_stake_bucket: the bit length of a stake in SOL, at most MaxBucket   *)
(* (NUM_PUSH_ACTIVE_SET_ENTRIES - 1).  Stakes are whole numbers of SOL.    *)

\* Whether a bucket's bound is above a stake; the highest bucket has no bound.
Fits(stake, bucket, maxBucket) == stake < 2^bucket \/ bucket = maxBucket

StakeBucket(stake, maxBucket) ==
  CHOOSE b \in 0..maxBucket :
    /\ Fits(stake, b, maxBucket)
    /\ \A lower \in 0..maxBucket : Fits(stake, lower, maxBucket) => b <= lower

\* stakes.get(pubkey).min(stakes.get(origin))
MinStake(stakes, node, origin) ==
  IF stakes[node] < stakes[origin] THEN stakes[node] ELSE stakes[origin]
=============================================================================
