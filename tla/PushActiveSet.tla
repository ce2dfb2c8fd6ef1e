--------------------------- MODULE PushActiveSet ----------------------------
(***************************************************************************)
(* PushActiveSet (push_active_set.rs) as one Node uses it: an array of     *)
(* entries, one per stake bucket; all of them rotate together, and a prune *)
(* message for an origin goes to the entry of the bucket of                *)
(*     min stake of {this node, origin}.                                   *)
(*                                                                         *)
(* `silenced` is a history variable: the peers whose prune message for an  *)
(* origin the node has processed and has not forgotten since by rotating   *)
(* the peer out.                                                           *)
(***************************************************************************)
EXTENDS ActiveSetEntry

CONSTANTS
  Nodes,            \* keys of stakes
  Self,             \* the node the active set belongs to
  Stakes,           \* stakes, in SOL
  MaxBucket,        \* NUM_PUSH_ACTIVE_SET_ENTRIES - 1
  Size,             \* active_set_size
  FalsePositives    \* origins a filter may contain although nobody added them

ASSUME ActiveSetAssumption ==
  /\ IsFiniteSet(Nodes)
  /\ Self \in Nodes
  /\ Stakes \in [Nodes -> Nat]
  /\ MaxBucket \in Nat
  /\ Size \in Nat \ {0}
  /\ FalsePositives \subseteq Nodes

VARIABLES entries,    \* one entry per bucket
          silenced    \* history: silenced[origin], a set of peers

vars == <<entries, silenced>>

Buckets == 0..MaxBucket

\* rotate_active_set samples every staked node but this one.  (The other
\* source of nodes, a Node's crds table, is empty in the simulation.)
Candidates == Nodes \ {Self}

\* get_entry(min stake of {this node, origin}).
BucketOf(origin) == StakeBucket(MinStake(Stakes, Self, origin), MaxBucket)

\* PushActiveSet::get_nodes.
NodesFor(origin) == GetNodes(entries[BucketOf(origin)], origin)

Init ==
  /\ entries = [k \in Buckets |-> <<>>]
  /\ silenced = [o \in Nodes |-> {}]

\* Node::rotate_active_set: every bucket draws its own weighted shuffle.  All
\* weights are positive, so it can be any order of the candidates.
Rotate ==
  /\ \E falsely \in {{}, FalsePositives} :
       \E rotated \in {[k \in Buckets |-> {RotateEntry(entries[k], shuffle, Size, falsely) :
                                             shuffle \in SetToSeqs(Candidates)}]} :
         entries' \in {after \in [Buckets -> UNION {rotated[k] : k \in Buckets}] :
                         \A k \in Buckets : after[k] \in rotated[k]}
  /\ silenced' = [o \in Nodes |-> silenced[o] \cap KeysOf(entries'[BucketOf(o)])]

\* Mutant: the bucket of the node's own stake alone.
PruneBucketOfSelf(origin) == StakeBucket(Stakes[Self], MaxBucket)

\* The bucket a prune message for origin reaches.
PruneBucket(origin) == StakeBucket(MinStake(Stakes, Self, origin), MaxBucket)

\* PushActiveSet::prune on a message from node about some origins.  The node's
\* own messages are pushed whatever a peer says.
Prune(node, origins) ==
  LET heeded == origins \ {Self}
      hit(k) == {o \in heeded : PruneBucket(o) = k}
  IN  /\ \E falsely \in {{}, FalsePositives} :
           entries' = [k \in Buckets |-> PruneEntry(entries[k], {node}, hit(k), falsely)]
      /\ silenced' = [o \in Nodes |->
                        IF o \in heeded /\ node \in KeysOf(entries[BucketOf(o)])
                        THEN silenced[o] \cup {node} ELSE silenced[o]]

Next ==
  \/ Rotate
  \/ \E node \in Candidates, origins \in (SUBSET Nodes) \ {{}} : Prune(node, origins)

\* chance_to_rotate rotates a node's sets with a fixed probability after every
\* round; with a positive probability it does so again and again.
Spec == Init /\ [][Next]_vars /\ WF_vars(Rotate)

-----------------------------------------------------------------------------
(* Properties.                                                             *)

\* test_push_active_set asserts that one rotation leaves `size` peers in every
\* entry.  For every cluster and every number of rotations: once rotated, an
\* entry holds size different peers, or the whole cluster if that is less, and
\* never the node itself.
EntriesFilled ==
  \A k \in Buckets :
    /\ KeysOf(entries[k]) \subseteq Candidates
    /\ Cardinality(KeysOf(entries[k])) = Len(entries[k])
    /\ Len(entries[k]) \in {0, Size, Cardinality(Candidates)}
    /\ Len(entries[k]) <= Size
    /\ (\E j \in Buckets : entries[j] # <<>>) => (entries[k] # <<>> \/ Candidates = {})

\* A prune message is heeded and nothing else is: get_nodes for an origin
\* answers the peers of the entry that have not pruned that origin.  The origin
\* itself is never answered, as a peer's filter holds the peer's own key from
\* its insertion on.  Prune and get_nodes must agree on the bucket.  Where
\* filters answer falsely, a peer may be left out unpruned.
SilenceIsExact ==
  \A o \in Nodes :
    LET answered == ToSet(NodesFor(o))
    IN  /\ answered \cap (silenced[o] \cup {o}) = {}
        /\ o \notin FalsePositives =>
             answered = KeysOf(entries[BucketOf(o)]) \ (silenced[o] \cup {o})

\* A rotation of a full entry costs exactly its oldest peer, and the others
\* keep their order and their filters: what was pruned stays pruned until the
\* peer has been the oldest one.
OldestLeavesFirst ==
  [][\A k \in Buckets :
       KeysOf(entries[k]) # KeysOf(entries'[k]) /\ Len(entries[k]) = Size =>
         /\ Len(entries'[k]) = Size
         /\ \A i \in 1..(Size - 1) : entries'[k][i] = entries[k][i + 1]
         /\ entries'[k][Size].node \notin KeysOf(entries[k])
    ]_vars

\* Silence does not last: when the cluster has more candidates than an entry
\* holds, rotation in the end forgets every prune.  (Otherwise the peer stays
\* in the entry, and silent, for ever.)
SilenceEnds ==
  Cardinality(Candidates) > Size =>
    \A o \in Nodes, p \in Candidates : (p \in silenced[o]) ~> (p \notin silenced[o])

-----------------------------------------------------------------------------
(* The inductive invariant behind the first two and the action property.   *)

TypeOK ==
  /\ entries \in [Buckets -> Seq([node : Candidates, filter : SUBSET Nodes])]
  /\ silenced \in [Nodes -> SUBSET Candidates]

PeersOnce ==
  \A k \in Buckets : \A i, j \in DOMAIN entries[k] : entries[k][i].node = entries[k][j].node => i = j

\* All entries fill up in the first rotation, and none ever changes its length
\* again.
FilledTogether ==
  \/ \A k \in Buckets : entries[k] = <<>>
  \/ \A k \in Buckets :
       Len(entries[k]) = IF Cardinality(Candidates) <= Size THEN Cardinality(Candidates) ELSE Size

\* A filter holds an origin if its peer is the origin or has silenced it, and
\* otherwise only falsely.
FiltersExact ==
  \A o \in Nodes :
    LET entry == entries[BucketOf(o)]
    IN  /\ silenced[o] \subseteq KeysOf(entry)
        /\ \A i \in DOMAIN entry :
             /\ entry[i].node \in silenced[o] \cup {o} => o \in entry[i].filter
             /\ o \in entry[i].filter => entry[i].node \in silenced[o] \cup {o} \cup
                  (IF o \in FalsePositives THEN Nodes ELSE {})

ActiveSetInv == TypeOK /\ PeersOnce /\ FilledTogether /\ FiltersExact
=============================================================================
