--------------------------- MODULE ReceivedCache ----------------------------
(***************************************************************************)
(* ReceivedCache (received_cache.rs): for each origin, which peers have    *)
(* sent this node its messages, and how timely.  The cache is an LRU map   *)
(* from an origin to an entry, here a sequence, the most recently used     *)
(* origin first.                                                           *)
(*                                                                         *)
(* An action is one call of the simulation: all the records of one message *)
(* (consume_messages), or one prune (send_prunes).                         *)
(***************************************************************************)
EXTENDS CacheEntry

CONSTANTS
  Nodes,             \* keys of stakes
  Self,              \* the node the cache belongs to
  Origins,           \* owners of the messages
  Stakes,
  CacheCapacity,     \* capacity of the LRU map
  MinNumUpserts,     \* MIN_NUM_UPSERTS
  ThresholdPct,      \* prune_stake_threshold, in percent
  MinIngressNodes,   \* min_ingress_nodes
  MaxUpserts,        \* bound: messages of one origin between two prunes
  NoPrune            \* the history before the first prune

ASSUME ReceivedCacheAssumption ==
  /\ IsFiniteSet(Nodes)
  /\ Self \in Nodes
  /\ Origins \subseteq Nodes
  /\ Stakes \in [Nodes -> Nat]
  /\ {CacheCapacity, MinNumUpserts} \subseteq Nat \ {0}
  /\ ThresholdPct \in 0..100
  /\ MinIngressNodes \in Nat
  /\ MaxUpserts \in Nat

VARIABLES
  cache,        \* sequence of [origin, entry]
  lastPrune,    \* history: the latest prune that answered, and from what
  recency       \* history: the origins, in order of their latest message

vars == <<cache, lastPrune, recency>>

Entry(origin, entry) == [origin |-> origin, entry |-> entry]

\* peek: the entry of an origin, without touching the order.
Holds(origin) == \E i \in DOMAIN cache : cache[i].origin = origin
PositionOf(origin) == CHOOSE i \in DOMAIN cache : cache[i].origin = origin
EntryOf(origin) == IF Holds(origin) THEN cache[PositionOf(origin)].entry ELSE EmptyEntry

\* The messages one node can get of an origin: the order its peers' copies
\* arrive in, each peer at most once.
Arrivals == (UNION {SetToSeqs(S) : S \in SUBSET (Nodes \ {Self})}) \ {<<>>}

Init ==
  /\ cache = <<>>
  /\ lastPrune = NoPrune
  /\ recency = <<>>

\* Mutant: peek_mut in place of get_mut.
TouchInPlace(origin, entry) ==
  LET full == <<Entry(origin, entry)>> \o cache
  IN  IF Holds(origin) THEN [cache EXCEPT ![PositionOf(origin)] = Entry(origin, entry)]
      ELSE SubSeq(full, 1, IF Len(full) < CacheCapacity THEN Len(full) ELSE CacheCapacity)

\* LruCache::get_mut and put: the origin becomes the most recently used, and
\* a new one may push out the least recently used.
Touch(origin, entry) ==
  LET others == IF Holds(origin) THEN RemoveAt(cache, PositionOf(origin)) ELSE cache
      full == <<Entry(origin, entry)>> \o others
  IN  SubSeq(full, 1, IF Len(full) < CacheCapacity THEN Len(full) ELSE CacheCapacity)

\* The history with the origin as the latest one.
LatestFirst(origin) ==
  <<origin>> \o (IF origin \in ToSet(recency)
                 THEN RemoveAt(recency, CHOOSE i \in DOMAIN recency : recency[i] = origin)
                 ELSE recency)

\* ReceivedCache::record for every copy of one message.
Consume(origin, arrivals) ==
  /\ origin # Self
  /\ EntryOf(origin).upserts < MaxUpserts
  /\ cache' = Touch(origin, RecordAll(EntryOf(origin), arrivals))
  /\ recency' = LatestFirst(origin)
  /\ UNCHANGED lastPrune

\* ReceivedCache::prune before the entry has enough messages: no answer.
PruneTooEarly(origin) ==
  /\ ~Holds(origin) \/ EntryOf(origin).upserts < MinNumUpserts
  /\ UNCHANGED vars

\* ReceivedCache::prune: the entry is taken out of the map and a fresh one
\* left in its place.  peek_mut does not count as a use.
PruneEnough(origin) ==
  /\ Holds(origin)
  /\ EntryOf(origin).upserts >= MinNumUpserts
  /\ cache' = [cache EXCEPT ![PositionOf(origin)] = Entry(origin, EmptyEntry)]
  /\ \E cut \in PruneOutcomes(EntryOf(origin), Stakes, Self, origin, ThresholdPct, MinIngressNodes) :
       lastPrune' = [origin |-> origin, entry |-> EntryOf(origin), pruned |-> cut \ {origin}]
  /\ UNCHANGED recency

Next ==
  \/ \E origin \in Origins, arrivals \in Arrivals : Consume(origin, arrivals)
  \/ \E origin \in Origins : PruneTooEarly(origin) \/ PruneEnough(origin)

Spec == Init /\ [][Next]_vars

-----------------------------------------------------------------------------
(* What the latest prune left.                                             *)

Pruned == lastPrune # NoPrune
Senders == SendersOf(lastPrune.entry)
Kept == Senders \ lastPrune.pruned
StakeOf(S) == SumFunctionOnSet(Stakes, S)
MinStakeKept == MinIngressStake(Stakes, Self, lastPrune.origin, ThresholdPct)

\* Sender a is strictly better than sender b: more timely, or as timely and
\* with more stake.
Better(a, b) ==
  /\ Before(lastPrune.entry, Stakes, a, b)
  /\ ~Before(lastPrune.entry, Stakes, b, a)

-----------------------------------------------------------------------------
(* Properties.                                                             *)

\* The help text of --min-ingress-nodes, "Minimum number of incoming peers a
\* node must keep": a prune leaves that many of the peers heard from, or all
\* of them, and never cuts off the origin itself.  "Enforce a minimum aggregate
\* ingress stake" (received_cache.rs:110): when a prune cuts anyone off, the
\* peers left have at least the threshold's share of the smaller of the node's
\* and the origin's stake.
KeepsEnoughIngress ==
  Pruned =>
    /\ Cardinality(Kept) >= MinIngressNodes \/ Kept = Senders
    /\ lastPrune.origin \notin lastPrune.pruned
    /\ lastPrune.pruned # {} => StakeOf(Kept) >= MinStakeKept

\* A prune never prefers a peer to a better one: whoever is cut off is no
\* better than anyone left, the origin apart.
KeepsBestPeers ==
  Pruned => \A cut \in lastPrune.pruned, kept \in Kept \ {lastPrune.origin} : ~Better(cut, kept)

\* A prune cuts as deep as its two limits allow: when more than the minimum of
\* peers are left, and the origin is not the one left over, then without the
\* worst of them their stake would be too small.
CutsAllItMay ==
  Pruned /\ Cardinality(Kept) > MinIngressNodes /\ lastPrune.origin \notin Senders =>
    \E worst \in Kept : /\ \A n \in Kept : ~Better(worst, n)
                        /\ StakeOf(Kept \ {worst}) < MinStakeKept

\* Scores account for timely copies only: each message gives a point to its
\* first NumDupsThreshold senders, so no sender has more points than there
\* were messages, and those who were only ever late are let in while the entry
\* has room, besides whoever was first.
OnlyLate(e) == {n \in SendersOf(e) : e.scores[n] = 0}
ScoresAccount ==
  \A i \in DOMAIN cache :
    LET e == cache[i].entry
    IN  /\ \A n \in SendersOf(e) : e.scores[n] <= e.upserts
        /\ SumFunction(e.scores) <= NumDupsThreshold * e.upserts
        /\ SumFunction(e.scores) >= e.upserts
        /\ OnlyLate(e) # {} => Cardinality(OnlyLate(e)) < Capacity

\* The cache holds the origins whose messages came last, in that order: a
\* prune, which reads an entry at the end of every round, keeps nothing alive.
RecentOriginsHeld ==
  [i \in DOMAIN cache |-> cache[i].origin] =
    SubSeq(recency, 1, IF Len(recency) < CacheCapacity THEN Len(recency) ELSE CacheCapacity)

-----------------------------------------------------------------------------
(* The inductive invariant behind all of them.                             *)

\* An entry scores some of the nodes.
IsEntry(e) == IsCacheEntry(e, Nodes)

IsItem(item) ==
  /\ item = Entry(item.origin, item.entry)
  /\ item.origin \in Origins
  /\ IsEntry(item.entry)

TypeOK ==
  /\ cache \in Seq(ToSet(cache))
  /\ \A i \in DOMAIN cache : IsItem(cache[i])
  /\ recency \in Seq(Origins)

\* The LRU map holds an origin once, and so does the history.
OncePerOrigin ==
  /\ \A i, j \in DOMAIN cache : cache[i].origin = cache[j].origin => i = j
  /\ \A i, j \in DOMAIN recency : recency[i] = recency[j] => i = j

CacheInv == TypeOK /\ OncePerOrigin /\ ScoresAccount /\ RecentOriginsHeld
=============================================================================
