---------------------------- MODULE GossipRounds ----------------------------
(***************************************************************************)
(* The rounds of one simulation (run_simulation, gossip_main.rs): in every *)
(* round the origin's message spreads over the active sets (run_gossip),   *)
(* every node scores the peers its copies came from (consume_messages),    *)
(* prunes the worst of them once it has seen enough messages (send_prunes),*)
(* the pruned peers obey (prune_connections), and some nodes rotate their  *)
(* active sets (chance_to_rotate).  Nodes may fail once (fail_nodes).      *)
(*                                                                         *)
(* One action is one of these calls, for the whole cluster.  run_gossip is *)
(* a single step here: RunGossip models its loop, and shows that it ends   *)
(* with the distances and orders this step computes.                       *)
(*                                                                         *)
(* A simulation has one origin, so of a node's active set only the entry   *)
(* of the origin's bucket is kept, and of its received cache only the      *)
(* entry of the origin.  Nodes are numbered in the order of their pubkeys. *)
(***************************************************************************)
EXTENDS ActiveSetEntry, CacheEntry, HopDistance

CONSTANTS
  Nodes, Origin, Stakes,
  Unreached,          \* u64::MAX
  Fanout,             \* gossip_push_fanout
  Size,               \* gossip_active_set_size
  MinNumUpserts,      \* MIN_NUM_UPSERTS
  ThresholdPct,       \* prune_stake_threshold, in percent
  MinIngressNodes,    \* min_ingress_nodes
  NumToFail,          \* nodes fail_nodes fails; 0 when the test type is another
  MaxRotations        \* bound: rotations in a behaviour, over all nodes

ASSUME RoundsAssumption ==
  /\ Nodes \subseteq Nat /\ IsFiniteSet(Nodes)
  /\ Origin \in Nodes
  /\ Stakes \in [Nodes -> Nat]
  /\ Unreached \notin Nat
  /\ {Size, MinNumUpserts} \subseteq Nat \ {0}
  /\ {Fanout, MinIngressNodes, MaxRotations} \subseteq Nat
  /\ ThresholdPct \in 0..100
  /\ NumToFail \in 0..Cardinality(Nodes)

VARIABLES
  phase,        \* the call that comes next in the round
  entries,      \* entries[n]: n's active-set entry for the origin
  cache,        \* cache[n]: n's received-cache entry for the origin
  failed,       \* failed_nodes
  hasFailed,    \* fail_nodes has been called, or never will be
  distances,    \* of the round's run_gossip
  orders,       \* orders[dst][src], of the same
  prunes,       \* prunes[pruner]: the peers it prunes in this round
  messages,     \* rmr.m: pushes and prunes of the round
  pruneCounts,  \* prune_messages_sent
  rotations,    \* rotations so far
  silenced      \* history: silenced[prunee], the pruners it has obeyed and
                \* not forgotten by rotating them out

vars == <<phase, entries, cache, failed, hasFailed, distances, orders, prunes,
          messages, pruneCounts, rotations, silenced>>

Hops == Nat \cup {Unreached}
Candidates(n) == Nodes \ {n}
NoOrders == [d \in Nodes |-> [s \in Nodes |-> Unreached]]
NoPrunes == [n \in Nodes |-> {}]
NoCounts == [n \in Nodes |-> 0]

\* The functions that pick one element of each of a family of sets.
OneEach(choices) ==
  LET picks[some \in SUBSET DOMAIN choices] ==
        IF some = {} THEN {<<>>}
        ELSE LET n == CHOOSE n \in some : TRUE
             IN  {[m \in some |-> IF m = n THEN x ELSE f[m]] :
                    f \in picks[some \ {n}], x \in choices[n]}
  IN  picks[DOMAIN choices]

\* Node::rotate_active_set on an entry: the entries it can lead to.  All
\* weights are positive, so the shuffle can be any order of the candidates.
Rotations(n, entry) ==
  {RotateEntry(entry, shuffle, Size, {}) : shuffle \in SetToSeqs(Candidates(n))}

\* The start with one of the given entries for each node.
StartWith(choices) ==
  /\ phase = "run"
  /\ entries \in OneEach(choices)
  /\ cache = [n \in Nodes |-> EmptyEntry]
  /\ failed = {}
  /\ hasFailed = (NumToFail = 0)
  /\ distances = [n \in Nodes |-> Unreached]
  /\ orders = NoOrders
  /\ prunes = NoPrunes
  /\ messages = 0
  /\ pruneCounts = NoCounts
  /\ rotations = 0
  /\ silenced = [n \in Nodes |-> {}]

\* make_gossip_cluster and initialize_gossip: every node rotates its empty
\* active set once.
Init == StartWith([n \in Nodes |-> Rotations(n, <<>>)])

-----------------------------------------------------------------------------
(* The calls of a round.                                                   *)

\* Cluster::fail_nodes, before the round when_to_fail.
FailNodes ==
  /\ phase = "run"
  /\ ~hasFailed
  /\ failed' \in kSubset(NumToFail, Nodes)
  /\ hasFailed' = TRUE
  /\ UNCHANGED <<phase, entries, cache, distances, orders, prunes, messages,
                 pruneCounts, rotations, silenced>>

\* The live peers among the first Fanout that get_nodes answers.
PushTargets(n) ==
  LET answered == GetNodes(entries[n], Origin)
  IN  {answered[i] : i \in {i \in DOMAIN answered : i <= Fanout}} \ failed

\* Cluster::run_gossip, with the clearing of the last round's maps.
RunGossip ==
  /\ phase = "run"
  /\ \E links \in {[n \in Nodes |-> PushTargets(n)]} :
       /\ distances' = HopsFrom(links, Origin, Nodes, Unreached)
       /\ orders' = [d \in Nodes |-> [s \in Nodes |->
                       IF distances'[s] # Unreached /\ d \in links[s]
                       THEN distances'[s] + 1 ELSE Unreached]]
       /\ messages' = SumFunctionOnSet([n \in Nodes |-> Cardinality(links[n])],
                                       {n \in Nodes : distances'[n] # Unreached})
  /\ prunes' = NoPrunes
  /\ pruneCounts' = NoCounts
  /\ phase' = "consume"
  /\ UNCHANGED <<entries, cache, failed, hasFailed, rotations, silenced>>

SendersTo(n) == {s \in Nodes : orders[n][s] # Unreached}

\* The order consume_messages sorts a node's senders in: hops, then pubkey.
ArrivesBefore(n, a, b) ==
  \/ orders[n][a] < orders[n][b]
  \/ orders[n][a] = orders[n][b] /\ a < b

\* The order the copies of the round's message arrive in at n: one, as pubkeys
\* differ.
ArrivalOrders(n) ==
  {r \in SetToSeqs(SendersTo(n)) : \A i, j \in DOMAIN r : i < j => ArrivesBefore(n, r[i], r[j])}

\* Cluster::consume_messages; the origin records nothing.
ConsumeMessages ==
  /\ phase = "consume"
  /\ cache' \in OneEach([n \in Nodes |-> IF n = Origin THEN {cache[n]}
                                         ELSE {RecordAll(cache[n], r) : r \in ArrivalOrders(n)}])
  /\ phase' = "send"
  /\ UNCHANGED <<entries, failed, hasFailed, distances, orders, prunes,
                 messages, pruneCounts, rotations, silenced>>

\* Mutant: one message more is waited for.
ReadyLate(n) == cache[n].upserts > MinNumUpserts

\* ReceivedCache::prune answers only for an entry with enough messages.
Ready(n) == cache[n].upserts >= MinNumUpserts

\* What node n may prune in this round, the origin excepted.
PruneChoices(n) ==
  IF Ready(n)
  THEN {cut \ {Origin} :
          cut \in PruneOutcomes(cache[n], Stakes, n, Origin, ThresholdPct, MinIngressNodes)}
  ELSE {{}}

\* Mutant: one message for each node that prunes.
PruneMessagesByPruner(pruned) == Cardinality({n \in Nodes : pruned[n] # {}})

\* One message for each pruned peer.
PruneMessages(pruned) == SumFunctionOnSet([n \in Nodes |-> Cardinality(pruned[n])], Nodes)

\* Cluster::send_prunes: every node, failed ones too; an entry that answers is
\* replaced by a fresh one.  A prune counts as a message.
SendPrunes ==
  /\ phase = "send"
  /\ prunes' \in OneEach([n \in Nodes |-> PruneChoices(n)])
  /\ cache' = [n \in Nodes |-> IF Ready(n) THEN EmptyEntry ELSE cache[n]]
  /\ messages' = messages + PruneMessages(prunes')
  /\ phase' = "prune"
  /\ UNCHANGED <<entries, failed, hasFailed, distances, orders, pruneCounts,
                 rotations, silenced>>

\* Mutant: the check for the node's own messages is inverted.
ObeyIfOrigin(n, pruners) ==
  IF n # Origin THEN entries[n]
  ELSE PruneEntry(entries[n], pruners, {Origin}, {})

\* PushActiveSet::prune at one prunee, for all its pruners.  A node does not
\* heed a prune of its own messages.
Obey(n, pruners) ==
  IF n = Origin THEN entries[n]
  ELSE PruneEntry(entries[n], pruners, {Origin}, {})

\* Mutant: pruner and prunee are mixed up.
PrunedBy(n) == prunes[n]

\* The nodes whose prune messages n has to process.
PrunersOf(n) == {pruner \in Nodes : n \in prunes[pruner]}

\* Cluster::prune_connections: the prunees obey at once.
PruneConnections ==
  /\ phase = "prune"
  /\ entries' = [n \in Nodes |-> Obey(n, PrunersOf(n))]
  /\ pruneCounts' = [n \in Nodes |-> Cardinality(prunes[n])]
  /\ silenced' = [n \in Nodes |-> silenced[n] \cup (PrunersOf(n) \cap KeysOf(entries[n]))]
  /\ phase' = "rotate"
  /\ UNCHANGED <<cache, failed, hasFailed, distances, orders, prunes,
                 messages, rotations>>

\* Cluster::chance_to_rotate: any of the nodes, failed ones too, independently
\* and in parallel; none depends on another.
ChanceToRotate ==
  /\ phase = "rotate"
  /\ \E rotating \in SUBSET Nodes :
       /\ rotations + Cardinality(rotating) <= MaxRotations
       /\ rotations' = rotations + Cardinality(rotating)
       /\ entries' \in OneEach([n \in Nodes |-> IF n \in rotating THEN Rotations(n, entries[n])
                                                ELSE {entries[n]}])
  /\ silenced' = [n \in Nodes |-> silenced[n] \cap KeysOf(entries'[n])]
  /\ phase' = "run"
  /\ UNCHANGED <<cache, failed, hasFailed, distances, orders, prunes, messages, pruneCounts>>

Next ==
  \/ FailNodes \/ RunGossip \/ ConsumeMessages
  \/ SendPrunes \/ PruneConnections \/ ChanceToRotate

\* The rounds follow one another on one thread; nothing in a round waits.
Spec == Init /\ [][Next]_vars /\ WF_vars(Next)

-----------------------------------------------------------------------------
(* Properties.                                                             *)

Visited == {n \in Nodes : distances[n] # Unreached}
RanThisRound == phase \in {"consume", "send", "prune", "rotate"}

\* What the panic in run_gossip, "we are pushing to a node that should be
\* pruned!", is about: a peer that has obeyed a prune sends the pruner nothing
\* until it has rotated the pruner out of its active set.
PrunedLinksSilent ==
  phase \in {"consume", "send", "prune"} =>
    \A prunee \in Nodes : \A pruner \in silenced[prunee] : orders[pruner][prunee] = Unreached

\* A node prunes only in a round in which a copy of the message reached it, so
\* a failed node never prunes anyone, and never hears anything again; the
\* origin, to which nobody pushes, scores and prunes nobody ("the origin is NOT
\* in the orders map", test_mst).  And it prunes in the very round its window is
\* full: after that round nobody has MinNumUpserts messages on account, as
\* whoever had them has answered and started afresh.
PrunesWhenDue ==
  /\ RanThisRound => Visited \cap failed \subseteq {Origin}
  /\ RanThisRound => \A n \in Nodes : prunes[n] # {} => n \in Visited \ failed
  /\ SendersTo(Origin) = {} /\ cache[Origin] = EmptyEntry /\ prunes[Origin] = {}
  /\ \A n \in Nodes : /\ cache[n].upserts \in 0..MinNumUpserts
                      /\ cache[n].upserts = MinNumUpserts => phase = "send"

\* The round's counts agree: every message is a push somebody received or a
\* prune somebody counted as sent, as README.md:199 says of m.
MessageAccount ==
  phase = "rotate" =>
    messages = SumFunctionOnSet([n \in Nodes |-> Cardinality(SendersTo(n)) + pruneCounts[n]], Nodes)

\* The help text of --min-ingress-nodes, "Minimum number of incoming peers a
\* node must keep": of the peers that reached a node in this round, a prune
\* leaves it that many, or all of them.
IngressPeersKept ==
  phase = "prune" =>
    \A n \in Nodes :
      \/ prunes[n] \cap SendersTo(n) = {}
      \/ Cardinality(SendersTo(n) \ prunes[n]) >= MinIngressNodes

\* Where nothing rotates and nothing fails, pruning never costs coverage and
\* never makes a path longer, although every node prunes on its own.
PruningCostsNothing ==
  [][phase = "run" /\ phase' = "consume" =>
       \A n \in Visited : distances'[n] # Unreached /\ distances'[n] <= distances[n]
    ]_vars

\* Where nothing rotates and nothing fails, the cluster reaches the steady
\* state that total_prunes is counted to find (gossip.rs:178): in the end
\* nobody prunes any more.
PruningSettles == <>[](\A n \in Nodes : prunes[n] = {})

-----------------------------------------------------------------------------
(* The inductive invariant behind the first three.                         *)

TypeOK ==
  /\ phase \in {"run", "consume", "send", "prune", "rotate"}
  /\ DOMAIN entries = Nodes
  /\ \A n \in Nodes : entries[n] \in Seq([node : Candidates(n), filter : SUBSET Nodes])
  /\ DOMAIN cache = Nodes
  /\ \A n \in Nodes : IsCacheEntry(cache[n], Nodes)
  /\ failed \in SUBSET Nodes /\ hasFailed \in BOOLEAN
  /\ distances \in [Nodes -> Hops]
  /\ orders \in [Nodes -> [Nodes -> Hops]]
  /\ prunes \in [Nodes -> SUBSET Nodes]
  /\ pruneCounts \in [Nodes -> Nat]
  /\ messages \in Nat
  /\ rotations \in 0..MaxRotations
  /\ silenced \in [Nodes -> SUBSET Nodes]

\* No active set holds a peer twice, or more than Size peers.
PeersOnce ==
  \A n \in Nodes :
    /\ Len(entries[n]) <= Size
    /\ \A i, j \in DOMAIN entries[n] : entries[n][i].node = entries[n][j].node => i = j

\* The peers whose filter holds the origin: the origin itself, and those the
\* node has obeyed.
FiltersHold ==
  \A n \in Nodes :
    /\ silenced[n] \subseteq KeysOf(entries[n])
    /\ \A i \in DOMAIN entries[n] :
         entries[n][i].node \in silenced[n] \cup {Origin} => Origin \in entries[n][i].filter

\* Nobody prunes the origin, or a peer before it has heard of it in the round.
PrunesHeard ==
  \A n \in Nodes : /\ Origin \notin prunes[n]
                   /\ phase # "run" /\ prunes[n] # {} => SendersTo(n) # {}
                   /\ phase \in {"consume", "send"} => prunes[n] = {}

\* In a round a copy goes to a live node that is visited by it, and only the
\* origin is visited without one.
CopiesVisit ==
  RanThisRound =>
    /\ \A n \in Nodes : SendersTo(n) # {} => n \in Visited \ failed
    /\ Visited \cap failed \subseteq {Origin}

\* A window fills up in the round its node hears of.
WindowsFill ==
  /\ SendersTo(Origin) = {} /\ cache[Origin] = EmptyEntry /\ prunes[Origin] = {}
  /\ \A n \in Nodes : /\ cache[n].upserts \in 0..MinNumUpserts
                      /\ cache[n].upserts = MinNumUpserts => phase = "send" /\ SendersTo(n) # {}

\* The messages so far in a round: pushes, then prunes.
MessagesSoFar ==
  LET pushed == SumFunctionOnSet([n \in Nodes |-> Cardinality(SendersTo(n))], Nodes)
  IN  /\ phase \in {"consume", "send"} => messages = pushed
      /\ phase \in {"prune", "rotate"} => messages = pushed + PruneMessages(prunes)
      /\ phase = "rotate" => pruneCounts = [n \in Nodes |-> Cardinality(prunes[n])]

RoundsInv ==
  /\ TypeOK /\ PeersOnce /\ FiltersHold /\ PrunedLinksSilent /\ PrunesHeard
  /\ CopiesVisit /\ WindowsFill /\ MessagesSoFar

-----------------------------------------------------------------------------
(* The inductive invariant behind IngressPeersKept and PruningCostsNothing *)
(* in a cluster that only prunes change.                                   *)

\* Nothing rotates, nothing fails, a node pushes to its whole active set, and
\* the senders of timely copies are never too many to be kept.
StaticCluster ==
  /\ MaxRotations = 0 /\ NumToFail = 0
  /\ Fanout >= Size /\ MinIngressNodes >= NumDupsThreshold

\* The senders of a copy to n, were a round run now with the last distances, in
\* the order their copies arrive.
Pushers(n) == {s \in Visited : n \in PushTargets(s)}
Nearer(a, b) == distances[a] < distances[b] \/ (distances[a] = distances[b] /\ a < b)
FirstPusher(n, f) == f \in Pushers(n) /\ \A s \in Pushers(n) : s = f \/ Nearer(f, s)
TimelyPushers(n) ==
  {s \in Pushers(n) : Cardinality({t \in Pushers(n) : Nearer(t, s)}) < NumDupsThreshold}

\* A round run now would find the distances the last one found.
DistancesStand ==
  /\ failed = {} /\ hasFailed
  /\ Visited # {} =>
       distances = HopsFrom([n \in Nodes |-> PushTargets(n)], Origin, Nodes, Unreached)
  /\ phase \in {"consume", "send", "prune"} =>
       /\ Visited # {}
       /\ \A d, s \in Nodes :
            orders[d][s] = IF s \in Pushers(d) THEN distances[s] + 1 ELSE Unreached

\* A window holds nodes that still push, and scored only the timely ones; the
\* first of them it scored.
WindowsStand ==
  \A n \in Nodes :
    LET scored == {s \in SendersOf(cache[n]) : cache[n].scores[s] > 0}
    IN  /\ SendersOf(cache[n]) \subseteq Pushers(n)
        /\ scored \subseteq TimelyPushers(n)
        /\ cache[n].upserts > 0 => \E f \in scored : FirstPusher(n, f)

\* Whoever prunes starts a new window, and spares its first pusher and enough
\* others.
PrunesSpareFirst ==
  phase = "prune" =>
    \A n \in Nodes : prunes[n] # {} =>
      /\ cache[n] = EmptyEntry
      /\ Cardinality(Pushers(n) \ prunes[n]) >= MinIngressNodes
      /\ \E f \in Pushers(n) \ prunes[n] : FirstPusher(n, f)

StaticInv == DistancesStand /\ WindowsStand /\ PrunesSpareFirst
=============================================================================
