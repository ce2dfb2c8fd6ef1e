# Specifications of gossip-sim

gossip-sim simulates the push gossip of a Solana cluster: one node, the
*origin*, owns a message, and round after round the message spreads over the
nodes' *active sets*, the nodes prune peers that deliver late, the pruned peers
stop pushing, and active sets rotate. The program measures coverage, hops,
redundancy, stranded nodes and message counts, and reports them to InfluxDB.

This directory holds TLA+ modules of the simulator's logic, configurations that
model-check them with TLC, and proofs that TLAPS checks. Paths such as
`gossip.rs` are files of the crate's `src/`.

## 1. The system

### Components, their state, their operations

| Component | State | Operations | What makes it correct |
|---|---|---|---|
| Breadth-first search of a round (`Cluster::run_gossip`, gossip.rs) | `queue`, `visited`, `distances`, `orders`, `mst`, `pushes`, `egress`/`ingress_message_count`, `rmr` | `initialize`, then two nested loops | the distances are the shortest ones over live links; `orders` holds every copy that was pushed; the counts agree |
| Push active set (`PushActiveSet`, push_active_set.rs; `Node::rotate_active_set`, gossip.rs) | 25 entries, one per stake bucket, each an insertion-ordered map from a peer to a bloom filter of pruned origins | `get_nodes`, `prune`, `rotate` | a prune silences the pruner for that origin, nothing else, until rotation forgets it; the origin is never answered; entries keep their size |
| Received cache (`ReceivedCache`, received_cache.rs) | LRU map from an origin to scores of its senders and `num_upserts` | `record`, `prune` | a prune leaves enough peers and enough stake, and cuts the worst; scores stand for timely copies |
| Rounds of a simulation (`run_simulation`, gossip_main.rs; `Cluster`) | all nodes' active sets and caches, `prunes`, `failed_nodes`, counts | `fail_nodes`, `run_gossip`, `consume_messages`, `send_prunes`, `prune_connections`, `chance_to_rotate` | pruned links stay silent; pruning costs no coverage and ends; failed nodes take no part |
| Statistics (`GossipStats` and its parts, gossip_stats.rs; `run_simulation`) | one series per measure, histograms, trackers of messages | insertion per round, histograms and calculations at the end | the series have one entry per measured round and account for the same nodes and messages; nothing falls out of a histogram |
| Test types (`main`, `parse_matches`, gossip_main.rs) | the configuration of each simulation | refuse arguments, run `num_simulations` simulations | from one simulation to the next only the field under test moves, and the origin has the rank asked for |
| Loading of accounts (`make_gossip_cluster*`, gossip.rs; write_accounts_main.rs) | the account file | group vote accounts, filter, write, read | a node has the stake of all its vote accounts; a sweep from a file simulates one cluster |
| Influx reporting (influx_db.rs; `main`) | `datapoint_queue`, `Tracker`, open requests | push, pop, spawn, post, count, join | the program ends, and only when every point has been answered; one silent request does not hold up the others |
| Text of data points (influx_db.rs) | the lines of a point, each with its time | create, stamp, append | no line replaces another in the database; the labels of a histogram tell its values |
| Printing, getters (gossip_stats.rs) | none | logging | not modelled |

### How they interact

`main` builds a configuration per simulation and calls `run_simulation`. That
loads a cluster, rotates every active set once, and in each round makes six
calls on one thread, in this order: `fail_nodes` (in one round only),
`run_gossip` (asks active sets and `failed`; writes `orders`),
`consume_messages` (reads `orders`, writes received caches), `send_prunes`
(reads and empties caches, writes `prunes`), `prune_connections` (reads
`prunes`, writes active sets), `chance_to_rotate`. After the warm-up, the
round's results go into the statistics and, as a data point, into a locked
queue that a second thread empties. That thread spawns a task for each point;
the tasks and the thread share a locked tracker.

### What is hard

* **Many rounds.** What a node prunes depends on a window of 20 messages and on
  what all other nodes pruned and rotated meanwhile. The scores a prune goes by
  may be those of peers that no longer push.
* **Independent decisions.** All nodes prune in the same round without knowing
  of each other.
* **The same fact kept twice.** Five counts of messages; stranded nodes by round
  and by node; raw hops and hops by round; a series index computed from the
  round number.
* **Boundaries.** Skips that are off by one, bucket ranges rounded down to 0,
  a redundancy that is undefined for one node.
* **Threads.** A task may count its answer before the thread counts the task.
* **Failure.** A failed peer in the middle of a fanout; a request that fails or
  is never answered and blocks its thread; a panic that ends `main` before the
  queue is empty; a credential that is not set.
* **Time.** The lines of a histogram differ in nothing but their time, which is
  read from a clock that may not have moved.
* **The outside.** An RPC server that answers each simulation differently.

`PROJECT.json` lists each hazard at its line, with the properties that cover it.

## 2. The modules

```
HopDistance     SyncFlood                ActiveSetEntry    CacheEntry
     \              |  refined by          /       \        /      \
      \             |                 PushActiveSet \      /   ReceivedCache
       +-------- RunGossip                           \    /
       |                                              \  /
       |                                               \/
       +------------------------------------------ GossipRounds
       |
       +--- GossipStatistics --- StatHistogram -----------+
                   |                                       |
               DataPoints                                  |   Accounts
                   |                                       |      |
             InfluxReport --- refines --- Delivery       SimulationSweep
```

The proofs about a module are in a module of their own that extends it:

```
DataProofs                   sums, sequences, folds, balls, entries: by induction
     |
     +--- RunGossipProofs           (RunGossip)
     +--- PushActiveSetProofs       (PushActiveSet)
     +--- ReceivedCacheProofs       (ReceivedCache)
     +--- GossipRoundsProofs        (GossipRounds)
     +--- GossipStatisticsProofs    (GossipStatistics)
     +--- InfluxReportProofs        (InfluxReport)
     +--- SimulationSweepProofs     (SimulationSweep, Accounts)
```

* **RunGossip** is `Cluster::run_gossip`, one step per dequeue and per iteration
  of the inner loop (`Dequeue`, `SkipFailed`, `PushFirst`, `PushDuplicate`,
  `Returned`). The active sets' answers and the failed nodes are inputs. A
  `HashMap` is a total function whose missing keys have a neutral value.
  `prune_exists` is left out: `initialize` has just cleared the map it looks
  into, so it always answers an error and its panic is unreachable.
  `pase_counter` only decides on a log line.
* **SyncFlood** is the promise: the message floods the graph of live links layer
  by layer. RunGossip implements it (`FloodsInLayers`) under the mapping that
  shows a layer once its first node is dequeued. **HopDistance** defines hop
  distances in a graph, the reference for both.
* **ActiveSetEntry** has the operators of an active-set entry, **PushActiveSet**
  the array of entries as one node uses it: `Rotate` with every bucket's own
  shuffle, `Prune` for a message from a peer about several origins. A bloom
  filter is the set of keys it answers for; false positives are a choice of a
  constant set whenever a filter changes. `silenced` is a history variable.
* **CacheEntry** has the operators of a received-cache entry, **ReceivedCache**
  the LRU map of one node: `Consume` is all records of one message in their
  order of arrival, `PruneTooEarly` and `PruneEnough` the two outcomes of
  `prune`. `sorted_unstable_by_key` may leave equal peers in any order, so that a
  prune has several outcomes. `lastPrune` and `recency` are history variables.
* **GossipRounds** puts entries and caches of all nodes together, one action per
  call of a round. `RunGossip` is one step there: the module RunGossip shows that
  the loop ends with these distances and orders. A simulation has one origin, so
  that each node has one active-set entry and one cache entry that matter.
* **StatHistogram** has the arithmetic of the statistics, with medians doubled
  and means kept as sum and count. **GossipStatistics** is the loop of
  `run_simulation` seen from the statistics: an arbitrary round is played, and
  recorded unless it is warm-up; then histograms and calculations, each of which
  may panic. Left out: means and medians of the series of fractions, and
  `clear_message_counts`, whose maps the next `run_gossip` clears anyway.
  The numbers of buckets are the user's, 0 among them, since no validator looks at
  them (gossip_main.rs:671-673); they are picked when the histograms are built,
  before which nothing reads them. What `Histogram::build` and `build_from_map` do
  with too many buckets or none is `BuildPanics` and `MapPanics`. With no buckets
  they divide by 0, or, where the range is 1, take 1 from bucket 0; a build that
  does not check arithmetic would get past the latter, which is not modelled. `Publish` labels the lines of two
  histograms, in a build with or without checked arithmetic.
* **DataPoints** is InfluxDataPoint: the lines of each kind of point, the time
  each line bears, what the database keeps of lines with the same measurement,
  tags and time, and the labels of a histogram's lines.
* **Accounts** is where nodes, stakes and the origin come from: the grouping of
  vote accounts, one `Credited` after the other, the filters, the file
  write-accounts leaves, and `find_nth_largest_node` with its heap, of which only
  where a least entry is matters: that one it peeks at, pops and replaces.
  **SimulationSweep** is `main` of both programs: write-accounts if there is to be
  a file, then validators, the check of the origin ranks, and for each simulation
  of the eight test types its configuration, the cluster it finds, its origin and
  whether it ends in a panic, which ends the sweep. Some panics follow from the
  arguments and the cluster: a rank nobody has, more nodes to fail than there are,
  and histograms that have too many buckets, or none, for values that they are
  sure to have (`HistogramsPanic`: the stakes, the origin's 0 hops). Others may
  come or not: a threshold past 1, in a build with assertions; too many buckets for
  stranded nodes, if there are any or a label is computed (`StrandedTooNarrow`, in
  `print_all` too); and a message that stays with the origin in one of several
  measured rounds, after which the redundancies cannot be sorted (`Alone`), which
  a run records for the property to excuse. What the rounds are like beyond that
  is left to the modules above. Fractions are in hundredths and not negative.
* **InfluxReport** is the queue, the influx thread, the tracker and the tasks,
  one step between any two points where another thread can interfere. The
  executor has a fixed number of threads, and a task keeps its thread until the
  server answers, since `send` is a blocking function (`#[tokio::main]`). A panic
  of `run_simulation`, possible before its nodes are there, before a round's
  point and before the final one, or a missing credential ends the process.
  **Delivery** is its promise: every point ends stored or lost, and the report
  closes only then.

* **DataProofs** has the facts about data that the proofs share: sums over
  finite sets, sequences, the listings of a set, the balls of HopDistance, and
  those about an entry of either map of a node, which one node's proofs and the
  proofs about the rounds both rest on. Its last section says when histograms can
  be built, for the proofs about the statistics and about the sweep.

Modules named `MC...` give constants their values for TLC. An operator that a
comment calls a mutant is a definition with a plausible bug, kept beside the
right one; `PROJECT.json` says which property it must break.

The code's constants are parameters: the window of 20 messages
(`MIN_NUM_UPSERTS`), 25 stake buckets, a capacity of 50 senders and 2 timely
copies are small in the instances.

## 3. The runs

| Run | Instance | What it shows |
|---|---|---|
| `run_gossip` | 5 nodes, fanout 2, the origin with 3 peers, every choice of up to 2, 2, 1 and 0 peers of the others and of failed nodes; 91 062 states | the distances are the true ones, `orders` is complete, `mst` is a tree of first copies, the counts agree, nothing is revised, the search ends, it implements SyncFlood, and `IInv` is an invariant |
| `active_set` | a node of 9 SOL and peers of 0, 1, 8 SOL; two buckets; size 2; one origin may be a false positive | `get_nodes` answers exactly the unpruned peers of the entry; a rotation drops the oldest peer and keeps the other filters; entries fill up together and have no peer twice (`ActiveSetInv`) |
| `active_set_live` | one bucket, 3 candidates, size 2 | a silenced peer is in the end forgotten |
| `received_cache` | 3 origins, 3 senders, LRU capacity 2, window of 2 messages, 75 %; the two peers with equal stakes are symmetric; 153 663 states | what a prune keeps and cuts; scores and capacity; the most recent origins are held |
| `gossip_static` | 5 nodes, fanout 2, every initial active set of 2; no rotation, no failure; 158 856 states | pruning leaves two senders, costs no coverage or hop, and settles |
| `gossip_dynamic` | 4 nodes, active sets of 2, two rotations, one failure in any round; 711 926 states | pruned links stay silent, a node prunes when its window closes, and in a round in which it has heard the message, pushes and prunes are counted once; the invariant of the proofs, `RoundsInv` |
| `influx_report` | six settings: up to nine points of two simulations; errors, silent requests, a clock that stands still; 2 executor threads, 2 buckets; 37 004 states | the account of the tracker and the order of the queue under all interleavings; every stored line is kept; it ends if every request is answered; every point is posted while fewer requests are silent than there are threads; it implements Delivery |
| `statistics` | 3 nodes, 4 rounds, 1 of warm-up, 1 failure; stakes 6, 3, 1; few, too many and no buckets; 1 164 252 states | series, accounts of nodes and messages, histograms and their labels, report; a panic only after a round in which the origin was alone, or with more buckets than values, or with none |
| `sweep` | all test types, 1 to 3 ranks, 0 to 3 simulations, steps 0.5 and 1, fractions 0, 0.6, 1.2; files, RPC, filters, counts 0 to 4, four answers of the RPC server for 3 nodes; 3 stake buckets; 0, 1 and 3 measured rounds with few, too many and no buckets; 67 532 states | only the field under test moves; what is accepted panics only for its own configuration and cluster or for a message that stayed with the origin; the origin has its rank, also among equal stakes; a sweep from a file keeps one cluster with the summed stakes |

Three runs check a sentence of the repository that the code does not keep:

* `sweep_refused`: README.md:128 says a sweep runs `num-simulations` simulations.
  `main` refuses more simulations than origin ranks whatever the test type
  (gossip_main.rs:706), and as many ranks as simulations unless the test type is
  `OriginRank`. A sweep of other fields runs only with more ranks than
  simulations.
* `rmr_undefined`: README.md:198 defines the redundancy for n > 1, and the log
  line at gossip_main.rs:529 expects an error for one node, but `calculate_rmr`
  answers one for n = 0 only. A round in which only the origin has the message
  records 0 / 0, and with two measured rounds or more the sort of the series
  panics.
* `stale_ingress`: the help text of `--min-ingress-nodes` promises a minimum of
  incoming peers. A prune keeps that many of the peers heard in the whole window,
  some of which may have stopped pushing since. In `gossip_static` the same
  property holds.

Other facts of the code that the models have and no run is spent on: a threshold
sweep counts past 1.0, which the validator of the argument excludes and a debug
assertion in received_cache.rs:108 forbids; the minimum ingress stake is a share
of the smaller of node's and origin's stake, not of the node's as the help text
says; a late sender is not pruned at once, as README.md:355 has it, but after a
window of messages, and only beyond the two minimums; a sweep over RPC loads a
new cluster for each simulation; write-accounts with a count of 0 writes all
accounts or panics; the label of a histogram line is the greatest value of its
bucket except in the last one, into which `Histogram::build` also puts the
values of one more range.

### Bounds, and why they are enough

* Five nodes give the search two branches of different length to one node, which
  is the least cluster in which the order of the queue matters for a distance,
  two nodes of one layer that push to a third, redundant copies up and down the
  layers, and stranded nodes. The nodes are interchangeable up to the bounds on
  their peers, so that fixing the origin's peers loses nothing.
* In `gossip_static` a node has up to four senders of which it keeps two, and
  paths are up to three hops long. With the fanout equal to the size of an active
  set the order of peers plays no part, so that sets in ascending order are all.
* Two buckets tell whether `prune` and `get_nodes` look into the same one. Three
  candidates for a size of two make a rotation drop one and keep one.
* In `received_cache` one copy is timely, so that among three senders one is
  timely, one late and stored, one late and refused (`Capacity` is 2): if one
  more were let in, `ScoresAccount` would fail.
* `gossip_dynamic` starts with active sets in ascending order (`AscendingInit`);
  rotations reach other orders. `MaxRotations` bounds rotations, not rounds: the
  rounds go on for ever, and the state space is finite because windows close.
* In `influx_report` (`MCSettings`) the scripts are those of real arguments. With
  two threads one silent request leaves one thread to the others, and two block
  all; a setting has both. The queue is never longer than the script, so that it
  needs no bound. Two buckets make two lines that only their times tell apart,
  in two histograms of two simulations each.
* In `statistics` the fractions of the warm-up, the failure and the measured
  rounds all fall into the four rounds; the stakes meet both buckets, with the
  greatest on the bound. `MCBucketChoices` has bucket counts the bounds divide,
  such that make a range of 0, and 0 for each of the three. The hops stay within
  their bound, 4; what becomes of others is left to the proofs. `Word` stands for 2^64; the labels wrap around
  below 0 only.
* In `sweep` (`MCSnapshots`) the four answers have a node with two vote
  accounts, one without stake, two of equal stake, a node that leaves, and stakes
  below the number of stake buckets, 3 (100 in the program). Counts go from 0 to one
  past the number of nodes. `WaysToMeasure` has numbers of rounds that leave none,
  one or several measured, a fanout of 0, and bucket counts on both sides of each
  bound; every excuse of `PanicsForItsConfig` is met.

### Fairness

* RunGossip and GossipRounds run on one thread that never waits: weak fairness
  of the whole next-state relation.
* PushActiveSet: `chance_to_rotate` draws anew for each node after each round,
  so that with a positive probability a node rotates again and again: weak
  fairness of `Rotate`. That a rotation of a full entry brings in a new peer is
  not assumed; the loop of `rotate` inserts one more than size. `SilenceEnds` is
  stated for clusters with more candidates than an entry holds; otherwise a
  pruned peer stays silent for ever.
* InfluxReport: both threads and the executor run on, unless the process ends. A
  task has three steps and there are finitely many tasks, so that fairness to the
  tasks together is fairness to each. Whether the server answers a request is
  part of the setting, since the code sets no timeout: `Ends` is about settings
  in which it answers all, `AllPosted` about those in which it leaves fewer
  requests without answer than the executor has threads.

## 4. The proofs

### The search

RunGossipProofs proves, for every cluster, all active sets and failed nodes and
every fanout (from `GossipAssumption` alone: finitely many nodes, the origin one
of them, answers of `get_nodes` without duplicates, the asking node or the
origin, as `active_set` checks of the code that answers):

* `HopsInvariance`, `Invariance`: `Spec => []HopsInv`, `Spec => []IInv`
* `TypeCorrect`: `Spec => []TypeOK`
* `BreadthFirstCorrect`: `Spec => []BreadthFirst`, the comment "BFS searches at
  ever increasing distances" (gossip.rs:581)
* `HopsCertified`: `Spec => []CertifiedHops`
* `ShortestPathsFound`: `Spec => []ShortestPaths`, that the distances are the
  shortest ones over live links, and `Unreached` stands where there is no path
* `NeverRevised`: `Spec => NothingRevised`, that a distance is never revised
* `OrdersCompleteCorrect`: `Spec => []OrdersComplete`, what `consume_messages`
  relies on
* `SpanningTreeCorrect`: `Spec => []SpanningTree`
* `MessagesConserved`: `Spec => []MessageConservation`, that `egress`, `ingress`,
  `pushes`, `orders` and the redundancy's m agree after every step
* `FloodRefined`: `Spec => FloodsInLayers`, that RunGossip implements SyncFlood

`CertifiedHops` says at the end of the search: each visited node has a live link
from a visited node one hop nearer, and no live link from a visited node leads
outside or more than one hop farther. `ShortestPaths` compares with HopDistance,
which measures by balls around the origin. Every visited node is in the ball of
its distance, since its predecessor is in the one before; and whoever is in a
ball is visited and no farther than the ball's radius, since a link leads at most
one hop farther. Both are inductions over the radius. The balls grow until they
have everybody after as many hops as there are nodes, which needs that two equal
balls in a row are the last.

`CertifiedHops` is not inductive: that nothing is left to do when the queue is
empty follows only if every visited node is queued, is being served, or has
followed all its links (`LinksFollowed`). Following a link to a visited node
needs that node to be at most one hop farther, which needs the queue to be
sorted and to span two layers (`BreadthFirst`) and nobody to be beyond the layer
after the one being served (`NobodyFarther`). That the first copy's distance is
its sender's plus one gives `HasPredecessor`. `NothingRevised` needs
`CopiesOneFarther`, that a recorded copy came over a live link and has one hop
more than its sender: a second record of it writes the same number. With
`LinksFollowed`, which says that a followed link has its copy recorded, it gives
`OrdersComplete`. `SpanningTree` needs `TreeOfFirstCopies`: the tree grows with
the visited nodes, so that nobody gets a second parent. `HopsInv` is their
conjunction, with the type invariant.

`MessageConservation` relates sums, and a push adds one to each of them only if
it is not among the `pushes` already: the active set's answer has a peer once, a
node is served once, and its pushes are those of the positions it has come past
(`PushesServed`); that it is served once needs that nobody is queued twice
(`QueuedOnce`). `IInv` is all of this together; TLC checks it in `run_gossip`. The
proof has a lemma per action and in it a step per conjunct.

In the refinement only a dequeue can be seen, and only one that serves the first
node of a layer (`NextLayerFloods`). The queue is sorted, so no node of the layer
before is queued any more: all of them have followed their links
(`ServedLinksFollowed`), and with `HasPredecessor` the nodes one hop farther are
exactly those the flood reaches next. A first copy goes to the layer that is not
complete yet (`PushFirstInvisible`).

### The active set

PushActiveSetProofs proves, for any nodes, stakes, number of buckets, size and
set of false positives (from `ActiveSetAssumption`):

* `ActiveSetInvariance`: `Spec => []ActiveSetInv`
* `ActiveSetsFilled`: `Spec => []EntriesFilled`, that from the first rotation on
  every entry has as many different candidates as it can have
* `SilenceKept`: `Spec => []SilenceIsExact`, that `get_nodes` answers neither the
  origin nor who has pruned it, and whoever else is in the entry unless a filter
  answers falsely
* `OldestDropped`: `Spec => OldestLeavesFirst`

`SilenceIsExact` is about the answer of `get_nodes`, a fold over the entry;
`FiltersExact` is what a step has to keep: a filter holds an origin if and, false
positives apart, only if its peer is the origin or has silenced it, and who is
silenced is in the entry. A rotation keeps it because the peer that leaves takes
its silence with it and a new peer comes with a filter of its own key. That an
item is the peer's only one is `PeersOnce`: otherwise a prune would reach one of
two filters. A rotation inserts the peers of a shuffle until the entry has one
more than its size, then drops the first (`rotate`'s loop, push_active_set.rs).
That it drops exactly one follows if entries never shrink and never hold more
than size: `FilledTogether`. It is all entries or none because one rotation fills
them all. TLC checks `ActiveSetInv` in `active_set`; `EntriesFilled` follows from it.

### The received cache

ReceivedCacheProofs proves, for any nodes, stakes, capacities and thresholds
(from `ReceivedCacheAssumption` and `CacheEntryAssumption`):

* `CacheInvariance`: `Spec => []CacheInv`
* `ScoresAccounted`: `Spec => []ScoresAccount`
* `RecentOriginsKept`: `Spec => []RecentOriginsHeld`
* `EnoughIngressKept`: `Spec => []KeepsEnoughIngress`
* `BestPeersKept`: `Spec => []KeepsBestPeers`
* `AllItMayCut`: `Spec => []CutsAllItMay`

The last three are about one prune, whatever order the unstable sort leaves equal
peers in. A prune ranks the senders and cuts a tail of the ranking; the tail
begins after `min_ingress_nodes` senders and where the stake of those before it
has reached the minimum (`CutFacts`). Stakes before a position only grow, so that
the rest is a question of where the tail begins; what remains is that the stake
before a position is the stake of a set of senders (`SumImage`), since nobody is
ranked twice. The origin is filtered out of the tail afterwards, so that one more
may be left.

`ScoresAccount` is not inductive in one step but along the senders of a message:
`Consume` records them one by one, and the invariant of that fold has, after k
senders, the points of the first `NumDupsThreshold` of them, each to another
sender, and nobody twice (a sender's second point in one message would let its
score exceed the count). Whoever is late comes after one who has a point, so that
those without one (`OnlyLate`) are fewer than the capacity. An entry taken out by a prune leaves its senders behind
it. `RecentOriginsHeld` is about moving an origin to the front of a list in which
it is once (`OncePerOrigin`), and about cutting off the last one: that the
first `CacheCapacity` of the history are what the map has. `CacheInv` is these two
with the types and `OncePerOrigin`.

### The rounds

GossipRoundsProofs proves, for every cluster, every initial active sets, any
number of rotations and of failed nodes, and all parameters (from
`RoundsAssumption` and `CacheEntryAssumption`):

* `RoundsInvariance`: `Spec => []RoundsInv`
* `PrunedLinksStaySilent`: `Spec => []PrunedLinksSilent`
* `PrunesAreDue`: `Spec => []PrunesWhenDue`
* `MessagesAccounted`: `Spec => []MessageAccount`

`PrunedLinksSilent` says that whoever has obeyed a prune sends the pruner nothing.
That a prune makes it so is due to the filters (`FiltersHold`), and when prunes are
obeyed, to nobody having pruned a peer that is not heard of, nor the origin
(`PrunesHeard`): the pruned one then has the pruner in its entry, where the filter
is. `PrunesWhenDue` follows a message from the search to the window: a copy goes
to a live node and makes it visited (`CopiesVisit`), which rests on what is known
of HopDistance's balls; a window grows by one only in a round its node hears of,
and a full one is emptied by `send_prunes` in the same round (`WindowsFill`).
`MessagesSoFar` keeps the count together: `run_gossip` counts the pushes by pusher,
`orders` has them by receiver, so that a sum over pairs is taken both ways
(`SumBothWays`); the prunes of a round are added to it when they are sent, and
counted a second time when they are obeyed. The lemmas on the two kinds of entries
are those the proofs about one node rest on. TLC checks `RoundsInv` in `gossip_dynamic`.

What pruning may not do to a cluster is proved of clusters that nothing else
changes (`StaticCluster`):

* `StaticInvariance`: `StaticCluster => (Spec => []StaticInv)`
* `EnoughPeersKept`: `StaticCluster => (Spec => []IngressPeersKept)`
* `PruningIsFree`: `StaticCluster => (Spec => PruningCostsNothing)`

`StaticCluster` asks for four things, all of which `gossip_static` has. Nothing
rotates and nothing fails: otherwise a window has scores of peers that no longer
push, and `stale_ingress` shows the minimum of incoming peers violated. A node
pushes to its whole active set: with a smaller fanout, a pruned peer makes room
in the answer of `get_nodes` for one that was not pushed to before, and the links
of the cluster change with every prune. The default arguments, a fanout of 6
and active sets of 12, are of that kind: these theorems are about runs with
`--push-fanout` no less than `--active-set-size`. And `min_ingress_nodes` is at least `NUM_DUPS_THRESHOLD`, as in the
program (a constant of 2, and the default 2), so that no timely sender is beyond
the minimum.

The argument is that each node's nearest sender, ties broken by the order in which
copies are consumed, is never pruned: then everybody stays reached by a shortest
path, and the distances stand. It goes round in a circle, which is what `StaticInv`
closes. If the distances stand (`DistancesStand`: those of the last round are what
the links give now, and `orders` has the copies that belong to them), the senders
of a node arrive in the same order in every round of a window; so a window scores
only the senders that are among the first `NUM_DUPS_THRESHOLD` now, the first of
all among them, and everybody in it still pushes (`WindowsStand`). A prune ranks by
score and spares `min_ingress_nodes` senders, which are all that have one; so it
spares the first, and what it spares still pushes (`PrunesSpareFirst`). With every
node's first sender in place, the links that are left have the same distances
(`CertifiedAreTrue`, as for the search). `StaticInv` is these
three; TLC finds it to hold on `MCGossipStatic.cfg` when it is added there.

### The statistics

GossipStatisticsProofs proves, for every cluster and stakes, any number of rounds,
of warm-up and of failed nodes, and whatever links a round is played over (from
`StatisticsAssumption`):

* `StatisticsInvariance`: `Spec => []StatisticsInv`
* `MessagesAgree`: `Spec => []MessagesAccount`
* `StrandedAgree`: `Spec => []StrandedTwice`
* `RoundsAgree`: `Spec => []RoundsAccount`

The three properties are about sums over series and over maps, and the proof is
that of one measured round: each side gains the same. An entry more adds its value
to the sum over a series (`SumAppended`), a map that gains counts gains their sum,
whether its keys are new or not (`SumGrown`), and the pushes of a round are counted
alike by sender and by receiver (`SumBothWays`). What the properties need besides is
what a measured round finds. That its hops are those of coverage without the origin
is due to the origin, and nobody else, being at 0 hops (`OriginAtZero`, from
HopDistance's balls): `HopsStat::new` takes a 0 for the origin. That a round accounts
for every node needs how many can have failed by then (`FailedAtOnce`). And
that the redundancies have an entry for every round, though `calculate_rmr` may
answer an error, needs the origin to be always reached. The filters of
`HopsStat::new` and `HopsStatCollection::insert` are recursive functions in the model
(`Without`) and keep one value for each node they do not leave out (`ValuesKept`).

`StatisticsInv` is these three properties with the types, `OriginAtZero` and
`FailedAtOnce`. It holds in TLC too, when it is added to the invariants of
`MCGossipStatistics.cfg`; the run lists the three properties only, which are what it
says of the code.

About histograms, labels and the report, for every stakes, every upper bound and
every numbers of buckets:

* `PhasesInvariance`: `Spec => []Phases`, `ReportInvariance`: `Spec => []ReportInv`
* `HistogramsLoseNothing`: `Spec => [](HopsInBounds => HistogramsComplete)`
* `LabelsAreTrue`: `LabelsFit => (Spec => [](HopsInBounds => HistogramsLegible))`
* `HopsAreOfNodes`: `Spec => []HopsOfNodes`, no hops are more than there are nodes
* `HistogramsWhole`: `HopsUpper >= Cardinality(Nodes) => (Spec => []HistogramsComplete)`
* `LabelsTellAll`: the same for `HistogramsLegible`, with `LabelsFit`
* `ReportsAgree`: `Spec => []ReportAgrees`
* `AllReported`: `Spec => []ReportedUnlessAlone`

The hops histogram is the one whose upper bound is a constant of the test type
(30, 50, or 40 and a fraction of it; gossip_main.rs:573-587) and not computed from
its values. Hops above the bound are logged and left out, so that completeness is
proved of rounds within the bound (`HistogramsLoseNothing`), whatever the size of
the cluster, and from there of all clusters no larger than the bound. `LabelsFit` says that twice a bound and a number of buckets is less than 2^64.

`Histogram::build` is here a family of classes: each kept index of the values has
one bucket, and the sizes of classes add up to the size of what is classed
(`ClassesCount`). What a bucket range bounds is a question of quotients and
multiples (`Quotient`, `Multiples`), the only nonlinear arithmetic in the proofs.
The labels computed anew say the same as the bounds of the buckets because both
are multiples of one range, except that the last bucket asked for takes in the
values of a range more. For messages, a node's bucket is the one of its stake, and
sums by bucket are sums by node (`SumByClasses`).

`ReportAgrees` compares an aggregate of raw hops with aggregates of rounds. It
needs `HopsAgree`: in sum, in number and in maximum, the raw hops without zeros are
those of the rounds together. The report is of the series as they stand after the
last round, which `Phases` says. `ReportedUnlessAlone` needs that a redundancy is
undefined only after a round with coverage 1 (`RedundanciesOfAll`), and a case for
each place where a histogram may panic: what divides by a range of 0 has more
buckets than values, and what divides by no buckets, or puts a value back from
bucket 0, has none (`BuildOfMisfit`, `MapOfMisfit`). With one measured round a
histogram of stranded nodes without buckets is fine: its range is 1, and a node in
it was stranded once. One excuse no instance of this run needs, though `sweep` does:
a greatest stake below the number of stake buckets
(`Misfit(Max(Range(Stakes)), StakeBuckets)`).

### Induction over data

The library's induction theorems take the hypothesis as an operator, which the
provers cannot instantiate. DataProofs does induction without them: a
statement about all finite sets, or all numbers, is proved by naming the set of
its counterexamples and taking a smallest one (`MinimalSubset`, `LeastNatural`,
which follow from the well-foundedness facts of the library). Functions defined
by recursion, such as the folds that sums are defined by, are shown to satisfy
their equation the same way (`NatRecursion`, `SetRecursion`). What is proved there
is proved from the definitions of the community modules, with nothing assumed.

### The report

InfluxReportProofs proves, for every script of points, every fate of the
requests and every number of threads (from `SettingsAssumption`, the types of a
setting):

* `ReportInvariance`: `Spec => []ReportInv`
* `TrackerCorrect`: `Spec => []TrackerCountsTasks`
* `PromiseKept`: `Spec => KeepsPromise`, that InfluxReport implements Delivery

What has to be shown is that `equal` holds, after the end mark, only when every
data point has been answered. `TrackerCountsTasks` makes equal counts mean no
open task, with a correction for the moment between a spawn and its count. That
the open tasks and the answered ones are then all points needs `NoneForgotten`:
a pushed point is in the queue, or held, or has its task, and the queue is empty
once the end mark has left it. The latter needs `QueueInOrder`: positions grow
along the queue and none is before the point that is held, so that the end mark
is the last. The count of tasks goes up by one with a spawn only if the point has
no task yet, and down by one with an answer only if it is in one place:
`TasksApart`. `ReportInv` is their conjunction with the type invariant; TLC checks
it in `influx_report`. The theorems have a lemma per action or kind of action.

In the refinement the answer of the server is `Resolve`, the check that finds the
counts equal is `Close` (`EqualMeansDrained`), and everything else, also a panic,
is a stuttering step.

About the database:

* `LinesInvariance`: `Spec => []LinesInv`
* `LinesAreKept`: `Spec => []LinesKept`

A write replaces what has the same key: measurement, tags and time. Lines of a
histogram bear a time read for them alone, and the clock is made to move on before
the next is read; so each has a time before the clock of now (`LineInTime`), and a
new one has a time none has had. Other lines have measurements of their own
(`OwnMeasurements`); two of them in one point have different measurements or tags,
and those of two points different times unless the clock stands still, which is the
one excuse of `LinesKept`. So no two lines that have to be kept have one key, whether they
are stored, queued or being written, and a write in whatever order overwrites
nothing: `LinesInv`. It holds on `MCInfluxReport.cfg` when it is added there.

### The sweep and the accounts

SimulationSweepProofs proves, for all sets of arguments, all answers the RPC server
may give, clusters of any size and any number of simulations (from
`SweepAssumption`: the types of the arguments, with any numbers of rounds and
buckets, and that `None` is neither a node nor an account file):

* `SweepInvariance`: `Spec => []SweepInv`
* `SweepsCompare`: `Spec => []OneFieldMoves`
* `PanicsAreForConfigs`: `Spec => []PanicsForItsConfig`
* `OriginsHaveTheirRank`: `Spec => []OriginAsRanked`
* `AccountsAreKept`: `Spec => []AccountsKept`

`SweepInv` says what each simulation begun has: the config of its turn, and stakes
that are those of the file if there is one (`RunsAsAsked`); and that the file is one
that write-accounts may have written of the votes it was answered, or is missing
because it was asked for none (`FileAsAsked`). That accepted origin ranks are never
indexed past their list needs `RanksAccepted` to stand while the sweep runs. That a
simulation panics only if it is `Unfit` is a case for each panic of `Simulate`
(`SimulateFacts`): more nodes than there are fail only of a fraction past 1
(`FailsTooMany`), and histograms panic only of misfits, by the same lemmas that the
statistics rest on (`PanicOfMisfits`, `NarrowIsMisfit`). The
other properties are about what is computed from these:

* The grouping has, after k vote accounts, of each node the sum of its stakes among
  these (`GroupedFacts`); filtering that twice is filtering it once
  (`FromRpcFacts`), and a file has some of it (`FileFacts`). `AccountsKept` follows
  from the file being one and the same for all simulations.
* The heap of `find_nth_largest_node`, after k nodes, has of the stakes that are v
  or more all, or n of them if there are more, for each v (`IsHeapOf`). This is what
  an offered stake preserves, whether it is pushed or takes the place of a least one
  (`HeapGrows`, `HeapTurns`). So the least of the heap is a stake that at least n
  nodes reach and fewer than n exceed, also among equal stakes (`OriginFacts`).
* Only one field is moved because the configs differ from the arguments in it alone
  (`MovedFacts`, `FanoutFacts`), by i steps in simulation i.

TLC finds `SweepInv` to hold on `MCSimulationSweep.cfg` when it is added there.

### Only model-checked

* Liveness, which is out of the prover's reach: `Termination` of the search,
  `SilenceEnds`, `PruningSettles`, `Ends` and `AllPosted`. Every other property of
  the passing runs is the conclusion of a theorem.
* The invariants of the rounds without `StaticCluster` are those of `RoundsInv`.
  That pruning keeps enough peers and costs nothing is false with rotations, and for
  a fanout below the size of an active set nothing is claimed.
* Where a theorem has a hypothesis on the constants, `StaticCluster`, `LabelsFit` or
  `HopsUpper >= Cardinality(Nodes)`, the instances of the runs satisfy it.

## 5. Not modelled

* Text: formatting of data points, logging, printing, argument parsing beyond the
  validators. Fields other than those of histogram lines are left out, also where
  they are no numbers (`NaN`, which the server refuses: an error of the request).
  The tag `start_time` is the same in all points of a program run.
* A clock that is set back while the program runs.
* YAML, the file system and the RPC protocol; the monikers of lib.rs for URLs.
* Overflow of a sum of stakes, which is bounded by the supply of lamports.
* `GossipStatsCollection` and the means and medians of series of fractions: what
  is printed is the series as they are.
* Probabilities: a weighted shuffle is any order (all weights are positive),
  `chance_to_rotate` any set of nodes.
* Times: the pace of the influx thread, which a start point sets.
* `num_gossip_rounds`, `_receiver`, `table` of a Node and `should_force_push`,
  which the simulator never uses.

## 6. State, and what is open

Done: the inventory; models of the search, the active set, the received cache,
the rounds, the statistics with the labels of their histograms, the accounts and
the sweep, and the influx report with panics, silent requests and the database;
the proofs that the search implements SyncFlood and the report Delivery; proofs of
every safety and action property that the passing runs check.

Open:

1. What pruning costs with a fanout below the size of an active set. New peers come
   into the answer of `get_nodes` as others are pruned, so that distances may fall
   as well as stand; that coverage never falls would need a measure of the links
   that are gained.
2. Liveness beyond the instances: that pruning settles, for every cluster, would
   follow from the number of links that are not pruned yet, in a logic that has
   `ENABLED`.
3. Means and medians of the series of fractions, and `GossipStatsCollection`.
