--------------------------- MODULE SimulationSweep ---------------------------
(***************************************************************************)
(* main (gossip_main.rs): what the program makes of its arguments.  The    *)
(* validators of parse_matches refuse some of them, the check of the       *)
(* origin ranks refuses others, and a test type then runs num_simulations  *)
(* simulations, each with one field of Config moved on by step_size.  Each *)
(* loads the cluster anew and finds its origin in it: from a file that     *)
(* write-accounts (write_accounts_main.rs) wrote before, or from an RPC    *)
(* server, whose answers change with time.                                 *)
(*                                                                         *)
(* Fractions and step sizes are counted in hundredths.  A simulation is a  *)
(* single step here: GossipRounds and GossipStatistics model what it does, *)
(* and what is left of it is how it ends, with its statistics or in a      *)
(* panic that ends the sweep.  What depends on its rounds, or on whether   *)
(* the build checks arithmetic and assertions, may end it or not.          *)
(***************************************************************************)
EXTENDS Accounts, StatHistogram

CONSTANTS
  StakeBuckets,  \* VALIDATOR_STAKE_DISTRIBUTION_NUM_BUCKETS
  ArgSets,    \* the arguments the programs may be called with
  Snapshots,  \* the vote accounts the RPC server may answer with
  None        \* no file, no origin

\* The fields of Config that a test type moves, or a run depends on.
Counts == {"gossip_push_fanout", "gossip_active_set_size", "min_ingress_nodes", "origin_rank"}
Fractions == {"prune_stake_threshold", "fraction_to_fail", "probability_of_rotation"}
Config == [Counts \cup Fractions -> Nat]

TestTypes == {"ActiveSetSize", "PushFanout", "MinIngressNodes", "PruneStakeThreshold",
              "OriginRank", "FailNodes", "RotateProbability", "NoTest"}

ASSUME SweepAssumption ==
  /\ StakeBuckets \in Nat \ {0}
  /\ \A votes \in Snapshots :
       /\ votes \in Seq({votes[i] : i \in DOMAIN votes})
       /\ \A i \in DOMAIN votes : votes[i].node # None /\ votes[i].stake \in Nat
       /\ \A nodes \in SUBSET {votes[i].node : i \in DOMAIN votes} : None \notin [nodes -> Nat]
  /\ \A args \in ArgSets :
       /\ args.testType \in TestTypes
       /\ args.originRanks \in Seq(Nat) \ {<<>>}
       /\ {args.numSimulations, args.stepSize} \subseteq Nat
       /\ {args.iterations, args.warmUp, args.whenToFail} \subseteq Nat
       /\ args.buckets \in [stranded : Nat, hops : Nat, messages : Nat]
       /\ args.config \in Config
       /\ args.config.origin_rank = args.originRanks[1]
       /\ args.source \in {"rpc", "file", "unnamed file"}
       /\ args.filterZero \in BOOLEAN
       /\ args.write \in [filterZero : BOOLEAN, zeroStakes : BOOLEAN, count : Nat]

VARIABLES
  args,     \* input: the arguments of both programs
  pc,       \* "write", "parse", "check", "run", then "done", "refused",
            \* "panicked" or "unanswered"
  votes,    \* what write-accounts was answered
  file,     \* the account file
  runs      \* the simulations begun so far: config, stakes, origin, and whether
            \* the message was alone with the origin in a round that ended it

vars == <<args, pc, votes, file, runs>>

Init ==
  /\ args \in ArgSets
  /\ pc = IF args.source = "file" THEN "write" ELSE "parse"
  /\ votes = <<>>
  /\ file = None
  /\ runs = <<>>

-----------------------------------------------------------------------------
(* write-accounts.                                                         *)

\* One run of write-accounts, which ends without a file in a panic.
WriteAccounts ==
  /\ pc = "write"
  /\ votes' \in Snapshots
  /\ LET cluster == ClusterFromRpc(votes', args.write.filterZero)
     IN  \/ file' \in Files(cluster, args.write.zeroStakes, args.write.count)
         \/ WritePanics(cluster, args.write.zeroStakes, args.write.count) /\ UNCHANGED file
  /\ pc' = "parse"
  /\ UNCHANGED <<args, runs>>

-----------------------------------------------------------------------------
(* gossip-sim.                                                             *)

\* The validators of parse_matches look at two of the three fractions.
ParseMatches ==
  /\ pc = "parse"
  /\ pc' = IF args.config.probability_of_rotation \in 0..100
              /\ args.config.prune_stake_threshold \in 0..100
           THEN "check" ELSE "refused"
  /\ UNCHANGED <<args, votes, file, runs>>

\* Mutant: a list shorter than the sweep passes.
RanksAcceptedIfFewer == Len(args.originRanks) <= args.numSimulations

\* Whether main goes on with these origin ranks: with more of them than
\* simulations it only warns.
RanksAccepted ==
  LET given == Len(args.originRanks)
  IN  \/ given > args.numSimulations
      \/ given = args.numSimulations /\ (given = 1 \/ args.testType = "OriginRank")

CheckOriginRanks ==
  /\ pc = "check"
  /\ pc' = IF RanksAccepted THEN "run" ELSE "refused"
  /\ UNCHANGED <<args, votes, file, runs>>

\* From<StepSize> for usize drops the fraction, for f64 keeps it.
StepFor(field) == IF field \in Counts THEN args.stepSize \div 100 ELSE args.stepSize

\* Mutant: the first simulation is moved on already.
MovedAtOnce(field, i) == [args.config EXCEPT ![field] = @ + (i + 1) * StepFor(field)]

\* The config of simulation i with `field` moved on i steps.
Moved(field, i) == [args.config EXCEPT ![field] = @ + i * StepFor(field)]

\* The active set grows with the fanout where it would be too small for it.
FanoutConfig(i) ==
  LET moved == Moved("gossip_push_fanout", i)
  IN  [moved EXCEPT !.gossip_active_set_size =
         IF moved.gossip_push_fanout > @ THEN moved.gossip_push_fanout ELSE @]

\* The origin rank of simulation i comes from the list.
OriginConfig(i) == [args.config EXCEPT !.origin_rank = args.originRanks[i + 1]]

\* The config of simulation i, counted from 0.
ConfigOf(i) ==
  CASE args.testType = "ActiveSetSize" -> Moved("gossip_active_set_size", i)
    [] args.testType = "PushFanout" -> FanoutConfig(i)
    [] args.testType = "MinIngressNodes" -> Moved("min_ingress_nodes", i)
    [] args.testType = "PruneStakeThreshold" -> Moved("prune_stake_threshold", i)
    [] args.testType = "OriginRank" -> OriginConfig(i)
    [] args.testType = "FailNodes" -> Moved("fraction_to_fail", i)
    [] args.testType = "RotateProbability" -> Moved("probability_of_rotation", i)
    [] OTHER -> args.config

\* The index past the list of origin ranks, the origin rank that no node has,
\* and the failing of more nodes than there are.
IndexPanics(i) == args.testType = "OriginRank" /\ i >= Len(args.originRanks)
RankPanics(config, stakes) == config.origin_rank \notin 1..Cardinality(DOMAIN stakes)
FailPanics(config, stakes) ==
  LET count == Cardinality(DOMAIN stakes)
  IN  /\ args.testType = "FailNodes" /\ args.whenToFail < args.iterations
      /\ (config.fraction_to_fail * count) \div 100 > count

\* MIN_NUM_UPSERTS, the rounds before a prune.
MinNumUpserts == 20

\* The rounds whose statistics are taken.
Measured == IF args.iterations > args.warmUp THEN args.iterations - args.warmUp ELSE 0

\* The upper bound of the hops histogram.
HopsUpper(config) ==
  CASE args.testType = "FailNodes" -> (40 * (100 + config.fraction_to_fail)) \div 100
    [] args.testType = "MinIngressNodes" -> 50
    [] OTHER -> 30

\* The histograms that panic whatever the rounds were like: of the stakes, and,
\* of measured rounds, those without buckets, and those with too many for the
\* values they always have, the origin's 0 hops and every stake.
HistogramsPanic(config, stakes) ==
  \/ BuildPanics(Max(Range(stakes)), 0, StakeBuckets, Values(stakes))
  \/ /\ Measured > 0
     /\ \/ BuildPanics(Measured, 0, args.buckets.stranded, <<>>)
        \/ BuildPanics(HopsUpper(config), 0, args.buckets.hops, <<0>>)
        \/ MapPanics(args.buckets.messages, stakes)

\* The histogram of stranded nodes has a range of 0, which panics if a node was
\* stranded, or where its labels are computed, for the database or the log, by
\* a build that checks arithmetic.
StrandedTooNarrow == Measured > 0 /\ BuildPanics(Measured, 0, args.buckets.stranded, <<1>>)

\* Whether in one of several measured rounds, whose redundancies can then not be
\* sorted, the message is alone with the origin: it may be, and it is if there
\* are no other nodes, or none to push to.
Alone(config, stakes) ==
  IF Measured <= 1 THEN {FALSE}
  ELSE IF \/ Cardinality(DOMAIN stakes) = 1
          \/ 0 \in {config.gossip_push_fanout, config.gossip_active_set_size}
       THEN {TRUE}
       ELSE BOOLEAN

\* The nodes and stakes a simulation may find.
Found ==
  IF args.source = "rpc" THEN {ClusterFromRpc(answer, args.filterZero) : answer \in Snapshots}
  ELSE {Cluster(file, args.filterZero)}

Begun(config, stakes, origin, alone) ==
  runs' = Append(runs, [config |-> config, stakes |-> stakes, origin |-> origin, alone |-> alone])

\* run_simulation, with the nodes in any order.  Where a build checks that
\* prune's threshold is a fraction it may panic there.
Simulate(config, stakes) ==
  IF RankPanics(config, stakes)
  THEN Begun(config, stakes, None, FALSE) /\ pc' = "panicked"
  ELSE \E nodes \in SetToSeqs(DOMAIN stakes) :
         LET origin == NthLargestNode(config.origin_rank, nodes, stakes)
         IN  IF FailPanics(config, stakes) \/ HistogramsPanic(config, stakes)
             THEN Begun(config, stakes, origin, FALSE) /\ pc' = "panicked"
             ELSE \/ /\ \/ config.prune_stake_threshold > 100 /\ args.iterations >= MinNumUpserts
                        \/ StrandedTooNarrow
                     /\ Begun(config, stakes, origin, FALSE) /\ pc' = "panicked"
                  \/ \E alone \in Alone(config, stakes) :
                       /\ Begun(config, stakes, origin, alone)
                       /\ pc' = IF alone THEN "panicked" ELSE "run"

RunSimulation ==
  /\ pc = "run"
  /\ Len(runs) < args.numSimulations
  /\ ~IndexPanics(Len(runs))
  /\ args.source = "rpc" \/ file # None
  /\ \E stakes \in Found : Simulate(ConfigOf(Len(runs)), stakes)
  /\ UNCHANGED <<args, votes, file>>

\* What ends the program before a simulation has its nodes: the list of origin
\* ranks is too short, there is no account file, the option that names it is
\* missing, or the RPC server does not answer.
NoSimulation ==
  /\ pc = "run"
  /\ Len(runs) < args.numSimulations
  /\ \/ IndexPanics(Len(runs))
     \/ args.source \in {"rpc", "unnamed file"}
     \/ file = None
  /\ pc' = IF args.source = "rpc" /\ ~IndexPanics(Len(runs)) THEN "unanswered"
           ELSE IF args.source = "unnamed file" /\ ~IndexPanics(Len(runs)) THEN "refused"
           ELSE "panicked"
  /\ UNCHANGED <<args, votes, file, runs>>

\* print_all, if the statistics are to be printed, comes to the labels last.
EndSweep ==
  /\ pc = "run"
  /\ Len(runs) = args.numSimulations
  /\ \/ pc' = "done"
     \/ runs # <<>> /\ StrandedTooNarrow /\ pc' = "panicked"
  /\ UNCHANGED <<args, votes, file, runs>>

Ended == pc \in {"done", "refused", "panicked", "unanswered"} /\ UNCHANGED vars

Next ==
  \/ WriteAccounts \/ ParseMatches \/ CheckOriginRanks
  \/ RunSimulation \/ NoSimulation \/ EndSweep \/ Ended

Spec == Init /\ [][Next]_vars

-----------------------------------------------------------------------------
(* Properties.                                                             *)

\* The field a test type is about, if it counts up.
Swept ==
  [ActiveSetSize |-> "gossip_active_set_size", PushFanout |-> "gossip_push_fanout",
   MinIngressNodes |-> "min_ingress_nodes", PruneStakeThreshold |-> "prune_stake_threshold",
   FailNodes |-> "fraction_to_fail", RotateProbability |-> "probability_of_rotation"]

\* Simulations can be compared: from one to the next only the field under test
\* changes, by the same step every time, and the first has it as the arguments
\* give it.  In the fanout sweep the active set may grow to the fanout.
OneFieldMoves ==
  args.testType \in DOMAIN Swept =>
    LET field == Swept[args.testType]
    IN  /\ runs # <<>> => runs[1].config[field] = args.config[field]
        /\ \A i \in 1..(Len(runs) - 1) :
             runs[i + 1].config[field] = runs[i].config[field] + StepFor(field)
        /\ \A i \in DOMAIN runs : \A other \in (Counts \cup Fractions) \ {field} :
             \/ runs[i].config[other] = args.config[other]
             \/ /\ field = "gossip_push_fanout" /\ other = "gossip_active_set_size"
                /\ runs[i].config[other] = runs[i].config[field]

\* What a simulation may end with a panic for.
Unfit(run) ==
  LET greatest == Max(Range(run.stakes))
  IN  \/ run.config.origin_rank \notin 1..Cardinality(DOMAIN run.stakes)
      \/ args.testType = "FailNodes" /\ run.config.fraction_to_fail > 100
      \/ run.config.prune_stake_threshold > 100
      \/ run.alone /\ Measured > 1
      \/ Misfit(greatest, StakeBuckets)
      \/ Misfit(Measured, args.buckets.stranded)
      \/ Measured > 0 /\ \/ Misfit(HopsUpper(run.config), args.buckets.hops)
                         \/ MapMisfit(greatest, args.buckets.messages)

\* What main has accepted it can run: a sweep panics only if the cluster is too
\* small for the origin rank, if a fraction to fail or a stake threshold has
\* passed 1, if a histogram has no buckets or more than it has values for, if
\* the message stayed with the origin in one of several measured rounds, or if
\* write-accounts was asked for 0 nodes; never for want of an origin rank in
\* the list.
PanicsForItsConfig ==
  pc = "panicked" =>
    \/ file = None /\ args.source = "file" /\ args.write.count = 0
    \/ runs # <<>> /\ Unfit(runs[Len(runs)])

\* The origin is a node with the rank asked for, also among nodes of equal
\* stake: fewer than rank nodes have more stake than it, and at least rank
\* nodes, itself among them, have as much.
OriginAsRanked ==
  \A i \in DOMAIN runs :
    LET stakes == runs[i].stakes
        AtLeast(s) == Cardinality({n \in DOMAIN stakes : stakes[n] >= s})
        stake == stakes[runs[i].origin]
    IN  runs[i].origin # None =>
          /\ runs[i].origin \in DOMAIN stakes
          /\ AtLeast(stake + 1) < runs[i].config.origin_rank
          /\ runs[i].config.origin_rank <= AtLeast(stake)

\* A sweep from a file simulates one cluster all along, whatever the RPC server
\* answers in the meantime: nodes of the answer write-accounts had, as many as
\* it was asked for if there are so many, each with the stake of all its vote
\* accounts.
StakeIn(answer, n) ==
  SumFunctionOnSet([i \in DOMAIN answer |-> answer[i].stake],
                   {i \in DOMAIN answer : answer[i].node = n})
AccountsKept ==
  args.source = "file" =>
    \A i \in DOMAIN runs :
      LET stakes == runs[i].stakes
          nodes == {votes[j].node : j \in DOMAIN votes}
          unstaked == {n \in nodes : StakeIn(votes, n) = 0}
          eligible == (IF args.write.zeroStakes THEN unstaked ELSE nodes)
                        \ (IF args.write.filterZero THEN unstaked ELSE {})
      IN  /\ stakes = runs[1].stakes
          /\ DOMAIN stakes \subseteq eligible \ (IF args.filterZero THEN unstaked ELSE {})
          /\ \A n \in DOMAIN stakes : stakes[n] = StakeIn(votes, n)
          /\ \/ Cardinality(DOMAIN stakes) = args.write.count
             \/ args.filterZero /\ eligible \cap unstaked # {}
             \/ /\ args.write.count = 0 \/ Cardinality(eligible) < args.write.count
                /\ DOMAIN stakes = eligible

\* The invariant behind them: what is in the file is what write-accounts was
\* answered, it is missing only where no accounts were asked for, and every
\* simulation has the config of its turn and stakes loaded as the source has it.
FileAsAsked ==
  /\ args.source # "file" => file = None
  /\ args.source = "file" /\ pc # "write" =>
       /\ votes \in Snapshots
       /\ \/ file = None /\ args.write.count = 0
          \/ file \in Files(ClusterFromRpc(votes, args.write.filterZero),
                            args.write.zeroStakes, args.write.count)
RunsAsAsked ==
  /\ runs \in Seq(ToSet(runs))
  /\ \A i \in DOMAIN runs :
       /\ runs[i].config = ConfigOf(i - 1)
       /\ IsFiniteSet(DOMAIN runs[i].stakes) /\ runs[i].stakes \in [DOMAIN runs[i].stakes -> Nat]
       /\ args.source = "file" => file # None /\ runs[i].stakes = Cluster(file, args.filterZero)
SweepInv ==
  /\ args \in ArgSets
  /\ pc = "write" => args.source = "file" /\ file = None /\ runs = <<>>
  /\ pc = "run" => RanksAccepted
  /\ FileAsAsked /\ RunsAsAsked /\ OriginAsRanked /\ PanicsForItsConfig

\* README.md:128, "The number of times a simulation is run ... is defined by
\* num-simulations": with fractions in range, and one origin rank as the
\* command lines in README.md have it, no sweep is refused.
SweepsAsDocumented ==
  /\ args.testType \in DOMAIN Swept
  /\ Len(args.originRanks) = 1
  /\ args.numSimulations > 0
  /\ \A field \in Fractions : args.config[field] <= 100
  => pc # "refused"
=============================================================================
