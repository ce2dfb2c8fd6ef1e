--------------------------- MODULE MCInfluxReport ---------------------------
(***************************************************************************)
(* Instances of InfluxReport for TLC.  The scripts are those of real       *)
(* arguments: one or two simulations of one measured round, one simulation *)
(* of two rounds, and two simulations that are all warm-up.                *)
(***************************************************************************)
EXTENDS InfluxReport

Point(kind, sim) == [kind |-> kind, sim |-> sim]
Stakes == <<Point("stakes", 0)>>
Warm(sim) == <<Point("start", sim), Point("config", sim)>>
Measured(sim) == Warm(sim) \o <<Point("round", sim), Point("final", sim)>>

OneRound == Stakes \o Measured(0)
TwoRounds == Stakes \o Warm(0) \o <<Point("round", 0), Point("round", 0), Point("final", 0)>>
AllWarmUp == Stakes \o Warm(0) \o Warm(1)
TwoSimulations == Stakes \o Measured(0) \o Measured(1)

\* A setting in which the given positions meet an error, or silence.
Setting(script, errors, silent, standstill) ==
  [script |-> script, standstill |-> standstill,
   fate |-> [p \in DOMAIN script |-> IF p \in errors THEN "error"
                                     ELSE IF p \in silent THEN "silent" ELSE "ok"]]

MCSettings ==
  {Setting(OneRound, {}, {}, FALSE), Setting(OneRound, {5}, {3}, FALSE),
   Setting(OneRound, {}, {1, 3}, FALSE), Setting(AllWarmUp, {1, 3, 5}, {}, FALSE),
   Setting(TwoRounds, {3}, {4}, FALSE), Setting(TwoSimulations, {1, 4}, {3}, TRUE)}
=============================================================================
