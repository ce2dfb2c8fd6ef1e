----------------------------- MODULE DataPoints -----------------------------
(***************************************************************************)
(* InfluxDataPoint (influx_db.rs): what a data point says, and what the    *)
(* database makes of it.  A point is a sequence of lines of InfluxDB's     *)
(* line protocol; a line has a measurement, tags, fields and a time.       *)
(*                                                                         *)
(* The database keeps one set of fields for a measurement, tags and time:  *)
(* a later line with the same three replaces an earlier one.  Only the     *)
(* measurement, the simulation_iter tag and the time tell lines of one     *)
(* program run apart.  Fields stay abstract, except in histograms.         *)
(***************************************************************************)
EXTENDS Naturals, SequencesExt, TLC

-----------------------------------------------------------------------------
(* The lines of a point, in order: `own` is whether a line bears the time  *)
(* the point was created at (append_timestamp) or one read for it alone    *)
(* (set_and_append_timestamp).                                             *)

Line(measurement, tags, own) == [measurement |-> measurement, tags |-> tags, own |-> own]

\* One line for each bucket of a histogram.
HistogramLines(measurement, tags, buckets) ==
  [b \in 1..buckets |-> Line(measurement, tags, FALSE)]

OwnLines(measurements, tags) ==
  [i \in DOMAIN measurements |-> Line(measurements[i], tags, TRUE)]

\* The point before the first simulation; its lines have no simulation_iter.
StakesPoint(buckets) ==
  OwnLines(<<"simulation_config">>, {})
    \o HistogramLines("validator_stake_distribution", {}, buckets)

ConfigPoint(sim) == OwnLines(<<"config">>, {sim})

RoundPoint(sim) ==
  OwnLines(<<"rmr", "coverage", "hops_stat", "stranded_node_stats", "branching_factor",
             "iteration">>, {sim})

\* The point at the end of a simulation.  create_histogram_point writes no
\* tags, create_messages_point does.
FinalPoint(sim, buckets) ==
  OwnLines(<<"stranded_node_iterations">>, {sim})
    \o HistogramLines("stranded_node_histogram", {}, buckets)
    \o HistogramLines("aggregate_hops_histogram", {}, buckets)
    \o HistogramLines("egress_message_count", {sim}, buckets)
    \o HistogramLines("ingress_message_count", {sim}, buckets)
    \o HistogramLines("prune_message_count", {sim}, buckets)
    \o OwnLines(<<"iteration">>, {sim})

-----------------------------------------------------------------------------
(* Times.  A tick is the resolution of the system's clock, at most the     *)
(* microsecond of the sleep.                                               *)

\* Mutant: get_timestamp_now does not sleep.
TimeOfReadAtOnce(start, reads) == start

\* InfluxDataPoint::get_timestamp_now after so many reads that began at
\* `start`: each one sleeps before it returns, for a tick at least.
TimeOfRead(start, reads) == start + reads

\* The lines with their times, for a point created at `now`.
Stamped(lines, now) ==
  LET reads(i) == Cardinality({j \in 1..(i - 1) : ~lines[j].own})
  IN  [i \in DOMAIN lines |->
         [series |-> <<lines[i].measurement, lines[i].tags>>, own |-> lines[i].own,
          time |-> IF lines[i].own THEN now ELSE TimeOfRead(now, reads(i))]]

\* The clock once a point created at `now` is complete.
ClockAfter(lines, now) == TimeOfRead(now, Cardinality({i \in DOMAIN lines : ~lines[i].own}))

-----------------------------------------------------------------------------
(* The database.                                                           *)

KeyOf(line) == <<line.series, line.time>>

\* A write of point p's lines into the database: of lines with the same key
\* the last one stays.
Written(database, p, lines) ==
  LET keys == {KeyOf(lines[i]) : i \in DOMAIN lines}
      last(key) == Max({i \in DOMAIN lines : KeyOf(lines[i]) = key})
  IN  [key \in keys \cup DOMAIN database |->
         IF key \in keys THEN <<p, last(key)>> ELSE database[key]]

-----------------------------------------------------------------------------
(* The lines of a histogram.                                               *)

\* Mutant: the label is one past the bucket's greatest value.
BucketLabelPast(min, range, bucket, word) == (min + (bucket + 1) * range) % word

\* bucket_max of create_histogram_point, in numbers modulo `word`.
BucketLabel(min, range, bucket, word) == (min + (bucket + 1) * range + word - 1) % word

\* With checked arithmetic, taking 1 from 0 panics.
LabelPanics(min, range, entries) == \E b \in DOMAIN entries : min + (b + 1) * range = 0

\* create_histogram_point: label and count of every bucket.
LabelledLines(min, range, entries, word) ==
  {[bucket |-> b, label |-> BucketLabel(min, range, b, word), count |-> entries[b]] :
     b \in DOMAIN entries}
=============================================================================
