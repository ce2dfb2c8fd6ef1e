---------------------------- MODULE StatHistogram ----------------------------
(***************************************************************************)
(* The arithmetic of gossip_stats.rs that keeps no state: sorted medians,  *)
(* HopsStat, StrandedNodeStats, and the two ways a Histogram is built.     *)
(* A mean is kept as its sum and its count, and a median is kept doubled,  *)
(* so that no fraction is needed.                                          *)
(***************************************************************************)
EXTENDS Naturals, SequencesExt

\* The values of a map, in no particular order.
Values(f) == LET keys == SetToSeq(DOMAIN f) IN [i \in DOMAIN keys |-> f[keys[i]]]

\* sort: the numbers in ascending order.
Sorted(values) == SortSeq(values, <)

\* The numbers that are not left out, in their order.
Without(values, left) ==
  LET kept[i \in 0..Len(values)] ==
        IF i = 0 THEN <<>>
        ELSE IF values[i] \in left THEN kept[i - 1] ELSE Append(kept[i - 1], values[i])
  IN  kept[Len(values)]

\* Twice the median of a sorted sequence, 0 for an empty one.
TwiceMedian(s) ==
  LET mid == Len(s) \div 2
  IN  IF s = <<>> THEN 0 ELSE IF Len(s) % 2 = 0 THEN s[mid] + s[mid + 1] ELSE 2 * s[mid + 1]

\* Sum, count, median, greatest and least of a sequence of numbers; all are 0
\* for an empty one (where the mean, 0 / 0, is not a number).
Summary(values) ==
  [sum |-> SumFunction(values), count |-> Len(values), twiceMedian |-> TwiceMedian(Sorted(values)),
   max |-> IF values = <<>> THEN 0 ELSE Max(Range(values)),
   min |-> IF values = <<>> THEN 0 ELSE Min(Range(values))]

\* Mutant: the origin's 0 is counted.
HopsStatWithOrigin(hops, unreached) == Summary(Without(hops, {unreached}))

\* HopsStat::new: the origin, at 0 hops, and the nodes not reached are left out.
HopsStat(hops, unreached) == Summary(Without(hops, {0, unreached}))

\* StrandedNodeStats::new, over the stakes of the stranded nodes.
StrandedNodeStats(stranded, stakes) == Summary([i \in 1..Len(stranded) |-> stakes[stranded[i]]])

-----------------------------------------------------------------------------
\* bucket_range of Histogram::build.
BuildRange(upper, lower, buckets) ==
  IF upper = lower \/ lower + 1 = upper THEN 1 ELSE (upper - lower) \div buckets

\* bucket_range of Histogram::build_from_map.  The second half of its
\* condition, max_entry + 1 == max_entry, holds for no number.
MapRange(max, buckets) == IF max = 0 \/ max + 1 = max THEN 1 ELSE max \div buckets

\* Mutant: the greatest value is not put back.
BucketIndexUnbounded(value, lower, range, buckets) == (value - lower) \div range

\* The bucket of a value: only a value one past the last bucket is put back.
BucketIndex(value, lower, range, buckets) ==
  LET bucket == (value - lower) \div range
  IN  IF bucket = buckets THEN bucket - 1 ELSE bucket

\* A user may ask for no buckets.  The range is then a division by 0, and where
\* it is 1 for want of values, bucket 0 is taken for the one past the last and
\* put back to -1 (a build that does not check arithmetic would go on).
NoBucketPanics(upper, lower, values) ==
  upper \notin {lower, lower + 1} \/ \E i \in DOMAIN values : values[i] = lower

\* Where there are buckets, dividing by a range of 0 panics.
BuildPanics(upper, lower, buckets, values) ==
  IF buckets = 0 THEN NoBucketPanics(upper, lower, values)
  ELSE BuildRange(upper, lower, buckets) = 0 /\ \E i \in DOMAIN values : values[i] \in lower..upper

\* Histogram::build: a value out of bounds is logged and left out, and a bucket
\* that does not exist yet is made.
Build(upper, lower, buckets, values) ==
  LET kept == {i \in DOMAIN values : values[i] \in lower..upper}
      index == [i \in kept |->
                  BucketIndex(values[i], lower, BuildRange(upper, lower, buckets), buckets)]
  IN  [b \in 0..(buckets - 1) \cup Range(index) |-> Cardinality({i \in kept : index[i] = b})]

\* build_from_map panics on no buckets (where all stakes are 0 for want of a
\* place in count_per_bucket, otherwise dividing by 0), on a range of 0, and on
\* a bucket that count_per_bucket has no place for.
MapPanics(buckets, stakes) ==
  LET max == Max({stakes[n] : n \in DOMAIN stakes})
      range == MapRange(max, buckets)
  IN  IF buckets = 0 THEN TRUE
      ELSE range = 0 \/ \E n \in DOMAIN stakes : BucketIndex(stakes[n], 0, range, buckets) >= buckets

\* The nodes of each bucket in Histogram::build_from_map, by stake.
NodesPerBucket(buckets, stakes) ==
  LET range == MapRange(Max({stakes[n] : n \in DOMAIN stakes}), buckets)
  IN  [b \in 0..(buckets - 1) |->
         {n \in DOMAIN stakes : BucketIndex(stakes[n], 0, range, buckets) = b}]

\* Mutant: a bucket keeps one node's count instead of adding it up.
BuildFromMapOverwriting(buckets, counts, stakes) ==
  LET nodes == NodesPerBucket(buckets, stakes)
  IN  [b \in 0..(buckets - 1) |->
         IF nodes[b] = {} THEN 0 ELSE Max({counts[n] : n \in nodes[b]})]

\* Histogram::build_from_map: the nodes' counts, added up by bucket.
BuildFromMap(buckets, counts, stakes) ==
  LET nodes == NodesPerBucket(buckets, stakes)
  IN  [b \in 0..(buckets - 1) |-> SumFunctionOnSet(counts, nodes[b])]

\* normalize_histogram: each bucket divided by its number of nodes.
Normalize(entries, nodes) ==
  [b \in DOMAIN entries |-> IF nodes[b] = {} THEN entries[b]
                            ELSE entries[b] \div Cardinality(nodes[b])]

-----------------------------------------------------------------------------
(* What a user may ask for, in the words of the properties.                *)

\* No buckets, or more than there are values to put in them.
Misfit(upper, buckets) == upper > 1 /\ buckets \notin 1..upper

\* The same for the messages, whose buckets are of stakes: no more than the
\* square root of the greatest are sure to do.
MapMisfit(max, buckets) == buckets = 0 \/ (max > 0 /\ max < buckets * buckets)
=============================================================================
