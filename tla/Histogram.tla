------------------------------ MODULE Histogram ------------------------------
(***************************************************************************)
(* histogram.cc: the buckets of HistogramBucketMapper, the counters of     *)
(* HistogramStat, their percentiles and their variance.  Every worker of   *)
(* benchmark.cc adds latencies to a histogram of its own; the main thread  *)
(* merges the others into the first when the workers are done, so that no  *)
(* two threads use one histogram at a time (module BenchmarkHarness).      *)
(***************************************************************************)
EXTENDS Integers, Sequences, FiniteSetsExt, SequencesExt, Functions, Powers

CONSTANTS Owners,       \* who has a histogram
          NumBuckets,   \* 109, what fits below UINT64_MAX
          Modulus,      \* 2^64
          Values,       \* the latencies that are added
          MaxAdds       \* bound: latencies added to a histogram

ASSUME HistogramParameters == /\ NumBuckets \in Nat \ {0, 1}
                              /\ Modulus \in Nat \ {0}
                              /\ Values \subseteq 0..(Modulus - 1)
ASSUME HistogramBounds == MaxAdds \in Nat

VARIABLES hist,    \* the HistogramStat of each owner
          added,   \* history: the values in it, in order
          merged   \* those whose histogram was merged into another and deleted

vars == <<hist, added, merged>>

Buckets == 0..(NumBuckets - 1)
LastBucket == NumBuckets - 1
------------------------------------------------------------------------------
(* HistogramBucketMapper                                                   *)

(* The two most significant digits of n, three if they are 10x.            *)
TwoDigits[n \in Nat] == IF n \div 10 > 10 THEN 10 * TwoDigits[n \div 10] ELSE n

(* The limits grow by half, from the limit before it was rounded.          *)
ThreeTo == PowersOf(3, NumBuckets)
TwoTo == PowersOf(2, NumBuckets)
BucketLimit(b) == IF b < 2 THEN b + 1
                  ELSE TwoDigits[ThreeTo[b - 1] \div TwoTo[b - 2]]

(* valueIndexMap_ finds the bucket of a limit: its lower_bound of a value. *)
IndexForValueBelow(v) ==
    IF v >= BucketLimit(LastBucket) THEN LastBucket
    ELSE Max({0} \cup {b \in Buckets : BucketLimit(b) <= v})

IndexForValue(v) ==
    IF v >= BucketLimit(LastBucket) THEN LastBucket
    ELSE IF v < BucketLimit(0) THEN 0
    ELSE LET limit == Min({l \in {BucketLimit(b) : b \in Buckets} : l >= v})
         IN  Max({b \in Buckets : BucketLimit(b) = limit})
------------------------------------------------------------------------------
(* HistogramStat                                                           *)

Clear == [min |-> BucketLimit(LastBucket), max |-> 0, num |-> 0, sum |-> 0,
          sum_squares |-> 0, buckets |-> [b \in Buckets |-> 0]]

Added(h, v) ==
    [h EXCEPT !.buckets[IndexForValue(v)] = @ + 1,
              !.min = IF v < @ THEN v ELSE @,
              !.max = IF v > @ THEN v ELSE @,
              !.num = @ + 1,
              !.sum = (@ + v) % Modulus,
              !.sum_squares = (@ + v * v) % Modulus]

Merged(h, other) ==
    [min |-> IF other.min < h.min THEN other.min ELSE h.min,
     max |-> IF other.max > h.max THEN other.max ELSE h.max,
     num |-> h.num + other.num,
     sum |-> (h.sum + other.sum) % Modulus,
     sum_squares |-> (h.sum_squares + other.sum_squares) % Modulus,
     buckets |-> [b \in Buckets |-> h.buckets[b] + other.buckets[b]]]

(* How many values there are in the buckets up to b.                       *)
CumulativeSum(h, b) == SumFunctionOnSet(h.buckets, 0..b)

(* The fraction n/d, n and d in integers, put between min and max.         *)
Clamp(h, n, d) == LET low == IF n < h.min * d THEN h.min * d ELSE n
                  IN  <<IF low > h.max * d THEN h.max * d ELSE low, d>>

(* The buckets at whose end p percent of the values are passed.            *)
Reached(h, p) == {b \in Buckets : CumulativeSum(h, b) * 100 >= h.num * p}

(* The p-th percentile as a fraction: linear within the first of them.     *)
Percentile(h, p) ==
    LET b == Min(Reached(h, p))
        left == IF b = 0 THEN 0 ELSE BucketLimit(b - 1)
        left_sum == CumulativeSum(h, b) - h.buckets[b]
        d == 100 * h.buckets[b]
    IN  IF Reached(h, p) = {} THEN <<h.max, 1>>
        ELSE IF d = 0 THEN Clamp(h, left, 1)
        ELSE Clamp(h, left * d + (BucketLimit(b) - left)
                                    * (h.num * p - 100 * left_sum), d)

(* What StandardDeviation divides by num * num, computed in uint64_t.      *)
SquaredDeviation(h) == (h.sum_squares * h.num - h.sum * h.sum) % Modulus
------------------------------------------------------------------------------
Init == /\ hist = [o \in Owners |-> Clear]
        /\ added = [o \in Owners |-> <<>>]
        /\ merged = {}

Add(o) == /\ merged = {}
          /\ Len(added[o]) < MaxAdds
          /\ \E v \in Values :
                /\ hist' = [hist EXCEPT ![o] = Added(@, v)]
                /\ added' = [added EXCEPT ![o] = Append(@, v)]
          /\ UNCHANGED merged

(* A worker without an operation has no histogram.                         *)
Merge(o, other) ==
    /\ o # other
    /\ {o, other} \cap merged = {}
    /\ hist[o].num > 0
    /\ hist[other].num > 0
    /\ hist' = [hist EXCEPT ![o] = Merged(@, hist[other])]
    /\ added' = [added EXCEPT ![o] = @ \o added[other]]
    /\ merged' = merged \cup {other}

Next == \/ \E o \in Owners : Add(o)
        \/ \E o, other \in Owners : Merge(o, other)

Spec == Init /\ [][Next]_vars
------------------------------------------------------------------------------
(* The counters are unsigned and of their width.                           *)
TypeOK ==
    /\ hist \in [Owners -> [min : Nat, max : Nat, num : Nat,
                            sum : 0..(Modulus - 1),
                            sum_squares : 0..(Modulus - 1),
                            buckets : [Buckets -> Nat]]]
    /\ added \in [Owners -> Seq(Values)]
    /\ merged \subseteq Owners

(* The bucket a value belongs to: above the limit before, and, but for the *)
(* last, not above its own.                                                *)
Belongs(v, b) == /\ b = 0 \/ v > BucketLimit(b - 1)
                 /\ b = LastBucket \/ v <= BucketLimit(b)

Squares(s) == [i \in DOMAIN s |-> s[i] * s[i]]
Occurrences(s, P(_)) == Cardinality({i \in DOMAIN s : P(s[i])})

(* While num times the sum of the squares fits into 64 bits, what          *)
(* StandardDeviation takes the root of is the sum, over all pairs, of the  *)
(* squares of their differences; beyond, it is not.                        *)
DeviationExact ==
    \A o \in Owners :
        LET s == added[o]
            Pairs == {ij \in (DOMAIN s) \X (DOMAIN s) : ij[1] < ij[2]}
            Square(ij) == (s[ij[1]] - s[ij[2]]) * (s[ij[1]] - s[ij[2]])
        IN  Len(s) * SumFunction(Squares(s)) < Modulus =>
                SquaredDeviation(hist[o])
                    = SumFunction([ij \in Pairs |-> Square(ij)])

(* A histogram, filled by one thread or merged from several, says of its   *)
(* values what they are: how many, between which bounds, in which buckets. *)
CountsExact ==
    \A o \in Owners :
        LET h == hist[o]
            s == added[o]
        IN  /\ h.num = Len(s)
            /\ h.sum = SumFunction(s) % Modulus
            /\ \A b \in Buckets :
                  h.buckets[b] = Occurrences(s, LAMBDA v : Belongs(v, b))
            /\ s # <<>> =>
                  /\ h.max = Max(Range(s))
                  /\ h.min = Min(Range(s) \cup {BucketLimit(LastBucket)})

Percents == {1, 50, 75, 95, 99, 100}
AtMost(r, q) == r[1] * q[2] <= q[1] * r[2]

(* The least of the values that p percent of them do not exceed.           *)
ValueAt(s, p) ==
    Min({w \in Range(s) : Occurrences(s, LAMBDA x : x <= w) * 100 >= Len(s) * p})

(* Percentiles never decrease, and the p-th is in the bucket of the value  *)
(* that p percent of the values do not exceed (or beyond the last limit).  *)
PercentilesFaithful ==
    \A o \in Owners :
        added[o] # <<>> =>
        \A p \in Percents :
            LET h == hist[o]
                v == ValueAt(added[o], p)
                r == Percentile(h, p)
            IN  /\ \A q \in Percents : p <= q => AtMost(r, Percentile(h, q))
                /\ \E b \in Buckets :
                      /\ Belongs(v, b)
                      /\ b = 0 \/ AtMost(<<BucketLimit(b - 1), 1>>, r)
                      /\ b = LastBucket \/ AtMost(r, <<BucketLimit(b), 1>>)

(* What a histogram tells of its values: their number, extremes, sum and   *)
(* squares, and its percentiles, agree with the values themselves.         *)
StatisticsFaithful == CountsExact /\ DeviationExact /\ PercentilesFaithful
==============================================================================
