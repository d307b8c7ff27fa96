-------------------------------- MODULE Stats --------------------------------
(***************************************************************************)
(* compute_stats of src/src/format.hpp on whole numbers: the mean and the  *)
(* variance drop the fraction a double would keep.                         *)
(***************************************************************************)
EXTENDS Integers, Sequences, SequencesExt, FiniteSetsExt

Sum(values) == FoldLeft(LAMBDA a, b : a + b, 0, values)

Mean(values) == Sum(values) \div Len(values)

\* The sum of squared deviations over n - 1.  n * v - Sum is n times the
\* deviation, so that no fraction is lost before the division.
Variance(values) ==
    LET n == Len(values)
        Squares == [i \in 1..n |->
                       (n * values[i] - Sum(values)) * (n * values[i] - Sum(values))]
    IN  Sum(Squares) \div (n * n * (n - 1))

\* Twelve steps of Newton's method for the square root of x, from x itself.
Newton(x) ==
    LET r[i \in 0..12] ==
            IF i = 0 THEN x ELSE (r[i - 1] + x \div r[i - 1]) \div 2
    IN  r[12]

Stddev(values) ==
    IF Len(values) > 1 /\ Variance(values) > 0 THEN Newton(Variance(values))
    ELSE 0

\* Mutation of ComputeStats: the minimum starts from 0.
ComputeStatsFromZero(values) ==
    [mean |-> Mean(values), stddev |-> Stddev(values),
     mn |-> Min(ToSet(values) \cup {0}), mx |-> Max(ToSet(values))]

ComputeStats(values) ==
    [mean |-> Mean(values), stddev |-> Stddev(values),
     mn |-> Min(ToSet(values)), mx |-> Max(ToSet(values))]
=============================================================================
