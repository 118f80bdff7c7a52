---------------------------- MODULE MultiRttStats ----------------------------
(***************************************************************************)
(* calculate_stats of results/tcp-multi-rtt/run_and_plot.py over the list *)
(* of per-flow throughputs of one variant.  Throughputs are naturals; a    *)
(* quotient is kept as its numerator and denominator, so that the Jain     *)
(* index total^2 / (n * sum_squared) is exact and a zero denominator, the  *)
(* ZeroDivisionError of the code, is visible.  Only the statistics main()  *)
(* uses for control or shows in the analysis are kept; min, max and        *)
(* avg_loss are printed only.                                              *)
(***************************************************************************)
EXTENDS Naturals, Sequences

\* sum(xs) of a Python list, as a recursive function over the prefixes.
ListSum(t) ==
    LET s[k \in 0..Len(t)] == IF k = 0 THEN 0 ELSE s[k - 1] + t[k]
    IN  s[Len(t)]

\* [x * x for x in xs]
Squares(t) == [k \in DOMAIN t |-> t[k] * t[k]]

\* total / len(throughputs) and (total * total) / (len * sum_squared)
\* raise ZeroDivisionError: an empty list, or throughputs that are all 0.
StatsRaise(t) == Len(t) = 0 \/ ListSum(Squares(t)) = 0

\* Mutant: the fairness denominator counts one flow too few.
CalculateStatsOffByOne(t) ==
    [total   |-> ListSum(t),
     n       |-> Len(t),
     fairNum |-> ListSum(t) * ListSum(t),
     fairDen |-> (Len(t) - 1) * ListSum(Squares(t))]

\* The dict calculate_stats returns, for a list on which it does not raise.
CalculateStats(t) ==
    [total   |-> ListSum(t),
     n       |-> Len(t),
     fairNum |-> ListSum(t) * ListSum(t),
     fairDen |-> Len(t) * ListSum(Squares(t))]

=============================================================================
