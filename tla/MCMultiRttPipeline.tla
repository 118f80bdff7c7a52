-------------------------- MODULE MCMultiRttPipeline --------------------------
(* Constants of MultiRttPipeline for TLC.                                  *)
EXTENDS MultiRttPipeline

\* Zero or not: what calculate_stats' ZeroDivisionError depends on.
MCValuesBinary == {0, 1}
\* Unequal non-zero throughputs, for the fairness index.
MCValuesRich == {0, 1, 2, 5}
MCValuesPositive == {1}
\* No rows, a shorter second variant, more flows than the 2x2 grid.
MCFlowCountsEdges == {0, 2, 5}
MCFlowCountsSmall == {1, 2, 3}
\* The four flows of the tcp-multi-rtt-bottleneck scenario.
MCFlowCountsFour == {4}
\* The scenario's four flows, or one more than the 2x2 grid holds.
MCFlowCountsFourFive == {4, 5}
=============================================================================
