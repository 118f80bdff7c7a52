-------------------------- MODULE MCFanoutPipeline --------------------------
(* Instance of FanoutPipeline for TLC: the two variants are model values. *)
EXTENDS FanoutPipeline

\* Non-zero values only: no division by zero in print_summary.
MCValuesPositive == {1}

\* A zero throughput or delay is possible.
MCValuesWithZero == {0, 1}

=============================================================================
