--------------------------- MODULE MultiRttPipeline ---------------------------
(***************************************************************************)
(* The pipeline of results/tcp-multi-rtt/run_and_plot.py: main() runs the *)
(* simulator for TcpLinuxReno then TcpFast with no timeout, gives up with *)
(* return 1 unless both succeeded, reads <variant>_results.csv, computes   *)
(* calculate_stats, prints the per-flow tables and the analysis, draws     *)
(* three bar charts and one 2x2 congestion-window figure per variant.      *)
(*                                                                         *)
(* The simulator is the environment, as in FanoutPipeline: on exit 0 it    *)
(* has rewritten its results file with one row per flow; on a non-zero     *)
(* exit it may have left the file as it was or rewritten a prefix of it;   *)
(* it may hang.  A file's rows are abstracted to the flows' throughputs,   *)
(* and it carries the ghost field gen ("old": found at start).             *)
(***************************************************************************)
EXTENDS Naturals, Sequences, MultiRttStats

CONSTANTS
    TcpLinuxReno,   \* variants[0]
    TcpFast,        \* variants[1]
    Values,         \* throughputs a row may hold
    FlowCounts      \* numbers of flows the simulator writes rows for

ASSUME MRVariantsAssumption == TcpLinuxReno # TcpFast
ASSUME MRValuesAssumption == Values \subseteq Nat /\ Values # {}
ASSUME MRFlowCountsAssumption == FlowCounts \subseteq Nat /\ FlowCounts # {}

variants == <<TcpLinuxReno, TcpFast>>
Variants == {TcpLinuxReno, TcpFast}

\* plt.subplots(2, 2) and the RTT list [50, 100, 150, 200] of plot_cwnd_progress.
PlotGridCells == 4

Gen == {"old", "new"}

\* Throughput columns of a complete results file, one row per flow.
FlowLists == UNION {[1..n -> Values] : n \in FlowCounts}

\* <variant>_results.csv: missing, or rows written by some invocation.
Row(g, l) == [kind |-> "rows", gen |-> g, tputs |-> l]
Absent == [kind |-> "absent"]

\* What a simulator stopped part-way may have written: a prefix of the rows.
Truncated == UNION {{SubSeq(l, 1, k) : k \in 0..Len(l)} : l \in FlowLists}

ResultsFile == {Absent} \cup {Row("old", l) : l \in FlowLists}
                 \cup {Row("new", l) : l \in Truncated}

Outcome == {"not_run", "ok", "failed"}
ChartKinds == {"throughput", "delay", "loss", "cwnd"}
Terminal == {"done", "aborted", "no_results", "crashed"}

\* The first of `variants` in S: list(all_results.keys())[0].
FirstIn(S) == IF TcpLinuxReno \in S THEN TcpLinuxReno ELSE TcpFast

VARIABLES
    pc,           \* where main() is
    i,            \* index of the variant the simulation loop is at
    hung,         \* the running simulator will never exit by itself
    outcome,      \* simulation_success, per variant
    files,        \* <variant>_results.csv on disk
    allResults,   \* all_results: variant -> flows, stats (partial function)
    numFlows,     \* num_flows, from the first loaded variant
    charts        \* <<kind, variant>>: variant drawn in a chart this run

vars == <<pc, i, hung, outcome, files, allResults, numFlows, charts>>

\* An entry of all_results: calculate_stats has returned, so its divisors
\* were not zero.
ResultRecord == [flows: Seq(Values) \ {<<>>},
                 stats: [total: Nat, n: Nat \ {0}, fairNum: Nat,
                         fairDen: Nat \ {0}],
                 gen: Gen]

TypeOK ==
    /\ pc \in {"run_loop", "running", "load", "summary", "plot", "cwnd"}
                \cup Terminal
    /\ i \in 1..3
    /\ hung \in BOOLEAN
    /\ outcome \in [Variants -> Outcome]
    /\ files \in [Variants -> ResultsFile]
    /\ DOMAIN allResults \subseteq Variants
    /\ allResults \in [DOMAIN allResults -> ResultRecord]
    /\ numFlows \in Nat
    /\ charts \subseteq ChartKinds \X Variants

\* An earlier invocation may have left a results file for each variant.
Init ==
    /\ files \in [Variants -> {Absent} \cup {Row("old", l) : l \in FlowLists}]
    /\ pc = "run_loop"
    /\ i = 1
    /\ hung = FALSE
    /\ outcome = [v \in Variants |-> "not_run"]
    /\ allResults = [v \in {} |-> {}]
    /\ numFlows = 0
    /\ charts = {}

-----------------------------------------------------------------------------
(* STEP 1: the simulation loop.                                            *)

\* subprocess.run(cmd, check=True) for variants[i]: no timeout.
RunSimulation ==
    /\ pc = "run_loop"
    /\ i <= 2
    /\ pc' = "running"
    /\ hung' \in BOOLEAN
    /\ UNCHANGED <<i, outcome, files, allResults, numFlows, charts>>

\* run_simulation returns and simulation_success[variant] is recorded.
EndRun(v, result) ==
    /\ outcome' = [outcome EXCEPT ![v] = result]
    /\ i' = i + 1
    /\ pc' = "run_loop"
    /\ UNCHANGED <<hung, allResults, numFlows, charts>>

\* Exit code 0: the simulator wrote one row per flow.
SimCompleted ==
    LET v == variants[i] IN
    /\ pc = "running"
    /\ ~hung
    /\ \E l \in FlowLists : files' = [files EXCEPT ![v] = Row("new", l)]
    /\ EndRun(v, "ok")

\* CalledProcessError: the file is as it was, or a prefix was rewritten.
SimFailed ==
    LET v == variants[i] IN
    /\ pc = "running"
    /\ ~hung
    /\ \E f \in {files[v]} \cup {Row("new", l) : l \in Truncated} :
           files' = [files EXCEPT ![v] = f]
    /\ EndRun(v, "failed")

\* ./ns3 cannot be started: the OSError is not caught and ends the script.
SimLaunchError ==
    /\ pc = "running"
    /\ ~hung
    /\ pc' = "crashed"
    /\ UNCHANGED <<i, hung, outcome, files, allResults, numFlows, charts>>

\* Mutant: main() goes on to load results whatever the simulations did.
AllSucceededIgnoringFailures ==
    /\ pc = "run_loop"
    /\ i > 2
    /\ pc' = "load"
    /\ UNCHANGED <<i, hung, outcome, files, allResults, numFlows, charts>>

\* all(simulation_success.values()): STEP 2 begins.
AllSucceeded ==
    /\ pc = "run_loop"
    /\ i > 2
    /\ \A v \in Variants : outcome[v] = "ok"
    /\ pc' = "load"
    /\ UNCHANGED <<i, hung, outcome, files, allResults, numFlows, charts>>

\* "Some simulations failed. Exiting." return 1
SomeFailed ==
    /\ pc = "run_loop"
    /\ i > 2
    /\ \E v \in Variants : outcome[v] # "ok"
    /\ pc' = "aborted"
    /\ UNCHANGED <<i, hung, outcome, files, allResults, numFlows, charts>>

-----------------------------------------------------------------------------
(* STEP 2: loading, the tables and the analysis.                           *)

\* Variants whose read_results returns a non-empty list (`if flows:`).
Readable == {v \in Variants : files[v].kind = "rows" /\ Len(files[v].tputs) > 0}

\* Mutant: statistics computed with numpy, which returns nan, not raising.
LoadResultsNoRaise ==
    /\ pc = "load"
    /\ allResults' = [v \in Readable |->
                         [flows |-> files[v].tputs,
                          stats |-> CalculateStats(files[v].tputs),
                          gen   |-> files[v].gen]]
    /\ pc' = IF Readable = {} THEN "no_results" ELSE "summary"
    /\ numFlows' = IF Readable = {} THEN 0 ELSE Len(files[FirstIn(Readable)].tputs)
    /\ UNCHANGED <<i, hung, outcome, files, charts>>

\* Mutant: the `if not all_results: return 1` check is missing.
LoadResultsNoEmptyCheck ==
    /\ pc = "load"
    /\ \/ /\ \E v \in Readable : StatsRaise(files[v].tputs)
          /\ pc' = "crashed"
          /\ UNCHANGED <<allResults, numFlows>>
       \/ /\ \A v \in Readable : ~StatsRaise(files[v].tputs)
          /\ allResults' = [v \in Readable |->
                               [flows |-> files[v].tputs,
                                stats |-> CalculateStats(files[v].tputs),
                                gen   |-> files[v].gen]]
          /\ pc' = "summary"
          /\ numFlows' = IF Readable = {} THEN 0
                         ELSE Len(files[FirstIn(Readable)].tputs)
    /\ UNCHANGED <<i, hung, outcome, files, charts>>

\* The loop of read_results and calculate_stats, the `if not all_results`
\* return 1, and num_flows taken from the first loaded variant.
LoadResults ==
    /\ pc = "load"
    /\ \/ /\ \E v \in Readable : StatsRaise(files[v].tputs)
          /\ pc' = "crashed"
          /\ UNCHANGED <<allResults, numFlows>>
       \/ /\ \A v \in Readable : ~StatsRaise(files[v].tputs)
          /\ allResults' = [v \in Readable |->
                               [flows |-> files[v].tputs,
                                stats |-> CalculateStats(files[v].tputs),
                                gen   |-> files[v].gen]]
          /\ pc' = IF Readable = {} THEN "no_results" ELSE "summary"
          /\ numFlows' = IF Readable = {} THEN 0
                         ELSE Len(files[FirstIn(Readable)].tputs)
    /\ UNCHANGED <<i, hung, outcome, files, charts>>

\* The per-flow tables index flows 0..num_flows-1 of every loaded variant;
\* the analysis (best fairness, best throughput, the guarded RTT bias)
\* cannot raise on a non-empty list.
PrintSummary ==
    /\ pc = "summary"
    /\ \/ /\ \E v \in DOMAIN allResults : Len(allResults[v].flows) < numFlows
          /\ pc' = "crashed"
       \/ /\ \A v \in DOMAIN allResults : Len(allResults[v].flows) >= numFlows
          /\ pc' = "plot"
    /\ UNCHANGED <<i, hung, outcome, files, allResults, numFlows, charts>>

-----------------------------------------------------------------------------
(* STEP 3: the plots.                                                      *)

\* plot_throughput_comparison, plot_delay_comparison, plot_loss_comparison:
\* num_flows bars per variant, which PrintSummary has shown to exist.
GenerateComparisonPlots ==
    /\ pc = "plot"
    /\ charts' = charts \cup ({"throughput", "delay", "loss"} \X DOMAIN allResults)
    /\ pc' = "cwnd"
    /\ UNCHANGED <<i, hung, outcome, files, allResults, numFlows>>

\* plot_cwnd_progress(variant, num_flows) for each loaded variant: flow_id
\* indexes the four axes, whether or not its cwnd trace has data.
PlotCwndProgress ==
    /\ pc = "cwnd"
    /\ \/ /\ numFlows > PlotGridCells
          /\ pc' = "crashed"
          /\ UNCHANGED charts
       \/ /\ numFlows <= PlotGridCells
          /\ charts' = charts \cup ({"cwnd"} \X DOMAIN allResults)
          /\ pc' = "done"
    /\ UNCHANGED <<i, hung, outcome, files, allResults, numFlows>>

\* sys.exit(main()): return 0, return 1, or a traceback.
ExitCode == IF pc = "done" THEN 0 ELSE 1

Next ==
    \/ RunSimulation
    \/ SimCompleted
    \/ SimFailed
    \/ SimLaunchError
    \/ AllSucceeded
    \/ SomeFailed
    \/ LoadResults
    \/ PrintSummary
    \/ GenerateComparisonPlots
    \/ PlotCwndProgress

\* main() is one sequential process.
Spec == Init /\ [][Next]_vars /\ WF_vars(Next)

-----------------------------------------------------------------------------
(* The phase of spec 4.5 main() is in.  return 1 after a failed simulation *)
(* and a crash leave the driver in the phase it stopped in.                *)
PhaseOf ==
    CASE pc = "run_loop"             -> IF i = 1 THEN "Idle" ELSE "Running"
      [] pc \in {"running", "aborted"} -> "Running"
      [] pc = "load"                 -> "Collecting"
      [] pc = "summary"              -> "Analyzing"
      [] pc \in {"plot", "cwnd"}     -> "Rendering"
      [] pc = "done"                 -> "Done"
      [] pc = "no_results"           -> "PartialDone"
      [] pc = "crashed"              ->
            IF i <= 2 THEN "Running"
            ELSE IF DOMAIN allResults = {} THEN "Collecting"
            ELSE IF charts = {} THEN "Analyzing"
            ELSE "Rendering"

Abstract == INSTANCE PipelinePhases
                WITH Configs <- variants, phase <- PhaseOf,
                     attempted <- i - 1, loaded <- DOMAIN allResults

-----------------------------------------------------------------------------
(* Properties.                                                             *)

\* The simulation of v succeeded in this invocation and left rows to load.
Usable(v) ==
    /\ outcome[v] = "ok"
    /\ files[v].kind = "rows"
    /\ Len(files[v].tputs) > 0

(***************************************************************************)
(* The all(simulation_success.values()) check of main() keeps stale data   *)
(* out of the analysis: every variant in all_results was simulated         *)
(* successfully by this invocation and its flows are the rows that         *)
(* simulation wrote, not a file left by an earlier run or a prefix written *)
(* by a failed one.                                                        *)
(***************************************************************************)
ResultsFresh ==
    \A v \in DOMAIN allResults :
        /\ outcome[v] = "ok"
        /\ allResults[v].gen = "new"

AllEqual(t) == \A a, b \in DOMAIN t : t[a] = t[b]

(***************************************************************************)
(* Spec 3 and 8: the Jain index calculate_stats stores for a variant lies  *)
(* in (0, 1], and is 1 exactly when all its flows have equal throughput.   *)
(***************************************************************************)
FairnessIndexBounds ==
    \A v \in DOMAIN allResults :
        LET s == allResults[v].stats IN
        /\ 0 < s.fairNum
        /\ s.fairNum <= s.fairDen
        /\ (s.fairNum = s.fairDen) <=> AllEqual(allResults[v].flows)

(***************************************************************************)
(* main() implements the driver state machine of spec 4.5: it loads only   *)
(* after both variants were attempted in order, analyses only with a       *)
(* loaded variant and plots only after the analysis.                       *)
(***************************************************************************)
ImplementsPhases == Abstract!PSpec

(***************************************************************************)
(* Spec 4.1 and 5: every simulator run is bounded by a timeout, so main()  *)
(* ends.  run_simulation calls subprocess.run without one.                 *)
(***************************************************************************)
Termination == <>(pc \in Terminal)

(***************************************************************************)
(* Spec 7: an orchestration failure is never fatal to the batch; the exit  *)
(* code is non-zero only when no configuration has usable results.         *)
(* main() returns 1 as soon as one simulation failed, and the OSError of a *)
(* simulator that cannot be launched is not caught.                        *)
(***************************************************************************)
ExitNonZeroOnlyWithoutResults ==
    pc \in Terminal /\ ExitCode # 0 => \A v \in Variants : ~Usable(v)

(***************************************************************************)
(* Spec 7: when every simulation succeeded and left results, the analysis  *)
(* and the plots do not abort: calculate_stats, the per-flow tables and    *)
(* plot_cwnd_progress must not raise on data the simulator can write.      *)
(***************************************************************************)
AllSucceededExitsZero ==
    /\ pc \in Terminal
    /\ \A v \in Variants : outcome[v] = "ok"
    /\ \E v \in Variants : Usable(v)
    => ExitCode = 0

=============================================================================
