--------------------------- MODULE FanoutPipeline ---------------------------
(***************************************************************************)
(* The experiment pipeline of results/og-sim-2/run_and_plot.py: main()     *)
(* runs the simulator once per TCP variant with a timeout, loads the       *)
(* aggregate and per-flow CSV files each run leaves behind, prints the     *)
(* summary with the FAST-vs-LinuxReno comparison and renders the charts.   *)
(*                                                                         *)
(* The simulator is the environment: on exit 0 it has rewritten both of    *)
(* its variant's result files; when it fails it may have rewritten any   *)
(* of them, completely or truncated; and it may hang.  The timeout kills   *)
(* only ./ns3, the child subprocess.run started, so the simulator under a  *)
(* timed-out ./ns3 may live on and keep writing its variant's files.      *)
(* Files are on disk before the script starts (an earlier                  *)
(* invocation's output), so a file carries the ghost field gen: "old"      *)
(* for a file found at start, "new" for one written by this invocation.    *)
(* Data is abstracted to what the control depends on: a value is zero or   *)
(* not, a per-flow file has a number of rows or fails to parse.            *)
(***************************************************************************)
EXTENDS Naturals, Sequences

CONSTANTS
    LinuxReno,   \* TCP_VARIANTS[0], the baseline of the comparison
    Fast,        \* TCP_VARIANTS[1]
    Values,      \* throughput and delay values a result row may hold
    MaxFlows     \* most rows a per-flow file holds in the model

ASSUME VariantsAssumption == LinuxReno # Fast
ASSUME ValuesAssumption == Values \subseteq Nat /\ Values # {}
ASSUME MaxFlowsAssumption == MaxFlows \in Nat

TCP_VARIANTS == <<LinuxReno, Fast>>
Variants == {LinuxReno, Fast}
NumVariants == 2

\* generate_perflow_comparison_plots indexes flows [0, 1, 2] of every variant.
PlottedFlows == 3

Gen == {"old", "new"}

(***************************************************************************)
(* Contents of <variant>_fanout.csv.  parse_csv keeps the first data row;  *)
(* a missing column, a non-numeric cell or a file with no data row all     *)
(* raise inside its try and come out as None, so they are one kind here.   *)
(***************************************************************************)
AggRow(g) == [kind: {"row"}, gen: {g}, tput: Values, delay: Values]
AggWritten == AggRow("new") \cup [kind: {"unparsable"}, gen: {"new"}]
AggFile == [kind: {"absent"}] \cup [kind: {"unparsable"}, gen: Gen]
             \cup AggRow("old") \cup AggRow("new")

(***************************************************************************)
(* Contents of <variant>_perflow.csv: a number of well-formed rows, or a   *)
(* row parse_perflow_csv cannot convert (which discards the whole file).   *)
(***************************************************************************)
PerflowRows(g) == [kind: {"rows"}, gen: {g}, rows: 0..MaxFlows]
PerflowWritten == PerflowRows("new") \cup [kind: {"unparsable"}, gen: {"new"}]
PerflowFile == [kind: {"absent"}] \cup [kind: {"unparsable"}, gen: Gen]
                 \cup PerflowRows("old") \cup PerflowRows("new")

\* What an earlier invocation can have left on disk.
LeftOver(S) == {f \in S : f.kind = "absent" \/ f.gen = "old"}

\* The dicts the loading loops build; gen is the ghost provenance.
AggRecord == [tput: Values, delay: Values, gen: Gen]
PerflowRecord == [rows: 1..MaxFlows, gen: Gen]

Outcome == {"not_run", "ok", "failed", "timeout"}
ChartKinds == {"aggregate", "throughput_flows", "delay_flows", "cwnd"}

Terminal == {"done", "no_results", "crashed"}

VARIABLES
    pc,             \* where main() is
    i,              \* index of the variant the simulation loop is at
    hung,           \* the running simulator will never exit by itself
    outcome,        \* what run_simulation returned, per variant
    files,          \* the result files on disk, per variant
    results,        \* the dict of parsed aggregate rows (a partial function)
    perflowData,    \* the dict of parsed per-flow lists (a partial function)
    charts,         \* <<kind, variant>>: variant drawn in a chart this run
    skipSim,        \* --skip-sim
    hasMatplotlib   \* HAS_MATPLOTLIB

vars == <<pc, i, hung, outcome, files, results, perflowData, charts,
          skipSim, hasMatplotlib>>

TypeOK ==
    /\ pc \in {"run_loop", "running", "load_agg", "load_perflow", "summary",
               "plot_agg", "plot_perflow", "plot_cwnd"} \cup Terminal
    /\ i \in 1..NumVariants + 1
    /\ hung \in BOOLEAN
    /\ outcome \in [Variants -> Outcome]
    /\ files \in [Variants -> [agg: AggFile, perflow: PerflowFile]]
    /\ DOMAIN results \subseteq Variants
    /\ results \in [DOMAIN results -> AggRecord]
    /\ DOMAIN perflowData \subseteq Variants
    /\ perflowData \in [DOMAIN perflowData -> PerflowRecord]
    /\ charts \subseteq ChartKinds \X Variants
    /\ skipSim \in BOOLEAN
    /\ hasMatplotlib \in BOOLEAN

\* Module start-up and the argument parsing of main().
Init ==
    /\ skipSim \in BOOLEAN
    /\ hasMatplotlib \in BOOLEAN
    /\ files \in [Variants -> [agg: LeftOver(AggFile),
                               perflow: LeftOver(PerflowFile)]]
    /\ pc = IF skipSim THEN "load_agg" ELSE "run_loop"
    /\ i = 1
    /\ hung = FALSE
    /\ outcome = [v \in Variants |-> "not_run"]
    /\ results = [v \in {} |-> {}]
    /\ perflowData = [v \in {} |-> {}]
    /\ charts = {}

-----------------------------------------------------------------------------
(* STEP 1: one iteration of the simulation loop is run_simulation(v).      *)

\* subprocess.run starts ./ns3 for TCP_VARIANTS[i] and blocks.
RunSimulation ==
    /\ pc = "run_loop"
    /\ i <= NumVariants
    /\ pc' = "running"
    /\ hung' \in BOOLEAN
    /\ UNCHANGED <<i, outcome, files, results, perflowData, charts,
                   skipSim, hasMatplotlib>>

\* The loop is over: STEP 2 begins.
RunsFinished ==
    /\ pc = "run_loop"
    /\ i > NumVariants
    /\ pc' = "load_agg"
    /\ UNCHANGED <<i, hung, outcome, files, results, perflowData, charts,
                   skipSim, hasMatplotlib>>

\* A simulator that exited has rewritten both files of its variant.
CompleteWrite(v) ==
    \E agg \in AggRow("new"), pf \in PerflowRows("new") :
        files' = [files EXCEPT ![v] = [agg |-> agg, perflow |-> pf]]

\* One that failed, or timed out, may have rewritten any of them by then.
PartialWrite(v) ==
    \E agg \in {files[v].agg} \cup AggWritten,
       pf \in {files[v].perflow} \cup PerflowWritten :
        files' = [files EXCEPT ![v] = [agg |-> agg, perflow |-> pf]]

\* run_simulation returns (True or False) and the loop moves on.
EndRun(v, result) ==
    /\ outcome' = [outcome EXCEPT ![v] = result]
    /\ i' = i + 1
    /\ pc' = "run_loop"
    /\ UNCHANGED <<hung, results, perflowData, charts, skipSim, hasMatplotlib>>

\* Mutant: the loop gives up on the first failure, as tcp-multi-rtt does.
SimFailedAbortsBatch ==
    LET v == TCP_VARIANTS[i] IN
    /\ pc = "running"
    /\ ~hung
    /\ PartialWrite(v)
    /\ outcome' = [outcome EXCEPT ![v] = "failed"]
    /\ i' = NumVariants + 1
    /\ pc' = "run_loop"
    /\ UNCHANGED <<hung, results, perflowData, charts, skipSim, hasMatplotlib>>

\* Mutant: subprocess.run called without timeout=.
SimTimedOutNever == FALSE

\* Exit code 0: "completed successfully", return True.
SimCompleted ==
    LET v == TCP_VARIANTS[i] IN
    /\ pc = "running"
    /\ ~hung
    /\ CompleteWrite(v)
    /\ EndRun(v, "ok")

\* CalledProcessError or another exception: return False.
SimFailed ==
    LET v == TCP_VARIANTS[i] IN
    /\ pc = "running"
    /\ ~hung
    /\ PartialWrite(v)
    /\ EndRun(v, "failed")

\* timeout=300 expires: ./ns3 is killed, TimeoutExpired, return False.
SimTimedOut ==
    LET v == TCP_VARIANTS[i] IN
    /\ pc = "running"
    /\ PartialWrite(v)
    /\ EndRun(v, "timeout")

(***************************************************************************)
(* The simulator of a timed-out variant, orphaned by the kill of ./ns3,    *)
(* writes to that variant's files while main() goes on: while the next    *)
(* variant runs, before and between the two loading loops.  It may finish *)
(* its files or stop at any point, or never write again.  Once the        *)
(* per-flow loop is over, main() reads none of these files again; what    *)
(* the orphan writes from then on is what the next invocation finds on    *)
(* disk, which Init already leaves open.                                   *)
(***************************************************************************)
FilesStillRead == {"run_loop", "running", "load_agg", "load_perflow"}

OrphanWrites ==
    /\ pc \in FilesStillRead
    /\ \E v \in Variants : outcome[v] = "timeout" /\ PartialWrite(v)
    /\ UNCHANGED <<pc, i, hung, outcome, results, perflowData, charts,
                   skipSim, hasMatplotlib>>

-----------------------------------------------------------------------------
(* STEP 2: loading results, whatever the simulations returned.             *)

ParseCsv(f) == [tput |-> f.tput, delay |-> f.delay, gen |-> f.gen]

\* os.path.exists, then parse_csv; a None is left out of the dict.
LoadAggregate ==
    LET loaded == {v \in Variants : files[v].agg.kind = "row"} IN
    /\ pc = "load_agg"
    /\ results' = [v \in loaded |-> ParseCsv(files[v].agg)]
    /\ pc' = "load_perflow"
    /\ UNCHANGED <<i, hung, outcome, files, perflowData, charts,
                   skipSim, hasMatplotlib>>

\* Mutant: "if flows is not None:" instead of "if flows:".
LoadPerflowKeepsEmpty ==
    LET loaded == {v \in Variants : files[v].perflow.kind = "rows"} IN
    /\ pc = "load_perflow"
    /\ perflowData' = [v \in loaded |-> [rows |-> files[v].perflow.rows,
                                          gen |-> files[v].perflow.gen]]
    /\ pc' = IF DOMAIN results = {} THEN "no_results" ELSE "summary"
    /\ UNCHANGED <<i, hung, outcome, files, results, charts,
                   skipSim, hasMatplotlib>>

\* Mutant: the `if not results` return is missing.
LoadPerflowNoResultsCheck ==
    LET loaded == {v \in Variants : /\ files[v].perflow.kind = "rows"
                                     /\ files[v].perflow.rows > 0}
    IN
    /\ pc = "load_perflow"
    /\ perflowData' = [v \in loaded |-> [rows |-> files[v].perflow.rows,
                                          gen |-> files[v].perflow.gen]]
    /\ pc' = "summary"
    /\ UNCHANGED <<i, hung, outcome, files, results, charts,
                   skipSim, hasMatplotlib>>

\* parse_perflow_csv; "if flows:" leaves out None and the empty list.  Then
\* "if not results: return".
LoadPerflow ==
    LET loaded == {v \in Variants : /\ files[v].perflow.kind = "rows"
                                     /\ files[v].perflow.rows > 0}
    IN
    /\ pc = "load_perflow"
    /\ perflowData' = [v \in loaded |-> [rows |-> files[v].perflow.rows,
                                          gen |-> files[v].perflow.gen]]
    /\ pc' = IF DOMAIN results = {} THEN "no_results" ELSE "summary"
    /\ UNCHANGED <<i, hung, outcome, files, results, charts,
                   skipSim, hasMatplotlib>>

-----------------------------------------------------------------------------
(* print_summary and STEP 3.                                               *)

\* With both variants loaded the comparison divides by the baseline's total
\* throughput and average delay: a zero raises ZeroDivisionError.
PrintSummary ==
    LET compared == Variants \subseteq DOMAIN results
        divByZero == compared /\ (results[LinuxReno].tput = 0
                                  \/ results[LinuxReno].delay = 0)
    IN
    /\ pc = "summary"
    /\ pc' = CASE divByZero -> "crashed"
               [] hasMatplotlib -> "plot_agg"
               [] OTHER -> "done"
    /\ UNCHANGED <<i, hung, outcome, files, results, perflowData, charts,
                   skipSim, hasMatplotlib>>

\* One bar per variant of TCP_VARIANTS that is in results.
GenerateAggregatePlots ==
    /\ pc = "plot_agg"
    /\ charts' = charts \cup ({"aggregate"} \X DOMAIN results)
    /\ pc' = "plot_perflow"
    /\ UNCHANGED <<i, hung, outcome, files, results, perflowData,
                   skipSim, hasMatplotlib>>

\* "if perflow_data:" in main; then flows 0, 1, 2 of every variant in
\* perflow_data: fewer rows raise IndexError before a chart is saved.
GeneratePerflowPlots ==
    /\ pc = "plot_perflow"
    /\ \/ /\ DOMAIN perflowData = {}
          /\ pc' = "plot_cwnd"
          /\ UNCHANGED charts
       \/ /\ \E v \in DOMAIN perflowData : perflowData[v].rows < PlottedFlows
          /\ pc' = "crashed"
          /\ UNCHANGED charts
       \/ /\ DOMAIN perflowData # {}
          /\ \A v \in DOMAIN perflowData : perflowData[v].rows >= PlottedFlows
          /\ charts' = charts \cup ({"throughput_flows", "delay_flows"}
                                      \X DOMAIN perflowData)
          /\ pc' = "plot_cwnd"
    /\ UNCHANGED <<i, hung, outcome, files, results, perflowData,
                   skipSim, hasMatplotlib>>

\* generate_cwnd_plots(list(results.keys())): one image per variant; a
\* missing or unreadable cwnd file is a warning inside its try.
GenerateCwndPlots ==
    /\ pc = "plot_cwnd"
    /\ charts' = charts \cup ({"cwnd"} \X DOMAIN results)
    /\ pc' = "done"
    /\ UNCHANGED <<i, hung, outcome, files, results, perflowData,
                   skipSim, hasMatplotlib>>

\* main() returns None on every path, so only an uncaught exception makes
\* the interpreter exit non-zero.
ExitStatus == IF pc = "crashed" THEN 1 ELSE 0

\* The steps of main() itself.
ScriptStep ==
    \/ RunSimulation
    \/ RunsFinished
    \/ SimCompleted
    \/ SimFailed
    \/ SimTimedOut
    \/ LoadAggregate
    \/ LoadPerflow
    \/ PrintSummary
    \/ GenerateAggregatePlots
    \/ GeneratePerflowPlots
    \/ GenerateCwndPlots

Next == ScriptStep \/ OrphanWrites

\* The script is one sequential process: it keeps taking steps while it can.
\* An orphaned simulator need not write at all, so it gets no fairness.
Spec == Init /\ [][Next]_vars /\ WF_vars(ScriptStep)

-----------------------------------------------------------------------------
(* The phase of spec 4.5 main() is in.  A crash leaves the driver in the   *)
(* phase it crashed in: print_summary raises before any chart is drawn,    *)
(* the per-flow plots after the aggregate chart.                           *)
PhaseOf ==
    CASE pc = "run_loop"                          -> IF i = 1 THEN "Idle" ELSE "Running"
      [] pc = "running"                           -> "Running"
      [] pc = "load_agg"                          -> IF skipSim THEN "Idle" ELSE "Collecting"
      [] pc = "load_perflow"                      -> "Collecting"
      [] pc = "summary"                           -> "Analyzing"
      [] pc \in {"plot_agg", "plot_perflow", "plot_cwnd"} -> "Rendering"
      [] pc = "done"                              -> "Done"
      [] pc = "no_results"                        -> "PartialDone"
      [] pc = "crashed"                           -> IF charts = {} THEN "Analyzing"
                                                     ELSE "Rendering"

Abstract == INSTANCE PipelinePhases
                WITH Configs <- TCP_VARIANTS, phase <- PhaseOf,
                     attempted <- i - 1, loaded <- DOMAIN results

-----------------------------------------------------------------------------
(* Properties.                                                             *)

\* v is in the summary with the rows its simulator wrote in this invocation,
\* and in every chart the run drew.
FreshlyReported(v) ==
    /\ v \in DOMAIN results
    /\ results[v].gen = "new"
    /\ v \in DOMAIN perflowData => perflowData[v].gen = "new"
    /\ hasMatplotlib =>
         /\ {<<"aggregate", v>>, <<"cwnd", v>>} \subseteq charts
         /\ v \in DOMAIN perflowData => <<"throughput_flows", v>> \in charts

(***************************************************************************)
(* A failed or timed-out simulation does not abort the batch (the main()   *)
(* loop and run_simulation's except branches): when main() completes      *)
(* after running the simulations, every variant was attempted, and every   *)
(* variant whose simulation succeeded is reported from the files of this   *)
(* run, in the summary and in every chart drawn.                           *)
(***************************************************************************)
BatchSurvivesFailures ==
    pc = "done" /\ ~skipSim =>
        \A v \in Variants : /\ outcome[v] # "not_run"
                            /\ outcome[v] = "ok" => FreshlyReported(v)

(***************************************************************************)
(* main() always ends, normally or with a traceback: the timeout of        *)
(* run_simulation ends the wait for a simulator that never exits by itself *)
(* (though not the simulator itself).                                      *)
(***************************************************************************)
Termination == <>(pc \in Terminal)

(***************************************************************************)
(* Spec 4.1: a configuration whose run failed or timed out is unavailable  *)
(* downstream and absent from the comparison.  main() loads every file     *)
(* that exists whatever run_simulation returned.                           *)
(***************************************************************************)
FailedRunExcluded ==
    \A v \in DOMAIN results : outcome[v] \in {"ok", "not_run"}

(***************************************************************************)
(* Spec 7: the only process-fatal condition is that no configuration       *)
(* produced usable aggregate data; print_summary and the per-flow plots    *)
(* must not abort a run that has results.                                  *)
(***************************************************************************)
OnlyNoResultsIsFatal == pc = "crashed" => DOMAIN results = {}

(***************************************************************************)
(* Spec 6: the exit code is non-zero when no configuration produced usable *)
(* results.  main() prints "No results found!" and returns None.           *)
(***************************************************************************)
NoResultsExitsNonZero == pc = "no_results" => ExitStatus # 0

(***************************************************************************)
(* main() implements the driver state machine of spec 4.5: it collects     *)
(* only after every variant was attempted in order (or with --skip-sim),   *)
(* analyses only with a loaded variant, and renders only after analysing.  *)
(***************************************************************************)
ImplementsPhases == Abstract!PSpec

=============================================================================
