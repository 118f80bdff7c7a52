-------------------------- MODULE FanoutPhasesProofs --------------------------
(***************************************************************************)
(* main() of og-sim-2 implements the pipeline driver of spec 4.5: every    *)
(* step of FanoutPipeline maps, under PhaseOf, i - 1 and DOMAIN results,   *)
(* to a step of PipelinePhases or to a stutter.                            *)
(***************************************************************************)
EXTENDS FanoutPipelineProofs

(***************************************************************************)
(* What the mapping needs beyond the type invariant:                       *)
(*   SimOnlyWithoutSkip: the simulation loop runs only without --skip-sim, *)
(*     so a run_loop or running state is never the Idle of a skipped run;  *)
(*   NoChartsBeforePlot: nothing is drawn before STEP 3, so a crash in     *)
(*     print_summary stays in Analyzing;                                   *)
(*   ResultsWhileAnalyzing: the summary and the plots are reached only     *)
(*     with results (the `if not results: return`);                        *)
(*   AggregateDrawnFirst: the per-flow plots come after the aggregate      *)
(*     chart, so a crash in them is one in Rendering.                      *)
(***************************************************************************)
BeforePlots == {"run_loop", "running", "load_agg", "load_perflow", "summary"}

NoChartsBeforePlot == pc \in BeforePlots => charts = {}

ResultsWhileAnalyzing == pc \in {"summary"} \cup Plotting => DOMAIN results # {}

AggregateDrawnFirst == pc \in {"plot_perflow", "plot_cwnd"} => charts # {}

RefInv ==
    /\ TypeInv
    /\ SimOnlyWithoutSkip
    /\ NoChartsBeforePlot
    /\ ResultsWhileAnalyzing
    /\ AggregateDrawnFirst

LEMMA InitRefInv == Init => RefInv
<1> SUFFICES ASSUME Init PROVE RefInv
  OBVIOUS
<1>1. TypeInv
  BY InitTypeInv
<1>2. QED
  BY <1>1 DEF Init, RefInv, SimOnlyWithoutSkip, NoChartsBeforePlot,
              ResultsWhileAnalyzing, AggregateDrawnFirst, BeforePlots, Plotting

LEMMA NextRefInv == RefInv /\ [Next]_vars => RefInv'
<1> SUFFICES ASSUME RefInv, [Next]_vars PROVE RefInv'
  OBVIOUS
<1>0. TypeInv'
  BY NextTypeInv DEF RefInv
<1> USE DEF RefInv, SimOnlyWithoutSkip, NoChartsBeforePlot,
            ResultsWhileAnalyzing, AggregateDrawnFirst, BeforePlots, Plotting
<1>1. CASE RunSimulation \/ RunsFinished
  BY <1>0, <1>1 DEF RunSimulation, RunsFinished
<1>2. CASE SimCompleted \/ SimFailed \/ SimTimedOut
  BY <1>0, <1>2 DEF SimCompleted, SimFailed, SimTimedOut, EndRun
<1>3. CASE LoadAggregate \/ LoadPerflow
  BY <1>0, <1>3 DEF LoadAggregate, LoadPerflow
<1>4. CASE PrintSummary
  BY <1>0, <1>4 DEF PrintSummary
<1>5. CASE GenerateAggregatePlots
  \* The chart drawn holds the variants of a non-empty results.
  <2>1. charts' # {}
    <3>1. PICK v \in DOMAIN results : TRUE
      BY <1>5 DEF GenerateAggregatePlots
    <3>2. <<"aggregate", v>> \in charts'
      BY <1>5, <3>1 DEF GenerateAggregatePlots
    <3>3. QED
      BY <3>2
  <2>2. QED
    BY <1>0, <1>5, <2>1 DEF GenerateAggregatePlots
<1>6. CASE GeneratePerflowPlots \/ GenerateCwndPlots
  BY <1>0, <1>6 DEF GeneratePerflowPlots, GenerateCwndPlots
<1>7. CASE UNCHANGED vars
  BY <1>0, <1>7 DEF vars
<1>8. CASE OrphanWrites
  BY <1>0, <1>8 DEF OrphanWrites
<1>9. QED
  BY <1>1, <1>2, <1>3, <1>4, <1>5, <1>6, <1>7, <1>8 DEF Next, ScriptStep

-----------------------------------------------------------------------------
(* The phase of each point of main().                                      *)

LEMMA PhaseOfPc ==
    /\ pc = "run_loop" /\ i = 1 => PhaseOf = "Idle"
    /\ pc = "run_loop" /\ i # 1 => PhaseOf = "Running"
    /\ pc = "running" => PhaseOf = "Running"
    /\ pc = "load_agg" /\ skipSim => PhaseOf = "Idle"
    /\ pc = "load_agg" /\ ~skipSim => PhaseOf = "Collecting"
    /\ pc = "load_perflow" => PhaseOf = "Collecting"
    /\ pc = "summary" => PhaseOf = "Analyzing"
    /\ pc \in Plotting => PhaseOf = "Rendering"
    /\ pc = "done" => PhaseOf = "Done"
    /\ pc = "no_results" => PhaseOf = "PartialDone"
    /\ pc = "crashed" /\ charts = {} => PhaseOf = "Analyzing"
    /\ pc = "crashed" /\ charts # {} => PhaseOf = "Rendering"
BY DEF PhaseOf, Plotting

\* The same, one step later.
LEMMA PhaseOfPcNext ==
    /\ pc' = "run_loop" /\ i' = 1 => PhaseOf' = "Idle"
    /\ pc' = "run_loop" /\ i' # 1 => PhaseOf' = "Running"
    /\ pc' = "running" => PhaseOf' = "Running"
    /\ pc' = "load_agg" /\ skipSim' => PhaseOf' = "Idle"
    /\ pc' = "load_agg" /\ ~skipSim' => PhaseOf' = "Collecting"
    /\ pc' = "load_perflow" => PhaseOf' = "Collecting"
    /\ pc' = "summary" => PhaseOf' = "Analyzing"
    /\ pc' \in Plotting => PhaseOf' = "Rendering"
    /\ pc' = "done" => PhaseOf' = "Done"
    /\ pc' = "no_results" => PhaseOf' = "PartialDone"
    /\ pc' = "crashed" /\ charts' = {} => PhaseOf' = "Analyzing"
    /\ pc' = "crashed" /\ charts' # {} => PhaseOf' = "Rendering"
BY DEF PhaseOf, Plotting

LEMMA ConfigsAreVariants ==
    /\ Len(TCP_VARIANTS) = NumVariants
    /\ {TCP_VARIANTS[j] : j \in DOMAIN TCP_VARIANTS} = Variants
BY DEF TCP_VARIANTS, NumVariants, Variants

LEMMA InitPhases == Init => Abstract!PInit
<1> SUFFICES ASSUME Init PROVE Abstract!PInit
  OBVIOUS
<1>1. PhaseOf = "Idle"
  BY PhaseOfPc DEF Init
<1>2. QED
  BY <1>1 DEF Init, Abstract!PInit

(***************************************************************************)
(* One step of main() is one step of the driver or leaves its phase, its   *)
(* count of attempted configurations and its loaded set as they were.      *)
(***************************************************************************)
LEMMA NextPhases == RefInv /\ [Next]_vars => [Abstract!PNext]_Abstract!pvars
<1> SUFFICES ASSUME RefInv, [Next]_vars
             PROVE  [Abstract!PNext]_Abstract!pvars
  OBVIOUS
<1>0. RefInv'
  BY NextRefInv
<1> DEFINE Stutter == /\ PhaseOf' = PhaseOf
                      /\ i' - 1 = i - 1
                      /\ DOMAIN results' = DOMAIN results
<1>s. Stutter => [Abstract!PNext]_Abstract!pvars
  BY DEF Abstract!pvars
<1> USE ConfigsAreVariants
<1>1. CASE RunSimulation
  <2>1. CASE i = 1
    <3>1. PhaseOf = "Idle" /\ PhaseOf' = "Running"
      BY <1>1, <2>1, PhaseOfPc, PhaseOfPcNext DEF RunSimulation
    <3>2. Abstract!Start
      BY <1>1, <3>1 DEF RunSimulation, Abstract!Start
    <3>3. QED
      BY <3>2 DEF Abstract!PNext
  <2>2. CASE i # 1
    <3>1. PhaseOf = "Running" /\ PhaseOf' = "Running"
      BY <1>1, <2>2, PhaseOfPc, PhaseOfPcNext DEF RunSimulation
    <3>2. QED
      BY <1>1, <3>1, <1>s DEF RunSimulation
  <2>3. QED
    BY <2>1, <2>2
<1>2. CASE SimCompleted \/ SimFailed \/ SimTimedOut
  <2>1. /\ pc = "running"
        /\ \E r \in Outcome : EndRun(TCP_VARIANTS[i], r)
    BY <1>2 DEF SimCompleted, SimFailed, SimTimedOut, Outcome
  <2>2. i \in 1..NumVariants /\ i' = i + 1 /\ pc' = "run_loop"
        /\ results' = results
    BY <2>1 DEF EndRun, RefInv, TypeInv
  <2>3. PhaseOf = "Running" /\ PhaseOf' = "Running"
    BY <2>1, <2>2, PhaseOfPc, PhaseOfPcNext
  <2>4. Abstract!Attempt
    BY <2>2, <2>3 DEF Abstract!Attempt, NumVariants
  <2>5. QED
    BY <2>4 DEF Abstract!PNext
<1>3. CASE RunsFinished
  <2>1. i = NumVariants + 1 /\ ~skipSim
    BY <1>3 DEF RunsFinished, RefInv, TypeInv, TypeOK,
                SimOnlyWithoutSkip
  <2>2. PhaseOf = "Running" /\ PhaseOf' = "Collecting"
    BY <1>3, <2>1, PhaseOfPc, PhaseOfPcNext DEF RunsFinished, NumVariants
  <2>3. Abstract!AllAttempted
    BY <1>3, <2>1, <2>2 DEF RunsFinished, Abstract!AllAttempted, NumVariants
  <2>4. QED
    BY <2>3 DEF Abstract!PNext
<1>4. CASE LoadAggregate
  <2>1. PhaseOf \in {"Idle", "Collecting"} /\ PhaseOf' = "Collecting"
    BY <1>4, PhaseOfPc, PhaseOfPcNext DEF LoadAggregate
  <2>2. DOMAIN results' \subseteq Variants
    BY <1>0 DEF RefInv, TypeInv, TypeOK
  <2>3. Abstract!Collect
    BY <1>4, <2>1, <2>2 DEF LoadAggregate, Abstract!Collect,
                            Abstract!ConfigSet
  <2>4. QED
    BY <2>3 DEF Abstract!PNext
<1>5. CASE LoadPerflow
  <2>1. PhaseOf = "Collecting"
    BY <1>5, PhaseOfPc, PhaseOfPcNext DEF LoadPerflow
  <2>2. UNCHANGED <<i, results>>
    BY <1>5 DEF LoadPerflow
  <2>3. CASE DOMAIN results = {}
    <3>1. PhaseOf' = "PartialDone"
      BY <1>5, <2>3, PhaseOfPc, PhaseOfPcNext DEF LoadPerflow
    <3>2. Abstract!NoUsableResults
      BY <2>1, <2>2, <2>3, <3>1 DEF Abstract!NoUsableResults
    <3>3. QED
      BY <3>2 DEF Abstract!PNext
  <2>4. CASE DOMAIN results # {}
    <3>1. PhaseOf' = "Analyzing"
      BY <1>5, <2>4, PhaseOfPc, PhaseOfPcNext DEF LoadPerflow
    <3>2. DOMAIN results \subseteq Variants
      BY DEF RefInv, TypeInv, TypeOK
    <3>3. Abstract!Analyze
      BY <2>1, <2>2, <2>4, <3>1, <3>2 DEF Abstract!Analyze, Abstract!ConfigSet
    <3>4. QED
      BY <3>3 DEF Abstract!PNext
  <2>5. QED
    BY <2>3, <2>4
<1>6. CASE PrintSummary
  <2>1. PhaseOf = "Analyzing" /\ charts = {} /\ UNCHANGED <<i, results, charts>>
    BY <1>6, PhaseOfPc, PhaseOfPcNext DEF PrintSummary, RefInv, NoChartsBeforePlot,
                           BeforePlots
  <2>2. pc' \in {"crashed", "plot_agg", "done"}
    BY <1>6 DEF PrintSummary
  <2>3. CASE pc' = "crashed"
    BY <2>1, <2>3, <1>s, PhaseOfPc, PhaseOfPcNext
  <2>4. CASE pc' = "plot_agg"
    <3>1. Abstract!Render
      BY <2>1, <2>4, PhaseOfPc, PhaseOfPcNext DEF Abstract!Render, Plotting
    <3>2. QED
      BY <3>1 DEF Abstract!PNext
  <2>5. CASE pc' = "done"
    <3>1. Abstract!Finish
      BY <2>1, <2>5, PhaseOfPc, PhaseOfPcNext DEF Abstract!Finish
    <3>2. QED
      BY <3>1 DEF Abstract!PNext
  <2>6. QED
    BY <2>2, <2>3, <2>4, <2>5
<1>7. CASE GenerateAggregatePlots
  <2>1. PhaseOf = "Rendering" /\ PhaseOf' = "Rendering"
    BY <1>7, PhaseOfPc, PhaseOfPcNext DEF GenerateAggregatePlots, Plotting
  <2>2. QED
    BY <1>7, <2>1, <1>s DEF GenerateAggregatePlots
<1>8. CASE GeneratePerflowPlots
  <2>1. PhaseOf = "Rendering" /\ charts # {} /\ charts' # {}
    BY <1>8, <1>0, PhaseOfPc, PhaseOfPcNext DEF GeneratePerflowPlots, RefInv,
                                 AggregateDrawnFirst, Plotting
  <2>2. pc' \in {"plot_cwnd", "crashed"}
    BY <1>8 DEF GeneratePerflowPlots
  <2>3. PhaseOf' = "Rendering"
    BY <2>1, <2>2, PhaseOfPc, PhaseOfPcNext DEF Plotting
  <2>4. QED
    BY <1>8, <2>1, <2>3, <1>s DEF GeneratePerflowPlots
<1>9. CASE GenerateCwndPlots
  <2>1. PhaseOf = "Rendering" /\ PhaseOf' = "Done"
    BY <1>9, PhaseOfPc, PhaseOfPcNext DEF GenerateCwndPlots, Plotting
  <2>2. Abstract!Finish
    BY <1>9, <2>1 DEF GenerateCwndPlots, Abstract!Finish
  <2>3. QED
    BY <2>2 DEF Abstract!PNext
<1>10. CASE UNCHANGED vars
  BY <1>10, <1>s DEF vars, PhaseOf
<1>11. CASE OrphanWrites
  \* A write of the orphaned simulator is not a step of the driver.
  <2>1. Stutter
    BY <1>11, PhaseOfPc, PhaseOfPcNext DEF OrphanWrites, PhaseOf, Plotting
  <2>2. QED
    BY <2>1, <1>s
<1>12. QED
  BY <1>1, <1>2, <1>3, <1>4, <1>5, <1>6, <1>7, <1>8, <1>9, <1>10, <1>11
     DEF Next, ScriptStep

(***************************************************************************)
(* main() of og-sim-2 implements the driver of spec 4.5 (ImplementsPhases, *)
(* checked by the run fanout_pipeline): the simulations come before the    *)
(* loading, analysis needs loaded results, and no path of main() skips or  *)
(* reorders a phase, for every choice of variants, values and row bound.   *)
(***************************************************************************)
THEOREM FanoutImplementsPhases == Spec => ImplementsPhases
<1>1. Init => RefInv
  BY InitRefInv
<1>2. RefInv /\ [Next]_vars => RefInv'
  BY NextRefInv
<1>3. Init => Abstract!PInit
  BY InitPhases
<1>4. RefInv /\ [Next]_vars => [Abstract!PNext]_Abstract!pvars
  BY NextPhases
<1>5. QED
  BY <1>1, <1>2, <1>3, <1>4, PTL DEF Spec, ImplementsPhases, Abstract!PSpec

=============================================================================
