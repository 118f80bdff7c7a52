------------------------- MODULE MultiRttPhasesProofs -------------------------
(***************************************************************************)
(* main() of tcp-multi-rtt implements the pipeline driver of spec 4.5:     *)
(* every step of MultiRttPipeline maps, under PhaseOf, i - 1 and DOMAIN    *)
(* all_results, to a step of PipelinePhases or to a stutter.  The return 1 *)
(* after a failed simulation and every crash are stutters: the driver      *)
(* stays in the phase it stopped in.                                       *)
(***************************************************************************)
EXTENDS MultiRttPipelineProofs

(***************************************************************************)
(* What the mapping needs beyond the loop index:                           *)
(*   LoopOver: loading, the analysis, the plots and the return 1 all come  *)
(*     after the loop, so a crash in them is not one in Running;           *)
(*   NothingLoadedBefore (of MultiRttPipelineProofs): a crash in the       *)
(*     loading loop leaves all_results empty, still Collecting;            *)
(*   NoChartsBeforePlot: a crash in the per-flow tables is in Analyzing;   *)
(*   LoadedWhileAnalyzing: the tables and plots are reached only with      *)
(*     results (the `if not all_results: return 1`);                       *)
(*   BarsDrawnFirst: plot_cwnd_progress comes after the bar charts, so a   *)
(*     crash in it is one in Rendering.                                    *)
(***************************************************************************)
LoopOver ==
    pc \in {"load", "summary", "plot", "cwnd", "no_results", "aborted"} => i = 3

NoChartsBeforePlot ==
    pc \in {"run_loop", "running", "load", "summary"} => charts = {}

LoadedWhileAnalyzing ==
    pc \in {"summary", "plot", "cwnd"} => DOMAIN allResults # {}

BarsDrawnFirst == pc = "cwnd" => charts # {}

PhaseInv ==
    /\ LoopIndex
    /\ LoopOver
    /\ NothingLoadedBefore
    /\ NoChartsBeforePlot
    /\ LoadedWhileAnalyzing
    /\ BarsDrawnFirst
    /\ DOMAIN allResults \subseteq Variants

LEMMA InitPhaseInv == Init => PhaseInv
BY DEF Init, PhaseInv, LoopIndex, LoopOver, NothingLoadedBefore,
       NoChartsBeforePlot, LoadedWhileAnalyzing, BarsDrawnFirst

LEMMA NextPhaseInv == PhaseInv /\ [Next]_vars => PhaseInv'
<1> SUFFICES ASSUME PhaseInv, [Next]_vars PROVE PhaseInv'
  OBVIOUS
<1> USE DEF PhaseInv, LoopIndex, LoopOver, NothingLoadedBefore,
            NoChartsBeforePlot, LoadedWhileAnalyzing, BarsDrawnFirst
<1>1. CASE RunSimulation \/ SimLaunchError \/ AllSucceeded \/ SomeFailed
  BY <1>1 DEF RunSimulation, SimLaunchError, AllSucceeded, SomeFailed
<1>2. CASE SimCompleted \/ SimFailed
  BY <1>2 DEF SimCompleted, SimFailed, EndRun
<1>3. CASE LoadResults
  <2>1. DOMAIN allResults' \subseteq Variants
    BY <1>3 DEF LoadResults, Readable
  <2>2. pc' = "summary" => DOMAIN allResults' # {}
    BY <1>3 DEF LoadResults
  <2>3. QED
    BY <1>3, <2>1, <2>2 DEF LoadResults
<1>4. CASE PrintSummary
  BY <1>4 DEF PrintSummary
<1>5. CASE GenerateComparisonPlots
  <2>1. PICK v \in DOMAIN allResults : TRUE
    BY <1>5 DEF GenerateComparisonPlots
  <2>2. <<"throughput", v>> \in charts'
    BY <1>5, <2>1 DEF GenerateComparisonPlots
  <2>3. QED
    BY <1>5, <2>2 DEF GenerateComparisonPlots
<1>6. CASE PlotCwndProgress
  BY <1>6 DEF PlotCwndProgress
<1>7. CASE UNCHANGED vars
  BY <1>7 DEF vars
<1>8. QED
  BY <1>1, <1>2, <1>3, <1>4, <1>5, <1>6, <1>7 DEF Next

-----------------------------------------------------------------------------
(* The phase of each point of main(), now and one step later.              *)

LEMMA PhaseOfPc ==
    /\ pc = "run_loop" /\ i = 1 => PhaseOf = "Idle"
    /\ pc = "run_loop" /\ i # 1 => PhaseOf = "Running"
    /\ pc \in {"running", "aborted"} => PhaseOf = "Running"
    /\ pc = "load" => PhaseOf = "Collecting"
    /\ pc = "summary" => PhaseOf = "Analyzing"
    /\ pc \in {"plot", "cwnd"} => PhaseOf = "Rendering"
    /\ pc = "done" => PhaseOf = "Done"
    /\ pc = "no_results" => PhaseOf = "PartialDone"
    /\ pc = "crashed" /\ i <= 2 => PhaseOf = "Running"
    /\ pc = "crashed" /\ ~(i <= 2) /\ DOMAIN allResults = {}
         => PhaseOf = "Collecting"
    /\ pc = "crashed" /\ ~(i <= 2) /\ DOMAIN allResults # {} /\ charts = {}
         => PhaseOf = "Analyzing"
    /\ pc = "crashed" /\ ~(i <= 2) /\ DOMAIN allResults # {} /\ charts # {}
         => PhaseOf = "Rendering"
BY DEF PhaseOf

LEMMA PhaseOfPcNext ==
    /\ pc' = "run_loop" /\ i' = 1 => PhaseOf' = "Idle"
    /\ pc' = "run_loop" /\ i' # 1 => PhaseOf' = "Running"
    /\ pc' \in {"running", "aborted"} => PhaseOf' = "Running"
    /\ pc' = "load" => PhaseOf' = "Collecting"
    /\ pc' = "summary" => PhaseOf' = "Analyzing"
    /\ pc' \in {"plot", "cwnd"} => PhaseOf' = "Rendering"
    /\ pc' = "done" => PhaseOf' = "Done"
    /\ pc' = "no_results" => PhaseOf' = "PartialDone"
    /\ pc' = "crashed" /\ i' <= 2 => PhaseOf' = "Running"
    /\ pc' = "crashed" /\ ~(i' <= 2) /\ DOMAIN allResults' = {}
         => PhaseOf' = "Collecting"
    /\ pc' = "crashed" /\ ~(i' <= 2) /\ DOMAIN allResults' # {}
       /\ charts' = {} => PhaseOf' = "Analyzing"
    /\ pc' = "crashed" /\ ~(i' <= 2) /\ DOMAIN allResults' # {}
       /\ charts' # {} => PhaseOf' = "Rendering"
BY DEF PhaseOf

LEMMA VariantsAreConfigs ==
    /\ Len(variants) = 2
    /\ {variants[j] : j \in DOMAIN variants} = Variants
BY DEF variants, Variants

LEMMA InitPhases == Init => Abstract!PInit
<1> SUFFICES ASSUME Init PROVE Abstract!PInit
  OBVIOUS
<1>1. PhaseOf = "Idle"
  BY PhaseOfPc DEF Init
<1>2. QED
  BY <1>1 DEF Init, Abstract!PInit

(***************************************************************************)
(* One step of main() is one step of the driver or leaves its phase, its   *)
(* count of attempted configurations and its loaded set as they were.      *)
(***************************************************************************)
LEMMA NextPhases == PhaseInv /\ [Next]_vars => [Abstract!PNext]_Abstract!pvars
<1> SUFFICES ASSUME PhaseInv, [Next]_vars
             PROVE  [Abstract!PNext]_Abstract!pvars
  OBVIOUS
<1> DEFINE Stutter == /\ PhaseOf' = PhaseOf
                      /\ i' - 1 = i - 1
                      /\ DOMAIN allResults' = DOMAIN allResults
<1>s. Stutter => [Abstract!PNext]_Abstract!pvars
  BY DEF Abstract!pvars
<1> USE VariantsAreConfigs
<1>1. CASE RunSimulation
  <2>1. CASE i = 1
    <3>1. PhaseOf = "Idle" /\ PhaseOf' = "Running"
      BY <1>1, <2>1, PhaseOfPc, PhaseOfPcNext DEF RunSimulation
    <3>2. Abstract!Start
      BY <1>1, <3>1 DEF RunSimulation, Abstract!Start
    <3>3. QED
      BY <3>2 DEF Abstract!PNext
  <2>2. CASE i # 1
    <3>1. PhaseOf = "Running" /\ PhaseOf' = "Running"
      BY <1>1, <2>2, PhaseOfPc, PhaseOfPcNext DEF RunSimulation
    <3>2. QED
      BY <1>1, <3>1, <1>s DEF RunSimulation
  <2>3. QED
    BY <2>1, <2>2
<1>2. CASE SimCompleted \/ SimFailed
  <2>1. pc = "running" /\ \E r \in Outcome : EndRun(variants[i], r)
    BY <1>2 DEF SimCompleted, SimFailed, Outcome
  <2>2. i \in 1..2 /\ i' = i + 1 /\ pc' = "run_loop"
        /\ allResults' = allResults
    BY <2>1 DEF EndRun, PhaseInv, LoopIndex
  <2>3. PhaseOf = "Running" /\ PhaseOf' = "Running"
    BY <2>1, <2>2, PhaseOfPc, PhaseOfPcNext
  <2>4. Abstract!Attempt
    BY <2>2, <2>3 DEF Abstract!Attempt
  <2>5. QED
    BY <2>4 DEF Abstract!PNext
<1>3. CASE SimLaunchError
  <2>1. pc = "running" /\ i \in 1..2 /\ pc' = "crashed"
        /\ UNCHANGED <<i, allResults>>
    BY <1>3 DEF SimLaunchError, PhaseInv, LoopIndex
  <2>2. PhaseOf = "Running" /\ PhaseOf' = "Running"
    BY <2>1, PhaseOfPc, PhaseOfPcNext
  <2>3. QED
    BY <2>1, <2>2, <1>s
<1>4. CASE AllSucceeded
  <2>1. pc = "run_loop" /\ i = 3 /\ pc' = "load" /\ UNCHANGED <<i, allResults>>
    BY <1>4 DEF AllSucceeded, PhaseInv, LoopIndex
  <2>2. PhaseOf = "Running" /\ PhaseOf' = "Collecting"
    BY <2>1, PhaseOfPc, PhaseOfPcNext
  <2>3. Abstract!AllAttempted
    BY <2>1, <2>2 DEF Abstract!AllAttempted
  <2>4. QED
    BY <2>3 DEF Abstract!PNext
<1>5. CASE SomeFailed
  <2>1. pc = "run_loop" /\ i = 3 /\ pc' = "aborted" /\ UNCHANGED <<i, allResults>>
    BY <1>5 DEF SomeFailed, PhaseInv, LoopIndex
  <2>2. PhaseOf = "Running" /\ PhaseOf' = "Running"
    BY <2>1, PhaseOfPc, PhaseOfPcNext
  <2>3. QED
    BY <2>1, <2>2, <1>s
<1>6. CASE LoadResults
  <2>1. pc = "load" /\ i = 3 /\ DOMAIN allResults = {} /\ PhaseOf = "Collecting"
        /\ UNCHANGED i
    BY <1>6, PhaseOfPc DEF LoadResults, PhaseInv, LoopOver,
                           NothingLoadedBefore
  <2>2. CASE pc' = "crashed"
    <3>1. UNCHANGED allResults
      BY <1>6, <2>2 DEF LoadResults
    <3>2. PhaseOf' = "Collecting"
      BY <2>1, <2>2, <3>1, PhaseOfPcNext
    <3>3. QED
      BY <2>1, <3>1, <3>2, <1>s
  <2>3. CASE pc' = "no_results"
    <3>1. DOMAIN allResults' = {}
      BY <1>6, <2>3 DEF LoadResults
    <3>2. Abstract!NoUsableResults
      BY <2>1, <2>3, <3>1, PhaseOfPcNext DEF Abstract!NoUsableResults
    <3>3. QED
      BY <3>2 DEF Abstract!PNext
  <2>4. CASE pc' = "summary"
    <3>1. DOMAIN allResults' # {} /\ DOMAIN allResults' \subseteq Variants
      BY <1>6, <2>4 DEF LoadResults, Readable
    <3>2. Abstract!Analyze
      BY <2>1, <2>4, <3>1, PhaseOfPcNext DEF Abstract!Analyze,
                                             Abstract!ConfigSet
    <3>3. QED
      BY <3>2 DEF Abstract!PNext
  <2>5. QED
    BY <1>6, <2>2, <2>3, <2>4 DEF LoadResults
<1>7. CASE PrintSummary
  <2>1. pc = "summary" /\ i = 3 /\ charts = {} /\ DOMAIN allResults # {}
        /\ UNCHANGED <<i, allResults, charts>> /\ PhaseOf = "Analyzing"
    BY <1>7, PhaseOfPc DEF PrintSummary, PhaseInv, LoopOver,
                           NoChartsBeforePlot, LoadedWhileAnalyzing
  <2>2. CASE pc' = "crashed"
    BY <2>1, <2>2, <1>s, PhaseOfPcNext
  <2>3. CASE pc' = "plot"
    <3>1. Abstract!Render
      BY <2>1, <2>3, PhaseOfPcNext DEF Abstract!Render
    <3>2. QED
      BY <3>1 DEF Abstract!PNext
  <2>4. QED
    BY <1>7, <2>2, <2>3 DEF PrintSummary
<1>8. CASE GenerateComparisonPlots
  <2>1. PhaseOf = "Rendering" /\ PhaseOf' = "Rendering"
    BY <1>8, PhaseOfPc, PhaseOfPcNext DEF GenerateComparisonPlots
  <2>2. QED
    BY <1>8, <2>1, <1>s DEF GenerateComparisonPlots
<1>9. CASE PlotCwndProgress
  <2>1. pc = "cwnd" /\ i = 3 /\ charts # {} /\ DOMAIN allResults # {}
        /\ UNCHANGED <<i, allResults>> /\ PhaseOf = "Rendering"
    BY <1>9, PhaseOfPc DEF PlotCwndProgress, PhaseInv, LoopOver,
                           BarsDrawnFirst, LoadedWhileAnalyzing
  <2>2. CASE pc' = "crashed"
    <3>1. UNCHANGED charts
      BY <1>9, <2>2 DEF PlotCwndProgress
    <3>2. QED
      BY <2>1, <2>2, <3>1, <1>s, PhaseOfPcNext
  <2>3. CASE pc' = "done"
    <3>1. Abstract!Finish
      BY <2>1, <2>3, PhaseOfPcNext DEF Abstract!Finish
    <3>2. QED
      BY <3>1 DEF Abstract!PNext
  <2>4. QED
    BY <1>9, <2>2, <2>3 DEF PlotCwndProgress
<1>10. CASE UNCHANGED vars
  BY <1>10, <1>s DEF vars, PhaseOf
<1>11. QED
  BY <1>1, <1>2, <1>3, <1>4, <1>5, <1>6, <1>7, <1>8, <1>9, <1>10 DEF Next

(***************************************************************************)
(* main() of tcp-multi-rtt implements the driver of spec 4.5               *)
(* (ImplementsPhases, checked by the run multirtt_pipeline): it loads only *)
(* after both variants were attempted in order, analyses only with a       *)
(* loaded variant and plots only after the analysis, for every choice of   *)
(* the variants, the throughput values and the flow counts.                *)
(***************************************************************************)
THEOREM MultiRttImplementsPhases == Spec => ImplementsPhases
<1>1. Init => PhaseInv
  BY InitPhaseInv
<1>2. PhaseInv /\ [Next]_vars => PhaseInv'
  BY NextPhaseInv
<1>3. Init => Abstract!PInit
  BY InitPhases
<1>4. PhaseInv /\ [Next]_vars => [Abstract!PNext]_Abstract!pvars
  BY NextPhases
<1>5. QED
  BY <1>1, <1>2, <1>3, <1>4, PTL DEF Spec, ImplementsPhases, Abstract!PSpec

=============================================================================
