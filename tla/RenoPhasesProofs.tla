--------------------------- MODULE RenoPhasesProofs ---------------------------
(***************************************************************************)
(* reno-equilibrium.py implements the pipeline driver of spec 4.5: every   *)
(* step of RenoEquilibrium maps, under PhaseOf, Attempted and Loaded, to   *)
(* a step of PipelinePhases or to a stutter.                               *)
(***************************************************************************)
EXTENDS RenoEquilibrium, TLAPS

(***************************************************************************)
(* What the mapping needs:                                                 *)
(*   NoneParsedYet: nothing is appended before the loop of parse_cwnd_file *)
(*     starts, so a launch error of subprocess.run is not taken for the   *)
(*     plt.plot crash that maps to Analyzing;                              *)
(*   TraceOpened: the loop, the plot and the plot's crash are reached only *)
(*     through the trace.exists branch, so the trace they stand for was    *)
(*     loaded.                                                             *)
(***************************************************************************)
NoneParsedYet ==
    pc \in {"simulate", "running", "open"} => times = <<>> /\ cwnds = <<>>

TraceOpened == pc \in {"parse", "plot", "done"} \/ PlotRaised => trace.exists

RefInv == NoneParsedYet /\ TraceOpened

LEMMA InitRefInv == Init => RefInv
BY DEF Init, RefInv, NoneParsedYet, TraceOpened, PlotRaised

LEMMA NextRefInv == RefInv /\ [Next]_vars => RefInv'
<1> SUFFICES ASSUME RefInv, [Next]_vars PROVE RefInv'
  OBVIOUS
<1> USE DEF RefInv, NoneParsedYet, TraceOpened, PlotRaised
<1>1. CASE RunSimulation \/ SimCompleted \/ SimFailed
  BY <1>1 DEF RunSimulation, SimCompleted, SimFailed
<1>2. CASE SimLaunchError
  \* Both lists are still empty: the crash is not the plot's.
  BY <1>2 DEF SimLaunchError
<1>3. CASE TraceMissing \/ OpenTrace
  BY <1>3 DEF TraceMissing, OpenTrace
<1>4. CASE ParseLine \/ ParseDone
  BY <1>4 DEF ParseLine, ParseDone
<1>5. CASE PlotCwnd
  BY <1>5 DEF PlotCwnd
<1>6. CASE UNCHANGED vars
  BY <1>6 DEF vars
<1>7. QED
  BY <1>1, <1>2, <1>3, <1>4, <1>5, <1>6 DEF Next

-----------------------------------------------------------------------------
(* The phase, attempt count and loaded set at each point of the script.    *)

LEMMA PhaseOfPc ==
    /\ pc = "simulate" => PhaseOf = "Idle" /\ Attempted = 0
    /\ pc = "running" => PhaseOf = "Running" /\ Attempted = 0
    /\ pc \in {"open", "sim_failed"} => PhaseOf = "Running" /\ Attempted = 1
    /\ pc \in {"parse", "no_trace"} => PhaseOf = "Collecting" /\ Attempted = 1
    /\ pc = "plot" => PhaseOf = "Analyzing" /\ Attempted = 1
    /\ pc = "done" => PhaseOf = "Done" /\ Attempted = 1
    /\ PlotRaised => PhaseOf = "Analyzing" /\ Attempted = 1
    /\ pc = "crashed" /\ ~PlotRaised => PhaseOf = "Running" /\ Attempted = 0
BY DEF PhaseOf, Attempted, PlotRaised

\* The same, one step later.
LEMMA PhaseOfPcNext ==
    /\ pc' = "simulate" => PhaseOf' = "Idle" /\ Attempted' = 0
    /\ pc' = "running" => PhaseOf' = "Running" /\ Attempted' = 0
    /\ pc' \in {"open", "sim_failed"} => PhaseOf' = "Running" /\ Attempted' = 1
    /\ pc' \in {"parse", "no_trace"} => PhaseOf' = "Collecting" /\ Attempted' = 1
    /\ pc' = "plot" => PhaseOf' = "Analyzing" /\ Attempted' = 1
    /\ pc' = "done" => PhaseOf' = "Done" /\ Attempted' = 1
    /\ PlotRaised' => PhaseOf' = "Analyzing" /\ Attempted' = 1
    /\ pc' = "crashed" /\ ~PlotRaised' => PhaseOf' = "Running" /\ Attempted' = 0
BY DEF PhaseOf, Attempted, PlotRaised

\* The script's one configuration.
LEMMA ScenarioConfig ==
    /\ Len(<<Scenario>>) = 1
    /\ {<<Scenario>>[j] : j \in DOMAIN <<Scenario>>} = {Scenario}
OBVIOUS

LEMMA InitPhases == Init => Abstract!PInit
<1> SUFFICES ASSUME Init PROVE Abstract!PInit
  OBVIOUS
<1>1. PhaseOf = "Idle" /\ Attempted = 0 /\ Loaded = {}
  BY PhaseOfPc DEF Init, Loaded, PlotRaised
<1>2. QED
  BY <1>1 DEF Abstract!PInit

(***************************************************************************)
(* One step of the script is one step of the driver or leaves its phase,  *)
(* its count of attempted configurations and its loaded set as they were. *)
(***************************************************************************)
LEMMA NextPhases == RefInv /\ [Next]_vars => [Abstract!PNext]_Abstract!pvars
<1> SUFFICES ASSUME RefInv, [Next]_vars
             PROVE  [Abstract!PNext]_Abstract!pvars
  OBVIOUS
<1> DEFINE Stutter == /\ PhaseOf' = PhaseOf
                      /\ Attempted' = Attempted
                      /\ Loaded' = Loaded
<1>s. Stutter => [Abstract!PNext]_Abstract!pvars
  BY DEF Abstract!pvars
<1> USE ScenarioConfig
<1>1. CASE RunSimulation
  <2>1. /\ PhaseOf = "Idle" /\ PhaseOf' = "Running"
        /\ Attempted' = Attempted /\ Loaded' = Loaded
    BY <1>1, PhaseOfPc, PhaseOfPcNext DEF RunSimulation, Loaded, PlotRaised
  <2>2. QED
    BY <2>1 DEF Abstract!PNext, Abstract!Start
<1>2. CASE SimCompleted \/ SimFailed
  <2>1. /\ PhaseOf = "Running" /\ PhaseOf' = "Running"
        /\ Attempted = 0 /\ Attempted' = 1 /\ Loaded' = Loaded
    BY <1>2, PhaseOfPc, PhaseOfPcNext
       DEF SimCompleted, SimFailed, Loaded, PlotRaised
  <2>2. QED
    BY <2>1 DEF Abstract!PNext, Abstract!Attempt
<1>3. CASE SimLaunchError
  <2>1. ~PlotRaised'
    BY <1>3 DEF RefInv, NoneParsedYet, SimLaunchError, PlotRaised
  <2>2. Stutter
    BY <1>3, <2>1, PhaseOfPc, PhaseOfPcNext DEF SimLaunchError, Loaded, PlotRaised
  <2>3. QED
    BY <2>2, <1>s
<1>4. CASE TraceMissing \/ OpenTrace
  <2>1. /\ PhaseOf = "Running" /\ PhaseOf' = "Collecting"
        /\ Attempted = 1 /\ Attempted' = 1 /\ Loaded' = Loaded
    BY <1>4, PhaseOfPc, PhaseOfPcNext
       DEF TraceMissing, OpenTrace, Loaded, PlotRaised
  <2>2. QED
    BY <2>1 DEF Abstract!PNext, Abstract!AllAttempted
<1>5. CASE ParseLine
  <2>1. Stutter
    BY <1>5, PhaseOfPc, PhaseOfPcNext DEF ParseLine, Loaded, PlotRaised
  <2>2. QED
    BY <2>1, <1>s
<1>6. CASE ParseDone
  \* parse_cwnd_file returns what it read from the trace it opened.
  <2>1. trace.exists
    BY <1>6 DEF RefInv, TraceOpened, ParseDone
  <2>2. /\ PhaseOf = "Collecting" /\ PhaseOf' = "Analyzing"
        /\ Attempted' = Attempted /\ Loaded' = {Scenario}
    BY <1>6, <2>1, PhaseOfPc, PhaseOfPcNext DEF ParseDone, Loaded, PlotRaised
  <2>3. Loaded' \subseteq Abstract!ConfigSet
    BY <2>2 DEF Abstract!ConfigSet
  <2>4. QED
    BY <2>2, <2>3 DEF Abstract!PNext, Abstract!Analyze
<1>7. CASE PlotCwnd
  <2>1. trace.exists /\ Loaded = {Scenario} /\ Attempted = 1
    BY <1>7, PhaseOfPc DEF RefInv, TraceOpened, PlotCwnd, Loaded, PlotRaised
  <2>2. CASE Len(times) = Len(cwnds)
    \* The figure is saved: the driver is done.
    <3>1. /\ PhaseOf = "Analyzing" /\ PhaseOf' = "Done"
          /\ Attempted' = Attempted /\ Loaded' = Loaded
      BY <1>7, <2>1, <2>2, PhaseOfPc, PhaseOfPcNext
         DEF PlotCwnd, Loaded, PlotRaised
    <3>2. QED
      BY <3>1 DEF Abstract!PNext, Abstract!Finish
  <2>3. CASE Len(times) # Len(cwnds)
    \* plt.plot raises: the driver stops in Analyzing.
    <3>1. PlotRaised' /\ pc = "plot"
      BY <1>7, <2>3 DEF PlotCwnd, PlotRaised
    <3>2. Stutter
      BY <1>7, <2>1, <3>1, PhaseOfPc, PhaseOfPcNext DEF PlotCwnd, Loaded
    <3>3. QED
      BY <3>2, <1>s
  <2>4. QED
    BY <2>2, <2>3
<1>8. CASE UNCHANGED vars
  <2>1. Stutter
    BY <1>8 DEF vars, PhaseOf, Attempted, Loaded, PlotRaised
  <2>2. QED
    BY <2>1, <1>s
<1>9. QED
  BY <1>1, <1>2, <1>3, <1>4, <1>5, <1>6, <1>7, <1>8 DEF Next

(***************************************************************************)
(* The script runs the simulation, then parses the trace, then plots, in   *)
(* the order of spec 4.5 (ImplementsPhases, checked by the run            *)
(* reno_equilibrium): it never plots without having read an existing      *)
(* trace, and it stops where it fails, for every set of line kinds and     *)
(* every bound on the trace.                                               *)
(***************************************************************************)
THEOREM RenoImplementsPhases == Spec => ImplementsPhases
<1>1. Init => RefInv
  BY InitRefInv
<1>2. RefInv /\ [Next]_vars => RefInv'
  BY NextRefInv
<1>3. Init => Abstract!PInit
  BY InitPhases
<1>4. RefInv /\ [Next]_vars => [Abstract!PNext]_Abstract!pvars
  BY NextPhases
<1>5. QED
  BY <1>1, <1>2, <1>3, <1>4, PTL DEF Spec, ImplementsPhases, Abstract!PSpec

=============================================================================
