--------------------------- MODULE RenoEquilibrium ---------------------------
(***************************************************************************)
(* results/reno-equilibrium/run_and_plot.py: run the reno-equilibrium     *)
(* simulation (no timeout, exit(1) on a non-zero return code), parse       *)
(* cwnd_trace.txt line by line (exit(1) if it is missing), and plot the    *)
(* cwnd samples against their times.                                      *)
(*                                                                         *)
(* A line of the trace is abstracted to its kind:                          *)
(*   "sample"     two fields, a float time and an integer cwnd;            *)
(*   "float_cwnd" two numeric fields, the cwnd written as a float;         *)
(*   "comma"      the two numeric fields separated by a comma;             *)
(*   "bad_time"   two fields, the first not a number, the second an int;   *)
(*   "blank"      empty after strip();                                     *)
(*   "malformed"  not two fields: a comment, one or three fields.          *)
(* times and cwnds hold the index of the line each value was parsed from. *)
(***************************************************************************)
EXTENDS Naturals, Sequences

CONSTANTS
    LineKinds,   \* kinds of line the trace may hold
    MaxLines     \* most lines a trace holds in the model

ASSUME RELineKindsAssumption ==
    LineKinds \subseteq {"sample", "float_cwnd", "comma", "bad_time", "blank",
                         "malformed"}
ASSUME REMaxLinesAssumption == MaxLines \in Nat

\* The trace file: missing, or a sequence of lines.
Missing == [exists |-> FALSE, lines |-> <<>>]
Written == {[exists |-> TRUE, lines |-> l] :
               l \in UNION {[1..n -> LineKinds] : n \in 0..MaxLines}}
Traces == {Missing} \cup Written

Terminal == {"done", "sim_failed", "no_trace", "crashed"}

VARIABLES
    pc,      \* where the script is
    hung,    \* the simulator will never exit by itself
    trace,   \* results/reno-equilibrium/cwnd_trace.txt
    k,       \* the next line parse_cwnd_file reads
    times,   \* times: the line of each parsed time
    cwnds    \* cwnds: the line of each parsed cwnd

vars == <<pc, hung, trace, k, times, cwnds>>

TypeOK ==
    /\ pc \in {"simulate", "running", "open", "parse", "plot"} \cup Terminal
    /\ hung \in BOOLEAN
    /\ trace \in Traces
    /\ k \in 1..MaxLines + 1
    /\ times \in Seq(1..MaxLines)
    /\ cwnds \in Seq(1..MaxLines)

\* A trace left by an earlier run may be on disk.
Init ==
    /\ pc = "simulate"
    /\ hung = FALSE
    /\ trace \in Traces
    /\ k = 1
    /\ times = <<>>
    /\ cwnds = <<>>

\* run_ns3_simulation: subprocess.run without a timeout.
RunSimulation ==
    /\ pc = "simulate"
    /\ pc' = "running"
    /\ hung' \in BOOLEAN
    /\ UNCHANGED <<trace, k, times, cwnds>>

\* returncode 0: the simulator has written a new trace, or left it as it was.
SimCompleted ==
    /\ pc = "running"
    /\ ~hung
    /\ trace' \in Written \cup {trace}
    /\ pc' = "open"
    /\ UNCHANGED <<hung, k, times, cwnds>>

\* returncode != 0: "Error running simulation", exit(1).
SimFailed ==
    /\ pc = "running"
    /\ ~hung
    /\ pc' = "sim_failed"
    /\ UNCHANGED <<hung, trace, k, times, cwnds>>

\* ./ns3 cannot be started: subprocess.run raises and nothing catches it.
SimLaunchError ==
    /\ pc = "running"
    /\ ~hung
    /\ pc' = "crashed"
    /\ UNCHANGED <<hung, trace, k, times, cwnds>>

\* Mutant: parse_cwnd_file prints the error but does not exit, and returns
\* the empty lists to plot_cwnd.
TraceMissingNoExit ==
    /\ pc = "open"
    /\ ~trace.exists
    /\ pc' = "plot"
    /\ UNCHANGED <<hung, trace, k, times, cwnds>>

\* parse_cwnd_file: "Error: File ... not found!", exit(1).
TraceMissing ==
    /\ pc = "open"
    /\ ~trace.exists
    /\ pc' = "no_trace"
    /\ UNCHANGED <<hung, trace, k, times, cwnds>>

\* parse_cwnd_file opens the trace and starts its loop.
OpenTrace ==
    /\ pc = "open"
    /\ trace.exists
    /\ pc' = "parse"
    /\ UNCHANGED <<hung, trace, k, times, cwnds>>

\* Mutant: cwnds.append(int(cwnd)) before times.append(float(t)).
ParseLineCwndFirst ==
    /\ pc = "parse"
    /\ k <= Len(trace.lines)
    /\ LET kind == trace.lines[k] IN
       /\ cwnds' = IF kind \in {"sample", "bad_time"}
                   THEN Append(cwnds, k) ELSE cwnds
       /\ times' = IF kind = "sample" THEN Append(times, k) ELSE times
    /\ k' = k + 1
    /\ UNCHANGED <<pc, hung, trace>>

(***************************************************************************)
(* One iteration of the loop of parse_cwnd_file.  A blank line is skipped; *)
(* `t, cwnd = line.split()` raises on a comma line or on a malformed one  *)
(* before anything is appended, and float(t) on a bad_time line; on a    *)
(* float_cwnd line float(t) succeeds, so its time is appended before       *)
(* int(cwnd) raises.  The ValueError is caught and the loop continues.     *)
(***************************************************************************)
ParseLine ==
    /\ pc = "parse"
    /\ k <= Len(trace.lines)
    /\ LET kind == trace.lines[k] IN
       /\ times' = IF kind \in {"sample", "float_cwnd"}
                   THEN Append(times, k) ELSE times
       /\ cwnds' = IF kind = "sample" THEN Append(cwnds, k) ELSE cwnds
    /\ k' = k + 1
    /\ UNCHANGED <<pc, hung, trace>>

\* The loop is over: parse_cwnd_file returns times, cwnds.
ParseDone ==
    /\ pc = "parse"
    /\ k > Len(trace.lines)
    /\ pc' = "plot"
    /\ UNCHANGED <<hung, trace, k, times, cwnds>>

\* plt.plot(times, cwnds) raises ValueError when the lengths differ;
\* otherwise the figure is saved and the script ends.
PlotCwnd ==
    /\ pc = "plot"
    /\ pc' = IF Len(times) = Len(cwnds) THEN "done" ELSE "crashed"
    /\ UNCHANGED <<hung, trace, k, times, cwnds>>

Next ==
    \/ RunSimulation
    \/ SimCompleted
    \/ SimFailed
    \/ SimLaunchError
    \/ TraceMissing
    \/ OpenTrace
    \/ ParseLine
    \/ ParseDone
    \/ PlotCwnd

Spec == Init /\ [][Next]_vars /\ WF_vars(Next)

-----------------------------------------------------------------------------
(* The phase of spec 4.5 the script is in.  It has one configuration, the  *)
(* program "reno-equilibrium" it passes to ./ns3.  exit(1) and a crash     *)
(* leave the driver in the phase it stopped in; the only crash after       *)
(* parsing is plt.plot raising on lists of different lengths.              *)
Scenario == "reno-equilibrium"

PlotRaised == pc = "crashed" /\ Len(times) # Len(cwnds)

PhaseOf ==
    CASE pc = "simulate"                          -> "Idle"
      [] pc \in {"running", "open", "sim_failed"} -> "Running"
      [] pc \in {"parse", "no_trace"}             -> "Collecting"
      [] pc = "plot"                              -> "Analyzing"
      [] pc = "done"                              -> "Done"
      [] pc = "crashed"                           ->
            IF PlotRaised THEN "Analyzing" ELSE "Running"

\* run_ns3_simulation has returned or exited.
Attempted ==
    IF pc \in {"simulate", "running"} \/ (pc = "crashed" /\ ~PlotRaised)
    THEN 0 ELSE 1

\* parse_cwnd_file has returned what it read from an existing trace.
Loaded ==
    IF (pc \in {"plot", "done"} \/ PlotRaised) /\ trace.exists
    THEN {Scenario} ELSE {}

Abstract == INSTANCE PipelinePhases
                WITH Configs <- <<Scenario>>, phase <- PhaseOf,
                     attempted <- Attempted, loaded <- Loaded

-----------------------------------------------------------------------------
(* Properties.                                                             *)

\* The indices of the lines read so far whose kind is in K, in file order.
LinesOf(K) ==
    LET read == [j \in 1..(k - 1) |-> j]
        Test(j) == trace.lines[j] \in K
    IN  SelectSeq(read, Test)

\* The indices of the sample lines read so far.
SampleLinesRead == {j \in 1..(k - 1) : trace.lines[j] = "sample"}

(***************************************************************************)
(* Spec 4.2, row-level recovery: the cwnd values parse_cwnd_file keeps are *)
(* exactly those of the well-formed sample lines read so far, one each and *)
(* in file order (cwnds is strictly increasing in the line it came from,   *)
(* and its lines are the sample lines below k); no line that failed to     *)
(* parse contributes a cwnd.  Once the loop is over every line has been    *)
(* read, so plot_cwnd gets the samples of the whole file.                  *)
(***************************************************************************)
CwndsFromSamples ==
    /\ pc \in {"parse", "plot", "done", "crashed"} =>
         /\ \A a, b \in DOMAIN cwnds : a < b => cwnds[a] < cwnds[b]
         /\ {cwnds[j] : j \in DOMAIN cwnds} = SampleLinesRead
    /\ pc \in {"plot", "done"} => k = Len(trace.lines) + 1

(***************************************************************************)
(* Spec 3: a time-series sample is a (timestamp, value) pair.  The times   *)
(* and cwnds lists parse_cwnd_file builds pair up: entry j of both comes   *)
(* from the same line.  times.append runs before int(cwnd) can raise.      *)
(***************************************************************************)
SamplesPaired == times = cwnds

(***************************************************************************)
(* Spec 4.2 and 6: a time-series line holds two whitespace- or comma-      *)
(* separated numeric columns, and every such line yields a sample.  When   *)
(* parsing is over, each of them is among the parsed cwnds.                *)
(***************************************************************************)
NumericLinesParsed ==
    pc \in {"plot", "done"} =>
        cwnds = LinesOf({"sample", "float_cwnd", "comma"})

(***************************************************************************)
(* The script implements the driver state machine of spec 4.5: it parses  *)
(* the trace only after the simulation has run, and plots only when        *)
(* parse_cwnd_file has returned the contents of an existing trace.         *)
(***************************************************************************)
ImplementsPhases == Abstract!PSpec

=============================================================================
