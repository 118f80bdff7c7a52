------------------------ MODULE RenoEquilibriumProofs ------------------------
(***************************************************************************)
(* Proofs about RenoEquilibrium, for every set of line kinds and every     *)
(* bound on the length of the trace.                                       *)
(***************************************************************************)
EXTENDS RenoEquilibrium, TLAPS

(***************************************************************************)
(* CwndsFromSamples speaks of the states from "parse" on, but its two      *)
(* halves hold in every state: k is 1 until the loop starts, so before it  *)
(* no line has been read and cwnds is empty.  What makes them inductive    *)
(* is that k never passes the end of the trace the loop reads, and is past *)
(* it when the loop is over (ReadInTrace), and that the trace is not       *)
(* rewritten once k has moved: the simulator writes it while k is 1.       *)
(***************************************************************************)
CwndsIncreasing ==
    \A a, b \in DOMAIN cwnds : a < b => cwnds[a] < cwnds[b]

CwndsAreSamples ==
    {cwnds[j] : j \in DOMAIN cwnds} = SampleLinesRead

ReadInTrace ==
    /\ k \in 1..Len(trace.lines) + 1
    /\ pc \in {"simulate", "running", "open"} => k = 1
    /\ pc \in {"plot", "done"} => k = Len(trace.lines) + 1

RenoInv ==
    /\ TypeOK
    /\ ReadInTrace
    /\ CwndsIncreasing
    /\ CwndsAreSamples

\* A trace on disk is a sequence of at most MaxLines lines of LineKinds.
LEMMA TraceLines ==
    ASSUME NEW t \in Traces
    PROVE  /\ t.lines \in Seq(LineKinds)
           /\ Len(t.lines) \in 0..MaxLines
<1>1. CASE t = Missing
  BY <1>1, REMaxLinesAssumption DEF Missing
<1>2. CASE t \in Written
  <2>1. PICK n \in 0..MaxLines :
          \E l \in [1..n -> LineKinds] : t = [exists |-> TRUE, lines |-> l]
    BY <1>2 DEF Written
  <2>2. PICK l \in [1..n -> LineKinds] : t = [exists |-> TRUE, lines |-> l]
    BY <2>1
  <2>3. l \in Seq(LineKinds) /\ Len(l) = n
    BY <2>2, REMaxLinesAssumption
  <2>4. QED
    BY <2>2, <2>3
<1>3. QED
  BY <1>1, <1>2 DEF Traces

LEMMA InitRenoInv == Init => RenoInv
<1> SUFFICES ASSUME Init PROVE RenoInv
  OBVIOUS
<1>1. trace \in Traces
  BY DEF Init
<1>2. Len(trace.lines) \in 0..MaxLines
  BY <1>1, TraceLines
<1>3. TypeOK
  <2>1. k \in 1..MaxLines + 1
    BY REMaxLinesAssumption DEF Init
  <2>2. times \in Seq(1..MaxLines) /\ cwnds \in Seq(1..MaxLines)
    BY DEF Init
  <2>3. pc \in {"simulate", "running", "open", "parse", "plot"} \cup Terminal
    BY DEF Init
  <2>4. hung \in BOOLEAN
    BY DEF Init
  <2>5. QED
    BY <1>1, <2>1, <2>2, <2>3, <2>4 DEF TypeOK
<1>4. ReadInTrace
  BY <1>2 DEF Init, ReadInTrace
<1>5. cwnds = <<>> /\ SampleLinesRead = {}
  BY DEF Init, SampleLinesRead
<1>6. QED
  BY <1>3, <1>4, <1>5 DEF RenoInv, CwndsIncreasing, CwndsAreSamples

\* One iteration of the parsing loop appends line k to cwnds exactly when
\* line k is a sample, so both halves of CwndsFromSamples carry over to k+1.
LEMMA ParseLineRenoInv ==
    ASSUME RenoInv, ParseLine
    PROVE  RenoInv'
<1> DEFINE kind == trace.lines[k]
<1>1. /\ trace \in Traces /\ trace' = trace /\ pc' = pc /\ hung' = hung
      /\ pc = "parse" /\ k \in 1..Len(trace.lines) /\ k' = k + 1
  BY DEF ParseLine, RenoInv, TypeOK, ReadInTrace
<1>2. /\ trace.lines \in Seq(LineKinds)
      /\ Len(trace.lines) \in 0..MaxLines
  BY <1>1, TraceLines
<1>3. k \in 1..MaxLines
  BY <1>1, <1>2, REMaxLinesAssumption
<1>4. TypeOK'
  <2>1. /\ times \in Seq(1..MaxLines) /\ cwnds \in Seq(1..MaxLines)
        /\ Append(times, k) \in Seq(1..MaxLines)
        /\ Append(cwnds, k) \in Seq(1..MaxLines)
    BY <1>3 DEF RenoInv, TypeOK
  <2>4. times' \in Seq(1..MaxLines) /\ cwnds' \in Seq(1..MaxLines)
    BY <2>1 DEF ParseLine
  <2>2. k' \in 1..MaxLines + 1
    BY <1>1, <1>3, REMaxLinesAssumption
  <2>3. QED
    BY <1>1, <2>4, <2>2 DEF RenoInv, TypeOK
<1>5. ReadInTrace'
  BY <1>1 DEF ReadInTrace
<1>6. \A j \in DOMAIN cwnds : cwnds[j] < k
  <2> SUFFICES ASSUME NEW j \in DOMAIN cwnds PROVE cwnds[j] < k
    OBVIOUS
  <2>1. cwnds[j] \in SampleLinesRead
    BY DEF RenoInv, CwndsAreSamples
  <2>2. QED
    BY <1>1, <2>1 DEF SampleLinesRead
<1>7. CASE kind = "sample"
  <2>1. cwnds' = Append(cwnds, k)
    BY <1>7 DEF ParseLine
  <2>2. cwnds \in Seq(1..MaxLines)
    BY DEF RenoInv, TypeOK
  <2>3. CwndsIncreasing'
    BY <1>6, <2>1, <2>2 DEF RenoInv, CwndsIncreasing
  <2>4. SampleLinesRead' = SampleLinesRead \cup {k}
    BY <1>1, <1>7 DEF SampleLinesRead
  <2>5. {cwnds'[j] : j \in DOMAIN cwnds'}
          = {cwnds[j] : j \in DOMAIN cwnds} \cup {k}
    BY <2>1, <2>2
  <2>6. CwndsAreSamples'
    BY <2>4, <2>5 DEF RenoInv, CwndsAreSamples
  <2>7. QED
    BY <1>4, <1>5, <2>3, <2>6 DEF RenoInv
<1>8. CASE kind # "sample"
  <2>1. cwnds' = cwnds
    BY <1>8 DEF ParseLine
  <2>2. SampleLinesRead' = SampleLinesRead
    BY <1>1, <1>8 DEF SampleLinesRead
  <2>3. QED
    BY <1>4, <1>5, <2>1, <2>2
       DEF RenoInv, CwndsIncreasing, CwndsAreSamples
<1>9. QED
  BY <1>7, <1>8

LEMMA NextRenoInv == RenoInv /\ [Next]_vars => RenoInv'
<1> SUFFICES ASSUME RenoInv, [Next]_vars PROVE RenoInv'
  OBVIOUS
<1> USE DEF RenoInv, TypeOK, Terminal, ReadInTrace, CwndsIncreasing, CwndsAreSamples,
            SampleLinesRead
<1>1. CASE RunSimulation
  BY <1>1 DEF RunSimulation
<1>2. CASE SimCompleted
  <2>1. trace' \in Traces
    BY <1>2 DEF SimCompleted, Traces
  <2>2. Len(trace'.lines) \in 0..MaxLines
    BY <2>1, TraceLines
  <2>3. k = 1 /\ k' = 1 /\ cwnds' = cwnds /\ pc' = "open"
    BY <1>2 DEF SimCompleted
  <2>4. QED
    BY <1>2, <2>1, <2>2, <2>3 DEF SimCompleted
<1>3. CASE SimFailed \/ SimLaunchError \/ TraceMissing \/ OpenTrace
  BY <1>3 DEF SimFailed, SimLaunchError, TraceMissing, OpenTrace
<1>4. CASE ParseLine
  BY <1>4, ParseLineRenoInv
<1>5. CASE ParseDone \/ PlotCwnd
  BY <1>5 DEF ParseDone, PlotCwnd
<1>6. CASE UNCHANGED vars
  BY <1>6 DEF vars
<1>7. QED
  BY <1>1, <1>2, <1>3, <1>4, <1>5, <1>6 DEF Next

(***************************************************************************)
(* parse_cwnd_file keeps the cwnd of every well-formed sample line and of  *)
(* no other line, one per line and in file order (CwndsFromSamples,        *)
(* checked by the run reno_equilibrium), whatever trace the simulator or  *)
(* an earlier run left and however long it is: the try/except around the  *)
(* split and the two conversions never lets a bad line append a cwnd.     *)
(***************************************************************************)
THEOREM RenoCwndsFromSamples == Spec => []CwndsFromSamples
<1>1. Init => RenoInv
  BY InitRenoInv
<1>2. RenoInv /\ [Next]_vars => RenoInv'
  BY NextRenoInv
<1>3. RenoInv => CwndsFromSamples
  BY DEF RenoInv, CwndsFromSamples, CwndsIncreasing, CwndsAreSamples,
         ReadInTrace
<1>4. QED
  BY <1>1, <1>2, <1>3, PTL DEF Spec

(***************************************************************************)
(* The model's state stays well typed (TypeOK): in particular the loop     *)
(* index k never runs past MaxLines + 1, so trace.lines[k] is only read    *)
(* inside the trace.                                                       *)
(***************************************************************************)
THEOREM RenoTypeCorrect == Spec => []TypeOK
<1>1. RenoInv => TypeOK
  BY DEF RenoInv
<1>2. QED
  BY <1>1, InitRenoInv, NextRenoInv, PTL DEF Spec

=============================================================================
