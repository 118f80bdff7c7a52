------------------------- MODULE FanoutPipelineProofs -------------------------
(***************************************************************************)
(* Proofs about FanoutPipeline, for every choice of the two variants, of   *)
(* the value set and of the bound on per-flow rows.                        *)
(***************************************************************************)
EXTENDS FanoutPipeline, TLAPS

(***************************************************************************)
(* TypeOK is not inductive by itself: SimCompleted, SimFailed and          *)
(* SimTimedOut index TCP_VARIANTS[i] and increment i, which is only well   *)
(* typed because run_simulation is entered with the loop index in range.   *)
(***************************************************************************)
TypeInv ==
    /\ TypeOK
    /\ pc = "running" => i \in 1..NumVariants

\* The loop index names a variant.
LEMMA VariantAt ==
    ASSUME NEW j \in 1..NumVariants
    PROVE  TCP_VARIANTS[j] \in Variants
BY DEF TCP_VARIANTS, Variants, NumVariants

\* Whatever a simulator writes is a possible file content.
LEMMA WrittenFiles ==
    /\ AggRow("new") \subseteq AggFile
    /\ AggWritten \subseteq AggFile
    /\ PerflowRows("new") \subseteq PerflowFile
    /\ PerflowWritten \subseteq PerflowFile
<1>1. AggRow("new") \subseteq AggFile
  BY Zenon DEF AggFile
<1>2. [kind: {"unparsable"}, gen: {"new"}] \subseteq AggFile
  BY Zenon DEF AggFile, Gen
<1>3. PerflowRows("new") \subseteq PerflowFile
  BY Zenon DEF PerflowFile
<1>4. [kind: {"unparsable"}, gen: {"new"}] \subseteq PerflowFile
  BY Zenon DEF PerflowFile, Gen
<1>5. QED
  BY <1>1, <1>2, <1>3, <1>4 DEF AggWritten, PerflowWritten

\* A file parse_csv reads a row from yields a well-typed record.
LEMMA ParseCsvType ==
    ASSUME NEW f \in AggFile, f.kind = "row"
    PROVE  ParseCsv(f) \in AggRecord
BY DEF AggFile, AggRow, ParseCsv, AggRecord, Gen

\* A per-flow file with rows, at least one, yields a well-typed record.
LEMMA PerflowType ==
    ASSUME NEW f \in PerflowFile, f.kind = "rows", f.rows > 0
    PROVE  [rows |-> f.rows, gen |-> f.gen] \in PerflowRecord
BY MaxFlowsAssumption DEF PerflowFile, PerflowRows, PerflowRecord, Gen

\* A run step rewrites one variant's files with possible contents.
LEMMA WriteType ==
    ASSUME TypeOK, NEW v \in Variants, CompleteWrite(v) \/ PartialWrite(v)
    PROVE  files' \in [Variants -> [agg: AggFile, perflow: PerflowFile]]
<1>1. CASE CompleteWrite(v)
  BY <1>1, WrittenFiles DEF CompleteWrite, TypeOK
<1>2. CASE PartialWrite(v)
  BY <1>2, WrittenFiles DEF PartialWrite, TypeOK
<1>3. QED
  BY <1>1, <1>2

LEMMA InitTypeInv == Init => TypeInv
<1> SUFFICES ASSUME Init PROVE TypeInv
  OBVIOUS
<1>1. files \in [Variants -> [agg: AggFile, perflow: PerflowFile]]
  BY DEF Init, LeftOver
<1>2. /\ DOMAIN results \subseteq Variants
      /\ results \in [DOMAIN results -> AggRecord]
      /\ DOMAIN perflowData \subseteq Variants
      /\ perflowData \in [DOMAIN perflowData -> PerflowRecord]
  BY DEF Init
<1>3. pc \in {"run_loop", "load_agg"}
  BY DEF Init
<1>4. outcome \in [Variants -> Outcome]
  BY DEF Init, Outcome
<1>5. i \in 1..NumVariants + 1
  BY DEF Init, NumVariants
<1>6. charts \subseteq ChartKinds \X Variants
  BY DEF Init
<1>7. hung \in BOOLEAN /\ skipSim \in BOOLEAN /\ hasMatplotlib \in BOOLEAN
  BY Zenon DEF Init
<1>8. QED
  BY <1>1, <1>2, <1>3, <1>4, <1>5, <1>6, <1>7 DEF TypeInv, TypeOK, Terminal

LEMMA NextTypeInv == TypeInv /\ [Next]_vars => TypeInv'
<1> SUFFICES ASSUME TypeInv, [Next]_vars
             PROVE  TypeInv'
  OBVIOUS
<1> USE DEF TypeInv, TypeOK, Terminal, NumVariants
<1>1. CASE RunSimulation
  BY <1>1 DEF RunSimulation
<1>2. CASE RunsFinished
  BY <1>2 DEF RunsFinished
<1>3. ASSUME NEW result \in Outcome,
             pc = "running",
             CompleteWrite(TCP_VARIANTS[i]) \/ PartialWrite(TCP_VARIANTS[i]),
             EndRun(TCP_VARIANTS[i], result)
      PROVE  TypeInv'
  <2>1. TCP_VARIANTS[i] \in Variants
    BY <1>3, VariantAt
  <2>2. files' \in [Variants -> [agg: AggFile, perflow: PerflowFile]]
    BY <1>3, <2>1, WriteType
  <2>3. i' \in 1..NumVariants + 1 /\ pc' = "run_loop"
    BY <1>3 DEF EndRun
  <2>4. outcome' \in [Variants -> Outcome]
    BY <1>3, <2>1 DEF EndRun
  <2>5. QED
    BY <1>3, <2>2, <2>3, <2>4 DEF EndRun
<1>4. CASE SimCompleted
  BY <1>4, <1>3 DEF SimCompleted, Outcome
<1>5. CASE SimFailed
  BY <1>5, <1>3 DEF SimFailed, Outcome
<1>6. CASE SimTimedOut
  BY <1>6, <1>3 DEF SimTimedOut, Outcome
<1>7. CASE LoadAggregate
  BY <1>7, ParseCsvType DEF LoadAggregate
<1>8. CASE LoadPerflow
  BY <1>8, PerflowType DEF LoadPerflow
<1>9. CASE PrintSummary
  BY <1>9 DEF PrintSummary
<1>10. CASE GenerateAggregatePlots
  BY <1>10 DEF GenerateAggregatePlots, ChartKinds
<1>11. CASE GeneratePerflowPlots
  BY <1>11 DEF GeneratePerflowPlots, ChartKinds
<1>12. CASE GenerateCwndPlots
  BY <1>12 DEF GenerateCwndPlots, ChartKinds
<1>13. CASE OrphanWrites
  <2>1. PICK v \in Variants : PartialWrite(v)
    BY <1>13 DEF OrphanWrites
  <2>2. QED
    BY <1>13, <2>1, WriteType DEF OrphanWrites
<1>14. CASE UNCHANGED vars
  BY <1>14 DEF vars
<1>15. QED
  BY <1>1, <1>2, <1>4, <1>5, <1>6, <1>7, <1>8, <1>9, <1>10, <1>11, <1>12,
     <1>13, <1>14 DEF Next, ScriptStep

(***************************************************************************)
(* Every state of main() is well typed: in particular the dicts results    *)
(* and perflow_data only ever hold variants of TCP_VARIANTS, and a         *)
(* per-flow entry has at least one flow ("if flows:").                     *)
(***************************************************************************)
THEOREM TypeCorrect == Spec => []TypeOK
<1>1. Init => TypeInv
  BY InitTypeInv
<1>2. TypeInv /\ [Next]_vars => TypeInv'
  BY NextTypeInv
<1>3. TypeInv => TypeOK
  BY DEF TypeInv
<1>4. QED
  BY <1>1, <1>2, <1>3, PTL DEF Spec

-----------------------------------------------------------------------------
(***************************************************************************)
(* BatchSurvivesFailures.  The strengthening says what each phase of       *)
(* main() has established:                                                 *)
(*   RunIndex: the variants before the loop index have been run, the      *)
(*     others not, and the loop is over once loading starts;              *)
(*   OkFilesFresh: a variant whose run succeeded still has both files it  *)
(*     wrote (a later run only writes its own variant's files);           *)
(*   LoadedFromFiles: once loaded, the dicts hold what the files of a     *)
(*     variant that did not time out hold (an orphaned simulator may have *)
(*     rewritten a timed-out variant's files since);                      *)
(*   ChartsDrawn: each plotting step drew every variant of its dict.      *)
(***************************************************************************)
AfterRuns == {"load_agg", "load_perflow", "summary", "plot_agg",
              "plot_perflow", "plot_cwnd"} \cup Terminal
AfterLoadAgg == AfterRuns \ {"load_agg"}
AfterLoadPerflow == AfterLoadAgg \ {"load_perflow"}
Plotting == {"plot_agg", "plot_perflow", "plot_cwnd"}

RunIndex ==
    ~skipSim =>
        /\ \A j \in 1..NumVariants :
               (outcome[TCP_VARIANTS[j]] # "not_run") <=> (j < i)
        /\ pc \in AfterRuns => i = NumVariants + 1

OkFilesFresh ==
    \A v \in Variants :
        outcome[v] = "ok" =>
            /\ files[v].agg.kind = "row"
            /\ files[v].agg.gen = "new"
            /\ files[v].perflow.kind = "rows"
            /\ files[v].perflow.gen = "new"

LoadedFromFiles ==
    /\ pc \in AfterLoadAgg =>
         \A v \in Variants : outcome[v] # "timeout" =>
             /\ v \in DOMAIN results <=> files[v].agg.kind = "row"
             /\ v \in DOMAIN results => results[v].gen = files[v].agg.gen
    /\ pc \in AfterLoadPerflow =>
         \A v \in DOMAIN perflowData : outcome[v] # "timeout" =>
             perflowData[v].gen = files[v].perflow.gen

ChartsDrawn ==
    /\ pc \in Plotting => hasMatplotlib
    /\ pc \in {"plot_perflow", "plot_cwnd"} \/ (pc = "done" /\ hasMatplotlib) =>
         {"aggregate"} \X DOMAIN results \subseteq charts
    /\ pc = "plot_cwnd" \/ (pc = "done" /\ hasMatplotlib) =>
         {"throughput_flows"} \X DOMAIN perflowData \subseteq charts
    /\ pc = "done" /\ hasMatplotlib =>
         {"cwnd"} \X DOMAIN results \subseteq charts

IInv ==
    /\ TypeInv
    /\ RunIndex
    /\ OkFilesFresh
    /\ LoadedFromFiles
    /\ ChartsDrawn

\* The two variants are distinct, so the loop index identifies one.
LEMMA VariantIndex ==
    /\ \A j, k \in 1..NumVariants : TCP_VARIANTS[j] = TCP_VARIANTS[k] => j = k
    /\ \A v \in Variants : \E j \in 1..NumVariants : TCP_VARIANTS[j] = v
BY VariantsAssumption DEF TCP_VARIANTS, Variants, NumVariants

LEMMA InitIInv == Init => IInv
<1> SUFFICES ASSUME Init PROVE IInv
  OBVIOUS
<1>1. TypeInv
  BY InitTypeInv
<1>2. RunIndex
  <2>1. \A j \in 1..NumVariants : outcome[TCP_VARIANTS[j]] = "not_run"
    BY VariantAt DEF Init
  <2>2. ~skipSim => pc = "run_loop" /\ i = 1
    BY DEF Init
  <2>3. QED
    BY <2>1, <2>2 DEF RunIndex, AfterRuns, Terminal, NumVariants
<1>3. OkFilesFresh /\ LoadedFromFiles /\ ChartsDrawn
  BY DEF Init, OkFilesFresh, LoadedFromFiles, ChartsDrawn, AfterLoadAgg,
         AfterLoadPerflow, AfterRuns, Terminal, Plotting
<1>4. QED
  BY <1>1, <1>2, <1>3 DEF IInv

\* A step that ends run_simulation keeps the strengthening.
LEMMA EndRunIInv ==
    ASSUME IInv,
           NEW result \in Outcome \ {"not_run"},
           pc = "running",
           \/ CompleteWrite(TCP_VARIANTS[i]) /\ result = "ok"
           \/ PartialWrite(TCP_VARIANTS[i]) /\ result # "ok",
           EndRun(TCP_VARIANTS[i], result)
    PROVE  RunIndex' /\ OkFilesFresh' /\ LoadedFromFiles' /\ ChartsDrawn'
<1> DEFINE v == TCP_VARIANTS[i]
<1>1. i \in 1..NumVariants /\ v \in Variants
  BY VariantAt DEF IInv, TypeInv
<1>2. outcome' = [outcome EXCEPT ![v] = result] /\ i' = i + 1
      /\ pc' = "run_loop" /\ UNCHANGED skipSim
  BY DEF EndRun
<1>3. RunIndex'
  <2> SUFFICES ASSUME ~skipSim, NEW j \in 1..NumVariants
               PROVE  (outcome'[TCP_VARIANTS[j]] # "not_run") <=> (j < i')
    BY <1>2 DEF RunIndex, AfterRuns, Terminal
  <2>1. CASE j = i
    BY <1>1, <1>2, <2>1 DEF IInv, TypeInv, TypeOK
  <2>2. CASE j # i
    <3>1. TCP_VARIANTS[j] # v /\ TCP_VARIANTS[j] \in Variants
      BY <1>1, <2>2, VariantIndex, VariantAt
    <3>2. outcome'[TCP_VARIANTS[j]] = outcome[TCP_VARIANTS[j]]
      BY <1>1, <1>2, <3>1 DEF IInv, TypeInv, TypeOK
    <3>3. (outcome[TCP_VARIANTS[j]] # "not_run") <=> (j < i)
      BY DEF IInv, RunIndex
    <3>4. QED
      BY <1>1, <1>2, <2>2, <3>2, <3>3
  <2>3. QED
    BY <2>1, <2>2
<1>4. OkFilesFresh'
  <2> SUFFICES ASSUME NEW w \in Variants, outcome'[w] = "ok"
               PROVE  /\ files'[w].agg.kind = "row"
                      /\ files'[w].agg.gen = "new"
                      /\ files'[w].perflow.kind = "rows"
                      /\ files'[w].perflow.gen = "new"
    BY DEF OkFilesFresh
  <2>1. CASE w = v
    <3>1. result = "ok"
      BY <1>1, <1>2, <2>1 DEF IInv, TypeInv, TypeOK
    <3>2. CompleteWrite(v)
      BY <3>1
    <3>3. QED
      BY <1>1, <2>1, <3>2 DEF CompleteWrite, AggRow, PerflowRows, IInv,
                              TypeInv, TypeOK
  <2>2. CASE w # v
    <3>1. outcome[w] = "ok" /\ files'[w] = files[w]
      BY <1>1, <1>2, <2>2 DEF CompleteWrite, PartialWrite, IInv, TypeInv,
                              TypeOK
    <3>2. QED
      BY <3>1 DEF IInv, OkFilesFresh
  <2>3. QED
    BY <2>1, <2>2
<1>5. LoadedFromFiles' /\ ChartsDrawn'
  BY <1>2 DEF LoadedFromFiles, ChartsDrawn, AfterLoadAgg, AfterLoadPerflow,
              AfterRuns, Terminal, Plotting
<1>6. QED
  BY <1>3, <1>4, <1>5

LEMMA NextIInv == IInv /\ [Next]_vars => IInv'
<1> SUFFICES ASSUME IInv, [Next]_vars
             PROVE  IInv'
  OBVIOUS
<1>0. TypeInv'
  BY NextTypeInv DEF IInv
<1> USE DEF IInv
<1>1. CASE RunSimulation
  BY <1>0, <1>1 DEF RunSimulation, RunIndex, OkFilesFresh, LoadedFromFiles,
                    ChartsDrawn, AfterLoadAgg, AfterLoadPerflow, AfterRuns,
                    Terminal, Plotting
<1>2. CASE RunsFinished
  BY <1>0, <1>2 DEF RunsFinished, RunIndex, OkFilesFresh, LoadedFromFiles,
                    ChartsDrawn, AfterLoadAgg, AfterLoadPerflow, AfterRuns,
                    Terminal, Plotting, TypeInv, TypeOK, NumVariants
<1>3. CASE SimCompleted
  BY <1>0, <1>3, EndRunIInv DEF SimCompleted, Outcome
<1>4. CASE SimFailed
  BY <1>0, <1>4, EndRunIInv DEF SimFailed, Outcome
<1>5. CASE SimTimedOut
  BY <1>0, <1>5, EndRunIInv DEF SimTimedOut, Outcome
<1>6. CASE LoadAggregate
  <2>1. RunIndex' /\ OkFilesFresh' /\ ChartsDrawn'
    BY <1>6 DEF LoadAggregate, RunIndex, OkFilesFresh, ChartsDrawn,
                AfterRuns, Terminal, Plotting
  <2>2. LoadedFromFiles'
    BY <1>6 DEF LoadAggregate, LoadedFromFiles, ParseCsv, AfterLoadPerflow,
                AfterLoadAgg, AfterRuns, Terminal
  <2>3. QED
    BY <1>0, <2>1, <2>2
<1>7. CASE LoadPerflow
  <2>1. RunIndex' /\ OkFilesFresh' /\ ChartsDrawn'
    BY <1>7 DEF LoadPerflow, RunIndex, OkFilesFresh, ChartsDrawn,
                AfterRuns, Terminal, Plotting
  <2>2. LoadedFromFiles'
    BY <1>7 DEF LoadPerflow, LoadedFromFiles, AfterLoadPerflow,
                AfterLoadAgg, AfterRuns, Terminal
  <2>3. QED
    BY <1>0, <2>1, <2>2
<1>8. CASE PrintSummary
  <2>1. pc' = "plot_agg" => hasMatplotlib
    BY <1>8 DEF PrintSummary
  <2>2. pc' = "done" => ~hasMatplotlib
    BY <1>8 DEF PrintSummary
  <2>3. pc' \in {"crashed", "plot_agg", "done"}
    BY <1>8 DEF PrintSummary
  <2>4. QED
    BY <1>0, <1>8, <2>1, <2>2, <2>3
       DEF PrintSummary, RunIndex, OkFilesFresh, LoadedFromFiles, ChartsDrawn,
           AfterLoadAgg, AfterLoadPerflow, AfterRuns, Terminal, Plotting
<1>9. CASE GenerateAggregatePlots
  BY <1>0, <1>9 DEF GenerateAggregatePlots, RunIndex, OkFilesFresh,
                    LoadedFromFiles, ChartsDrawn, AfterLoadAgg,
                    AfterLoadPerflow, AfterRuns, Terminal, Plotting
<1>10. CASE GeneratePerflowPlots
  BY <1>0, <1>10 DEF GeneratePerflowPlots, RunIndex, OkFilesFresh,
                     LoadedFromFiles, ChartsDrawn, AfterLoadAgg,
                     AfterLoadPerflow, AfterRuns, Terminal, Plotting
<1>11. CASE GenerateCwndPlots
  BY <1>0, <1>11 DEF GenerateCwndPlots, RunIndex, OkFilesFresh,
                     LoadedFromFiles, ChartsDrawn, AfterLoadAgg,
                     AfterLoadPerflow, AfterRuns, Terminal, Plotting
<1>12. CASE UNCHANGED vars
  BY <1>0, <1>12 DEF vars, RunIndex, OkFilesFresh, LoadedFromFiles,
                     ChartsDrawn
<1>13. CASE OrphanWrites
  \* The orphan writes the files of a timed-out variant only: no ok
  \* variant's files, and none LoadedFromFiles speaks of.
  <2>1. PICK v \in Variants : outcome[v] = "timeout" /\ PartialWrite(v)
    BY <1>13 DEF OrphanWrites
  <2>2. \A w \in Variants : w # v => files'[w] = files[w]
    BY <2>1 DEF PartialWrite, TypeInv, TypeOK
  <2>3. UNCHANGED <<pc, i, outcome, results, perflowData, charts, skipSim,
                   hasMatplotlib>>
    BY <1>13 DEF OrphanWrites
  <2>4. RunIndex' /\ ChartsDrawn'
    BY <2>3 DEF RunIndex, ChartsDrawn
  <2>5. OkFilesFresh'
    BY <2>1, <2>2, <2>3 DEF OkFilesFresh
  <2>6. \A w \in Variants : outcome[w] # "timeout" => files'[w] = files[w]
    BY <2>1, <2>2
  <2>8. LoadedFromFiles'
    <3>1. pc' = pc /\ outcome' = outcome /\ results' = results
          /\ perflowData' = perflowData
      BY <2>3
    <3>2. QED
      BY <3>1, <2>6 DEF LoadedFromFiles, IInv, TypeInv, TypeOK
  <2>7. QED
    BY <1>0, <2>4, <2>5, <2>8
<1>14. QED
  BY <1>1, <1>2, <1>3, <1>4, <1>5, <1>6, <1>7, <1>8, <1>9, <1>10, <1>11,
     <1>12, <1>13 DEF Next, ScriptStep

LEMMA IInvSafe == IInv => BatchSurvivesFailures
<1> SUFFICES ASSUME IInv, pc = "done", ~skipSim, NEW v \in Variants
             PROVE  /\ outcome[v] # "not_run"
                    /\ outcome[v] = "ok" => FreshlyReported(v)
  BY DEF BatchSurvivesFailures
<1>1. PICK j \in 1..NumVariants : TCP_VARIANTS[j] = v
  BY VariantIndex
<1>2. outcome[v] # "not_run"
  BY <1>1 DEF IInv, RunIndex, AfterRuns, Terminal, NumVariants
<1>3. ASSUME outcome[v] = "ok" PROVE FreshlyReported(v)
  <2>1. files[v].agg.kind = "row" /\ files[v].agg.gen = "new"
        /\ files[v].perflow.gen = "new"
    BY <1>3 DEF IInv, OkFilesFresh
  <2>2. v \in DOMAIN results /\ results[v].gen = "new"
    BY <1>3, <2>1 DEF IInv, LoadedFromFiles, AfterLoadAgg, AfterRuns, Terminal
  <2>3. v \in DOMAIN perflowData => perflowData[v].gen = "new"
    BY <1>3, <2>1 DEF IInv, LoadedFromFiles, AfterLoadPerflow, AfterLoadAgg,
                AfterRuns, Terminal
  <2>4. hasMatplotlib =>
          /\ {<<"aggregate", v>>, <<"cwnd", v>>} \subseteq charts
          /\ v \in DOMAIN perflowData => <<"throughput_flows", v>> \in charts
    BY <2>2 DEF IInv, ChartsDrawn
  <2>5. QED
    BY <2>2, <2>3, <2>4 DEF FreshlyReported
<1>4. QED
  BY <1>2, <1>3

(***************************************************************************)
(* The batch survives failed and timed-out simulations: whenever main()    *)
(* completes after running the simulations, every variant was attempted    *)
(* and each one whose simulation succeeded is reported, in the summary and *)
(* in every chart drawn, from the files written by this invocation.        *)
(***************************************************************************)
THEOREM BatchSurvives == Spec => []BatchSurvivesFailures
<1>1. Init => IInv
  BY InitIInv
<1>2. IInv /\ [Next]_vars => IInv'
  BY NextIInv
<1>3. IInv => BatchSurvivesFailures
  BY IInvSafe
<1>4. QED
  BY <1>1, <1>2, <1>3, PTL DEF Spec


-----------------------------------------------------------------------------
\* The simulation loop runs only without --skip-sim (used by the refinement).
SimOnlyWithoutSkip == pc \in {"run_loop", "running"} => ~skipSim

LEMMA InitSkip == Init => SimOnlyWithoutSkip
BY DEF Init, SimOnlyWithoutSkip

LEMMA NextSkip == SimOnlyWithoutSkip /\ [Next]_vars => SimOnlyWithoutSkip'
BY DEF SimOnlyWithoutSkip, Next, ScriptStep, vars, RunSimulation,
       RunsFinished, SimCompleted, SimFailed, SimTimedOut, EndRun,
       OrphanWrites, LoadAggregate, LoadPerflow, PrintSummary,
       GenerateAggregatePlots, GeneratePerflowPlots, GenerateCwndPlots

=============================================================================
