------------------------ MODULE MultiRttPipelineProofs ------------------------
(***************************************************************************)
(* Proofs about MultiRttPipeline, for every pair of distinct variants and  *)
(* every choice of the throughput values and of the flow counts.           *)
(***************************************************************************)
EXTENDS MultiRttPipeline, TLAPS

(***************************************************************************)
(* ResultsFresh speaks only of all_results, but why it holds is spread     *)
(* over the earlier steps of main():                                       *)
(*   LoopIndex: the loop index is in range, and names a variant while a    *)
(*     simulation runs;                                                    *)
(*   OkFilesFresh: a variant whose simulation succeeded has the file that  *)
(*     simulation wrote (a later run only writes its own variant's file);  *)
(*   NothingLoadedBefore: all_results is empty until the loading loop;     *)
(*   LoadOnlyAfterSuccess: the loading loop is entered only when every     *)
(*     simulation succeeded (the all(simulation_success.values()) check).  *)
(***************************************************************************)
LoopIndex ==
    /\ i \in 1..3
    /\ pc = "running" => i \in 1..2

OkFilesFresh ==
    \A v \in Variants : outcome[v] = "ok" => files[v].gen = "new"

NothingLoadedBefore ==
    pc \in {"run_loop", "running", "load"} => DOMAIN allResults = {}

LoadOnlyAfterSuccess ==
    pc = "load" => \A v \in Variants : outcome[v] = "ok"

FreshInv ==
    /\ outcome \in [Variants -> Outcome]
    /\ DOMAIN files = Variants
    /\ LoopIndex
    /\ OkFilesFresh
    /\ NothingLoadedBefore
    /\ LoadOnlyAfterSuccess
    /\ ResultsFresh

\* The loop index names a variant.
LEMMA VariantAt ==
    ASSUME NEW j \in 1..2
    PROVE  variants[j] \in Variants
BY DEF variants, Variants

LEMMA InitFreshInv == Init => FreshInv
BY DEF Init, FreshInv, LoopIndex, OkFilesFresh, NothingLoadedBefore,
       LoadOnlyAfterSuccess, ResultsFresh, Outcome

\* A step that ends run_simulation keeps the strengthening: it changes the
\* outcome and the file of variants[i] only, before anything is loaded.
LEMMA EndRunFreshInv ==
    ASSUME FreshInv,
           NEW result \in Outcome \ {"not_run"},
           pc = "running",
           \/ /\ \E l \in FlowLists :
                    files' = [files EXCEPT ![variants[i]] = Row("new", l)]
              /\ result = "ok"
           \/ /\ \E f \in {files[variants[i]]}
                           \cup {Row("new", l) : l \in Truncated} :
                    files' = [files EXCEPT ![variants[i]] = f]
              /\ result # "ok",
           EndRun(variants[i], result)
    PROVE  FreshInv'
<1> DEFINE v == variants[i]
<1>1. i \in 1..2 /\ v \in Variants
  BY VariantAt DEF FreshInv, LoopIndex
<1>2. /\ outcome' = [outcome EXCEPT ![v] = result]
      /\ i' = i + 1 /\ pc' = "run_loop" /\ allResults' = allResults
  BY DEF EndRun
<1>3. DOMAIN allResults = {}
  BY DEF FreshInv, NothingLoadedBefore
<1>4. outcome' \in [Variants -> Outcome] /\ DOMAIN files' = Variants
  BY <1>1, <1>2 DEF FreshInv
<1>5. OkFilesFresh'
  <2> SUFFICES ASSUME NEW w \in Variants, outcome'[w] = "ok"
               PROVE  files'[w].gen = "new"
    BY DEF OkFilesFresh
  <2>1. CASE w = v
    <3>1. result = "ok"
      BY <1>1, <1>2, <2>1 DEF FreshInv
    <3>2. PICK l \in FlowLists :
            files' = [files EXCEPT ![v] = Row("new", l)]
      BY <3>1
    <3>3. QED
      BY <1>1, <2>1, <3>2 DEF FreshInv, Row
  <2>2. CASE w # v
    <3>1. outcome[w] = "ok" /\ files'[w] = files[w]
      BY <1>1, <1>2, <2>2 DEF FreshInv
    <3>2. QED
      BY <3>1 DEF FreshInv, OkFilesFresh
  <2>3. QED
    BY <2>1, <2>2
<1>6. QED
  BY <1>1, <1>2, <1>3, <1>4, <1>5
     DEF FreshInv, LoopIndex, NothingLoadedBefore, LoadOnlyAfterSuccess,
         ResultsFresh

\* The loading loop stores, for each readable variant, the gen of its file.
LEMMA LoadResultsFresh ==
    ASSUME FreshInv, LoadResults
    PROVE  FreshInv'
<1>1. pc = "load" /\ \A v \in Variants : outcome[v] = "ok"
  BY DEF LoadResults, FreshInv, LoadOnlyAfterSuccess
<1>2. UNCHANGED <<i, outcome, files>>
  BY DEF LoadResults
<1>3. pc' \in {"crashed", "no_results", "summary"}
  BY DEF LoadResults
<1>4. ResultsFresh'
  <2>1. CASE UNCHANGED allResults
    BY <1>1, <2>1 DEF FreshInv, NothingLoadedBefore, ResultsFresh
  <2>2. CASE allResults' = [v \in Readable |->
                               [flows |-> files[v].tputs,
                                stats |-> CalculateStats(files[v].tputs),
                                gen   |-> files[v].gen]]
    <3> SUFFICES ASSUME NEW v \in DOMAIN allResults'
                 PROVE  outcome'[v] = "ok" /\ allResults'[v].gen = "new"
      BY DEF ResultsFresh
    <3>1. v \in Variants /\ allResults'[v].gen = files[v].gen
      BY <2>2 DEF Readable
    <3>2. QED
      BY <1>1, <1>2, <3>1 DEF FreshInv, OkFilesFresh
  <2>3. QED
    BY <2>1, <2>2 DEF LoadResults
<1>5. QED
  BY <1>2, <1>3, <1>4
     DEF FreshInv, LoopIndex, OkFilesFresh, NothingLoadedBefore,
         LoadOnlyAfterSuccess

LEMMA NextFreshInv == FreshInv /\ [Next]_vars => FreshInv'
<1> SUFFICES ASSUME FreshInv, [Next]_vars PROVE FreshInv'
  OBVIOUS
<1>1. CASE RunSimulation
  BY <1>1 DEF RunSimulation, FreshInv, LoopIndex, OkFilesFresh,
              NothingLoadedBefore, LoadOnlyAfterSuccess, ResultsFresh
<1>2. CASE SimCompleted
  BY <1>2, EndRunFreshInv DEF SimCompleted, Outcome
<1>3. CASE SimFailed
  BY <1>3, EndRunFreshInv DEF SimFailed, Outcome
<1>4. CASE SimLaunchError \/ SomeFailed \/ PrintSummary
              \/ GenerateComparisonPlots \/ PlotCwndProgress
  BY <1>4 DEF SimLaunchError, SomeFailed, PrintSummary,
              GenerateComparisonPlots, PlotCwndProgress, FreshInv, LoopIndex,
              OkFilesFresh, NothingLoadedBefore, LoadOnlyAfterSuccess,
              ResultsFresh
<1>5. CASE AllSucceeded
  BY <1>5 DEF AllSucceeded, FreshInv, LoopIndex, OkFilesFresh,
              NothingLoadedBefore, LoadOnlyAfterSuccess, ResultsFresh
<1>6. CASE LoadResults
  BY <1>6, LoadResultsFresh
<1>7. CASE UNCHANGED vars
  BY <1>7 DEF vars, FreshInv, LoopIndex, OkFilesFresh, NothingLoadedBefore,
              LoadOnlyAfterSuccess, ResultsFresh
<1>8. QED
  BY <1>1, <1>2, <1>3, <1>4, <1>5, <1>6, <1>7 DEF Next

(***************************************************************************)
(* The all(simulation_success.values()) check of main() keeps stale data   *)
(* out of the analysis (ResultsFresh, checked by the run                   *)
(* multirtt_pipeline): whatever files an earlier invocation left and       *)
(* whatever prefixes a failed simulator wrote, every variant in            *)
(* all_results was simulated successfully by this invocation and its rows  *)
(* are the ones that simulation wrote.                                     *)
(***************************************************************************)
THEOREM MultiRttResultsFresh == Spec => []ResultsFresh
<1>1. Init => FreshInv
  BY InitFreshInv
<1>2. FreshInv /\ [Next]_vars => FreshInv'
  BY NextFreshInv
<1>3. FreshInv => ResultsFresh
  BY DEF FreshInv
<1>4. QED
  BY <1>1, <1>2, <1>3, PTL DEF Spec

=============================================================================
