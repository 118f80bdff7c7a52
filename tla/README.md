# TLA+ models of the ns-3 experiment pipelines

This directory holds TLA+ specifications of the Python experiment pipelines
under `src/results/`, the TLC configurations that check them, and TLAPS proofs
of their main safety properties. `PROJECT.json` lists the components, the runs,
the mutants, the source lines each definition models (`map`), the findings, the
hazards and the theorems.

## 1. The system

There are three scripts. Each runs the ns-3 simulator for a set of TCP
variants, reads the CSV files the simulator leaves in a results directory,
prints a comparison and draws matplotlib charts.

| Script | Lines | What it does |
|---|---|---|
| `og-sim-2/run_and_plot.py` | 444 | Fan-out topology. It compares LinuxReno and Fast. |
| `tcp-multi-rtt/run_and_plot.py` | 496 | Multi-RTT bottleneck. It compares flows with different RTTs (Jain fairness, RTT bias). |
| `reno-equilibrium/run_and_plot.py` | 81 | Runs one Reno simulation and plots its cwnd trace. |

Each script has the parts the spec names:

- **Orchestrator:** `run_simulation` calls `subprocess.run`. In og-sim-2 it has a 300 s timeout.
- **Parser:** `parse_csv`, `parse_perflow_csv`, `read_results`, `read_cwnd_data` and `parse_cwnd_file`.
- **Analyzer:** the comparison in `print_summary` and `calculate_stats`.
- **Visualizer:** the `generate_*`/`plot_*` functions.
- **Pipeline driver:** `main`.

The parts interact only through the file system. Within one invocation the
simulator writes `<variant>_fanout.csv`, `<variant>_perflow.csv` and cwnd
traces, and the driver reads them afterwards. The files persist between
invocations. Nothing runs concurrently: the script is one thread and runs the
simulations one after another.

The hard behaviours are these, and they involve the environment, not threads:

- The simulator can fail, time out or hang.
- A failed simulator may already have rewritten some of its files, completely or in part.
- The og-sim-2 timeout kills only `./ns3`, the direct child of `subprocess.run`. The simulator `./ns3` started can live on as an orphan and keep rewriting its variant's files while the next variant runs and while `main()` loads them.
- Files from an earlier invocation remain on disk and are read as if they were new.
- `--skip-sim` reprocesses whatever is on disk.
- matplotlib may be missing.
- Data at a boundary (a zero baseline, a per-flow file with fewer than three rows, no results at all) takes an exceptional path.

## 2. Modules

### `FanoutPipeline.tla`: the og-sim-2 pipeline

This module covers the orchestrator and the driver of og-sim-2, with its
parser, analyzer and visualizer abstracted to their control.

**State**

| Variable | What it is |
|---|---|
| `pc` | the point reached in `main()` |
| `i` | the index of the simulation loop |
| `hung` | whether the running simulator never exits |
| `outcome` | the result of `run_simulation` per variant (`not_run`, `ok`, `failed`, `timeout`) |
| `files` | the contents of each variant's aggregate and per-flow files |
| `results` | the dict built by the first loading loop |
| `perflowData` | the dict built by the second loading loop |
| `charts` | the set of (chart kind, variant) pairs drawn |
| `skipSim` | the `--skip-sim` flag |
| `hasMatplotlib` | `HAS_MATPLOTLIB` |

A file is one of:

- `absent`;
- `unparsable`, meaning `parse_csv`/`parse_perflow_csv` return `None`;
- a row of values (aggregate file) or a number of rows (per-flow file).

Each file also has a ghost field `gen`. It is `old` for a file left by an
earlier invocation and `new` for one written by this invocation. Values are
abstracted to a small set of naturals, so the only distinction that matters is
zero against non-zero.

**Actions**, one per handler of the script:

| Action | Code it models |
|---|---|
| `RunSimulation` | the call of `subprocess.run`; the simulator may hang |
| `SimCompleted` | exit 0 |
| `SimFailed` | `CalledProcessError`/`Exception` |
| `SimTimedOut` | `TimeoutExpired` |
| `OrphanWrites` | the simulator of a timed-out variant, orphaned by the kill of `./ns3`, rewriting that variant's files |
| `LoadAggregate` | the first loading loop |
| `LoadPerflow` | the second loading loop and the `if not results: return` check |
| `PrintSummary` | `print_summary`, which may raise `ZeroDivisionError` |
| `GenerateAggregatePlots` | `generate_aggregate_plots` |
| `GeneratePerflowPlots` | `generate_perflow_comparison_plots`, which may raise `IndexError` |
| `GenerateCwndPlots` | `generate_cwnd_plots` |

Each `Sim*` action performs the simulator's writes to disk (`CompleteWrite` or
`PartialWrite`) and the loop step (`EndRun`) in the same step.
`OrphanWrites` is an environment step. It is enabled for a timed-out variant
until the per-flow loading loop is over (`FilesStillRead`). After that, main()
reads none of these files again. What the orphan writes later is what the next
invocation finds, and `Init` already leaves that open.

**Abstractions**

- The simulator is not in `src/`. What it writes (`CompleteWrite`,
  `PartialWrite`) and what an earlier invocation left (`LeftOver`) are modelled
  from spec §4.1 and §6, and marked `spec_modelled` in the map.
- Parsing inside a file is abstracted: a file with a bad row is `unparsable`.
- `ExitStatus` is 1 for an uncaught exception (`crashed`) and 0 otherwise.

### `FanoutPipelineProofs.tla`

This module holds the TLAPS proofs about `FanoutPipeline` (section 5).

### `MCFanoutPipeline.tla`

This module holds the constants for TLC. `Values` is `{1}` (non-zero only) or
`{0, 1}`.

### `MultiRttPipeline.tla` and `MultiRttStats.tla`: the tcp-multi-rtt pipeline

`MultiRttPipeline` covers `main()` and `run_simulation` of tcp-multi-rtt, with
the same environment as the og-sim-2 model: on exit 0 the simulator has
rewritten `<variant>_results.csv` with one row per flow; on a non-zero exit it
may have left the file as it was or rewritten a prefix of its rows
(`Truncated`, spec-modelled); it may hang; files left by an earlier invocation
carry `gen = "old"`. A file is `Absent` or `Row(gen, tputs)`, the flows'
throughputs from a small set `Values`, with a number of flows from
`FlowCounts`.

| Variable | What it is |
|---|---|
| `pc`, `i`, `hung` | the point in `main()`, the loop index, a simulator that never exits |
| `outcome` | `simulation_success` per variant |
| `files` | the results file of each variant |
| `allResults` | `all_results`: variant -> flows, stats, gen |
| `numFlows` | `num_flows`, from the first loaded variant |
| `charts` | (chart kind, variant) pairs drawn |

| Action | Code it models |
|---|---|
| `RunSimulation` | `subprocess.run(cmd, check=True)` with no timeout |
| `SimCompleted`, `SimFailed` | return True / `CalledProcessError` (with the simulator's writes) |
| `SimLaunchError` | an `OSError` from `subprocess.run`, which nothing catches |
| `AllSucceeded`, `SomeFailed` | the `all(simulation_success.values())` check and its `return 1` |
| `LoadResults` | the `read_results`/`calculate_stats` loop, `if not all_results: return 1`, `num_flows` |
| `PrintSummary` | the per-flow tables, indexed by `num_flows` for every variant, and the analysis |
| `GenerateComparisonPlots` | the three bar charts |
| `PlotCwndProgress` | `plot_cwnd_progress`, whose 2x2 grid raises `IndexError` past four flows |

`MultiRttStats` holds `calculate_stats` as pure operators: `ListSum` is a
recursive *function* over prefixes, and the Jain index is kept exactly as the
pair `fairNum = total^2`, `fairDen = n * sum_squared`, so a zero denominator,
the `ZeroDivisionError` of the code, is visible (`StatsRaise`).

### `RenoEquilibrium.tla`: the reno-equilibrium script

The whole script: the simulation without timeout and its `exit(1)`, the
missing-trace `exit(1)`, the loop of `parse_cwnd_file` one line per step, and
`plt.plot(times, cwnds)`, which raises when the lengths differ. A line of the
trace is abstracted to its kind (`sample`, `float_cwnd`, `comma`, `bad_time`,
`blank`, `malformed`); `times` and `cwnds` hold the index of the line each
value came from, so a property can say which line fed which sample.
`CwndsFromSamples` states the row-level recovery of spec 4.2 without
`SelectSeq`: `cwnds` is strictly increasing and its values are the sample
lines read so far (`SampleLinesRead`), which determines it; once the loop is
over, `k` is past the last line, so these are the samples of the whole file.
It also instantiates `PipelinePhases` (below) with the one configuration
`"reno-equilibrium"`.

### `PipelinePhases.tla`: the abstract driver of spec §4.5

The spec's state machine `Idle -> Running -> Collecting -> Analyzing ->
Rendering -> Done`, with `PartialDone` when nothing was loaded, over three
variables: the phase, the number of configurations attempted and the set
loaded. `FanoutPipeline`, `MultiRttPipeline` and `RenoEquilibrium` each
instantiate it; the first two do it this way:

    Abstract == INSTANCE PipelinePhases
                  WITH Configs <- <the variants>, phase <- PhaseOf,
                       attempted <- i - 1, loaded <- DOMAIN <results dict>

`PhaseOf` maps `pc` to a phase. A crash, and tcp-multi-rtt's `return 1` after
a failed simulation, map to a stutter in the phase the script stopped in; a
`--skip-sim` run of og-sim-2 goes from Idle straight to Collecting.

The reno script has one configuration. `Attempted` is 1 once
`run_ns3_simulation` has returned or exited, and `Loaded` is the configuration
once `parse_cwnd_file` has returned the lines of an existing trace. `PlotRaised`
tells the two crashes apart. The `plt.plot` crash on misaligned lists stops in
Analyzing. A launch error of `subprocess.run` stops in Running with nothing
attempted. The `exit(1)` calls after a failed simulation and a missing trace
stop in Running and Collecting.
`ImplementsPhases == Abstract!PSpec` is checked by TLC as a `PROPERTY` and
proved by TLAPS (section 5).

### Proof modules

`FanoutPipelineProofs`, `FanoutPhasesProofs`, `MultiRttPipelineProofs`,
`MultiRttPhasesProofs`, `RenoEquilibriumProofs` and `RenoPhasesProofs`
(section 5).

## 3. Runs

The og-sim-2 runs use `MaxFlows = 3` and two variants as model values.

| Run | Expect | Properties | What it shows |
|---|---|---|---|
| `fanout_pipeline` | pass | `TypeOK`, `BatchSurvivesFailures`, `ImplementsPhases`, `Termination` | See below. It reaches 396,151 distinct states. |
| `fanout_failed_run_reported` | violation | `FailedRunExcluded` | A failed or timed-out run's stale or partial file is summarised and plotted (spec §4.1). |
| `fanout_crash_with_results` | violation | `OnlyNoResultsIsFatal` | With `Values = {0,1}`, a zero LinuxReno throughput or delay raises `ZeroDivisionError` in `print_summary`, and a per-flow file with 1 or 2 rows raises `IndexError` (spec §4.4, §7). TLC reports the shorter of the two traces; the other is reached in the same state space. |
| `fanout_no_results_exit_zero` | violation | `NoResultsExitsNonZero` | With no loadable aggregate file the script exits 0 (spec §6, §7). |

The passing run `fanout_pipeline` shows these things:

- main() always ends.
- An orphaned simulator cannot stop a batch from completing, or spoil another variant's report.
- A completed batch attempted every variant.
- Every variant whose simulation succeeded is reported from this invocation's files: in the summary, the per-flow data and every chart drawn.

It covers every combination of leftover files, outcomes, hangs, `--skip-sim`
and matplotlib.

**Why the bounds are enough**

- `MaxFlows = 3` covers every case that matters: 0 rows (loaded then dropped), 1–2 rows (the `IndexError`) and 3 rows (the plotted case).
- The case split of the code is on zero against non-zero, so `{0,1}` covers it.
- There are exactly two variants in the code.

Each property of the passing run has a mutant that TLC catches:

| Property | Mutant |
|---|---|
| `TypeOK` | `LoadPerflow` keeping an empty per-flow list |
| `ImplementsPhases` | `LoadPerflow` without the `if not results: return` |
| `BatchSurvivesFailures` | `SimFailed` aborting the batch |
| `Termination` | a timeout that never fires |

**Fairness.** The spec has `WF_vars(ScriptStep)`, where `ScriptStep` is every
step of main() itself. This is justified because main() is one sequential
process: while it has a step to take, it takes it. A hung simulator has no
step except `SimTimedOut`, which stands for the 300 s timeout of
`subprocess.run`. Fairness therefore asserts exactly that the timeout fires.
`OrphanWrites` gets no fairness, because an orphan need not write again.

**Deadlock.** `CHECK_DEADLOCK FALSE` is set because the terminal states
(`done`, `no_results`, `crashed`) are the script returning. `Termination`
checks that one of them is always reached.


### tcp-multi-rtt and reno-equilibrium runs

| Run | Expect | Properties | What it shows |
|---|---|---|---|
| `multirtt_pipeline` | pass | `TypeOK`, `ResultsFresh`, `ImplementsPhases` | With `Values = {0,1}` and flow counts `{0,2,5}` (no rows, a shorter second variant, more flows than the grid), over every leftover file, failure, hang and launch error: `all_results` holds only this invocation's fresh rows, and `main()` follows the spec 4.5 phases. 69,695 distinct states. |
| `multirtt_fairness` | pass | `FairnessIndexBounds` | With throughputs in `{0,1,2,5}` and 1-3 flows, every stored Jain index is in (0,1] and is 1 exactly when the flows are equal (spec §8). 268,673 distinct states. |
| `multirtt_hang_blocks` | violation | `Termination` | A hung simulator blocks `main()` forever: no timeout. |
| `multirtt_failure_fatal` | violation | `ExitNonZeroOnlyWithoutResults` | One failed or unlaunchable simulation ends the script with exit 1 although the other variant has usable results. |
| `multirtt_all_succeeded_crash` | violation | `AllSucceededExitsZero` | With both simulations successful the script still dies: all-zero throughputs (`ZeroDivisionError`, the trace TLC reports) or a fifth flow (`IndexError` in the 2x2 grid, flow counts `{4,5}`). |
| `reno_equilibrium` | pass | `CwndsFromSamples`, `ImplementsPhases` | For every trace of up to 3 lines of every kind, the cwnds kept are exactly those of the well-formed sample lines, in order, and the loop reads every line. The script follows the spec 4.5 phases: it plots only after the simulation has run and an existing trace has been parsed. 3,064 distinct states. |
| `reno_float_cwnd_misaligned` | violation | `SamplesPaired` | A float cwnd appends its time but not its cwnd; times and cwnds misalign and `plt.plot` raises. |
| `reno_comma_lines_dropped` | violation | `NumericLinesParsed` | A comma-separated line, allowed by spec §6, is silently skipped. |

Mutants of the passing runs: `TypeOK` by `LoadResults` that stores stats of an
all-zero list instead of raising; `ResultsFresh` by loading whatever the
simulations did; `ImplementsPhases` by `LoadResults` without the empty check;
`FairnessIndexBounds` by a denominator one flow short; `CwndsFromSamples` by
appending the cwnd before parsing the time; the reno `ImplementsPhases` by a
missing-trace branch that prints the error but does not `exit(1)` and goes on
to plot.

**Bounds.** Two variants, as in the code. Values `{0,1}` separate zero from
non-zero, which is the only distinction the control depends on except the
fairness index, checked separately with unequal values. Flow counts `{0,2,5}`
reach the empty file, the shorter-variant `IndexError` of the tables and the
grid overflow; `{4}` is the scenario's own count. Reno traces of up to three
lines hold every pair of kinds in both orders.

**Fairness and deadlock** are as for og-sim-2: one sequential process,
`WF_vars(Next)` (tcp-multi-rtt has no timeout, hence no orphan); the terminal states are the script returning. In
tcp-multi-rtt, fairness cannot make a hung simulator return, so
`Termination` fails.

## 4. Findings

| Kind | Where | What |
|---|---|---|
| Spec/code divergence | og-sim-2:400 | Stale or partial files of a failed run are reported as results. |
| Code bug | og-sim-2:350 | `ZeroDivisionError` on a zero baseline. |
| Code bug | og-sim-2:183 | `IndexError` on a per-flow file with fewer than 3 rows. |
| Spec/code divergence | og-sim-2:421 | Exit status 0 with no results. |
| Spec/code divergence | tcp-multi-rtt:34 | No timeout on the simulator. |
| Spec/code divergence | tcp-multi-rtt:312 | `return 1` on any failed simulation, and an uncaught launch `OSError` (line 37). |
| Code bug | tcp-multi-rtt:101 | `ZeroDivisionError` in `calculate_stats` when a variant's flows all have zero throughput. |
| Code bug | tcp-multi-rtt:265 | `IndexError` in `plot_cwnd_progress` for more than four flows (latent: the scenario has four). |
| Code bug | reno-equilibrium:42 | `times` appended before `int(cwnd)` raises: samples misalign and the plot raises. |
| Spec/code divergence | reno-equilibrium:41 | Comma-separated trace lines are dropped without a warning. |

## 5. Proofs

`FanoutPipelineProofs.tla` proves two theorems for every pair of distinct
variants, every value set `Values ⊆ Nat` and every `MaxFlows ∈ Nat`:

- **`TypeCorrect`:** `Spec => []TypeOK`.
  - The inductive form is `TypeInv`: `TypeOK` plus the fact that the loop index is in range while a simulation runs.
  - Lemmas about the file sets (`WrittenFiles`, `ParseCsvType`, `PerflowType`, `WriteType`) feed one case per action.
- **`BatchSurvives`:** `Spec => []BatchSurvivesFailures`.
  - `BatchSurvivesFailures` is not inductive. It speaks only of `done`, and it needs facts about earlier phases.
  - The strengthening `IInv` adds four conjuncts:
    - `RunIndex`: the variants before the loop index, and only those, have been attempted, and after the loop the index is past the end.
    - `OkFilesFresh`: a variant whose run succeeded has a fresh, parsable aggregate file and per-flow file on disk. Nothing later overwrites them.
    - `LoadedFromFiles`: after loading, `results` and `perflowData` hold exactly the parsable files with their provenance. This holds for every variant that did not time out; an orphan may have rewritten a timed-out variant's files since.
    - `ChartsDrawn`: the charts of each finished plotting step have been drawn.
  - TLC checked `IInv` as an invariant, together with `RefInv` (6.6 M states, `Values = {0,1}`, orphan writes included), before the proof was written.
  - The proof shows `Init => IInv`, `IInv /\ [Next]_vars => IInv'` (with `EndRunIInv` covering the three simulation outcomes) and `IInv => BatchSurvivesFailures`.
  - In the `OrphanWrites` case, the orphan writes only the files of a timed-out variant. Those files are neither the fresh files of an ok variant nor the ones `LoadedFromFiles` speaks of.


`FanoutPhasesProofs.tla` proves **`FanoutImplementsPhases`**:
`Spec => ImplementsPhases`, i.e. og-sim-2's `main()` refines `PipelinePhases`.
The invariant `RefInv` adds to `TypeInv` that the simulation loop runs only
without `--skip-sim`, that no chart exists before plotting, that the summary
and plots are reached only with results, and that the aggregate chart is drawn
before the per-flow plots. These are exactly what makes each crash map to a
stutter in the right phase. TLC checked `RefInv` first. The proof shows
`Init => PInit` and one case per action that the step is `Start`, `Attempt`,
`AllAttempted`, `Collect`, `Analyze`, `NoUsableResults`, `Render`, `Finish`
or a stutter, using two lemmas that give the phase of each `pc` now and one
step later.

`MultiRttPipelineProofs.tla` proves **`MultiRttResultsFresh`**:
`Spec => []ResultsFresh` for every pair of variants, value set and flow
counts. The strengthening `FreshInv` says that the loop index is in range,
that a successfully simulated variant has the file it wrote, that nothing is
loaded before the loading loop, and that the loop is entered only after every
simulation succeeded.

`RenoEquilibriumProofs.tla` proves two theorems for every set of line kinds
and every `MaxLines ∈ Nat`:

- **`RenoCwndsFromSamples`:** `Spec => []CwndsFromSamples`.
  - The inductive invariant `RenoInv` is `TypeOK`, plus `ReadInTrace`: `k` stays within the trace, is 1 until parsing starts, and is past the last line once the loop is over.
  - It also asserts both halves of the property in every state, not only from `parse` on: before the loop, no line has been read and `cwnds` is empty.
  - The trace cannot change under the loop, because the simulator writes it only while `k = 1`.
  - A parse step appends `k` exactly when line `k` is a sample, and every earlier cwnd is below `k`, so both halves carry over to `k + 1`.
  - The lemma `TraceLines` gives the length and the kinds of any trace.
  - TLC checked `RenoInv` on the passing run's instance first.
- **`RenoTypeCorrect`:** `Spec => []TypeOK`, from the same invariant.

`RenoPhasesProofs.tla` proves **`RenoImplementsPhases`**:
`Spec => ImplementsPhases` for the reno script, for every set of line kinds
and every `MaxLines`. The mapping is not inductive by itself. Two facts are
needed, and TLC checked both on the run's instance first. `NoneParsedYet`
says that `times` and `cwnds` are empty until the loop starts, so a launch
error is never taken for the plot's crash. `TraceOpened` says that the loop,
the plot and the plot's crash are reached only through the `os.path.exists`
branch, so `Loaded` is non-empty when `ParseDone` maps to `Analyze`. The
proof has one case per action, as above.

`MultiRttPhasesProofs.tla` proves **`MultiRttImplementsPhases`** the same way
as for og-sim-2, with `PhaseInv` (the loop is over once loading starts,
results are empty until loaded, no chart before plotting, results present
while analysing, bars drawn before the cwnd figure).

`PipelinePhases` and the modules above contain no `RECURSIVE` operator;
`ListSum` is a recursive function, which the provers accept. What
`calculate_stats` computes for every list is not proved: that needs induction
over sequences.

**Only model-checked**

- `Termination` is liveness under fairness, which TLAPS cannot prove here.
- `FairnessIndexBounds` and the multi-rtt `TypeOK` (non-zero divisors, natural totals) rest on `ListSum`.
  - Even `ListSum(t) \in Nat` needs induction: the recursive function's defining equation holds only once it is shown to exist.
  - The library's induction theorems take an operator parameter, which no installed prover instantiates. The provers also cannot derive least-element reasoning over `SUBSET Nat` by themselves.
  - These two therefore stay TLC-checked.
- The properties of the violation runs (`NumericLinesParsed`, `SamplesPaired` and the others) fail on the code, so there is nothing to prove. `LinesOf`, built on `SelectSeq`, is used only by `NumericLinesParsed`.

## 6. Not modelled, and why

| Part | Status |
|---|---|
| `read_cwnd_data` (tcp-multi-rtt:65-86) | Not modelled. The cwnd trace contents are abstracted away in `PlotCwndProgress`. It raises only on a two-field non-numeric line, which a simulator writing the spec's format does not produce. |
| og-sim-2's cwnd reading in `generate_cwnd_plots` | Only its control is modelled: one image per loaded variant, and any read error is a warning. Whether a stale trace is plotted is not a property yet (hazard og-sim-2:122). |
| Row-level parsing of `parse_perflow_csv` and `read_results` | Abstracted to "parsable or not". A row error loses the whole file in og-sim-2 (hazard og-sim-2:92). In tcp-multi-rtt it would crash, but only files a successful simulator just wrote are read. |
| RTT bias (tcp-multi-rtt:458-460) | Not modelled. It is guarded and only printed. |
| reno-equilibrium's missing timeout | Modelled (`hung`), but not checked. It asks the same question as `multirtt_hang_blocks`. |

**Never modelled**

- The ns-3 simulator itself. It is the environment.
- matplotlib rendering and console text. These are output only.
