--------------------------- MODULE PipelinePhases ---------------------------
(***************************************************************************)
(* The pipeline driver of spec 4.5, abstractly: the phases a driver goes   *)
(* through, how many configurations it has attempted, and the set of       *)
(* configurations whose results it has loaded.                             *)
(*                                                                         *)
(*   Idle -> Running(i) -> Collecting -> Analyzing -> Rendering -> Done    *)
(*                                                                         *)
(* Collecting begins once every configuration has been attempted, in the  *)
(* declared order, or at once when the simulator is not re-run (the CLI    *)
(* flag of spec 6).  Analysis needs at least one loaded configuration;     *)
(* with none the driver ends in PartialDone.  Rendering is optional (spec  *)
(* 4.4: plotting may be unavailable).                                      *)
(***************************************************************************)
EXTENDS Naturals, Sequences

CONSTANT Configs   \* the configuration set, in its declared order

VARIABLES phase, attempted, loaded

pvars == <<phase, attempted, loaded>>

ConfigSet == {Configs[j] : j \in DOMAIN Configs}

Phases == {"Idle", "Running", "Collecting", "Analyzing", "Rendering", "Done",
           "PartialDone"}

PTypeOK ==
    /\ phase \in Phases
    /\ attempted \in 0..Len(Configs)
    /\ loaded \subseteq ConfigSet

PInit ==
    /\ phase = "Idle"
    /\ attempted = 0
    /\ loaded = {}

Start ==
    /\ phase = "Idle"
    /\ phase' = "Running"
    /\ UNCHANGED <<attempted, loaded>>

\* Configs[attempted + 1] has run to completion, success or not.
Attempt ==
    /\ phase = "Running"
    /\ attempted < Len(Configs)
    /\ attempted' = attempted + 1
    /\ UNCHANGED <<phase, loaded>>

AllAttempted ==
    /\ phase = "Running"
    /\ attempted = Len(Configs)
    /\ phase' = "Collecting"
    /\ UNCHANGED <<attempted, loaded>>

\* Parsing whichever output files exist; from Idle when nothing is re-run.
Collect ==
    /\ phase \in {"Idle", "Collecting"}
    /\ phase' = "Collecting"
    /\ loaded' \subseteq ConfigSet
    /\ UNCHANGED attempted

Analyze ==
    /\ phase = "Collecting"
    /\ loaded' \subseteq ConfigSet
    /\ loaded' # {}
    /\ phase' = "Analyzing"
    /\ UNCHANGED attempted

NoUsableResults ==
    /\ phase = "Collecting"
    /\ loaded' = {}
    /\ phase' = "PartialDone"
    /\ UNCHANGED attempted

Render ==
    /\ phase = "Analyzing"
    /\ phase' = "Rendering"
    /\ UNCHANGED <<attempted, loaded>>

Finish ==
    /\ phase \in {"Analyzing", "Rendering"}
    /\ phase' = "Done"
    /\ UNCHANGED <<attempted, loaded>>

PNext ==
    \/ Start
    \/ Attempt
    \/ AllAttempted
    \/ Collect
    \/ Analyze
    \/ NoUsableResults
    \/ Render
    \/ Finish

\* The safety part of spec 4.5: what a driver may do, not that it must.
PSpec == PInit /\ [][PNext]_pvars

=============================================================================
