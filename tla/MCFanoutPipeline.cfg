CONSTANTS
    LinuxReno = LinuxReno
    Fast = Fast
    Values <- MCValuesPositive
    MaxFlows = 3

SPECIFICATION Spec

INVARIANT TypeOK
INVARIANT BatchSurvivesFailures
PROPERTY ImplementsPhases
PROPERTY Termination

\* main() returns: the terminal states have no successor.
CHECK_DEADLOCK FALSE
