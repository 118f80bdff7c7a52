CONSTANTS
    LinuxReno = LinuxReno
    Fast = Fast
    Values <- MCValuesPositive
    MaxFlows = 3

SPECIFICATION Spec

INVARIANT NoResultsExitsNonZero

\* main() returns: the terminal states have no successor.
CHECK_DEADLOCK FALSE
