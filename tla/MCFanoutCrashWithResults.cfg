CONSTANTS
    LinuxReno = LinuxReno
    Fast = Fast
    Values <- MCValuesWithZero
    MaxFlows = 3

SPECIFICATION Spec

INVARIANT OnlyNoResultsIsFatal

\* main() returns: the terminal states have no successor.
CHECK_DEADLOCK FALSE
