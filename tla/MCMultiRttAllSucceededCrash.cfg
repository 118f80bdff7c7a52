CONSTANTS
    TcpLinuxReno = TcpLinuxReno
    TcpFast = TcpFast
    Values <- MCValuesBinary
    FlowCounts <- MCFlowCountsFourFive
SPECIFICATION Spec
\* main() returns: the terminal states have no successor.
CHECK_DEADLOCK FALSE
INVARIANT AllSucceededExitsZero
