CONSTANTS
    TcpLinuxReno = TcpLinuxReno
    TcpFast = TcpFast
    Values <- MCValuesRich
    FlowCounts <- MCFlowCountsSmall
SPECIFICATION Spec
\* main() returns: the terminal states have no successor.
CHECK_DEADLOCK FALSE
INVARIANT FairnessIndexBounds
