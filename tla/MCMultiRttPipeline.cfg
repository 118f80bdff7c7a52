CONSTANTS
    TcpLinuxReno = TcpLinuxReno
    TcpFast = TcpFast
    Values <- MCValuesBinary
    FlowCounts <- MCFlowCountsEdges
SPECIFICATION Spec
\* main() returns: the terminal states have no successor.
CHECK_DEADLOCK FALSE
INVARIANT TypeOK
INVARIANT ResultsFresh
PROPERTY ImplementsPhases
