CONSTANTS
    TcpLinuxReno = TcpLinuxReno
    TcpFast = TcpFast
    Values <- MCValuesPositive
    FlowCounts <- MCFlowCountsFour
SPECIFICATION Spec
\* main() returns: the terminal states have no successor.
CHECK_DEADLOCK FALSE
PROPERTY Termination
