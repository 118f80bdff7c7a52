CONSTANTS
    LineKinds <- MCCommaKinds
    MaxLines = 3
SPECIFICATION Spec
\* The script ends: the terminal states have no successor.
CHECK_DEADLOCK FALSE
INVARIANT NumericLinesParsed
