CONSTANTS
    Chars = {}
    Wide = {}
    MaxPatternLen = 4
    Inputs <- MCInputs
    LineChars <- MCLineChars
    MaxLineLen = 3
SPECIFICATION Spec
INVARIANT EveryStateReachable
CHECK_DEADLOCK FALSE
