CONSTANTS
    Chars = {}
    Wide = {}
    MaxPatternLen = 4
    Inputs <- MCInputs
    LineChars <- MCLineChars
    MaxLineLen = 3
SPECIFICATION Spec
INVARIANT MatchAgreesWithRegex
CHECK_DEADLOCK FALSE
