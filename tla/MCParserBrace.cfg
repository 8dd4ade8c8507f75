CONSTANTS
    Chars = {}
    Wide = {}
    MaxPatternLen = 6
    Inputs <- MCRangePatterns
SPECIFICATION ParseSpec
INVARIANT BraceRepeatParses
CHECK_DEADLOCK FALSE
