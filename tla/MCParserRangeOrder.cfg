CONSTANTS
    Chars = {}
    Wide = {}
    MaxPatternLen = 6
    Inputs <- MCRangePatterns
SPECIFICATION ParseSpec
INVARIANT RepeatRangeOrdered
CHECK_DEADLOCK FALSE
