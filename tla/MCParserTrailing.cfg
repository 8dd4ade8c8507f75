CONSTANTS
    Chars = {}
    Wide = {}
    MaxPatternLen = 4
    Inputs <- MCPatterns
SPECIFICATION ParseSpec
INVARIANT ParseConsumesWholePattern
CHECK_DEADLOCK FALSE
