\* Every AST parse() returns for a short pattern is derived by the grammar.
CONSTANTS
    Chars = {}
    Wide = {}
    MaxPatternLen = 4
    Inputs <- MCPatterns
SPECIFICATION ParseSpec
INVARIANT ParsesOnlyWellFormed
CHECK_DEADLOCK FALSE
