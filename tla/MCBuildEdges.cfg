\* from_regex on every short pattern: does an in-place rewrite lose an edge?
CONSTANTS
    Chars = {}
    Wide = {}
    MaxPatternLen = 4
    Inputs <- MCPatterns
SPECIFICATION ParseSpec
INVARIANT EveryLeafKeepsItsEdge
\* One parse and one build per pattern: a run of it ends.
CHECK_DEADLOCK FALSE
