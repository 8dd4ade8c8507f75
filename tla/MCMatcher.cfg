\* Build the automaton of every short pattern that parses, run matches() on
\* every short line.
CONSTANTS
    Chars = {}
    Wide = {}
    MaxPatternLen = 4
    Inputs <- MCInputs
    LineChars <- MCLineChars
    MaxLineLen = 3
SPECIFICATION Spec
INVARIANT EdgesInRange
INVARIANT MatchesExactlyEmptyLines
\* matches() returns: a run of it ends.
CHECK_DEADLOCK FALSE
