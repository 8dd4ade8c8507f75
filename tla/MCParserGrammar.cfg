\* Patterns written from the grammar, and Repeats nested two deep, parse
\* back to the AST they were written from, and from_regex builds exactly
\* the number of states their structure calls for.
CONSTANTS
    Chars = {}
    Wide = {}
    MaxPatternLen = 16
    Inputs <- MCBuildPatterns
SPECIFICATION ParseSpec
INVARIANT ParseReturnsSourceAST
INVARIANT BuildSizeExact
\* parse() returns once: a run of it ends.
CHECK_DEADLOCK FALSE
