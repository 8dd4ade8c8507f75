\* Patterns containing a two-byte character: next_token advances its byte
\* position by one and slices the input in the middle of the character.
CONSTANTS
    Chars <- MCWideChars
    Wide <- MCWide
    MaxPatternLen = 2
SPECIFICATION Spec
INVARIANT NoPanic
CHECK_DEADLOCK FALSE
