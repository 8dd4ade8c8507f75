\* Every ASCII pattern of up to 3 characters: lexing ends in EOF, never
\* panics, and yields the tokens of spec section 4.1.
CONSTANTS
    Chars <- MCAsciiChars
    Wide = {}
    MaxPatternLen = 3
SPECIFICATION Spec
INVARIANT TypeOK
INVARIANT NoPanic
PROPERTY TokenStreamRefined
\* The lexer returns EOF and is called no more: a run of it ends.
CHECK_DEADLOCK FALSE
