\* The whole command: parse, build, open, then every line of the input.
CONSTANTS
    Chars <- MCWide
    Wide <- MCWide
    MaxPatternLen = 3
    Inputs <- MCPatterns
    InputLines <- MCInputLines
    Invalid = Invalid
    NoFile = NoFile
SPECIFICATION Spec
PROPERTY FilterRefined
