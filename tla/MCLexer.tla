------------------------------ MODULE MCLexer ------------------------------
(* Model-checking instance of Lexer: every pattern of up to three          *)
(* characters over an alphabet holding each character class next_token    *)
(* distinguishes.                                                          *)
EXTENDS Lexer

\* ASCII: a plain letter, the escape letters, whitespace, every symbol.
MCAsciiChars == {"a", "d", "b", " ", "\t", "\\", "(", ")", "[", "]", "*", "+",
                 "?", "|", ".", "^", "$", "{"}

\* The same with one two-byte character (U+00E9).
MCWideChars == {"a", "d", "\\", "(", "é"}
MCWide == {"é"}
=============================================================================
