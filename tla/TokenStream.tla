---------------------------- MODULE TokenStream ----------------------------
(***************************************************************************)
(* What the lexer promises (spec 4.1), as an abstract specification: the   *)
(* tokens of a pattern are handed out one per call, in order -- whitespace *)
(* dropped, "\x" one token, a trailing lone backslash a literal backslash   *)
(* -- followed by EOF, and every one of them is eventually handed out.     *)
(* The pattern is read character by character; bytes do not appear.       *)
(***************************************************************************)
EXTENDS Tokens

VARIABLES
    text,       \* the pattern
    emitted     \* the tokens handed out so far

RECURSIVE SpecTokens(_)
SpecTokens(p) ==
    IF p = <<>> THEN <<>>
    ELSE LET ch == Head(p) IN
         CASE ch \in WhitespaceChars -> SpecTokens(Tail(p))
           [] ch = "\\" /\ Len(p) = 1 -> <<CharTok("\\")>>
           [] ch = "\\" -> <<IF p[2] \in DOMAIN EscapeClass
                              THEN Tok(EscapeClass[p[2]]) ELSE EscapeTok(p[2])>>
                           \o SpecTokens(Tail(Tail(p)))
           [] ch \in DOMAIN Symbol -> <<Tok(Symbol[ch])>> \o SpecTokens(Tail(p))
           [] OTHER -> <<CharTok(ch)>> \o SpecTokens(Tail(p))

Stream == SpecTokens(text) \o <<EOF>>

Init == emitted = <<>>

\* The next token of the stream is handed out.
Emit ==
    /\ Len(emitted) < Len(Stream)
    /\ emitted' = Append(emitted, Stream[Len(emitted) + 1])
    /\ UNCHANGED text

Spec == Init /\ [][Emit]_<<text, emitted>> /\ WF_<<text, emitted>>(Emit)
=============================================================================
