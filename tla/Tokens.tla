------------------------------- MODULE Tokens -------------------------------
(***************************************************************************)
(* Tokens and the tokenizer of simplegrep (src/simplegrep/src/tokens.rs)  *)
(* as pure operators, shared by the Lexer and Parser modules.             *)
(*                                                                         *)
(* A pattern is a sequence of characters; each character is a one-letter   *)
(* string, and the characters in Wide take two bytes in UTF-8.  The lexer  *)
(* keeps a BYTE position (Lexer.position) and advances it by 1 after every *)
(* character, exactly as the code does, so that slicing the input at a     *)
(* position that is not the start of a character (Rust's str slicing       *)
(* panic) is a reachable outcome of the model.                             *)
(***************************************************************************)
EXTENDS Naturals, Sequences, SequencesExt, TLC

CONSTANTS
    Chars,      \* the characters patterns are written with
    Wide,       \* the characters of Chars that are two bytes long in UTF-8
    MaxPatternLen

ASSUME Wide \subseteq Chars /\ MaxPatternLen \in Nat

-----------------------------------------------------------------------------
(* Tokens (enum Token).  Char and Escape carry a character, the others     *)
(* carry the empty string.  PanicTok is not a token: it stands for the     *)
(* thread panicking inside next_token.                                     *)
Tok(name)     == [t |-> name, c |-> ""]
CharTok(ch)   == [t |-> "Char", c |-> ch]
EscapeTok(ch) == [t |-> "Escape", c |-> ch]
EOF      == Tok("EOF")
PanicTok == Tok("Panic")

\* The characters next_token turns into a token of their own.
Symbol == "(" :> "OpenParen" @@ ")" :> "CloseParen" @@ "[" :> "OpenBracket"
       @@ "]" :> "CloseBracket" @@ "*" :> "Star" @@ "+" :> "Plus"
       @@ "?" :> "Question" @@ "|" :> "Alternation" @@ "." :> "AnyChar"
       @@ "^" :> "StartLine" @@ "$" :> "EndLine" @@ "{" :> "Range"

\* The characters after a backslash that handle_escape turns into a class
\* or anchor token.
EscapeClass == "d" :> "Digit" @@ "w" :> "WordChar" @@ "s" :> "Whitespace"
            @@ "A" :> "StartInput" @@ "z" :> "EndInput" @@ "b" :> "WordBoundary"

WhitespaceChars == {" ", "\t", "\n", "\r"}

-----------------------------------------------------------------------------
(* Byte layout of a pattern: &str is UTF-8, so a character of Wide is     *)
(* stored as its first byte followed by a continuation byte.              *)
Continuation == "<continuation byte>"

\* The bytes of pattern p.
Encode(p) == FlattenSeq([i \in DOMAIN p |->
                 IF p[i] \in Wide THEN <<p[i], Continuation>> ELSE <<p[i]>>])

\* self.input[pos..].chars().next().unwrap() succeeds only when byte pos is
\* the first byte of a character: otherwise the slice or the unwrap panics.
IsCharStart(b, pos) == pos < Len(b) /\ b[pos + 1] # Continuation
CharAt(b, pos) == b[pos + 1]

-----------------------------------------------------------------------------
\* Mutant: the trailing-backslash case advances past the end of the input.
HandleEscapePastEnd(b, pos) ==
    IF pos >= Len(b) THEN [tok |-> CharTok("\\"), pos |-> pos + 1]
    ELSE IF ~IsCharStart(b, pos) THEN [tok |-> PanicTok, pos |-> pos]
    ELSE LET ch == CharAt(b, pos)
         IN  [tok |-> IF ch \in DOMAIN EscapeClass THEN Tok(EscapeClass[ch])
                                                   ELSE EscapeTok(ch),
              pos |-> pos + 1]

\* Mutant: the escaped character is read but the position not advanced.
HandleEscapeNoAdvance(b, pos) ==
    IF pos >= Len(b) THEN [tok |-> CharTok("\\"), pos |-> pos]
    ELSE IF ~IsCharStart(b, pos) THEN [tok |-> PanicTok, pos |-> pos]
    ELSE LET ch == CharAt(b, pos)
         IN  [tok |-> IF ch \in DOMAIN EscapeClass THEN Tok(EscapeClass[ch])
                                                   ELSE EscapeTok(ch),
              pos |-> pos]

(* Lexer::handle_escape, entered with pos just past the backslash.         *)
HandleEscape(b, pos) ==
    IF pos >= Len(b) THEN [tok |-> CharTok("\\"), pos |-> pos]
    ELSE IF ~IsCharStart(b, pos) THEN [tok |-> PanicTok, pos |-> pos]
    ELSE LET ch == CharAt(b, pos)
         IN  [tok |-> IF ch \in DOMAIN EscapeClass THEN Tok(EscapeClass[ch])
                                                   ELSE EscapeTok(ch),
              pos |-> pos + 1]

RECURSIVE NextToken(_, _)

\* Mutant: the end-of-input test is "position > len" instead of ">=".
NextTokenLateEOF(b, pos) ==
    IF pos > Len(b) THEN [tok |-> EOF, pos |-> pos]
    ELSE IF ~IsCharStart(b, pos) THEN [tok |-> PanicTok, pos |-> pos]
    ELSE LET ch == CharAt(b, pos)
         IN  CASE ch \in WhitespaceChars -> NextToken(b, pos + 1)
               [] ch = "\\"              -> HandleEscape(b, pos + 1)
               [] ch \in DOMAIN Symbol   -> [tok |-> Tok(Symbol[ch]), pos |-> pos + 1]
               [] OTHER                  -> [tok |-> CharTok(ch), pos |-> pos + 1]

(* Lexer::next_token on the bytes b of the pattern: the token starting at  *)
(* byte pos and the position after it; whitespace is skipped by the        *)
(* recursive call.                                                         *)
NextToken(b, pos) ==
    IF pos >= Len(b) THEN [tok |-> EOF, pos |-> pos]
    ELSE IF ~IsCharStart(b, pos) THEN [tok |-> PanicTok, pos |-> pos]
    ELSE LET ch == CharAt(b, pos)
         IN  CASE ch \in WhitespaceChars -> NextToken(b, pos + 1)
               [] ch = "\\"              -> HandleEscape(b, pos + 1)
               [] ch \in DOMAIN Symbol   -> [tok |-> Tok(Symbol[ch]), pos |-> pos + 1]
               [] OTHER                  -> [tok |-> CharTok(ch), pos |-> pos + 1]

\* The tokens the lexer hands out when called until it returns EOF or
\* panics (the parser never calls next_token again after EOF).
RECURSIVE TokensFrom(_, _)
TokensFrom(b, pos) ==
    LET r == NextToken(b, pos)
    IN  IF r.tok \in {EOF, PanicTok} THEN <<r.tok>>
        ELSE <<r.tok>> \o TokensFrom(b, r.pos)

Tokenize(p) == TokensFrom(Encode(p), 0)

=============================================================================
