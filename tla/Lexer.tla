------------------------------- MODULE Lexer -------------------------------
(***************************************************************************)
(* The Lexer struct of src/simplegrep/src/tokens.rs as a state machine:    *)
(* its state is the pattern and the byte position, one step is one call of *)
(* next_token.                                                             *)
(***************************************************************************)
EXTENDS Tokens

-----------------------------------------------------------------------------
(* The lexer as a state machine: one step per call of next_token.          *)
VARIABLES pattern, position, tokens, panicked

vars == <<pattern, position, tokens, panicked>>

Patterns == UNION {[1..n -> Chars] : n \in 0..MaxPatternLen}

EOFReturned == tokens # <<>> /\ tokens[Len(tokens)] = EOF

\* Lexer::new
Init ==
    /\ pattern \in Patterns
    /\ position = 0
    /\ tokens = <<>>
    /\ panicked = FALSE

\* One call of Lexer::next_token.
NextTokenCall ==
    /\ ~panicked
    /\ ~EOFReturned
    /\ LET r == NextToken(Encode(pattern), position)
       IN  IF r.tok = PanicTok
           THEN /\ panicked' = TRUE
                /\ UNCHANGED <<position, tokens>>
           ELSE /\ tokens' = Append(tokens, r.tok)
                /\ position' = r.pos
                /\ UNCHANGED panicked
    /\ UNCHANGED pattern

Next == NextTokenCall

(* A caller keeps calling next_token until it returns EOF (the lexer is   *)
(* driven to the end of the pattern), so a call that can be made is made.  *)
Spec == Init /\ [][Next]_vars /\ WF_vars(Next)

-----------------------------------------------------------------------------
TypeOK ==
    /\ pattern \in Seq(Chars)
    /\ position \in 0..Len(Encode(pattern))
    /\ tokens \in Seq([t : STRING, c : STRING])
    /\ panicked \in BOOLEAN

(* Spec 4.1: "No lexical errors are possible -- every input character      *)
(* resolves to some token".  next_token never panics on its byte position. *)
NoPanic == ~panicked

\* The abstract token stream of spec 4.1, read off the lexer's state.
TS == INSTANCE TokenStream WITH text <- pattern, emitted <- tokens

(* next_token implements the token stream of spec 4.1: every call hands    *)
(* out the next token of the pattern read character by character -- the    *)
(* byte arithmetic of next_token and handle_escape, the whitespace         *)
(* recursion and the end-of-input checks lose, repeat or invent no token   *)
(* -- and repeated calls eventually reach EOF.                             *)
TokenStreamRefined == TS!Spec
=============================================================================
