------------------------------- MODULE MCBuild -------------------------------
(* Model-checking instance of NFA::from_regex on the grammar patterns of    *)
(* MCParser and on repeats nested up to two levels deep, with empty,        *)
(* inverted, unbounded and bounded ranges.                                  *)
EXTENDS NFA, MCParser

BuildRanges == {[min |-> 2, max |-> None], [min |-> 1, max |-> 3],
                [min |-> 2, max |-> 1], [min |-> 0, max |-> 2]}
Nest(S) == {RepeatNode(Unary("Group", x), r) : x \in S, r \in BuildRanges}
MCNestedASTs == Nest(Nest({CharNode("a"), Unary("Star", CharNode("a")),
                           SeqNode("Alternation", <<CharNode("a"), Node("AnyChar")>>)}))

MCBuildASTs == MCGrammarASTs \cup MCNestedASTs

\* The inputs: the patterns the ASTs are written as.  No two of the ASTs
\* render alike, so each input names the one AST it was written from.
MCBuildPatterns == {Render(a) : a \in MCBuildASTs}
ASSUME Cardinality(MCBuildPatterns) = Cardinality(MCBuildASTs)

\* Each input paired with the AST it was written from.
MCWrittenFrom == {<<Render(a), a>> : a \in MCBuildASTs}

(* Completeness of parse() on patterns written from the grammar: when the  *)
(* pattern is Render(a) for a well-formed a, the parse succeeds, consumes  *)
(* every token and returns a itself -- | binds looser than concatenation,  *)
(* which binds looser than a quantifier; groups, escapes and ranges come   *)
(* back as written.                                                        *)
ParseReturnsSourceAST ==
    Parsed => /\ result.st = "ok"
              /\ <<pattern, result.node>> \in MCWrittenFrom
              /\ Tokenize(pattern)[result.pos] = EOF
=============================================================================
