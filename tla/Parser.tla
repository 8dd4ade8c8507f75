------------------------------- MODULE Parser -------------------------------
(***************************************************************************)
(* The recursive-descent parser of simplegrep (src/simplegrep/src/parser.rs*)
(* and the AST of src/simplegrep/src/ast.rs).                              *)
(*                                                                         *)
(* The parser reads the lexer's tokens one at a time through current_token *)
(* and consume_token.  The lexer is deterministic, so the parser is modelled*)
(* over ts == Tokenize(pattern), the tokens the lexer would hand out, and  *)
(* an index i standing for current_token == ts[i].  consume_token fetches  *)
(* ts[i+1]; when that fetch is where the lexer panics, the parse panics.   *)
(*                                                                         *)
(* Every parse function returns a result record: st = "ok" with the node   *)
(* built and the index of the new current token, st = "err" for an Err    *)
(* returned through ?, or st = "panic".                                    *)
(***************************************************************************)
EXTENDS Tokens, Integers

CONSTANT Inputs     \* the patterns the parser is run on

-----------------------------------------------------------------------------
(* AST (enum RegexNode, struct RepeatRange).  A max of None              *)
(* (Option::None, no upper bound) is written -1.                          *)
None == -1
Node(k)          == [k |-> k]
CharNode(ch)     == [k |-> "Char", c |-> ch]
SeqNode(k, s)    == [k |-> k, s |-> s]            \* Concat, Alternation
Unary(k, n)      == [k |-> k, n |-> n]            \* Star, Plus, Question, Group
RepeatNode(n, r) == [k |-> "Repeat", n |-> n, min |-> r.min, max |-> r.max]

\* Tokens that parse_primary turns into the node of the same name.
LeafKinds == {"AnyChar", "Digit", "WordChar", "Whitespace", "StartLine",
              "EndLine", "StartInput", "EndInput", "WordBoundary"}

DigitValue == "0" :> 0 @@ "1" :> 1 @@ "2" :> 2 @@ "3" :> 3 @@ "4" :> 4
           @@ "5" :> 5 @@ "6" :> 6 @@ "7" :> 7 @@ "8" :> 8 @@ "9" :> 9

-----------------------------------------------------------------------------
(* Results.                                                                *)
NoNode == "NoNode"
Ok(node, i) == [st |-> "ok", node |-> node, pos |-> i]
Err(i)      == [st |-> "err", node |-> NoNode, pos |-> i]
Panicked    == [st |-> "panic", node |-> NoNode, pos |-> 0]

\* The ? operator: continue with F on success, propagate anything else.
Then(r, F(_)) == IF r.st = "ok" THEN F(r) ELSE r

(* Parser::consume_token                                                   *)
ConsumeToken(ts, i, expected) ==
    IF ts[i] = expected
    THEN IF ts[i + 1] = PanicTok THEN Panicked ELSE Ok(NoNode, i + 1)
    ELSE Err(i)

(* Parser::escape_to_node                                                  *)
EscapeToNode(ch) ==
    IF ch \in DOMAIN EscapeClass THEN Node(EscapeClass[ch]) ELSE CharNode(ch)

IsDigitTok(t) == t.t = "Char" /\ t.c \in DOMAIN DigitValue

(* Parser::parse_range, entered just after the Range token: an optional    *)
(* single-digit min, an optional "," and single-digit max, then the        *)
(* CloseBracket token.                                                     *)
ParseRange(ts, i) ==
    LET Close(min, max, j) ==
            Then(ConsumeToken(ts, j, Tok("CloseBracket")),
                 LAMBDA c : Ok([min |-> min, max |-> max], c.pos))
        min == DigitValue[ts[i].c]
    IN  IF ~IsDigitTok(ts[i]) THEN Close(0, None, i)
        ELSE Then(ConsumeToken(ts, i, ts[i]), LAMBDA a :
               IF ts[a.pos] # CharTok(",") THEN Close(min, None, a.pos)
               ELSE Then(ConsumeToken(ts, a.pos, CharTok(",")), LAMBDA b :
                      IF ~IsDigitTok(ts[b.pos]) THEN Close(min, None, b.pos)
                      ELSE Then(ConsumeToken(ts, b.pos, ts[b.pos]), LAMBDA m :
                             Close(min, DigitValue[ts[b.pos].c], m.pos))))

RECURSIVE ParseAlternation(_, _), ParseConcat(_, _), ParseAtom(_, _),
          ParsePrimary(_, _), AlternationLoop(_, _, _), ConcatLoop(_, _, _)

\* Mutant: the node list is wrapped even when it holds a single node.
CollapseAlways(k, nodes) == SeqNode(k, nodes)

\* Alternation(nodes) when there is more than one, else the single node.
Collapse(k, nodes) == IF Len(nodes) = 1 THEN nodes[1] ELSE SeqNode(k, nodes)

(* Parser::parse_alternation (Parser::parse is a call of it).              *)
ParseAlternation(ts, i) ==
    Then(ParseConcat(ts, i), LAMBDA r : AlternationLoop(ts, r.pos, <<r.node>>))

AlternationLoop(ts, i, nodes) ==
    IF ts[i] = Tok("Alternation")
    THEN Then(ConsumeToken(ts, i, Tok("Alternation")), LAMBDA c :
           Then(ParseConcat(ts, c.pos), LAMBDA r :
             AlternationLoop(ts, r.pos, Append(nodes, r.node))))
    ELSE Ok(Collapse("Alternation", nodes), i)

\* Mutant: the concatenation stops only at | and EOF, not at ).
ConcatLoopPastParen(ts, i, nodes) ==
    IF ts[i] \notin {Tok("Alternation"), EOF}
    THEN Then(ParseAtom(ts, i), LAMBDA r :
           ConcatLoop(ts, r.pos, Append(nodes, r.node)))
    ELSE Ok(Collapse("Concat", nodes), i)

(* Parser::parse_concat: atoms up to |, ) or EOF.                          *)
ParseConcat(ts, i) ==
    Then(ParseAtom(ts, i), LAMBDA r : ConcatLoop(ts, r.pos, <<r.node>>))

ConcatLoop(ts, i, nodes) ==
    IF ts[i] \notin {Tok("Alternation"), Tok("CloseParen"), EOF}
    THEN Then(ParseAtom(ts, i), LAMBDA r :
           ConcatLoop(ts, r.pos, Append(nodes, r.node)))
    ELSE Ok(Collapse("Concat", nodes), i)

(* Parser::parse_atom: a primary and at most one quantifier.               *)
ParseAtom(ts, i) ==
    Then(ParsePrimary(ts, i), LAMBDA p :
      LET q == ts[p.pos].t IN
      CASE q \in {"Star", "Plus", "Question"} ->
             Then(ConsumeToken(ts, p.pos, Tok(q)), LAMBDA c :
               Ok(Unary(q, p.node), c.pos))
        [] q = "Range" ->
             Then(ConsumeToken(ts, p.pos, Tok("Range")), LAMBDA c :
               Then(ParseRange(ts, c.pos), LAMBDA r :
                 Ok(RepeatNode(p.node, r.node), r.pos)))
        [] OTHER -> p)

(* Parser::parse_primary                                                   *)
ParsePrimary(ts, i) ==
    LET t == ts[i] IN
    CASE t.t = "Char" ->
           Then(ConsumeToken(ts, i, t), LAMBDA c : Ok(CharNode(t.c), c.pos))
      [] t.t = "Escape" ->
           Then(ConsumeToken(ts, i, t), LAMBDA c : Ok(EscapeToNode(t.c), c.pos))
      [] t.t \in LeafKinds ->
           Then(ConsumeToken(ts, i, t), LAMBDA c : Ok(Node(t.t), c.pos))
      [] t.t = "OpenParen" ->
           Then(ConsumeToken(ts, i, t), LAMBDA o :
             Then(ParseAlternation(ts, o.pos), LAMBDA g :
               Then(ConsumeToken(ts, g.pos, Tok("CloseParen")), LAMBDA c :
                 Ok(Unary("Group", g.node), c.pos))))
      [] OTHER -> Err(i)

(* Parser::new then Parser::parse: new fetches the first token.            *)
Parse(p) ==
    LET ts == Tokenize(p)
    IN  IF ts[1] = PanicTok THEN Panicked ELSE ParseAlternation(ts, 1)

-----------------------------------------------------------------------------
(* main.rs parses the pattern once: one step from "not parsed" to the      *)
(* result of parser.parse().                                               *)
VARIABLES pattern, result

vars == <<pattern, result>>

NotParsed == [st |-> "none", node |-> NoNode, pos |-> 0]

ParseInit ==
    /\ pattern \in Inputs
    /\ result = NotParsed

DoParse ==
    /\ result.st = "none"
    /\ result' = Parse(pattern)
    /\ UNCHANGED pattern

ParseSpec == ParseInit /\ [][DoParse]_vars
-----------------------------------------------------------------------------
(* Reference: the grammar of spec section 4.2, with the range closed by    *)
(* "]" as parse_range requires.                                            *)

\* Well-formed ASTs: what the grammar derives.
RECURSIVE IsAlternation(_), IsConcat(_), IsAtom(_), IsPrimary(_)
IsPrimary(n) ==
    \/ n.k = "Char"
    \/ n.k \in LeafKinds
    \/ n.k = "Group" /\ IsAlternation(n.n)
IsAtom(n) ==
    \/ IsPrimary(n)
    \/ n.k \in {"Star", "Plus", "Question"} /\ IsPrimary(n.n)
    \/ /\ n.k = "Repeat" /\ IsPrimary(n.n)
       /\ n.min \in 0..9 /\ n.max \in (0..9) \cup {None}
IsConcat(n) ==
    \/ IsAtom(n)
    \/ n.k = "Concat" /\ Len(n.s) >= 2 /\ \A j \in DOMAIN n.s : IsAtom(n.s[j])
IsAlternation(n) ==
    \/ IsConcat(n)
    \/ n.k = "Alternation" /\ Len(n.s) >= 2
       /\ \A j \in DOMAIN n.s : IsConcat(n.s[j])

\* The characters that must be written behind a backslash to be literal.
MetaChars == DOMAIN Symbol \cup WhitespaceChars \cup {"\\"}

LeafSyntax == "AnyChar" :> <<".">> @@ "StartLine" :> <<"^">> @@ "EndLine" :> <<"$">>
    @@ "Digit" :> <<"\\", "d">> @@ "WordChar" :> <<"\\", "w">>
    @@ "Whitespace" :> <<"\\", "s">> @@ "StartInput" :> <<"\\", "A">>
    @@ "EndInput" :> <<"\\", "z">> @@ "WordBoundary" :> <<"\\", "b">>

QuantifierChar == "Star" :> "*" @@ "Plus" :> "+" @@ "Question" :> "?"

DigitChar(d) == CHOOSE ch \in DOMAIN DigitValue : DigitValue[ch] = d

\* The pattern a well-formed AST is written as.
RECURSIVE Render(_), RenderAll(_, _)
RenderAll(s, sep) ==
    IF Len(s) = 1 THEN Render(s[1])
    ELSE Render(Head(s)) \o sep \o RenderAll(Tail(s), sep)
Render(n) ==
    CASE n.k = "Char" -> IF n.c \in MetaChars THEN <<"\\", n.c>> ELSE <<n.c>>
      [] n.k \in LeafKinds -> LeafSyntax[n.k]
      [] n.k = "Group" -> <<"(">> \o Render(n.n) \o <<")">>
      [] n.k \in DOMAIN QuantifierChar -> Render(n.n) \o <<QuantifierChar[n.k]>>
      [] n.k = "Repeat" ->
           Render(n.n) \o <<"{", DigitChar(n.min)>>
           \o (IF n.max = None THEN <<>> ELSE <<",", DigitChar(n.max)>>) \o <<"]">>
      [] n.k = "Concat" -> RenderAll(n.s, <<>>)
      [] n.k = "Alternation" -> RenderAll(n.s, <<"|">>)

-----------------------------------------------------------------------------
Parsed == result.st # "none"

(* Soundness of parse(): every AST the parser returns is one the grammar   *)
(* of spec 4.2 derives -- quantifiers apply to a primary only, Concat and  *)
(* Alternation have at least two children and never nest directly, repeat  *)
(* counts are single digits.                                               *)
ParsesOnlyWellFormed ==
    Parsed /\ result.st = "ok" => IsAlternation(result.node)

(* Spec 4.2/7: a parse error surfaces "the first error encountered"; a     *)
(* successful parse has consumed the whole pattern.                        *)
ParseConsumesWholePattern ==
    Parsed /\ result.st = "ok" => Tokenize(pattern)[result.pos] = EOF

(* Spec 3: a RepeatRange with a max has max >= min.                        *)
RepeatRangeOrdered ==
    Parsed /\ result.st = "ok" /\ result.node.k = "Repeat"
        => result.node.max = None \/ result.node.max >= result.node.min

(* Spec 4.2: quantifier := '{' range '}'.  A literal followed by "{d}",    *)
(* "{d,}" or "{d,e}" is a well-formed pattern and parses.                  *)
BraceRepeatParses ==
    LET p == pattern IN
    Parsed /\ Len(p) >= 4 /\ p[1] \notin MetaChars \cup DOMAIN DigitValue
           /\ p[2] = "{" /\ p[3] \in DOMAIN DigitValue /\ p[Len(p)] = "}"
           /\ \/ Len(p) = 4
              \/ Len(p) = 5 /\ p[4] = ","
              \/ Len(p) = 6 /\ p[4] = "," /\ p[5] \in DOMAIN DigitValue
        => result.st = "ok"
=============================================================================
