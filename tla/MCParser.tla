------------------------------ MODULE MCParser ------------------------------
(* Model-checking instances of Parser.                                     *)
EXTENDS Parser

\* Every pattern of up to four characters over the structural characters.
MCStructureChars == {"a", "(", ")", "|", "*", "?", "{", "1", ",", "]", "}", "\\"}
MCPatterns == UNION {[1..n -> MCStructureChars] : n \in 0..4}

\* Every pattern of up to six characters over the characters of a range.
MCRangeChars == {"a", "{", "}", "]", ",", "1", "2"}
MCRangePatterns == UNION {[1..n -> MCRangeChars] : n \in 0..6}

(* Patterns written from the grammar: Render(a) for the well-formed ASTs   *)
(* built below -- literals (one a metacharacter, one a digit), leaves,     *)
(* every quantifier, concatenations and alternations of two and three,    *)
(* and groups of those, themselves quantified and concatenated.            *)
Prims == {CharNode("a"), CharNode("1"), CharNode("*"), Node("AnyChar"),
          Node("WordBoundary")}
Ranges == {[min |-> 2, max |-> None], [min |-> 0, max |-> 3],
           [min |-> 1, max |-> 1]}
Quantified(P) == P \cup {Unary(q, p) : q \in {"Star", "Plus", "Question"}, p \in P}
                   \cup {RepeatNode(p, r) : p \in P, r \in Ranges}
Concats(A, B) == {SeqNode("Concat", <<x, y>>) : x \in A, y \in B}
Alternations(A, B) == {SeqNode("Alternation", <<x, y>>) : x \in A, y \in B}
Triples(k) == {SeqNode(k, <<x, y, z>>) : x, y, z \in Prims}

Atoms == Quantified(Prims)
Flat == Atoms \cup Concats(Atoms, Atoms) \cup Triples("Concat")
Inner == Prims \cup Concats(Prims, Prims) \cup Alternations(Prims, Prims)
         \cup Triples("Alternation")
Groups == {Unary("Group", x) : x \in Inner \cup {Unary("Group", CharNode("a"))}}
GroupAtoms == Quantified(Groups)

MCGrammarASTs ==
    Flat \cup Alternations(Flat, Prims) \cup GroupAtoms
    \cup Concats(GroupAtoms, Prims) \cup Alternations(Prims, GroupAtoms)

MCGrammarPatterns == {Render(a) : a \in MCGrammarASTs}
=============================================================================
