------------------------------ MODULE MCMatcher ------------------------------
(* Model-checking instance of Matcher: every pattern of up to four         *)
(* characters over literals, quantifiers, alternation, groups and a range, *)
(* matched against every line of up to three characters.                   *)
EXTENDS Matcher

MCPatternChars == {"a", "b", ".", "*", "+", "?", "|", "(", ")", "{", "2", "]"}
MCInputs == UNION {[1..n -> MCPatternChars] : n \in 1..4}
MCLineChars == {"a", "b"}
=============================================================================
