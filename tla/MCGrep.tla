------------------------------- MODULE MCGrep -------------------------------
(* Model-checking instance of Grep: a few patterns (one that does not      *)
(* parse), every input of up to three lines among an empty line, two       *)
(* non-empty lines and one lines() cannot decode.                          *)
EXTENDS Grep

MCPatterns == {<<"a">>, <<"a", "*">>, <<"a", "|", "b">>, <<".", "?">>, <<"(">>, <<"é">>}
MCWide == {"é"}
MCInputLines == UNION {[1..n -> {<<>>, <<"a">>, <<"a", "b">>, Invalid}] : n \in 0..3}
=============================================================================
