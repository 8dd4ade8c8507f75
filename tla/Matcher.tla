------------------------------ MODULE Matcher ------------------------------
(***************************************************************************)
(* NFA::matches (src/simplegrep/src/automaton.rs) as a state machine: one  *)
(* step per character of the line.  The automaton is the one main.rs       *)
(* builds: the pattern is parsed, and when the parse succeeds its AST is   *)
(* compiled by NFA::from_regex.                                            *)
(***************************************************************************)
EXTENDS NFA

CONSTANTS
    LineChars,      \* the characters lines are written with
    MaxLineLen

VARIABLES
    nfa,            \* the automaton built from result.node
    line,           \* the line being matched
    current,        \* current_states
    rest,           \* the characters of line not yet consumed
    verdict         \* "running", or the value matches() returned

mvars == <<pattern, result, nfa, line, current, rest, verdict>>

Lines == UNION {[1..n -> LineChars] : n \in 0..MaxLineLen}

\* parse, from_regex, then matches(line) entered: current_states = [start].
Init ==
    /\ pattern \in Inputs
    /\ result = Parse(pattern)
    /\ result.st = "ok"
    /\ nfa = FromRegex(result.node)
    /\ line \in Lines
    /\ current = <<nfa.start>>
    /\ rest = line
    /\ verdict = "running"

\* One iteration of the for loop that finds next states.
MatchStep ==
    /\ verdict = "running"
    /\ rest # <<>>
    /\ Step(nfa, current, Head(rest)) # <<>>
    /\ current' = Step(nfa, current, Head(rest))
    /\ rest' = Tail(rest)
    /\ UNCHANGED <<pattern, result, nfa, line, verdict>>

\* next_states is empty: return false.
MatchFail ==
    /\ verdict = "running"
    /\ rest # <<>>
    /\ Step(nfa, current, Head(rest)) = <<>>
    /\ verdict' = "nomatch"
    /\ UNCHANGED <<pattern, result, nfa, line, current, rest>>

\* The line is consumed: return current_states.contains(&self.accept).
MatchEnd ==
    /\ verdict = "running"
    /\ rest = <<>>
    /\ verdict' = IF \E j \in DOMAIN current : current[j] = nfa.accept
                  THEN "match" ELSE "nomatch"
    /\ UNCHANGED <<pattern, result, nfa, line, current, rest>>

Next == MatchStep \/ MatchFail \/ MatchEnd

Spec == Init /\ [][Next]_mvars

-----------------------------------------------------------------------------
Indices == 0..(Len(nfa.states) - 1)

HasEdge(s) == s.kind \in {"Transition", "EpsilonTransition"}

\* The indices reachable from S along the edges of the automaton.
RECURSIVE ReachableFrom(_)
ReachableFrom(S) ==
    LET T == S \cup {At(nfa.states, i).next : i \in {j \in S : HasEdge(At(nfa.states, j))}}
    IN  IF T = S THEN S ELSE ReachableFrom(T)

DigitChars == DOMAIN DigitValue
Letters == {"a", "b", "c", "d", "e", "f", "g", "h", "i", "j", "k", "l", "m",
            "n", "o", "p", "q", "r", "s", "t", "u", "v", "w", "x", "y", "z",
            "A", "B", "C", "D", "E", "F", "G", "H", "I", "J", "K", "L", "M",
            "N", "O", "P", "Q", "R", "S", "T", "U", "V", "W", "X", "Y", "Z"}

(* Reference: the whole-line language of an anchor-free AST as spec        *)
(* sections 4.4 and 8 describe it.                                         *)
RECURSIVE InLanguage(_, _), InConcat(_, _), InRepeat(_, _, _, _)
InLanguage(n, s) ==
    CASE n.k = "Char"        -> s = <<n.c>>
      [] n.k = "AnyChar"     -> Len(s) = 1
      [] n.k = "Digit"       -> Len(s) = 1 /\ s[1] \in DigitChars
      [] n.k = "WordChar"    -> Len(s) = 1 /\ s[1] \in Letters \cup DigitChars \cup {"_"}
      [] n.k = "Whitespace"  -> Len(s) = 1 /\ s[1] \in WhitespaceChars
      [] n.k = "Concat"      -> InConcat(n.s, s)
      [] n.k = "Alternation" -> \E j \in DOMAIN n.s : InLanguage(n.s[j], s)
      [] n.k = "Group"       -> InLanguage(n.n, s)
      [] n.k = "Question"    -> s = <<>> \/ InLanguage(n.n, s)
      [] n.k = "Star"        -> InRepeat(n.n, 0, None, s)
      [] n.k = "Plus"        -> InRepeat(n.n, 1, None, s)
      [] n.k = "Repeat"      -> InRepeat(n.n, n.min, n.max, s)
InConcat(ns, s) ==
    IF ns = <<>> THEN s = <<>>
    ELSE \E j \in 0..Len(s) : /\ InLanguage(Head(ns), SubSeq(s, 1, j))
                              /\ InConcat(Tail(ns), SubSeq(s, j + 1, Len(s)))
\* s is the concatenation of k words of n with lo <= k <= hi (hi = None:
\* no bound).
InRepeat(n, lo, hi, s) ==
    \/ lo = 0 /\ s = <<>>
    \/ lo > 0 /\ hi # 0 /\ s = <<>> /\ InLanguage(n, <<>>)
    \/ /\ hi # 0
       /\ \E j \in 1..Len(s) :
            /\ InLanguage(n, SubSeq(s, 1, j))
            /\ InRepeat(n, IF lo > 0 THEN lo - 1 ELSE 0,
                        IF hi = None THEN None ELSE hi - 1, SubSeq(s, j + 1, Len(s)))

-----------------------------------------------------------------------------
(* from_regex only ever writes edges to indices it has allocated, so       *)
(* self.states[state] in transition() never indexes past the end of the    *)
(* Vec, whatever the nesting of quantifiers, groups and repeats.           *)
EdgesInRange ==
    /\ \A i \in Indices : HasEdge(At(nfa.states, i)) => At(nfa.states, i).next \in Indices
    /\ \A j \in DOMAIN current : current[j] \in Indices

(* What matches() computes: NFA::new sets accept to 0 and nothing moves    *)
(* it, and no edge build_from_node writes leads back to state 0, so a line *)
(* is accepted exactly when it is empty -- whatever the pattern.           *)
MatchesExactlyEmptyLines ==
    verdict # "running" => (verdict = "match" <=> line = <<>>)

(* Spec 4.4 and 8: matches(line) is true iff the whole line is in the      *)
(* language of the pattern (e.g. "a" matches "a", "a*" matches "aaa").     *)
MatchAgreesWithRegex ==
    verdict # "running" => (verdict = "match" <=> InLanguage(result.node, line))

(* Spec 4.3: every fragment is built from its entry state, so every state  *)
(* from_regex allocates can be reached from nfa.start.                     *)
EveryStateReachable ==
    Indices \subseteq ReachableFrom({nfa.start})
=============================================================================
