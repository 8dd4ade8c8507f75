-------------------------------- MODULE NFA --------------------------------
(***************************************************************************)
(* The automaton of simplegrep (src/simplegrep/src/automaton.rs): the      *)
(* construction NFA::from_regex / build_from_node and the simulation       *)
(* NFA::matches / transition, as pure operators.                           *)
(*                                                                         *)
(* states is a Vec<NFAState> with 0-based indices; the model keeps it as a *)
(* TLA+ sequence and reads index i at position i + 1.  A transition label  *)
(* is a character or NUL, the '\0' sentinel that transition() treats as    *)
(* "any character".                                                        *)
(***************************************************************************)
EXTENDS Parser

NUL == "<NUL>"

(* enum NFAState: Start, Match, Transition(char, usize),                   *)
(* EpsilonTransition(usize).                                               *)
StartState     == [kind |-> "Start", ch |-> "", next |-> 0]
MatchState     == [kind |-> "Match", ch |-> "", next |-> 0]
Transition(ch, n) == [kind |-> "Transition", ch |-> ch, next |-> n]
Epsilon(n)     == [kind |-> "EpsilonTransition", ch |-> "", next |-> n]

At(st, i) == st[i + 1]                              \* self.states[i]
SetState(st, i, v) == [st EXCEPT ![i + 1] = v]      \* self.states[i] = v

\* Node kinds whose arm writes a Transition on '\0': AnyChar, the classes
\* and the anchors.
SentinelKinds == LeafKinds

-----------------------------------------------------------------------------
(* build_from_node(node, current_state) with states st: the new states and *)
(* the index it returns.                                                   *)

\* Mutant: the index of the fresh state is taken after the push.
PrimitiveAfterPush(ch, cur, st) ==
    LET new == Len(st) + 1
    IN  [st |-> Append(SetState(st, cur, Transition(ch, new)), MatchState),
         exit |-> new]

\* The arm of Char and of every sentinel kind: rewrite the current state
\* into a transition to a fresh state, push that state as Match.
Primitive(ch, cur, st) ==
    LET new == Len(st)
    IN  [st |-> Append(SetState(st, cur, Transition(ch, new)), MatchState),
         exit |-> new]

RECURSIVE Build(_, _, _), BuildEach(_, _, _), BuildBranches(_, _, _, _),
          BuildTimes(_, _, _, _)

\* Mutant: the loop is built on the current state instead of a fresh one.
QuantifierFromCurrent(node, cur, st, loop) ==
    LET r == Build(node.n, cur, st)
    IN  [st |-> SetState(r.st, r.exit, IF loop THEN Epsilon(cur) ELSE MatchState),
         exit |-> cur]

\* The Star and Plus arms (loop = TRUE) and the Question arm (loop =
\* FALSE): push a fresh Start state, build the operand from it, rewrite
\* the operand's exit into an epsilon back to it (Star, Plus) or into
\* Match (Question); return the fresh state.
Quantifier(node, cur, st, loop) ==
    LET s == Len(st)
        r == Build(node.n, s, Append(st, StartState))
    IN  [st |-> SetState(r.st, r.exit, IF loop THEN Epsilon(s) ELSE MatchState),
         exit |-> s]

\* The Concat arm: thread each node's exit into the next.
BuildEach(nodes, cur, st) ==
    IF nodes = <<>> THEN [st |-> st, exit |-> cur]
    ELSE LET r == Build(Head(nodes), cur, st)
         IN  BuildEach(Tail(nodes), r.exit, r.st)

\* The loop of the Alternation arm: every branch is built from start; the
\* first branch's exit is kept as accept_state, every later branch's exit
\* is rewritten into Match.
BuildBranches(nodes, start, st, accept) ==
    IF nodes = <<>> THEN [st |-> st, exit |-> IF accept = None THEN start ELSE accept]
    ELSE LET r == Build(Head(nodes), start, st)
         IN  IF accept = None
             THEN BuildBranches(Tail(nodes), start, r.st, r.exit)
             ELSE BuildBranches(Tail(nodes), start, SetState(r.st, r.exit, MatchState), accept)

\* A loop of the Repeat arm: build node k times in sequence.
BuildTimes(node, k, cur, st) ==
    IF k <= 0 THEN [st |-> st, exit |-> cur]
    ELSE LET r == Build(node, cur, st)
         IN  BuildTimes(node, k - 1, r.exit, r.st)

\* Mutant: the optional copies run over min..=max.
BuildRepeatInclusive(node, cur, st) ==
    LET r == BuildTimes(node.n, node.min, cur, st)
    IN  IF node.max = None THEN r
        ELSE BuildTimes(node.n, node.max - node.min + 1, r.exit, r.st)

\* The Repeat arm: min copies, then max - min more when max is Some (the
\* range min..max is empty when max <= min); nothing for an unbounded max.
BuildRepeat(node, cur, st) ==
    LET r == BuildTimes(node.n, node.min, cur, st)
    IN  IF node.max = None THEN r
        ELSE BuildTimes(node.n, node.max - node.min, r.exit, r.st)

Build(node, cur, st) ==
    CASE node.k = "Char"             -> Primitive(node.c, cur, st)
      [] node.k \in SentinelKinds    -> Primitive(NUL, cur, st)
      [] node.k = "Concat"           -> BuildEach(node.s, cur, st)
      [] node.k = "Alternation"      ->
           BuildBranches(node.s, Len(st), Append(st, StartState), None)
      [] node.k \in {"Star", "Plus"} -> Quantifier(node, cur, st, TRUE)
      [] node.k = "Question"         -> Quantifier(node, cur, st, FALSE)
      [] node.k = "Repeat"           -> BuildRepeat(node, cur, st)
      [] node.k = "Group"            -> Build(node.n, cur, st)

(* Reference: the number of states build_from_node pushes for node.  A    *)
(* primitive pushes one state, Alternation and each quantifier one entry  *)
(* state, a Group none; a Repeat unrolls its operand min times, then       *)
(* max - min times more when max is present and above min.                *)
RECURSIVE FragmentSize(_)
FragmentSize(node) ==
    LET SizeOf(s) == LET RECURSIVE Sum(_)
                         Sum(i) == IF i = 0 THEN 0 ELSE FragmentSize(s[i]) + Sum(i - 1)
                     IN  Sum(Len(s))
        copies == node.min + IF node.max = None \/ node.max <= node.min THEN 0
                             ELSE node.max - node.min
    IN  CASE node.k = "Char" \/ node.k \in SentinelKinds -> 1
          [] node.k = "Concat"      -> SizeOf(node.s)
          [] node.k = "Alternation" -> 1 + SizeOf(node.s)
          [] node.k \in {"Star", "Plus", "Question"} -> 1 + FragmentSize(node.n)
          [] node.k = "Group"       -> FragmentSize(node.n)
          [] node.k = "Repeat"      -> copies * FragmentSize(node.n)

(* Reference: the number of character tests node unrolls to, each of     *)
(* which build_from_node writes as one consuming Transition edge.         *)
RECURSIVE LeafCount(_)
LeafCount(node) ==
    LET CountOf(s) == LET RECURSIVE Sum(_)
                          Sum(i) == IF i = 0 THEN 0 ELSE LeafCount(s[i]) + Sum(i - 1)
                      IN  Sum(Len(s))
        copies == node.min + IF node.max = None \/ node.max <= node.min THEN 0
                             ELSE node.max - node.min
    IN  CASE node.k = "Char" \/ node.k \in SentinelKinds -> 1
          [] node.k \in {"Concat", "Alternation"} -> CountOf(node.s)
          [] node.k \in {"Star", "Plus", "Question", "Group"} -> LeafCount(node.n)
          [] node.k = "Repeat" -> copies * LeafCount(node.n)

\* The consuming edges of an automaton.
ConsumingEdges(nfa) ==
    {i \in 0 .. Len(nfa.states) - 1 : At(nfa.states, i).kind = "Transition"}

(* NFA::new then NFA::from_regex: start and accept stay 0.                 *)
FromRegex(node) ==
    [states |-> Build(node, 0, <<StartState>>).st, start |-> 0, accept |-> 0]

-----------------------------------------------------------------------------
(* Simulation.                                                             *)

(* NFA::transition: the states reached from state on ch.  An epsilon edge  *)
(* is taken whatever ch is, and consumes ch like any other edge.           *)
TransitionOn(nfa, state, ch) ==
    LET s == At(nfa.states, state)
    IN  IF \/ s.kind = "Transition" /\ (s.ch = NUL \/ s.ch = ch)
           \/ s.kind = "EpsilonTransition"
        THEN <<s.next>> ELSE <<>>

(* One iteration of the loop of NFA::matches: next_states, the transitions *)
(* of every current state in order (a Vec, so duplicates are kept).        *)
Step(nfa, current, ch) ==
    FlattenSeq([j \in DOMAIN current |-> TransitionOn(nfa, current[j], ch)])

(* NFA::matches                                                            *)
Matches(nfa, line) ==
    LET RECURSIVE Run(_, _)
        Run(current, rest) ==
            IF rest = <<>> THEN \E j \in DOMAIN current : current[j] = nfa.accept
            ELSE LET next == Step(nfa, current, Head(rest))
                 IN  IF next = <<>> THEN FALSE ELSE Run(next, Tail(rest))
    IN  Run(<<nfa.start>>, line)
-----------------------------------------------------------------------------
(* The memory from_regex takes: the automaton of a parsed pattern has one  *)
(* state for NFA::new plus FragmentSize(ast).  Nested Repeats multiply --  *)
(* "(a{9]){9]" builds 82 states -- so the Vec grows exponentially in the    *)
(* nesting of ranges, while an empty or inverted range (max <= min) adds   *)
(* no optional copy.                                                       *)
BuildSizeExact ==
    result.st = "ok" => Len(FromRegex(result.node).states) = 1 + FragmentSize(result.node)

(* No character test of the pattern is lost: from_regex writes one         *)
(* Transition per character, class, anchor or '.', and the later in-place  *)
(* rewrites -- the Alternation merge, the Star/Plus back edge, Question's  *)
(* Match, and every branch sharing one start state -- never overwrite one. *)
EveryLeafKeepsItsEdge ==
    result.st = "ok" =>
        Cardinality(ConsumingEdges(FromRegex(result.node))) = LeafCount(result.node)
=============================================================================
