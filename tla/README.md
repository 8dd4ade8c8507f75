# TLA+ models of simplegrep

This directory models the regular-expression engine and the `simplegrep`
command of `src/simplegrep`. It uses TLA+ modules checked with TLC.

## The system

`src/simplegrep` is one sequential pipeline:

```
pattern --Lexer--> tokens --Parser--> RegexNode (AST) --NFA::from_regex--> NFA
input line --NFA::matches--> bool --main--> printed lines, exit status
```

| part | source | state | operations |
|---|---|---|---|
| Lexer | `tokens.rs` | `input: &str`, byte `position` | `new`, `next_token`, `handle_escape` |
| AST | `ast.rs` | `RegexNode`, `RepeatRange` values | constructors |
| Parser | `parser.rs` | the lexer, `current_token` | `parse`, `parse_alternation`, `parse_concat`, `parse_atom`, `parse_primary`, `parse_range`, `escape_to_node`, `consume_token` |
| Automaton builder | `automaton.rs` 18-158 | `states: Vec<NFAState>`, `start`, `accept` | `new`, `from_regex`, `build_from_node` (one arm per node kind) |
| Matcher | `automaton.rs` 160-190 | `current_states`, the rest of the line | `matches`, `transition` |
| CLI | `main.rs` | the options, the NFA, the line number, stdout | parse, build, open, then read/match/print each line |
| rsos kernel | `src/rsos` | (not present) | not modelled |

The components interact as follows:
- The parser pulls tokens one at a time: `consume_token` calls `next_token`. A lexer panic is therefore a parser panic, and in turn a process exit with status 101.
- The builder mutates its `Vec` in place. Each arm returns the index of the fragment's exit state, and the caller rewrites that state: the Alternation merge, the Star/Plus back edge, and Question's `Match`.
- `main` runs `matches` on every line with the same immutable NFA.

Nothing in the program is concurrent. The hard behaviours are these:
- Byte-versus-character arithmetic in the lexer.
- The stop conditions of the recursive descent.
- The in-place rewriting of states whose index was handed out earlier.
- The single `accept` field, which is fixed before construction.
- `main`'s exit paths after partial output.

`PROJECT.json` lists each hazard at its source line.

## Modules

- **Tokens** holds the lexer as pure operators.
  - `Encode(p)` gives the bytes of a pattern. A character in `Wide` is a first byte plus a `Continuation` byte.
  - `NextToken(b, pos)` and `HandleEscape(b, pos)` follow `next_token` and `handle_escape` branch by branch.
  - Slicing at a continuation byte is `PanicTok`.
  - `Tokenize(p)` is the token stream one `Parser` sees.
- **Lexer** is a state machine over the `Lexer` struct: `pattern`, `position`, the tokens returned so far, and `panicked`. One action is one `next_token` call.
- **TokenStream** is the abstract specification of the lexer (spec 4.1). It reads the pattern character by character and hands out the next token of `SpecTokens(text) \o <<EOF>>` with each `Emit`, under weak fairness. `Lexer` instantiates it with `text <- pattern, emitted <- tokens`. The property `TokenStreamRefined` (`TS!Spec`) states that the byte-level lexer implements it, including that repeated calls reach EOF.
- **Parser** holds the AST as records. Each parse function is a `RECURSIVE` operator over `ts == Tokenize(pattern)` and the index of `current_token`.
  - Each operator returns `ok` (node and next index), `err`, or `panic`.
  - `Then` is Rust's `?`.
  - `DoParse` is `main`'s call to `parse()`.
  - The module also holds a reference grammar, from spec 4.2 with `]` as the range close the code uses. `IsAlternation`/`IsAtom`/... is the set of well-formed ASTs, and `Render` is their concrete syntax.
- **NFA** holds `build_from_node` as `Build(node, cur, st)`, which returns the new state sequence and the exit index.
  - `Vec` indices are 0-based and are read through `At` and `SetState`.
  - `'\0'` is `NUL`.
  - `Matches` is `matches`.
  - `FragmentSize` and `LeafCount` are reference counts over the AST: the states each arm pushes, and the character tests a pattern unrolls to.
  - `BuildSizeExact` states that the automaton has exactly `1 + FragmentSize(ast)` states. `EveryLeafKeepsItsEdge` states that no in-place rewrite destroys a consuming edge.
- **Matcher** is `matches` as a state machine, with one step per character:
  - `MatchStep` is a step that has next states.
  - `MatchFail` is a step with an empty `next_states`.
  - `MatchEnd` is the final `contains(&accept)`.

  The module also has the reference language `InLanguage` of an AST (spec 4.4 and 8) and the reachability closure `ReachableFrom`.
- **Grep** models `main`:
  - `ParsePattern` exits with 1 on Err and 101 on a panic.
  - `BuildNFA`.
  - `OpenInput` / `OpenFails`.
  - `ReadLine`, which prints a header and the line when `matches != invert`.
  - `ReadFails`, for `line?` on an undecodable line.
  - `Finish`.
  - `PrintFails`: `println!` panics on a closed stdout (exit 101), possibly after the header.
  - `Exited`: the process is gone, so nothing changes any more.

  stdout is a sequence of `Header`/`Text` records.
- **LineFilter** is the abstract specification of the command (spec 6 and 7). It has the following actions:
  - `Open`: the setup succeeds, and the per-line selection `sel` is fixed.
  - `Abort`: the setup fails.
  - `Take`: one line is taken, and `Show(n)` is printed.
  - `ReadError`.
  - `WriteError`: printing stops after a proper prefix of one line's output.
  - `Done`.

  It also has `Termination`. `Grep` instantiates it as `LF`. Its mapping is:
  - `sel[k]` is `input[k] # Invalid /\ Matches(nfa, input[k]) # invert` once the input is open.
  - `status` is computed from `phase` and `exitCode`.

  `FilterRefined == LF!SafeSpec /\ LF!Termination`.
- **MCBuild** adds `MCNestedASTs`: Repeats of Repeats two levels deep, over unbounded, bounded, inverted (`{2,1]`) and empty-optional ranges, around a Char, a Star and an Alternation. `ParseReturnsSourceAST` compares the parse of each input with the AST it was written from: `MCWrittenFrom` pairs every input with its AST, and an ASSUME checks that no two ASTs render alike.
- **MCLexer**, **MCParser**, **MCMatcher** and **MCGrep** give the constants: the character sets, the pattern sets and the input sets.

## Runs

| run | cfg | expect | what it shows |
|---|---|---|---|
| lexer_ascii | MCLexer.cfg | pass | `TypeOK`, `NoPanic` and `TokenStreamRefined` hold for every pattern of ≤3 characters over all 12 symbols, plus backslash, whitespace, letters and class letters: the lexer implements the token stream of spec 4.1 and reaches EOF. |
| lexer_wide | MCLexerWide.cfg | violation | With `é`, `next_token` slices mid-character and panics. |
| parser_grammar | MCParserGrammar.cfg | pass | Every pattern rendered from a generated well-formed AST parses back to exactly that AST (`ParseReturnsSourceAST`) and consumes every token. Comparing the ASTs, and not just their renderings, checks precedence: the ill-formed `Star(Concat(a,b))` and `Concat(a,Star(b))` both render as `ab*`. The ASTs cover up to three levels of nesting, with groups, alternation, concatenation, all quantifiers, ranges and escapes, in patterns up to 16 characters long. For these patterns and the nested Repeats of `MCBuild`, `from_regex` builds exactly `1 + FragmentSize(ast)` states. Nested ranges multiply (`(a{9]){9]` has 82 states). This pins how many states are pushed; it does not bound memory or recursion depth. |
| parser_sound | MCParserSound.cfg | pass | Every AST returned for any pattern of ≤4 of the 12 structural characters is well-formed. |
| parser_trailing | MCParserTrailing.cfg | violation | `,)` parses Ok, and the `)` is ignored. |
| parser_range_order | MCParserRangeOrder.cfg | violation | `,{2,1]` gives a range with max < min. |
| parser_brace | MCParserBrace.cfg | violation | `,{1}` is a parse error. |
| matcher | MCMatcher.cfg | pass | For every parsable pattern of ≤4 characters over `a b . * + ? \| ( ) { 2 ]` and every line of ≤3 characters over `a b`, edges stay in range and `matches` accepts exactly the empty line. |
| matcher_regex | MCMatcherMatchAgreesWithRegex.cfg | violation | `.` matches the empty line. |
| matcher_reachable | MCMatcherEveryStateReachable.cfg | violation | `.*` builds a loop that is unreachable from start. |
| build_edges | MCBuildEdges.cfg | violation | In `,*\` the Char after the Star is built from the Star's returned entry state and overwrites its Transition, so the `,` test is lost. |
| grep | MCGrep.cfg | pass | `FilterRefined` holds: `main` implements the abstract line filter on every exit path, including a failed `println!`, with correct 1-based headers and termination. Deadlock checking is on, and `Exited` stutters after exit. |

Each property of a passing run has a mutant in `PROJECT.json`: a plausible one-line bug in the mapped operator, placed just before it, that TLC catches. The findings behind the violation runs are in `PROJECT.json` under `findings`.

In short, the engine as written matches only the empty line:
- `accept` stays 0.
- No edge returns to state 0.
- Quantifier and alternation fragments are not linked to their entry state.
- A quantifier returns its entry as its exit, so whatever follows it overwrites its first edge.

These bounds are enough for the following reasons:
- Every branch of the lexer and parser is a function of at most the next three tokens. Patterns of 3 to 6 characters over all the relevant symbols reach every branch, as TLC's coverage shows.
- The grammar run adds deep nesting, which enumerating short strings cannot reach. Its nested Repeats reach automata of 5 to 28 states, with every kind of range at both levels.
- For the automaton, a pattern of 4 characters already combines two constructs (a quantifier in a group, or a quantifier in an alternative), which is where the in-place rewrites interact.

Fairness is weak fairness on the program's own next-state relation, because the program is a single thread that is never blocked forever. Two modules use it:
- `Lexer` uses `WF_vars(Next)`. It models a caller that keeps calling `next_token` until EOF.
- `Grep` states the same fairness as `<>[]Running => []<><<Next>>_gvars`, where `Running == phase # "exited"`. TLC's evaluation of `ENABLED` through the recursive `Parse` operator is far too slow, so a state predicate stands in for it.
  - Deadlock checking in `MCGrep.cfg` shows that the predicate is sound: every state before exit has a successor, and each such step changes `phase` or `read`. So `Running` implies `ENABLED <<Next>>_gvars`.
  - The other runs end in final states by design (EOF, a verdict, a parse result), so they turn deadlock checking off.
  - In `LineFilter`, the fairness is `WF_fvars(Next)`. Grep is checked against its consequence `Termination` rather than against `WF` directly, which would make TLC evaluate `ENABLED` over the mapped variables.

## Not modelled

- `src/rsos`: only the boot entry point and a smoke test are present. The executor, allocator and drivers it calls are not in the source.
- `clap` argument parsing, the exact text of error messages, and `println!` formatting. A line is a sequence of characters, and a header is a record.
- Stack depth and memory. Deep nesting overflows the Rust stack, and no model of this size reaches that. `BuildSizeExact` counts the states pushed but sets no bound on them.
- A refinement of `matches` against the epsilon-closure simulation of spec 4.4. No automaton the builder produces has an epsilon edge reachable from start (see matcher_reachable), so the closure is always the identity. Such a check would only restate `transition`, and it would also have to adopt the code's `'\0'` wildcard.

## Plan for later sittings

Done in sitting 2: the abstract specifications `TokenStream` and `LineFilter`, the refinement of each, termination, and the `println!` fault.

Done in sitting 3:
- the exact state count of the builder (`BuildSizeExact`), over nested ranges;
- the lost-edge bug after a quantifier (`EveryLeafKeepsItsEdge`);
- `ParseReturnsSourceAST`, which compares parses with their source ASTs instead of renderings.

1. A second `Matcher` instance with `accept` taken as "any Match-tagged state", to separate the `accept` bug from the construction bugs, and to check `MatchAgreesWithRegex` on constructs the code gets right.
2. A Lexer/Parser composition as one state machine (`current_token` plus a lexer position), refining `Parser`'s `Tokenize`-based operators.
3. Nested quantifiers (`(a*)*`, `(a*)?`) in the matcher run, which needs patterns of 5 characters.
