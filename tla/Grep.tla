------------------------------- MODULE Grep -------------------------------
(***************************************************************************)
(* The simplegrep command (src/simplegrep/src/main.rs): parse the pattern  *)
(* once, build the automaton, open the file or stdin, then read the input  *)
(* line by line and print the lines that match (or, with --invert-match,   *)
(* that do not), each preceded by "path:n" when a file was given.          *)
(*                                                                         *)
(* The output is the sequence of println! calls: a Header record for       *)
(* "path:n" and a Text record for a line.  A line that is not valid UTF-8  *)
(* is the value Invalid: lines() yields an Err for it.                     *)
(***************************************************************************)
EXTENDS NFA

CONSTANTS
    InputLines,     \* the sets of input contents: sequences of lines
    Invalid,        \* a line lines() cannot decode
    NoFile          \* --file absent: read stdin

VARIABLES
    invert,         \* cli.invert_match
    file,           \* cli.file: a path or NoFile
    input,          \* the lines of the file or of stdin
    nfa,            \* the automaton, once built
    read,           \* the number of lines read so far (line_num of the next)
    out,            \* what has been printed to stdout
    phase,          \* "parse", "build", "open", "read" or "exited"
    exitCode        \* the process exit status once exited

gvars == <<pattern, result, invert, file, input, nfa, read, out, phase, exitCode>>

Header(path, n) == [kind |-> "header", path |-> path, num |-> n, text |-> <<>>]
Text(l)         == [kind |-> "text", path |-> NoFile, num |-> 0, text |-> l]

NoNFA == [states |-> <<>>, start |-> 0, accept |-> 0]

\* Cli::parse: the arguments; the input is whatever the file or stdin holds.
Init ==
    /\ pattern \in Inputs
    /\ result = NotParsed
    /\ invert \in BOOLEAN
    /\ file \in {"input.txt", NoFile}
    /\ input \in InputLines
    /\ nfa = NoNFA
    /\ read = 0
    /\ out = <<>>
    /\ phase = "parse"
    /\ exitCode = 0

\* parser.parse(): on Err, eprintln! and std::process::exit(1).
ParsePattern ==
    /\ phase = "parse"
    /\ result' = Parse(pattern)
    /\ IF result'.st = "ok"
       THEN phase' = "build" /\ UNCHANGED exitCode
       ELSE phase' = "exited" /\ exitCode' = IF result'.st = "err" THEN 1 ELSE 101
    /\ UNCHANGED <<pattern, invert, file, input, nfa, read, out>>

\* NFA::from_regex(&regex_ast)
BuildNFA ==
    /\ phase = "build"
    /\ nfa' = FromRegex(result.node)
    /\ phase' = "open"
    /\ UNCHANGED <<pattern, result, invert, file, input, read, out, exitCode>>

\* BufReader::new(File::open(filename)?) or io::stdin().lock().
OpenInput ==
    /\ phase = "open"
    /\ phase' = "read"
    /\ UNCHANGED <<pattern, result, invert, file, input, nfa, read, out, exitCode>>

\* File::open fails: ? returns the Err from main, which exits with 1.
OpenFails ==
    /\ phase = "open"
    /\ file # NoFile
    /\ phase' = "exited"
    /\ exitCode' = 1
    /\ UNCHANGED <<pattern, result, invert, file, input, nfa, read, out>>

\* Mutant: the header prints the 0-based line_num.
ReadLineZeroBased ==
    /\ phase = "read"
    /\ read < Len(input)
    /\ input[read + 1] # Invalid
    /\ LET line == input[read + 1]
           shouldPrint == Matches(nfa, line) # invert
       IN  out' = IF ~shouldPrint THEN out
                  ELSE IF file # NoFile
                       THEN out \o <<Header(file, read), Text(line)>>
                       ELSE Append(out, Text(line))
    /\ read' = read + 1
    /\ UNCHANGED <<pattern, result, invert, file, input, nfa, phase, exitCode>>

\* One iteration of the loop over input.lines().enumerate().
ReadLine ==
    /\ phase = "read"
    /\ read < Len(input)
    /\ input[read + 1] # Invalid
    /\ LET line == input[read + 1]
           shouldPrint == Matches(nfa, line) # invert
       IN  out' = IF ~shouldPrint THEN out
                  ELSE IF file # NoFile
                       THEN out \o <<Header(file, read + 1), Text(line)>>
                       ELSE Append(out, Text(line))
    /\ read' = read + 1
    /\ UNCHANGED <<pattern, result, invert, file, input, nfa, phase, exitCode>>

\* let line = line?; on a read or decoding error main returns the Err.
ReadFails ==
    /\ phase = "read"
    /\ read < Len(input)
    /\ input[read + 1] = Invalid
    /\ phase' = "exited"
    /\ exitCode' = 1
    /\ UNCHANGED <<pattern, result, invert, file, input, nfa, read, out>>

\* println! panics when stdout can no longer be written (a closed pipe):
\* the process exits with 101, the line's "path:n" header possibly out.
PrintFails ==
    /\ phase = "read"
    /\ read < Len(input)
    /\ input[read + 1] # Invalid
    /\ Matches(nfa, input[read + 1]) # invert
    /\ \E headerOut \in IF file # NoFile THEN BOOLEAN ELSE {FALSE} :
          out' = IF headerOut THEN Append(out, Header(file, read + 1)) ELSE out
    /\ phase' = "exited"
    /\ exitCode' = 101
    /\ UNCHANGED <<pattern, result, invert, file, input, nfa, read>>

\* The input is exhausted: Ok(()).
Finish ==
    /\ phase = "read"
    /\ read = Len(input)
    /\ phase' = "exited"
    /\ exitCode' = 0
    /\ UNCHANGED <<pattern, result, invert, file, input, nfa, read, out>>

\* The process is gone: nothing changes any more.
Exited ==
    /\ phase = "exited"
    /\ UNCHANGED gvars

Next == ParsePattern \/ BuildNFA \/ OpenInput \/ OpenFails \/ ReadLine
        \/ ReadFails \/ PrintFails \/ Finish \/ Exited

(* A step other than Exited is enabled exactly until the process has      *)
(* exited: deadlock checking shows that every state before exit has a      *)
(* successor, and every such step changes phase or read.                  *)
Running == phase # "exited"

(* main is one thread that runs until it returns or exits: a step that    *)
(* can be taken is eventually taken.  This is WF_gvars(Next), with         *)
(* ENABLED <<Next>>_gvars written as the state predicate Running.          *)
Fairness == <>[]Running => []<><<Next>>_gvars

Spec == Init /\ [][Next]_gvars /\ Fairness

-----------------------------------------------------------------------------
\* The line filter main implements, read off its state: the selection is
\* fixed once the input is open; exit status 0 is success.
LF == INSTANCE LineFilter WITH
        lines <- input,
        path <- file,
        sel <- IF phase \in {"read", "exited"} /\ nfa # NoNFA
               THEN [k \in DOMAIN input |->
                       input[k] # Invalid /\ Matches(nfa, input[k]) # invert]
               ELSE [k \in DOMAIN input |-> FALSE],
        taken <- read,
        printed <- out,
        status <- CASE phase \in {"parse", "build", "open"} -> "setup"
                    [] phase = "read"                       -> "running"
                    [] exitCode = 0                          -> "ok"
                    [] OTHER                                 -> "failed"

(* main is the line filter of spec 6 and 7: lines are taken in order, a    *)
(* selected line is printed after its "path:n" header, whose n is the      *)
(* 1-based enumerate() index; a parse error, a lexer panic or a failed     *)
(* open stops it before any line, a read error stops it at that line, a    *)
(* failed println! part-way through a line; exit 0 only once every line   *)
(* has been taken; and main always ends.                                   *)
FilterRefined == LF!SafeSpec /\ LF!Termination
=============================================================================
