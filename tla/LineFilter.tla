----------------------------- MODULE LineFilter -----------------------------
(***************************************************************************)
(* What simplegrep promises its caller (spec 6 and 7), as an abstract       *)
(* specification: after a setup that may fail, the input is filtered line  *)
(* by line, in order.  A selected line is printed, preceded by "path:n"     *)
(* (n 1-based) when a path was given; the run stops with a failure at the   *)
(* first line that cannot be read, or part-way through printing a line     *)
(* when stdout cannot be written, and otherwise succeeds once every line   *)
(* has been taken.  Which lines are selected is fixed when the input is    *)
(* opened.  The run always ends.                                           *)
(***************************************************************************)
EXTENDS Naturals, Sequences

CONSTANTS
    Invalid,    \* a line that cannot be read
    NoFile      \* no path given

VARIABLES
    lines,      \* the input
    path,       \* the path, or NoFile
    sel,        \* sel[n]: line n is selected
    taken,      \* the number of lines filtered so far
    printed,    \* the output
    status      \* "setup", "running", "ok" or "failed"

fvars == <<lines, path, sel, taken, printed, status>>

Header(p, n) == [kind |-> "header", path |-> p, num |-> n, text |-> <<>>]
Text(l)      == [kind |-> "text", path |-> NoFile, num |-> 0, text |-> l]

\* The output for line n.
Show(n) == IF ~sel[n] THEN <<>>
           ELSE IF path # NoFile THEN <<Header(path, n), Text(lines[n])>>
           ELSE <<Text(lines[n])>>

Init == taken = 0 /\ printed = <<>> /\ status = "setup"

\* The input is opened; the selection is fixed.
Open ==
    /\ status = "setup"
    /\ status' = "running"
    /\ sel' \in [DOMAIN lines -> BOOLEAN]
    /\ UNCHANGED <<lines, path, taken, printed>>

\* Setup fails before any line is taken.
Abort ==
    /\ status = "setup"
    /\ status' = "failed"
    /\ UNCHANGED <<lines, path, taken, printed>>

Take ==
    /\ status = "running"
    /\ taken < Len(lines)
    /\ lines[taken + 1] # Invalid
    /\ printed' = printed \o Show(taken + 1)
    /\ taken' = taken + 1
    /\ UNCHANGED <<lines, path, sel, status>>

ReadError ==
    /\ status = "running"
    /\ taken < Len(lines)
    /\ lines[taken + 1] = Invalid
    /\ status' = "failed"
    /\ UNCHANGED <<lines, path, sel, taken, printed>>

\* Printing a selected line fails after a proper prefix of its output.
WriteError ==
    /\ status = "running"
    /\ taken < Len(lines)
    /\ lines[taken + 1] # Invalid
    /\ sel[taken + 1]
    /\ \E k \in 0..(Len(Show(taken + 1)) - 1) :
          printed' = printed \o SubSeq(Show(taken + 1), 1, k)
    /\ status' = "failed"
    /\ UNCHANGED <<lines, path, sel, taken>>

Done ==
    /\ status = "running"
    /\ taken = Len(lines)
    /\ status' = "ok"
    /\ UNCHANGED <<lines, path, sel, taken, printed>>

Next == Open \/ Abort \/ Take \/ ReadError \/ WriteError \/ Done

SafeSpec == Init /\ [][Next]_fvars

Spec == SafeSpec /\ WF_fvars(Next)

\* What the fairness of Spec buys: every run ends, in success or failure.
Termination == <>(status \in {"ok", "failed"})
=============================================================================
