------------------------------ MODULE FileBytes ------------------------------
(***************************************************************************)
(* The contents of a file, as the programs that write files see them.      *)
(***************************************************************************)
EXTENDS Integers, Sequences

CONSTANT Pad        \* the character in a hole of a file

\* The characters of a file; the mark of a file that is not there is none of them.
Character == STRING \ {"missing"}
Missing == <<"missing">>

ASSUME PadAssumption == Pad \in Character

\* s with d from position p on; a hole is padded.
Overwritten(s, p, d) ==
    [i \in 1..(IF p + Len(d) > Len(s) THEN p + Len(d) ELSE Len(s)) |->
        IF i > p /\ i <= p + Len(d) THEN d[i - p] ELSE IF i <= Len(s) THEN s[i] ELSE Pad]
=============================================================================
