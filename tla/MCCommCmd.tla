------------------------------ MODULE MCCommCmd ------------------------------
(***************************************************************************)
(* A shell with two modules: group "u" with the commands "l" and "u", and  *)
(* the command "c" without a group.  The table has room for exactly the    *)
(* six commands, the line buffer for four characters.                      *)
(***************************************************************************)
EXTENDS CommCmd

MCUsbNames == <<"l", "u">>
MCSockNames == <<"c">>

Upto(n, S) == UNION {[1..i -> S] : i \in 0..n}

\* Every short line, lines that fill the buffer and lines that overrun it, lines that
\* end in a carriage return, and the commands without a group.
MCLines ==
    Upto(3, {"u", "l", " "}) \cup [1..4 -> {"u", " "}] \cup [1..5 -> {"u", " "}]
    \cup {Append(l, "\r") : l \in [1..3 -> {"u", "l", " "}]}
    \cup {<<"u", "\t", "l">>, <<"c">>, <<"c", " ", "l">>, <<"c", "\t", "u", "l">>,
         <<"q">>, <<" ", "e", "\r">>, <<"h">>}
==============================================================================
