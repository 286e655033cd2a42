------------------------------- MODULE Delivery -------------------------------
(***************************************************************************)
(* What the caller of a block receiver and the sender are promised: the    *)
(* caller is handed the contents of the blocks in order and in pieces of   *)
(* any length; the next block is taken, and the one before acknowledged,   *)
(* only when the caller has had all of it.                                 *)
(***************************************************************************)
EXTENDS Integers, Sequences

CONSTANTS
    Blocks,     \* the number of blocks
    Contents    \* Contents[k]: the contents of the first k blocks

VARIABLES
    got,        \* what the caller has been handed
    taken,      \* the blocks accepted
    acked,      \* the blocks acknowledged
    lapsed      \* nothing is promised any more

vars == <<got, taken, acked, lapsed>>

Init == got = <<>> /\ taken = 0 /\ acked = 0 /\ lapsed = FALSE

Take ==
    /\ taken < Blocks /\ acked = taken
    /\ taken' = taken + 1
    /\ UNCHANGED <<got, acked, lapsed>>

HandOver ==
    /\ \E n \in (Len(got) + 1)..Len(Contents[taken]) : got' = SubSeq(Contents[taken], 1, n)
    /\ UNCHANGED <<taken, acked, lapsed>>

Acknowledge ==
    /\ acked < taken /\ got = Contents[taken]
    /\ acked' = acked + 1
    /\ UNCHANGED <<got, taken, lapsed>>

Lapse == lapsed' = TRUE /\ (lapsed \/ UNCHANGED <<got, taken, acked>>)

Next == Lapse \/ (~lapsed /\ (Take \/ HandOver \/ Acknowledge))

Spec == Init /\ [][Next]_vars
=============================================================================
