--------------------------- MODULE MCSerialThread ---------------------------
(***************************************************************************)
(* Small instances of SerialThread for TLC.                                *)
(***************************************************************************)
EXTENDS SerialThread

\* For a channel of two bytes: two payloads that fill it and differ in every byte,
\* a shorter and an empty one, and one that does not fit.
MCPayloads == {<<>>, <<"a">>, <<"a", "a">>, <<"b", "b">>, <<"a", "b", "a">>}

\* Lengths of a fresh channel: negative as an int, a full channel, too long.
MCFreshLens == {-1, 2, 3}

\* One payload: how commands and answers are matched does not depend on the data.
MCOnePayload == {<<"a">>}

\* Lengths of a fresh channel of one byte.
MCFreshOne == {0, 2}
=============================================================================
