----------------------------- MODULE MCXyzModem -----------------------------
(***************************************************************************)
(* Three blocks, short and long; the second is padded, the third ends in   *)
(* two padding characters, which stay.  Their numbers wrap to 0.           *)
(***************************************************************************)
EXTENDS XyzModem

MCFile == << <<"a", "b", "c">>, <<"d", "z", "z", "z">>, <<"e", "z", "z">> >>
=============================================================================
