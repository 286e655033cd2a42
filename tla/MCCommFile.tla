------------------------------ MODULE MCCommFile ------------------------------
(***************************************************************************)
(* The file object of demo-io on a small file.                             *)
(***************************************************************************)
EXTENDS CommFile

MCTexts == {<<"b", "a">>}
=============================================================================
