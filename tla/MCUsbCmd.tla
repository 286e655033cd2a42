------------------------------ MODULE MCUsbCmd ------------------------------
(***************************************************************************)
(* Instances of UsbCmd for TLC.  With Byte = 4 a 16-bit word has 16 values *)
(* and a 32-bit one 256; the typed numbers include the last analog         *)
(* register, the first address behind them, an unaligned address, the last *)
(* word, a count whose product with 4 wraps, and numbers wider than a      *)
(* word.                                                                   *)
(***************************************************************************)
EXTENDS UsbCmd

MCDevices == {<<14, 3>>, <<14, 5>>}
MCOneDevice == {<<14, 3>>}
=============================================================================
