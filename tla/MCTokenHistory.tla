--------------------------- MODULE MCTokenHistory --------------------------
(***************************************************************************)
(* Instances of TokenHistory for TLC.                                      *)
(***************************************************************************)
EXTENDS TokenHistory

MCThree == 1 .. 3
MCFour == 1 .. 4
===========================================================================
