--------------------------- MODULE MCLiveLedgers ---------------------------
(***************************************************************************)
(* Instances of LiveLedgers for TLC.                                       *)
(***************************************************************************)
EXTENDS LiveLedgers, TLC

MCSymmetry == Permutations(Connections) \cup Permutations(Transactions)
===========================================================================
