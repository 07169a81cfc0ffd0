-------------------------- MODULE MCLedgerStream --------------------------
(* Small instances of LedgerStream for TLC.                                *)
EXTENDS LedgerStream

MCHeads == {2, 4}
MCLive == 3 .. 6
MCBackward == -1
===========================================================================
