-------------------------- MODULE MCLedgerIndexer -------------------------
(* Small instances of LedgerIndexer for TLC.                               *)
EXTENDS LedgerIndexer

MCLedgers == 1 .. 6
===========================================================================
