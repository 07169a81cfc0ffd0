---------------------------- MODULE LedgerFeed ----------------------------
(***************************************************************************)
(* What the consumer of a forward ledger stream (ledger/sync.js) may rely  *)
(* on: ledgers are handed out one by one, in ascending order, each exactly *)
(* once, never beyond the newest ledger known, and a known ledger is       *)
(* handed out eventually.  LedgerStream implements this.                   *)
(***************************************************************************)
EXTENDS Integers

CONSTANTS
  Start,      \* the first ledger to hand out
  Heads       \* the newest ledger at the time the feed is created

VARIABLES
  next,       \* the next ledger to hand out
  head        \* the newest ledger known

feedVars == <<next, head>>

Init == next = Start /\ head \in Heads

Deliver == /\ next <= head
           /\ next' = next + 1
           /\ UNCHANGED head

Extend == /\ head' \in Int
          /\ head' > head
          /\ UNCHANGED next

Next == Deliver \/ Extend

SafeSpec == Init /\ [][Next]_feedVars

Progress == WF_feedVars(Deliver)
===========================================================================
