--------------------------- MODULE IndexedRange ---------------------------
(***************************************************************************)
(* What readers of the core database (the range queries of the API, the    *)
(* health report) may rely on: the ledgers it holds are one interval.  It  *)
(* begins as a single ledger, the one of the snapshot, and grows by the    *)
(* next newer or the next older ledger.  A power loss may take back the    *)
(* last commits, but never makes a hole.                                   *)
(***************************************************************************)
EXTENDS Integers

VARIABLE rows     \* the ledgers the database holds

Init == rows = {}

Begin == rows = {} /\ \E l \in rows' : rows' = {l}

Newer == \E l \in rows : (\A r \in rows : r <= l) /\ rows' = rows \cup {l + 1}

Older == \E l \in rows : (\A r \in rows : r >= l) /\ rows' = rows \cup {l - 1}

\* Contiguous: whatever lies between two ledgers held is held.
Interval(S) == \A a, b \in S : a .. b \subseteq S

TakeBack == rows' \subseteq rows /\ Interval(rows')

Next == Begin \/ Newer \/ Older \/ TakeBack

Spec == Init /\ [][Next]_rows
===========================================================================
