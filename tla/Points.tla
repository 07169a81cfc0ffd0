------------------------------- MODULE Points ------------------------------
(***************************************************************************)
(* The sparse time series of db/helpers/common.js: a table holds, for one  *)
(* selector (an account's balance of a token, a metric of a token), points *)
(* at some ledgers; a value holds from its point to the next one.          *)
(*                                                                         *)
(* A series is a function from the ledgers of its points to values.  A row *)
(* without a value (the marker of "zero from here on") is the value 0.     *)
(***************************************************************************)
EXTENDS Integers

NoPoints == [s \in {} |-> 0]

UpTo(points, l) == {s \in DOMAIN points : s <= l}

Newest(S) == CHOOSE s \in S : \A r \in S : r <= s

\* readPoint for a series that does not expire: the newest point at or before
\* l, and 0 where there is none (callers write "|| 0" or "?? '0'").
ReadPoint(points, l) ==
  IF UpTo(points, l) = {} THEN 0 ELSE points[Newest(UpTo(points, l))]

SetPoint(points, l, value) ==
  [s \in DOMAIN points \cup {l} |-> IF s = l THEN value ELSE points[s]]

RemovePoint(points, l) == [s \in DOMAIN points \ {l} |-> points[s]]

\* writePoint with data: nothing if the point read has the same value, else
\* the point of this very ledger is updated or created.
WritePoint(points, l, value) ==
  IF UpTo(points, l) # {} /\ ReadPoint(points, l) = value
  THEN points
  ELSE SetPoint(points, l, value)

\* writePoint with data null: a point of this very ledger is deleted, any
\* older one is followed by a marker.
ClearPoint(points, l) ==
  CASE UpTo(points, l) = {} -> points
    [] l \in DOMAIN points  -> RemovePoint(points, l)
    [] OTHER                -> SetPoint(points, l, 0)

\* How writeTokenMetrics writes one metric.
WriteMetric(points, l, value) ==
  IF value # 0 THEN WritePoint(points, l, value) ELSE ClearPoint(points, l)
===========================================================================
