------------------------- MODULE TokenHistoryProofs ------------------------
(***************************************************************************)
(* Proofs about TokenHistory, for every number of accounts, amounts and    *)
(* ledgers.                                                                *)
(*                                                                         *)
(* Balances: the inductive invariant says of an account whose entry is     *)
(* copied, and which is not shaken, that no point is newer than the ledger *)
(* at hand, that what is read there is what the account holds (Faithful),  *)
(* and that below the ledgers undone there is no point but that of the     *)
(* last change before them (Deep).                                         *)
(*                                                                         *)
(* Metrics of an issued currency: the values in memory, or those read at   *)
(* the last ledger written, are the totals over the entries counted so     *)
(* far, of every metric that is not skewed; and the backfill writes below  *)
(* the points that the sync has made (MetricInv).                          *)
(***************************************************************************)
EXTENDS TokenHistory, FiniteSetTheorems, WellFoundedInduction,
        NaturalsInduction, TLAPS

---------------------------------------------------------------------------
(* What writing to a series of points does to reading it.                  *)

\* A series whose points, up to any ledger, have a last one.  It is what a
\* finite set of points is needed for, and it is easy to preserve.
Series(p) ==
  /\ p = [s \in DOMAIN p |-> p[s]]
  /\ DOMAIN p \subseteq Int
  /\ \A l \in Int : UpTo(p, l) # {} =>
       \E m \in UpTo(p, l) : \A r \in UpTo(p, l) : r <= m

\* The empty series.
LEMMA EmptySeries == Series(NoPoints) /\ \A l \in Int : ReadPoint(NoPoints, l) = 0
  BY DEF Series, NoPoints, UpTo, ReadPoint

\* Reading takes the last point at or before the ledger.
LEMMA ReadLast ==
  ASSUME NEW p, Series(p), NEW l \in Int, NEW m \in UpTo(p, l),
         \A r \in UpTo(p, l) : r <= m
  PROVE  ReadPoint(p, l) = p[m]
<1>1. \A n \in UpTo(p, l) : (\A r \in UpTo(p, l) : r <= n) => n = m
  BY DEF UpTo, Series
<1>2. Newest(UpTo(p, l)) = m
  BY <1>1 DEF Newest
<1> QED
  BY <1>2 DEF ReadPoint

\* What is read is 0 or the value of some point.
LEMMA ReadIsPoint ==
  ASSUME NEW p, Series(p), NEW l \in Int
  PROVE  ReadPoint(p, l) = 0 \/ \E s \in DOMAIN p : ReadPoint(p, l) = p[s]
<1>1. CASE UpTo(p, l) = {}
  BY <1>1 DEF ReadPoint
<1>2. CASE UpTo(p, l) # {}
  <2>1. PICK m \in UpTo(p, l) : \A r \in UpTo(p, l) : r <= m
    BY <1>2 DEF Series
  <2>2. ReadPoint(p, l) = p[m]
    BY <2>1, ReadLast
  <2> QED
    BY <2>2 DEF UpTo
<1> QED
  BY <1>1, <1>2

\* Two ledgers with the same points before them read the same.
LEMMA SameUpTo ==
  ASSUME NEW p, NEW k, NEW l, UpTo(p, k) = UpTo(p, l)
  PROVE  ReadPoint(p, k) = ReadPoint(p, l)
  BY DEF ReadPoint

\* Beyond the last point the value does not change.
LEMMA ReadBeyond ==
  ASSUME NEW p, Series(p), NEW l \in Int, NEW k \in Int, l <= k,
         \A s \in DOMAIN p : s <= l
  PROVE  ReadPoint(p, k) = ReadPoint(p, l)
<1>1. UpTo(p, k) = UpTo(p, l)
  BY DEF UpTo, Series
<1> QED
  BY <1>1, SameUpTo

\* A point that is set leaves a series.
LEMMA SetPointSeries ==
  ASSUME NEW p, Series(p), NEW l \in Int, NEW v
  PROVE  Series(SetPoint(p, l, v))
<1> DEFINE q == SetPoint(p, l, v)
<1>1. DOMAIN q = DOMAIN p \cup {l} /\ q = [s \in DOMAIN q |-> q[s]]
  BY DEF SetPoint
<1>2. ASSUME NEW k \in Int, UpTo(q, k) # {}
      PROVE  \E m \in UpTo(q, k) : \A r \in UpTo(q, k) : r <= m
  <2>1. UpTo(q, k) = UpTo(p, k) \cup (IF l <= k THEN {l} ELSE {})
    BY <1>1 DEF UpTo
  <2>2. UpTo(q, k) \subseteq Int
    BY <1>1 DEF UpTo, Series
  <2>3. CASE UpTo(p, k) = {}
    BY <1>2, <2>1, <2>3
  <2>4. CASE UpTo(p, k) # {}
    <3>1. PICK m \in UpTo(p, k) : \A r \in UpTo(p, k) : r <= m
      BY <2>4 DEF Series
    <3>2. CASE l <= k /\ m <= l
      BY <2>1, <2>2, <3>1, <3>2
    <3>3. CASE ~(l <= k /\ m <= l)
      <4>1. m \in UpTo(q, k) /\ m \in Int
        BY <2>1, <2>2
      <4>2. ASSUME NEW r \in UpTo(q, k) PROVE r <= m
        BY <2>1, <2>2, <3>1, <3>3, <4>1
      <4> QED
        BY <4>1, <4>2
    <3> QED
      BY <3>2, <3>3
  <2> QED
    BY <2>3, <2>4
<1>3. DOMAIN q \subseteq Int
  BY <1>1 DEF Series
<1> QED
  BY <1>1, <1>2, <1>3 DEF Series

\* A point that is removed leaves a series.
LEMMA RemovePointSeries ==
  ASSUME NEW p, Series(p), NEW l \in Int
  PROVE  Series(RemovePoint(p, l))
<1> DEFINE q == RemovePoint(p, l)
<1>1. DOMAIN q = DOMAIN p \ {l} /\ q = [s \in DOMAIN q |-> q[s]]
  BY DEF RemovePoint
<1>2. ASSUME NEW k \in Int, UpTo(q, k) # {}
      PROVE  \E m \in UpTo(q, k) : \A r \in UpTo(q, k) : r <= m
  <2>1. UpTo(q, k) = UpTo(p, k) \ {l} /\ UpTo(p, k) \subseteq Int
    BY <1>1 DEF UpTo, Series
  <2>2. PICK m \in UpTo(p, k) : \A r \in UpTo(p, k) : r <= m
    BY <1>2, <2>1 DEF Series
  <2>3. CASE m # l
    BY <2>1, <2>2, <2>3
  <2>4. CASE m = l
    <3>1. UpTo(q, k) = UpTo(p, l - 1)
      BY <2>1, <2>2, <2>4 DEF UpTo, Series
    <3>2. l - 1 \in Int
      OBVIOUS
    <3> QED
      BY <1>2, <3>1, <3>2 DEF Series
  <2> QED
    BY <2>3, <2>4
<1>3. DOMAIN q \subseteq Int
  BY <1>1 DEF Series
<1> QED
  BY <1>1, <1>2, <1>3 DEF Series

\* Any write leaves a series, with no other point than the one written, and
\* no other value.
LEMMA WritePointSeries ==
  ASSUME NEW p, Series(p), NEW l \in Int, NEW v
  PROVE  /\ Series(WritePoint(p, l, v))
         /\ DOMAIN WritePoint(p, l, v) \subseteq DOMAIN p \cup {l}
         /\ \A s \in DOMAIN WritePoint(p, l, v) :
              \/ WritePoint(p, l, v)[s] = v
              \/ s \in DOMAIN p /\ WritePoint(p, l, v)[s] = p[s]
<1>1. Series(SetPoint(p, l, v))
  BY SetPointSeries
<1>2. WritePoint(p, l, v) = p \/ WritePoint(p, l, v) = SetPoint(p, l, v)
  BY DEF WritePoint
<1> QED
  BY <1>1, <1>2 DEF SetPoint

LEMMA WriteMetricSeries ==
  ASSUME NEW p, Series(p), NEW l \in Int, NEW v
  PROVE  /\ Series(WriteMetric(p, l, v))
         /\ DOMAIN WriteMetric(p, l, v) \subseteq DOMAIN p \cup {l}
         /\ \A s \in DOMAIN WriteMetric(p, l, v) :
              \/ WriteMetric(p, l, v)[s] \in {v, 0}
              \/ s \in DOMAIN p /\ WriteMetric(p, l, v)[s] = p[s]
<1>1. CASE v # 0
  <2>1. WriteMetric(p, l, v) = WritePoint(p, l, v)
    BY <1>1 DEF WriteMetric
  <2> QED
    BY <2>1, WritePointSeries
<1>2. CASE v = 0
  <2>1. WriteMetric(p, l, v) \in {p, RemovePoint(p, l), SetPoint(p, l, 0)}
    BY <1>2 DEF WriteMetric, ClearPoint
  <2>2. Series(RemovePoint(p, l)) /\ Series(SetPoint(p, l, 0))
    BY RemovePointSeries, SetPointSeries
  <2> QED
    BY <2>1, <2>2 DEF SetPoint, RemovePoint
<1> QED
  BY <1>1, <1>2

\* A point that is set at the end of a series: from that ledger on its value is
\* read, and before it nothing changes.
LEMMA SetAtEnd ==
  ASSUME NEW p, Series(p), NEW l \in Int, NEW v, \A s \in DOMAIN p : s <= l,
         NEW k \in Int
  PROVE  ReadPoint(SetPoint(p, l, v), k) = IF k < l THEN ReadPoint(p, k) ELSE v
<1> DEFINE q == SetPoint(p, l, v)
<1>1. Series(q) /\ DOMAIN q = DOMAIN p \cup {l} /\ q[l] = v
  BY SetPointSeries DEF SetPoint
<1>2. CASE k < l
  <2>1. UpTo(q, k) = UpTo(p, k)
    BY <1>1, <1>2 DEF UpTo, Series
  <2>2. CASE UpTo(p, k) = {}
    BY <1>2, <2>1, <2>2 DEF ReadPoint
  <2>3. CASE UpTo(p, k) # {}
    <3>1. PICK m \in UpTo(p, k) : \A r \in UpTo(p, k) : r <= m
      BY <2>3 DEF Series
    <3>2. ReadPoint(p, k) = p[m] /\ ReadPoint(q, k) = q[m]
      BY <1>1, <2>1, <3>1, ReadLast
    <3>3. m # l /\ m \in DOMAIN p
      BY <1>2 DEF UpTo, Series
    <3>4. q[m] = p[m]
      BY <3>3 DEF SetPoint
    <3> QED
      BY <1>2, <3>2, <3>4
  <2> QED
    BY <2>2, <2>3
<1>3. CASE ~(k < l)
  <2>1. l \in UpTo(q, k) /\ \A r \in UpTo(q, k) : r <= l
    BY <1>1, <1>3 DEF UpTo
  <2>2. ReadPoint(q, k) = q[l]
    BY <1>1, <2>1, ReadLast
  <2> QED
    BY <1>1, <1>3, <2>2
<1> QED
  BY <1>2, <1>3

\* So with a write.
LEMMA WriteAtEnd ==
  ASSUME NEW p, Series(p), NEW l \in Int, NEW v, \A s \in DOMAIN p : s <= l,
         NEW k \in Int
  PROVE  ReadPoint(WritePoint(p, l, v), k) = IF k < l THEN ReadPoint(p, k)
                                             ELSE v
<1>1. CASE WritePoint(p, l, v) = p /\ ReadPoint(p, l) = v
  BY <1>1, ReadBeyond
<1>2. CASE WritePoint(p, l, v) = SetPoint(p, l, v)
  BY <1>2, SetAtEnd
<1> QED
  BY <1>1, <1>2 DEF WritePoint

\* The value of a point is read at its own ledger.
LEMMA ReadThere ==
  ASSUME NEW p, Series(p), NEW l \in DOMAIN p
  PROVE  ReadPoint(p, l) = p[l]
<1>1. l \in Int /\ l \in UpTo(p, l) /\ \A r \in UpTo(p, l) : r <= l
  BY DEF Series, UpTo
<1> QED
  BY <1>1, ReadLast

\* A point that is set before another is not read beyond that other.
LEMMA SetBefore ==
  ASSUME NEW p, Series(p), NEW l \in Int, NEW v, NEW m \in DOMAIN p, l < m,
         NEW k \in Int, m <= k
  PROVE  ReadPoint(SetPoint(p, l, v), k) = ReadPoint(p, k)
<1> DEFINE q == SetPoint(p, l, v)
<1>0. DOMAIN p \subseteq Int
  BY DEF Series
<1>1. Series(q) /\ DOMAIN q = DOMAIN p \cup {l}
  BY SetPointSeries DEF SetPoint
<1>2. m \in UpTo(p, k)
  BY DEF UpTo
<1>3. PICK n \in UpTo(p, k) : \A r \in UpTo(p, k) : r <= n
  BY <1>2 DEF Series
<1>4. n \in Int /\ n \in DOMAIN p /\ m \in Int /\ m <= n
  BY <1>0, <1>2, <1>3 DEF UpTo
<1>5. n \in UpTo(q, k) /\ \A r \in UpTo(q, k) : r <= n
  <2>1. UpTo(q, k) \subseteq UpTo(p, k) \cup {l} /\ UpTo(p, k) \subseteq UpTo(q, k)
    BY <1>1 DEF UpTo
  <2>2. l <= n
    BY <1>4
  <2> QED
    BY <1>3, <2>1, <2>2
<1>6. ReadPoint(p, k) = p[n] /\ ReadPoint(q, k) = q[n]
  BY <1>1, <1>3, <1>5, ReadLast
<1>7. q[n] = p[n]
  BY <1>4 DEF SetPoint
<1> QED
  BY <1>6, <1>7

\* A zero that is set before all points changes nothing that is read.
LEMMA ZeroBefore ==
  ASSUME NEW p, Series(p), NEW l \in Int, \A s \in DOMAIN p : l < s, NEW k \in Int
  PROVE  ReadPoint(SetPoint(p, l, 0), k) = ReadPoint(p, k)
<1> DEFINE q == SetPoint(p, l, 0)
<1>1. CASE UpTo(p, k) = {}
  <2>1. UpTo(q, k) \subseteq {l} /\ q[l] = 0
    BY <1>1 DEF UpTo, SetPoint
  <2>2. ReadPoint(q, k) = 0
    <3>1. Series(q)
      BY SetPointSeries
    <3>2. CASE UpTo(q, k) = {}
      BY <3>2 DEF ReadPoint
    <3>3. CASE UpTo(q, k) # {}
      <4>1. l \in UpTo(q, k) /\ \A r \in UpTo(q, k) : r <= l
        BY <2>1, <3>3
      <4>2. ReadPoint(q, k) = q[l]
        BY <3>1, <4>1, ReadLast
      <4> QED
        BY <2>1, <4>2
    <3> QED
      BY <3>2, <3>3
  <2> QED
    BY <1>1, <2>2 DEF ReadPoint
<1>2. CASE UpTo(p, k) # {}
  <2>1. PICK m \in DOMAIN p : m <= k
    BY <1>2 DEF UpTo
  <2> QED
    BY <2>1, SetBefore
<1> QED
  BY <1>1, <1>2

\* A write before the first point of a series.
LEMMA WriteBefore ==
  ASSUME NEW p, Series(p), NEW l \in Int, UpTo(p, l) = {}, NEW v
  PROVE  DOMAIN WritePoint(p, l, v) = DOMAIN p \cup {l} /\ WritePoint(p, l, v)[l] = v
<1>1. WritePoint(p, l, v) = SetPoint(p, l, v)
  BY DEF WritePoint
<1> QED
  BY <1>1 DEF SetPoint

\* Nor is it read from that first point on.
LEMMA ReadAfterWriteBefore ==
  ASSUME NEW p, Series(p), NEW l \in Int, UpTo(p, l) = {}, NEW v, NEW m \in DOMAIN p, l < m,
         NEW k \in Int, m <= k
  PROVE  ReadPoint(WritePoint(p, l, v), k) = ReadPoint(p, k)
<1>1. WritePoint(p, l, v) = SetPoint(p, l, v)
  BY DEF WritePoint
<1> QED
  BY <1>1, SetBefore

\* A metric is cleared by a point of its own, or by removing the point of this
\* ledger: with it go the changes of the ledger, and nothing older may remain.
LEMMA WriteMetricAtEnd ==
  ASSUME NEW p, Series(p), NEW l \in Int, NEW v, \A s \in DOMAIN p : s <= l,
         l \notin DOMAIN p \/ \A s \in DOMAIN p : s = l, NEW k \in Int
  PROVE  ReadPoint(WriteMetric(p, l, v), k) = IF k < l THEN ReadPoint(p, k) ELSE v
<1>1. CASE v # 0
  <2>1. WriteMetric(p, l, v) = WritePoint(p, l, v)
    BY <1>1 DEF WriteMetric
  <2> QED
    BY <2>1, WriteAtEnd
<1>2. CASE v = 0 /\ UpTo(p, l) = {}
  <2>1. DOMAIN p = {} /\ UpTo(p, k) = {}
    BY <1>2 DEF UpTo
  <2>2. WriteMetric(p, l, v) = p
    BY <1>2, <2>1 DEF WriteMetric, ClearPoint
  <2> QED
    BY <1>2, <2>1, <2>2 DEF ReadPoint
<1>3. CASE v = 0 /\ UpTo(p, l) # {} /\ l \in DOMAIN p
  <2>1. WriteMetric(p, l, v) = RemovePoint(p, l)
    BY <1>3 DEF WriteMetric, ClearPoint
  <2>2. DOMAIN RemovePoint(p, l) = {}
    BY <1>3 DEF RemovePoint
  <2>3. ReadPoint(WriteMetric(p, l, v), k) = 0
    BY <2>1, <2>2 DEF ReadPoint, UpTo
  <2>4. k < l => UpTo(p, k) = {}
    BY <1>3 DEF UpTo
  <2> QED
    BY <1>3, <2>3, <2>4 DEF ReadPoint
<1>4. CASE v = 0 /\ UpTo(p, l) # {} /\ l \notin DOMAIN p
  <2>1. WriteMetric(p, l, v) = SetPoint(p, l, 0)
    BY <1>4 DEF WriteMetric, ClearPoint
  <2> QED
    BY <1>4, <2>1, SetAtEnd
<1> QED
  BY <1>1, <1>2, <1>3, <1>4

\* A metric that is written before a point of it is read as before from that
\* point on, and keeps its points at other ledgers.
LEMMA WriteMetricElsewhere ==
  ASSUME NEW p, NEW l, NEW v, NEW s, s # l
  PROVE  s \in DOMAIN WriteMetric(p, l, v) <=> s \in DOMAIN p
  BY DEF WriteMetric, WritePoint, SetPoint, ClearPoint, RemovePoint

LEMMA RemoveBefore ==
  ASSUME NEW p, Series(p), NEW l \in Int, NEW m \in DOMAIN p, l < m, NEW k \in Int, m <= k
  PROVE  ReadPoint(RemovePoint(p, l), k) = ReadPoint(p, k)
<1> DEFINE q == RemovePoint(p, l)
<1>0. DOMAIN p \subseteq Int
  BY DEF Series
<1>1. Series(q) /\ DOMAIN q = DOMAIN p \ {l}
  BY RemovePointSeries DEF RemovePoint
<1>2. m \in UpTo(p, k)
  BY DEF UpTo
<1>3. PICK n \in UpTo(p, k) : \A r \in UpTo(p, k) : r <= n
  BY <1>2 DEF Series
<1>4. n \in Int /\ n \in DOMAIN p /\ m <= n /\ n # l
  <2>1. n \in Int /\ m \in Int /\ n \in DOMAIN p /\ m <= n
    BY <1>0, <1>2, <1>3 DEF UpTo
  <2> QED
    BY <2>1
<1>5. n \in UpTo(q, k) /\ \A r \in UpTo(q, k) : r <= n
  BY <1>1, <1>3, <1>4 DEF UpTo
<1>6. ReadPoint(p, k) = p[n] /\ ReadPoint(q, k) = q[n]
  BY <1>1, <1>3, <1>5, ReadLast
<1>7. q[n] = p[n]
  BY <1>4 DEF RemovePoint
<1> QED
  BY <1>6, <1>7

LEMMA WriteMetricBefore ==
  ASSUME NEW p, Series(p), NEW l \in Int, NEW v, NEW m \in DOMAIN p, l < m,
         NEW k \in Int, m <= k
  PROVE  ReadPoint(WriteMetric(p, l, v), k) = ReadPoint(p, k)
<1>1. WriteMetric(p, l, v) \in {p, SetPoint(p, l, v), SetPoint(p, l, 0), RemovePoint(p, l)}
  BY DEF WriteMetric, WritePoint, ClearPoint
<1>2. /\ ReadPoint(SetPoint(p, l, v), k) = ReadPoint(p, k)
      /\ ReadPoint(SetPoint(p, l, 0), k) = ReadPoint(p, k)
  BY SetBefore
<1>3. ReadPoint(RemovePoint(p, l), k) = ReadPoint(p, k)
  BY RemoveBefore
<1> QED
  BY <1>1, <1>2, <1>3

---------------------------------------------------------------------------
USE HistoryAssumption DEF doubts

---------------------------------------------------------------------------
(* Type correctness.                                                       *)

\* Series of whole numbers at ledgers, for a table of them.
GoodSeries(p) == Series(p) /\ IsSeries(p)

GoodBalances == DOMAIN balances = Accounts /\ \A a \in Accounts : GoodSeries(balances[a])
GoodMetrics == DOMAIN metrics = Metrics /\ \A m \in Metrics : GoodSeries(metrics[m])

\* Only the snapshot files its metrics under 0.
AtLedger == work.kind \in {"sync", "undo"} => work.at \in Ledgers

TypeInv ==
  /\ GoodBalances /\ GoodMetrics
  /\ known \subseteq Pools /\ left \subseteq Accounts
  /\ work \in Transactions \cup {None} /\ AtLedger
  /\ newest \in Ledgers /\ oldest \in Ledgers
  /\ held \in [Accounts -> Entries] /\ past \in [Accounts -> Entries]
  /\ touched \in [Accounts -> Ledgers]
  /\ truth \in [Ledgers -> [Accounts -> Entries]]
  /\ shaken \subseteq Accounts /\ skewed \subseteq Metrics /\ undone \in BOOLEAN

LEMMA AmountType == ASSUME NEW entry \in Entries PROVE Amount(entry) \in Amounts
  BY DEF Amount, Entries, Amounts

LEMMA OneType == ASSUME NEW c PROVE One(c) \in {0, 1}
  BY DEF One

\* Nothing in the history of a series of whole numbers reads as anything else.
LEMMA ReadType ==
  ASSUME NEW p, Series(p), \A s \in DOMAIN p : p[s] \in Int, NEW l \in Int
  PROVE  ReadPoint(p, l) \in Int
  BY ReadIsPoint

LEMMA ChangedType ==
  ASSUME NEW values \in [Metrics -> Int], NEW previous \in Entries, NEW final \in Entries,
         NEW pseudo
  PROVE  Changed(values, previous, final, pseudo) \in [Metrics -> Int]
<1>1. Amount(final) \in Int /\ Amount(previous) \in Int
  BY AmountType DEF Amounts
<1>2. /\ One(final # Gone) \in Int /\ One(previous # Gone) \in Int
      /\ One(Holds(final)) \in Int /\ One(Holds(previous)) \in Int
  BY OneType
<1>3. ASSUME NEW m \in Metrics PROVE Gain(m, previous, final, pseudo) \in Int
  <2>1. CASE m = "trustlines"
    <3>1. Gain(m, previous, final, pseudo) = One(final # Gone) - One(previous # Gone)
      BY <2>1 DEF Gain
    <3> QED
      BY <1>2, <3>1
  <2>2. CASE m = "holders"
    <3>1. Gain(m, previous, final, pseudo)
            = IF pseudo THEN 0 ELSE One(Holds(final)) - One(Holds(previous))
      BY <2>2 DEF Gain
    <3> QED
      BY <1>2, <3>1
  <2>3. CASE m = "supply"
    <3>1. Gain(m, previous, final, pseudo) = Amount(final) - Amount(previous)
      BY <2>3 DEF Gain
    <3> QED
      BY <1>1, <3>1
  <2> QED
    BY <2>1, <2>2, <2>3 DEF Metrics
<1> QED
  BY <1>3 DEF Changed

LEMMA MetricsType ==
  ASSUME TypeInv, NEW l \in Int
  PROVE  ReadMetrics(l) \in [Metrics -> Int]
  BY ReadType DEF TypeInv, GoodMetrics, GoodSeries, IsSeries, ReadMetrics

LEMMA WriteGood ==
  ASSUME NEW p, GoodSeries(p), NEW l \in Ledgers \cup {0}, NEW v \in Int
  PROVE  GoodSeries(WritePoint(p, l, v)) /\ GoodSeries(WriteMetric(p, l, v))
<1>1. l \in Int
  OBVIOUS
<1>2. /\ Series(WritePoint(p, l, v)) /\ DOMAIN WritePoint(p, l, v) \subseteq DOMAIN p \cup {l}
      /\ \A s \in DOMAIN WritePoint(p, l, v) :
           \/ WritePoint(p, l, v)[s] = v
           \/ s \in DOMAIN p /\ WritePoint(p, l, v)[s] = p[s]
  BY <1>1, WritePointSeries DEF GoodSeries
<1>3. /\ Series(WriteMetric(p, l, v)) /\ DOMAIN WriteMetric(p, l, v) \subseteq DOMAIN p \cup {l}
      /\ \A s \in DOMAIN WriteMetric(p, l, v) :
           \/ WriteMetric(p, l, v)[s] \in {v, 0}
           \/ s \in DOMAIN p /\ WriteMetric(p, l, v)[s] = p[s]
  BY <1>1, WriteMetricSeries DEF GoodSeries
<1>4. IsSeries(WritePoint(p, l, v))
  BY <1>2 DEF GoodSeries, IsSeries
<1>5. IsSeries(WriteMetric(p, l, v))
  BY <1>3 DEF GoodSeries, IsSeries
<1> QED
  BY <1>2, <1>3, <1>4, <1>5 DEF GoodSeries

\* The metrics that are written are a table of series.
LEMMA WriteMetricsGood ==
  ASSUME TypeInv, NEW values \in [Metrics -> Int], NEW l \in Ledgers \cup {0}
  PROVE  /\ DOMAIN WriteMetrics(values, l) = Metrics
         /\ \A m \in Metrics : GoodSeries(WriteMetrics(values, l)[m])
<1>1. ASSUME NEW m \in Metrics PROVE GoodSeries(WriteMetrics(values, l)[m])
  <2>1. GoodSeries(metrics[m]) /\ values[m] \in Int
    BY DEF TypeInv, GoodMetrics
  <2>2. WriteMetrics(values, l)[m] = WriteMetric(metrics[m], l, values[m])
    BY DEF WriteMetrics
  <2> QED
    BY <2>1, <2>2, WriteGood
<1> QED
  BY <1>1 DEF WriteMetrics

LEMMA OpenType ==
  ASSUME TypeInv, NEW kind \in {"copy", "sync", "undo"}, NEW l \in Ledgers \cup {0},
         NEW todo \in SUBSET Accounts, NEW roots \in SUBSET Pools,
         kind = "copy" \/ l \in Ledgers, Open(kind, l, todo, roots)
  PROVE  work' \in Transactions /\ AtLedger'
<1>1. ReadMetrics(l) \in [Metrics -> Int]
  BY MetricsType
<1> QED
  BY <1>1 DEF Open, Transactions, AtLedger

LEMMA CountType ==
  ASSUME TypeInv, work \in Transactions, NEW a \in Accounts,
         NEW previous \in Entries, NEW final \in Entries, Count(a, previous, final)
  PROVE  work' \in Transactions /\ AtLedger' /\ GoodMetrics'
<1>1. work.at \in Ledgers \cup {0} /\ work.deltas + 1 \in Nat
      /\ work.todo \ {a} \in SUBSET Accounts /\ work.values \in [Metrics -> Int]
  BY DEF Transactions
<1>2. CASE Grouped
  <2> DEFINE values == Changed(work.values, previous, final, IsPseudo(a))
  <2>1. values \in [Metrics -> Int]
    BY <1>1, ChangedType
  <2>2. work' = [work EXCEPT !.todo = work.todo \ {a}, !.deltas = work.deltas + 1,
                             !.values = values] /\ metrics' = metrics
    BY <1>2 DEF Count
  <2> HIDE DEF values
  <2>3. work' \in Transactions /\ AtLedger'
    BY <1>1, <2>1, <2>2 DEF Transactions, AtLedger, TypeInv
  <2>4. GoodMetrics'
    BY <2>2 DEF GoodMetrics, TypeInv
  <2> QED
    BY <2>3, <2>4
<1>3. CASE ~Grouped
  <2> DEFINE values == Changed(ReadMetrics(work.at), previous, final, IsPseudo(a))
  <2> HIDE DEF values
  <2>0. work.at \in Int
    <3>1. Ledgers \cup {0} \subseteq Int
      OBVIOUS
    <3> QED
      BY <1>1, <3>1
  <2>1. ReadMetrics(work.at) \in [Metrics -> Int]
    BY <2>0, MetricsType
  <2>2. values \in [Metrics -> Int]
    BY <2>1, ChangedType DEF values
  <2>3. work' = [work EXCEPT !.todo = work.todo \ {a}, !.deltas = work.deltas + 1]
        /\ metrics' = WriteMetrics(values, work.at)
    BY <1>3 DEF Count, values
  <2>4. work' \in Transactions /\ AtLedger'
    BY <1>1, <2>3 DEF Transactions, AtLedger, TypeInv
  <2>5. GoodMetrics'
    BY <1>1, <2>2, <2>3, WriteMetricsGood DEF GoodMetrics
  <2> QED
    BY <2>4, <2>5
<1> QED
  BY <1>2, <1>3

LEMMA CloseType ==
  ASSUME TypeInv, work \in Transactions, Close
  PROVE  work' = None /\ AtLedger' /\ GoodMetrics'
<1>0. work' = None /\ AtLedger'
  BY DEF Close, AtLedger, None
<1>1. CASE Grouped /\ work.deltas > 0
  <2>1. metrics' = WriteMetrics(work.values, work.at)
    BY <1>1 DEF Close
  <2>2. work.values \in [Metrics -> Int] /\ work.at \in Ledgers \cup {0}
    BY DEF Transactions
  <2>3. GoodMetrics'
    BY <2>1, <2>2, WriteMetricsGood DEF GoodMetrics
  <2> QED
    BY <1>0, <2>3
<1>2. CASE ~(Grouped /\ work.deltas > 0)
  <2>1. metrics' = metrics
    BY <1>2 DEF Close
  <2> QED
    BY <1>0, <2>1 DEF GoodMetrics, TypeInv
<1> QED
  BY <1>1, <1>2

\* One account's series is written.
LEMMA PutType ==
  ASSUME TypeInv, NEW a \in Accounts, NEW l \in Ledgers \cup {0}, NEW v \in Int,
         balances' = [balances EXCEPT ![a] = WritePoint(@, l, v)]
  PROVE  GoodBalances'
<1> DEFINE p == WritePoint(balances[a], l, v)
<1>1. GoodSeries(p)
  BY WriteGood DEF GoodBalances, TypeInv
<1>2. balances' = [balances EXCEPT ![a] = p]
  OBVIOUS
<1> HIDE DEF p
<1> QED
  BY <1>1, <1>2 DEF GoodBalances, TypeInv

\* An open transaction is not none.
LEMMA WorkType ==
  ASSUME TypeInv, work.kind \in {"copy", "sync", "undo"}
  PROVE  work \in Transactions
  BY DEF None, TypeInv

LEMMA TypeInit == Init => TypeInv
<1> SUFFICES ASSUME Init PROVE TypeInv
  OBVIOUS
<1>1. GoodSeries(NoPoints)
  BY EmptySeries DEF GoodSeries, IsSeries, NoPoints
<1>2. GoodBalances /\ GoodMetrics
  BY <1>1 DEF Init, GoodBalances, GoodMetrics
<1>3. touched \in [Accounts -> Ledgers]
  BY DEF Init
<1> QED
  BY <1>2, <1>3 DEF Init, AtLedger, None, TypeInv

LEMMA TypeUndo ==
  ASSUME TypeInv, NEW a \in Accounts, UndoDelta(a)
  PROVE  TypeInv'
<1> USE DEF copying, forward, database
<1>1. work \in Transactions
  BY WorkType DEF UndoDelta
<1>2. work.at \in Ledgers \cup {0}
  BY <1>1 DEF Transactions
<1>3. /\ past \in [Accounts -> Entries] /\ touched \in [Accounts -> Ledgers]
      /\ past[a] \in Entries /\ Gone \in Entries
      /\ GoodBalances /\ GoodMetrics
  BY DEF Entries, TypeInv
<1>4. \A amount \in Amounts : amount \in Entries /\ amount \in Int
  BY DEF Amounts, Entries
<1>5. \A l \in 1 .. work.at : l \in Ledgers
  <2>1. work.at \in Ledgers
    BY DEF UndoDelta, TypeInv, AtLedger
  <2> QED
    BY <2>1
<1>6. CASE UndoCreation(a)
  <2>1. work' \in Transactions /\ AtLedger' /\ GoodMetrics'
    BY <1>1, <1>3, <1>6, CountType DEF UndoCreation
  <2>2. GoodBalances'
    <3>1. balances' = [balances EXCEPT ![a] = WritePoint(@, work.at, 0)]
      BY <1>6 DEF UndoCreation
    <3>2. 0 \in Int
      OBVIOUS
    <3> QED
      BY <1>2, <3>1, <3>2, PutType
  <2>3. past' \in [Accounts -> Entries] /\ touched' = touched
    BY <1>3, <1>6 DEF UndoCreation
  <2>4. shaken' \subseteq Accounts /\ skewed' \subseteq Metrics /\ undone' \in BOOLEAN
    BY <1>6 DEF UndoCreation, Shake, Skew, TypeInv
  <2> QED
    BY <2>1, <2>2, <2>3, <2>4 DEF UndoDelta, GoodBalances, GoodMetrics, TypeInv
<1>7. CASE UndoAppearance(a)
  <2>1. work' \in Transactions /\ AtLedger'
    <3>1. work.todo \ {a} \in SUBSET Accounts
      BY <1>1 DEF Transactions
    <3> QED
      BY <1>1, <1>7, <3>1 DEF UndoAppearance, Transactions, AtLedger, TypeInv
  <2>2. past' \in [Accounts -> Entries] /\ touched' = touched
    BY <1>3, <1>7 DEF UndoAppearance
  <2>3. UNCHANGED <<balances, metrics, shaken, skewed, undone>>
    BY <1>7 DEF UndoAppearance
  <2> QED
    BY <2>1, <2>2, <2>3 DEF UndoDelta, GoodBalances, GoodMetrics, TypeInv
<1>8. ASSUME NEW amount \in Amounts, NEW l \in 1 .. work.at, UndoChange(a, amount, l)
      PROVE  TypeInv'
  <2>1. work' \in Transactions /\ AtLedger' /\ GoodMetrics'
    BY <1>1, <1>3, <1>4, <1>8, CountType DEF UndoChange
  <2>2. GoodBalances'
    <3>1. balances' = [balances EXCEPT ![a] = WritePoint(@, UndoPoint(l), amount)]
      BY <1>8 DEF UndoChange
    <3> QED
      BY <1>4, <1>5, <3>1, PutType DEF UndoPoint
  <2>3. past' \in [Accounts -> Entries] /\ touched' \in [Accounts -> Ledgers]
    BY <1>3, <1>4, <1>5, <1>8 DEF UndoChange
  <2>4. shaken' \subseteq Accounts /\ skewed' \subseteq Metrics /\ undone' \in BOOLEAN
    BY <1>8 DEF UndoChange, Shake, Skew, TypeInv
  <2> QED
    BY <2>1, <2>2, <2>3, <2>4 DEF UndoDelta, GoodBalances, GoodMetrics, TypeInv
<1>9. ASSUME NEW amount \in Amounts, NEW l \in 1 .. work.at, UndoDeletion(a, amount, l)
      PROVE  TypeInv'
  <2>1. work' \in Transactions /\ AtLedger' /\ GoodMetrics'
    BY <1>1, <1>3, <1>4, <1>9, CountType DEF UndoDeletion
  <2>2. GoodBalances'
    <3> DEFINE p == WritePoint(WritePoint(balances[a], work.at, 0), l, amount)
    <3>1. balances' = [balances EXCEPT ![a] = p]
      BY <1>9 DEF UndoDeletion, UndoPoint
    <3>2. GoodSeries(WritePoint(balances[a], work.at, 0))
      <4>1. GoodSeries(balances[a]) /\ 0 \in Int
        BY <1>3 DEF GoodBalances
      <4> QED
        BY <1>2, <4>1, WriteGood
    <3>3. GoodSeries(p)
      BY <1>4, <1>5, <3>2, WriteGood
    <3> HIDE DEF p
    <3> QED
      BY <1>3, <3>1, <3>3 DEF GoodBalances
  <2>3. past' \in [Accounts -> Entries] /\ touched' \in [Accounts -> Ledgers]
    BY <1>3, <1>4, <1>5, <1>9 DEF UndoDeletion
  <2>4. shaken' \subseteq Accounts /\ skewed' \subseteq Metrics /\ undone' \in BOOLEAN
    BY <1>9 DEF UndoDeletion, Shake, Skew, TypeInv
  <2> QED
    BY <2>1, <2>2, <2>3, <2>4 DEF UndoDelta, GoodBalances, GoodMetrics, TypeInv
<1> QED
  BY <1>6, <1>7, <1>8, <1>9 DEF UndoDelta

LEMMA TypeSkip ==
  ASSUME TypeInv, SkipSnapshot
  PROVE  /\ past' \in [Accounts -> Entries] /\ touched' \in [Accounts -> Ledgers]
         /\ truth' \in [Ledgers -> [Accounts -> Entries]] /\ shaken' \subseteq Accounts
<1> DEFINE recent == {a \in Accounts : touched[a] = SnapshotAt}
<1>1. PICK before \in [recent -> Entries], since \in [recent -> 1 .. SnapshotAt - 1] :
        /\ past' = [a \in Accounts |-> IF a \in recent THEN before[a] ELSE past[a]]
        /\ touched' = [a \in Accounts |-> IF a \in recent THEN since[a] ELSE touched[a]]
        /\ truth' = [l \in Ledgers |-> IF l < SnapshotAt THEN past' ELSE truth[l]]
        /\ shaken' = shaken \cup {a \in recent : before[a] # Gone}
  BY DEF SkipSnapshot
<1>2. 1 .. SnapshotAt - 1 \subseteq Ledgers
  <2>1. SnapshotAt \in Ledgers /\ 1 .. SnapshotAt \subseteq Ledgers /\ SnapshotAt \in Nat
    OBVIOUS
  <2>2. 1 .. SnapshotAt - 1 \subseteq 1 .. SnapshotAt
    BY <2>1
  <2> QED
    BY <2>1, <2>2
<1>3. past' \in [Accounts -> Entries]
  BY <1>1 DEF TypeInv
<1>4. touched' \in [Accounts -> Ledgers]
  BY <1>1, <1>2 DEF TypeInv
<1>5. truth' \in [Ledgers -> [Accounts -> Entries]]
  BY <1>1, <1>3 DEF TypeInv
<1>6. shaken' \subseteq Accounts
  BY <1>1 DEF TypeInv
<1> QED
  BY <1>3, <1>4, <1>5, <1>6

LEMMA TypeStep == TypeInv /\ [Next]_vars => TypeInv'
<1> SUFFICES ASSUME TypeInv, [Next]_vars PROVE TypeInv'
  OBVIOUS
<1> USE DEF database, copying, forward, backward
<1>1. CASE StartBatch
  <2>1. 0 \in Ledgers \cup {0} /\ left \subseteq Accounts /\ known \subseteq Pools
    BY DEF TypeInv
  <2>2. work' \in Transactions /\ AtLedger'
    BY <1>1, <2>1, OpenType DEF StartBatch
  <2> QED
    BY <1>1, <2>2 DEF StartBatch, GoodBalances, GoodMetrics, TypeInv
<1>2. ASSUME NEW a \in Accounts, CopyEntry(a) PROVE TypeInv'
  <2>1. work \in Transactions
    BY <1>2, WorkType DEF CopyEntry
  <2>2. held[a] \in Entries /\ Gone \in Entries /\ touched[a] \in Ledgers
    BY DEF Entries, TypeInv
  <2>3. work' \in Transactions /\ AtLedger' /\ GoodMetrics'
    BY <1>2, <2>1, <2>2, CountType DEF CopyEntry
  <2>4. GoodBalances'
    <3>1. Amount(held[a]) \in Int
      BY <2>2, AmountType DEF Amounts
    <3>2. balances' = [balances EXCEPT ![a] = WritePoint(@, touched[a], Amount(held[a]))]
      BY <1>2 DEF CopyEntry, CopyPoint
    <3> QED
      BY <2>2, <3>1, <3>2, PutType
  <2>5. skewed' \subseteq Metrics
    BY <1>2 DEF CopyEntry, Metrics, TypeInv
  <2> QED
    BY <1>2, <2>3, <2>4, <2>5 DEF CopyEntry, GoodBalances, GoodMetrics, TypeInv
<1>3. CASE EndBatch
  <2>1. work \in Transactions
    BY <1>3, WorkType DEF EndBatch
  <2>2. work' = None /\ AtLedger' /\ GoodMetrics'
    BY <1>3, <2>1, CloseType DEF EndBatch
  <2>3. known' \subseteq Pools
    BY <1>3, <2>1 DEF EndBatch, Transactions, TypeInv
  <2> QED
    BY <1>3, <2>2, <2>3 DEF EndBatch, GoodBalances, GoodMetrics, TypeInv
<1>4. CASE StartLedger
  <2>1. work' \in Transactions /\ AtLedger'
    <3>1. newest + 1 \in Ledgers /\ {} \in SUBSET Accounts /\ {} \in SUBSET Pools
      BY <1>4 DEF StartLedger
    <3> QED
      BY <1>4, <3>1, OpenType DEF StartLedger
  <2> QED
    BY <1>4, <2>1 DEF StartLedger, GoodBalances, GoodMetrics, TypeInv
<1>5. ASSUME NEW a \in Accounts, SyncDelta(a) PROVE TypeInv'
  <2>1. work \in Transactions
    BY <1>5, WorkType DEF SyncDelta
  <2>2. PICK final \in Entries :
          /\ Count(a, held[a], final)
          /\ balances' = [balances EXCEPT ![a] = WritePoint(@, work.at, Amount(final))]
          /\ held' = [held EXCEPT ![a] = final]
    BY <1>5 DEF SyncDelta, SyncPoint
  <2>3. held[a] \in Entries /\ held \in [Accounts -> Entries]
    BY DEF TypeInv
  <2>4. work' \in Transactions /\ AtLedger' /\ GoodMetrics'
    BY <2>1, <2>2, <2>3, CountType
  <2>5. work.at \in Ledgers \cup {0} /\ Amount(final) \in Int
    BY <2>1, AmountType DEF Transactions, Amounts
  <2>6. GoodBalances'
    BY <2>2, <2>5, PutType
  <2>7. held' \in [Accounts -> Entries]
    BY <2>2, <2>3
  <2> QED
    BY <1>5, <2>4, <2>6, <2>7 DEF SyncDelta, GoodBalances, GoodMetrics, TypeInv
<1>6. ASSUME NEW a \in Accounts, SideVanishes(a) PROVE TypeInv'
  <2>1. held' \in [Accounts -> Entries]
    BY <1>6 DEF SideVanishes, Entries, TypeInv
  <2>2. shaken' \subseteq Accounts /\ skewed' \subseteq Metrics
    BY <1>6 DEF SideVanishes, TypeInv
  <2> QED
    BY <1>6, <2>1, <2>2 DEF SideVanishes, GoodBalances, GoodMetrics, AtLedger, TypeInv
<1>7. CASE EndLedger
  <2>1. work \in Transactions
    BY <1>7, WorkType DEF EndLedger
  <2>2. work' = None /\ AtLedger' /\ GoodMetrics'
    BY <1>7, <2>1, CloseType DEF EndLedger
  <2>3. newest' \in Ledgers
    BY <1>7 DEF EndLedger, AtLedger, TypeInv
  <2>4. truth' \in [Ledgers -> [Accounts -> Entries]]
    BY <1>7 DEF EndLedger, TypeInv
  <2> QED
    BY <1>7, <2>2, <2>3, <2>4 DEF EndLedger, GoodBalances, GoodMetrics, TypeInv
<1>8. CASE StartUndo
  <2>1. work' \in Transactions /\ AtLedger'
    <3>1. oldest - 1 \in Ledgers /\ Open("undo", oldest - 1, Accounts, {})
      BY <1>8 DEF StartUndo
    <3>2. Accounts \in SUBSET Accounts /\ {} \in SUBSET Pools
      OBVIOUS
    <3> QED
      BY <3>1, <3>2, OpenType
  <2>2. /\ past' \in [Accounts -> Entries] /\ touched' \in [Accounts -> Ledgers]
        /\ truth' \in [Ledgers -> [Accounts -> Entries]] /\ shaken' \subseteq Accounts
    BY <1>8, TypeSkip DEF StartUndo, TypeInv
  <2> QED
    BY <1>8, <2>1, <2>2 DEF StartUndo, GoodBalances, GoodMetrics, TypeInv
<1>9. ASSUME NEW a \in Accounts, UndoDelta(a) PROVE TypeInv'
  BY <1>9, TypeUndo
<1>10. CASE EndUndo
  <2>1. work \in Transactions
    BY <1>10, WorkType DEF EndUndo
  <2>2. work' = None /\ AtLedger' /\ GoodMetrics'
    BY <1>10, <2>1, CloseType DEF EndUndo
  <2>3. oldest' \in Ledgers
    BY <1>10 DEF EndUndo, AtLedger, TypeInv
  <2>4. truth' \in [Ledgers -> [Accounts -> Entries]]
    BY <1>10 DEF EndUndo, TypeInv
  <2> QED
    BY <1>10, <2>2, <2>3, <2>4 DEF EndUndo, GoodBalances, GoodMetrics, TypeInv
<1>11. CASE UNCHANGED vars
  BY <1>11 DEF vars, GoodBalances, GoodMetrics, AtLedger, TypeInv
<1> QED
  BY <1>1, <1>2, <1>3, <1>4, <1>5, <1>6, <1>7, <1>8, <1>9, <1>10, <1>11
     DEF Next, Snapshot, Sync, Backfill

LEMMA TypeInvariant == Spec => []TypeInv
<1>1. Init => TypeInv
  BY TypeInit
<1>2. TypeInv /\ [Next]_vars => TypeInv'
  BY TypeStep
<1> QED
  BY <1>1, <1>2, PTL DEF Spec

\* Type correctness.
THEOREM TypeCorrect == Spec => []TypeOK
<1>1. TypeInv => TypeOK
  BY DEF TypeInv, TypeOK, GoodBalances, GoodMetrics, GoodSeries
<1> QED
  BY <1>1, TypeInvariant, PTL

---------------------------------------------------------------------------
(* Balances, as the snapshot, the sync and the backfill write them.        *)

\* The ledger whose entries are in held.
Front == IF work.kind = "sync" THEN work.at ELSE newest

\* The ledger down to which the backfill has undone what became of an account.
Depth(a) == IF work.kind = "undo" /\ a \notin work.todo THEN work.at ELSE oldest

\* What the two loops and the snapshot leave to one another.
Phases ==
  /\ oldest <= SnapshotAt /\ SnapshotAt <= newest
  /\ \A a \in Accounts : touched[a] <= SnapshotAt
  /\ oldest < SnapshotAt \/ work.kind = "undo" => \A a \in Accounts : touched[a] < SnapshotAt
  /\ work.kind = "undo" => work.at = oldest - 1
  /\ work.kind = "copy" => newest = SnapshotAt /\ oldest = SnapshotAt /\ work.todo \subseteq left
  /\ ~Copied => newest = SnapshotAt /\ oldest = SnapshotAt /\ work.kind \notin {"sync", "undo"}
  /\ work.kind = "sync" => work.at = newest + 1
  /\ work.kind # "sync" => held = truth[newest]

\* An entry that is yet to be copied is there, and neither loop has touched it.
Untouched(a) ==
  /\ balances[a] = NoPoints
  /\ past[a] = held[a] /\ held[a] # Gone
  /\ \A l \in Ledgers : truth[l][a] = held[a]

\* An entry that is copied: what is read of it at the front and at every ledger
\* applied.
Faithful(a) ==
  /\ \A s \in DOMAIN balances[a] : s <= Front
  /\ ReadPoint(balances[a], Front) = Amount(held[a])
  /\ \A l \in Answered : ReadPoint(balances[a], l) = Amount(truth[l][a])

\* Below the ledgers undone there is no point but the one of the last change
\* before them; and at the ledger at hand the balance is right already.  Of a
\* last change in the snapshot's own ledger the point lies above them.
Deep(a) ==
  /\ past[a] = Gone \/ touched[a] = SnapshotAt => \A s \in DOMAIN balances[a] : Depth(a) <= s
  /\ past[a] # Gone /\ touched[a] # SnapshotAt
                    => /\ touched[a] \in DOMAIN balances[a] /\ touched[a] < Depth(a)
                       /\ balances[a][touched[a]] = Amount(past[a])
                       /\ \A s \in DOMAIN balances[a] : s = touched[a] \/ Depth(a) <= s
  /\ \A l \in Ledgers : Depth(a) <= l /\ l < oldest
                          => ReadPoint(balances[a], l) = Amount(truth[l][a])
  /\ Depth(a) = oldest => \A l \in Ledgers : l < oldest => truth[l][a] = past[a]

BalancesInv ==
  /\ TypeInv
  /\ Phases
  /\ \A a \in left : Untouched(a)
  /\ \A a \in Accounts \ (left \cup shaken) : Faithful(a) /\ Deep(a)

LEMMA LedgersInt == Ledgers \subseteq Int /\ SnapshotAt \in Ledgers
  OBVIOUS

LEMMA FrontType == ASSUME BalancesInv PROVE Front \in Ledgers /\ newest <= Front
<1>1. newest \in Ledgers /\ newest \in Int
  BY LedgersInt DEF BalancesInv, TypeInv
<1>2. CASE work.kind = "sync"
  <2>1. Front = work.at /\ work.at \in Ledgers /\ work.at = newest + 1
    BY <1>2 DEF BalancesInv, TypeInv, AtLedger, Front, Phases
  <2> QED
    BY <1>1, <2>1
<1>3. CASE work.kind # "sync"
  BY <1>1, <1>3 DEF Front
<1> QED
  BY <1>2, <1>3

\* The ends, as whole numbers.
LEMMA EndsType ==
  ASSUME BalancesInv
  PROVE  /\ oldest \in Int /\ newest \in Int /\ Front \in Int /\ SnapshotAt \in Int
         /\ oldest <= newest /\ newest <= Front
<1>1. /\ oldest \in Int /\ newest \in Int /\ SnapshotAt \in Int
      /\ oldest <= SnapshotAt /\ SnapshotAt <= newest
  BY LedgersInt DEF BalancesInv, TypeInv, Phases
<1>2. Front \in Int /\ newest <= Front
  BY FrontType, LedgersInt
<1> QED
  BY <1>1, <1>2

LEMMA BalancesInit == Init => BalancesInv
<1> SUFFICES ASSUME Init PROVE BalancesInv
  OBVIOUS
<1>1. TypeInv
  BY TypeInit
<1>2. Phases
  <2>1. work.kind = "none" /\ newest = SnapshotAt /\ oldest = SnapshotAt
    BY DEF Init, None
  <2>2. SnapshotAt <= newest /\ oldest <= SnapshotAt
    BY <2>1, LedgersInt
  <2>3. \A a \in Accounts : touched[a] <= SnapshotAt
    BY DEF Init
  <2>4. held = truth[newest]
    BY <2>1, LedgersInt DEF Init
  <2>5. ~(oldest < SnapshotAt)
    BY <2>1, LedgersInt
  <2> QED
    BY <2>1, <2>2, <2>3, <2>4, <2>5 DEF Phases
<1>3. ASSUME NEW a \in Accounts \ (left \cup shaken) PROVE Faithful(a) /\ Deep(a)
  <2>1. held[a] = Gone /\ past[a] = Gone /\ balances[a] = NoPoints
    BY <1>3 DEF Init
  <2>2. \A l \in Int : ReadPoint(balances[a], l) = Amount(held[a])
    BY <2>1, EmptySeries DEF Amount
  <2>3. DOMAIN balances[a] = {}
    BY <2>1 DEF NoPoints
  <2>4. \A l \in Ledgers : truth[l][a] = held[a]
    BY DEF Init
  <2>5. Front \in Int /\ Answered \subseteq Int /\ Answered \subseteq Ledgers
    BY <1>1, LedgersInt DEF Front, Init, None, Answered
  <2>6. Depth(a) = oldest /\ oldest \in Int
    BY <1>1, LedgersInt DEF Depth, Init, None
  <2>7. \A l \in Ledgers : ~(oldest <= l /\ l < oldest)
    BY <2>6, LedgersInt
  <2> QED
    BY <2>1, <2>2, <2>3, <2>4, <2>5, <2>6, <2>7 DEF Faithful, Deep
<1>4. ASSUME NEW a \in left PROVE Untouched(a)
  BY <1>4 DEF Init, Untouched
<1> QED
  BY <1>1, <1>2, <1>3, <1>4 DEF BalancesInv

\* What a write of an account's balance at the front leaves of a series.
LEMMA WrittenAtFront ==
  ASSUME BalancesInv, NEW a \in Accounts \ (left \cup shaken), NEW v,
         NEW p, p = WritePoint(balances[a], Front, v)
  PROVE  /\ \A s \in DOMAIN p : s <= Front
         /\ \A l \in Int : ReadPoint(p, l) = IF l < Front THEN ReadPoint(balances[a], l) ELSE v
         /\ \A s \in DOMAIN balances[a] : s # Front => s \in DOMAIN p /\ p[s] = balances[a][s]
         /\ \A s \in DOMAIN p : s = Front \/ s \in DOMAIN balances[a]
<1>1. Series(balances[a]) /\ \A s \in DOMAIN balances[a] : s <= Front
  BY DEF BalancesInv, TypeInv, GoodBalances, GoodSeries, Faithful
<1>2. Front \in Int
  BY FrontType, LedgersInt
<1>3. \A s \in DOMAIN p : s <= Front
  BY <1>1, <1>2, WritePointSeries
<1>4. \A l \in Int : ReadPoint(p, l) = IF l < Front THEN ReadPoint(balances[a], l) ELSE v
  BY <1>1, <1>2, WriteAtEnd
<1>5. /\ \A s \in DOMAIN balances[a] : s # Front => s \in DOMAIN p /\ p[s] = balances[a][s]
      /\ \A s \in DOMAIN p : s = Front \/ s \in DOMAIN balances[a]
  BY DEF WritePoint, SetPoint
<1> QED
  BY <1>3, <1>4, <1>5

\* The deltas of a transaction change neither work's kind nor its ledger.
LEMMA CountWork ==
  ASSUME NEW a, NEW previous, NEW final, work \in Transactions, Count(a, previous, final)
  PROVE  work'.kind = work.kind /\ work'.at = work.at /\ work'.todo = work.todo \ {a}
  BY DEF Count, Transactions

\* Faithful says the same where the account's series, its entry and the
\* ledgers are the same, and so does Deep.
LEMMA FaithfulKept ==
  ASSUME NEW a, Faithful(a), balances'[a] = balances[a], Front' = Front,
         Amount(held[a])' = Amount(held[a]), UNCHANGED <<newest, oldest, truth>>
  PROVE  Faithful(a)'
  BY DEF Faithful, Answered

LEMMA DeepKept ==
  ASSUME NEW a, Deep(a), balances'[a] = balances[a], past'[a] = past[a],
         touched'[a] = touched[a], Depth(a)' = Depth(a), oldest' = oldest,
         \A l \in Ledgers : l < oldest => truth'[l][a] = truth[l][a]
  PROVE  Deep(a)'
  BY DEF Deep

\* So does Untouched.
LEMMA UntouchedKept ==
  ASSUME NEW a, Untouched(a), balances'[a] = balances[a], past'[a] = past[a],
         held'[a] = held[a], touched'[a] = touched[a], truth' = truth
  PROVE  Untouched(a)'
  BY DEF Untouched

\* An entry that is copied at the ledger of its last change is read from there on.
LEMMA BalancesCopy ==
  ASSUME BalancesInv, TypeInv', NEW a \in Accounts, CopyEntry(a)
  PROVE  BalancesInv'
<1> USE DEF forward, backward
<1>1. work \in Transactions
  BY WorkType DEF CopyEntry, BalancesInv
<1>2. /\ work.kind = "copy" /\ work'.kind = "copy" /\ work'.todo = work.todo \ {a}
      /\ newest = SnapshotAt /\ oldest = SnapshotAt /\ work.todo \subseteq left /\ a \in left
      /\ UNCHANGED <<newest, held, oldest, past, touched, truth, shaken>>
  BY <1>1, CountWork DEF CopyEntry, BalancesInv, Phases
<1>3. /\ Front = SnapshotAt /\ Front' = SnapshotAt
      /\ \A b : Depth(b) = oldest /\ Depth(b)' = oldest
  BY <1>2 DEF Front, Depth
<1>4. Phases'
  <2>1. work'.todo \subseteq left'
    BY <1>2 DEF CopyEntry
  <2> QED
    BY <1>2, <2>1 DEF Phases, BalancesInv, CopyEntry
<1>5. ASSUME NEW b \in left' PROVE Untouched(b)'
  <2>1. Untouched(b) /\ b \in Accounts /\ b # a
    BY <1>5 DEF CopyEntry, BalancesInv, TypeInv
  <2>2. balances'[b] = balances[b]
    BY <2>1 DEF CopyEntry, BalancesInv, TypeInv, GoodBalances
  <2> QED
    BY <1>2, <2>1, <2>2, UntouchedKept
<1>6. ASSUME NEW b \in Accounts \ (left' \cup shaken'), b # a PROVE Faithful(b)' /\ Deep(b)'
  <2>1. Faithful(b) /\ balances'[b] = balances[b] /\ Deep(b)
    BY <1>2, <1>6 DEF CopyEntry, BalancesInv, TypeInv, GoodBalances
  <2>2. Faithful(b)'
    BY <1>2, <1>3, <2>1, FaithfulKept
  <2>3. Deep(b)'
    BY <1>2, <1>3, <2>1, DeepKept
  <2> QED
    BY <2>2, <2>3
<1>7. Faithful(a)' /\ Deep(a)'
  <2> DEFINE v == Amount(held[a])
             p == WritePoint(NoPoints, touched[a], v)
  <2>1. Untouched(a)
    BY <1>2 DEF BalancesInv
  <2>2. balances'[a] = p
    BY <2>1 DEF CopyEntry, CopyPoint, BalancesInv, TypeInv, GoodBalances, Untouched
  <2>3. touched[a] \in Int /\ touched[a] <= SnapshotAt /\ SnapshotAt \in Int
    BY LedgersInt DEF BalancesInv, TypeInv, Phases
  <2>4. Series(NoPoints) /\ DOMAIN NoPoints = {}
    BY EmptySeries DEF NoPoints
  <2>5. DOMAIN p = {touched[a]} /\ p[touched[a]] = v
    BY <2>4 DEF WritePoint, SetPoint, UpTo
  <2>6. \A l \in Int : ReadPoint(p, l) = IF l < touched[a] THEN ReadPoint(NoPoints, l) ELSE v
    BY <2>3, <2>4, WriteAtEnd
  <2> HIDE DEF p, v
  <2>7. ReadPoint(p, SnapshotAt) = v
    BY <2>3, <2>6
  <2>8. \A l \in Answered' : l = SnapshotAt /\ l \in Ledgers
    <3>1. ASSUME NEW l \in Ledgers, SnapshotAt <= l, l <= SnapshotAt PROVE l = SnapshotAt
      <4>1. l \in Int
        BY LedgersInt
      <4> QED
        BY <2>3, <3>1, <4>1
    <3> QED
      BY <1>2, <3>1 DEF Answered
  <2>9. \A l \in Ledgers : truth'[l][a] = held[a] /\ ~(oldest <= l /\ l < oldest)
    BY <1>2, <2>1, LedgersInt DEF Untouched
  <2>10. Faithful(a)'
    BY <1>2, <1>3, <2>2, <2>3, <2>5, <2>7, <2>8, <2>9 DEF Faithful, v
  <2>11. Deep(a)'
    BY <1>2, <1>3, <2>1, <2>2, <2>3, <2>5, <2>9 DEF Deep, Untouched, v
  <2> QED
    BY <2>10, <2>11
<1> QED
  BY <1>4, <1>5, <1>6, <1>7 DEF BalancesInv

\* A delta of the sync writes at the front.
LEMMA BalancesSync ==
  ASSUME BalancesInv, TypeInv', NEW a \in Accounts, SyncDelta(a)
  PROVE  BalancesInv'
<1> USE DEF copying, backward
<1>1. work \in Transactions
  BY WorkType DEF SyncDelta, BalancesInv
<1>2. PICK final \in Entries :
        /\ Count(a, held[a], final)
        /\ balances' = [balances EXCEPT ![a] = WritePoint(@, work.at, Amount(final))]
        /\ held' = [held EXCEPT ![a] = final]
  BY DEF SyncDelta, SyncPoint
<1>3. /\ work.kind = "sync" /\ work'.kind = "sync" /\ work'.at = work.at
      /\ UNCHANGED <<known, left, newest, oldest, past, touched, truth, shaken>>
  BY <1>1, <1>2, CountWork DEF SyncDelta
<1>4. /\ Front = work.at /\ Front' = work.at /\ left = {} /\ left' = {} /\ work.at = newest + 1
      /\ \A b : Depth(b) = oldest /\ Depth(b)' = oldest
  BY <1>3 DEF Front, Depth, BalancesInv, Phases, Copied
<1>5. Phases'
  BY <1>3, <1>4 DEF Phases, BalancesInv, Copied
<1>6. ASSUME NEW b \in Accounts \ shaken, b # a PROVE Faithful(b)' /\ Deep(b)'
  <2>1. /\ Faithful(b) /\ balances'[b] = balances[b] /\ held'[b] = held[b]
        /\ Deep(b)
    BY <1>2, <1>4, <1>6 DEF BalancesInv, TypeInv, GoodBalances
  <2>2. Faithful(b)'
    BY <1>3, <1>4, <2>1, FaithfulKept
  <2>3. Deep(b)'
    BY <1>3, <1>4, <2>1, DeepKept
  <2> QED
    BY <2>2, <2>3
<1>7. ASSUME a \notin shaken PROVE Faithful(a)' /\ Deep(a)'
  <2> DEFINE p == WritePoint(balances[a], Front, Amount(final))
  <2>1. balances'[a] = p /\ held'[a] = final
    BY <1>2, <1>4 DEF BalancesInv, TypeInv, GoodBalances
  <2>2. a \in Accounts \ (left \cup shaken)
    BY <1>4, <1>7
  <2>3. /\ \A s \in DOMAIN p : s <= Front
        /\ \A l \in Int : ReadPoint(p, l) = IF l < Front THEN ReadPoint(balances[a], l)
                                            ELSE Amount(final)
        /\ \A s \in DOMAIN balances[a] : s # Front => s \in DOMAIN p /\ p[s] = balances[a][s]
        /\ \A s \in DOMAIN p : s = Front \/ s \in DOMAIN balances[a]
    BY <2>2, WrittenAtFront
  <2> HIDE DEF p
  <2>4. Front \in Int /\ newest \in Int /\ oldest \in Int /\ newest < Front /\ oldest <= newest
    BY <1>4, EndsType
  <2>5. ReadPoint(p, Front) = Amount(final)
    BY <2>3, <2>4
  <2>6. \A l \in Ledgers : l \in Int /\ (l <= newest => ReadPoint(p, l) = ReadPoint(balances[a], l))
    BY <2>3, <2>4, LedgersInt
  <2>7. Faithful(a) /\ Deep(a)
    BY <2>2 DEF BalancesInv
  <2>8. \A l \in Answered : ReadPoint(p, l) = Amount(truth[l][a])
    BY <2>6, <2>7 DEF Faithful, Answered
  <2>9. Answered' = Answered
    BY <1>3 DEF Answered
  <2>10. Faithful(a)'
    BY <1>3, <1>4, <2>1, <2>3, <2>5, <2>8, <2>9 DEF Faithful
  <2>11. Deep(a)'
    <3>1. past[a] = Gone \/ touched[a] = SnapshotAt => \A s \in DOMAIN p : oldest <= s
      BY <1>4, <2>3, <2>4, <2>7 DEF Deep
    <3>2. ASSUME past[a] # Gone, touched[a] # SnapshotAt
          PROVE  /\ touched[a] \in DOMAIN p /\ touched[a] < oldest
                 /\ p[touched[a]] = Amount(past[a])
                 /\ \A s \in DOMAIN p : s = touched[a] \/ oldest <= s
      <4>1. touched[a] # Front
        <5>1. touched[a] < oldest /\ touched[a] \in Int
          BY <1>4, <2>7, <3>2, LedgersInt DEF Deep, BalancesInv, TypeInv
        <5> QED
          BY <2>4, <5>1
      <4>2. /\ touched[a] \in DOMAIN balances[a] /\ touched[a] < oldest
            /\ balances[a][touched[a]] = Amount(past[a])
            /\ \A s \in DOMAIN balances[a] : s = touched[a] \/ oldest <= s
        BY <1>4, <2>7, <3>2 DEF Deep
      <4>3. touched[a] \in DOMAIN p /\ p[touched[a]] = Amount(past[a])
        BY <2>3, <4>1, <4>2
      <4>4. \A s \in DOMAIN p : s = touched[a] \/ oldest <= s
        BY <2>3, <2>4, <4>2
      <4> QED
        BY <4>2, <4>3, <4>4
    <3>3. \A l \in Ledgers : ~(oldest <= l /\ l < oldest)
      BY <2>4, LedgersInt
    <3>4. \A l \in Ledgers : l < oldest => truth[l][a] = past[a]
      BY <1>4, <2>7 DEF Deep
    <3> QED
      BY <1>3, <1>4, <2>1, <3>1, <3>2, <3>3, <3>4 DEF Deep
  <2> QED
    BY <2>10, <2>11
<1> QED
  BY <1>3, <1>4, <1>5, <1>6, <1>7 DEF BalancesInv

\* The ledger that is closed is answered from now on.
LEMMA BalancesEndLedger ==
  ASSUME BalancesInv, TypeInv', EndLedger
  PROVE  BalancesInv'
<1> USE DEF copying, backward
<1>1. /\ work' = None /\ newest' = work.at /\ held' = held /\ balances' = balances
      /\ truth' = [truth EXCEPT ![work.at] = held] /\ work.kind = "sync" /\ work'.kind = "none"
      /\ UNCHANGED <<left, known, oldest, past, touched, shaken>>
  BY DEF EndLedger, Close, None
<1>2. Front = work.at /\ Front' = work.at /\ work.at = newest + 1 /\ work.at \in Ledgers
  BY <1>1, FrontType DEF Front, BalancesInv, Phases
<1>3. newest \in Int /\ work.at \in Int /\ SnapshotAt \in Int /\ oldest \in Int /\ oldest <= newest
  BY <1>2, EndsType
<1>4. truth'[work.at] = held /\ \A l \in Ledgers : l # work.at => truth'[l] = truth[l]
  BY <1>1, <1>2 DEF BalancesInv, TypeInv
<1>5. left = {} /\ left' = {}
  BY <1>1 DEF BalancesInv, Phases, Copied
<1>6. Phases'
  <2>1. oldest' <= SnapshotAt /\ SnapshotAt <= newest'
    BY <1>1, <1>2, <1>3 DEF BalancesInv, Phases
  <2>2. Copied'
    BY <1>1 DEF BalancesInv, Phases, Copied
  <2>3. held' = truth'[newest']
    BY <1>1, <1>4
  <2>4. /\ \A a \in Accounts : touched'[a] <= SnapshotAt
        /\ oldest' < SnapshotAt => \A a \in Accounts : touched'[a] < SnapshotAt
    BY <1>1 DEF BalancesInv, Phases
  <2> QED
    BY <1>1, <2>1, <2>2, <2>3, <2>4 DEF Phases
<1>7. ASSUME NEW a \in Accounts \ shaken PROVE Faithful(a)'
  <2>1. Faithful(a)
    BY <1>5, <1>7 DEF BalancesInv
  <2>2. ASSUME NEW l \in Answered' PROVE ReadPoint(balances[a], l) = Amount(truth'[l][a])
    <3>1. CASE l = work.at
      BY <1>2, <1>4, <2>1, <3>1 DEF Faithful
    <3>2. CASE l # work.at
      <4>1. l \in Ledgers /\ l \in Int /\ oldest <= l /\ l <= work.at
        BY <1>1, LedgersInt DEF Answered
      <4>2. l \in Answered
        BY <1>2, <1>3, <3>2, <4>1 DEF Answered
      <4> QED
        BY <1>4, <2>1, <3>2, <4>1, <4>2 DEF Faithful
    <3> QED
      BY <3>1, <3>2
  <2> QED
    BY <1>1, <1>2, <2>1, <2>2 DEF Faithful
<1>8. ASSUME NEW a \in Accounts \ shaken PROVE Deep(a)'
  <2>1. Deep(a)
    BY <1>5, <1>8 DEF BalancesInv
  <2>2. Depth(a)' = Depth(a)
    BY <1>1 DEF Depth
  <2>3. \A l \in Ledgers : l < oldest => l # work.at
    BY <1>2, <1>3, LedgersInt
  <2> QED
    BY <1>1, <1>4, <2>1, <2>2, <2>3, DeepKept
<1> QED
  BY <1>1, <1>5, <1>6, <1>7, <1>8 DEF BalancesInv

\* Before its first delta, a ledger reads as the one before it.
LEMMA BalancesStart ==
  ASSUME BalancesInv, TypeInv', StartLedger
  PROVE  BalancesInv'
<1> USE DEF copying, backward, database, forward
<1>1. /\ work'.kind = "sync" /\ work'.at = newest + 1 /\ work = None /\ work.kind = "none"
      /\ UNCHANGED <<balances, known, left, newest, held, oldest, past, touched, truth, shaken>>
      /\ left = {}
  BY DEF StartLedger, Open, Idle, None, Copied
<1>2. Front = newest /\ Front' = newest + 1 /\ newest \in Int
  BY <1>1, LedgersInt DEF Front, BalancesInv, TypeInv
<1>3. Phases'
  BY <1>1 DEF Phases, BalancesInv, StartLedger, Copied
<1>4. ASSUME NEW a \in Accounts \ shaken PROVE Faithful(a)' /\ Deep(a)'
  <2>1. Faithful(a) /\ Series(balances[a]) /\ Deep(a)
    BY <1>1, <1>4 DEF BalancesInv, TypeInv, GoodBalances, GoodSeries
  <2>2. ReadPoint(balances[a], newest + 1) = ReadPoint(balances[a], newest)
    BY <1>2, <2>1, ReadBeyond DEF Faithful
  <2>3. \A s \in DOMAIN balances[a] : s <= newest + 1
    BY <1>2, <2>1 DEF Faithful, Series
  <2>4. Answered' = Answered
    BY <1>1 DEF Answered
  <2>5. Depth(a)' = Depth(a)
    BY <1>1 DEF Depth
  <2>6. Faithful(a)'
    BY <1>1, <1>2, <2>1, <2>2, <2>3, <2>4 DEF Faithful
  <2>7. Deep(a)'
    BY <1>1, <2>1, <2>5, DeepKept
  <2> QED
    BY <2>6, <2>7
<1> QED
  BY <1>1, <1>3, <1>4 DEF BalancesInv

\* An empty side that vanishes is read as before.
LEMMA BalancesVanish ==
  ASSUME BalancesInv, TypeInv', NEW a \in Accounts, SideVanishes(a)
  PROVE  BalancesInv'
<1> USE DEF database, copying, backward
<1>1. /\ work.kind = "sync" /\ held' = [held EXCEPT ![a] = Gone]
      /\ shaken' = IF Holds(held[a]) THEN shaken \cup {a} ELSE shaken
      /\ UNCHANGED <<balances, known, left, work, newest, oldest, past, touched, truth>>
  BY DEF SideVanishes
<1>2. a \notin shaken' => Amount(held[a]) = 0
  <2>1. Amount(held[a]) \in Nat
    BY AmountType DEF BalancesInv, TypeInv, Amounts
  <2> QED
    BY <1>1, <2>1 DEF Holds
<1>3. ASSUME NEW b \in Accounts \ shaken' PROVE Amount(held[b])' = Amount(held[b])
  <2>1. held'[b] = IF b = a THEN Gone ELSE held[b]
    BY <1>1 DEF BalancesInv, TypeInv
  <2>2. Amount(Gone) = 0
    BY DEF Amount
  <2> QED
    BY <1>2, <1>3, <2>1, <2>2
<1>4. Front' = Front /\ \A b : Depth(b)' = Depth(b)
  BY <1>1 DEF Front, Depth
<1>5. left' = {}
  BY <1>1 DEF BalancesInv, Phases, Copied
<1>6. ASSUME NEW b \in Accounts \ shaken' PROVE Faithful(b)' /\ Deep(b)'
  <2>1. Faithful(b) /\ Deep(b)
    BY <1>1, <1>5, <1>6 DEF BalancesInv
  <2>2. Faithful(b)'
    BY <1>1, <1>3, <1>4, <1>6, <2>1, FaithfulKept
  <2>3. Deep(b)'
    BY <1>1, <1>4, <2>1, DeepKept
  <2> QED
    BY <2>2, <2>3
<1>7. Phases'
  BY <1>1 DEF BalancesInv, Phases, Copied
<1> QED
  BY <1>5, <1>6, <1>7 DEF BalancesInv

\* Nothing of balances, entries and ledgers changes, nor is a ledger begun.
LEMMA BalancesRest ==
  ASSUME BalancesInv, TypeInv', Phases', work.kind # "sync" \/ UNCHANGED work,
         work'.kind # "sync" \/ UNCHANGED work,
         \A a \in Accounts : Depth(a)' = Depth(a),
         UNCHANGED <<balances, left, newest, held, oldest, past, touched, truth, shaken>>
  PROVE  BalancesInv'
<1>1. Front' = Front
  BY DEF Front
<1>2. ASSUME NEW a \in Accounts \ (left' \cup shaken') PROVE Faithful(a)' /\ Deep(a)'
  <2>1. Faithful(a) /\ Amount(held[a])' = Amount(held[a]) /\ Deep(a)
    BY <1>2 DEF BalancesInv
  <2>2. Faithful(a)'
    BY <1>1, <2>1, FaithfulKept
  <2>3. Deep(a)'
    BY <2>1, DeepKept
  <2> QED
    BY <2>2, <2>3
<1>3. ASSUME NEW a \in left' PROVE Untouched(a)'
  BY <1>3, UntouchedKept DEF BalancesInv
<1> QED
  BY <1>2, <1>3 DEF BalancesInv


\* What undoing a delta leaves of an account, once of its series all is read
\* as before from the ledgers undone on, the balance of the ledger at hand is
\* that of before the delta, and below it is the point of the entry that is left.
LEMMA Undone ==
  ASSUME BalancesInv, NEW a \in Accounts, Faithful(a), Deep(a),
         work.kind = "undo", work'.kind = "undo", work'.at = work.at,
         a \in work.todo, a \notin work'.todo,
         UNCHANGED <<newest, held, oldest, truth>>,
         \A s \in DOMAIN balances'[a] : s <= newest,
         \A k \in Int : oldest <= k => ReadPoint(balances'[a], k) = ReadPoint(balances[a], k),
         ReadPoint(balances'[a], work.at) = Amount(past[a]),
         past'[a] = Gone => \A s \in DOMAIN balances'[a] : work.at <= s,
         past'[a] # Gone =>
           /\ touched'[a] \in DOMAIN balances'[a] /\ touched'[a] < work.at
           /\ balances'[a][touched'[a]] = Amount(past'[a])
           /\ \A s \in DOMAIN balances'[a] : s = touched'[a] \/ work.at <= s
  PROVE  Faithful(a)' /\ Deep(a)'
<1>1. work.at = oldest - 1 /\ oldest \in Int /\ newest \in Int /\ oldest <= newest
  BY EndsType DEF BalancesInv, Phases
<1>2. Front = newest /\ Front' = newest /\ Depth(a) = oldest /\ Depth(a)' = work.at
      /\ Answered' = Answered
  BY DEF Front, Depth, Answered
<1>3. Faithful(a)'
  <2>1. ReadPoint(balances'[a], newest) = Amount(held[a])
    BY <1>1, <1>2 DEF Faithful
  <2>2. \A l \in Answered : ReadPoint(balances'[a], l) = Amount(truth[l][a])
    BY LedgersInt DEF Faithful, Answered
  <2> QED
    BY <1>2, <2>1, <2>2 DEF Faithful
<1>4. Deep(a)'
  <2>1. ASSUME NEW l \in Ledgers, work.at <= l, l < oldest
        PROVE  ReadPoint(balances'[a], l) = Amount(truth[l][a])
    <3>1. l = work.at
      <4>1. l \in Int
        BY LedgersInt
      <4> QED
        BY <1>1, <2>1, <4>1
    <3>2. truth[l][a] = past[a]
      BY <1>2, <2>1 DEF Deep
    <3> QED
      BY <3>1, <3>2
  <2>2. work.at # oldest
    BY <1>1
  <2>3. past'[a] # Gone => touched'[a] # SnapshotAt
    <3>1. oldest <= SnapshotAt /\ SnapshotAt \in Int
      BY LedgersInt DEF BalancesInv, Phases
    <3>2. ~(SnapshotAt < work.at)
      BY <1>1, <3>1
    <3> QED
      BY <3>2
  <2> QED
    BY <1>2, <2>1, <2>2, <2>3 DEF Deep
<1> QED
  BY <1>3, <1>4

\* A delta undone, of each of the four sorts: what is written comes before all
\* points but that of the entry undone.
LEMMA BalancesUndo ==
  ASSUME BalancesInv, TypeInv', NEW a \in Accounts, UndoDelta(a)
  PROVE  BalancesInv'
<1> USE DEF copying, forward, database
<1> DEFINE p == balances[a]
           at == work.at
<1>1. /\ work \in Transactions /\ work.kind = "undo" /\ at = oldest - 1
      /\ left = {} /\ UNCHANGED <<known, left, newest, held, oldest, truth>>
      /\ at \in Ledgers
  BY WorkType DEF UndoDelta, BalancesInv, Phases, Copied, TypeInv, AtLedger
<1>2. /\ oldest \in Int /\ newest \in Int /\ SnapshotAt \in Int /\ at \in Int
      /\ oldest <= newest /\ oldest <= SnapshotAt /\ at < oldest
  BY <1>1, EndsType DEF BalancesInv, Phases
<1>3. /\ work'.kind = "undo" /\ work'.at = at /\ work'.todo = work.todo \ {a}
      /\ \A b \in Accounts : b # a => /\ balances'[b] = balances[b] /\ past'[b] = past[b]
                                      /\ touched'[b] = touched[b]
      /\ \/ touched' = touched
         \/ \E l \in 1 .. at : touched' = [touched EXCEPT ![a] = l]
      /\ shaken' \in {shaken, shaken \cup {a}}
  <2>1. CASE past[a] # Gone /\ UndoCreation(a)
    BY <1>1, <2>1, CountWork DEF UndoCreation, Shake, BalancesInv, TypeInv, GoodBalances
  <2>2. CASE UndoAppearance(a)
    BY <1>1, <2>2 DEF UndoAppearance, BalancesInv, TypeInv, GoodBalances, Transactions
  <2>3. CASE \E amount \in Amounts, l \in 1 .. at : UndoChange(a, amount, l)
    BY <1>1, <2>3, CountWork DEF UndoChange, Shake, BalancesInv, TypeInv, GoodBalances
  <2>4. CASE \E amount \in Amounts, l \in 1 .. at : UndoDeletion(a, amount, l)
    BY <1>1, <2>4, CountWork DEF UndoDeletion, Shake, BalancesInv, TypeInv, GoodBalances
  <2> QED
    BY <2>1, <2>2, <2>3, <2>4 DEF UndoDelta
<1>4. Phases'
  <2>1. \A b \in Accounts : touched'[b] < SnapshotAt /\ touched'[b] <= SnapshotAt
    <3>1. \A b \in Accounts : touched[b] < SnapshotAt /\ touched[b] \in Int
      BY <1>1, LedgersInt DEF BalancesInv, Phases, TypeInv
    <3>2. \A l \in 1 .. at : l < SnapshotAt
      BY <1>2
    <3> QED
      BY <1>2, <1>3, <3>1, <3>2 DEF BalancesInv, TypeInv
  <2>2. oldest <= SnapshotAt /\ SnapshotAt <= newest /\ held = truth[newest] /\ Copied
    BY <1>1 DEF BalancesInv, Phases
  <2> QED
    BY <1>1, <1>3, <2>1, <2>2 DEF Phases, Copied
<1>5. ASSUME NEW b \in Accounts \ shaken', b # a PROVE Faithful(b)' /\ Deep(b)'
  <2>1. Faithful(b) /\ Deep(b)
    BY <1>1, <1>3, <1>5 DEF BalancesInv
  <2>2. Front' = Front /\ Depth(b)' = Depth(b)
    BY <1>1, <1>3, <1>5 DEF Front, Depth
  <2>3. Amount(held[b])' = Amount(held[b])
    BY <1>1
  <2>4. Faithful(b)'
    BY <1>1, <1>3, <1>5, <2>1, <2>2, <2>3, FaithfulKept
  <2>5. Deep(b)'
    BY <1>1, <1>3, <1>5, <2>1, <2>2, DeepKept
  <2> QED
    BY <2>4, <2>5
<1>6. SUFFICES ASSUME a \notin shaken' PROVE Faithful(a)' /\ Deep(a)'
  BY <1>1, <1>4, <1>5 DEF BalancesInv
<1>s. /\ Series(p) /\ Faithful(a) /\ Deep(a) /\ touched[a] # SnapshotAt
      /\ \A s \in DOMAIN p : s \in Int /\ s <= newest
  <2>1. Faithful(a) /\ Deep(a)
    BY <1>1, <1>3, <1>6 DEF BalancesInv
  <2>2. touched[a] # SnapshotAt
    BY <1>1, <1>2 DEF BalancesInv, Phases
  <2> QED
    BY <1>1, <2>1, <2>2 DEF BalancesInv, TypeInv, GoodBalances, GoodSeries, Series, Faithful, Front
<1>t. a \in work.todo /\ Depth(a) = oldest
  <2>1. a \notin work.todo => Depth(a) = at
    BY <1>1 DEF Depth
  <2>2. CASE past[a] # Gone /\ touched[a] = at
    BY <1>1, <1>2, <1>s, <2>1, <2>2 DEF Deep, Depth
  <2>3. CASE \E amount \in Amounts, l \in 1 .. at : UndoDeletion(a, amount, l)
    BY <1>1, <1>6, <2>3 DEF UndoDeletion, Shake, Depth
  <2> QED
    BY <2>2, <2>3 DEF UndoDelta
<1>7. ASSUME past[a] # Gone
      PROVE  /\ touched[a] \in DOMAIN p /\ p[touched[a]] = Amount(past[a])
             /\ touched[a] \in Int /\ touched[a] <= at
             /\ \A s \in DOMAIN p : s = touched[a] \/ at < s
  BY <1>1, <1>2, <1>s, <1>t, <1>7 DEF Deep
<1>8. ASSUME past[a] # Gone, touched[a] = at
      PROVE  /\ at \in DOMAIN p /\ ReadPoint(p, at) = Amount(past[a])
             /\ \A s \in DOMAIN p : at <= s
  BY <1>2, <1>s, <1>7, <1>8, ReadThere
<1>9. ASSUME past[a] # Gone, touched[a] = at, UndoCreation(a) \/ UndoAppearance(a)
      PROVE  Faithful(a)' /\ Deep(a)'
  <2>1. balances'[a] = p /\ past'[a] = Gone
    <3>1. CASE UndoCreation(a)
      <4>1. Amount(past[a]) = 0
        <5>1. Amount(past[a]) \in Nat
          BY AmountType DEF BalancesInv, TypeInv, Amounts
        <5> QED
          BY <1>6, <3>1, <5>1 DEF UndoCreation, Shake, Holds
      <4>2. WritePoint(p, at, 0) = p
        <5>1. at \in UpTo(p, at)
          BY <1>2, <1>8, <1>9 DEF UpTo
        <5> QED
          BY <1>8, <1>9, <4>1, <5>1 DEF WritePoint
      <4> QED
        BY <3>1, <4>2 DEF UndoCreation, BalancesInv, TypeInv, GoodBalances
    <3>2. CASE UndoAppearance(a)
      BY <3>2 DEF UndoAppearance, BalancesInv, TypeInv
    <3> QED
      BY <1>9, <3>1, <3>2
  <2> QED
    BY <1>1, <1>3, <1>s, <1>t, <1>8, <1>9, <2>1, Undone
<1>10. ASSUME past[a] # Gone, touched[a] = at, NEW amount \in Amounts, NEW l \in 1 .. at,
              l < at, UndoChange(a, amount, l)
       PROVE  Faithful(a)' /\ Deep(a)'
  <2>1. l < at /\ l \in Int
    BY <1>2, <1>10
  <2>q. PICK q : q = WritePoint(p, l, amount)
    OBVIOUS
  <2>2. balances'[a] = q /\ past'[a] = amount /\ touched'[a] = l
    BY <1>10, <2>q DEF UndoChange, UndoPoint, BalancesInv, TypeInv, GoodBalances
  <2>3. /\ DOMAIN q = DOMAIN p \cup {l} /\ q[l] = amount
        /\ \A k \in Int : at <= k => ReadPoint(q, k) = ReadPoint(p, k)
    <3>1. ASSUME NEW r, r = p, NEW m, m = at
          PROVE  /\ DOMAIN q = DOMAIN r \cup {l} /\ q[l] = amount
                 /\ \A k \in Int : m <= k => ReadPoint(q, k) = ReadPoint(r, k)
      <4>1. Series(r) /\ m \in DOMAIN r /\ l < m /\ l \in Int /\ q = WritePoint(r, l, amount)
        BY <1>2, <1>s, <1>8, <1>10, <2>1, <2>q, <3>1
      <4>2. UpTo(r, l) = {}
        <5>1. \A s \in DOMAIN r : s \in Int /\ m <= s
          BY <1>s, <1>8, <1>10, <3>1, <4>1 DEF Series
        <5> QED
          BY <1>2, <3>1, <4>1, <5>1 DEF UpTo
      <4>3. ASSUME NEW k \in Int, m <= k PROVE ReadPoint(q, k) = ReadPoint(r, k)
        BY <4>1, <4>2, <4>3, ReadAfterWriteBefore
      <4>4. DOMAIN q = DOMAIN r \cup {l} /\ q[l] = amount
        BY <4>1, <4>2, WriteBefore
      <4> QED
        BY <4>3, <4>4
    <3> QED
      BY <3>1
  <2>4. amount # Gone /\ Amount(amount) = amount
    BY DEF Amount, Amounts
  <2>5. /\ \A s \in DOMAIN q : s <= newest /\ (s = l \/ at <= s)
        /\ \A k \in Int : oldest <= k => ReadPoint(q, k) = ReadPoint(p, k)
        /\ ReadPoint(q, at) = Amount(past[a])
    BY <1>2, <1>s, <1>8, <1>10, <2>1, <2>3
  <2> QED
    BY <1>1, <1>3, <1>s, <1>t, <2>1, <2>2, <2>3, <2>4, <2>5, Undone
<1>11. ASSUME past[a] = Gone, NEW amount \in Amounts, NEW l \in 1 .. at,
              l < at, UndoDeletion(a, amount, l)
       PROVE  Faithful(a)' /\ Deep(a)'
  <2>1. l < at /\ l \in Int
    BY <1>2, <1>11
  <2>z. PICK z : z = SetPoint(p, at, 0)
    OBVIOUS
  <2>q. PICK q : q = WritePoint(z, l, amount)
    OBVIOUS
  <2>2. \A s \in DOMAIN p : oldest <= s /\ at < s
    BY <1>2, <1>s, <1>t, <1>11 DEF Deep
  <2>3. WritePoint(p, at, 0) = z
    <3>1. UpTo(p, at) = {}
      BY <1>2, <1>s, <2>2 DEF UpTo
    <3> QED
      BY <2>z, <3>1 DEF WritePoint
  <2>4. balances'[a] = q /\ past'[a] = amount /\ touched'[a] = l
    BY <1>11, <2>3, <2>q DEF UndoDeletion, UndoPoint, BalancesInv, TypeInv, GoodBalances
  <2>5. /\ Series(z) /\ DOMAIN z = DOMAIN p \cup {at} /\ z[at] = 0
        /\ \A k \in Int : ReadPoint(z, k) = ReadPoint(p, k)
    <3> HIDE DEF p, at
    <3>1. Series(z) /\ \A k \in Int : ReadPoint(z, k) = ReadPoint(p, k)
      BY <1>2, <1>s, <2>2, <2>z, SetPointSeries, ZeroBefore
    <3> QED
      BY <2>z, <3>1 DEF SetPoint
  <2>6. at \in DOMAIN z /\ (\A s \in DOMAIN z : at <= s) /\ ReadPoint(z, at) = 0
    BY <1>2, <1>s, <2>2, <2>5, ReadThere
  <2>7. /\ DOMAIN q = DOMAIN z \cup {l} /\ q[l] = amount
        /\ \A k \in Int : at <= k => ReadPoint(q, k) = ReadPoint(z, k)
    <3>1. ASSUME NEW r, r = z, NEW m, m = at
          PROVE  /\ DOMAIN q = DOMAIN r \cup {l} /\ q[l] = amount
                 /\ \A k \in Int : m <= k => ReadPoint(q, k) = ReadPoint(r, k)
      <4>1. Series(r) /\ m \in DOMAIN r /\ l < m /\ l \in Int /\ q = WritePoint(r, l, amount)
        BY <1>2, <2>5, <2>6, <2>1, <2>q, <3>1
      <4>2. UpTo(r, l) = {}
        <5>1. \A s \in DOMAIN r : s \in Int /\ m <= s
          BY <2>5, <2>6, <3>1, <4>1 DEF Series
        <5> QED
          BY <1>2, <3>1, <4>1, <5>1 DEF UpTo
      <4>3. ASSUME NEW k \in Int, m <= k PROVE ReadPoint(q, k) = ReadPoint(r, k)
        BY <4>1, <4>2, <4>3, ReadAfterWriteBefore
      <4>4. DOMAIN q = DOMAIN r \cup {l} /\ q[l] = amount
        BY <4>1, <4>2, WriteBefore
      <4> QED
        BY <4>3, <4>4
    <3> QED
      BY <3>1
  <2>8. amount # Gone /\ Amount(amount) = amount /\ Amount(past[a]) = 0
    BY <1>11 DEF Amount, Amounts
  <2>9. \A s \in DOMAIN q : s <= newest /\ (s = l \/ at <= s)
    BY <1>2, <1>s, <2>1, <2>5, <2>6, <2>7
  <2>10. /\ \A k \in Int : oldest <= k => ReadPoint(q, k) = ReadPoint(p, k)
         /\ ReadPoint(q, at) = Amount(past[a])
    BY <1>2, <2>5, <2>6, <2>7, <2>8
  <2> QED
    BY <1>1, <1>3, <1>s, <1>t, <2>1, <2>4, <2>7, <2>8, <2>9, <2>10, Undone
<1>12. \A amount \in Amounts, l \in 1 .. at :
         UndoChange(a, amount, l) \/ UndoDeletion(a, amount, l) => l < at
  BY <1>2, <1>6 DEF UndoChange, UndoDeletion, Shake
<1> QED
  BY <1>9, <1>10, <1>11, <1>12 DEF UndoDelta

\* The ledger of the snapshot is skipped: an account that it changed is
\* answered as before where no entry of it preceded the change.
LEMMA BalancesSkip ==
  ASSUME BalancesInv, TypeInv', StartUndo, oldest = SnapshotAt
  PROVE  BalancesInv'
<1> USE DEF copying, forward, database
<1> DEFINE recent == {a \in Accounts : touched[a] = SnapshotAt}
<1>1. /\ work.kind = "none" /\ Copied /\ left = {}
      /\ work'.kind = "undo" /\ work'.at = oldest - 1 /\ work'.todo = Accounts
      /\ UNCHANGED <<balances, known, left, newest, held, oldest>>
  BY DEF StartUndo, Open, Idle, None, Copied
<1>2. PICK before \in [recent -> Entries], since \in [recent -> 1 .. SnapshotAt - 1] :
        /\ past' = [a \in Accounts |-> IF a \in recent THEN before[a] ELSE past[a]]
        /\ touched' = [a \in Accounts |-> IF a \in recent THEN since[a] ELSE touched[a]]
        /\ truth' = [l \in Ledgers |-> IF l < SnapshotAt THEN past' ELSE truth[l]]
        /\ shaken' = shaken \cup {a \in recent : before[a] # Gone}
  BY DEF StartUndo, SkipSnapshot
<1>3. SnapshotAt \in Int /\ newest \in Int /\ newest \in Ledgers /\ SnapshotAt <= newest
  BY EndsType DEF BalancesInv, TypeInv, Phases
<1>4. \A l \in Ledgers : l \in Int /\ truth'[l] = IF l < SnapshotAt THEN past' ELSE truth[l]
  BY <1>2, LedgersInt
<1>5. Phases'
  <2>1. \A a \in Accounts : touched'[a] < SnapshotAt /\ touched'[a] <= SnapshotAt
    <3>1. ASSUME NEW a \in Accounts PROVE touched'[a] < SnapshotAt
      <4>1. CASE a \in recent
        BY <1>2, <1>3, <4>1
      <4>2. CASE a \notin recent
        <5>1. touched[a] \in Int /\ touched[a] <= SnapshotAt
          BY LedgersInt DEF BalancesInv, TypeInv, Phases
        <5> QED
          BY <1>2, <1>3, <4>2, <5>1
      <4> QED
        BY <4>1, <4>2
    <3>2. \A a \in Accounts : touched'[a] \in Int
      BY LedgersInt DEF TypeInv
    <3> QED
      BY <1>3, <3>1, <3>2
  <2>2. held = truth'[newest]
    BY <1>1, <1>3, <1>4 DEF BalancesInv, Phases
  <2> QED
    BY <1>1, <1>3, <2>1, <2>2 DEF Phases, Copied
<1>6. Front = newest /\ Front' = newest /\ Answered' = Answered
      /\ \A a \in Accounts : Depth(a) = oldest /\ Depth(a)' = oldest
  BY <1>1 DEF Front, Answered, Depth
<1>7. ASSUME NEW a \in Accounts \ shaken' PROVE Faithful(a)' /\ Deep(a)'
  <2>1. Faithful(a) /\ Deep(a)
    BY <1>1, <1>2, <1>7 DEF BalancesInv
  <2>2. Faithful(a)'
    <3>1. \A l \in Answered : truth'[l] = truth[l]
      BY <1>3, <1>4 DEF Answered
    <3> QED
      BY <1>1, <1>6, <2>1, <3>1 DEF Faithful
  <2>3. \A l \in Ledgers : ~(oldest <= l /\ l < oldest) /\ (l < oldest => truth'[l][a] = past'[a])
    BY <1>3, <1>4
  <2>4. CASE a \in recent
    <3>1. past'[a] = Gone
      BY <1>2, <1>7, <2>4
    <3>2. \A s \in DOMAIN balances[a] : oldest <= s
      BY <1>6, <2>1, <2>4 DEF Deep
    <3> QED
      BY <1>1, <1>6, <2>2, <2>3, <3>1, <3>2 DEF Deep
  <2>5. CASE a \notin recent
    <3>1. past'[a] = past[a] /\ touched'[a] = touched[a]
      BY <1>2, <2>5
    <3> QED
      BY <1>1, <1>6, <2>1, <2>2, <2>3, <3>1 DEF Deep
  <2> QED
    BY <2>4, <2>5
<1> QED
  BY <1>1, <1>5, <1>7 DEF BalancesInv

\* An account the ledger did not touch had in it what it had before.
LEMMA BalancesEndUndo ==
  ASSUME BalancesInv, TypeInv', EndUndo
  PROVE  BalancesInv'
<1> USE DEF copying, forward
<1> DEFINE at == work.at
<1>1. /\ work.kind = "undo" /\ at = oldest - 1 /\ left = {} /\ Copied
      /\ work' = None /\ work'.kind = "none" /\ oldest' = at
      /\ truth' = [l \in Ledgers |-> IF l < at THEN past ELSE truth[l]]
      /\ \A a \in Accounts : past[a] # Gone => touched[a] # at
      /\ \A a \in Accounts : touched[a] < SnapshotAt
      /\ UNCHANGED <<balances, known, left, newest, held, past, touched, shaken>>
  BY DEF EndUndo, Close, None, BalancesInv, Phases, Copied
<1>2. /\ oldest \in Int /\ newest \in Int /\ SnapshotAt \in Int /\ at \in Int
      /\ oldest <= newest /\ oldest <= SnapshotAt /\ at < oldest
  BY <1>1, EndsType DEF BalancesInv, Phases
<1>3. at \in Ledgers /\ newest \in Ledgers
  BY <1>1 DEF BalancesInv, TypeInv, AtLedger
<1>4. \A l \in Ledgers : l \in Int /\ truth'[l] = IF l < at THEN past ELSE truth[l]
  BY <1>1, LedgersInt
<1>5. Front = newest /\ Front' = newest
  BY <1>1 DEF Front
<1>6. Phases'
  <2>1. truth'[newest] = truth[newest]
    <3>1. ~(newest < at)
      BY <1>2
    <3> QED
      BY <1>3, <1>4, <3>1
  <2>2. held = truth[newest] /\ SnapshotAt <= newest /\ \A a \in Accounts : touched[a] <= SnapshotAt
    BY <1>1 DEF BalancesInv, Phases
  <2>3. at <= SnapshotAt
    BY <1>2
  <2>4. Copied'
    BY <1>1 DEF Copied
  <2> QED
    BY <1>1, <2>1, <2>2, <2>3, <2>4 DEF Phases
<1>7. ASSUME NEW a \in Accounts \ shaken PROVE Faithful(a)' /\ Deep(a)'
  <2>1. Faithful(a) /\ Deep(a) /\ touched[a] # SnapshotAt
    BY <1>1, <1>2, <1>7 DEF BalancesInv
  <2>2. Depth(a) = IF a \in work.todo THEN oldest ELSE at
    BY <1>1 DEF Depth
  <2>3. Depth(a)' = at
    BY <1>1 DEF Depth
  <2>4. Series(balances[a]) /\ \A s \in DOMAIN balances[a] : s \in Int
    BY DEF BalancesInv, TypeInv, GoodBalances, GoodSeries, Series
  <2>5. past[a] = Gone => \A s \in DOMAIN balances[a] : at <= s
    BY <1>2, <2>1, <2>2, <2>4 DEF Deep
  <2>6. ASSUME past[a] # Gone
        PROVE  /\ touched[a] \in DOMAIN balances[a] /\ touched[a] < at
               /\ balances[a][touched[a]] = Amount(past[a])
               /\ \A s \in DOMAIN balances[a] : s = touched[a] \/ at <= s
    <3>1. touched[a] \in DOMAIN balances[a] /\ balances[a][touched[a]] = Amount(past[a])
      BY <2>1, <2>6 DEF Deep
    <3>2. touched[a] < at
      <4>1. touched[a] # at /\ touched[a] \in Int
        BY <1>1, <2>4, <2>6, <3>1
      <4>2. touched[a] < Depth(a)
        BY <2>1, <2>6 DEF Deep
      <4> QED
        BY <1>1, <1>2, <2>2, <4>1, <4>2
    <3>3. \A s \in DOMAIN balances[a] : s = touched[a] \/ at <= s
      BY <1>2, <2>1, <2>2, <2>4, <2>6 DEF Deep
    <3> QED
      BY <3>1, <3>2, <3>3
  <2>7. ReadPoint(balances[a], at) = Amount(truth[at][a])
    <3>1. CASE a \notin work.todo
      BY <1>2, <1>3, <2>1, <2>2, <3>1 DEF Deep
    <3>2. CASE a \in work.todo
      <4>1. truth[at][a] = past[a]
        BY <1>2, <1>3, <2>1, <2>2, <3>2 DEF Deep
      <4>2. CASE past[a] = Gone
        <5>1. UpTo(balances[a], at) = {}
          BY <1>2, <2>1, <2>2, <2>4, <3>2, <4>2 DEF Deep, UpTo
        <5>2. ReadPoint(balances[a], at) = 0
          BY <5>1 DEF ReadPoint
        <5> QED
          BY <4>1, <4>2, <5>2 DEF Amount
      <4>3. CASE past[a] # Gone
        <5>1. \A s \in DOMAIN balances[a] : s = touched[a] \/ oldest <= s
          BY <2>1, <2>2, <3>2, <4>3 DEF Deep
        <5>2. touched[a] \in UpTo(balances[a], at) /\ touched[a] \in Int
          BY <1>2, <2>4, <2>6, <4>3 DEF UpTo
        <5>3. \A r \in UpTo(balances[a], at) : r <= touched[a]
          BY <1>2, <2>4, <5>1, <5>2 DEF UpTo
        <5>4. ReadPoint(balances[a], at) = balances[a][touched[a]]
          BY <1>2, <2>4, <5>2, <5>3, ReadLast
        <5> QED
          BY <2>6, <4>1, <4>3, <5>4
      <4> QED
        BY <4>2, <4>3
    <3> QED
      BY <3>1, <3>2
  <2>8. Faithful(a)'
    <3>1. ASSUME NEW l \in Answered' PROVE ReadPoint(balances[a], l) = Amount(truth'[l][a])
      <4>1. l \in Ledgers /\ l \in Int /\ at <= l /\ l <= newest
        BY <1>1, <1>4 DEF Answered
      <4>2. truth'[l] = truth[l]
        BY <1>2, <1>4, <4>1
      <4>3. CASE l = at
        BY <2>7, <4>2, <4>3
      <4>4. CASE l # at
        <5>1. l \in Answered
          BY <1>1, <1>2, <4>1, <4>4 DEF Answered
        <5> QED
          BY <2>1, <4>2, <5>1 DEF Faithful
      <4> QED
        BY <4>3, <4>4
    <3>2. /\ \A s \in DOMAIN balances[a] : s <= newest
          /\ ReadPoint(balances[a], newest) = Amount(held[a])
      BY <1>5, <2>1 DEF Faithful
    <3>3. (\A s \in DOMAIN balances[a] : s <= Front)'
      BY <1>1, <1>5, <3>2
    <3>4. (ReadPoint(balances[a], Front) = Amount(held[a]))'
      BY <1>1, <1>5, <3>2 DEF ReadPoint, Amount
    <3>5. (\A l \in Answered : ReadPoint(balances[a], l) = Amount(truth[l][a]))'
      BY <1>1, <3>1 DEF ReadPoint, Amount
    <3> QED
      BY <3>3, <3>4, <3>5 DEF Faithful
  <2>9. Deep(a)'
    <3>1. \A l \in Ledgers : l \in Int /\ ~(at <= l /\ l < at)
      BY <1>2, LedgersInt
    <3>2. \A l \in Ledgers : l < at => truth'[l] = past
      BY <1>4
    <3> QED
      BY <1>1, <2>3, <2>5, <2>6, <3>1, <3>2 DEF Deep
  <2> QED
    BY <2>8, <2>9
<1> QED
  BY <1>1, <1>6, <1>7 DEF BalancesInv

\* Each step of the snapshot, the sync and the backfill.
LEMMA BalancesStep ==
  ASSUME BalancesInv, [Next]_vars
  PROVE  BalancesInv'
<1> USE DEF database, copying, forward, backward
<1>0. TypeInv'
  BY TypeStep DEF BalancesInv
<1>1. CASE StartBatch
  <2>1. work = None /\ work.kind = "none" /\ work'.kind = "copy" /\ work'.todo \subseteq left /\ ~Copied
        /\ UNCHANGED <<balances, known, left, newest, held, oldest, past, touched, truth, shaken>>
    BY <1>1 DEF StartBatch, Open, Idle, None
  <2>2. Phases'
    BY <2>1 DEF BalancesInv, Phases, Copied
  <2>3. \A a \in Accounts : Depth(a)' = Depth(a)
    BY <2>1 DEF Depth
  <2> QED
    BY <1>0, <2>1, <2>2, <2>3, BalancesRest
<1>2. ASSUME NEW a \in Accounts, CopyEntry(a) PROVE BalancesInv'
  BY <1>0, <1>2, BalancesCopy
<1>3. CASE EndBatch
  <2>1. work.kind = "copy" /\ work'.kind = "none"
        /\ UNCHANGED <<balances, left, newest, held, oldest, past, touched, truth, shaken>>
    BY <1>3 DEF EndBatch, Close, None
  <2>2. Phases'
    BY <2>1 DEF BalancesInv, Phases
  <2>3. \A a \in Accounts : Depth(a)' = Depth(a)
    BY <2>1 DEF Depth
  <2> QED
    BY <1>0, <2>1, <2>2, <2>3, BalancesRest
<1>4. CASE StartLedger
  BY <1>0, <1>4, BalancesStart
<1>5. ASSUME NEW a \in Accounts, SyncDelta(a) PROVE BalancesInv'
  BY <1>0, <1>5, BalancesSync
<1>6. ASSUME NEW a \in Accounts, SideVanishes(a) PROVE BalancesInv'
  BY <1>0, <1>6, BalancesVanish
<1>7. CASE EndLedger
  BY <1>0, <1>7, BalancesEndLedger
<1>8. CASE StartUndo
  <2>1. /\ work.kind = "none" /\ Copied
        /\ work'.kind = "undo" /\ work'.at = oldest - 1 /\ work'.todo = Accounts
        /\ UNCHANGED <<balances, known, left, newest, held, oldest>>
    BY <1>8 DEF StartUndo, Open, Idle, None
  <2>2. CASE oldest = SnapshotAt
    BY <1>0, <1>8, <2>2, BalancesSkip
  <2>3. CASE oldest # SnapshotAt
    <3>1. UNCHANGED <<past, touched, truth, shaken>>
      BY <1>8, <2>3 DEF StartUndo
    <3>2. oldest < SnapshotAt
      BY <2>3, EndsType DEF BalancesInv, Phases
    <3>3. Phases'
      BY <2>1, <3>1, <3>2 DEF BalancesInv, Phases, Copied
    <3>4. \A a \in Accounts : Depth(a)' = Depth(a)
      BY <2>1 DEF Depth
    <3> QED
      BY <1>0, <2>1, <3>1, <3>3, <3>4, BalancesRest
  <2> QED
    BY <2>2, <2>3
<1>9. ASSUME NEW a \in Accounts, UndoDelta(a) PROVE BalancesInv'
  BY <1>0, <1>9, BalancesUndo
<1>10. CASE EndUndo
  BY <1>0, <1>10, BalancesEndUndo
<1>11. CASE UNCHANGED vars
  <2>1. Phases'
    BY <1>11 DEF vars, BalancesInv, Phases, Copied
  <2>2. \A a \in Accounts : Depth(a)' = Depth(a)
    BY <1>11 DEF Depth, vars
  <2> QED
    BY <1>0, <1>11, <2>1, <2>2, BalancesRest DEF vars
<1> QED
  BY <1>1, <1>2, <1>3, <1>4, <1>5, <1>6, <1>7, <1>8, <1>9, <1>10, <1>11
     DEF Next, Snapshot, Sync, Backfill

LEMMA BalancesInvariant == Spec => []BalancesInv
<1>1. Init => BalancesInv
  BY BalancesInit
<1>2. BalancesInv /\ [Next]_vars => BalancesInv'
  BY BalancesStep
<1> QED
  BY <1>1, <1>2, PTL DEF Spec

\* Whatever the snapshot and the ledgers contain, an account's balance read
\* for any ledger applied is the one the network had - but for the accounts
\* that the snapshot's own ledger changed, that were made with a balance or
\* changed twice in a ledger undone, or whose side of a line vanished.
THEOREM BalancesAreExact == Spec => []BalancesExact
<1>1. BalancesInv => BalancesExact
  BY DEF BalancesInv, BalancesExact, Faithful, Copied
<1> QED
  BY <1>1, BalancesInvariant, PTL

\* A ledger applied stays applied, and what the network had after it is known.
LEMMA LedgersKept ==
  ASSUME BalancesInv, [Next]_vars, Copied, NEW l \in Answered, NEW a \in Accounts
  PROVE  l \in Answered' /\ truth'[l][a] = truth[l][a] /\ Copied'
<1> USE DEF database, copying, forward, backward
<1>1. l \in Ledgers /\ l \in Int /\ oldest <= l /\ l <= newest
  BY LedgersInt DEF Answered
<1>2. oldest \in Int /\ newest \in Int /\ left = {}
  BY EndsType DEF Copied
<1>3. ASSUME UNCHANGED <<newest, oldest>>, truth'[l] = truth[l] PROVE l \in Answered' /\ truth'[l][a] = truth[l][a]
  BY <1>3 DEF Answered
<1>4. Copied'
  <2>1. ~StartBatch /\ \A b \in Accounts : ~CopyEntry(b)
    BY DEF StartBatch, CopyEntry, BalancesInv, Phases, Copied
  <2>2. UNCHANGED left /\ known' \in {known, known \cup work.roots}
    BY <2>1 DEF Next, Snapshot, Sync, Backfill, EndBatch, StartLedger, SyncDelta,
                SideVanishes, EndLedger, StartUndo, UndoDelta, EndUndo, vars
  <2>3. known' = Pools
    <3>1. known' \subseteq Pools
      BY TypeStep DEF BalancesInv, TypeInv
    <3> QED
      BY <2>2, <3>1 DEF Copied
  <2> QED
    BY <2>2, <2>3 DEF Copied
<1>5. CASE EndLedger
  <2>1. newest' = work.at /\ oldest' = oldest /\ truth' = [truth EXCEPT ![work.at] = held]
        /\ work.at = newest + 1
    BY <1>5 DEF EndLedger, BalancesInv, Phases
  <2>2. l # work.at /\ l <= work.at
    BY <1>1, <1>2, <2>1
  <2> QED
    BY <1>1, <1>4, <2>1, <2>2 DEF Answered, BalancesInv, TypeInv
<1>6. CASE EndUndo
  <2>1. newest' = newest /\ oldest' = work.at /\ work.at = oldest - 1
        /\ truth' = [k \in Ledgers |-> IF k < work.at THEN past ELSE truth[k]]
    BY <1>6 DEF EndUndo, BalancesInv, Phases
  <2>2. ~(l < work.at) /\ work.at <= l
    BY <1>1, <1>2, <2>1
  <2> QED
    BY <1>1, <1>4, <2>1, <2>2 DEF Answered
<1>7. CASE StartUndo
  <2>1. UNCHANGED <<newest, oldest>>
    BY <1>7 DEF StartUndo
  <2>2. CASE oldest # SnapshotAt
    BY <1>3, <1>4, <1>7, <2>1, <2>2 DEF StartUndo
  <2>3. CASE oldest = SnapshotAt
    <3>1. truth' = [k \in Ledgers |-> IF k < SnapshotAt THEN past' ELSE truth[k]]
      BY <1>7, <2>3 DEF StartUndo, SkipSnapshot
    <3>2. ~(l < SnapshotAt)
      BY <1>1, <1>2, <2>3
    <3> QED
      BY <1>1, <1>3, <1>4, <2>1, <3>1, <3>2
  <2> QED
    BY <2>2, <2>3
<1> QED
  BY <1>3, <1>4, <1>5, <1>6, <1>7
     DEF Next, Snapshot, Sync, Backfill, StartBatch, CopyEntry, EndBatch, StartLedger, SyncDelta,
         SideVanishes, StartUndo, UndoDelta, vars

\* An account that is left out stays left out.
LEMMA ShakenStays ==
  ASSUME [Next]_vars
  PROVE  shaken \subseteq shaken'
<1>1. ASSUME NEW a \in Accounts, UndoDelta(a) PROVE shaken \subseteq shaken'
  BY <1>1 DEF UndoDelta, UndoCreation, UndoAppearance, UndoChange, UndoDeletion, Shake
<1>2. CASE StartUndo
  BY <1>2 DEF StartUndo, SkipSnapshot
<1>3. ASSUME NEW a \in Accounts, SideVanishes(a) PROVE shaken \subseteq shaken'
  BY <1>3 DEF SideVanishes
<1> QED
  BY <1>1, <1>2, <1>3
     DEF Next, Snapshot, Sync, Backfill, StartBatch, CopyEntry, EndBatch, StartLedger, SyncDelta,
         EndLedger, EndUndo, vars

\* Neither the sync nor the backfill changes the balances of a ledger already
\* applied, but for the accounts that BalancesAreExact leaves out.
THEOREM BalancesFinal == Spec => BalancesAreFinal
<1> DEFINE Kept == Copied => \A l \in Answered, a \in Accounts \ shaken' :
                               ReadPoint(balances[a], l)' = ReadPoint(balances[a], l)
<1>1. ASSUME BalancesInv, BalancesInv', [Next]_vars PROVE [Kept]_vars
  <2> SUFFICES ASSUME Copied, NEW l \in Answered, NEW a \in Accounts \ shaken'
               PROVE  ReadPoint(balances'[a], l) = ReadPoint(balances[a], l)
    OBVIOUS
  <2>1. l \in Answered' /\ truth'[l][a] = truth[l][a] /\ Copied'
    BY <1>1, LedgersKept
  <2>2. Faithful(a) /\ Faithful(a)'
    BY <1>1, <2>1, ShakenStays DEF BalancesInv, Copied
  <2>3. Amount(truth[l][a])' = Amount(truth[l][a])
    BY <2>1 DEF Amount
  <2> QED
    BY <2>1, <2>2, <2>3 DEF Faithful
<1> QED
  BY <1>1, BalancesInvariant, PTL DEF BalancesAreFinal, Spec

---------------------------------------------------------------------------
(* Sums over accounts.  What holds of no account, and of a set of them     *)
(* whenever it holds without the one that the sum takes first, holds of    *)
(* every set: induction, as a fact about sets of sets.                     *)

\* The account that a sum takes first.
Pick(s) == CHOOSE a \in s : TRUE

LEMMA PickType == ASSUME NEW s, s # {} PROVE Pick(s) \in s
  BY DEF Pick

LEMMA LessIsWellFounded ==
  IsWellFoundedOn({p \in Nat \X Nat : p[1] < p[2]}, Nat)
<1>1. OpToRel(<, Nat) = {p \in Nat \X Nat : p[1] < p[2]}
  BY DEF OpToRel
<1> QED
  BY <1>1, NatLessThanWellFounded

LEMMA AllNumbers ==
  ASSUME NEW S, 0 \in S, \A n \in Nat : n \in S => n + 1 \in S
  PROVE  Nat \subseteq S
<1> DEFINE T == Nat \ S
           R == {p \in Nat \X Nat : p[1] < p[2]}
<1> SUFFICES ASSUME T # {} PROVE FALSE
  OBVIOUS
<1>1. IsWellFoundedOn(R, Nat)
  BY LessIsWellFounded
<1>2. T \subseteq Nat
  OBVIOUS
<1> HIDE DEF T, R
<1>3. PICK x \in T : \A y \in T : ~(<<y, x>> \in R)
  BY <1>1, <1>2, WFMin
<1> USE DEF T, R
<1>4. x # 0
  OBVIOUS
<1>5. x - 1 \in Nat /\ <<x - 1, x>> \in R
  BY <1>4
<1>6. x - 1 \in S
  BY <1>3, <1>5
<1> QED
  BY <1>5, <1>6

\* A set of accounts without the first one is smaller.
LEMMA Smaller ==
  ASSUME NEW s \in SUBSET Accounts, s # {}
  PROVE  /\ s \ {Pick(s)} \in SUBSET Accounts
         /\ Cardinality(s) \in Nat /\ Cardinality(s \ {Pick(s)}) = Cardinality(s) - 1
         /\ Cardinality(s) # 0
<1>1. IsFiniteSet(s)
  BY FS_Subset
<1>2. Cardinality(s) \in Nat
  BY <1>1, FS_CardinalityType
<1>3. Cardinality(s) # 0
  BY <1>1, FS_EmptySet
<1>4. Cardinality(s \ {Pick(s)}) = Cardinality(s) - 1
  BY <1>1, PickType, FS_RemoveElement
<1> QED
  BY <1>2, <1>3, <1>4

LEMMA NoneSmaller ==
  ASSUME NEW s \in SUBSET Accounts, Cardinality(s) <= 0
  PROVE  s = {}
<1> SUFFICES ASSUME s # {} PROVE FALSE
  OBVIOUS
<1>1. Cardinality(s) \in Nat /\ Cardinality(s) # 0
  BY Smaller
<1> QED
  BY <1>1

LEMMA AllSubsets ==
  ASSUME NEW T, {} \in T,
         \A s \in SUBSET Accounts : s # {} /\ s \ {Pick(s)} \in T => s \in T
  PROVE  SUBSET Accounts \subseteq T
<1> DEFINE S == {n \in Nat : \A s \in SUBSET Accounts : Cardinality(s) <= n => s \in T}
<1>1. 0 \in S
  <2>1. ASSUME NEW s \in SUBSET Accounts, Cardinality(s) <= 0 PROVE s = {}
    BY <2>1, NoneSmaller
  <2> QED
    BY <2>1
<1>2. ASSUME NEW n \in Nat, n \in S PROVE n + 1 \in S
  <2>1. ASSUME NEW s \in SUBSET Accounts, Cardinality(s) <= n + 1 PROVE s \in T
    <3>1. CASE s = {}
      BY <3>1
    <3>2. CASE s # {}
      <4>1. s \ {Pick(s)} \in SUBSET Accounts /\ Cardinality(s \ {Pick(s)}) <= n
        BY <2>1, <3>2, Smaller
      <4> QED
        BY <1>2, <3>2, <4>1
    <3> QED
      BY <3>1, <3>2
  <2> QED
    BY <2>1
<1>3. Nat \subseteq S
  <2> HIDE DEF S
  <2> QED
    BY <1>1, <1>2, AllNumbers
<1>4. ASSUME NEW s \in SUBSET Accounts PROVE s \in T
  <2>1. Cardinality(s) \in Nat
    BY FS_Subset, FS_CardinalityType
  <2>2. Cardinality(s) \in S
    BY <1>3, <2>1
  <2> QED
    BY <2>1, <2>2
<1> QED
  BY <1>4

SumStep(g, entries, s) ==
  IF s = {} THEN 0 ELSE Amount(entries[Pick(s)]) + g[s \ {Pick(s)}]

\* The function by which the community modules define the sum of the balances.
Sums(entries) == CHOOSE g : g = [s \in SUBSET Accounts |-> SumStep(g, entries, s)]

LEMMA SupplyIsSum ==
  ASSUME NEW entries
  PROVE  Total("supply", entries) = Sums(entries)[Accounts]
<1>1. Total("supply", entries) = MapThenSumSet(LAMBDA a : Amount(entries[a]), Accounts)
  BY DEF Total
<1>2. MapThenSumSet(LAMBDA a : Amount(entries[a]), Accounts) = Sums(entries)[Accounts]
  BY Zenon DEF MapThenSumSet, MapThenFoldSet, Sums, SumStep, Pick
<1> QED
  BY <1>1, <1>2

\* There is such a function, as it can be made for one account more.
LEMMA SumsExist ==
  ASSUME NEW entries
  PROVE  \A s \in SUBSET Accounts : Sums(entries)[s] = SumStep(Sums(entries), entries, s)
<1> DEFINE Good(g, n) == \A s \in SUBSET Accounts :
                           Cardinality(s) <= n => g[s] = SumStep(g, entries, s)
           S == {n \in Nat : \E g : Good(g, n)}
<1>1. 0 \in S
  <2> DEFINE g == [s \in SUBSET Accounts |-> 0]
  <2>1. ASSUME NEW s \in SUBSET Accounts, Cardinality(s) <= 0 PROVE s = {}
    BY <2>1, NoneSmaller
  <2>2. Good(g, 0)
    BY <2>1 DEF SumStep
  <2> QED
    BY <2>2
<1>2. ASSUME NEW n \in Nat, n \in S PROVE n + 1 \in S
  <2>1. PICK g : Good(g, n)
    BY <1>2
  <2> DEFINE h == [s \in SUBSET Accounts |-> SumStep(g, entries, s)]
  <2>2. ASSUME NEW s \in SUBSET Accounts, Cardinality(s) <= n + 1
        PROVE  h[s] = SumStep(h, entries, s)
    <3>1. CASE s = {}
      BY <3>1 DEF SumStep
    <3>2. CASE s # {}
      <4>1. s \ {Pick(s)} \in SUBSET Accounts /\ Cardinality(s \ {Pick(s)}) <= n
        BY <2>2, <3>2, Smaller
      <4>2. h[s \ {Pick(s)}] = g[s \ {Pick(s)}]
        BY <2>1, <4>1
      <4> QED
        BY <3>2, <4>2 DEF SumStep
    <3> QED
      BY <3>1, <3>2
  <2>3. Good(h, n + 1)
    BY <2>2
  <2> HIDE DEF h, Good
  <2> QED
    BY <2>3
<1>3. Cardinality(Accounts) \in S
  <2>1. Cardinality(Accounts) \in Nat
    BY FS_CardinalityType
  <2>2. Nat \subseteq S
    <3> HIDE DEF S
    <3> QED
      BY <1>1, <1>2, AllNumbers
  <2> QED
    BY <2>1, <2>2
<1>4. PICK g : Good(g, Cardinality(Accounts))
  BY <1>3
<1>5. \A s \in SUBSET Accounts : Cardinality(s) <= Cardinality(Accounts)
  BY FS_Subset
<1> DEFINE h == [s \in SUBSET Accounts |-> g[s]]
<1>6. ASSUME NEW s \in SUBSET Accounts PROVE h[s] = SumStep(h, entries, s)
  <2>1. g[s] = SumStep(g, entries, s)
    BY <1>4, <1>5
  <2>2. s # {} => s \ {Pick(s)} \in SUBSET Accounts
    OBVIOUS
  <2> QED
    BY <2>1, <2>2 DEF SumStep
<1>7. h = [s \in SUBSET Accounts |-> SumStep(h, entries, s)]
  BY <1>6
<1>8. \E f : f = [s \in SUBSET Accounts |-> SumStep(f, entries, s)]
  <2> HIDE DEF h
  <2> QED
    BY <1>7, Zenon
<1>9. Sums(entries) = [s \in SUBSET Accounts |-> SumStep(Sums(entries), entries, s)]
  BY <1>8 DEF Sums
<1> QED
  BY <1>9

LEMMA SumsSteps ==
  ASSUME NEW entries
  PROVE  /\ Sums(entries)[{}] = 0
         /\ \A s \in SUBSET Accounts : s # {} =>
              Sums(entries)[s] = Amount(entries[Pick(s)]) + Sums(entries)[s \ {Pick(s)}]
  BY SumsExist DEF SumStep

LEMMA SumsType ==
  ASSUME NEW entries \in [Accounts -> Entries], NEW s \in SUBSET Accounts
  PROVE  Sums(entries)[s] \in Int
<1> DEFINE T == {t \in SUBSET Accounts : Sums(entries)[t] \in Int}
<1>1. {} \in T
  BY SumsSteps
<1>2. ASSUME NEW t \in SUBSET Accounts, t # {}, t \ {Pick(t)} \in T PROVE t \in T
  <2>1. Pick(t) \in Accounts
    BY <1>2, PickType
  <2>2. Amount(entries[Pick(t)]) \in Int
    BY <2>1, AmountType DEF Amounts
  <2>3. Sums(entries)[t] = Amount(entries[Pick(t)]) + Sums(entries)[t \ {Pick(t)}]
    BY <1>2, SumsSteps
  <2> QED
    BY <1>2, <2>2, <2>3
<1>3. SUBSET Accounts \subseteq T
  <2> HIDE DEF T
  <2> QED
    BY <1>1, <1>2, AllSubsets
<1> QED
  BY <1>3

\* The sum of nothing is nothing.
LEMMA SumsOfNone ==
  ASSUME NEW entries \in [Accounts -> Entries], \A a \in Accounts : entries[a] = Gone
  PROVE  Sums(entries)[Accounts] = 0
<1> DEFINE T == {t \in SUBSET Accounts : Sums(entries)[t] = 0}
<1>1. {} \in T
  BY SumsSteps
<1>2. ASSUME NEW t \in SUBSET Accounts, t # {}, t \ {Pick(t)} \in T PROVE t \in T
  <2>1. Amount(entries[Pick(t)]) = 0
    BY <1>2, PickType DEF Amount
  <2>2. Sums(entries)[t] = Amount(entries[Pick(t)]) + Sums(entries)[t \ {Pick(t)}]
    BY <1>2, SumsSteps
  <2> QED
    BY <1>2, <2>1, <2>2
<1>3. SUBSET Accounts \subseteq T
  <2> HIDE DEF T
  <2> QED
    BY <1>1, <1>2, AllSubsets
<1> QED
  BY <1>3

\* When one entry changes, the sum changes by as much.
LEMMA SumsChange ==
  ASSUME NEW entries \in [Accounts -> Entries], NEW changed \in [Accounts -> Entries],
         NEW a \in Accounts, \A b \in Accounts \ {a} : changed[b] = entries[b]
  PROVE  Sums(changed)[Accounts]
           = Sums(entries)[Accounts] + (Amount(changed[a]) - Amount(entries[a]))
<1> DEFINE d == Amount(changed[a]) - Amount(entries[a])
           T == {t \in SUBSET Accounts :
                   Sums(changed)[t] = Sums(entries)[t] + (IF a \in t THEN d ELSE 0)}
<1>0. Amount(changed[a]) \in Int /\ Amount(entries[a]) \in Int /\ d \in Int
  BY AmountType DEF Amounts
<1>1. {} \in T
  BY SumsSteps
<1>2. ASSUME NEW t \in SUBSET Accounts, t # {}, t \ {Pick(t)} \in T PROVE t \in T
  <2> DEFINE x == Pick(t)
             r == t \ {x}
  <2>1. x \in t /\ x \in Accounts /\ r \in SUBSET Accounts
    BY <1>2, PickType
  <2>2. /\ Sums(changed)[t] = Amount(changed[x]) + Sums(changed)[r]
        /\ Sums(entries)[t] = Amount(entries[x]) + Sums(entries)[r]
    BY <1>2, SumsSteps
  <2>3. Sums(entries)[r] \in Int /\ Amount(entries[x]) \in Int
    BY <2>1, SumsType, AmountType DEF Amounts
  <2>4. Sums(changed)[r] = Sums(entries)[r] + (IF a \in r THEN d ELSE 0)
    BY <1>2
  <2>5. a \in r <=> a \in t /\ a # x
    OBVIOUS
  <2>6. Amount(changed[x]) = Amount(entries[x]) + (IF a = x THEN d ELSE 0)
    <3>1. CASE a = x
      BY <1>0, <3>1
    <3>2. CASE a # x
      BY <2>1, <2>3, <3>2
    <3> QED
      BY <3>1, <3>2
  <2> HIDE DEF x, r, d
  <2>7. Sums(changed)[t] = Sums(entries)[t] + (IF a \in t THEN d ELSE 0)
    <3>1. CASE a = x
      BY <1>0, <2>1, <2>2, <2>3, <2>4, <2>5, <2>6, <3>1
    <3>2. CASE a # x
      BY <1>0, <2>2, <2>3, <2>4, <2>5, <2>6, <3>2
    <3> QED
      BY <3>1, <3>2
  <2> QED
    BY <2>7
<1>3. SUBSET Accounts \subseteq T
  <2> HIDE DEF T
  <2> QED
    BY <1>1, <1>2, AllSubsets
<1> QED
  BY <1>3

---------------------------------------------------------------------------
(* Metrics, as the snapshot, the sync and the backfill write them.         *)

\* Two sets of accounts that differ in one of them at most.
LEMMA CardinalityChange ==
  ASSUME NEW S \in SUBSET Accounts, NEW T \in SUBSET Accounts, NEW a, S \ {a} = T \ {a}
  PROVE  /\ Cardinality(S) \in Int /\ Cardinality(T) \in Int
         /\ Cardinality(T) = Cardinality(S) + (One(a \in T) - One(a \in S))
<1> DEFINE U == S \ {a}
<1>1. IsFiniteSet(U) /\ U \in SUBSET Accounts
  BY FS_Subset
<1>2. Cardinality(U) \in Nat
  BY <1>1, FS_CardinalityType
<1>3. a \notin U /\ S = (IF a \in S THEN U \cup {a} ELSE U) /\ T = (IF a \in T THEN U \cup {a} ELSE U)
  OBVIOUS
<1> HIDE DEF U
<1>4. Cardinality(U \cup {a}) = Cardinality(U) + 1
  BY <1>1, <1>3, FS_AddElement
<1>5. Cardinality(S) = Cardinality(U) + One(a \in S)
  BY <1>2, <1>3, <1>4 DEF One
<1>6. Cardinality(T) = Cardinality(U) + One(a \in T)
  BY <1>2, <1>3, <1>4 DEF One
<1> QED
  BY <1>2, <1>5, <1>6, OneType

LEMMA TotalOf ==
  ASSUME NEW entries
  PROVE  /\ Total("trustlines", entries) = Cardinality({b \in Accounts : entries[b] # Gone})
         /\ Total("holders", entries) = Cardinality({b \in Accounts \ Pools : Holds(entries[b])})
  BY DEF Total

LEMMA GainOf ==
  ASSUME NEW previous, NEW final, NEW pseudo
  PROVE  /\ Gain("trustlines", previous, final, pseudo) = One(final # Gone) - One(previous # Gone)
         /\ Gain("holders", previous, final, pseudo) =
              IF pseudo THEN 0 ELSE One(Holds(final)) - One(Holds(previous))
         /\ Gain("supply", previous, final, pseudo) = Amount(final) - Amount(previous)
  BY DEF Gain

\* What a delta of an account adds, if it is known what accounts are pools.
Gained(m, previous, final, a) == Gain(m, previous, final, a \in Pools)

LEMMA GainedIsGain ==
  ASSUME NEW m \in Metrics, NEW previous, NEW final, NEW a, NEW pseudo,
         m = "holders" => (pseudo <=> a \in Pools)
  PROVE  Gain(m, previous, final, pseudo) = Gained(m, previous, final, a)
<1>1. CASE m = "trustlines"
  BY <1>1 DEF Gain, Gained
<1>2. CASE m = "holders"
  BY <1>2 DEF Gain, Gained
<1>3. CASE m = "supply"
  BY <1>3 DEF Gain, Gained
<1> QED
  BY <1>1, <1>2, <1>3 DEF Metrics

\* A delta changes each total by its gain.
LEMMA TotalChange ==
  ASSUME NEW entries \in [Accounts -> Entries], NEW changed \in [Accounts -> Entries],
         NEW a \in Accounts, \A b \in Accounts \ {a} : changed[b] = entries[b], NEW m \in Metrics
  PROVE  Total(m, changed) = Total(m, entries) + Gained(m, entries[a], changed[a], a)
<1> SUFFICES ASSUME NEW final, final = changed[a]
             PROVE  Total(m, changed) = Total(m, entries) + Gained(m, entries[a], final, a)
  OBVIOUS
<1> USE DEF Gained
<1>1. changed[a] = final /\ \A b \in Accounts : b # a => changed[b] = entries[b]
  OBVIOUS
<1>2. CASE m = "trustlines"
  <2> DEFINE S == {b \in Accounts : entries[b] # Gone}
             T == {b \in Accounts : changed[b] # Gone}
  <2>1. S \in SUBSET Accounts /\ T \in SUBSET Accounts /\ S \ {a} = T \ {a}
    BY <1>1
  <2>2. (a \in S <=> entries[a] # Gone) /\ (a \in T <=> final # Gone)
    BY <1>1
  <2>3. Total(m, entries) = Cardinality(S) /\ Total(m, changed) = Cardinality(T)
    BY <1>2, TotalOf
  <2> HIDE DEF S, T
  <2>4. Cardinality(T) = Cardinality(S) + (One(a \in T) - One(a \in S))
    BY <2>1, CardinalityChange
  <2>5. One(a \in T) = One(final # Gone) /\ One(a \in S) = One(entries[a] # Gone)
    BY <2>2 DEF One
  <2> QED
    BY <1>2, <2>3, <2>4, <2>5, GainOf
<1>3. CASE m = "holders"
  <2> DEFINE S == {b \in Accounts \ Pools : Holds(entries[b])}
             T == {b \in Accounts \ Pools : Holds(changed[b])}
  <2>1. S \in SUBSET Accounts /\ T \in SUBSET Accounts /\ S \ {a} = T \ {a}
    BY <1>1
  <2>2. (a \in S <=> a \notin Pools /\ Holds(entries[a])) /\ (a \in T <=> a \notin Pools /\ Holds(final))
    BY <1>1
  <2>3. Total(m, entries) = Cardinality(S) /\ Total(m, changed) = Cardinality(T)
    BY <1>3, TotalOf
  <2> HIDE DEF S, T
  <2>4. /\ Cardinality(T) = Cardinality(S) + (One(a \in T) - One(a \in S))
        /\ Cardinality(S) \in Int
    BY <2>1, CardinalityChange
  <2>5. CASE a \in Pools
    <3>1. One(a \in T) = 0 /\ One(a \in S) = 0
      BY <2>2, <2>5 DEF One
    <3>2. Gain(m, entries[a], final, a \in Pools) = 0
      BY <1>3, <2>5, GainOf
    <3> QED
      BY <2>3, <2>4, <3>1, <3>2
  <2>6. CASE a \notin Pools
    <3>1. One(a \in T) = One(Holds(final)) /\ One(a \in S) = One(Holds(entries[a]))
      BY <2>2, <2>6 DEF One
    <3>2. Gain(m, entries[a], final, a \in Pools) = One(Holds(final)) - One(Holds(entries[a]))
      BY <1>3, <2>6, GainOf
    <3> QED
      BY <2>3, <2>4, <3>1, <3>2
  <2> QED
    BY <2>5, <2>6
<1>4. CASE m = "supply"
  <2>1. Total(m, entries) = Sums(entries)[Accounts] /\ Total(m, changed) = Sums(changed)[Accounts]
    BY <1>4, SupplyIsSum
  <2>2. Sums(changed)[Accounts] = Sums(entries)[Accounts] + (Amount(final) - Amount(entries[a]))
    BY <1>1, SumsChange
  <2>3. Gain(m, entries[a], final, a \in Pools) = Amount(final) - Amount(entries[a])
    BY <1>4, GainOf
  <2> QED
    BY <2>1, <2>2, <2>3
<1> QED
  BY <1>2, <1>3, <1>4 DEF Metrics

LEMMA TotalNone ==
  ASSUME NEW entries \in [Accounts -> Entries], \A a \in Accounts : entries[a] = Gone,
         NEW m \in Metrics
  PROVE  Total(m, entries) = 0
<1>1. CASE m = "trustlines"
  <2>1. {b \in Accounts : entries[b] # Gone} = {}
    OBVIOUS
  <2> QED
    BY <1>1, <2>1, TotalOf, FS_EmptySet
<1>2. CASE m = "holders"
  <2>1. {b \in Accounts \ Pools : Holds(entries[b])} = {}
    BY DEF Holds, Amount
  <2> QED
    BY <1>2, <2>1, TotalOf, FS_EmptySet
<1>3. CASE m = "supply"
  BY <1>3, SupplyIsSum, SumsOfNone
<1> QED
  BY <1>1, <1>2, <1>3 DEF Metrics

\* The entries that are counted: the snapshot has yet to come to the others.
Counted == [a \in Accounts |-> IF a \in left THEN Gone ELSE held[a]]

\* All batches of the snapshot are written.
Settled == Copied /\ work.kind # "copy"

\* The ledger at which metrics were written last.
Written == IF Settled THEN newest ELSE 0

\* The sync has written a metric, above the ledger of the snapshot and up to l.
Begun(m, l) == \E s \in DOMAIN metrics[m] : SnapshotAt < s /\ s <= l

Adding == work.kind \in {"copy", "sync"}

\* What the values in memory, or those read at the ledger written last, are.
MetricInv(m) ==
  /\ \A s \in DOMAIN metrics[m] : s <= Written
  /\ ~Adding => ReadPoint(metrics[m], Written) = Total(m, Counted)
  /\ Adding => work.values[m] = Total(m, Counted)
  /\ Adding /\ work.deltas = 0 => ReadPoint(metrics[m], work.at) = work.values[m]
  /\ Settled => \A l \in SnapshotAt .. newest :
                  (undone => Begun(m, l)) => ReadPoint(metrics[m], l) = Total(m, truth[l])
  /\ undone => Begun(m, Written)

\* A batch is counted at 0; and what the backfill has counted is known.
Counting ==
  /\ work.kind = "copy" => work.at = 0
  /\ work.kind = "undo" /\ work.deltas > 0 => undone

MetricsInv ==
  /\ BalancesInv
  /\ Counting
  /\ \A m \in Metrics \ skewed : MetricInv(m)

LEMMA CountedType == ASSUME TypeInv PROVE Counted \in [Accounts -> Entries]
  BY DEF Counted, TypeInv, Entries

LEMMA CountedAll == ASSUME TypeInv, left = {} PROVE Counted = held
  BY DEF Counted, TypeInv

\* What the sync has applied are ledgers.
LEMMA SyncedLedger ==
  ASSUME TypeInv, NEW l \in SnapshotAt .. newest
  PROVE  l \in Ledgers /\ l \in Int /\ SnapshotAt \in Int /\ newest \in Int
<1>1. newest \in Ledgers /\ newest \in Int /\ SnapshotAt \in Nat /\ SnapshotAt # 0
  BY LedgersInt DEF TypeInv
<1>2. 1 .. newest \subseteq Ledgers
  BY <1>1
<1>3. l \in 1 .. newest
  BY <1>1
<1> QED
  BY <1>1, <1>2, <1>3

LEMMA MetricsInit == Init => MetricsInv
<1> SUFFICES ASSUME Init PROVE MetricsInv
  OBVIOUS
<1>1. BalancesInv /\ TypeInv
  BY BalancesInit DEF BalancesInv
<1>2. work.kind = "none" /\ Idle
  BY DEF Init, None, Idle
<1>3. Counting /\ ~Adding /\ ~undone
  BY <1>2 DEF Counting, Adding, Init
<1>4. ASSUME NEW m \in Metrics PROVE MetricInv(m)
  <2>1. metrics[m] = NoPoints /\ DOMAIN metrics[m] = {}
    BY DEF Init, NoPoints
  <2>2. Written \in Int
    BY <1>1, LedgersInt DEF Written, TypeInv
  <2>3. \A l \in Int : ReadPoint(metrics[m], l) = 0
    BY <2>1, EmptySeries
  <2>4. \A a \in Accounts : Counted[a] = Gone
    BY DEF Init, Counted
  <2>5. Total(m, Counted) = 0
    BY <1>1, <2>4, CountedType, TotalNone
  <2>6. ASSUME Settled, NEW l \in SnapshotAt .. newest
        PROVE  ReadPoint(metrics[m], l) = Total(m, truth[l])
    <3>1. truth[l] = Counted
      <4>1. left = {} /\ l \in Ledgers
        BY <1>1, <2>6, SyncedLedger DEF Settled, Copied
      <4>2. truth[l] = held
        BY <4>1 DEF Init
      <4> QED
        BY <1>1, <4>1, <4>2, CountedAll
    <3>2. l \in Int
      OBVIOUS
    <3> QED
      BY <2>3, <2>5, <3>1, <3>2
  <2> QED
    BY <1>3, <2>1, <2>2, <2>3, <2>5, <2>6 DEF MetricInv
<1> QED
  BY <1>1, <1>3, <1>4 DEF MetricsInv

\* A delta that is counted.
LEMMA CountMetrics ==
  ASSUME Grouped, TypeInv, work \in Transactions,
         NEW m \in Metrics, work.values[m] = Total(m, Counted),
         NEW a \in Accounts, NEW previous, previous = Counted[a], NEW final \in Entries,
         m = "holders" => (IsPseudo(a) <=> a \in Pools), Count(a, previous, final),
         NEW changed \in [Accounts -> Entries], changed[a] = final,
         \A b \in Accounts \ {a} : changed[b] = Counted[b]
  PROVE  /\ work' \in Transactions /\ work'.values[m] = Total(m, changed)
         /\ work'.deltas # 0 /\ metrics' = metrics
<1>1. Counted \in [Accounts -> Entries] /\ previous \in Entries
  BY CountedType
<1>2. work' \in Transactions
  BY <1>1, CountType
<1>3. /\ work' = [work EXCEPT !.todo = @ \ {a}, !.deltas = @ + 1,
                     !.values = Changed(@, previous, final, IsPseudo(a))]
      /\ metrics' = metrics
  BY DEF Count
<1>4. /\ work'.values = Changed(work.values, previous, final, IsPseudo(a))
      /\ work'.deltas = work.deltas + 1 /\ work.deltas \in Nat
  BY <1>3 DEF Transactions
<1>5. work'.values[m] = work.values[m] + Gain(m, previous, final, IsPseudo(a))
  BY <1>4 DEF Changed
<1>6. Gain(m, previous, final, IsPseudo(a)) = Gained(m, previous, final, a)
  BY GainedIsGain
<1>7. Total(m, changed) = Total(m, Counted) + Gained(m, previous, final, a)
  <2>1. Total(m, changed) = Total(m, Counted) + Gained(m, Counted[a], changed[a], a)
    BY <1>1, TotalChange
  <2> QED
    BY <2>1
<1> QED
  BY <1>2, <1>3, <1>4, <1>5, <1>6, <1>7

\* A transaction that is closed leaves what was counted to be read from its
\* ledger on, and nothing before it changes.
LEMMA CloseMetrics ==
  ASSUME Grouped, TypeInv, work \in Transactions, Close,
         NEW m \in Metrics, MetricInv(m), NEW l \in Int, l = work.at,
         \A s \in DOMAIN metrics[m] : s <= l,
         l \notin DOMAIN metrics[m] \/ \A s \in DOMAIN metrics[m] : s = l, Adding
  PROVE  /\ \A s \in DOMAIN metrics'[m] : s <= l
         /\ \A s : s # l => (s \in DOMAIN metrics'[m] <=> s \in DOMAIN metrics[m])
         /\ \A k \in Int : ReadPoint(metrics'[m], k)
                             = IF k < l THEN ReadPoint(metrics[m], k) ELSE Total(m, Counted)
<1> DEFINE p == metrics[m]
           v == work.values[m]
<1>1. Series(p) /\ v = Total(m, Counted)
  BY DEF MetricInv, TypeInv, GoodMetrics, GoodSeries
<1>2. CASE work.deltas > 0
  <2>1. metrics'[m] = WriteMetric(p, l, v)
    BY <1>2 DEF Close, WriteMetrics
  <2> HIDE DEF p, v
  <2>2. \A s \in DOMAIN metrics'[m] : s <= l
    BY <1>1, <2>1, WriteMetricSeries DEF p
  <2>3. \A k \in Int : ReadPoint(metrics'[m], k) = IF k < l THEN ReadPoint(p, k) ELSE v
    BY <1>1, <2>1, WriteMetricAtEnd DEF p
  <2>4. \A s : s # l => (s \in DOMAIN metrics'[m] <=> s \in DOMAIN p)
    BY <2>1, WriteMetricElsewhere
  <2> QED
    BY <1>1, <2>2, <2>3, <2>4 DEF p
<1>3. CASE ~(work.deltas > 0)
  <2>1. metrics' = metrics /\ work.deltas = 0
    BY <1>3 DEF Close, Transactions
  <2>2. ReadPoint(p, l) = v
    BY <2>1 DEF MetricInv
  <2> HIDE DEF v
  <2>3. \A k \in Int : l <= k => ReadPoint(p, k) = v
    <3> HIDE DEF p
    <3>1. \A s \in DOMAIN p : s <= l
      BY DEF p
    <3> QED
      BY <1>1, <2>2, <3>1, ReadBeyond
  <2> QED
    BY <1>1, <2>1, <2>3
<1> QED
  BY <1>2, <1>3

\* The series of a metric is one of whole numbers, at ledgers and at 0.
LEMMA MetricSeries ==
  ASSUME TypeInv, NEW m \in Metrics
  PROVE  /\ Series(metrics[m]) /\ DOMAIN metrics[m] \subseteq Ledgers \cup {0}
         /\ DOMAIN metrics[m] \subseteq Int
<1>1. Series(metrics[m]) /\ DOMAIN metrics[m] \subseteq Ledgers \cup {0}
  BY DEF TypeInv, GoodMetrics, GoodSeries, IsSeries
<1>2. Ledgers \cup {0} \subseteq Int
  BY LedgersInt
<1> QED
  BY <1>1, <1>2

LEMMA MetricsOpenBatch ==
  ASSUME MetricsInv, TypeInv', StartBatch
  PROVE  Counting' /\ \A m \in Metrics \ skewed' : MetricInv(m)'
<1> USE DEF database, copying, forward, backward
<1>1. PICK entries \in SUBSET left, roots \in SUBSET (Pools \ known) :
        Open("copy", 0, entries, roots)
  BY DEF StartBatch
<1>2. /\ work' = [kind |-> "copy", at |-> 0, todo |-> entries, roots |-> roots, deltas |-> 0,
                  values |-> ReadMetrics(0)]
      /\ UNCHANGED <<metrics, known, left, held, newest, oldest, truth, skewed, undone>>
  BY <1>1 DEF StartBatch, Open
<1>3. Counting'
  BY <1>1, <1>2 DEF Counting
<1>4. Written = 0 /\ Written' = 0 /\ ~Settled' /\ ~Adding /\ Adding'
  BY <1>2 DEF Written, Settled, StartBatch, Idle, None, Adding
<1>5. Counted' = Counted
  BY <1>2 DEF Counted
<1>6. ASSUME NEW m \in Metrics \ skewed' PROVE MetricInv(m)'
  <2>1. /\ \A s \in DOMAIN metrics[m] : s <= 0
        /\ ReadPoint(metrics[m], 0) = Total(m, Counted)
        /\ undone => Begun(m, 0)
    BY <1>2, <1>4, <1>6 DEF MetricsInv, MetricInv
  <2>2. /\ work'.values[m] = ReadPoint(metrics[m], 0) /\ work'.at = 0
        /\ metrics' = metrics
    BY <1>2 DEF ReadMetrics
  <2>3. Total(m, Counted)' = Total(m, Counted)
    BY <1>5 DEF Total
  <2> QED
    BY <1>2, <1>4, <2>1, <2>2, <2>3 DEF MetricInv, Begun
<1> QED
  BY <1>3, <1>6

LEMMA MetricsCopy ==
  ASSUME Grouped, MetricsInv, TypeInv', NEW a \in Accounts, CopyEntry(a)
  PROVE  Counting' /\ \A m \in Metrics \ skewed' : MetricInv(m)'
<1> USE DEF forward, backward
<1>1. TypeInv /\ work \in Transactions /\ work.kind = "copy"
  BY WorkType DEF CopyEntry, MetricsInv, BalancesInv
<1>2. /\ work'.kind = "copy" /\ work'.todo = work.todo \ {a} /\ work'.at = work.at
      /\ work'.roots = work.roots
      /\ UNCHANGED <<known, held, newest, oldest, truth, undone>> /\ left' = left \ {a}
  BY <1>1, CountWork DEF CopyEntry, Count, Transactions
<1>3. Counting'
  BY <1>1, <1>2 DEF Counting, MetricsInv
<1>4. Written = 0 /\ Written' = 0 /\ ~Settled' /\ Adding /\ Adding'
  BY <1>1, <1>2 DEF Written, Settled, Adding
<1>5. a \in left /\ a \in work.todo
  BY <1>1 DEF CopyEntry, MetricsInv, BalancesInv, Phases
<1>6. skewed \subseteq skewed' /\ ("holders" \notin skewed' => (IsPseudo(a) <=> a \in Pools))
  <2>1. known \subseteq Pools /\ work.roots \subseteq Pools
    BY <1>1 DEF TypeInv, Transactions
  <2> QED
    BY <2>1 DEF IsPseudo, CopyEntry
<1>7. /\ Counted' \in [Accounts -> Entries] /\ Counted'[a] = held[a] /\ Counted[a] = Gone
      /\ \A b \in Accounts \ {a} : Counted'[b] = Counted[b]
      /\ held[a] \in Entries
  <2>1. Counted' \in [Accounts -> Entries]
    BY DEF Counted, TypeInv, Entries
  <2> QED
    BY <1>1, <1>2, <1>5, <2>1 DEF Counted, TypeInv
<1>8. ASSUME NEW m \in Metrics \ skewed' PROVE MetricInv(m)'
  <2>1. (\A s \in DOMAIN metrics[m] : s <= 0) /\ (undone => Begun(m, 0))
    BY <1>4, <1>6, <1>8 DEF MetricsInv, MetricInv
  <2>2. work.values[m] = Total(m, Counted)
    BY <1>4, <1>6, <1>8 DEF MetricsInv, MetricInv
  <2>3. Count(a, Gone, held[a])
    BY DEF CopyEntry
  <2>4. ASSUME NEW changed, changed = Counted'
        PROVE  work'.values[m] = Total(m, changed) /\ work'.deltas # 0 /\ metrics' = metrics
    BY <1>1, <1>6, <1>7, <1>8, <2>2, <2>3, <2>4, CountMetrics
  <2>5. /\ work'.values[m] = Total(m, Counted)' /\ work'.deltas # 0 /\ metrics' = metrics
    <3>1. Total(m, Counted') = Total(m, Counted)'
      BY DEF Total
    <3> QED
      BY <2>4, <3>1
  <2> QED
    BY <1>2, <1>4, <2>1, <2>5 DEF MetricInv, Begun
<1> QED
  BY <1>3, <1>8

LEMMA MetricsEndBatch ==
  ASSUME Grouped, MetricsInv, TypeInv', EndBatch
  PROVE  Counting' /\ \A m \in Metrics \ skewed' : MetricInv(m)'
<1> USE DEF forward, backward
<1>1. TypeInv /\ work \in Transactions /\ work.kind = "copy" /\ work.at = 0
  BY WorkType DEF EndBatch, MetricsInv, BalancesInv, Counting
<1>2. /\ Close /\ work' = None /\ UNCHANGED <<left, held, newest, oldest, truth, skewed, undone>>
      /\ oldest = SnapshotAt /\ newest = SnapshotAt
  BY <1>1 DEF EndBatch, Close, MetricsInv, BalancesInv, Phases
<1>3. Counting'
  BY <1>2 DEF Counting, None
<1>4. Written = 0 /\ Adding /\ ~Adding' /\ Written' \in {0, SnapshotAt}
  BY <1>1, <1>2 DEF Written, Settled, Adding, None
<1>5. Counted' = Counted
  BY <1>2 DEF Counted
<1>6. SnapshotAt \in Int /\ 0 <= SnapshotAt
  <2>1. SnapshotAt \in Ledgers /\ Ledgers \subseteq Nat
    OBVIOUS
  <2>2. SnapshotAt \in Nat
    BY <2>1
  <2> QED
    BY <2>2
<1>7. ASSUME NEW m \in Metrics \ skewed' PROVE MetricInv(m)'
  <2>1. MetricInv(m) /\ \A s \in DOMAIN metrics[m] : s <= 0
    BY <1>2, <1>4, <1>7 DEF MetricsInv, MetricInv
  <2>2. \A s \in DOMAIN metrics[m] : s = 0
    <3>1. DOMAIN metrics[m] \subseteq Ledgers \cup {0}
      BY <1>1, MetricSeries
    <3>2. ASSUME NEW s \in DOMAIN metrics[m] PROVE s = 0
      <4>1. s \in Nat /\ s <= 0
        <5>1. Ledgers \cup {0} \subseteq Nat
          OBVIOUS
        <5> QED
          BY <2>1, <3>1, <5>1
      <4> QED
        BY <4>1
    <3> QED
      BY <3>2
  <2>3. /\ \A s \in DOMAIN metrics'[m] : s <= 0
        /\ \A k \in Int : ReadPoint(metrics'[m], k)
                            = IF k < 0 THEN ReadPoint(metrics[m], k) ELSE Total(m, Counted)
    <3>1. 0 \in Int /\ 0 = work.at
      BY <1>1
    <3> QED
      BY <1>1, <1>2, <1>4, <2>1, <2>2, <3>1, CloseMetrics
  <2>4. Total(m, Counted)' = Total(m, Counted)
    BY <1>5 DEF Total
  <2>n. ~undone
    <3>1. undone => \E s \in DOMAIN metrics[m] : SnapshotAt < s
      BY <2>1 DEF MetricInv, Begun
    <3> QED
      BY <1>6, <2>2, <3>1
  <2>5. \A s \in DOMAIN metrics'[m] : s <= Written'
    <3>1. DOMAIN metrics'[m] \subseteq Int
      BY LedgersInt DEF TypeInv, GoodMetrics, GoodSeries, Series
    <3> QED
      BY <1>4, <1>6, <2>3, <3>1
  <2>6. ReadPoint(metrics'[m], Written') = Total(m, Counted)
    BY <1>4, <1>6, <2>3
  <2>7. ASSUME Settled', NEW l \in SnapshotAt .. newest'
        PROVE  ReadPoint(metrics'[m], l) = Total(m, truth'[l])
    <3>1. l = SnapshotAt
      BY <1>2, <1>6
    <3>2. left = {}
      BY <1>2, <2>7 DEF Settled, Copied
    <3>3. truth'[l] = held
      BY <1>1, <1>2, <3>1 DEF MetricsInv, BalancesInv, Phases
    <3>4. Counted = held
      BY <1>1, <3>2, CountedAll
    <3>5. ReadPoint(metrics'[m], l) = Total(m, Counted)
      BY <1>6, <2>3, <3>1
    <3> QED
      BY <3>3, <3>4, <3>5
  <2> QED
    BY <1>2, <1>4, <2>n, <2>4, <2>5, <2>6, <2>7 DEF MetricInv
<1> QED
  BY <1>3, <1>7

LEMMA MetricsStart ==
  ASSUME MetricsInv, TypeInv', StartLedger
  PROVE  Counting' /\ \A m \in Metrics \ skewed' : MetricInv(m)'
<1> USE DEF database, copying, forward, backward
<1>1. /\ work' = [kind |-> "sync", at |-> newest + 1, todo |-> {}, roots |-> {}, deltas |-> 0,
                  values |-> ReadMetrics(newest + 1)]
      /\ Idle /\ Copied /\ newest \in Int
      /\ UNCHANGED <<metrics, known, left, held, newest, oldest, truth, skewed, undone>>
  BY LedgersInt DEF StartLedger, Open, MetricsInv, BalancesInv, TypeInv
<1>2. Counting'
  BY <1>1 DEF Counting
<1>3. Settled /\ Settled' /\ Written = newest /\ Written' = newest /\ ~Adding /\ Adding'
  BY <1>1 DEF Written, Settled, Idle, None, Copied, Adding
<1>4. Counted' = Counted
  BY <1>1 DEF Counted
<1>5. ASSUME NEW m \in Metrics \ skewed' PROVE MetricInv(m)'
  <2>1. /\ \A s \in DOMAIN metrics[m] : s <= newest
        /\ ReadPoint(metrics[m], newest) = Total(m, Counted)
        /\ \A l \in SnapshotAt .. newest :
             (undone => Begun(m, l)) => ReadPoint(metrics[m], l) = Total(m, truth[l])
        /\ undone => Begun(m, newest)
    BY <1>1, <1>3, <1>5 DEF MetricsInv, MetricInv
  <2>2. ReadPoint(metrics[m], newest + 1) = ReadPoint(metrics[m], newest)
    <3>1. Series(metrics[m])
      BY MetricSeries DEF MetricsInv, BalancesInv
    <3>2. newest + 1 \in Int /\ newest <= newest + 1
      BY <1>1
    <3> QED
      BY <1>1, <2>1, <3>1, <3>2, ReadBeyond
  <2>3. work'.values[m] = ReadPoint(metrics[m], newest + 1) /\ work'.at = newest + 1
    BY <1>1 DEF ReadMetrics
  <2>4. Total(m, Counted)' = Total(m, Counted)
    BY <1>4 DEF Total
  <2> QED
    BY <1>1, <1>3, <1>4, <2>1, <2>2, <2>3, <2>4 DEF MetricInv, Begun
<1> QED
  BY <1>2, <1>5

LEMMA MetricsSync ==
  ASSUME Grouped, MetricsInv, TypeInv', NEW a \in Accounts, SyncDelta(a)
  PROVE  Counting' /\ \A m \in Metrics \ skewed' : MetricInv(m)'
<1> USE DEF copying, backward
<1>1. /\ TypeInv /\ work \in Transactions /\ work.kind = "sync"
      /\ Copied /\ left = {} /\ known = Pools
  BY WorkType DEF SyncDelta, MetricsInv, BalancesInv, Phases, Copied
<1>2. PICK final \in Entries :
        /\ Count(a, held[a], final)
        /\ held' = [held EXCEPT ![a] = final]
  BY DEF SyncDelta
<1>3. work'.kind = "sync" /\ UNCHANGED <<known, left, newest, oldest, truth, skewed, undone>>
  BY <1>1, <1>2, CountWork DEF SyncDelta
<1>4. Counting'
  BY <1>3 DEF Counting
<1>5. Settled /\ Settled' /\ Written = newest /\ Written' = newest /\ Adding /\ Adding'
  BY <1>1, <1>3 DEF Written, Settled, Copied, Adding
<1>6. IsPseudo(a) <=> a \in Pools
  BY <1>1 DEF IsPseudo, Transactions
<1>7. /\ Counted' \in [Accounts -> Entries] /\ Counted'[a] = final /\ Counted[a] = held[a]
      /\ \A b \in Accounts \ {a} : Counted'[b] = Counted[b]
  <2>1. Counted' \in [Accounts -> Entries]
    BY DEF Counted, TypeInv, Entries
  <2> QED
    BY <1>1, <1>2, <1>3, <2>1 DEF Counted, TypeInv
<1>8. ASSUME NEW m \in Metrics \ skewed' PROVE MetricInv(m)'
  <2>1. /\ \A s \in DOMAIN metrics[m] : s <= newest
        /\ work.values[m] = Total(m, Counted)
        /\ \A l \in SnapshotAt .. newest :
             (undone => Begun(m, l)) => ReadPoint(metrics[m], l) = Total(m, truth[l])
        /\ undone => Begun(m, newest)
    BY <1>3, <1>5, <1>8 DEF MetricsInv, MetricInv
  <2>2. ASSUME NEW changed, changed = Counted'
        PROVE  work'.values[m] = Total(m, changed) /\ work'.deltas # 0 /\ metrics' = metrics
    BY <1>1, <1>2, <1>6, <1>7, <2>1, <2>2, CountMetrics
  <2>3. /\ work'.values[m] = Total(m, Counted)' /\ work'.deltas # 0 /\ metrics' = metrics
    <3>1. Total(m, Counted') = Total(m, Counted)'
      BY DEF Total
    <3> QED
      BY <2>2, <3>1
  <2> QED
    BY <1>3, <1>5, <2>1, <2>3 DEF MetricInv, Begun
<1> QED
  BY <1>4, <1>8

LEMMA MetricsEndLedger ==
  ASSUME Grouped, MetricsInv, BalancesInv', EndLedger
  PROVE  Counting' /\ \A m \in Metrics \ skewed' : MetricInv(m)'
<1> USE DEF copying, backward
<1>1. /\ TypeInv /\ work \in Transactions /\ work.kind = "sync" /\ work.at = newest + 1
      /\ Copied /\ left = {} /\ work.at \in Ledgers
  BY WorkType DEF EndLedger, MetricsInv, BalancesInv, Phases, Copied, AtLedger, TypeInv
<1>2. /\ Close /\ work' = None /\ newest' = work.at
      /\ truth' = [truth EXCEPT ![work.at] = held]
      /\ UNCHANGED <<known, left, held, oldest, skewed, undone>>
  BY DEF EndLedger, Close
<1>3. Counting'
  BY <1>2 DEF Counting, None
<1>4. /\ Settled /\ Settled' /\ Written = newest /\ Written' = work.at /\ Adding /\ ~Adding'
      /\ newest \in Int /\ work.at \in Int /\ SnapshotAt \in Int
  BY <1>1, <1>2, LedgersInt DEF Written, Settled, Adding, None, Copied, TypeInv
<1>5. Counted' = Counted /\ Counted = held
  BY <1>1, <1>2, CountedAll DEF Counted
<1>6. ASSUME NEW m \in Metrics \ skewed' PROVE MetricInv(m)'
  <2>1. /\ MetricInv(m) /\ \A s \in DOMAIN metrics[m] : s <= newest
        /\ \A l \in SnapshotAt .. newest :
             (undone => Begun(m, l)) => ReadPoint(metrics[m], l) = Total(m, truth[l])
        /\ undone => Begun(m, newest)
    BY <1>2, <1>4, <1>6 DEF MetricsInv, MetricInv
  <2>2. /\ \A s \in DOMAIN metrics[m] : s <= work.at
        /\ work.at \notin DOMAIN metrics[m]
    <3>1. DOMAIN metrics[m] \subseteq Int
      BY <1>1, MetricSeries
    <3> QED
      BY <1>1, <1>4, <2>1, <3>1
  <2>3. /\ \A s \in DOMAIN metrics'[m] : s <= work.at
        /\ \A s : s # work.at => (s \in DOMAIN metrics'[m] <=> s \in DOMAIN metrics[m])
        /\ \A k \in Int : ReadPoint(metrics'[m], k)
                            = IF k < work.at THEN ReadPoint(metrics[m], k) ELSE Total(m, Counted)
    <3>1. ASSUME NEW l, l = work.at
          PROVE  /\ \A s \in DOMAIN metrics'[m] : s <= l
                 /\ \A s : s # l => (s \in DOMAIN metrics'[m] <=> s \in DOMAIN metrics[m])
                 /\ \A k \in Int : ReadPoint(metrics'[m], k)
                                     = IF k < l THEN ReadPoint(metrics[m], k) ELSE Total(m, Counted)
      BY <1>1, <1>2, <1>4, <2>1, <2>2, <3>1, CloseMetrics
    <3> QED
      BY <3>1
  <2>4. Total(m, Counted)' = Total(m, Counted)
    BY <1>5 DEF Total
  <2>5. ReadPoint(metrics'[m], Written') = Total(m, Counted)
    BY <1>4, <2>3
  <2>6. ASSUME NEW l \in SnapshotAt .. newest', undone' => Begun(m, l)'
        PROVE  ReadPoint(metrics'[m], l) = Total(m, truth'[l])
    <3>1. l \in Int /\ SnapshotAt <= l /\ l <= work.at
      BY <1>2, <1>4
    <3>2. CASE l = work.at
      <4>1. truth'[l] = Counted
        BY <1>1, <1>2, <1>5, <3>2 DEF TypeInv
      <4>2. ReadPoint(metrics'[m], l) = Total(m, Counted)
        BY <1>4, <2>3, <3>2
      <4> QED
        BY <4>1, <4>2
    <3>3. CASE l # work.at
      <4>1. l \in SnapshotAt .. newest /\ l < work.at
        BY <1>1, <1>4, <3>1, <3>3
      <4>2. undone => Begun(m, l)
        <5>1. ASSUME undone PROVE Begun(m, l)
          <6>1. PICK s \in DOMAIN metrics'[m] : SnapshotAt < s /\ s <= l
            BY <1>2, <2>6, <5>1 DEF Begun
          <6>2. s # work.at
            BY <1>4, <4>1, <6>1
          <6>3. s \in DOMAIN metrics[m]
            BY <2>3, <6>2
          <6> QED
            BY <6>1, <6>3 DEF Begun
        <5> QED
          BY <5>1
      <4>3. truth'[l] = truth[l]
        BY <1>1, <1>2, <3>3, <4>1, SyncedLedger DEF TypeInv
      <4>4. ReadPoint(metrics'[m], l) = ReadPoint(metrics[m], l)
        BY <2>3, <3>1, <4>1
      <4> QED
        BY <2>1, <4>1, <4>2, <4>3, <4>4
    <3> QED
      BY <3>2, <3>3
  <2>7. undone' => Begun(m, Written)'
    <3>1. ASSUME undone PROVE Begun(m, Written)'
      <4>1. PICK s \in DOMAIN metrics[m] : SnapshotAt < s /\ s <= newest
        BY <2>1, <3>1 DEF Begun
      <4>2. s \in DOMAIN metrics'[m] /\ s <= Written'
        BY <1>4, <2>2, <2>3, <4>1
      <4> QED
        BY <4>1, <4>2 DEF Begun
    <3> QED
      BY <1>2, <3>1
  <2> QED
    BY <1>4, <2>3, <2>4, <2>5, <2>6, <2>7 DEF MetricInv
<1> QED
  BY <1>3, <1>6

\* A metric to which a side that has vanished added nothing is the same total.
LEMMA MetricsVanish ==
  ASSUME MetricsInv, TypeInv', NEW a \in Accounts, SideVanishes(a)
  PROVE  Counting' /\ \A m \in Metrics \ skewed' : MetricInv(m)'
<1> USE DEF database, copying, backward
<1>1. /\ TypeInv /\ work.kind = "sync" /\ Copied /\ left = {}
      /\ held' = [held EXCEPT ![a] = Gone]
      /\ skewed' = skewed \cup {m \in Metrics : Gain(m, held[a], Gone, a \in Pools) # 0}
      /\ UNCHANGED <<metrics, known, left, work, newest, oldest, truth, undone>>
  BY DEF SideVanishes, MetricsInv, BalancesInv, Phases, Copied
<1>2. Counting'
  BY <1>1 DEF Counting
<1>3. Settled /\ Settled' /\ Written' = Written /\ Adding /\ Adding'
  BY <1>1 DEF Written, Settled, Copied, Adding
<1>4. /\ Counted \in [Accounts -> Entries] /\ Counted' \in [Accounts -> Entries]
      /\ Counted'[a] = Gone /\ Counted[a] = held[a]
      /\ \A b \in Accounts \ {a} : Counted'[b] = Counted[b]
  <2>1. Counted' \in [Accounts -> Entries]
    BY DEF Counted, TypeInv, Entries
  <2> QED
    BY <1>1, <2>1, CountedType DEF Counted, TypeInv
<1>5. ASSUME NEW m \in Metrics \ skewed' PROVE MetricInv(m)'
  <2>1. MetricInv(m) /\ Gained(m, held[a], Gone, a) = 0
    BY <1>1, <1>5 DEF MetricsInv, Gained
  <2>2. ASSUME NEW changed, changed = Counted' PROVE Total(m, changed) = Total(m, Counted) + 0
    <3>1. Total(m, changed) = Total(m, Counted) + Gained(m, Counted[a], changed[a], a)
      BY <1>4, <2>2, TotalChange
    <3> QED
      BY <1>4, <2>1, <2>2, <3>1
  <2>3. Total(m, Counted) \in Int
    <3>1. work \in Transactions
      BY <1>1, WorkType
    <3>2. work.values[m] \in Int
      BY <3>1 DEF Transactions
    <3> QED
      BY <1>3, <2>1, <3>2 DEF MetricInv
  <2>4. Total(m, Counted)' = Total(m, Counted)
    <3>1. Total(m, Counted') = Total(m, Counted)'
      BY DEF Total
    <3> QED
      BY <2>2, <2>3, <3>1
  <2> QED
    BY <1>1, <1>3, <2>1, <2>4 DEF MetricInv, Begun
<1> QED
  BY <1>2, <1>5

\* A ledger that is undone is begun: what is asked of it came before.
LEMMA MetricsStartUndo ==
  ASSUME MetricsInv, TypeInv', StartUndo
  PROVE  Counting' /\ \A m \in Metrics \ skewed' : MetricInv(m)'
<1> USE DEF database, copying, forward
<1>1. /\ TypeInv /\ work.kind = "none" /\ work'.kind = "undo" /\ work'.deltas = 0 /\ Copied
      /\ UNCHANGED <<metrics, known, left, newest, held, skewed, undone>>
  BY DEF StartUndo, Open, Idle, None, MetricsInv, BalancesInv
<1>2. \A l \in SnapshotAt .. newest : truth'[l] = truth[l]
  <2>1. CASE oldest # SnapshotAt
    BY <2>1 DEF StartUndo
  <2>2. CASE oldest = SnapshotAt
    <3>1. truth' = [l \in Ledgers |-> IF l < SnapshotAt THEN past' ELSE truth[l]]
      BY <2>2 DEF StartUndo, SkipSnapshot
    <3>2. ASSUME NEW l \in SnapshotAt .. newest PROVE l \in Ledgers /\ ~(l < SnapshotAt)
      BY <1>1, <3>2, SyncedLedger
    <3> QED
      BY <3>1, <3>2
  <2> QED
    BY <2>1, <2>2
<1>3. Counting'
  BY <1>1 DEF Counting
<1>4. /\ Settled /\ Settled' /\ Written' = Written /\ ~Adding /\ ~Adding'
      /\ Counted' = Counted
  BY <1>1 DEF Written, Settled, Copied, Adding, Counted
<1>5. ASSUME NEW m \in Metrics \ skewed' PROVE MetricInv(m)'
  <2>1. MetricInv(m)
    BY <1>1, <1>5 DEF MetricsInv
  <2>2. Total(m, Counted)' = Total(m, Counted)
    BY <1>4 DEF Total
  <2> QED
    BY <1>1, <1>2, <1>4, <2>1, <2>2 DEF MetricInv, Begun
<1> QED
  BY <1>3, <1>5

\* What is undone is counted in memory.  From now on a metric is right only
\* where the sync had written it.
LEMMA MetricsUndo ==
  ASSUME Grouped, MetricsInv, TypeInv', NEW a \in Accounts, UndoDelta(a)
  PROVE  Counting' /\ \A m \in Metrics \ skewed' : MetricInv(m)'
<1> USE DEF database, copying, forward
<1>1. /\ TypeInv /\ work \in Transactions /\ work.kind = "undo" /\ Copied
      /\ UNCHANGED <<known, left, newest, held, truth>>
  BY WorkType DEF UndoDelta, MetricsInv, BalancesInv, Phases
<1>2. /\ metrics' = metrics /\ work'.kind = "undo"
      /\ \/ Skew
         \/ UNCHANGED <<skewed, undone>> /\ work'.deltas = work.deltas
  BY <1>1 DEF UndoDelta, UndoCreation, UndoAppearance, UndoChange, UndoDeletion, Count, Transactions
<1>3. skewed \subseteq skewed' /\ (undone => undone')
  BY <1>2 DEF Skew
<1>4. Counting'
  <2>1. CASE Skew
    BY <1>2, <2>1 DEF Counting, Skew
  <2>2. CASE UNCHANGED <<skewed, undone>> /\ work'.deltas = work.deltas
    BY <1>1, <1>2, <2>2 DEF Counting, MetricsInv
  <2> QED
    BY <1>2, <2>1, <2>2
<1>5. /\ Settled /\ Settled' /\ Written = newest /\ Written' = newest /\ ~Adding /\ ~Adding'
      /\ Counted' = Counted
  BY <1>1, <1>2 DEF Written, Settled, Copied, Adding, Counted
<1>6. ASSUME NEW m \in Metrics \ skewed' PROVE MetricInv(m)'
  <2>1. MetricInv(m)
    BY <1>3, <1>6 DEF MetricsInv
  <2>2. Total(m, Counted)' = Total(m, Counted)
    BY <1>5 DEF Total
  <2>3. undone' => Begun(m, newest)
    <3>1. CASE Skew
      <4>1. PICK s \in DOMAIN metrics[m] : ~(s <= SnapshotAt)
        BY <1>6, <3>1 DEF Skew
      <4>2. s \in Int /\ SnapshotAt \in Int /\ s <= newest
        BY <1>1, <1>5, <2>1, MetricSeries, LedgersInt DEF MetricInv
      <4> QED
        BY <4>1, <4>2 DEF Begun
    <3>2. CASE undone' = undone
      BY <1>5, <2>1, <3>2 DEF MetricInv
    <3> QED
      BY <1>2, <3>1, <3>2
  <2>4. \A l \in SnapshotAt .. newest :
          (undone' => Begun(m, l)) => ReadPoint(metrics[m], l) = Total(m, truth[l])
    <3>1. ASSUME NEW l \in SnapshotAt .. newest, undone' => Begun(m, l)
          PROVE  ReadPoint(metrics[m], l) = Total(m, truth[l])
      <4>1. undone => Begun(m, l)
        BY <1>3, <3>1
      <4> QED
        BY <1>5, <2>1, <3>1, <4>1 DEF MetricInv
    <3> QED
      BY <3>1
  <2> QED
    BY <1>1, <1>2, <1>5, <2>1, <2>2, <2>3, <2>4 DEF MetricInv, Begun
<1> QED
  BY <1>4, <1>6

\* What was undone is written below the points that are read.
LEMMA MetricsEndUndo ==
  ASSUME MetricsInv, TypeInv', EndUndo
  PROVE  Counting' /\ \A m \in Metrics \ skewed' : MetricInv(m)'
<1> USE DEF copying, forward
<1>1. /\ TypeInv /\ work \in Transactions /\ work.kind = "undo" /\ work.at = oldest - 1
      /\ Copied /\ Close /\ work' = None
      /\ UNCHANGED <<known, left, newest, held, skewed, undone>>
  BY WorkType DEF EndUndo, Close, MetricsInv, BalancesInv, Phases
<1>2. SnapshotAt \in Int /\ newest \in Int /\ work.at \in Int /\ work.at < SnapshotAt
  BY <1>1, EndsType DEF MetricsInv, BalancesInv, Phases
<1>3. \A l \in SnapshotAt .. newest : l \in Int /\ truth'[l] = truth[l]
  <2>1. truth' = [l \in Ledgers |-> IF l < work.at THEN past ELSE truth[l]]
    BY DEF EndUndo
  <2>2. ASSUME NEW l \in SnapshotAt .. newest PROVE l \in Ledgers /\ l \in Int /\ ~(l < work.at)
    BY <1>1, <1>2, <2>2, SyncedLedger
  <2> QED
    BY <2>1, <2>2
<1>4. Counting'
  BY <1>1 DEF Counting, None
<1>5. /\ Settled /\ Settled' /\ Written = newest /\ Written' = newest /\ ~Adding /\ ~Adding'
      /\ Counted' = Counted
  BY <1>1 DEF Written, Settled, Copied, Adding, Counted, None
<1>6. ASSUME NEW m \in Metrics \ skewed' PROVE MetricInv(m)'
  <2>1. MetricInv(m)
    BY <1>1, <1>6 DEF MetricsInv
  <2>2. Total(m, Counted)' = Total(m, Counted)
    BY <1>5 DEF Total
  <2>3. CASE metrics' = metrics
    BY <1>1, <1>3, <1>5, <2>1, <2>2, <2>3 DEF MetricInv, Begun
  <2>4. CASE metrics' # metrics
    <3> DEFINE p == metrics[m]
               q == metrics'[m]
    <3>1. undone /\ q = WriteMetric(p, work.at, work.values[m])
      BY <1>1, <2>4 DEF Close, WriteMetrics, MetricsInv, Counting
    <3>2. Series(p) /\ DOMAIN p \subseteq Int
      BY <1>1, MetricSeries
    <3>3. DOMAIN q \subseteq DOMAIN p \cup {work.at}
      <4> HIDE DEF p, q
      <4> QED
        BY <1>2, <3>1, <3>2, WriteMetricSeries
    <3>4. \A s : s # work.at => (s \in DOMAIN q <=> s \in DOMAIN p)
      <4> HIDE DEF p, q
      <4> QED
        BY <3>1, WriteMetricElsewhere
    <3>5. \A l \in Int : Begun(m, l) => ReadPoint(q, l) = ReadPoint(p, l)
      <4>1. ASSUME NEW l \in Int, NEW s \in DOMAIN p, SnapshotAt < s, s <= l
            PROVE  ReadPoint(q, l) = ReadPoint(p, l)
        <5>1. work.at < s
          BY <1>2, <3>2, <4>1
        <5> HIDE DEF p, q
        <5> QED
          BY <1>2, <3>1, <3>2, <4>1, <5>1, WriteMetricBefore
      <4> QED
        BY <4>1 DEF Begun
    <3>6. \A l : Begun(m, l)' <=> Begun(m, l)
      BY <1>2, <3>2, <3>4 DEF Begun
    <3>7. \A s \in DOMAIN q : s <= newest
      <4>1. work.at <= newest
        BY <1>2, EndsType DEF MetricsInv, BalancesInv, Phases
      <4> QED
        BY <1>5, <2>1, <3>3, <4>1 DEF MetricInv
    <3>8. Begun(m, newest)
      BY <1>5, <2>1, <3>1 DEF MetricInv
    <3>9. ReadPoint(q, newest) = Total(m, Counted)
      BY <1>2, <1>5, <2>1, <3>5, <3>8 DEF MetricInv
    <3>10. ASSUME NEW l \in SnapshotAt .. newest, Begun(m, l)
           PROVE  ReadPoint(q, l) = Total(m, truth'[l])
      BY <1>3, <1>5, <2>1, <3>5, <3>10 DEF MetricInv
    <3> QED
      BY <1>1, <1>5, <2>2, <3>1, <3>6, <3>7, <3>8, <3>9, <3>10 DEF MetricInv
  <2> QED
    BY <2>3, <2>4
<1> QED
  BY <1>4, <1>6

LEMMA MetricsStep ==
  ASSUME Grouped, MetricsInv, [Next]_vars
  PROVE  MetricsInv'
<1> USE DEF database, copying, forward, backward
<1>0. BalancesInv' /\ TypeInv'
  BY BalancesStep DEF MetricsInv, BalancesInv
<1>1. CASE StartBatch
  BY <1>0, <1>1, MetricsOpenBatch DEF MetricsInv
<1>2. ASSUME NEW a \in Accounts, CopyEntry(a) PROVE MetricsInv'
  BY <1>0, <1>2, MetricsCopy DEF MetricsInv
<1>3. CASE EndBatch
  BY <1>0, <1>3, MetricsEndBatch DEF MetricsInv
<1>4. CASE StartLedger
  BY <1>0, <1>4, MetricsStart DEF MetricsInv
<1>5. ASSUME NEW a \in Accounts, SyncDelta(a) PROVE MetricsInv'
  BY <1>0, <1>5, MetricsSync DEF MetricsInv
<1>6. ASSUME NEW a \in Accounts, SideVanishes(a) PROVE MetricsInv'
  BY <1>0, <1>6, MetricsVanish DEF MetricsInv
<1>7. CASE EndLedger
  BY <1>0, <1>7, MetricsEndLedger DEF MetricsInv
<1>8. CASE StartUndo
  BY <1>0, <1>8, MetricsStartUndo DEF MetricsInv
<1>9. ASSUME NEW a \in Accounts, UndoDelta(a) PROVE MetricsInv'
  BY <1>0, <1>9, MetricsUndo DEF MetricsInv
<1>10. CASE EndUndo
  BY <1>0, <1>10, MetricsEndUndo DEF MetricsInv
<1>11. CASE UNCHANGED vars
  <2>1. /\ Counting' /\ Written' = Written /\ Adding' = Adding /\ Settled' = Settled
        /\ Counted' = Counted /\ UNCHANGED <<work, metrics, truth, newest, skewed, undone>>
    BY <1>11 DEF vars, Counting, MetricsInv, Written, Settled, Copied, Adding, Counted
  <2>2. ASSUME NEW m \in Metrics \ skewed' PROVE MetricInv(m)'
    <3>1. MetricInv(m) /\ Total(m, Counted)' = Total(m, Counted)
      BY <2>1, <2>2 DEF MetricsInv, Total
    <3> QED
      BY <2>1, <3>1 DEF MetricInv, Begun
  <2> QED
    BY <1>0, <2>1, <2>2 DEF MetricsInv
<1> QED
  BY <1>1, <1>2, <1>3, <1>4, <1>5, <1>6, <1>7, <1>8, <1>9, <1>10, <1>11
     DEF Next, Snapshot, Sync, Backfill

\* Trust lines, holders and supply of an issued currency, kept by adding up
\* what each delta changes, read for any ledger from the snapshot on as the
\* totals over the network's entries, zero supply and pools included - but for
\* metrics that counted a pool or a side that vanished, and once the backfill
\* has undone a delta, before the first ledger the sync wrote them to.
THEOREM MetricsAreExact ==
  ASSUME Grouped
  PROVE  Spec => []MetricsExact
<1>1. Init => MetricsInv
  BY MetricsInit
<1>2. MetricsInv /\ [Next]_vars => MetricsInv'
  BY MetricsStep
<1>3. MetricsInv => MetricsExact
  <2> SUFFICES ASSUME MetricsInv, Idle, Copied, NEW m \in Metrics \ skewed,
                      NEW l \in SnapshotAt .. newest,
                      undone => \E s \in DOMAIN metrics[m] : SnapshotAt < s /\ s <= l
               PROVE  ReadPoint(metrics[m], l) = Total(m, truth[l])
    BY DEF MetricsExact
  <2>1. Settled
    BY DEF Settled, Idle, None
  <2> QED
    BY <2>1 DEF MetricsInv, MetricInv, Begun
<1> QED
  BY <1>1, <1>2, <1>3, PTL DEF Spec
===========================================================================
