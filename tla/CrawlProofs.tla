---------------------------- MODULE CrawlProofs ----------------------------
(***************************************************************************)
(* The safety properties of the crawlers, for any number of accounts,      *)
(* tokens, workers, requests and crashes, any size of chunks and batches,  *)
(* and whatever lists and answers say.                                     *)
(***************************************************************************)
EXTENDS Crawl, FiniteSetTheorems, SequenceTheorems, WellFoundedInduction, TLAPS

---------------------------------------------------------------------------
(* Induction over the numbers, as a fact about sets.                       *)

LEMMA LessIsWellFounded ==
  IsWellFoundedOn({p \in Nat \X Nat : p[1] < p[2]}, Nat)
<1>1. OpToRel(<, Nat) = {p \in Nat \X Nat : p[1] < p[2]}
  BY DEF OpToRel
<1> QED
  BY <1>1, NatLessThanWellFounded

LEMMA AllNumbers ==
  ASSUME NEW S, 0 \in S, \A n \in Nat : n \in S => n + 1 \in S
  PROVE  Nat \subseteq S
<1> DEFINE T == Nat \ S
           R == {p \in Nat \X Nat : p[1] < p[2]}
<1> SUFFICES ASSUME T # {} PROVE FALSE
  OBVIOUS
<1>1. IsWellFoundedOn(R, Nat)
  BY LessIsWellFounded
<1>2. T \subseteq Nat
  OBVIOUS
<1> HIDE DEF T, R
<1>3. PICK x \in T : \A y \in T : ~(<<y, x>> \in R)
  BY <1>1, <1>2, WFMin
<1> USE DEF T, R
<1>4. x # 0
  OBVIOUS
<1>5. x - 1 \in Nat /\ <<x - 1, x>> \in R
  BY <1>4
<1>6. x - 1 \in S
  BY <1>3, <1>5
<1> QED
  BY <1>5, <1>6

\* The numbers up to a bound.
LEMMA NumbersUpTo ==
  ASSUME NEW n \in Nat, NEW S, 0 \in S, \A i \in 0 .. n - 1 : i \in S => i + 1 \in S
  PROVE  0 .. n \subseteq S
<1> DEFINE T == {i \in Nat : i <= n => i \in S}
<1>1. 0 \in T
  OBVIOUS
<1>2. \A i \in Nat : i \in T => i + 1 \in T
  OBVIOUS
<1>3. Nat \subseteq T
  <2> HIDE DEF T
  <2> QED
    BY <1>1, <1>2, AllNumbers
<1> QED
  BY <1>3

---------------------------------------------------------------------------
(* Extremes of the community modules.                                      *)

LEMMA MinOfTwo ==
  ASSUME NEW a \in Int, NEW b \in Int
  PROVE  Min({a, b}) = IF a <= b THEN a ELSE b
  BY DEF Min

LEMMA MaxOfRange ==
  ASSUME NEW n \in Nat, NEW s \in SUBSET (1 .. n), s # {}
  PROVE  Max(s) \in s /\ \A j \in s : j <= Max(s)
<1> DEFINE S == {k \in Nat : \A r \in SUBSET (1 .. k) :
                               r # {} => \E m \in r : \A j \in r : j <= m}
<1>1. 0 \in S
  <2>1. 1 .. 0 = {}
    OBVIOUS
  <2>2. \A r \in SUBSET (1 .. 0) : r = {}
    BY <2>1
  <2> QED
    BY <2>2
<1>2. ASSUME NEW k \in Nat, k \in S PROVE k + 1 \in S
  <2>1. ASSUME NEW r \in SUBSET (1 .. k + 1), r # {} PROVE \E m \in r : \A j \in r : j <= m
    <3>1. CASE k + 1 \in r
      BY <3>1
    <3>2. CASE k + 1 \notin r
      <4>1. r \in SUBSET (1 .. k)
        BY <3>2
      <4> QED
        BY <1>2, <2>1, <4>1
    <3> QED
      BY <3>1, <3>2
  <2> QED
    BY <2>1
<1>3. Nat \subseteq S
  <2> HIDE DEF S
  <2> QED
    BY <1>1, <1>2, AllNumbers
<1>4. \E m \in s : \A j \in s : m >= j
  BY <1>3
<1> QED
  BY <1>4 DEF Max

---------------------------------------------------------------------------
(* Folds.  The three folds of the model, as one: a function that exists    *)
(* because it can be made for one more element, and what it is on the      *)
(* first elements of a sequence.                                           *)

OneStep(op, arg, so, e) ==
  CASE op = "write" -> ApplyProps(so, e.subject, e.props, arg)
    [] op = "diff"  -> ApplyEntry(so, e, arg)
    [] op = "queue" -> Accumulate(so, arg, e)

FoldStep(op, arg, base, seq, g, s) ==
  IF s = {} THEN base ELSE OneStep(op, arg, g[s \ {Max(s)}], seq[Max(s)])

IsFold(g, op, arg, base, seq, n) ==
  g = [s \in SUBSET (1 .. n) |-> FoldStep(op, arg, base, seq, g, s)]

LEMMA WithoutMax ==
  ASSUME NEW n \in Nat, NEW s \in SUBSET (1 .. n + 1), s # {}
  PROVE  s \ {Max(s)} \in SUBSET (1 .. n)
<1>1. Max(s) \in s /\ \A j \in s : j <= Max(s)
  BY MaxOfRange, n + 1 \in Nat
<1>2. ASSUME NEW j \in s \ {Max(s)} PROVE j \in 1 .. n
  <2>1. j \in 1 .. n + 1 /\ Max(s) \in 1 .. n + 1 /\ j <= Max(s) /\ j # Max(s)
    BY <1>1
  <2> HIDE DEF Max
  <2> QED
    BY <2>1
<1> QED
  BY <1>2

LEMMA FoldExists ==
  ASSUME NEW op, NEW arg, NEW base, NEW seq, NEW n \in Nat
  PROVE  \E g : IsFold(g, op, arg, base, seq, n)
<1> DEFINE Good(g, k) == \A s \in SUBSET (1 .. k) : g[s] = FoldStep(op, arg, base, seq, g, s)
           S == {k \in Nat : \E g : Good(g, k)}
<1>1. 0 \in S
  <2> DEFINE g == [s \in SUBSET (1 .. 0) |-> base]
  <2>1. ASSUME NEW s \in SUBSET (1 .. 0) PROVE s = {}
    OBVIOUS
  <2>2. Good(g, 0)
    BY <2>1 DEF FoldStep
  <2> HIDE DEF g, Good
  <2> QED
    BY <2>2
<1>2. ASSUME NEW k \in Nat, k \in S PROVE k + 1 \in S
  <2>1. PICK g : Good(g, k)
    BY <1>2
  <2> DEFINE h == [s \in SUBSET (1 .. k + 1) |-> FoldStep(op, arg, base, seq, g, s)]
  <2>2. ASSUME NEW s \in SUBSET (1 .. k + 1)
        PROVE  h[s] = FoldStep(op, arg, base, seq, h, s)
    <3>1. CASE s = {}
      BY <3>1 DEF FoldStep
    <3>2. CASE s # {}
      <4>1. s \ {Max(s)} \in SUBSET (1 .. k)
        BY <3>2, WithoutMax
      <4>2. h[s \ {Max(s)}] = g[s \ {Max(s)}]
        BY <2>1, <4>1
      <4> QED
        BY <3>2, <4>2 DEF FoldStep
    <3> QED
      BY <3>1, <3>2
  <2>3. Good(h, k + 1)
    BY <2>2
  <2> HIDE DEF h, Good
  <2> QED
    BY <2>3
<1>3. n \in S
  <2> HIDE DEF S
  <2> QED
    BY <1>1, <1>2, AllNumbers
<1>4. PICK g : Good(g, n)
  BY <1>3
<1> DEFINE h == [s \in SUBSET (1 .. n) |-> g[s]]
<1>5. ASSUME NEW s \in SUBSET (1 .. n) PROVE h[s] = FoldStep(op, arg, base, seq, h, s)
  <2>1. g[s] = FoldStep(op, arg, base, seq, g, s)
    BY <1>4
  <2>2. s \ {Max(s)} \in SUBSET (1 .. n)
    OBVIOUS
  <2> QED
    BY <2>1, <2>2 DEF FoldStep
<1>6. h = [s \in SUBSET (1 .. n) |-> FoldStep(op, arg, base, seq, h, s)]
  BY <1>5
<1>7. IsFold(h, op, arg, base, seq, n)
  BY <1>6 DEF IsFold
<1> HIDE DEF h
<1> QED
  BY <1>7

\* On the first elements.
LEMMA FoldSteps ==
  ASSUME NEW op, NEW arg, NEW base, NEW seq, NEW n \in Nat, NEW g,
         IsFold(g, op, arg, base, seq, n)
  PROVE  /\ g[1 .. 0] = base
         /\ \A i \in 1 .. n : g[1 .. i] = OneStep(op, arg, g[1 .. i - 1], seq[i])
<1> USE DEF IsFold
<1>1. g[1 .. 0] = base
  <2>1. 1 .. 0 = {} /\ {} \in SUBSET (1 .. n)
    OBVIOUS
  <2> QED
    BY <2>1 DEF FoldStep
<1>2. ASSUME NEW i \in 1 .. n PROVE g[1 .. i] = OneStep(op, arg, g[1 .. i - 1], seq[i])
  <2>1. 1 .. i \in SUBSET (1 .. n) /\ 1 .. i # {}
    OBVIOUS
  <2>2. Max(1 .. i) \in 1 .. i /\ \A j \in 1 .. i : j <= Max(1 .. i)
    BY <2>1, MaxOfRange
  <2>3. Max(1 .. i) = i
    BY <2>2
  <2>4. (1 .. i) \ {i} = 1 .. i - 1
    OBVIOUS
  <2>5. g[1 .. i] = FoldStep(op, arg, base, seq, g, 1 .. i)
    BY <2>1
  <2> QED
    BY <2>1, <2>3, <2>4, <2>5 DEF FoldStep
<1> QED
  BY <1>1, <1>2

\* A fold comes about step by step: the values after each element.
IsTrace(h, op, arg, base, seq, n) ==
  h[0] = base /\ \A i \in 1 .. n : h[i] = OneStep(op, arg, h[i - 1], seq[i])

LEMMA FoldTrace ==
  ASSUME NEW op, NEW arg, NEW base, NEW seq, NEW n \in Nat, NEW g,
         IsFold(g, op, arg, base, seq, n)
  PROVE  \E h : IsTrace(h, op, arg, base, seq, n) /\ h[n] = g[1 .. n]
<1> DEFINE h == [i \in 0 .. n |-> g[1 .. i]]
<1>1. IsTrace(h, op, arg, base, seq, n)
  <2>1. h[0] = g[1 .. 0] /\ \A i \in 1 .. n : h[i] = g[1 .. i] /\ h[i - 1] = g[1 .. i - 1]
    OBVIOUS
  <2> HIDE DEF h
  <2>2. /\ g[1 .. 0] = base
        /\ \A i \in 1 .. n : g[1 .. i] = OneStep(op, arg, g[1 .. i - 1], seq[i])
    BY FoldSteps
  <2>3. ASSUME NEW i \in 1 .. n PROVE h[i] = OneStep(op, arg, h[i - 1], seq[i])
    BY <2>1, <2>2, Zenon
  <2> QED
    BY <2>1, <2>2, <2>3, Zenon DEF IsTrace
<1>2. h[n] = g[1 .. n]
  OBVIOUS
<1> HIDE DEF h
<1> QED
  BY <1>1, <1>2

LEMMA WrittenTrace ==
  ASSUME NEW writes, NEW source, NEW n \in Nat, DOMAIN writes = 1 .. n
  PROVE  \E h : IsTrace(h, "write", source, rows, writes, n) /\ h[n] = Written(writes, source)
<1> DEFINE g == CHOOSE g : g = [s \in SUBSET (1 .. n) |->
                    IF s = {} THEN rows
                    ELSE ApplyProps(g[s \ {Max(s)}], writes[Max(s)].subject, writes[Max(s)].props, source)]
<1>1. Written(writes, source) = g[1 .. n]
  BY Zenon DEF Written, FoldLeft, MapThenFoldSet
<1>2. PICK f : IsFold(f, "write", source, rows, writes, n)
  <2> HIDE DEF g
  <2> QED
    BY FoldExists
<1>3. ASSUME NEW f1, NEW s
      PROVE  FoldStep("write", source, rows, writes, f1, s)
               = IF s = {} THEN rows
                 ELSE ApplyProps(f1[s \ {Max(s)}], writes[Max(s)].subject, writes[Max(s)].props, source)
  BY DEF FoldStep, OneStep
<1>4. IsFold(g, "write", source, rows, writes, n)
  <2>1. f = [s \in SUBSET (1 .. n) |->
                    IF s = {} THEN rows
                    ELSE ApplyProps(f[s \ {Max(s)}], writes[Max(s)].subject, writes[Max(s)].props, source)]
    BY <1>2, <1>3 DEF IsFold
  <2>2. g = [s \in SUBSET (1 .. n) |->
                    IF s = {} THEN rows
                    ELSE ApplyProps(g[s \ {Max(s)}], writes[Max(s)].subject, writes[Max(s)].props, source)]
    BY <2>1, Zenon
  <2> HIDE DEF g
  <2> QED
    BY <2>2, <1>3 DEF IsFold
<1> HIDE DEF g
<1>5. \E h : IsTrace(h, "write", source, rows, writes, n) /\ h[n] = g[1 .. n]
  BY <1>4, FoldTrace
<1> QED
  BY <1>1, <1>5

LEMMA DiffedTrace ==
  ASSUME NEW diff, NEW entries, NEW source, NEW n \in Nat, DOMAIN entries = 1 .. n
  PROVE  \E h : IsTrace(h, "diff", source, diff, entries, n) /\ h[n] = Diffed(diff, entries, source)
<1> DEFINE g == CHOOSE g : g = [s \in SUBSET (1 .. n) |->
                    IF s = {} THEN diff
                    ELSE ApplyEntry(g[s \ {Max(s)}], entries[Max(s)], source)]
<1>1. Diffed(diff, entries, source) = g[1 .. n]
  BY Zenon DEF Diffed, FoldLeft, MapThenFoldSet
<1>2. PICK f : IsFold(f, "diff", source, diff, entries, n)
  <2> HIDE DEF g
  <2> QED
    BY FoldExists
<1>3. ASSUME NEW f1, NEW s
      PROVE  FoldStep("diff", source, diff, entries, f1, s)
               = IF s = {} THEN diff ELSE ApplyEntry(f1[s \ {Max(s)}], entries[Max(s)], source)
  BY DEF FoldStep, OneStep
<1>4. IsFold(g, "diff", source, diff, entries, n)
  <2>1. f = [s \in SUBSET (1 .. n) |->
               IF s = {} THEN diff ELSE ApplyEntry(f[s \ {Max(s)}], entries[Max(s)], source)]
    BY <1>2, <1>3 DEF IsFold
  <2>2. g = [s \in SUBSET (1 .. n) |->
               IF s = {} THEN diff ELSE ApplyEntry(g[s \ {Max(s)}], entries[Max(s)], source)]
    BY <2>1, Zenon
  <2> HIDE DEF g
  <2> QED
    BY <2>2, <1>3 DEF IsFold
<1> HIDE DEF g
<1>5. \E h : IsTrace(h, "diff", source, diff, entries, n) /\ h[n] = g[1 .. n]
  BY <1>4, FoldTrace
<1> QED
  BY <1>1, <1>5

\* The rows that name a handle for a token, those of its issuer first.
Naming(token) ==
  SetToSeq({r \in UrlRows(token) : r.subject \in Accounts})
  \o SetToSeq(UrlRows(token) \ {r \in UrlRows(token) : r.subject \in Accounts})

LEMMA AccumulatedTrace ==
  ASSUME NEW token, NEW n \in Nat, DOMAIN Naming(token) = 1 .. n
  PROVE  \E h : IsTrace(h, "queue", token, batches.queue, Naming(token), n) /\ h[n] = Accumulated(token)
<1> DEFINE q == batches.queue
           all == Naming(token)
           g == CHOOSE g : g = [s \in SUBSET (1 .. n) |->
                    IF s = {} THEN q
                    ELSE Accumulate(g[s \ {Max(s)}], token, all[Max(s)])]
<1>1. Accumulated(token) = g[1 .. n]
  BY Zenon DEF Accumulated, FoldLeft, MapThenFoldSet, Naming
<1> HIDE DEF q, all
<1>2. PICK f : IsFold(f, "queue", token, q, all, n)
  <2> HIDE DEF g
  <2> QED
    BY FoldExists
<1>3. ASSUME NEW f1, NEW s
      PROVE  FoldStep("queue", token, q, all, f1, s)
               = IF s = {} THEN q ELSE Accumulate(f1[s \ {Max(s)}], token, all[Max(s)])
  BY DEF FoldStep, OneStep
<1>4. IsFold(g, "queue", token, q, all, n)
  <2>1. f = [s \in SUBSET (1 .. n) |->
               IF s = {} THEN q ELSE Accumulate(f[s \ {Max(s)}], token, all[Max(s)])]
    BY <1>2, <1>3 DEF IsFold
  <2>2. g = [s \in SUBSET (1 .. n) |->
               IF s = {} THEN q ELSE Accumulate(g[s \ {Max(s)}], token, all[Max(s)])]
    BY <2>1, Zenon
  <2> HIDE DEF g
  <2> QED
    BY <2>2, <1>3 DEF IsFold
<1> HIDE DEF g
<1>5. \E h : IsTrace(h, "queue", token, q, all, n) /\ h[n] = g[1 .. n]
  BY <1>4, FoldTrace
<1> QED
  BY <1>1, <1>5 DEF q, all

---------------------------------------------------------------------------
(* Sequences of sequences.                                                 *)

FlatStep(seqs, g, i) == IF i = 1 THEN seqs[i] ELSE g[i - 1] \o seqs[i]

IsFlat(g, seqs, n) == g = [i \in 1 .. n |-> FlatStep(seqs, g, i)]

LEMMA FlatExists ==
  ASSUME NEW seqs, NEW n \in Nat
  PROVE  \E g : IsFlat(g, seqs, n)
<1> DEFINE S == {k \in Nat : \E g : IsFlat(g, seqs, k)}
<1>1. 0 \in S
  <2> DEFINE g == [i \in 1 .. 0 |-> 0]
  <2>1. \A i : i \notin 1 .. 0
    OBVIOUS
  <2>2. g = [i \in 1 .. 0 |-> FlatStep(seqs, g, i)]
    BY <2>1
  <2>3. IsFlat(g, seqs, 0)
    BY <2>2 DEF IsFlat
  <2> HIDE DEF g
  <2> QED
    BY <2>3
<1>2. ASSUME NEW k \in Nat, k \in S PROVE k + 1 \in S
  <2>1. PICK g : IsFlat(g, seqs, k)
    BY <1>2
  <2> DEFINE h == [i \in 1 .. k + 1 |-> FlatStep(seqs, g, i)]
  <2>2. ASSUME NEW i \in 1 .. k + 1 PROVE h[i] = FlatStep(seqs, h, i)
    <3>1. CASE i = 1
      BY <3>1 DEF FlatStep
    <3>2. CASE i # 1
      <4>1. i - 1 \in 1 .. k /\ i - 1 \in 1 .. k + 1
        BY <3>2
      <4>2. g[i - 1] = FlatStep(seqs, g, i - 1)
        BY <2>1, <4>1 DEF IsFlat
      <4> QED
        BY <3>2, <4>1, <4>2 DEF FlatStep
    <3> QED
      BY <3>1, <3>2
  <2>3. h = [i \in 1 .. k + 1 |-> FlatStep(seqs, h, i)]
    BY <2>2
  <2>4. IsFlat(h, seqs, k + 1)
    BY <2>3 DEF IsFlat
  <2> HIDE DEF h
  <2> QED
    BY <2>4
<1>3. Nat \subseteq S
  <2> HIDE DEF S
  <2> QED
    BY <1>1, <1>2, AllNumbers
<1> QED
  BY <1>3

LEMMA FlattenIsFlat ==
  ASSUME NEW seqs, Len(seqs) \in Nat, Len(seqs) # 0
  PROVE  \E g : IsFlat(g, seqs, Len(seqs)) /\ FlattenSeq(seqs) = g[Len(seqs)]
<1> DEFINE g == CHOOSE g : g = [i \in 1 .. Len(seqs) |->
                                  IF i = 1 THEN seqs[i] ELSE g[i - 1] \o seqs[i]]
<1>1. FlattenSeq(seqs) = g[Len(seqs)]
  BY Zenon DEF FlattenSeq
<1>2. PICK f : IsFlat(f, seqs, Len(seqs))
  <2> HIDE DEF g
  <2> QED
    BY FlatExists
<1>3. IsFlat(g, seqs, Len(seqs))
  <2>1. f = [i \in 1 .. Len(seqs) |-> IF i = 1 THEN seqs[i] ELSE f[i - 1] \o seqs[i]]
    BY <1>2, Zenon DEF IsFlat, FlatStep
  <2>2. g = [i \in 1 .. Len(seqs) |-> IF i = 1 THEN seqs[i] ELSE g[i - 1] \o seqs[i]]
    BY <2>1, Zenon
  <2> HIDE DEF g
  <2> QED
    BY <2>2, Zenon DEF IsFlat, FlatStep
<1> HIDE DEF g
<1> QED
  BY <1>1, <1>3

\* What is in the parts is all there is in the whole.
LEMMA FlattenType ==
  ASSUME NEW X, NEW seqs \in Seq(Seq(X))
  PROVE  FlattenSeq(seqs) \in Seq(X)
<1>1. CASE seqs = <<>>
  BY <1>1, EmptySeq DEF FlattenSeq
<1>2. CASE seqs # <<>>
  <2>1. Len(seqs) \in Nat \ {0} /\ \A i \in 1 .. Len(seqs) : seqs[i] \in Seq(X)
    BY <1>2
  <2>2. PICK g : IsFlat(g, seqs, Len(seqs)) /\ FlattenSeq(seqs) = g[Len(seqs)]
    BY <2>1, FlattenIsFlat
  <2> DEFINE S == {i \in Nat : i \in 1 .. Len(seqs) => g[i] \in Seq(X)}
  <2>3. 0 \in S
    OBVIOUS
  <2>4. ASSUME NEW i \in Nat, i \in S PROVE i + 1 \in S
    <3> SUFFICES ASSUME i + 1 \in 1 .. Len(seqs) PROVE g[i + 1] \in Seq(X)
      OBVIOUS
    <3>1. g[i + 1] = FlatStep(seqs, g, i + 1)
      BY <2>2 DEF IsFlat
    <3>2. seqs[i + 1] \in Seq(X)
      BY <2>1
    <3>3. CASE i = 0
      BY <3>1, <3>2, <3>3 DEF FlatStep
    <3>4. CASE i # 0
      <4>1. g[i] \in Seq(X)
        BY <2>4, <3>4
      <4>2. i + 1 # 1 /\ (i + 1) - 1 = i
        BY <3>4
      <4>3. g[i + 1] = g[i] \o seqs[i + 1]
        BY <3>1, <4>2 DEF FlatStep
      <4> QED
        BY <3>2, <4>1, <4>3, ConcatProperties
    <3> QED
      BY <3>3, <3>4
  <2>5. Nat \subseteq S
    <3> HIDE DEF S
    <3> QED
      BY <2>3, <2>4, AllNumbers
  <2> QED
    BY <2>1, <2>2, <2>5
<1> QED
  BY <1>1, <1>2

\* One part, two parts.
LEMMA FlattenFew ==
  ASSUME NEW X, NEW seqs \in Seq(Seq(X))
  PROVE  /\ Len(seqs) = 1 => FlattenSeq(seqs) = seqs[1]
         /\ Len(seqs) = 2 => FlattenSeq(seqs) = seqs[1] \o seqs[2]
<1>1. CASE Len(seqs) = 1
  <2>0. Len(seqs) \in Nat /\ Len(seqs) # 0
    BY <1>1
  <2>1. PICK g : IsFlat(g, seqs, Len(seqs)) /\ FlattenSeq(seqs) = g[Len(seqs)]
    BY <2>0, FlattenIsFlat
  <2>2. g[1] = seqs[1]
    BY <1>1, <2>1 DEF IsFlat, FlatStep
  <2> QED
    BY <1>1, <2>1, <2>2
<1>2. CASE Len(seqs) = 2
  <2>0. Len(seqs) \in Nat /\ Len(seqs) # 0
    BY <1>2
  <2>1. PICK g : IsFlat(g, seqs, Len(seqs)) /\ FlattenSeq(seqs) = g[Len(seqs)]
    BY <2>0, FlattenIsFlat
  <2>2. g[1] = seqs[1] /\ g[2] = g[1] \o seqs[2]
    BY <1>2, <2>1 DEF IsFlat, FlatStep
  <2> QED
    BY <1>2, <2>1, <2>2
<1> QED
  BY <1>1, <1>2

---------------------------------------------------------------------------
(* Rows, and what a write makes of them.                                   *)

\* The strings, and those that the model names: the provers do not know that
\* they are strings.
Names == STRING \cup {"icon", "kyc", "trust_level", "advisories", "x"} \cup Lists \cup Iterators

PropSet == {p \in UNION {[K -> Values] : K \in SUBSET Names} : IsFiniteSet(DOMAIN p)}
EntriesOf(S) == [subject: S, props: PropSet]
RowSet == [subject: Subjects, key: Names, source: Names, value: Nat]

\* The sources that give properties to accounts only.
AccountSources == {"services", "wellknown"}

\* A row at most for each subject, key and source.
Unique(rs) ==
  \A r, q \in rs : r.subject = q.subject /\ r.key = q.key /\ r.source = q.source => r = q

GoodRows(rs) ==
  /\ rs \subseteq RowSet
  /\ IsFiniteSet(rs)
  /\ Unique(rs)
  /\ \A r \in rs : r.source \in AccountSources => r.subject \in Accounts

LEMMA PropsIn ==
  ASSUME NEW p, IsProps(p)
  PROVE  p \in PropSet
<1>1. DOMAIN p \in SUBSET Names /\ p \in [DOMAIN p -> Values] /\ IsFiniteSet(DOMAIN p)
  BY DEF IsProps, Names
<1> QED
  BY <1>1 DEF PropSet

LEMMA PropsOut ==
  ASSUME NEW p \in PropSet
  PROVE  /\ DOMAIN p \subseteq Names /\ IsFiniteSet(DOMAIN p)
         /\ \A key \in DOMAIN p : p[key] \in Values
         /\ \A key \in Given(p) : p[key] \in Nat
         /\ Given(p) \subseteq DOMAIN p
  BY DEF PropSet, Given, Values

LEMMA RowIn ==
  ASSUME NEW subject, NEW key, NEW source, NEW value
  PROVE  /\ Row(subject, key, source, value).subject = subject
         /\ Row(subject, key, source, value).key = key
         /\ Row(subject, key, source, value).source = source
         /\ Row(subject, key, source, value).value = value
         /\ subject \in Subjects /\ key \in Names /\ source \in Names /\ value \in Nat
            => Row(subject, key, source, value) \in RowSet
  BY DEF Row, RowSet

LEMMA RowOut ==
  ASSUME NEW r \in RowSet
  PROVE  /\ r = Row(r.subject, r.key, r.source, r.value)
         /\ r.subject \in Subjects /\ r.key \in Names /\ r.source \in Names /\ r.value \in Nat
  BY DEF Row, RowSet

LEMMA ApplyGood ==
  ASSUME NEW rs, GoodRows(rs), NEW subject \in Subjects, NEW p \in PropSet, NEW source \in Names,
         source \in AccountSources => subject \in Accounts
  PROVE  GoodRows(ApplyProps(rs, subject, p, source))
<1> DEFINE old == {r \in rs : ~(r.subject = subject /\ r.source = source /\ r.key \in DOMAIN p)}
           new == {Row(subject, key, source, p[key]) : key \in Given(p)}
<1>1. ApplyProps(rs, subject, p, source) = old \cup new
  BY DEF ApplyProps
<1>2. \A r \in new : /\ r \in RowSet
                     /\ r.subject = subject /\ r.source = source /\ r.key \in DOMAIN p
                     /\ r = Row(subject, r.key, source, p[r.key])
  BY PropsOut, RowIn
<1>3. old \cup new \subseteq RowSet
  BY <1>2 DEF GoodRows
<1>4. IsFiniteSet(old \cup new)
  <2>1. IsFiniteSet(old)
    BY FS_Subset DEF GoodRows
  <2>2. IsFiniteSet(Given(p))
    BY PropsOut, FS_Subset
  <2>3. IsFiniteSet(new)
    <3> DEFINE f == [key \in Given(p) |-> Row(subject, key, source, p[key])]
    <3>1. f \in Surjection(Given(p), new)
      BY DEF Surjection
    <3> HIDE DEF f, new
    <3> QED
      BY <2>2, <3>1, FS_Surjection
  <2> QED
    BY <2>1, <2>3, FS_Union
<1>5. Unique(old \cup new)
  <2> HIDE DEF new
  <2> QED
    BY <1>2 DEF GoodRows, Unique
<1>6. \A r \in old \cup new : r.source \in AccountSources => r.subject \in Accounts
  <2> HIDE DEF new
  <2> QED
    BY <1>2 DEF GoodRows
<1> QED
  BY <1>1, <1>3, <1>4, <1>5, <1>6 DEF GoodRows

OfSource(rs, source) == {r \in rs : r.source = source}

\* A write leaves the rows of other sources, and marks what it changes.
LEMMA ApplyChanges ==
  ASSUME NEW rs, NEW subject, NEW p, NEW source,
         NEW after, after = ApplyProps(rs, subject, p, source)
  PROVE  /\ \A r : r.source # source => (r \in after <=> r \in rs)
         /\ \A r : r.subject # subject => (r \in after <=> r \in rs)
         /\ Changed(rs, after) \subseteq {subject}
         /\ DOMAIN p = {} => after = rs
         /\ IconChanged(rs, after) \subseteq {subject}
         /\ "icon" \notin DOMAIN p => IconChanged(rs, after) = {}
<1> DEFINE new == {Row(subject, key, source, p[key]) : key \in Given(p)}
<1>1. \A r \in new : r.subject = subject /\ r.source = source /\ r.key \in DOMAIN p
  BY RowIn DEF Given
<1>2. after = {r \in rs : ~(r.subject = subject /\ r.source = source /\ r.key \in DOMAIN p)} \cup new
  BY DEF ApplyProps
<1> HIDE DEF new
<1>3. \A r : r \in (rs \ after) \cup (after \ rs)
              => r.subject = subject /\ r.source = source /\ r.key \in DOMAIN p
  BY <1>1, <1>2
<1>4. /\ Changed(rs, after) \subseteq {subject}
      /\ IconChanged(rs, after) \subseteq {subject}
      /\ "icon" \notin DOMAIN p => IconChanged(rs, after) = {}
  BY <1>3 DEF Changed, IconChanged
<1>5. DOMAIN p = {} => after = rs
  BY <1>3
<1> QED
  BY <1>3, <1>4, <1>5

\* What two steps change, one of them does.
LEMMA ChangesAdd ==
  ASSUME NEW a, NEW b, NEW c
  PROVE  /\ Changed(a, c) \subseteq Changed(a, b) \cup Changed(b, c)
         /\ IconChanged(a, c) \subseteq IconChanged(a, b) \cup IconChanged(b, c)
  BY DEF Changed, IconChanged

\* The marks that a sequence of writes leaves.
MarksOfAll(writes) == UNION {MarksOf(writes[i]) : i \in DOMAIN writes}

LEMMA MarksOfOne ==
  ASSUME NEW rs, NEW write, NEW source,
         NEW after, after = ApplyProps(rs, write.subject, write.props, source)
  PROVE  Differences(rs, after) \subseteq MarksOf(write)
<1> DEFINE subject == write.subject
           p == write.props
<1>0. after = ApplyProps(rs, subject, p, source)
  OBVIOUS
<1> HIDE DEF subject, p
<1>1. Changed(rs, after) \subseteq {subject} /\ IconChanged(rs, after) \subseteq {subject}
  BY <1>0, ApplyChanges
<1>2. DOMAIN p = {} => after = rs
  BY <1>0, ApplyChanges
<1>3. "icon" \notin DOMAIN p => IconChanged(rs, after) = {}
  BY <1>0, ApplyChanges
<1> USE DEF subject, p
<1>4. CASE DOMAIN write.props = {}
  <2>1. Changed(rs, after) = {} /\ IconChanged(rs, after) = {}
    BY <1>2, <1>4 DEF Changed, IconChanged
  <2> QED
    BY <2>1 DEF Differences, Marks
<1>5. CASE DOMAIN write.props # {}
  BY <1>1, <1>3, <1>5 DEF Differences, Marks, MarksOf
<1> QED
  BY <1>4, <1>5

LEMMA DifferencesAdd ==
  ASSUME NEW a, NEW b, NEW c
  PROVE  Differences(a, c) \subseteq Differences(a, b) \cup Differences(b, c)
  BY ChangesAdd DEF Differences, Marks

LEMMA NoDifferences ==
  ASSUME NEW a
  PROVE  Changed(a, a) = {} /\ IconChanged(a, a) = {} /\ Differences(a, a) = {}
  BY DEF Differences, Marks, Changed, IconChanged

\* Writes leave the rows of other sources, mark what they change, and leave
\* rows as they must be.
LEMMA WrittenFacts ==
  ASSUME NEW writes, NEW n \in Nat, DOMAIN writes = 1 .. n, NEW source
  PROVE  /\ \A r : r.source # source => (r \in Written(writes, source) <=> r \in rows)
         /\ Differences(rows, Written(writes, source)) \subseteq MarksOfAll(writes)
         /\ \A subject : (\A i \in 1 .. n : writes[i].subject # subject) =>
              \A r : r.subject = subject => (r \in Written(writes, source) <=> r \in rows)
         /\ n = 0 => Written(writes, source) = rows
<1>1. PICK h : IsTrace(h, "write", source, rows, writes, n) /\ h[n] = Written(writes, source)
  BY WrittenTrace
<1> DEFINE P(after) ==
             /\ \A r : r.source # source => (r \in after <=> r \in rows)
             /\ Differences(rows, after) \subseteq MarksOfAll(writes)
             /\ \A subject : (\A j \in 1 .. n : writes[j].subject # subject) =>
                  \A r : r.subject = subject => (r \in after <=> r \in rows)
           S == {i \in 0 .. n : P(h[i])}
<1>2. h[0] = rows /\ \A i \in 1 .. n :
        h[i] = ApplyProps(h[i - 1], writes[i].subject, writes[i].props, source)
  BY <1>1 DEF IsTrace, OneStep
<1>3. 0 \in S
  BY <1>2, NoDifferences
<1>4. ASSUME NEW i \in 0 .. n - 1, i \in S PROVE i + 1 \in S
  <2>1. i + 1 \in 1 .. n /\ (i + 1) - 1 = i
    OBVIOUS
  <2> DEFINE w == writes[i + 1]
             before == h[i]
             after == h[i + 1]
  <2>2. after = ApplyProps(before, w.subject, w.props, source)
    BY <1>2, <2>1
  <2>3. P(before)
    BY <1>4
  <2>4. \A subject : (\A j \in 1 .. n : writes[j].subject # subject) => subject # w.subject
    BY <2>1
  <2>5. MarksOf(w) \subseteq MarksOfAll(writes)
    BY <2>1 DEF MarksOfAll
  <2> HIDE DEF w, before, after
  <2>6. /\ \A r : r.source # source => (r \in after <=> r \in before)
        /\ \A r : r.subject # w.subject => (r \in after <=> r \in before)
    BY <2>2, ApplyChanges
  <2>7. Differences(before, after) \subseteq MarksOf(w)
    BY <2>2, MarksOfOne, Zenon
  <2>9. Differences(rows, after) \subseteq Differences(rows, before) \cup Differences(before, after)
    BY DifferencesAdd, Zenon
  <2>8. P(after)
    BY <2>3, <2>4, <2>5, <2>6, <2>7, <2>9
  <2> HIDE DEF P
  <2>10. i + 1 \in 0 .. n /\ P(h[i + 1])
    BY <2>1, <2>8 DEF after
  <2> QED
    BY <2>10, Zenon
<1>5. 0 .. n \subseteq S
  <2> HIDE DEF S
  <2> QED
    BY <1>3, <1>4, NumbersUpTo
<1>6. P(h[n])
  BY <1>5
<1> QED
  BY <1>1, <1>2, <1>6

LEMMA WrittenGood ==
  ASSUME GoodRows(rows), NEW writes \in Seq(EntriesOf(Subjects)), NEW source \in Names,
         source \notin AccountSources
  PROVE  GoodRows(Written(writes, source))
<1> DEFINE n == Len(writes)
<1>0. n \in Nat /\ DOMAIN writes = 1 .. n /\ \A i \in 1 .. n : writes[i] \in EntriesOf(Subjects)
  OBVIOUS
<1> HIDE DEF n
<1>1. PICK h : IsTrace(h, "write", source, rows, writes, n) /\ h[n] = Written(writes, source)
  BY <1>0, WrittenTrace
<1> DEFINE S == {i \in 0 .. n : GoodRows(h[i])}
<1>2. h[0] = rows /\ \A i \in 1 .. n :
        h[i] = ApplyProps(h[i - 1], writes[i].subject, writes[i].props, source)
  BY <1>1 DEF IsTrace, OneStep
<1>3. 0 \in S
  BY <1>0, <1>2
<1>4. ASSUME NEW i \in 0 .. n - 1, i \in S PROVE i + 1 \in S
  <2>1. i + 1 \in 1 .. n /\ (i + 1) - 1 = i
    BY <1>0
  <2>2. h[i + 1] = ApplyProps(h[i], writes[i + 1].subject, writes[i + 1].props, source)
    BY <1>2, <2>1
  <2>3. writes[i + 1].subject \in Subjects /\ writes[i + 1].props \in PropSet
    BY <1>0, <2>1 DEF EntriesOf
  <2>4. GoodRows(h[i + 1])
    BY <1>4, <2>2, <2>3, ApplyGood
  <2> QED
    BY <1>0, <2>1, <2>4
<1>5. 0 .. n \subseteq S
  <2> HIDE DEF S
  <2> QED
    BY <1>0, <1>3, <1>4, NumbersUpTo
<1> QED
  BY <1>0, <1>1, <1>5

\* A part of a sequence of writes.
LEMMA SomeWrites ==
  ASSUME NEW X, NEW writes \in Seq(X), NEW k \in DOMAIN writes
  PROVE  /\ SubSeq(writes, 1, k) \in Seq(X)
         /\ DOMAIN SubSeq(writes, 1, k) = 1 .. k
         /\ \A i \in 1 .. k : SubSeq(writes, 1, k)[i] = writes[i]
  OBVIOUS

---------------------------------------------------------------------------
(* The entries of a chunk.                                                 *)

\* A diff marks what it changes, and leaves the rows of other sources.
LEMMA DiffedFacts ==
  ASSUME NEW d, NEW entries, NEW n \in Nat, DOMAIN entries = 1 .. n, NEW source
  PROVE  LET after == Diffed(d, entries, source) IN
         /\ \A r : r.source # source => (r \in after.rows <=> r \in d.rows)
         /\ Changed(d.rows, after.rows) \subseteq after.dirty
         /\ IconChanged(d.rows, after.rows) \subseteq after.icons
         /\ d.dirty \subseteq after.dirty /\ d.icons \subseteq after.icons
<1>1. PICK h : IsTrace(h, "diff", source, d, entries, n) /\ h[n] = Diffed(d, entries, source)
  BY DiffedTrace
<1> DEFINE P(after) ==
             /\ \A r : r.source # source => (r \in after.rows <=> r \in d.rows)
             /\ Changed(d.rows, after.rows) \subseteq after.dirty
             /\ IconChanged(d.rows, after.rows) \subseteq after.icons
             /\ d.dirty \subseteq after.dirty /\ d.icons \subseteq after.icons
           S == {i \in 0 .. n : P(h[i])}
<1>2. h[0] = d /\ \A i \in 1 .. n : h[i] = ApplyEntry(h[i - 1], entries[i], source)
  BY <1>1 DEF IsTrace, OneStep
<1>3. 0 \in S
  BY <1>2, NoDifferences
<1>4. ASSUME NEW i \in 0 .. n - 1, i \in S PROVE i + 1 \in S
  <2>1. i + 1 \in 1 .. n /\ (i + 1) - 1 = i
    OBVIOUS
  <2> DEFINE e == entries[i + 1]
             before == h[i]
             after == h[i + 1]
             new == ApplyProps(before.rows, e.subject, e.props, source)
  <2>2. after = ApplyEntry(before, e, source)
    BY <1>2, <2>1
  <2>3. /\ after.rows = new
        /\ after.dirty = before.dirty \cup Changed(before.rows, new)
        /\ after.icons = before.icons \cup IconChanged(before.rows, new)
    BY <2>2 DEF ApplyEntry
  <2>4. \A r : r.source # source => (r \in new <=> r \in before.rows)
    BY ApplyChanges
  <2>5. P(before)
    BY <1>4
  <2> HIDE DEF new, before, after
  <2>6. P(after)
    BY <2>3, <2>4, <2>5, ChangesAdd
  <2> QED
    BY <2>1, <2>6 DEF after
<1>5. 0 .. n \subseteq S
  <2> HIDE DEF S
  <2> QED
    BY <1>3, <1>4, NumbersUpTo
<1>6. P(h[n])
  BY <1>5
<1> HIDE DEF P
<1>7. P(Diffed(d, entries, source))
  BY <1>1, <1>6
<1> QED
  BY <1>7 DEF P

---------------------------------------------------------------------------
(* The invariants.                                                         *)

AccountDiff == [of: {Accounts}, entries: Seq(EntriesOf(Accounts))]
TokenDiff == [of: {Tokens}, entries: Seq(EntriesOf(Tokens))]

\* What a list says: of accounts, and then of tokens if its source has any.
IsTold(t, said) ==
  /\ said \in Seq(AccountDiff \cup TokenDiff)
  /\ Len(said) = IF t \in AccountSources THEN 1 ELSE 2
  /\ said[1] \in AccountDiff
  /\ Len(said) = 2 => said[2] \in TokenDiff

\* Where a list is: in its diff At, of which it has the entries up to Heard
\* in the rows.
At(l) == 1 + Len(l.said) - Len(l.diffs)
Heard(l) == Len(l.said[At(l)].entries) - Len(l.diffs[1].entries)

ListType(t, l) ==
  /\ l.kept \subseteq Subjects \X Names
  /\ l.dirty \subseteq Subjects /\ l.icons \subseteq Subjects
  /\ l = [diffs |-> l.diffs, kept |-> l.kept, dirty |-> l.dirty, icons |-> l.icons, said |-> l.said]
  /\ l # Idle =>
       /\ IsTold(t, l.said)
       /\ l.diffs \in Seq(AccountDiff \cup TokenDiff)
       /\ Len(l.diffs) \in 1 .. Len(l.said)
       /\ \A j \in 2 .. Len(l.diffs) : l.diffs[j] = l.said[At(l) + j - 1]
       /\ l.diffs[1].of = l.said[At(l)].of
       /\ Heard(l) \in 0 .. Len(l.said[At(l)].entries)
       /\ l.diffs[1].entries = SubSeq(l.said[At(l)].entries, Heard(l) + 1, Len(l.said[At(l)].entries))

Task == [handle: Nat, items: SUBSET Tokens, subjects: SUBSET Subjects]

RowsType ==
  /\ GoodRows(rows)
  /\ domains \subseteq Accounts
  /\ todos \cup behind \cup lost \subseteq Marked

OpsType == ops \subseteq (Lists \X {Global}) \cup (Iterators \X Accounts) \cup ({"x"} \X Tokens)

ListsType ==
  /\ DOMAIN lists = Lists /\ lists = [t \in Lists |-> lists[t]]
  /\ \A t \in Lists : ListType(t, lists[t])

QueuesType ==
  /\ ids \in [Iterators -> Seq(Accounts)]
  /\ DOMAIN jobs = Iterators /\ jobs = [t \in Iterators |-> jobs[t]]
  /\ \A t \in Iterators : jobs[t] \in [Workers(t) -> Accounts \cup {Nobody}]

BatchesType ==
  /\ batches \in [ids: Seq(Tokens), queue: Seq(Task), commit: Seq(Task), open: BOOLEAN]
  /\ Len(batches.commit) <= BatchSize
  /\ retry \subseteq Tokens

BoundsType == fetches \in 0 .. MaxFetches /\ changes \in 0 .. MaxChanges /\ crashes \in 0 .. MaxCrashes

Types == RowsType /\ OpsType /\ ListsType /\ QueuesType /\ BatchesType /\ BoundsType

\* Who has passed kyc is not asked about.
NoneAsked == \A w \in Workers("kyc") : jobs["kyc"][w] \in Accounts => ~Approved(jobs["kyc"][w])

---------------------------------------------------------------------------
(* A finite set as a sequence, its elements once each.                     *)

LEMMA InOrder ==
  ASSUME NEW S, IsFiniteSet(S)
  PROVE  /\ SetToSeq(S) \in [1 .. Cardinality(S) -> S]
         /\ IsInjective(SetToSeq(S))
         /\ SetToSeq(S) \in Seq(S)
         /\ Reverse(SetToSeq(S)) \in Seq(S)
         /\ IsInjective(Reverse(SetToSeq(S)))
<1> DEFINE n == Cardinality(S)
           s == SetToSeq(S)
<1>1. n \in Nat /\ ExistsBijection(1 .. n, S)
  BY FS_CardinalityType
<1>2. \E f \in [1 .. n -> S] : IsInjective(f)
  BY <1>1 DEF ExistsBijection, Bijection, Injection, IsInjective
<1>3. s \in [1 .. n -> S] /\ IsInjective(s)
  BY <1>2, Zenon DEF SetToSeq
<1> HIDE DEF n, s
<1>4. s \in Seq(S) /\ Len(s) = n
  BY <1>1, <1>3
<1> DEFINE r == [i \in 1 .. n |-> s[(n - i) + 1]]
<1>5. Reverse(s) = r
  BY <1>4, Zenon DEF Reverse
<1>6. r \in [1 .. n -> S]
  BY <1>1, <1>3
<1>7. r \in Seq(S)
  <2> HIDE DEF r
  <2> QED
    BY <1>1, <1>6
<1>8. ASSUME NEW i \in 1 .. n, NEW j \in 1 .. n, r[i] = r[j] PROVE i = j
  <2>1. (n - i) + 1 \in 1 .. n /\ (n - j) + 1 \in 1 .. n
    BY <1>1
  <2>2. (n - i) + 1 = (n - j) + 1
    BY <1>3, <1>8, <2>1 DEF IsInjective
  <2> QED
    BY <1>1, <2>2
<1>9. IsInjective(r)
  BY <1>8 DEF IsInjective
<1> QED
  BY <1>3, <1>4, <1>5, <1>7, <1>9 DEF n, s

---------------------------------------------------------------------------
(* What lists and answers say.                                             *)

LEMMA EntryIn ==
  ASSUME NEW S, NEW subject, NEW props
  PROVE  /\ Entry(subject, props).subject = subject /\ Entry(subject, props).props = props
         /\ subject \in S /\ props \in PropSet => Entry(subject, props) \in EntriesOf(S)
  BY DEF Entry, EntriesOf

LEMMA EntryGood ==
  ASSUME NEW S, NEW e, IsEntry(e, S)
  PROVE  e \in EntriesOf(S)
<1>1. e = Entry(e.subject, e.props) /\ e.subject \in S /\ IsProps(e.props)
  BY DEF IsEntry
<1>2. e.props \in PropSet
  BY <1>1, PropsIn
<1> QED
  BY <1>1, <1>2, EntryIn

\* Properties with one key, or two.
LEMMA OneProp ==
  ASSUME NEW key \in Names, NEW value \in Values
  PROVE  [k \in {key} |-> value] \in PropSet
<1>1. IsFiniteSet({key})
  BY FS_Singleton
<1>2. [k \in {key} |-> value] \in [{key} -> Values] /\ {key} \in SUBSET Names
  OBVIOUS
<1> QED
  BY <1>1, <1>2 DEF PropSet

LEMMA NamedProps ==
  ASSUME NEW v \in Values, NEW w \in Values
  PROVE  /\ [icon |-> v] \in PropSet /\ [kyc |-> v] \in PropSet /\ [advisories |-> v] \in PropSet
         /\ [icon |-> v, trust_level |-> w] \in PropSet
<1>1. [icon |-> v] \in PropSet /\ [kyc |-> v] \in PropSet /\ [advisories |-> v] \in PropSet
  <2>1. /\ [icon |-> v] = [k \in {"icon"} |-> v]
        /\ [kyc |-> v] = [k \in {"kyc"} |-> v]
        /\ [advisories |-> v] = [k \in {"advisories"} |-> v]
    OBVIOUS
  <2>2. "icon" \in Names /\ "kyc" \in Names /\ "advisories" \in Names
    BY DEF Names
  <2>3. /\ [k \in {"icon"} |-> v] \in PropSet
        /\ [k \in {"kyc"} |-> v] \in PropSet
        /\ [k \in {"advisories"} |-> v] \in PropSet
    BY <2>2, OneProp
  <2> QED
    BY <2>1, <2>3, Zenon
<1>2. [icon |-> v, trust_level |-> w] \in PropSet
  <2> DEFINE p == [icon |-> v, trust_level |-> w]
  <2>0. p = [k \in {"icon"} \cup {"trust_level"} |-> IF k = "icon" THEN v ELSE w]
    OBVIOUS
  <2>1. DOMAIN p = {"icon"} \cup {"trust_level"} /\ p \in [DOMAIN p -> Values] /\ DOMAIN p \in SUBSET Names
    <3>1. "icon" \in Names /\ "trust_level" \in Names
      BY DEF Names
    <3> HIDE DEF p
    <3> QED
      BY <2>0, <3>1
  <2>2. IsFiniteSet({"icon"} \cup {"trust_level"})
    BY FS_Singleton, FS_Union
  <2> HIDE DEF p
  <2>3. p \in PropSet
    BY <2>1, <2>2 DEF PropSet
  <2> QED
    BY <2>3 DEF p
<1> QED
  BY <1>1, <1>2

LEMMA ListIn ==
  ASSUME NEW list, IsList(list), NEW X, \A entry \in Range(list) : entry \in X
  PROVE  list \in Seq(X)
<1>1. list \in Seq(Range(list))
  BY DEF IsList
<1>2. Range(list) \subseteq X
  OBVIOUS
<1> HIDE DEF Range
<1> QED
  BY <1>1, <1>2

LEMMA AreIn ==
  ASSUME NEW list, NEW S, AreEntries(list, S)
  PROVE  /\ list \in Seq(EntriesOf(S))
         /\ \A i \in DOMAIN list : "trust_level" \in DOMAIN list[i].props => list[i].props["trust_level"] \in Nat
<1>1. IsList(list) /\ \A e \in Range(list) : /\ IsEntry(e, S)
                                             /\ "trust_level" \in DOMAIN e.props => e.props["trust_level"] \in Nat
  BY DEF AreEntries
<1>2. \A e \in Range(list) : e \in EntriesOf(S)
  BY <1>1, EntryGood
<1>3. list \in Seq(EntriesOf(S))
  BY <1>1, <1>2, ListIn
<1>4. \A i \in DOMAIN list : list[i] \in Range(list)
  BY DEF Range
<1> HIDE DEF Range
<1> QED
  BY <1>1, <1>3, <1>4

LEMMA CappedIn ==
  ASSUME NEW S, NEW e \in EntriesOf(S),
         "trust_level" \in DOMAIN e.props => e.props["trust_level"] \in Nat
  PROVE  Capped(e) \in EntriesOf(S)
<1>1. CASE "trust_level" \notin DOMAIN e.props
  BY <1>1 DEF Capped
<1>2. CASE "trust_level" \in DOMAIN e.props
  <2> DEFINE p == e.props
             v == Min({p["trust_level"], TrustLevel})
             q == [p EXCEPT !["trust_level"] = v]
  <2>1. e.props["trust_level"] \in Nat /\ TrustLevel \in Nat
    BY <1>2, CrawlAssumption
  <2>2. v \in Nat
    <3>1. v = IF p["trust_level"] <= TrustLevel THEN p["trust_level"] ELSE TrustLevel
      BY <2>1, MinOfTwo
    <3> QED
      BY <2>1, <3>1
  <2>3. Capped(e) = [e EXCEPT !.props = q]
    BY <1>2 DEF Capped
  <2>4. e.subject \in S /\ p \in PropSet /\ e = [subject |-> e.subject, props |-> p]
    BY DEF EntriesOf
  <2> HIDE DEF v, p
  <2>5. v \in Values
    BY <2>2 DEF Values
  <2>6. q \in PropSet
    <3>1. DOMAIN p \subseteq Names /\ IsFiniteSet(DOMAIN p) /\ p \in [DOMAIN p -> Values]
      BY <2>4 DEF PropSet
    <3>2. q \in [DOMAIN p -> Values] /\ DOMAIN q = DOMAIN p
      BY <2>5, <3>1
    <3> HIDE DEF q
    <3> QED
      BY <3>1, <3>2 DEF PropSet
  <2> HIDE DEF q
  <2>7. [e EXCEPT !.props = q] = [subject |-> e.subject, props |-> q]
    BY <2>4
  <2> QED
    BY <2>3, <2>4, <2>6, <2>7 DEF EntriesOf
<1> QED
  BY <1>1, <1>2

\* Some of a list, as Where picks it.
LEMMA PickedIn ==
  ASSUME NEW n \in Nat, NEW X, NEW seqs, seqs = [i \in 1 .. n |-> seqs[i]],
         \A i \in 1 .. n : seqs[i] = <<>> \/ \E x \in X : seqs[i] = <<x>>
  PROVE  FlattenSeq(seqs) \in Seq(X)
<1>1. ASSUME NEW i \in 1 .. n PROVE seqs[i] \in Seq(X)
  <2>1. CASE seqs[i] = <<>>
    BY <2>1, EmptySeq
  <2>2. ASSUME NEW x \in X, seqs[i] = <<x>> PROVE seqs[i] \in Seq(X)
    <3>1. <<x>> \in Seq(X)
      OBVIOUS
    <3> QED
      BY <2>2, <3>1, Zenon
  <2> QED
    BY <2>1, <2>2
<1>2. seqs \in Seq(Seq(X))
  BY <1>1
<1> QED
  BY <1>2, FlattenType

LEMMA MappedIn ==
  ASSUME NEW n \in Nat, NEW X, NEW s, s = [i \in 1 .. n |-> s[i]], \A i \in 1 .. n : s[i] \in X
  PROVE  s \in Seq(X) /\ Len(s) = n
  OBVIOUS

LEMMA TwoDiffs ==
  ASSUME NEW t, t \notin AccountSources, NEW A \in Seq(EntriesOf(Accounts)), NEW B \in Seq(EntriesOf(Tokens))
  PROVE  IsTold(t, << [of |-> Accounts, entries |-> A], [of |-> Tokens, entries |-> B] >>)
<1> DEFINE a == [of |-> Accounts, entries |-> A]
           b == [of |-> Tokens, entries |-> B]
<1>1. a \in AccountDiff /\ b \in TokenDiff
  BY DEF AccountDiff, TokenDiff
<1> HIDE DEF a, b
<1>2. <<a, b>> \in Seq(AccountDiff \cup TokenDiff) /\ Len(<<a, b>>) = 2 /\ <<a, b>>[1] = a /\ <<a, b>>[2] = b
  BY <1>1
<1>3. IsTold(t, <<a, b>>)
  BY <1>1, <1>2 DEF IsTold
<1> QED
  BY <1>3 DEF a, b

LEMMA OneDiff ==
  ASSUME NEW t \in AccountSources, NEW A \in Seq(EntriesOf(Accounts))
  PROVE  IsTold(t, << [of |-> Accounts, entries |-> A] >>)
<1> DEFINE a == [of |-> Accounts, entries |-> A]
<1>1. a \in AccountDiff
  BY DEF AccountDiff
<1> HIDE DEF a
<1>2. <<a>> \in Seq(AccountDiff \cup TokenDiff) /\ Len(<<a>>) = 1 /\ <<a>>[1] = a
  BY <1>1
<1>3. IsTold(t, <<a>>)
  BY <1>1, <1>2 DEF IsTold
<1> QED
  BY <1>3 DEF a

\* All of a list, each entry with its trust capped.
LEMMA AllCapped ==
  ASSUME NEW S, NEW list, AreEntries(list, S)
  PROVE  [i \in DOMAIN list |-> Capped(list[i])] \in Seq(EntriesOf(S))
<1> DEFINE s == [i \in DOMAIN list |-> Capped(list[i])]
<1>1. list \in Seq(EntriesOf(S))
  BY AreIn
<1>2. Len(list) \in Nat /\ DOMAIN list = 1 .. Len(list)
  BY <1>1
<1>3. ASSUME NEW i \in 1 .. Len(list) PROVE Capped(list[i]) \in EntriesOf(S)
  BY <1>1, <1>2, AreIn, CappedIn
<1>4. s = [i \in 1 .. Len(list) |-> s[i]] /\ \A i \in 1 .. Len(list) : s[i] \in EntriesOf(S)
  BY <1>2, <1>3
<1> HIDE DEF s
<1> QED
  BY <1>2, <1>4, MappedIn DEF s

LEMMA ToldByTrustlist ==
  ASSUME NEW list \in Trustlists
  PROVE  IsTold("trustlist", TrustlistDiffs(list))
<1>1. AreEntries(list.issuers, Accounts) /\ AreEntries(list.tokens, Tokens) /\ list.advised \in Seq(Accounts)
  BY ListAssumption
<1> DEFINE warned == [i \in DOMAIN list.advised |-> Entry(list.advised[i], [advisories |-> 1])]
           A == [i \in DOMAIN list.issuers |-> Capped(list.issuers[i])]
           more == IF TrustLevel > 0 THEN warned ELSE <<>>
           B == [i \in DOMAIN list.tokens |-> Capped(list.tokens[i])]
<1>2. A \in Seq(EntriesOf(Accounts)) /\ B \in Seq(EntriesOf(Tokens))
  BY <1>1, AllCapped
<1>3. warned \in Seq(EntriesOf(Accounts))
  <2> DEFINE adv == list.advised
             n == Len(adv)
  <2>0. adv \in Seq(Accounts)
    BY <1>1
  <2>1. n \in Nat /\ DOMAIN adv = 1 .. n /\ \A i \in 1 .. n : adv[i] \in Accounts
    BY <2>0
  <2> HIDE DEF adv, n
  <2>2. [advisories |-> 1] \in PropSet
    BY NamedProps DEF Values
  <2>3. \A i \in 1 .. n : Entry(adv[i], [advisories |-> 1]) \in EntriesOf(Accounts)
    BY <2>1, <2>2, EntryIn
  <2>4. warned = [i \in 1 .. n |-> Entry(adv[i], [advisories |-> 1])]
    BY <2>1 DEF adv
  <2>5. warned = [i \in 1 .. n |-> warned[i]] /\ \A i \in 1 .. n : warned[i] \in EntriesOf(Accounts)
    BY <2>3, <2>4
  <2> HIDE DEF warned
  <2> QED
    BY <2>1, <2>5, MappedIn
<1> HIDE DEF A, B, warned
<1>4. <<>> \in Seq(EntriesOf(Accounts))
  BY EmptySeq
<1>5. more \in Seq(EntriesOf(Accounts))
  BY <1>3, <1>4
<1> HIDE DEF more
<1>6. A \o more \in Seq(EntriesOf(Accounts))
  BY <1>2, <1>5, ConcatProperties
<1>7. "trustlist" \notin AccountSources
  BY DEF AccountSources
<1>8. TrustlistDiffs(list) = << [of |-> Accounts, entries |-> A \o more], [of |-> Tokens, entries |-> B] >>
  BY Zenon DEF TrustlistDiffs, A, B, more, warned
<1> QED
  BY <1>2, <1>6, <1>7, <1>8, TwoDiffs, Zenon

LEMMA ToldByCurated ==
  ASSUME NEW list \in CuratedLists
  PROVE  IsTold("curated", CuratedDiffs(list))
<1> DEFINE Asset == [native: BOOLEAN, token: Tokens, avatar: Values, icon: Values,
                     shortlist: BOOLEAN, short: BOOLEAN, curated: BOOLEAN]
           native == Where(list, LAMBDA asset : asset.native)
           n == Len(native)
           Level(shortlist) == IF shortlist THEN 3 ELSE 2
           a(x) == Entry(IssuerOf[x.token], [icon |-> x.avatar, trust_level |-> Level(x.shortlist)])
           b(x) == Entry(x.token, [icon |-> x.icon, trust_level |-> IF x.curated THEN Level(x.short) ELSE 1])
           A == [i \in DOMAIN native |-> a(native[i])]
           B == [i \in DOMAIN native |-> b(native[i])]
<1>1. native \in Seq(Asset)
  <2> DEFINE seqs == [i \in DOMAIN list |-> IF list[i].native THEN <<list[i]>> ELSE <<>>]
             m == Len(list)
  <2>1. list \in Seq(Asset)
    BY ListAssumption
  <2> HIDE DEF Asset
  <2>2. m \in Nat /\ DOMAIN list = 1 .. m /\ \A i \in 1 .. m : list[i] \in Asset
    BY <2>1
  <2> HIDE DEF m
  <2>3. native = FlattenSeq(seqs)
    BY DEF Where
  <2>4. /\ seqs = [i \in 1 .. m |-> seqs[i]]
        /\ \A i \in 1 .. m : seqs[i] = <<>> \/ \E x \in Asset : seqs[i] = <<x>>
    BY <2>2
  <2> HIDE DEF seqs, native
  <2>5. FlattenSeq(seqs) \in Seq(Asset)
    BY <2>2, <2>4, PickedIn
  <2> QED
    BY <2>3, <2>5
<1>2. \A x \in Asset : a(x) \in EntriesOf(Accounts) /\ b(x) \in EntriesOf(Tokens)
  <2> SUFFICES ASSUME NEW x \in Asset PROVE a(x) \in EntriesOf(Accounts) /\ b(x) \in EntriesOf(Tokens)
    OBVIOUS
  <2>1. x.token \in Tokens /\ x.avatar \in Values /\ x.icon \in Values /\ IssuerOf[x.token] \in Accounts
    BY SubjectAssumption
  <2> DEFINE v == Level(x.shortlist)
             w == IF x.curated THEN Level(x.short) ELSE 1
  <2>2. v \in Values /\ w \in Values
    BY DEF Values
  <2> HIDE DEF v, w
  <2>3. [icon |-> x.avatar, trust_level |-> v] \in PropSet /\ [icon |-> x.icon, trust_level |-> w] \in PropSet
    BY <2>1, <2>2, NamedProps
  <2>4. /\ Entry(IssuerOf[x.token], [icon |-> x.avatar, trust_level |-> v]) \in EntriesOf(Accounts)
        /\ Entry(x.token, [icon |-> x.icon, trust_level |-> w]) \in EntriesOf(Tokens)
    BY <2>1, <2>3, EntryIn
  <2> QED
    BY <2>4 DEF v, w
<1> HIDE DEF Asset, native, a, b
<1>3. n \in Nat /\ DOMAIN native = 1 .. n /\ \A i \in 1 .. n : native[i] \in Asset
  BY <1>1
<1> HIDE DEF n
<1>4. /\ A = [i \in 1 .. n |-> A[i]] /\ \A i \in 1 .. n : A[i] \in EntriesOf(Accounts)
      /\ B = [i \in 1 .. n |-> B[i]] /\ \A i \in 1 .. n : B[i] \in EntriesOf(Tokens)
  BY <1>2, <1>3
<1> HIDE DEF A, B
<1>5. A \in Seq(EntriesOf(Accounts)) /\ B \in Seq(EntriesOf(Tokens))
  BY <1>3, <1>4, MappedIn
<1>6. "curated" \notin AccountSources
  BY DEF AccountSources
<1>7. CuratedDiffs(list) = << [of |-> Accounts, entries |-> A], [of |-> Tokens, entries |-> B] >>
  BY Zenon DEF CuratedDiffs, A, B, native, a, b
<1> QED
  BY <1>5, <1>6, <1>7, TwoDiffs, Zenon

LEMMA ToldByServices ==
  ASSUME NEW list \in ServiceLists
  PROVE  IsTold("services", ServicesDiffs(list))
<1> DEFINE Of(service) == [i \in DOMAIN service.addresses |-> Entry(service.addresses[i], service.props)]
           seqs == [i \in DOMAIN list |-> Of(list[i])]
<1>1. /\ IsList(list)
      /\ \A x \in Range(list) : x.addresses \in Seq(Accounts) /\ IsProps(x.props)
  BY ListAssumption
<1>2. ASSUME NEW x \in Range(list) PROVE Of(x) \in Seq(EntriesOf(Accounts))
  <2> DEFINE all == x.addresses
             n == Len(all)
             s == Of(x)
  <2>1. all \in Seq(Accounts) /\ x.props \in PropSet
    BY <1>1, PropsIn
  <2>2. n \in Nat /\ DOMAIN all = 1 .. n /\ \A i \in 1 .. n : all[i] \in Accounts
    BY <2>1
  <2> HIDE DEF n, all
  <2>3. \A i \in 1 .. n : Entry(all[i], x.props) \in EntriesOf(Accounts)
    BY <2>1, <2>2, EntryIn
  <2>4. s = [i \in 1 .. n |-> Entry(all[i], x.props)]
    BY <2>2 DEF all
  <2>5. s = [i \in 1 .. n |-> s[i]] /\ \A i \in 1 .. n : s[i] \in EntriesOf(Accounts)
    BY <2>3, <2>4
  <2> HIDE DEF s
  <2>6. s \in Seq(EntriesOf(Accounts))
    BY <2>2, <2>5, MappedIn
  <2> QED
    BY <2>6 DEF s
<1> HIDE DEF Of
<1>3. list \in Seq(Range(list)) /\ Len(list) \in Nat /\ DOMAIN list = 1 .. Len(list)
  <2>1. list \in Seq(Range(list))
    BY <1>1 DEF IsList
  <2> HIDE DEF Range
  <2> QED
    BY <2>1
<1>4. \A i \in 1 .. Len(list) : list[i] \in Range(list)
  BY <1>3 DEF Range
<1>5. seqs = [i \in 1 .. Len(list) |-> seqs[i]] /\ \A i \in 1 .. Len(list) : seqs[i] \in Seq(EntriesOf(Accounts))
  BY <1>2, <1>3, <1>4
<1>6. ServicesDiffs(list) = << [of |-> Accounts, entries |-> FlattenSeq(seqs)] >>
  BY Zenon DEF ServicesDiffs, Of
<1> HIDE DEF seqs, Range
<1>7. seqs \in Seq(Seq(EntriesOf(Accounts)))
  BY <1>3, <1>5, MappedIn
<1>8. FlattenSeq(seqs) \in Seq(EntriesOf(Accounts))
  BY <1>7, FlattenType
<1>9. "services" \in AccountSources
  BY DEF AccountSources
<1> QED
  BY <1>6, <1>8, <1>9, OneDiff, Zenon

LEMMA ToldByWellKnown ==
  ASSUME NEW list \in WellKnownLists
  PROVE  IsTold("wellknown", WellKnownDiffs(list))
<1> DEFINE seqs == [i \in DOMAIN list |-> IF list[i].subject \in Accounts THEN <<list[i]>> ELSE <<>>]
           n == Len(list)
           X == EntriesOf(Accounts)
<1>1. IsList(list) /\ \A e \in Range(list) : e.subject \in Accounts => IsEntry(e, Accounts)
  BY ListAssumption
<1>2. list \in Seq(Range(list)) /\ n \in Nat /\ DOMAIN list = 1 .. n
  <2>1. list \in Seq(Range(list))
    BY <1>1 DEF IsList
  <2> HIDE DEF Range
  <2> QED
    BY <2>1
<1>3. \A i \in 1 .. n : list[i] \in Range(list)
  BY <1>2 DEF Range
<1>4. \A i \in 1 .. n : list[i].subject \in Accounts => list[i] \in X
  BY <1>1, <1>3, EntryGood
<1> HIDE DEF X, n
<1>5. /\ seqs = [i \in 1 .. n |-> seqs[i]]
      /\ \A i \in 1 .. n : seqs[i] = <<>> \/ \E x \in X : seqs[i] = <<x>>
  BY <1>2, <1>4
<1>6. WellKnownDiffs(list) = << [of |-> Accounts, entries |-> FlattenSeq(seqs)] >>
  BY Zenon DEF WellKnownDiffs, Where
<1> HIDE DEF seqs
<1>7. FlattenSeq(seqs) \in Seq(EntriesOf(Accounts))
  BY <1>2, <1>5, PickedIn DEF X
<1>8. "wellknown" \in AccountSources
  BY DEF AccountSources
<1> QED
  BY <1>6, <1>7, <1>8, OneDiff, Zenon

LEMMA Told ==
  ASSUME NEW t \in Lists, NEW diffs \in Diffs(t)
  PROVE  IsTold(t, diffs)
<1>1. CASE t = "trustlist"
  BY <1>1, ToldByTrustlist DEF Diffs
<1>2. CASE t = "curated"
  BY <1>2, ToldByCurated DEF Diffs
<1>3. CASE t = "services"
  BY <1>3, ToldByServices DEF Diffs
<1>4. CASE t = "wellknown"
  BY <1>4, ToldByWellKnown DEF Diffs
<1> QED
  BY <1>1, <1>2, <1>3, <1>4 DEF Lists

\* What a domain says of its account, of itself and of its tokens.
LEMMA PublishedIn ==
  ASSUME NEW toml \in Tomls, NEW account
  PROVE  Published(toml, account) \in Seq(EntriesOf(Subjects))
<1> DEFINE own == Where(toml, LAMBDA entry :
               account \in {entry.subject} \cup {IssuerOf[token] : token \in {entry.subject} \cap Tokens})
           seqs == [i \in DOMAIN toml |->
               IF account \in {toml[i].subject} \cup {IssuerOf[token] : token \in {toml[i].subject} \cap Tokens}
               THEN <<toml[i]>> ELSE <<>>]
           n == Len(toml)
           X == EntriesOf(Subjects)
<1>1. IsList(toml) /\ \A e \in Range(toml) : IsEntry(e, Subjects)
  BY AnswerAssumption
<1>2. toml \in Seq(X)
  BY <1>1, EntryGood, ListIn
<1> HIDE DEF X
<1>3. n \in Nat /\ DOMAIN toml = 1 .. n /\ \A i \in 1 .. n : toml[i] \in X
  BY <1>2
<1> HIDE DEF n
<1>4. /\ seqs = [i \in 1 .. n |-> seqs[i]]
      /\ \A i \in 1 .. n : seqs[i] = <<>> \/ \E x \in X : seqs[i] = <<x>>
  BY <1>3
<1>5. own = FlattenSeq(seqs)
  BY Zenon DEF Where
<1> HIDE DEF seqs
<1>6. own \in Seq(X)
  BY <1>3, <1>4, <1>5, PickedIn
<1> DEFINE f(e) == [e EXCEPT !.props = Restrict(@, DOMAIN @ \ {"trust_level"})]
           s == [i \in DOMAIN own |-> f(own[i])]
<1>7. Published(toml, account) = s
  BY Zenon DEF Published
<1> HIDE DEF own
<1>8. ASSUME NEW e \in X PROVE f(e) \in X
  <2> DEFINE p == e.props
             q == [k \in DOMAIN p \ {"trust_level"} |-> p[k]]
  <2>1. p \in PropSet /\ e.subject \in Subjects /\ e = [subject |-> e.subject, props |-> p]
    BY DEF X, EntriesOf
  <2>2. f(e) = [subject |-> e.subject, props |-> q]
    BY <2>1 DEF Restrict
  <2> HIDE DEF p
  <2>3. DOMAIN p \subseteq Names /\ IsFiniteSet(DOMAIN p) /\ p \in [DOMAIN p -> Values]
    BY <2>1 DEF PropSet
  <2>4. IsFiniteSet(DOMAIN p \ {"trust_level"})
    BY <2>3, FS_Subset
  <2>5. q \in [DOMAIN p \ {"trust_level"} -> Values] /\ DOMAIN q = DOMAIN p \ {"trust_level"}
    BY <2>3
  <2> HIDE DEF q
  <2>6. q \in PropSet
    BY <2>3, <2>4, <2>5 DEF PropSet
  <2> QED
    BY <2>1, <2>2, <2>6 DEF X, EntriesOf
<1> HIDE DEF f
<1>9. Len(own) \in Nat /\ DOMAIN own = 1 .. Len(own) /\ \A i \in 1 .. Len(own) : own[i] \in X
  BY <1>6
<1>10. s = [i \in 1 .. Len(own) |-> s[i]] /\ \A i \in 1 .. Len(own) : s[i] \in X
  BY <1>8, <1>9
<1> HIDE DEF s
<1>11. s \in Seq(X)
  BY <1>9, <1>10, MappedIn
<1> QED
  BY <1>7, <1>11 DEF X

LEMMA OneWrite ==
  ASSUME NEW subject \in Subjects, NEW p \in PropSet
  PROVE  <<Entry(subject, p)>> \in Seq(EntriesOf(Subjects))
<1>1. Entry(subject, p) \in EntriesOf(Subjects)
  BY EntryIn
<1> QED
  BY <1>1

LEMMA AnswersIn ==
  ASSUME NEW t \in Iterators, NEW account \in Accounts
  PROVE  /\ \A writes \in Answers(t, account) : writes \in Seq(EntriesOf(Subjects))
         /\ \A writes \in Direct(t, account) : writes \in Seq(EntriesOf(Subjects))
<1>1. account \in Subjects
  BY DEF Subjects
<1>2. \A v \in Values : /\ <<Entry(account, [kyc |-> v])>> \in Seq(EntriesOf(Subjects))
                        /\ <<Entry(account, [icon |-> v])>> \in Seq(EntriesOf(Subjects))
  BY <1>1, NamedProps, OneWrite
<1>3. {Yes, No, NoValue} \subseteq Values /\ Avatars \cup {NoValue} \subseteq Values
  <2>1. Yes \in Nat /\ No \in Nat /\ Avatars \subseteq Nat
    BY AnswerAssumption DEF Yes, No
  <2> QED
    BY <2>1 DEF Values
<1>4. <<>> \in Seq(EntriesOf(Subjects))
  BY EmptySeq
<1>5. \A writes \in Answers(t, account) : writes \in Seq(EntriesOf(Subjects))
  <2>1. CASE t = "kyc"
    BY <1>2, <1>3, <2>1 DEF Answers
  <2>2. CASE t = "avatar"
    BY <1>2, <1>3, <2>2 DEF Answers
  <2>3. CASE t = "gravatar"
    BY <1>2, <1>3, <2>3 DEF Answers
  <2>4. CASE t = "domains"
    BY <1>4, <2>4, PublishedIn DEF Answers
  <2> QED
    BY <2>1, <2>2, <2>3, <2>4 DEF Iterators
<1>6. \A writes \in Direct(t, account) : writes \in Seq(EntriesOf(Subjects))
  BY <1>2, <1>3, <1>4 DEF Direct
<1> QED
  BY <1>5, <1>6

---------------------------------------------------------------------------
(* Batches.                                                                *)

LEMMA FiniteSubjects == IsFiniteSet(Subjects)
  BY CrawlAssumption, FS_Union DEF Subjects

LEMMA NamingIn ==
  ASSUME GoodRows(rows), NEW token
  PROVE  /\ Naming(token) \in Seq(RowSet)
         /\ Len(Naming(token)) \in Nat /\ DOMAIN Naming(token) = 1 .. Len(Naming(token))
         /\ \A i \in 1 .. Len(Naming(token)) : Naming(token)[i] \in RowSet
<1> DEFINE A == {r \in UrlRows(token) : r.subject \in Accounts}
           B == UrlRows(token) \ A
<1>1. rows \subseteq RowSet /\ IsFiniteSet(rows) /\ A \subseteq rows /\ B \subseteq rows
  BY DEF GoodRows, UrlRows
<1>2. Naming(token) = SetToSeq(A) \o SetToSeq(B)
  BY Zenon DEF Naming
<1> HIDE DEF A, B
<1>3. IsFiniteSet(A) /\ IsFiniteSet(B)
  BY <1>1, FS_Subset
<1>4. SetToSeq(A) \in Seq(A) /\ SetToSeq(B) \in Seq(B)
  BY <1>3, InOrder
<1>5. SetToSeq(A) \in Seq(RowSet) /\ SetToSeq(B) \in Seq(RowSet)
  BY <1>1, <1>4
<1>6. Naming(token) \in Seq(RowSet)
  BY <1>2, <1>5, ConcatProperties
<1> QED
  BY <1>6

LEMMA AccumulateIn ==
  ASSUME NEW queue \in Seq(Task), NEW token \in Tokens, NEW row \in RowSet
  PROVE  Accumulate(queue, token, row) \in Seq(Task)
<1> DEFINE known == {i \in DOMAIN queue : queue[i].handle = row.value}
           task == [handle |-> row.value, items |-> {token}, subjects |-> {row.subject}]
           n == Len(queue)
           more == [i \in DOMAIN queue |->
              IF i \in known
              THEN [queue[i] EXCEPT !.items = @ \cup {token}, !.subjects = @ \cup {row.subject}]
              ELSE queue[i]]
<1>1. row.value \in Nat /\ row.subject \in Subjects
  BY RowOut
<1>2. task \in Task
  BY <1>1 DEF Task
<1>3. n \in Nat /\ DOMAIN queue = 1 .. n /\ \A i \in 1 .. n : queue[i] \in Task
  OBVIOUS
<1>4. Append(queue, task) \in Seq(Task)
  <2> HIDE DEF task
  <2> QED
    BY <1>2, AppendProperties
<1>5. \A x \in Task : [x EXCEPT !.items = @ \cup {token}, !.subjects = @ \cup {row.subject}] \in Task
  BY <1>1 DEF Task
<1> HIDE DEF n
<1>6. more = [i \in 1 .. n |-> more[i]] /\ \A i \in 1 .. n : more[i] \in Task
  BY <1>3, <1>5
<1> HIDE DEF more
<1>7. more \in Seq(Task)
  BY <1>3, <1>6, MappedIn
<1>8. Accumulate(queue, token, row) = IF known = {} THEN Append(queue, task) ELSE more
  BY Zenon DEF Accumulate, more
<1> HIDE DEF known, task
<1> QED
  BY <1>4, <1>7, <1>8

LEMMA AccumulatedIn ==
  ASSUME GoodRows(rows), BatchesType, NEW token \in Tokens
  PROVE  Accumulated(token) \in Seq(Task)
<1> DEFINE all == Naming(token)
           n == Len(all)
<1>1. n \in Nat /\ DOMAIN all = 1 .. n /\ \A i \in 1 .. n : all[i] \in RowSet
  BY NamingIn
<1>2. PICK h : IsTrace(h, "queue", token, batches.queue, all, n) /\ h[n] = Accumulated(token)
  BY <1>1, AccumulatedTrace
<1>3. h[0] = batches.queue /\ \A i \in 1 .. n : h[i] = Accumulate(h[i - 1], token, all[i])
  BY <1>2 DEF IsTrace, OneStep
<1> HIDE DEF all, n
<1> DEFINE S == {i \in 0 .. n : h[i] \in Seq(Task)}
<1>4. 0 \in S
  BY <1>1, <1>3 DEF BatchesType
<1>5. ASSUME NEW i \in 0 .. n - 1, i \in S PROVE i + 1 \in S
  <2>1. i + 1 \in 1 .. n /\ (i + 1) - 1 = i
    BY <1>1
  <2>2. h[i + 1] = Accumulate(h[i], token, all[i + 1]) /\ all[i + 1] \in RowSet
    BY <1>1, <1>3, <2>1
  <2>3. h[i + 1] \in Seq(Task)
    BY <1>5, <2>2, AccumulateIn
  <2> QED
    BY <1>1, <2>1, <2>3
<1>6. 0 .. n \subseteq S
  <2> HIDE DEF S
  <2> QED
    BY <1>1, <1>4, <1>5, NumbersUpTo
<1> QED
  BY <1>1, <1>2, <1>6

LEMMA ProfileWritesIn ==
  ASSUME NEW task \in Task, NEW profiles \in Profiles
  PROVE  ProfileWrites(task, profiles) \in Seq(EntriesOf(Subjects))
<1> DEFINE all == SetToSeq(task.subjects)
           n == Len(all)
           picture == IF task.handle \in DOMAIN profiles THEN profiles[task.handle] ELSE NoValue
           s == [i \in DOMAIN all |-> Entry(all[i], [icon |-> picture])]
<1>1. ProfileWrites(task, profiles) = s
  BY Zenon DEF ProfileWrites
<1>2. task.subjects \subseteq Subjects
  BY DEF Task
<1>3. IsFiniteSet(task.subjects)
  BY <1>2, FiniteSubjects, FS_Subset
<1>4. all \in Seq(task.subjects)
  BY <1>3, InOrder
<1>5. n \in Nat /\ DOMAIN all = 1 .. n /\ \A i \in 1 .. n : all[i] \in Subjects
  BY <1>2, <1>4
<1>6. picture \in Values
  BY AnswerAssumption DEF Values
<1> HIDE DEF all, n, picture
<1>7. [icon |-> picture] \in PropSet
  BY <1>6, NamedProps
<1>8. \A i \in 1 .. n : Entry(all[i], [icon |-> picture]) \in EntriesOf(Subjects)
  BY <1>5, <1>7, EntryIn
<1>9. s = [i \in 1 .. n |-> s[i]] /\ \A i \in 1 .. n : s[i] \in EntriesOf(Subjects)
  BY <1>5, <1>8
<1> HIDE DEF s
<1>10. s \in Seq(EntriesOf(Subjects))
  BY <1>5, <1>9, MappedIn
<1> QED
  BY <1>1, <1>10

\* What a batch writes.
BatchWrites(profiles) ==
  FlattenSeq([i \in DOMAIN batches.commit |-> ProfileWrites(batches.commit[i], profiles)])

LEMMA BatchWritesIn ==
  ASSUME BatchesType, NEW profiles \in Profiles
  PROVE  BatchWrites(profiles) \in Seq(EntriesOf(Subjects))
<1> DEFINE all == batches.commit
           n == Len(all)
           s == [i \in DOMAIN all |-> ProfileWrites(all[i], profiles)]
<1>1. all \in Seq(Task)
  BY DEF BatchesType
<1> HIDE DEF all
<1>2. n \in Nat /\ DOMAIN all = 1 .. n /\ \A i \in 1 .. n : all[i] \in Task
  BY <1>1
<1> HIDE DEF n
<1>3. \A i \in 1 .. n : ProfileWrites(all[i], profiles) \in Seq(EntriesOf(Subjects))
  BY <1>2, ProfileWritesIn
<1>4. s = [i \in 1 .. n |-> s[i]] /\ \A i \in 1 .. n : s[i] \in Seq(EntriesOf(Subjects))
  BY <1>2, <1>3
<1>5. BatchWrites(profiles) = FlattenSeq(s)
  BY Zenon DEF BatchWrites, all
<1> HIDE DEF s
<1>6. s \in Seq(Seq(EntriesOf(Subjects)))
  BY <1>2, <1>4, MappedIn
<1> QED
  BY <1>5, <1>6, FlattenType

---------------------------------------------------------------------------
(* Marks, and what is left of them.                                        *)

LEMMA MarksIn ==
  ASSUME NEW A, A \subseteq Subjects, NEW B, B \subseteq Subjects
  PROVE  Marks(A, B) \subseteq Marked
  BY DEF Marks, Marked

LEMMA DifferencesIn ==
  ASSUME NEW a, GoodRows(a), NEW b, GoodRows(b)
  PROVE  Changed(a, b) \subseteq Subjects /\ IconChanged(a, b) \subseteq Subjects /\ Differences(a, b) \subseteq Marked
<1>1. \A r \in a \cup b : r.subject \in Subjects
  BY RowOut DEF GoodRows
<1>2. Changed(a, b) \subseteq Subjects /\ IconChanged(a, b) \subseteq Subjects
  BY <1>1 DEF Changed, IconChanged
<1> QED
  BY <1>2, MarksIn DEF Differences

LEMMA MarksOfAllIn ==
  ASSUME NEW writes \in Seq(EntriesOf(Subjects))
  PROVE  MarksOfAll(writes) \subseteq Marked
<1>1. ASSUME NEW i \in DOMAIN writes PROVE MarksOf(writes[i]) \subseteq Marked
  <2>0. writes[i] \in EntriesOf(Subjects)
    OBVIOUS
  <2>1. writes[i].subject \in Subjects
    BY <2>0 DEF EntriesOf
  <2> QED
    BY <2>1 DEF MarksOf, Marks, Marked
<1> QED
  BY <1>1 DEF MarksOfAll

LEMMA RowsLeft ==
  ASSUME NEW rs, GoodRows(rs), NEW some, some \subseteq rs
  PROVE  GoodRows(some)
  BY FS_Subset DEF GoodRows, Unique

LEMMA CommitGood ==
  ASSUME RowsType, NEW after, GoodRows(after), NEW marks, marks \subseteq Marked,
         Commit(after, marks), UNCHANGED domains
  PROVE  RowsType'
<1>1. rows' = after /\ todos' = todos \cup marks /\ behind' = behind \cup Differences(rows, after) /\ lost' = lost
  BY DEF Commit
<1>2. Differences(rows, after) \subseteq Marked
  BY DifferencesIn DEF RowsType
<1>3. GoodRows(rows')
  BY <1>1
<1> QED
  BY <1>1, <1>2, <1>3 DEF RowsType

LEMMA RestartGood ==
  ASSUME RowsType, NEW after, GoodRows(after), NEW marks, marks \subseteq Marked, Restart(after, marks)
  PROVE  RowsType'
<1>1. /\ rows' = after /\ todos' = todos \cup marks /\ behind' = behind \cup Differences(rows, after)
      /\ lost' = lost \cup (behind' \ todos') /\ domains' = domains
  BY DEF Restart
<1>2. Differences(rows, after) \subseteq Marked
  BY DifferencesIn DEF RowsType
<1>3. GoodRows(rows')
  BY <1>1
<1> QED
  BY <1>1, <1>2, <1>3 DEF RowsType

\* The writes of a crawler that asks for each item, and of a part of them.
LEMMA WritesGood ==
  ASSUME RowsType, NEW writes \in Seq(EntriesOf(Subjects)), NEW source \in Iterators \cup {"x"}
  PROVE  /\ GoodRows(Written(writes, source))
         /\ MarksOfAll(writes) \subseteq Marked
         /\ \A n \in DOMAIN writes : /\ GoodRows(Written(SubSeq(writes, 1, n), source))
                                     /\ UNION {MarksOf(writes[i]) : i \in 1 .. n - 1} \subseteq Marked
<1>1. source \in Names /\ source \notin AccountSources
  BY DEF Names, AccountSources, Iterators
<1>2. GoodRows(Written(writes, source))
  BY <1>1, WrittenGood DEF RowsType
<1>3. MarksOfAll(writes) \subseteq Marked
  BY MarksOfAllIn
<1>4. ASSUME NEW n \in DOMAIN writes
      PROVE  /\ GoodRows(Written(SubSeq(writes, 1, n), source))
             /\ UNION {MarksOf(writes[i]) : i \in 1 .. n - 1} \subseteq Marked
  <2>1. SubSeq(writes, 1, n) \in Seq(EntriesOf(Subjects))
    BY SomeWrites
  <2>2. GoodRows(Written(SubSeq(writes, 1, n), source))
    BY <1>1, <2>1, WrittenGood DEF RowsType
  <2>3. 1 .. n - 1 \subseteq DOMAIN writes
    OBVIOUS
  <2>4. UNION {MarksOf(writes[i]) : i \in 1 .. n - 1} \subseteq MarksOfAll(writes)
    BY <2>3 DEF MarksOfAll
  <2> QED
    BY <1>3, <2>2, <2>4
<1> QED
  BY <1>2, <1>3, <1>4

---------------------------------------------------------------------------
(* The entries of a chunk, as rows.                                        *)

LEMMA DiffedGood ==
  ASSUME NEW d, NEW S, S \subseteq Subjects, NEW entries \in Seq(EntriesOf(S)), NEW source \in Names,
         source \in AccountSources => S \subseteq Accounts,
         GoodRows(d.rows), d.kept \subseteq Subjects \X Names, d.dirty \subseteq Subjects, d.icons \subseteq Subjects
  PROVE  LET after == Diffed(d, entries, source) IN
         /\ GoodRows(after.rows) /\ after.kept \subseteq Subjects \X Names
         /\ after.dirty \subseteq Subjects /\ after.icons \subseteq Subjects
<1> DEFINE n == Len(entries)
           P(after) == /\ GoodRows(after.rows) /\ after.kept \subseteq Subjects \X Names
                       /\ after.dirty \subseteq Subjects /\ after.icons \subseteq Subjects
<1>1. n \in Nat /\ DOMAIN entries = 1 .. n /\ \A i \in 1 .. n : entries[i] \in EntriesOf(S)
  OBVIOUS
<1> HIDE DEF n
<1>2. PICK h : IsTrace(h, "diff", source, d, entries, n) /\ h[n] = Diffed(d, entries, source)
  BY <1>1, DiffedTrace
<1> DEFINE H == {i \in 0 .. n : P(h[i])}
<1>3. h[0] = d /\ \A i \in 1 .. n : h[i] = ApplyEntry(h[i - 1], entries[i], source)
  BY <1>2 DEF IsTrace, OneStep
<1>4. 0 \in H
  BY <1>1, <1>3
<1>5. ASSUME NEW i \in 0 .. n - 1, i \in H PROVE i + 1 \in H
  <2>1. i + 1 \in 1 .. n /\ (i + 1) - 1 = i
    BY <1>1
  <2> DEFINE e == entries[i + 1]
             before == h[i]
             after == h[i + 1]
             new == ApplyProps(before.rows, e.subject, e.props, source)
  <2>2. after = ApplyEntry(before, e, source)
    BY <1>3, <2>1
  <2>3. /\ after.rows = new
        /\ after.kept = before.kept \cup ({e.subject} \X Given(e.props))
        /\ after.dirty = before.dirty \cup Changed(before.rows, new)
        /\ after.icons = before.icons \cup IconChanged(before.rows, new)
    BY <2>2 DEF ApplyEntry
  <2>4. e.subject \in S /\ e.props \in PropSet
    BY <1>1, <2>1 DEF EntriesOf
  <2>5. P(before)
    BY <1>5
  <2>6. Given(e.props) \subseteq Names
    BY <2>4, PropsOut
  <2> HIDE DEF before, after, e
  <2>7. GoodRows(new)
    BY <2>4, <2>5, ApplyGood
  <2> HIDE DEF new
  <2>8. Changed(before.rows, new) \subseteq Subjects /\ IconChanged(before.rows, new) \subseteq Subjects
    BY <2>5, <2>7, DifferencesIn
  <2>9. P(after)
    BY <2>3, <2>4, <2>5, <2>6, <2>7, <2>8
  <2> HIDE DEF P
  <2>10. i + 1 \in 0 .. n /\ P(h[i + 1])
    BY <1>1, <2>1, <2>9 DEF after
  <2> QED
    BY <2>10, Zenon
<1>6. 0 .. n \subseteq H
  <2> HIDE DEF H
  <2> QED
    BY <1>1, <1>4, <1>5, NumbersUpTo
<1>7. P(h[n])
  BY <1>1, <1>6
<1> HIDE DEF P
<1>8. P(Diffed(d, entries, source))
  BY <1>2, <1>7
<1> QED
  BY <1>8 DEF P

---------------------------------------------------------------------------
(* The steps, by what they are about.                                      *)

ListStep == \E t \in Lists : Listed(t) \/ WriteChunk(t) \/ ChunkFails(t) \/ SweepChunk(t) \/ EndDiff(t)
PassStep == \E t \in Iterators :
  NewPass(t) \/ \E w \in Workers(t) : Take(t, w) \/ Answered(t, w) \/ Failed(t, w)
BatchStep == OpenPass \/ Gather \/ LastBatch \/ BatchCommitted \/ BatchFailed
OtherStep ==
  \/ \E op \in ops : Expire(op[1], op[2])
  \/ \E account \in Accounts : LedgerDomain(account)
  \/ \E todo \in todos : Serve(todo)

LEMMA StepKinds ==
  ASSUME [Next]_vars
  PROVE  ListStep \/ PassStep \/ BatchStep \/ OtherStep \/ Crash \/ UNCHANGED vars
  BY DEF Next, ListStep, PassStep, BatchStep, OtherStep

LEMMA ListStepsLeave ==
  ASSUME ListStep
  PROVE  UNCHANGED <<domains, ids, jobs, batches, changes, crashes, retry>>
<1> SUFFICES ASSUME NEW t \in Lists, Listed(t) \/ WriteChunk(t) \/ ChunkFails(t) \/ SweepChunk(t) \/ EndDiff(t)
             PROVE  UNCHANGED <<domains, ids, jobs, batches, changes, crashes, retry>>
  BY DEF ListStep
<1>1. CASE Listed(t)
  BY <1>1 DEF Listed, core, history
<1>2. CASE WriteChunk(t)
  BY <1>2 DEF WriteChunk, bounds
<1>3. CASE SweepChunk(t)
  BY <1>3 DEF SweepChunk, bounds
<1>4. CASE EndDiff(t)
  BY <1>4 DEF EndDiff, core, bounds, history
<1>5. CASE ChunkFails(t)
  BY <1>5 DEF ChunkFails, core, bounds
<1> QED
  BY <1>1, <1>2, <1>3, <1>4, <1>5

LEMMA PassStepsLeave ==
  ASSUME PassStep
  PROVE  UNCHANGED <<domains, lists, batches, changes, crashes, retry>>
<1> SUFFICES ASSUME NEW t \in Iterators,
                    NewPass(t) \/ \E w \in Workers(t) : Take(t, w) \/ Answered(t, w) \/ Failed(t, w)
             PROVE  UNCHANGED <<domains, lists, batches, changes, crashes, retry>>
  BY DEF PassStep
<1>1. CASE NewPass(t)
  BY <1>1 DEF NewPass, core, bounds, history
<1>2. ASSUME NEW w, Take(t, w) PROVE UNCHANGED <<domains, lists, batches, changes, crashes, retry>>
  BY <1>2 DEF Take
<1>3. ASSUME NEW w, Answered(t, w) PROVE UNCHANGED <<domains, lists, batches, changes, crashes, retry>>
  BY <1>3 DEF Answered, bounds
<1>4. ASSUME NEW w, Failed(t, w) PROVE UNCHANGED <<domains, lists, batches, changes, crashes, retry>>
  BY <1>4 DEF Failed, core, bounds, history
<1> QED
  BY <1>1, <1>2, <1>3, <1>4

LEMMA BatchStepsLeave ==
  ASSUME BatchStep
  PROVE  UNCHANGED <<domains, lists, ids, jobs, changes, crashes>>
<1>1. CASE OpenPass
  BY <1>1 DEF OpenPass, core, bounds
<1>2. CASE Gather
  BY <1>2 DEF Gather, core
<1>3. CASE LastBatch
  BY <1>3 DEF LastBatch, core
<1>4. CASE BatchCommitted
  BY <1>4 DEF BatchCommitted, bounds
<1>5. CASE BatchFailed
  BY <1>5 DEF BatchFailed, core, bounds
<1> QED
  BY <1>1, <1>2, <1>3, <1>4, <1>5 DEF BatchStep

LEMMA OtherStepsLeave ==
  ASSUME OtherStep
  PROVE  UNCHANGED <<rows, lists, ids, jobs, batches, fetches, crashes, retry>>
<1>1. ASSUME NEW t, NEW s, Expire(t, s)
      PROVE  UNCHANGED <<rows, lists, ids, jobs, batches, fetches, crashes, retry>>
  BY <1>1 DEF Expire, core, schedule, bounds, history
<1>2. ASSUME NEW a, LedgerDomain(a) PROVE UNCHANGED <<rows, lists, ids, jobs, batches, fetches, crashes, retry>>
  BY <1>2 DEF LedgerDomain, schedule
<1>3. ASSUME NEW a, Serve(a) PROVE UNCHANGED <<rows, lists, ids, jobs, batches, fetches, crashes, retry>>
  BY <1>3 DEF Serve, core, schedule, bounds
<1> QED
  BY <1>1, <1>2, <1>3 DEF OtherStep

\* What a crash leaves of the rows, and what it marks.
LEMMA CrashIs ==
  ASSUME Crash, RowsType, ListsType, QueuesType
  PROVE  \E after, marks :
           /\ Restart(after, marks)
           /\ GoodRows(after) /\ marks \subseteq Marked
           /\ \/ after = rows
              \/ \E t \in Iterators : \E w \in Workers(t) :
                   /\ jobs[t][w] \in Accounts
                   /\ \E writes \in Answers(t, jobs[t][w]) : \E n \in DOMAIN writes :
                        after = Written(SubSeq(writes, 1, n), t)
<1> DEFINE IsPart(after) ==
             \E t \in Iterators : \E w \in Workers(t) :
                   /\ jobs[t][w] \in Accounts
                   /\ \E writes \in Answers(t, jobs[t][w]) : \E n \in DOMAIN writes :
                        after = Written(SubSeq(writes, 1, n), t)
           Goal == \E after, marks :
             Restart(after, marks) /\ GoodRows(after) /\ marks \subseteq Marked /\ (after = rows \/ IsPart(after))
<1>1. GoodRows(rows)
  BY DEF RowsType
<1>2. ASSUME Restart(rows, {}) PROVE Goal
  <2> HIDE DEF IsPart
  <2> QED
    BY <1>1, <1>2
<1>3. ASSUME NEW t \in Lists, NEW marks \in SUBSET MarksDue(t), Restart(rows, marks) PROVE Goal
  <2>1. ListType(t, lists[t])
    BY DEF ListsType
  <2>2. lists[t].dirty \subseteq Subjects /\ lists[t].icons \subseteq Subjects
    BY <2>1 DEF ListType
  <2>3. MarksDue(t) \subseteq Marked
    BY <2>2, MarksIn DEF MarksDue, Deduped
  <2> HIDE DEF IsPart
  <2> QED
    BY <1>1, <1>3, <2>3
<1>4. ASSUME NEW t \in Iterators, NEW w \in Workers(t), jobs[t][w] \in Accounts,
             NEW writes \in Answers(t, jobs[t][w]), NEW n \in DOMAIN writes,
             Restart(Written(SubSeq(writes, 1, n), t), UNION {MarksOf(writes[i]) : i \in 1 .. n - 1})
      PROVE  Goal
  <2>1. writes \in Seq(EntriesOf(Subjects))
    BY <1>4, AnswersIn
  <2>2. /\ GoodRows(Written(SubSeq(writes, 1, n), t))
        /\ UNION {MarksOf(writes[i]) : i \in 1 .. n - 1} \subseteq Marked
    BY <2>1, WritesGood
  <2>3. IsPart(Written(SubSeq(writes, 1, n), t))
    BY <1>4
  <2> HIDE DEF IsPart
  <2> QED
    BY <1>4, <2>2, <2>3
<1> HIDE DEF Goal
<1>5. Goal
  BY <1>2, <1>3, <1>4 DEF Crash
<1> QED
  BY <1>5 DEF Goal

---------------------------------------------------------------------------
(* The types are kept.                                                     *)

LEMMA TypesAtFirst ==
  ASSUME Init
  PROVE  Types
<1>1. GoodRows(Rows0)
  <2>1. Rows0 \subseteq RowSet
    <3> SUFFICES ASSUME NEW r \in Rows0 PROVE r \in RowSet
      OBVIOUS
    <3>1. r = Row(r.subject, r.key, r.source, r.value)
      BY RowsAssumption
    <3>2. r.subject \in Subjects /\ r.key \in Names /\ r.source \in Names /\ r.value \in Nat
      BY RowsAssumption DEF Names
    <3> QED
      BY <3>1, <3>2, RowIn
  <2>2. Unique(Rows0)
    <3> SUFFICES ASSUME NEW r \in Rows0, NEW q \in Rows0,
                        r.subject = q.subject, r.key = q.key, r.source = q.source
                 PROVE  r = q
      BY DEF Unique
    <3>1. r = Row(r.subject, r.key, r.source, r.value) /\ q = Row(q.subject, q.key, q.source, q.value)
      BY RowsAssumption
    <3>2. [q EXCEPT !.value = 0] = [r EXCEPT !.value = 0]
      BY <3>1 DEF Row
    <3> QED
      BY <3>2, RowsAssumption
  <2> QED
    BY <2>1, <2>2, RowsAssumption DEF GoodRows, AccountSources
<1>2. RowsType
  BY <1>1 DEF Init, RowsType
<1>3. OpsType
  BY DEF Init, OpsType
<1>4. ListsType
  <2>1. ASSUME NEW t \in Lists PROVE ListType(t, Idle)
    BY DEF ListType, Idle
  <2> QED
    BY <2>1 DEF Init, ListsType
<1>5. QueuesType
  <2>1. <<>> \in Seq(Accounts)
    OBVIOUS
  <2> QED
    BY <2>1 DEF Init, QueuesType
<1>6. BatchesType
  <2>1. <<>> \in Seq(Tokens) /\ <<>> \in Seq(Task) /\ Len(<<>>) = 0
    BY EmptySeq
  <2>2. BatchSize \in Nat \ {0}
    BY CrawlAssumption
  <2> QED
    BY <2>1, <2>2 DEF Init, BatchesType, Waiting
<1>7. BoundsType
  BY CrawlAssumption DEF Init, BoundsType
<1> QED
  BY <1>2, <1>3, <1>4, <1>5, <1>6, <1>7 DEF Types

\* Where a list stands.
LEMMA DiffIs ==
  ASSUME ListsType, NEW t \in Lists, Diffing(t)
  PROVE  /\ IsTold(t, lists[t].said)
         /\ lists[t].diffs \in Seq(AccountDiff \cup TokenDiff)
         /\ Len(lists[t].diffs) \in 1 .. Len(lists[t].said)
         /\ Diff(t) = lists[t].diffs[1]
         /\ \/ Diff(t) \in AccountDiff
            \/ Diff(t) \in TokenDiff /\ t \notin AccountSources
         /\ At(lists[t]) \in {1, 2}
<1> DEFINE l == lists[t]
<1>1. ListType(t, l) /\ l # Idle
  BY DEF ListsType, Diffing
<1> HIDE DEF l
<1>2. /\ IsTold(t, l.said) /\ l.diffs \in Seq(AccountDiff \cup TokenDiff)
      /\ Len(l.diffs) \in 1 .. Len(l.said) /\ l.diffs[1].of = l.said[At(l)].of
  BY <1>1 DEF ListType
<1>3. l.diffs # <<>> /\ Head(l.diffs) = l.diffs[1] /\ l.diffs[1] \in AccountDiff \cup TokenDiff
  <2>1. Len(l.said) \in {1, 2}
    BY <1>2 DEF IsTold
  <2> QED
    BY <1>2, <2>1
<1>4. At(l) \in {1, 2} /\ (t \in AccountSources => At(l) = 1)
  <2>1. Len(l.said) = IF t \in AccountSources THEN 1 ELSE 2
    BY <1>2 DEF IsTold
  <2> QED
    BY <1>2, <2>1 DEF At
<1>5. CASE t \in AccountSources
  <2>1. At(l) = 1 /\ l.said[1] \in AccountDiff
    BY <1>2, <1>4, <1>5 DEF IsTold
  <2>2. l.diffs[1] \in AccountDiff
    <3>1. CASE l.diffs[1] \in AccountDiff
      BY <3>1
    <3>2. CASE l.diffs[1] \in TokenDiff
      <4>1. Accounts = Tokens
        BY <1>2, <2>1, <3>2 DEF AccountDiff, TokenDiff
      <4> QED
        BY <3>2, <4>1 DEF AccountDiff, TokenDiff
    <3> QED
      BY <1>3, <3>1, <3>2
  <2> QED
    BY <1>2, <1>3, <1>4, <2>2 DEF Diff, l
<1>6. CASE t \notin AccountSources
  BY <1>2, <1>3, <1>4, <1>6 DEF Diff, l
<1> QED
  BY <1>5, <1>6

LEMMA EntriesIn ==
  ASSUME ListsType, NEW t \in Lists, Diffing(t)
  PROVE  \E S : /\ S \subseteq Subjects /\ Diff(t).entries \in Seq(EntriesOf(S))
                /\ t \in AccountSources => S \subseteq Accounts
                /\ S = Diff(t).of
<1>1. CASE Diff(t) \in AccountDiff
  BY <1>1 DEF AccountDiff, Subjects
<1>2. CASE Diff(t) \in TokenDiff /\ t \notin AccountSources
  BY <1>2 DEF TokenDiff, Subjects
<1> QED
  BY <1>1, <1>2, DiffIs

\* The chunk, and what is left of the entries after it.
LEMMA ChunkOf ==
  ASSUME NEW X, NEW e \in Seq(X), e # <<>>
  PROVE  /\ Min({ChunkSize, Len(e)}) \in 1 .. Len(e)
         /\ \A size \in 1 .. Len(e) :
              /\ SubSeq(e, 1, size) \in Seq(X)
              /\ Len(SubSeq(e, 1, size)) = size /\ DOMAIN SubSeq(e, 1, size) = 1 .. size
              /\ \A i \in 1 .. size : SubSeq(e, 1, size)[i] = e[i]
              /\ SubSeq(e, size + 1, Len(e)) \in Seq(X)
              /\ Len(SubSeq(e, size + 1, Len(e))) = Len(e) - size
<1>1. Len(e) \in Nat \ {0} /\ ChunkSize \in Nat \ {0}
  BY CrawlAssumption
<1>2. Min({ChunkSize, Len(e)}) = IF ChunkSize <= Len(e) THEN ChunkSize ELSE Len(e)
  BY <1>1, MinOfTwo
<1> QED
  BY <1>1, <1>2

\* What a chunk makes of the rows.
Chunk(t) ==
  Diffed([rows |-> rows, kept |-> lists[t].kept, dirty |-> lists[t].dirty, icons |-> lists[t].icons],
         SubSeq(Diff(t).entries, 1, Min({ChunkSize, Len(Diff(t).entries)})), t)

LEMMA ChunkGood ==
  ASSUME RowsType, ListsType, NEW t \in Lists, Diffing(t), Diff(t).entries # <<>>
  PROVE  /\ GoodRows(Chunk(t).rows) /\ Chunk(t).kept \subseteq Subjects \X Names
         /\ Chunk(t).dirty \subseteq Subjects /\ Chunk(t).icons \subseteq Subjects
<1> DEFINE d == [rows |-> rows, kept |-> lists[t].kept, dirty |-> lists[t].dirty, icons |-> lists[t].icons]
           e == Diff(t).entries
           part == SubSeq(e, 1, Min({ChunkSize, Len(e)}))
<1>1. PICK S : /\ S \subseteq Subjects /\ e \in Seq(EntriesOf(S))
               /\ t \in AccountSources => S \subseteq Accounts
  BY EntriesIn
<1>2. part \in Seq(EntriesOf(S))
  <2> HIDE DEF e
  <2>1. e # <<>>
    BY DEF e
  <2> QED
    BY <1>1, <2>1, ChunkOf
<1>3. GoodRows(d.rows) /\ d.kept \subseteq Subjects \X Names /\ d.dirty \subseteq Subjects /\ d.icons \subseteq Subjects
  <2>1. ListType(t, lists[t])
    BY DEF ListsType
  <2> QED
    BY <2>1 DEF RowsType, ListType
<1>4. t \in Names
  BY DEF Names
<1>5. Chunk(t) = Diffed(d, part, t)
  BY Zenon DEF Chunk
<1> HIDE DEF d, part
<1>6. /\ GoodRows(Diffed(d, part, t).rows) /\ Diffed(d, part, t).kept \subseteq Subjects \X Names
      /\ Diffed(d, part, t).dirty \subseteq Subjects /\ Diffed(d, part, t).icons \subseteq Subjects
  BY <1>1, <1>2, <1>3, <1>4, DiffedGood
<1> QED
  BY <1>5, <1>6

LEMMA RowsTypeStep ==
  ASSUME Types, [Next]_vars
  PROVE  RowsType'
<1>1. RowsType /\ ListsType /\ QueuesType /\ BatchesType
  BY DEF Types
<1> DEFINE Same == UNCHANGED <<rows, domains, todos, behind, lost>>
<1>2. ASSUME Same PROVE RowsType'
  BY <1>1, <1>2 DEF RowsType, GoodRows, Unique
<1>3. ASSUME NEW t \in Lists, Listed(t) PROVE RowsType'
  BY <1>2, <1>3 DEF Listed, core, history
<1>4. ASSUME NEW t \in Lists, WriteChunk(t) PROVE RowsType'
  <2>1. Diffing(t) /\ Diff(t).entries # <<>> /\ Commit(Chunk(t).rows, {}) /\ UNCHANGED domains
    BY <1>4 DEF WriteChunk, Chunk
  <2>2. GoodRows(Chunk(t).rows)
    BY <1>1, <2>1, ChunkGood
  <2> QED
    BY <1>1, <2>1, <2>2, CommitGood
<1>5. ASSUME NEW t \in Lists, SweepChunk(t) PROVE RowsType'
  <2>1. PICK slice \in SUBSET Unswept(t) : Swept(slice)
    BY <1>5 DEF SweepChunk, kSubset
  <2>2. /\ rows' = rows \ slice /\ behind' = behind \cup Marks(Changed(rows, rows'), {})
        /\ UNCHANGED <<todos, lost, domains>>
    BY <1>5, <2>1 DEF Swept, SweepChunk
  <2>3. GoodRows(rows')
    BY <1>1, <2>2, RowsLeft DEF RowsType
  <2>4. Changed(rows, rows') \subseteq Subjects
    BY <1>1, <2>3, DifferencesIn DEF RowsType
  <2>5. Marks(Changed(rows, rows'), {}) \subseteq Marked
    BY <2>4, MarksIn
  <2> QED
    BY <1>1, <2>2, <2>3, <2>5 DEF RowsType
<1>6. ASSUME NEW t \in Lists, EndDiff(t) PROVE RowsType'
  <2>1. ListType(t, lists[t])
    BY <1>1 DEF ListsType
  <2>2. lists[t].dirty \subseteq Subjects /\ lists[t].icons \subseteq Subjects
    BY <2>1 DEF ListType
  <2>3. MarksDue(t) \subseteq Marked
    BY <2>2, MarksIn DEF MarksDue, Deduped
  <2>4. todos' = todos \cup MarksDue(t) /\ UNCHANGED <<rows, domains, behind, lost>>
    BY <1>6 DEF EndDiff, core, history
  <2> QED
    BY <1>1, <2>3, <2>4 DEF RowsType, GoodRows, Unique
<1>6a. ASSUME NEW t \in Lists, ChunkFails(t) PROVE RowsType'
  <2>1. UNCHANGED <<rows, domains, todos, behind>> /\ lost' \subseteq lost \cup behind
    BY <1>6a DEF ChunkFails, core
  <2> QED
    BY <1>1, <2>1 DEF RowsType, GoodRows, Unique
<1>7. ASSUME NEW t \in Iterators, NewPass(t) PROVE RowsType'
  BY <1>2, <1>7 DEF NewPass, core, history
<1>8. ASSUME NEW t \in Iterators, NEW w \in Workers(t), Take(t, w) PROVE RowsType'
  <2> DEFINE item == Head(ids[t])
  <2>1. item \in Accounts
    BY <1>1, <1>8 DEF QueuesType, Take
  <2>2. domains' = domains
    BY <1>8 DEF Take
  <2>3. CASE UNCHANGED <<rows, todos, behind, lost>>
    BY <1>2, <2>2, <2>3
  <2>4. ASSUME NEW writes \in Direct(t, item),
               Commit(Written(writes, t), MarksOfAll(writes))
        PROVE  RowsType'
    <3>1. writes \in Seq(EntriesOf(Subjects))
      BY <2>1, AnswersIn
    <3>2. GoodRows(Written(writes, t)) /\ MarksOfAll(writes) \subseteq Marked
      BY <1>1, <3>1, WritesGood
    <3> QED
      BY <1>1, <2>2, <2>4, <3>2, CommitGood
  <2>5. ASSUME NEW subjects, subjects = {r.subject : r \in Cleared(item)},
               Commit(rows \ Cleared(item), Marks(subjects, subjects))
        PROVE  RowsType'
    <3>1. GoodRows(rows \ Cleared(item))
      BY <1>1, RowsLeft DEF RowsType
    <3>2. \A r \in rows : r.subject \in Subjects
      BY <1>1, RowOut DEF RowsType, GoodRows
    <3>3. subjects \subseteq Subjects
      BY <2>5, <3>2 DEF Cleared
    <3>4. Marks(subjects, subjects) \subseteq Marked
      BY <3>3, MarksIn
    <3> QED
      BY <1>1, <2>2, <2>5, <3>1, <3>4, CommitGood
  <2>6. \/ UNCHANGED <<rows, todos, behind, lost>>
        \/ \E writes \in Direct(t, item) : Commit(Written(writes, t), MarksOfAll(writes))
        \/ Commit(rows \ Cleared(item), Marks({r.subject : r \in Cleared(item)}, {r.subject : r \in Cleared(item)}))
    BY <1>8 DEF Take, MarksOfAll
  <2> QED
    BY <2>3, <2>4, <2>5, <2>6
<1>9. ASSUME NEW t \in Iterators, NEW w \in Workers(t), Answered(t, w) PROVE RowsType'
  <2>1. PICK writes \in Answers(t, jobs[t][w]) : Commit(Written(writes, t), MarksOfAll(writes))
    BY <1>9 DEF Answered, MarksOfAll
  <2>2. jobs[t][w] \in Accounts /\ domains' = domains
    BY <1>9 DEF Answered
  <2>3. writes \in Seq(EntriesOf(Subjects))
    BY <2>1, <2>2, AnswersIn
  <2>4. GoodRows(Written(writes, t)) /\ MarksOfAll(writes) \subseteq Marked
    BY <1>1, <2>3, WritesGood
  <2> QED
    BY <1>1, <2>1, <2>2, <2>4, CommitGood
<1>10. ASSUME NEW t \in Iterators, NEW w \in Workers(t), Failed(t, w) PROVE RowsType'
  BY <1>2, <1>10 DEF Failed, core, history
<1>11. CASE BatchStep
  <2>1. CASE OpenPass
    BY <1>2, <2>1 DEF OpenPass, core, history
  <2>2. CASE Gather
    BY <1>2, <2>2 DEF Gather, core
  <2>3. CASE LastBatch
    BY <1>2, <2>3 DEF LastBatch, core, history
  <2>4. CASE BatchCommitted
    <3>1. PICK profiles \in Profiles : Commit(Written(BatchWrites(profiles), "x"), MarksOfAll(BatchWrites(profiles)))
      BY <2>4 DEF BatchCommitted, BatchWrites, MarksOfAll
    <3>2. BatchWrites(profiles) \in Seq(EntriesOf(Subjects))
      BY <1>1, BatchWritesIn
    <3>3. GoodRows(Written(BatchWrites(profiles), "x")) /\ MarksOfAll(BatchWrites(profiles)) \subseteq Marked
      BY <1>1, <3>2, WritesGood
    <3>4. domains' = domains
      BY <2>4 DEF BatchCommitted
    <3> QED
      BY <1>1, <3>1, <3>3, <3>4, CommitGood
  <2>5. CASE BatchFailed
    BY <1>2, <2>5 DEF BatchFailed, core
  <2> QED
    BY <1>11, <2>1, <2>2, <2>3, <2>4, <2>5 DEF BatchStep
<1>12. CASE OtherStep
  <2>1. ASSUME NEW t, NEW s, Expire(t, s) PROVE RowsType'
    BY <1>2, <2>1 DEF Expire, core, history
  <2>2. ASSUME NEW a \in Accounts, LedgerDomain(a) PROVE RowsType'
    <3>1. /\ domains' = SymDiff(domains, {a}) /\ todos' = todos \cup {<<"props", a>>}
          /\ behind' = behind \cup {<<"props", a>>} /\ UNCHANGED <<rows, lost>>
      BY <2>2 DEF LedgerDomain
    <3>2. <<"props", a>> \in Marked
      BY DEF Marked, Subjects
    <3> QED
      BY <1>1, <3>1, <3>2 DEF RowsType, SymDiff, GoodRows, Unique
  <2>3. ASSUME NEW a, Serve(a) PROVE RowsType'
    BY <1>1, <2>3 DEF Serve, core, RowsType, GoodRows, Unique
  <2> QED
    BY <1>12, <2>1, <2>2, <2>3 DEF OtherStep
<1>13. CASE Crash
  BY <1>1, <1>13, CrashIs, RestartGood
<1>14. CASE UNCHANGED vars
  BY <1>2, <1>14 DEF vars, core, history
<1> QED
  BY <1>3, <1>4, <1>5, <1>6, <1>6a, <1>7, <1>8, <1>9, <1>10, <1>11, <1>12, <1>13, <1>14,
     StepKinds
     DEF ListStep, PassStep

LEMMA OpsTypeStep ==
  ASSUME Types, [Next]_vars
  PROVE  OpsType'
<1> USE DEF OpsType
<1>1. OpsType /\ QueuesType /\ BatchesType
  BY DEF Types
<1>2. ASSUME ops' \subseteq ops PROVE OpsType'
  BY <1>1, <1>2
<1>3. ASSUME NEW t \in Lists, Listed(t) PROVE OpsType'
  <2>1. ops' = ops \/ ops' = ops \cup {<<t, Global>>}
    BY <1>3, Zenon DEF Listed
  <2> QED
    BY <1>1, <2>1
<1>4. ASSUME NEW t \in Lists, WriteChunk(t) \/ ChunkFails(t) \/ SweepChunk(t) PROVE OpsType'
  BY <1>2, <1>4 DEF WriteChunk, ChunkFails, SweepChunk
<1>5. ASSUME NEW t \in Lists, EndDiff(t) PROVE OpsType'
  BY <1>1, <1>5 DEF EndDiff
<1>6. ASSUME NEW t \in Iterators, NewPass(t) PROVE OpsType'
  BY <1>2, <1>6 DEF NewPass
<1>7. ASSUME NEW t \in Iterators, NEW w \in Workers(t), Take(t, w) PROVE OpsType'
  <2>1. Head(ids[t]) \in Accounts
    BY <1>1, <1>7 DEF QueuesType, Take
  <2>2. ops' = ops \/ ops' = ops \cup {<<t, Head(ids[t])>>}
    BY <1>7 DEF Take, Done
  <2> QED
    BY <1>1, <2>1, <2>2
<1>8. ASSUME NEW t \in Iterators, NEW w \in Workers(t), Answered(t, w) \/ Failed(t, w) PROVE OpsType'
  BY <1>1, <1>8 DEF Answered, Failed, Done
<1>9. CASE BatchStep
  <2>1. CASE OpenPass \/ Gather \/ LastBatch \/ BatchFailed
    BY <1>2, <2>1 DEF OpenPass, Gather, LastBatch, BatchFailed
  <2>2. CASE BatchCommitted
    <3>1. BatchItems \subseteq Tokens
      <4>1. ASSUME NEW i \in DOMAIN batches.commit PROVE batches.commit[i].items \subseteq Tokens
        <5>1. batches.commit \in Seq(Task)
          BY <1>1 DEF BatchesType
        <5>2. batches.commit[i] \in Task
          BY <5>1
        <5> QED
          BY <5>2 DEF Task
      <4> QED
        BY <4>1 DEF BatchItems
    <3>2. ops' = ops \cup ({"x"} \X BatchItems)
      BY <2>2 DEF BatchCommitted
    <3> QED
      BY <1>1, <3>1, <3>2
  <2> QED
    BY <1>9, <2>1, <2>2 DEF BatchStep
<1>10. CASE OtherStep
  <2>1. ASSUME NEW t, NEW s, Expire(t, s) PROVE OpsType'
    BY <1>2, <2>1 DEF Expire
  <2>2. ASSUME NEW a, LedgerDomain(a) \/ Serve(a) PROVE OpsType'
    BY <1>2, <2>2 DEF LedgerDomain, Serve
  <2> QED
    BY <1>10, <2>1, <2>2 DEF OtherStep
<1>11. CASE Crash
  <2>1. \A after, marks : Restart(after, marks) => ops' = ops
    BY DEF Restart
  <2> QED
    BY <1>2, <1>11, <2>1 DEF Crash
<1>12. CASE UNCHANGED vars
  BY <1>2, <1>12 DEF vars
<1> QED
  BY <1>3, <1>4, <1>5, <1>6, <1>7, <1>8, <1>9, <1>10, <1>11, <1>12, StepKinds DEF ListStep, PassStep

LEMMA RestOfRest ==
  ASSUME NEW X, NEW e \in Seq(X), NEW h \in 0 .. Len(e), NEW size \in 0 .. Len(e) - h
  PROVE  LET rest == SubSeq(e, h + 1, Len(e)) IN
         /\ rest \in Seq(X) /\ Len(rest) = Len(e) - h
         /\ \A i \in 1 .. Len(e) - h : rest[i] = e[h + i]
         /\ SubSeq(rest, size + 1, Len(rest)) = SubSeq(e, h + size + 1, Len(e))
<1> DEFINE rest == SubSeq(e, h + 1, Len(e))
<1>1. rest \in Seq(X) /\ Len(rest) = Len(e) - h /\ \A i \in 1 .. Len(e) - h : rest[i] = e[h + i]
  OBVIOUS
<1> HIDE DEF rest
<1> DEFINE a == SubSeq(rest, size + 1, Len(rest))
           b == SubSeq(e, h + size + 1, Len(e))
<1>2. a \in Seq(X) /\ Len(a) = Len(e) - h - size /\ \A i \in 1 .. Len(e) - h - size : a[i] = rest[size + i]
  BY <1>1
<1>3. b \in Seq(X) /\ Len(b) = Len(e) - h - size /\ \A i \in 1 .. Len(e) - h - size : b[i] = e[h + size + i]
  OBVIOUS
<1> HIDE DEF a, b
<1>4. \A i \in 1 .. Len(a) : a[i] = b[i]
  BY <1>1, <1>2, <1>3
<1>5. a = b
  BY <1>2, <1>3, <1>4, SeqEqual
<1> QED
  BY <1>1, <1>5 DEF rest, a, b

LEMMA AllOfIt ==
  ASSUME NEW X, NEW e \in Seq(X)
  PROVE  SubSeq(e, 1, Len(e)) = e
  OBVIOUS

IsList5(l, diffs, kept, dirty, icons, said) ==
  l = [diffs |-> diffs, kept |-> kept, dirty |-> dirty, icons |-> icons, said |-> said]

LEMMA Parts ==
  ASSUME NEW l, NEW diffs, NEW kept, NEW dirty, NEW icons, NEW said, IsList5(l, diffs, kept, dirty, icons, said)
  PROVE  /\ l.diffs = diffs /\ l.kept = kept /\ l.dirty = dirty /\ l.icons = icons /\ l.said = said
         /\ l = [diffs |-> l.diffs, kept |-> l.kept, dirty |-> l.dirty, icons |-> l.icons, said |-> l.said]
  BY DEF IsList5

\* A list that has just been fetched, or whose next diff begins.
LEMMA FirstOfDiff ==
  ASSUME NEW t \in Lists, NEW said, IsTold(t, said), NEW diffs, NEW l,
         IsList5(l, diffs, {}, {}, {}, said),
         \/ diffs = said
         \/ Len(said) = 2 /\ diffs = <<said[2]>>
  PROVE  /\ ListType(t, l) /\ At(l) = 1 + Len(said) - Len(diffs)
         /\ Heard(l) = 0
<1>1. /\ said \in Seq(AccountDiff \cup TokenDiff) /\ Len(said) \in {1, 2} /\ Len(said) \in Nat
      /\ \A i \in 1 .. Len(said) : said[i].entries \in Seq(EntriesOf(Accounts)) \cup Seq(EntriesOf(Tokens))
  <2>1. said \in Seq(AccountDiff \cup TokenDiff) /\ Len(said) \in {1, 2}
    BY DEF IsTold
  <2>2. \A i \in 1 .. Len(said) : said[i] \in AccountDiff \cup TokenDiff
    BY <2>1
  <2> QED
    BY <2>1, <2>2 DEF AccountDiff, TokenDiff
<1>11. \A i \in 1 .. Len(said) : said[i] \in AccountDiff \cup TokenDiff
  BY <1>1
<1>2. /\ l.diffs = diffs /\ l.said = said /\ l.kept = {} /\ l.dirty = {} /\ l.icons = {}
      /\ l = [diffs |-> l.diffs, kept |-> l.kept, dirty |-> l.dirty, icons |-> l.icons, said |-> l.said]
  BY Parts
<1>3. At(l) = 1 + Len(said) - Len(diffs)
  BY <1>2 DEF At
<1>4. /\ diffs \in Seq(AccountDiff \cup TokenDiff) /\ Len(diffs) \in 1 .. Len(said)
      /\ \A j \in 1 .. Len(diffs) : diffs[j] = said[At(l) + j - 1]
  <2>1. CASE diffs = said
    <3>1. Len(diffs) = Len(said) /\ At(l) = 1
      BY <1>1, <1>3, <2>1
    <3> QED
      BY <1>1, <2>1, <3>1
  <2>2. CASE Len(said) = 2 /\ diffs = <<said[2]>>
    <3>1. said[2] \in AccountDiff \cup TokenDiff
      BY <1>11, <2>2
    <3>2. diffs \in Seq(AccountDiff \cup TokenDiff) /\ Len(diffs) = 1 /\ diffs[1] = said[2]
      BY <2>2, <3>1
    <3> QED
      BY <1>3, <2>2, <3>2
  <2> QED
    BY <2>1, <2>2
<1>5. At(l) \in 1 .. Len(said) /\ diffs[1] = said[At(l)]
  BY <1>1, <1>3, <1>4
<1> DEFINE e == said[At(l)].entries
<1>6. Heard(l) = Len(e) - Len(e)
  BY <1>2, <1>5 DEF Heard
<1>7. e \in Seq(EntriesOf(Accounts)) \/ e \in Seq(EntriesOf(Tokens))
  BY <1>1, <1>5
<1> HIDE DEF e
<1>8. Len(e) \in Nat /\ Heard(l) = 0 /\ SubSeq(e, 1, Len(e)) = e
  BY <1>6, <1>7, AllOfIt
<1>9. l.diffs[1].entries = SubSeq(e, Heard(l) + 1, Len(e)) /\ Heard(l) \in 0 .. Len(e)
  <2>1. l.diffs[1].entries = e
    BY <1>2, <1>5 DEF e
  <2>2. Heard(l) + 1 = 1
    BY <1>8
  <2> QED
    BY <1>8, <2>1, <2>2
<1>10. ListType(t, l)
  <2>1. l.diffs[1].entries = SubSeq(l.said[At(l)].entries, Heard(l) + 1, Len(l.said[At(l)].entries))
        /\ Heard(l) \in 0 .. Len(l.said[At(l)].entries)
    BY <1>2, <1>9 DEF e
  <2>2. /\ \A j \in 2 .. Len(l.diffs) : l.diffs[j] = l.said[At(l) + j - 1]
        /\ l.diffs[1].of = l.said[At(l)].of
        /\ Len(l.diffs) \in 1 .. Len(l.said) /\ l.diffs \in Seq(AccountDiff \cup TokenDiff)
    BY <1>2, <1>4, <1>5
  <2> QED
    BY <1>2, <2>1, <2>2 DEF ListType
<1> QED
  BY <1>3, <1>8, <1>10

\* A list after a chunk.
IsAfterChunk(m, l, size, kept, dirty, icons) ==
  m = [l EXCEPT !.diffs[1].entries = SubSeq(l.diffs[1].entries, size + 1, Len(l.diffs[1].entries)),
                !.kept = kept, !.dirty = dirty, !.icons = icons]

LEMMA ListAfterChunk ==
  ASSUME NEW t \in Lists, NEW l, ListType(t, l), l # Idle, NEW size, size \in 1 .. Len(l.diffs[1].entries),
         NEW kept, kept \subseteq Subjects \X Names,
         NEW dirty, dirty \subseteq Subjects, NEW icons, icons \subseteq Subjects,
         NEW m,
         IsAfterChunk(m, l, size, kept, dirty, icons)
  PROVE  /\ ListType(t, m) /\ At(m) = At(l) /\ Heard(m) = Heard(l) + size /\ m.said = l.said
         /\ m.kept = kept /\ m.dirty = dirty /\ m.icons = icons /\ m # Idle
<1> DEFINE E == l.said[At(l)].entries
           e == l.diffs[1].entries
           rest == SubSeq(e, size + 1, Len(e))
           h == Heard(l)
           X == EntriesOf(l.diffs[1].of)
           first == [of |-> l.diffs[1].of, entries |-> rest]
<1>1. /\ l = [diffs |-> l.diffs, kept |-> l.kept, dirty |-> l.dirty, icons |-> l.icons, said |-> l.said]
      /\ IsTold(t, l.said) /\ l.diffs \in Seq(AccountDiff \cup TokenDiff)
      /\ Len(l.diffs) \in 1 .. Len(l.said)
      /\ \A j \in 2 .. Len(l.diffs) : l.diffs[j] = l.said[At(l) + j - 1]
      /\ l.diffs[1].of = l.said[At(l)].of
      /\ h \in 0 .. Len(E) /\ e = SubSeq(E, h + 1, Len(E))
  BY DEF ListType
<1>2. Len(l.said) \in {1, 2} /\ Len(l.diffs) \in 1 .. Len(l.said) /\ Len(l.diffs) \in Nat
      /\ l.diffs[1] \in AccountDiff \cup TokenDiff /\ 1 \in DOMAIN l.diffs
  <2>1. Len(l.said) \in {1, 2}
    BY <1>1 DEF IsTold
  <2> QED
    BY <1>1, <2>1
<1>3. At(l) \in 1 .. Len(l.said)
  <2> DEFINE a == Len(l.said)
             b == Len(l.diffs)
  <2>1. a \in {1, 2} /\ b \in 1 .. a
    BY <1>2
  <2> HIDE DEF a, b
  <2>2. 1 + a - b \in 1 .. a
    BY <2>1
  <2> QED
    BY <2>2 DEF At, a, b
<1>4. l.said[At(l)] \in AccountDiff \cup TokenDiff
  BY <1>1, <1>3 DEF IsTold
<1>5. E \in Seq(X) /\ e \in Seq(X) /\ l.diffs[1] = [of |-> l.diffs[1].of, entries |-> e]
  <2>1. l.said[At(l)].entries \in Seq(EntriesOf(l.said[At(l)].of))
    BY <1>4 DEF AccountDiff, TokenDiff
  <2>2. l.diffs[1].entries \in Seq(EntriesOf(l.diffs[1].of)) /\ l.diffs[1] = [of |-> l.diffs[1].of, entries |-> l.diffs[1].entries]
    BY <1>2 DEF AccountDiff, TokenDiff
  <2> QED
    BY <1>1, <2>1, <2>2
<1>6. m = [diffs |-> [l.diffs EXCEPT ![1] = [@ EXCEPT !.entries = rest]],
           kept |-> kept, dirty |-> dirty, icons |-> icons, said |-> l.said]
  BY <1>1, Zenon DEF IsAfterChunk
<1>7. [l.diffs[1] EXCEPT !.entries = rest] = first
  <2> DEFINE d == l.diffs[1]
  <2>1. d = [of |-> d.of, entries |-> d.entries]
    BY <1>5
  <2> HIDE DEF d, rest
  <2>2. [d EXCEPT !.entries = rest] = [of |-> d.of, entries |-> rest]
    BY <2>1
  <2> QED
    BY <2>2 DEF d
<1> HIDE DEF E, e, h, X
<1>8. size \in 1 .. Len(e) /\ Len(e) = Len(E) - h /\ h \in 0 .. Len(E) /\ Len(E) \in Nat /\ Len(e) \in Nat
  <2>1. Len(e) = Len(E) - h
    BY <1>1, <1>5, RestOfRest
  <2> QED
    BY <1>1, <1>5, <2>1 DEF e
<1>9. rest = SubSeq(E, h + size + 1, Len(E)) /\ rest \in Seq(X) /\ Len(rest) = Len(E) - (h + size)
  <2>1. size \in 0 .. Len(E) - h
    BY <1>8
  <2>2. SubSeq(e, size + 1, Len(e)) = SubSeq(E, h + size + 1, Len(E))
    BY <1>1, <1>5, <2>1, RestOfRest
  <2>3. rest \in Seq(X) /\ Len(rest) = Len(e) - size
    BY <1>5, <1>8
  <2> QED
    BY <1>8, <2>2, <2>3
<1>10. first \in AccountDiff \cup TokenDiff
  <2>1. l.diffs[1].of = Accounts \/ l.diffs[1].of = Tokens
    BY <1>2 DEF AccountDiff, TokenDiff
  <2> HIDE DEF rest
  <2> QED
    BY <1>9, <2>1 DEF AccountDiff, TokenDiff, X
<1> HIDE DEF rest
<1> DEFINE D == [l.diffs EXCEPT ![1] = first]
<1>11. m.diffs = D /\ m.said = l.said /\ m.kept = kept /\ m.dirty = dirty /\ m.icons = icons
       /\ m = [diffs |-> m.diffs, kept |-> m.kept, dirty |-> m.dirty, icons |-> m.icons, said |-> m.said]
  BY <1>6, <1>7
<1> HIDE DEF first
<1>12. D \in Seq(AccountDiff \cup TokenDiff) /\ Len(D) = Len(l.diffs) /\ D[1] = first
       /\ \A j \in 2 .. Len(l.diffs) : D[j] = l.diffs[j]
  BY <1>1, <1>2, <1>10
<1> HIDE DEF D
<1>13. At(m) = At(l)
  BY <1>11, <1>12 DEF At
<1>14. first.entries = rest /\ first.of = l.diffs[1].of
  BY DEF first
<1>15. Heard(m) = h + size
  <2>1. Heard(m) = Len(E) - Len(rest)
    BY <1>11, <1>12, <1>13, <1>14 DEF Heard, E
  <2> QED
    BY <1>8, <1>9, <2>1
<1>16. m # Idle
  <2>1. Len(m.diffs) # 0
    BY <1>2, <1>11, <1>12
  <2>2. Len(Idle.diffs) = 0
    BY DEF Idle
  <2> QED
    BY <2>1, <2>2
<1>17. Heard(m) \in 0 .. Len(E)
  BY <1>8, <1>15
<1>18. ListType(t, m)
  <2>1. m.diffs[1].entries = SubSeq(E, Heard(m) + 1, Len(E)) /\ m.diffs[1].of = m.said[At(m)].of
    BY <1>1, <1>9, <1>11, <1>12, <1>13, <1>14, <1>15
  <2>2. Len(m.diffs) \in 1 .. Len(m.said) /\ m.diffs \in Seq(AccountDiff \cup TokenDiff)
    BY <1>1, <1>11, <1>12
  <2>3. \A j \in 2 .. Len(m.diffs) : m.diffs[j] = m.said[At(m) + j - 1]
    BY <1>1, <1>11, <1>12, <1>13
  <2> QED
    BY <1>1, <1>11, <1>13, <1>17, <2>1, <2>2, <2>3 DEF ListType, E
<1> QED
  BY <1>11, <1>13, <1>15, <1>16, <1>18 DEF h

\* What a step makes of the list it is about.
LEMMA ListsSet ==
  ASSUME ListsType, NEW t \in Lists, NEW m, ListType(t, m),
         DOMAIN lists' = Lists, lists' = [s \in Lists |-> lists'[s]],
         lists'[t] = m, \A s \in Lists \ {t} : lists'[s] = lists[s]
  PROVE  ListsType'
<1>1. \A s \in Lists : ListType(s, lists'[s])
  BY DEF ListsType
<1> QED
  BY <1>1 DEF ListsType

LEMMA ListWith ==
  ASSUME NEW l, NEW d, NEW k, NEW y, NEW i, NEW e, NEW a, NEW b, IsList5(l, d, k, y, i, e)
  PROVE  IsList5([l EXCEPT !.diffs = a, !.said = b], a, k, y, i, b)
<1>1. l = [diffs |-> d, kept |-> k, dirty |-> y, icons |-> i, said |-> e]
  BY DEF IsList5
<1>2. [l EXCEPT !.diffs = a] = [diffs |-> a, kept |-> k, dirty |-> y, icons |-> i, said |-> e]
  BY <1>1
<1> DEFINE m == [l EXCEPT !.diffs = a]
<1>3. [l EXCEPT !.diffs = a, !.said = b] = [m EXCEPT !.said = b]
  BY Zenon
<1>4. m = [diffs |-> a, kept |-> k, dirty |-> y, icons |-> i, said |-> e]
  BY <1>2
<1> HIDE DEF m
<1>5. [m EXCEPT !.said = b] = [diffs |-> a, kept |-> k, dirty |-> y, icons |-> i, said |-> b]
  BY <1>4
<1> QED
  BY <1>3, <1>5 DEF IsList5

LEMMA IdleWith ==
  ASSUME NEW a, NEW b
  PROVE  IsList5([Idle EXCEPT !.diffs = a, !.said = b], a, {}, {}, {}, b)
<1>1. IsList5(Idle, <<>>, {}, {}, {}, <<>>)
  BY DEF IsList5, Idle
<1> QED
  BY <1>1, ListWith

LEMMA TailOfTwo ==
  ASSUME NEW X, NEW s \in Seq(X), Len(s) = 2
  PROVE  Tail(s) = <<s[2]>>
<1>1. Tail(s) \in Seq(X) /\ Len(Tail(s)) = 1 /\ Tail(s)[1] = s[2]
  OBVIOUS
<1>2. <<s[2]>> \in Seq(X) /\ Len(<<s[2]>>) = 1 /\ <<s[2]>>[1] = s[2]
  OBVIOUS
<1>3. \A i \in 1 .. 1 : i = 1
  OBVIOUS
<1> QED
  BY <1>1, <1>2, <1>3, SeqEqual

LEMMA ListedList ==
  ASSUME ListsType, NEW t \in Lists, Listed(t), lists' # lists
  PROVE  \E diffs \in Diffs(t) :
           /\ IsList5(lists'[t], diffs, {}, {}, {}, diffs)
           /\ DOMAIN lists' = Lists /\ lists' = [s \in Lists |-> lists'[s]]
           /\ \A s \in Lists \ {t} : lists'[s] = lists[s]
<1>1. PICK diffs \in Diffs(t) : lists' = [lists EXCEPT ![t] = [Idle EXCEPT !.diffs = diffs, !.said = diffs]]
  BY Zenon DEF Listed
<1>2. IsList5([Idle EXCEPT !.diffs = diffs, !.said = diffs], diffs, {}, {}, {}, diffs)
  BY IdleWith
<1>3. DOMAIN lists = Lists /\ lists = [s \in Lists |-> lists[s]]
  BY DEF ListsType
<1> DEFINE m == [Idle EXCEPT !.diffs = diffs, !.said = diffs]
<1> HIDE DEF m
<1>4. lists' = [lists EXCEPT ![t] = m]
  BY <1>1 DEF m
<1>5. /\ lists'[t] = m /\ DOMAIN lists' = Lists /\ lists' = [s \in Lists |-> lists'[s]]
      /\ \A s \in Lists \ {t} : lists'[s] = lists[s]
  BY <1>3, <1>4
<1>6. IsList5(lists'[t], diffs, {}, {}, {}, diffs)
  BY <1>2, <1>5 DEF m
<1> QED
  BY <1>5, <1>6

LEMMA WrittenList ==
  ASSUME ListsType, NEW t \in Lists, WriteChunk(t)
  PROVE  /\ IsAfterChunk(lists'[t], lists[t], Min({ChunkSize, Len(Diff(t).entries)}),
                         Chunk(t).kept, Chunk(t).dirty, Chunk(t).icons)
         /\ DOMAIN lists' = Lists /\ lists' = [s \in Lists |-> lists'[s]]
         /\ \A s \in Lists \ {t} : lists'[s] = lists[s]
         /\ Commit(Chunk(t).rows, {})
<1> DEFINE size == Min({ChunkSize, Len(Diff(t).entries)})
           rest == SubSeq(Diff(t).entries, size + 1, Len(Diff(t).entries))
           m == [lists[t] EXCEPT !.diffs[1].entries = rest, !.kept = Chunk(t).kept,
                                 !.dirty = Chunk(t).dirty, !.icons = Chunk(t).icons]
<1>1. /\ lists' = [lists EXCEPT ![t].diffs[1].entries = rest, ![t].kept = Chunk(t).kept,
                                ![t].dirty = Chunk(t).dirty, ![t].icons = Chunk(t).icons]
      /\ Commit(Chunk(t).rows, {})
  BY Zenon DEF WriteChunk, Chunk
<1>2. DOMAIN lists = Lists /\ lists = [s \in Lists |-> lists[s]]
  BY DEF ListsType
<1>3. Diff(t) = lists[t].diffs[1]
  BY DiffIs DEF WriteChunk
<1> HIDE DEF rest
<1>4. /\ lists'[t] = m /\ DOMAIN lists' = Lists /\ lists' = [s \in Lists |-> lists'[s]]
      /\ \A s \in Lists \ {t} : lists'[s] = lists[s]
  BY <1>1, <1>2
<1>5. IsAfterChunk(m, lists[t], size, Chunk(t).kept, Chunk(t).dirty, Chunk(t).icons)
  BY <1>3, Zenon DEF IsAfterChunk, rest
<1> HIDE DEF m, size
<1> QED
  BY <1>1, <1>4, <1>5 DEF size

LEMMA SweptList ==
  ASSUME ListsType, NEW t \in Lists, SweepChunk(t)
  PROVE  \E slice \in SUBSET Unswept(t) :
           /\ Swept(slice)
           /\ LET l == lists[t] m == lists'[t] IN
              /\ m.diffs = l.diffs /\ m.said = l.said /\ m.kept = l.kept /\ m.icons = l.icons
              /\ m.dirty = l.dirty \cup {r.subject : r \in slice}
              /\ m = [diffs |-> m.diffs, kept |-> m.kept, dirty |-> m.dirty, icons |-> m.icons, said |-> m.said]
           /\ DOMAIN lists' = Lists /\ lists' = [s \in Lists |-> lists'[s]]
           /\ \A s \in Lists \ {t} : lists'[s] = lists[s]
<1>1. PICK slice \in SUBSET Unswept(t) :
        /\ Swept(slice)
        /\ lists' = [lists EXCEPT ![t].dirty = @ \cup {r.subject : r \in slice}]
  BY DEF SweepChunk, kSubset
<1> DEFINE D == lists[t].dirty \cup {r.subject : r \in slice}
           m == [lists[t] EXCEPT !.dirty = D]
           l == lists[t]
<1>2. DOMAIN lists = Lists /\ lists = [s \in Lists |-> lists[s]]
  BY DEF ListsType
<1>3. /\ lists'[t] = m /\ DOMAIN lists' = Lists /\ lists' = [s \in Lists |-> lists'[s]]
      /\ \A s \in Lists \ {t} : lists'[s] = lists[s]
  BY <1>1, <1>2
<1>4. ListType(t, l)
  BY DEF ListsType
<1> HIDE DEF D, l
<1>5. l = [diffs |-> l.diffs, kept |-> l.kept, dirty |-> l.dirty, icons |-> l.icons, said |-> l.said]
  BY <1>4 DEF ListType
<1>6. m = [diffs |-> l.diffs, kept |-> l.kept, dirty |-> D, icons |-> l.icons, said |-> l.said]
  BY <1>5 DEF l
<1>7. /\ m.diffs = l.diffs /\ m.said = l.said /\ m.kept = l.kept /\ m.icons = l.icons /\ m.dirty = D
      /\ m = [diffs |-> m.diffs, kept |-> m.kept, dirty |-> m.dirty, icons |-> m.icons, said |-> m.said]
  BY <1>6
<1> HIDE DEF m
<1>8. LET x == lists'[t] IN
      /\ x.diffs = l.diffs /\ x.said = l.said /\ x.kept = l.kept /\ x.icons = l.icons /\ x.dirty = D
      /\ x = [diffs |-> x.diffs, kept |-> x.kept, dirty |-> x.dirty, icons |-> x.icons, said |-> x.said]
  BY <1>3, <1>7
<1> QED
  BY <1>1, <1>3, <1>8 DEF D, l

LEMMA EndedList ==
  ASSUME ListsType, NEW t \in Lists, EndDiff(t)
  PROVE  /\ DOMAIN lists' = Lists /\ lists' = [s \in Lists |-> lists'[s]]
         /\ \A s \in Lists \ {t} : lists'[s] = lists[s]
         /\ \/ Len(lists[t].diffs) = 1 /\ lists'[t] = Idle
            \/ /\ Len(lists[t].diffs) = 2 /\ Len(lists[t].said) = 2
               /\ IsList5(lists'[t], <<lists[t].said[2]>>, {}, {}, {}, lists[t].said)
<1> DEFINE l == lists[t]
<1>1. DOMAIN lists = Lists /\ lists = [s \in Lists |-> lists[s]] /\ ListType(t, l) /\ l # Idle
  BY DEF ListsType, EndDiff, Diffing
<1>2. /\ IsTold(t, l.said) /\ l.diffs \in Seq(AccountDiff \cup TokenDiff)
      /\ Len(l.diffs) \in 1 .. Len(l.said)
      /\ \A j \in 2 .. Len(l.diffs) : l.diffs[j] = l.said[At(l) + j - 1]
  BY <1>1 DEF ListType
<1>3. /\ Len(l.said) \in {1, 2}
      /\ Len(l.diffs) > 1 => Len(l.diffs) = 2 /\ Len(l.said) = 2 /\ At(l) = 1
      /\ ~(Len(l.diffs) > 1) => Len(l.diffs) = 1
  <2> DEFINE a == Len(l.said)
             b == Len(l.diffs)
  <2>1. a \in {1, 2} /\ b \in 1 .. a
    BY <1>2 DEF IsTold
  <2> HIDE DEF a, b
  <2>2. b \in {1, 2} /\ (b > 1 => b = 2 /\ a = 2) /\ (~(b > 1) => b = 1)
    BY <2>1
  <2>3. 1 + a - b = 1 \/ b # a
    BY <2>1
  <2> QED
    BY <2>1, <2>2, <2>3 DEF At, a, b
<1>4. CASE Len(l.diffs) > 1
  <2>1. lists' = [lists EXCEPT ![t] = [Idle EXCEPT !.diffs = Tail(l.diffs), !.said = l.said]]
    BY <1>4, Zenon DEF EndDiff
  <2> HIDE DEF l
  <2>2. Len(l.diffs) = 2 /\ Len(l.said) = 2 /\ At(l) = 1
    BY <1>3, <1>4
  <2>3. l.diffs[2] = l.said[2]
    BY <1>2, <2>2
  <2>4. Tail(l.diffs) = <<l.said[2]>>
    BY <1>2, <2>2, <2>3, TailOfTwo
  <2> DEFINE m == [Idle EXCEPT !.diffs = Tail(l.diffs), !.said = l.said]
  <2>5. IsList5(m, Tail(l.diffs), {}, {}, {}, l.said)
    BY IdleWith
  <2>6. IsList5(m, <<l.said[2]>>, {}, {}, {}, l.said)
    BY <2>4, <2>5, Zenon
  <2> HIDE DEF m
  <2>7. /\ lists'[t] = m /\ DOMAIN lists' = Lists /\ lists' = [s \in Lists |-> lists'[s]]
        /\ \A s \in Lists \ {t} : lists'[s] = lists[s]
    BY <1>1, <2>1 DEF m
  <2> QED
    BY <2>2, <2>6, <2>7 DEF l
<1>5. CASE ~(Len(l.diffs) > 1)
  <2>1. lists' = [lists EXCEPT ![t] = Idle]
    BY <1>5, Zenon DEF EndDiff
  <2> HIDE DEF l
  <2>2. Len(l.diffs) = 1
    BY <1>3, <1>5
  <2>3. /\ lists'[t] = Idle /\ DOMAIN lists' = Lists /\ lists' = [s \in Lists |-> lists'[s]]
        /\ \A s \in Lists \ {t} : lists'[s] = lists[s]
    BY <1>1, <2>1
  <2> QED
    BY <2>2, <2>3 DEF l
<1> QED
  BY <1>4, <1>5

LEMMA IdleType ==
  ASSUME NEW t
  PROVE  ListType(t, Idle)
  BY DEF ListType, Idle

\* A diff that failed has left rows and marks alone.
LEMMA FailedList ==
  ASSUME ListsType, NEW t \in Lists, ChunkFails(t)
  PROVE  /\ DOMAIN lists' = Lists /\ lists' = [s \in Lists |-> lists'[s]]
         /\ \A s \in Lists \ {t} : lists'[s] = lists[s]
         /\ lists'[t] = Idle
         /\ UNCHANGED <<rows, ops, todos, behind>>
  BY DEF ListsType, ChunkFails, core

LEMMA ListsTypeStep ==
  ASSUME Types, [Next]_vars
  PROVE  ListsType'
<1>1. ListsType /\ RowsType
  BY DEF Types
<1>2. ASSUME lists' = lists PROVE ListsType'
  BY <1>1, <1>2 DEF ListsType
<1>3. ASSUME NEW t \in Lists, Listed(t) PROVE ListsType'
  <2> SUFFICES ASSUME lists' # lists PROVE ListsType'
    BY <1>2
  <2>1. PICK diffs \in Diffs(t) :
           /\ IsList5(lists'[t], diffs, {}, {}, {}, diffs)
           /\ DOMAIN lists' = Lists /\ lists' = [s \in Lists |-> lists'[s]]
           /\ \A s \in Lists \ {t} : lists'[s] = lists[s]
    BY <1>1, <1>3, ListedList
  <2>2. ListType(t, lists'[t])
    BY <2>1, Told, FirstOfDiff
  <2> QED
    BY <1>1, <2>1, <2>2, ListsSet
<1>4. ASSUME NEW t \in Lists, WriteChunk(t) PROVE ListsType'
  <2> DEFINE e == Diff(t).entries
             size == Min({ChunkSize, Len(e)})
  <2>1. Diffing(t) /\ e # <<>>
    BY <1>4 DEF WriteChunk
  <2>2. ListType(t, lists[t]) /\ lists[t] # Idle
    BY <1>1, <2>1 DEF ListsType, Diffing
  <2>3. size \in 1 .. Len(e) /\ e = lists[t].diffs[1].entries
    BY <1>1, <2>1, EntriesIn, ChunkOf, DiffIs
  <2>4. /\ Chunk(t).kept \subseteq Subjects \X Names
        /\ Chunk(t).dirty \subseteq Subjects /\ Chunk(t).icons \subseteq Subjects
    BY <1>1, <2>1, ChunkGood
  <2>5. /\ IsAfterChunk(lists'[t], lists[t], size, Chunk(t).kept, Chunk(t).dirty, Chunk(t).icons)
        /\ DOMAIN lists' = Lists /\ lists' = [s \in Lists |-> lists'[s]]
        /\ \A s \in Lists \ {t} : lists'[s] = lists[s]
    BY <1>1, <1>4, WrittenList
  <2> HIDE DEF size, e
  <2>6. size \in 1 .. Len(lists[t].diffs[1].entries)
    BY <2>3
  <2>7. ListType(t, lists'[t])
    BY <2>2, <2>4, <2>5, <2>6, ListAfterChunk
  <2> QED
    BY <1>1, <2>5, <2>7, ListsSet
<1>5. ASSUME NEW t \in Lists, SweepChunk(t) PROVE ListsType'
  <2> DEFINE l == lists[t]
             m == lists'[t]
  <2>1. PICK slice \in SUBSET Unswept(t) :
           /\ m.diffs = l.diffs /\ m.said = l.said /\ m.kept = l.kept /\ m.icons = l.icons
           /\ m.dirty = l.dirty \cup {r.subject : r \in slice}
           /\ m = [diffs |-> m.diffs, kept |-> m.kept, dirty |-> m.dirty, icons |-> m.icons, said |-> m.said]
           /\ DOMAIN lists' = Lists /\ lists' = [s \in Lists |-> lists'[s]]
           /\ \A s \in Lists \ {t} : lists'[s] = lists[s]
    BY <1>1, <1>5, SweptList
  <2>2. \A r \in rows : r.subject \in Subjects
    BY <1>1, RowOut DEF RowsType, GoodRows
  <2>3. {r.subject : r \in slice} \subseteq Subjects
    BY <2>2 DEF Unswept, Stale
  <2>4. ListType(t, l) /\ l # Idle
    BY <1>1, <1>5 DEF ListsType, SweepChunk, Diffing
  <2> HIDE DEF l, m
  <2>5. At(m) = At(l) /\ Heard(m) = Heard(l)
    BY <2>1 DEF At, Heard
  <2>6. ListType(t, m)
    BY <2>1, <2>3, <2>4, <2>5 DEF ListType
  <2> QED
    BY <1>1, <2>1, <2>6, ListsSet DEF m
<1>6. ASSUME NEW t \in Lists, EndDiff(t) PROVE ListsType'
  <2>1. IsTold(t, lists[t].said)
    BY <1>1, <1>6, DiffIs DEF EndDiff
  <2>2. ListType(t, lists'[t])
    BY <1>1, <1>6, <2>1, EndedList, FirstOfDiff, IdleType
  <2> QED
    BY <1>1, <1>6, <2>2, EndedList, ListsSet
<1>6a. ASSUME NEW t \in Lists, ChunkFails(t) PROVE ListsType'
  BY <1>1, <1>6a, FailedList, IdleType, ListsSet
<1>7. CASE PassStep \/ BatchStep \/ OtherStep \/ UNCHANGED vars
  BY <1>2, <1>7, PassStepsLeave, BatchStepsLeave, OtherStepsLeave DEF vars, schedule
<1>8. CASE Crash
  <2>1. lists' = [t \in Lists |-> Idle]
    <3>1. \A after, marks : Restart(after, marks) => lists' = [t \in Lists |-> Idle]
      BY DEF Restart
    <3> QED
      BY <1>8, <3>1 DEF Crash
  <2> QED
    BY <2>1, IdleType DEF ListsType
<1> QED
  BY <1>3, <1>4, <1>5, <1>6, <1>6a, <1>7, <1>8, StepKinds DEF ListStep

\* What a step makes of the queues and of the items its workers wait for.
SameButJob(t, w, x) ==
  /\ DOMAIN jobs' = Iterators /\ jobs' = [s \in Iterators |-> jobs'[s]]
  /\ \A s \in Iterators \ {t} : jobs'[s] = jobs[s]
  /\ jobs'[t] \in [Workers(t) -> Accounts \cup {Nobody}]
  /\ jobs'[t][w] = x
  /\ \A v \in Workers(t) \ {w} : jobs'[t][v] = jobs[t][v]

LEMMA SetJob ==
  ASSUME QueuesType, NEW t \in Iterators, NEW w \in Workers(t), NEW x \in Accounts \cup {Nobody},
         jobs' = [jobs EXCEPT ![t][w] = x]
  PROVE  SameButJob(t, w, x)
<1>1. DOMAIN jobs = Iterators /\ jobs = [s \in Iterators |-> jobs[s]] /\ jobs[t] \in [Workers(t) -> Accounts \cup {Nobody}]
  BY DEF QueuesType
<1> DEFINE f == [jobs[t] EXCEPT ![w] = x]
<1>2. f \in [Workers(t) -> Accounts \cup {Nobody}] /\ f[w] = x /\ \A v \in Workers(t) \ {w} : f[v] = jobs[t][v]
  BY <1>1
<1>3. /\ DOMAIN jobs' = Iterators /\ jobs' = [s \in Iterators |-> jobs'[s]]
      /\ jobs'[t] = f
      /\ \A s \in Iterators \ {t} : jobs'[s] = jobs[s]
  BY <1>1
<1> HIDE DEF f
<1> QED
  BY <1>2, <1>3 DEF SameButJob

LEMMA NewPassQueues ==
  ASSUME QueuesType, NEW t \in Iterators, NewPass(t)
  PROVE  /\ ids' = [ids EXCEPT ![t] = Reverse(SetToSeq(Items(t)))] /\ jobs' = jobs /\ ops' = ops
         /\ \A w \in Workers(t) : jobs[t][w] = Nobody
         /\ Reverse(SetToSeq(Items(t))) \in Seq(Accounts)
         /\ IsInjective(Reverse(SetToSeq(Items(t))))
<1>1. /\ ids' = [ids EXCEPT ![t] = Reverse(SetToSeq(Items(t)))] /\ jobs' = jobs /\ ops' = ops
      /\ \A w \in Workers(t) : jobs[t][w] = Nobody
  BY DEF NewPass
<1>2. Items(t) \subseteq Accounts
  BY SubjectAssumption DEF Items
<1>3. IsFiniteSet(Items(t))
  BY <1>2, CrawlAssumption, FS_Subset
<1>4. Reverse(SetToSeq(Items(t))) \in Seq(Items(t)) /\ IsInjective(Reverse(SetToSeq(Items(t))))
  BY <1>3, InOrder
<1> DEFINE s == Reverse(SetToSeq(Items(t)))
<1> HIDE DEF s
<1>5. s \in Seq(Items(t))
  BY <1>4 DEF s
<1>6. s \in Seq(Accounts)
  BY <1>2, <1>5
<1> QED
  BY <1>1, <1>4, <1>6 DEF s

LEMMA TakeQueues ==
  ASSUME QueuesType, NEW t \in Iterators, NEW w \in Workers(t), Take(t, w)
  PROVE  /\ ids[t] # <<>> /\ Head(ids[t]) \in Accounts /\ jobs[t][w] = Nobody
         /\ ids' = [ids EXCEPT ![t] = Tail(@)]
         /\ \/ jobs' = jobs /\ ops' \subseteq ops \cup {<<t, Head(ids[t])>>}
            \/ /\ SameButJob(t, w, Head(ids[t])) /\ ops' = ops /\ <<t, Head(ids[t])>> \notin ops
               /\ Direct(t, Head(ids[t])) = {} /\ rows' = rows
<1>1. ids[t] \in Seq(Accounts) /\ ids[t] # <<>> /\ jobs[t][w] = Nobody /\ ids' = [ids EXCEPT ![t] = Tail(@)]
  BY DEF QueuesType, Take
<1>2. Head(ids[t]) \in Accounts
  BY <1>1
<1>3. \/ jobs' = jobs /\ ops' \subseteq ops \cup {<<t, Head(ids[t])>>}
      \/ /\ jobs' = [jobs EXCEPT ![t][w] = Head(ids[t])] /\ ops' = ops /\ <<t, Head(ids[t])>> \notin ops
         /\ Direct(t, Head(ids[t])) = {} /\ rows' = rows
  BY DEF Take, Done
<1> QED
  BY <1>1, <1>2, <1>3, SetJob

LEMMA FreedQueues ==
  ASSUME QueuesType, NEW t \in Iterators, NEW w \in Workers(t), Answered(t, w) \/ Failed(t, w)
  PROVE  /\ jobs[t][w] \in Accounts /\ ids' = ids /\ ops' = ops \cup {<<t, jobs[t][w]>>}
         /\ SameButJob(t, w, Nobody)
<1>1. jobs[t][w] \in Accounts /\ ids' = ids /\ ops' = ops \cup {<<t, jobs[t][w]>>}
      /\ jobs' = [jobs EXCEPT ![t][w] = Nobody]
  BY DEF Answered, Failed, Done
<1> QED
  BY <1>1, SetJob

LEMMA CrashQueues ==
  ASSUME Crash
  PROVE  /\ ids' = [t \in Iterators |-> <<>>] /\ jobs' = [t \in Iterators |-> [w \in Workers(t) |-> Nobody]]
         /\ lists' = [t \in Lists |-> Idle] /\ batches' = Waiting
         /\ UNCHANGED <<ops, domains, fetches, changes, retry>>
         /\ crashes < MaxCrashes /\ crashes' = crashes + 1
<1>1. \A after, marks : Restart(after, marks) =>
         /\ ids' = [t \in Iterators |-> <<>>] /\ jobs' = [t \in Iterators |-> [w \in Workers(t) |-> Nobody]]
         /\ lists' = [t \in Lists |-> Idle] /\ batches' = Waiting
         /\ UNCHANGED <<ops, domains, fetches, changes, retry>>
         /\ crashes < MaxCrashes /\ crashes' = crashes + 1
  BY DEF Restart
<1> QED
  BY <1>1 DEF Crash

LEMMA QueuesTypeStep ==
  ASSUME Types, [Next]_vars
  PROVE  QueuesType'
<1>1. QueuesType
  BY DEF Types
<1>2. ASSUME ids' = ids, jobs' = jobs PROVE QueuesType'
  BY <1>1, <1>2 DEF QueuesType
<1>3. ASSUME NEW t \in Iterators, NEW s \in Seq(Accounts), ids' = [ids EXCEPT ![t] = s]
      PROVE  ids' \in [Iterators -> Seq(Accounts)]
  BY <1>1, <1>3 DEF QueuesType
<1>4. ASSUME NEW t \in Iterators, NEW w \in Workers(t), NEW x, SameButJob(t, w, x)
      PROVE  /\ DOMAIN jobs' = Iterators /\ jobs' = [s \in Iterators |-> jobs'[s]]
             /\ \A s \in Iterators : jobs'[s] \in [Workers(s) -> Accounts \cup {Nobody}]
  BY <1>1, <1>4 DEF QueuesType, SameButJob
<1>5. ASSUME NEW t \in Iterators, NewPass(t) PROVE QueuesType'
  <2>1. /\ ids' = [ids EXCEPT ![t] = Reverse(SetToSeq(Items(t)))] /\ jobs' = jobs
        /\ Reverse(SetToSeq(Items(t))) \in Seq(Accounts)
    BY <1>1, <1>5, NewPassQueues
  <2>2. ids' \in [Iterators -> Seq(Accounts)]
    BY <1>3, <2>1
  <2> QED
    BY <1>1, <2>1, <2>2 DEF QueuesType
<1>6. ASSUME NEW t \in Iterators, NEW w \in Workers(t), Take(t, w) PROVE QueuesType'
  <2>1. /\ ids[t] # <<>> /\ ids' = [ids EXCEPT ![t] = Tail(ids[t])]
        /\ jobs' = jobs \/ SameButJob(t, w, Head(ids[t]))
    BY <1>1, <1>6, TakeQueues
  <2>2. Tail(ids[t]) \in Seq(Accounts)
    BY <1>1, <2>1 DEF QueuesType
  <2>3. ids' \in [Iterators -> Seq(Accounts)]
    BY <1>3, <2>1, <2>2
  <2> QED
    BY <1>1, <1>4, <2>1, <2>3 DEF QueuesType
<1>7. ASSUME NEW t \in Iterators, NEW w \in Workers(t), Answered(t, w) \/ Failed(t, w) PROVE QueuesType'
  <2>1. ids' = ids /\ SameButJob(t, w, Nobody)
    BY <1>1, <1>7, FreedQueues
  <2> QED
    BY <1>1, <1>4, <2>1 DEF QueuesType
<1>8. CASE ListStep \/ BatchStep \/ OtherStep \/ UNCHANGED vars
  BY <1>2, <1>8, ListStepsLeave, BatchStepsLeave, OtherStepsLeave DEF vars, schedule
<1>9. CASE Crash
  <2>1. ids' = [t \in Iterators |-> <<>>] /\ jobs' = [t \in Iterators |-> [w \in Workers(t) |-> Nobody]]
    BY <1>9, CrashQueues
  <2>2. <<>> \in Seq(Accounts)
    OBVIOUS
  <2> QED
    BY <2>1, <2>2 DEF QueuesType
<1> QED
  BY <1>5, <1>6, <1>7, <1>8, <1>9, StepKinds DEF PassStep

LEMMA BatchesTypeStep ==
  ASSUME Types, [Next]_vars
  PROVE  BatchesType'
<1> DEFINE B == [ids: Seq(Tokens), queue: Seq(Task), commit: Seq(Task), open: BOOLEAN]
<1>1. GoodRows(rows) /\ BatchesType /\ batches \in B /\ retry \subseteq Tokens
      /\ batches.ids \in Seq(Tokens) /\ batches.queue \in Seq(Task) /\ batches.commit \in Seq(Task)
  BY DEF Types, RowsType, BatchesType
<1>2. ASSUME batches' = batches, retry' = retry PROVE BatchesType'
  BY <1>1, <1>2 DEF BatchesType
<1>3. BatchSize \in Nat \ {0}
  BY CrawlAssumption
<1>4. <<>> \in Seq(Task) /\ <<>> \in Seq(Tokens) /\ Len(<<>>) = 0
  BY EmptySeq
<1>5. Waiting \in B /\ Len(Waiting.commit) <= BatchSize
  BY <1>3, <1>4 DEF Waiting
<1>6. ASSUME NEW size \in 0 .. BatchSize, NEW q \in Seq(Task), size <= Len(q)
      PROVE  SubSeq(q, 1, size) \in Seq(Task) /\ Len(SubSeq(q, 1, size)) <= BatchSize
  BY <1>3, <1>6
<1>7. BatchItems \subseteq Tokens
  <2>1. ASSUME NEW i \in DOMAIN batches.commit PROVE batches.commit[i].items \subseteq Tokens
    <3>1. batches.commit[i] \in Task
      BY <1>1
    <3> QED
      BY <3>1 DEF Task
  <2> QED
    BY <2>1 DEF BatchItems
<1>8. CASE OpenPass
  <2> DEFINE S == {token \in Tokens \ MPTs : UrlRows(token) # {}}
             s == Reverse(SetToSeq(S))
  <2>1. IsFiniteSet(S)
    BY CrawlAssumption, FS_Subset
  <2>2. s \in Seq(S) /\ S \subseteq Tokens
    <3> HIDE DEF S
    <3>1. s \in Seq(S)
      BY <2>1, InOrder
    <3> QED
      BY <3>1 DEF S
  <2>3. batches' = [Waiting EXCEPT !.open = TRUE, !.ids = s] /\ retry' = retry
    BY <1>8, Zenon DEF OpenPass, history
  <2> HIDE DEF S, s
  <2>4. s \in Seq(Tokens)
    BY <2>2
  <2>5. batches' \in B /\ batches'.commit = Waiting.commit
    BY <1>5, <2>3, <2>4
  <2> QED
    BY <1>1, <1>5, <2>3, <2>5 DEF BatchesType
<1>9. CASE Gather
  <2> DEFINE token == Head(batches.ids)
             queue == IF <<"x", token>> \in ops THEN batches.queue ELSE Accumulated(token)
             full == <<"x", token>> \notin ops /\ Len(queue) >= BatchSize
             rest == IF full THEN SubSeq(queue, BatchSize + 1, Len(queue)) ELSE queue
             batch == IF full THEN SubSeq(queue, 1, BatchSize) ELSE <<>>
             tail == Tail(batches.ids)
  <2>1. batches' = [batches EXCEPT !.ids = tail, !.commit = batch, !.queue = rest]
    BY <1>9, Zenon DEF Gather
  <2>2. retry' \subseteq retry
    BY <1>9 DEF Gather
  <2>3. batches.ids # <<>>
    BY <1>9 DEF Gather
  <2>4. token \in Tokens /\ tail \in Seq(Tokens)
    BY <1>1, <2>3
  <2>5. Accumulated(token) \in Seq(Task)
    BY <1>1, <2>4, AccumulatedIn
  <2>6. queue \in Seq(Task)
    BY <1>1, <2>5
  <2> HIDE DEF queue, token, tail
  <2>7. rest \in Seq(Task) /\ batch \in Seq(Task) /\ Len(batch) <= BatchSize
    <3>1. CASE full
      <4>1. SubSeq(queue, BatchSize + 1, Len(queue)) \in Seq(Task)
        BY <1>3, <2>6
      <4>2. BatchSize \in 0 .. BatchSize /\ BatchSize <= Len(queue)
        BY <1>3, <2>6, <3>1
      <4>3. SubSeq(queue, 1, BatchSize) \in Seq(Task) /\ Len(SubSeq(queue, 1, BatchSize)) <= BatchSize
        BY <1>6, <2>6, <4>2
      <4> QED
        BY <3>1, <4>1, <4>3
    <3>2. CASE ~full
      BY <1>3, <1>4, <2>6, <3>2
    <3> QED
      BY <3>1, <3>2
  <2> HIDE DEF full, rest, batch
  <2>8. batches' \in B /\ batches'.commit = batch
    BY <1>1, <2>1, <2>4, <2>7
  <2> QED
    BY <1>1, <2>2, <2>7, <2>8 DEF BatchesType
<1>10. CASE LastBatch
  <2> DEFINE size == Min({BatchSize, Len(batches.queue)})
             batch == SubSeq(batches.queue, 1, size)
  <2>1. \/ batches' = Waiting
        \/ batches' = [batches EXCEPT !.commit = batch, !.queue = <<>>]
    BY <1>10, Zenon DEF LastBatch
  <2>2. retry' = retry
    BY <1>10 DEF LastBatch, history
  <2>3. size \in 0 .. BatchSize /\ size <= Len(batches.queue)
    <3>1. Len(batches.queue) \in Nat
      BY <1>1
    <3>2. size = IF BatchSize <= Len(batches.queue) THEN BatchSize ELSE Len(batches.queue)
      BY <1>3, <3>1, MinOfTwo
    <3> QED
      BY <1>3, <3>1, <3>2
  <2>4. batch \in Seq(Task) /\ Len(batch) <= BatchSize
    <3> HIDE DEF size
    <3> QED
      BY <1>1, <1>6, <2>3
  <2> HIDE DEF batch
  <2>5. CASE batches' = Waiting
    BY <1>1, <1>5, <2>2, <2>5 DEF BatchesType
  <2>6. CASE batches' = [batches EXCEPT !.commit = batch, !.queue = <<>>]
    <3>1. batches' \in B /\ batches'.commit = batch
      BY <1>1, <1>4, <2>4, <2>6
    <3> QED
      BY <1>1, <2>2, <2>4, <3>1 DEF BatchesType
  <2> QED
    BY <2>1, <2>5, <2>6
<1>11. CASE BatchCommitted \/ BatchFailed
  <2>1. batches' = [batches EXCEPT !.commit = <<>>] /\ retry' \subseteq retry \cup BatchItems
    BY <1>11 DEF BatchCommitted, BatchFailed
  <2>2. batches' \in B /\ batches'.commit = <<>>
    BY <1>1, <1>4, <2>1
  <2> QED
    BY <1>1, <1>3, <1>4, <1>7, <2>1, <2>2 DEF BatchesType
<1>12. CASE ListStep \/ PassStep \/ OtherStep \/ UNCHANGED vars
  BY <1>2, <1>12, ListStepsLeave, PassStepsLeave, OtherStepsLeave DEF vars, schedule, history
<1>13. CASE Crash
  <2>1. batches' = Waiting /\ retry' = retry
    BY <1>13, CrashQueues
  <2> QED
    BY <1>1, <1>5, <2>1 DEF BatchesType
<1> QED
  BY <1>8, <1>9, <1>10, <1>11, <1>12, <1>13, StepKinds DEF BatchStep

LEMMA BoundsTypeStep ==
  ASSUME Types, [Next]_vars
  PROVE  BoundsType'
<1> USE CrawlAssumption
<1>1. BoundsType
  BY DEF Types
<1>2. Fetch => fetches' \in 0 .. MaxFetches
  BY <1>1 DEF Fetch, BoundsType
<1>3. ASSUME UNCHANGED <<changes, crashes>>, fetches' = fetches \/ Fetch PROVE BoundsType'
  BY <1>1, <1>2, <1>3 DEF BoundsType
<1>4. ASSUME NEW t \in Lists, Listed(t) \/ WriteChunk(t) \/ ChunkFails(t) \/ SweepChunk(t) \/ EndDiff(t) PROVE BoundsType'
  <2>1. fetches' = fetches \/ Fetch
    <3>1. Listed(t) => Fetch
      BY DEF Listed
    <3>2. WriteChunk(t) \/ ChunkFails(t) \/ SweepChunk(t) \/ EndDiff(t) => fetches' = fetches
      BY DEF WriteChunk, ChunkFails, SweepChunk, EndDiff, bounds
    <3> QED
      BY <1>4, <3>1, <3>2
  <2> QED
    BY <1>3, <1>4, <2>1, ListStepsLeave DEF ListStep
<1>5. ASSUME NEW t \in Iterators, NewPass(t) PROVE BoundsType'
  BY <1>3, <1>5 DEF NewPass, bounds
<1>6. ASSUME NEW t \in Iterators, NEW w \in Workers(t), Take(t, w) PROVE BoundsType'
  BY <1>3, <1>6 DEF Take
<1>7. ASSUME NEW t \in Iterators, NEW w \in Workers(t), Answered(t, w) \/ Failed(t, w) PROVE BoundsType'
  BY <1>3, <1>7 DEF Answered, Failed, bounds
<1>8. CASE BatchStep
  <2>1. fetches' = fetches \/ Fetch
    BY <1>8 DEF BatchStep, OpenPass, Gather, LastBatch, BatchCommitted, BatchFailed, bounds
  <2> QED
    BY <1>3, <1>8, <2>1, BatchStepsLeave
<1>9. CASE OtherStep
  <2>1. changes' = changes \/ (changes < MaxChanges /\ changes' = changes + 1)
    <3>1. \A t, s : Expire(t, s) => changes' = changes
      BY DEF Expire, bounds
    <3>2. \A a : LedgerDomain(a) => changes < MaxChanges /\ changes' = changes + 1
      BY DEF LedgerDomain
    <3>3. \A a : Serve(a) => changes' = changes
      BY DEF Serve, bounds
    <3> QED
      BY <1>9, <3>1, <3>2, <3>3 DEF OtherStep
  <2> QED
    BY <1>1, <1>9, <2>1, OtherStepsLeave DEF BoundsType
<1>10. CASE Crash
  BY <1>1, <1>10, CrashQueues DEF BoundsType
<1>11. CASE UNCHANGED vars
  BY <1>3, <1>11 DEF vars, bounds
<1> QED
  BY <1>4, <1>5, <1>6, <1>7, <1>8, <1>9, <1>10, <1>11, StepKinds DEF ListStep, PassStep

LEMMA TypesKept ==
  ASSUME Types, [Next]_vars
  PROVE  Types'
  BY RowsTypeStep, OpsTypeStep, ListsTypeStep, QueuesTypeStep, BatchesTypeStep, BoundsTypeStep DEF Types

LEMMA TypesAlways == Spec => []Types
<1>1. Init => Types
  BY TypesAtFirst
<1>2. Types /\ [Next]_vars => Types'
  BY TypesKept
<1> QED
  BY <1>1, <1>2, PTL DEF Spec

LEMMA TypesImplyTypeOK ==
  ASSUME Types
  PROVE  TypeOK
<1>1. RowsType /\ OpsType /\ ListsType /\ QueuesType /\ BatchesType /\ BoundsType
  BY DEF Types
<1>2. \A r \in rows : /\ r.subject \in Subjects
                      /\ r.value \in Nat
                      /\ \A q \in rows : [q EXCEPT !.value = 0] = [r EXCEPT !.value = 0] => q = r
  <2> SUFFICES ASSUME NEW r \in rows
               PROVE  /\ r.subject \in Subjects
                      /\ r.value \in Nat
                      /\ \A q \in rows : [q EXCEPT !.value = 0] = [r EXCEPT !.value = 0] => q = r
    OBVIOUS
  <2>1. r \in RowSet /\ rows \subseteq RowSet /\ Unique(rows)
    BY <1>1 DEF RowsType, GoodRows
  <2>2. r.subject \in Subjects /\ r.value \in Nat
    BY <2>1 DEF RowSet
  <2>3. ASSUME NEW q \in rows, [q EXCEPT !.value = 0] = [r EXCEPT !.value = 0] PROVE q = r
    <3>1. /\ [q EXCEPT !.value = 0].subject = q.subject /\ [r EXCEPT !.value = 0].subject = r.subject
          /\ [q EXCEPT !.value = 0].key = q.key /\ [r EXCEPT !.value = 0].key = r.key
          /\ [q EXCEPT !.value = 0].source = q.source /\ [r EXCEPT !.value = 0].source = r.source
      BY <2>1 DEF RowSet
    <3> QED
      BY <2>1, <2>3, <3>1 DEF Unique
  <2> QED
    BY <2>2, <2>3
<1>3. \A t \in Lists : lists[t].dirty \cup lists[t].icons \subseteq Subjects
  BY <1>1 DEF ListsType, ListType
<1>4. ASSUME NEW t \in Iterators PROVE Range(ids[t]) \subseteq Accounts /\ Range(jobs[t]) \subseteq Accounts \cup {Nobody}
  BY <1>1 DEF QueuesType, Range
<1>5. fetches <= MaxFetches /\ changes <= MaxChanges /\ crashes <= MaxCrashes
  BY <1>1, CrawlAssumption DEF BoundsType
<1> QED
  BY <1>1, <1>2, <1>3, <1>4, <1>5 DEF TypeOK, RowsType, OpsType, BatchesType

\* The variables have their types, a source has one value for a key of a
\* subject whatever is written and swept, and no batch is larger than its size.
THEOREM TypeCorrect == Spec => []TypeOK
<1>1. Types => TypeOK
  BY TypesImplyTypeOK
<1> QED
  BY <1>1, TypesAlways, PTL

---------------------------------------------------------------------------
(* One request for each item of a pass.                                    *)

LEMMA InQueue ==
  ASSUME NEW X, NEW s \in Seq(X)
  PROVE  /\ Range(s) = {s[i] : i \in 1 .. Len(s)}
         /\ s # <<>> /\ IsInjective(s) => /\ IsInjective(Tail(s))
                                         /\ Head(s) \notin Range(Tail(s))
                                         /\ Range(Tail(s)) \subseteq Range(s)
                                         /\ Head(s) \in Range(s)
<1>1. Len(s) \in Nat /\ DOMAIN s = 1 .. Len(s)
  OBVIOUS
<1>2. Range(s) = {s[i] : i \in 1 .. Len(s)}
  BY <1>1 DEF Range
<1>3. ASSUME s # <<>>, IsInjective(s)
      PROVE  /\ IsInjective(Tail(s)) /\ Head(s) \notin Range(Tail(s))
             /\ Range(Tail(s)) \subseteq Range(s) /\ Head(s) \in Range(s)
  <2>1. /\ Len(s) > 0 /\ Head(s) = s[1] /\ DOMAIN Tail(s) = 1 .. Len(s) - 1
        /\ \A i \in 1 .. Len(s) - 1 : Tail(s)[i] = s[i + 1]
    BY <1>1, <1>3
  <2>2. \A i, j \in 1 .. Len(s) : s[i] = s[j] => i = j
    BY <1>1, <1>3 DEF IsInjective
  <2>3. IsInjective(Tail(s))
    <3>1. \A i \in 1 .. Len(s) - 1 : i + 1 \in 1 .. Len(s)
      BY <1>1
    <3>2. \A i, j \in 1 .. Len(s) - 1 : Tail(s)[i] = Tail(s)[j] => i + 1 = j + 1
      BY <2>1, <2>2, <3>1
    <3>3. \A i, j \in 1 .. Len(s) - 1 : i + 1 = j + 1 => i = j
      OBVIOUS
    <3> QED
      BY <2>1, <3>2, <3>3 DEF IsInjective
  <2>4. Head(s) \notin Range(Tail(s))
    <3>1. \A i \in 1 .. Len(s) - 1 : i + 1 \in 1 .. Len(s) /\ i + 1 # 1 /\ 1 \in 1 .. Len(s)
      BY <1>1, <2>1
    <3>2. \A i \in 1 .. Len(s) - 1 : Tail(s)[i] # Head(s)
      BY <2>1, <2>2, <3>1
    <3> QED
      BY <2>1, <3>2 DEF Range
  <2>5. Range(Tail(s)) \subseteq Range(s) /\ Head(s) \in Range(s)
    <3>1. \A i \in 1 .. Len(s) - 1 : i + 1 \in 1 .. Len(s) /\ 1 \in 1 .. Len(s)
      BY <1>1, <2>1
    <3>2. 1 \in 1 .. Len(s)
      BY <1>1, <2>1
    <3> QED
      BY <1>1, <2>1, <3>1, <3>2 DEF Range
  <2> QED
    BY <2>3, <2>4, <2>5
<1> QED
  BY <1>2, <1>3

\* No item is twice in a queue.
NoneTwice == \A t \in Iterators : IsInjective(ids[t])

\* An item is at one worker at most.
Separate(t, i, j, o) ==
  \A w \in Workers(t) : j[w] \in Accounts =>
     /\ j[w] \notin Range(i)
     /\ <<t, j[w]>> \notin o
     /\ \A v \in Workers(t) \ {w} : j[v] # j[w]

LEMMA Separated == OneFetchEach <=> \A t \in Iterators : Separate(t, ids[t], jobs[t], ops)
  BY DEF OneFetchEach, Separate

LEMMA FetchStep ==
  ASSUME Types, NoneTwice, OneFetchEach, [Next]_vars
  PROVE  NoneTwice' /\ OneFetchEach'
<1>1. /\ QueuesType /\ \A t \in Iterators : ids[t] \in Seq(Accounts)
      /\ \A t \in Iterators : Separate(t, ids[t], jobs[t], ops)
  BY Separated DEF Types, QueuesType
<1>2. (\A t \in Iterators : Separate(t, ids'[t], jobs'[t], ops')) => OneFetchEach'
  BY DEF OneFetchEach, Separate
<1> DEFINE Fewer == \A t \in Iterators : \A a \in Accounts : <<t, a>> \in ops' => <<t, a>> \in ops
<1>3. ASSUME ids' = ids, jobs' = jobs, Fewer PROVE NoneTwice' /\ OneFetchEach'
  <2>1. \A t \in Iterators : Separate(t, ids'[t], jobs'[t], ops')
    BY <1>1, <1>3 DEF Separate
  <2> QED
    BY <1>2, <1>3, <2>1 DEF NoneTwice
<1>4. ASSUME NEW t \in Iterators, NewPass(t) PROVE NoneTwice' /\ OneFetchEach'
  <2> DEFINE s == Reverse(SetToSeq(Items(t)))
  <2>1. /\ ids' = [ids EXCEPT ![t] = s] /\ jobs' = jobs /\ ops' = ops
        /\ \A w \in Workers(t) : jobs[t][w] = Nobody
        /\ IsInjective(s)
    BY <1>1, <1>4, NewPassQueues
  <2> HIDE DEF s
  <2>2. ids'[t] = s /\ \A u \in Iterators \ {t} : ids'[u] = ids[u]
    BY <2>1 DEF QueuesType, Types
  <2>3. Separate(t, ids'[t], jobs'[t], ops')
    BY <2>1, NobodyAssumption DEF Separate
  <2>4. \A u \in Iterators : Separate(u, ids'[u], jobs'[u], ops')
    BY <1>1, <2>1, <2>2, <2>3
  <2>5. NoneTwice'
    BY <2>1, <2>2 DEF NoneTwice
  <2> QED
    BY <1>2, <2>4, <2>5
<1>5. ASSUME NEW t \in Iterators, NEW w \in Workers(t), Take(t, w) PROVE NoneTwice' /\ OneFetchEach'
  <2> DEFINE s == ids[t]
             item == Head(s)
  <2>1. /\ s # <<>> /\ item \in Accounts /\ jobs[t][w] = Nobody
        /\ ids' = [ids EXCEPT ![t] = Tail(s)]
        /\ \/ jobs' = jobs /\ ops' \subseteq ops \cup {<<t, item>>}
           \/ SameButJob(t, w, item) /\ ops' = ops /\ <<t, item>> \notin ops
    BY <1>1, <1>5, TakeQueues
  <2>2. s \in Seq(Accounts) /\ IsInjective(s)
    BY <1>1 DEF NoneTwice
  <2> HIDE DEF s
  <2>3. /\ IsInjective(Tail(s)) /\ item \notin Range(Tail(s))
        /\ Range(Tail(s)) \subseteq Range(s) /\ item \in Range(s)
    BY <2>1, <2>2, InQueue
  <2> HIDE DEF item
  <2>4. ids'[t] = Tail(s) /\ \A u \in Iterators \ {t} : ids'[u] = ids[u]
    BY <2>1 DEF QueuesType, Types
  <2>5. NoneTwice'
    BY <2>3, <2>4 DEF NoneTwice
  <2>6. \A u \in Iterators \ {t} : /\ jobs'[u] = jobs[u]
                                   /\ \A a : <<u, a>> \in ops' => <<u, a>> \in ops
    BY <2>1 DEF SameButJob
  <2>7. \A u \in Iterators \ {t} : Separate(u, ids'[u], jobs'[u], ops')
    BY <1>1, <2>4, <2>6 DEF Separate
  <2>8. Separate(t, s, jobs[t], ops)
    BY <1>1 DEF s
  <2>9. Separate(t, ids'[t], jobs'[t], ops')
    <3>1. CASE jobs' = jobs /\ ops' \subseteq ops \cup {<<t, item>>}
      BY <2>3, <2>4, <2>8, <3>1 DEF Separate
    <3>2. CASE SameButJob(t, w, item) /\ ops' = ops /\ <<t, item>> \notin ops
      <4>1. jobs'[t][w] = item /\ \A v \in Workers(t) \ {w} : jobs'[t][v] = jobs[t][v]
        BY <3>2 DEF SameButJob
      <4>2. \A v \in Workers(t) \ {w} : jobs[t][v] # item
        BY <2>1, <2>3, <2>8 DEF Separate
      <4> QED
        BY <2>1, <2>3, <2>4, <2>8, <3>2, <4>1, <4>2 DEF Separate
    <3> QED
      BY <2>1, <3>1, <3>2
  <2>10. \A u \in Iterators : Separate(u, ids'[u], jobs'[u], ops')
    BY <2>7, <2>9
  <2> QED
    BY <1>2, <2>5, <2>10
<1>6. ASSUME NEW t \in Iterators, NEW w \in Workers(t), Answered(t, w) \/ Failed(t, w)
      PROVE  NoneTwice' /\ OneFetchEach'
  <2> DEFINE item == jobs[t][w]
  <2>1. item \in Accounts /\ ids' = ids /\ ops' = ops \cup {<<t, item>>} /\ SameButJob(t, w, Nobody)
    BY <1>1, <1>6, FreedQueues
  <2>2. Separate(t, ids[t], jobs[t], ops)
    BY <1>1
  <2>3. jobs'[t][w] = Nobody /\ \A v \in Workers(t) \ {w} : jobs'[t][v] = jobs[t][v]
    BY <2>1 DEF SameButJob
  <2>4. \A v \in Workers(t) \ {w} : jobs[t][v] # item
    BY <2>1, <2>2 DEF Separate
  <2> HIDE DEF item
  <2>5. Separate(t, ids'[t], jobs'[t], ops')
    BY <2>1, <2>2, <2>3, <2>4, NobodyAssumption DEF Separate
  <2>6. \A u \in Iterators \ {t} : /\ jobs'[u] = jobs[u]
                                   /\ \A a : <<u, a>> \in ops' => <<u, a>> \in ops
    BY <2>1 DEF SameButJob
  <2>7. \A u \in Iterators \ {t} : Separate(u, ids'[u], jobs'[u], ops')
    BY <1>1, <2>1, <2>6 DEF Separate
  <2>8. NoneTwice'
    BY <2>1 DEF NoneTwice
  <2>9. \A u \in Iterators : Separate(u, ids'[u], jobs'[u], ops')
    BY <2>5, <2>7
  <2> QED
    BY <1>2, <2>8, <2>9
<1>7. CASE ListStep
  <2>1. \A t \in Lists : Listed(t) \/ WriteChunk(t) \/ ChunkFails(t) \/ SweepChunk(t) \/ EndDiff(t)
                         => ops' \subseteq ops \cup {<<t, Global>>}
    BY DEF Listed, WriteChunk, ChunkFails, SweepChunk, EndDiff
  <2>2. \A t \in Lists : t \notin Iterators
    BY DEF Lists, Iterators
  <2>3. Fewer
    BY <1>7, <2>1, <2>2 DEF ListStep
  <2> QED
    BY <1>3, <1>7, <2>3, ListStepsLeave
<1>8. CASE BatchStep
  <2>1. ops' \subseteq ops \cup ({"x"} \X BatchItems)
    BY <1>8 DEF BatchStep, OpenPass, Gather, LastBatch, BatchCommitted, BatchFailed
  <2>2. "x" \notin Iterators
    BY DEF Iterators
  <2>3. Fewer
    BY <2>1, <2>2
  <2> QED
    BY <1>3, <1>8, <2>3, BatchStepsLeave
<1>9. CASE OtherStep
  <2>1. ops' \subseteq ops
    <3>1. \A t, s : Expire(t, s) => ops' \subseteq ops
      BY DEF Expire
    <3>2. \A a : LedgerDomain(a) \/ Serve(a) => ops' \subseteq ops
      BY DEF LedgerDomain, Serve
    <3> QED
      BY <1>9, <3>1, <3>2 DEF OtherStep
  <2> QED
    BY <1>3, <1>9, <2>1, OtherStepsLeave
<1>10. CASE Crash
  <2>1. ids' = [t \in Iterators |-> <<>>] /\ jobs' = [t \in Iterators |-> [w \in Workers(t) |-> Nobody]]
    BY <1>10, CrashQueues
  <2>2. \A t \in Iterators : \A w \in Workers(t) : jobs'[t][w] \notin Accounts
    BY <2>1, NobodyAssumption
  <2>3. IsInjective(<<>>)
    BY DEF IsInjective
  <2>4. NoneTwice'
    BY <2>1, <2>3 DEF NoneTwice
  <2> QED
    BY <2>2, <2>4 DEF OneFetchEach
<1>11. CASE UNCHANGED vars
  BY <1>3, <1>11 DEF vars, schedule
<1> QED
  BY <1>4, <1>5, <1>6, <1>7, <1>8, <1>9, <1>10, <1>11, StepKinds DEF PassStep

LEMMA FetchesAlways == Spec => [](Types /\ NoneTwice /\ OneFetchEach)
<1>1. Init => NoneTwice /\ OneFetchEach
  <2>1. IsInjective(<<>>)
    BY DEF IsInjective
  <2> QED
    BY <2>1, NobodyAssumption DEF Init, NoneTwice, OneFetchEach
<1>2. Types /\ NoneTwice /\ OneFetchEach /\ [Next]_vars => NoneTwice' /\ OneFetchEach'
  BY FetchStep
<1> QED
  BY <1>1, <1>2, TypesAlways, PTL DEF Spec

\* A pass asks once for each item, however many workers share it: an item at a
\* worker is at no other, no longer in the queue and not yet done.
THEOREM OneFetchEachHolds == Spec => []OneFetchEach
  BY FetchesAlways, PTL

---------------------------------------------------------------------------
(* What has changed is marked.                                             *)

Covered(b, marks, ls) == b \in marks \/ \E t \in Lists : b \in Marks(ls[t].dirty, ls[t].icons)

LEMMA ChangesCovered ==
  ChangesMarked <=> \A b \in behind \ ({"props"} \X MPTs) : Covered(b, todos \cup lost, lists)
  BY DEF ChangesMarked, Covered

\* Marks that are added, and changes that they mark.
LEMMA MoreMarks ==
  ASSUME ChangesMarked, NEW marks, behind' \subseteq behind \cup marks,
         todos \cup lost \subseteq todos' \cup lost',
         \A s \in Lists : lists[s].dirty \subseteq lists'[s].dirty /\ lists[s].icons \subseteq lists'[s].icons,
         \A b \in marks : Covered(b, todos' \cup lost', lists')
  PROVE  ChangesMarked'
<1>1. \A b \in behind \ ({"props"} \X MPTs) : Covered(b, todos \cup lost, lists)
  BY ChangesCovered
<1>2. ASSUME NEW b, Covered(b, todos \cup lost, lists) PROVE Covered(b, todos' \cup lost', lists')
  <2>1. CASE b \in todos \cup lost
    BY <2>1 DEF Covered
  <2>2. ASSUME NEW s \in Lists, b \in Marks(lists[s].dirty, lists[s].icons)
        PROVE  Covered(b, todos' \cup lost', lists')
    <3>1. b \in Marks(lists'[s].dirty, lists'[s].icons)
      BY <2>2 DEF Marks
    <3> QED
      BY <3>1 DEF Covered
  <2> QED
    BY <1>2, <2>1, <2>2 DEF Covered
<1>3. \A b \in behind' \ ({"props"} \X MPTs) : Covered(b, todos' \cup lost', lists')
  BY <1>1, <1>2
<1> QED
  BY <1>3 DEF ChangesMarked, Covered

LEMMA CommitMarked ==
  ASSUME ChangesMarked, NEW after, NEW marks, Commit(after, marks), Differences(rows, after) \subseteq marks,
         lists' = lists
  PROVE  ChangesMarked'
<1>1. todos' = todos \cup marks /\ behind' = behind \cup Differences(rows, after) /\ lost' = lost
  BY DEF Commit
<1>2. \A b \in marks : Covered(b, todos' \cup lost', lists')
  BY <1>1 DEF Covered
<1> QED
  BY <1>1, <1>2, MoreMarks

LEMMA SomeLeft ==
  ASSUME NEW rs, NEW some
  PROVE  /\ Changed(rs, rs \ some) \subseteq {r.subject : r \in some}
         /\ IconChanged(rs, rs \ some) \subseteq {r.subject : r \in some}
  BY DEF Changed, IconChanged

\* What a chunk changes, it has to mark.
LEMMA ChunkMarks ==
  ASSUME ListsType, NEW t \in Lists, Diffing(t), Diff(t).entries # <<>>
  PROVE  /\ Changed(rows, Chunk(t).rows) \subseteq Chunk(t).dirty
         /\ IconChanged(rows, Chunk(t).rows) \subseteq Chunk(t).icons
         /\ lists[t].dirty \subseteq Chunk(t).dirty /\ lists[t].icons \subseteq Chunk(t).icons
         /\ \A r : r.source # t => (r \in Chunk(t).rows <=> r \in rows)
<1> DEFINE d == [rows |-> rows, kept |-> lists[t].kept, dirty |-> lists[t].dirty, icons |-> lists[t].icons]
           e == Diff(t).entries
           size == Min({ChunkSize, Len(e)})
           part == SubSeq(e, 1, size)
<1>1. PICK S : e \in Seq(EntriesOf(S))
  BY EntriesIn
<1>2. size \in Nat /\ DOMAIN part = 1 .. size
  <2>1. e # <<>>
    OBVIOUS
  <2> HIDE DEF e
  <2>2. size \in 1 .. Len(e)
    BY <1>1, <2>1, ChunkOf
  <2> HIDE DEF size
  <2>3. DOMAIN part = 1 .. size
    BY <1>1, <2>1, <2>2, ChunkOf
  <2>4. size \in Nat
    BY <1>1, <2>2
  <2> QED
    BY <2>3, <2>4
<1>3. d.rows = rows /\ d.dirty = lists[t].dirty /\ d.icons = lists[t].icons
  OBVIOUS
<1>4. Chunk(t) = Diffed(d, part, t)
  BY Zenon DEF Chunk
<1> HIDE DEF d, part, size
<1>5. /\ \A r : r.source # t => (r \in Diffed(d, part, t).rows <=> r \in d.rows)
      /\ Changed(d.rows, Diffed(d, part, t).rows) \subseteq Diffed(d, part, t).dirty
      /\ IconChanged(d.rows, Diffed(d, part, t).rows) \subseteq Diffed(d, part, t).icons
      /\ d.dirty \subseteq Diffed(d, part, t).dirty /\ d.icons \subseteq Diffed(d, part, t).icons
  BY <1>2, DiffedFacts
<1> QED
  BY <1>3, <1>4, <1>5

\* The writes of a crawler that asks for each item.
LEMMA WritesMarked ==
  ASSUME NEW writes \in Seq(EntriesOf(Subjects)), NEW source
  PROVE  Differences(rows, Written(writes, source)) \subseteq MarksOfAll(writes)
<1>1. Len(writes) \in Nat /\ DOMAIN writes = 1 .. Len(writes)
  OBVIOUS
<1> QED
  BY <1>1, WrittenFacts

LEMMA MarkedStep ==
  ASSUME Types, ChangesMarked, [Next]_vars
  PROVE  ChangesMarked'
<1>1. RowsType /\ ListsType /\ QueuesType /\ BatchesType
  BY DEF Types
<1>2. ASSUME behind' = behind, todos' = todos, lost' = lost, lists' = lists PROVE ChangesMarked'
  BY <1>2 DEF ChangesMarked
<1>3. ASSUME NEW t \in Lists, Listed(t) PROVE ChangesMarked'
  <2>1. behind' = behind /\ todos' = todos /\ lost' = lost
    BY <1>3 DEF Listed, history
  <2>2. CASE lists' = lists
    BY <1>2, <2>1, <2>2
  <2>3. CASE lists' # lists
    <3>1. \A s \in Lists \ {t} : lists'[s] = lists[s]
      BY <1>1, <1>3, <2>3, ListedList
    <3>2. lists[t].dirty = {} /\ lists[t].icons = {}
      <4>1. lists[t] = Idle
        BY Zenon, <1>3 DEF Listed
      <4>2. Idle.dirty = {} /\ Idle.icons = {}
        BY DEF Idle
      <4> QED
        BY <4>1, <4>2
    <3>3. \A s \in Lists : lists[s].dirty \subseteq lists'[s].dirty /\ lists[s].icons \subseteq lists'[s].icons
      BY <3>1, <3>2
    <3> DEFINE none == {}
    <3>4. behind' \subseteq behind \cup none /\ todos \cup lost \subseteq todos' \cup lost'
      BY <2>1
    <3>5. \A b \in none : Covered(b, todos' \cup lost', lists')
      OBVIOUS
    <3> HIDE DEF none
    <3> QED
      BY <3>3, <3>4, <3>5, MoreMarks
  <2> QED
    BY <2>2, <2>3
<1>4. ASSUME NEW t \in Lists, WriteChunk(t) PROVE ChangesMarked'
  <2> DEFINE new == Differences(rows, Chunk(t).rows)
  <2>1. Diffing(t) /\ Diff(t).entries # <<>>
    BY <1>4 DEF WriteChunk
  <2>2. /\ Changed(rows, Chunk(t).rows) \subseteq Chunk(t).dirty
        /\ IconChanged(rows, Chunk(t).rows) \subseteq Chunk(t).icons
        /\ lists[t].dirty \subseteq Chunk(t).dirty /\ lists[t].icons \subseteq Chunk(t).icons
    BY <1>1, <2>1, ChunkMarks
  <2>3. /\ IsAfterChunk(lists'[t], lists[t], Min({ChunkSize, Len(Diff(t).entries)}),
                        Chunk(t).kept, Chunk(t).dirty, Chunk(t).icons)
        /\ \A s \in Lists \ {t} : lists'[s] = lists[s]
        /\ Commit(Chunk(t).rows, {})
    BY <1>1, <1>4, WrittenList
  <2>4. ListType(t, lists[t]) /\ lists[t] # Idle
    BY <1>1, <2>1 DEF ListsType, Diffing
  <2>5. Min({ChunkSize, Len(Diff(t).entries)}) \in 1 .. Len(lists[t].diffs[1].entries)
    <3>1. Diff(t) = lists[t].diffs[1]
      BY <1>1, <2>1, DiffIs
    <3>2. Min({ChunkSize, Len(Diff(t).entries)}) \in 1 .. Len(Diff(t).entries)
      BY <1>1, <2>1, EntriesIn, ChunkOf
    <3> QED
      BY <3>1, <3>2
  <2>6. /\ Chunk(t).kept \subseteq Subjects \X Names
        /\ Chunk(t).dirty \subseteq Subjects /\ Chunk(t).icons \subseteq Subjects
    BY <1>1, <2>1, ChunkGood
  <2>7. lists'[t].dirty = Chunk(t).dirty /\ lists'[t].icons = Chunk(t).icons
    <3> DEFINE size == Min({ChunkSize, Len(Diff(t).entries)})
    <3>1. IsAfterChunk(lists'[t], lists[t], size, Chunk(t).kept, Chunk(t).dirty, Chunk(t).icons)
          /\ size \in 1 .. Len(lists[t].diffs[1].entries)
      BY <2>3, <2>5
    <3> HIDE DEF size
    <3> QED
      BY <2>4, <2>6, <3>1, ListAfterChunk
  <2>8. todos' = todos /\ lost' = lost /\ behind' = behind \cup new
    BY <2>3 DEF Commit
  <2>9. \A s \in Lists : lists[s].dirty \subseteq lists'[s].dirty /\ lists[s].icons \subseteq lists'[s].icons
    BY <2>2, <2>3, <2>7
  <2>10. new \subseteq Marks(lists'[t].dirty, lists'[t].icons)
    BY <2>2, <2>7 DEF Differences, Marks
  <2>11. \A b \in new : Covered(b, todos' \cup lost', lists')
    BY <2>10 DEF Covered
  <2> HIDE DEF new
  <2> QED
    BY <2>8, <2>9, <2>11, MoreMarks
<1>5. ASSUME NEW t \in Lists, SweepChunk(t) PROVE ChangesMarked'
  <2>1. PICK slice \in SUBSET Unswept(t) :
           /\ Swept(slice)
           /\ lists'[t].icons = lists[t].icons
           /\ lists'[t].dirty = lists[t].dirty \cup {r.subject : r \in slice}
           /\ \A s \in Lists \ {t} : lists'[s] = lists[s]
    BY <1>1, <1>5, SweptList
  <2> DEFINE new == Marks(Changed(rows, rows'), {})
  <2>2. rows' = rows \ slice /\ behind' = behind \cup new /\ todos' = todos /\ lost' = lost
    BY <2>1 DEF Swept
  <2>3. Changed(rows, rows') \subseteq {r.subject : r \in slice}
    BY <2>2, SomeLeft
  <2>4. \A s \in Lists : lists[s].dirty \subseteq lists'[s].dirty /\ lists[s].icons \subseteq lists'[s].icons
    BY <2>1
  <2>5. new \subseteq Marks(lists'[t].dirty, lists'[t].icons)
    BY <2>1, <2>3 DEF Marks
  <2>6. \A b \in new : Covered(b, todos' \cup lost', lists')
    BY <2>5 DEF Covered
  <2> HIDE DEF new
  <2> QED
    BY <2>2, <2>4, <2>6, MoreMarks
<1>6. ASSUME NEW t \in Lists, EndDiff(t) PROVE ChangesMarked'
  <2>1. todos' = todos \cup MarksDue(t) /\ behind' = behind /\ lost' = lost
    BY <1>6 DEF EndDiff, history
  <2>2. \A s \in Lists \ {t} : lists'[s] = lists[s]
    BY <1>1, <1>6, EndedList
  <2>3. \A b \in Marks(lists[t].dirty, lists[t].icons) \ ({"props"} \X MPTs) : b \in MarksDue(t)
    BY <1>6 DEF EndDiff, MarksDue, Deduped, Marks
  <2>4. \A b \in behind \ ({"props"} \X MPTs) : Covered(b, todos \cup lost, lists)
    BY ChangesCovered
  <2>5. \A b \in behind \ ({"props"} \X MPTs) : Covered(b, todos' \cup lost', lists')
    BY <2>1, <2>2, <2>3, <2>4 DEF Covered
  <2> QED
    BY <2>1, <2>5 DEF ChangesMarked, Covered
<1>6a. ASSUME NEW t \in Lists, ChunkFails(t) PROVE ChangesMarked'
  <2> DEFINE forgotten == Marks(lists[t].dirty, lists[t].icons)
  <2>1. /\ todos' = todos /\ behind' = behind
        /\ \A s \in Lists \ {t} : lists'[s] = lists[s]
    BY <1>1, <1>6a, FailedList
  <2>2. lost' = lost \cup ((behind \cap forgotten) \ todos)
    BY <1>6a DEF ChunkFails
  <2> HIDE DEF forgotten
  <2>3. \A b \in behind \ ({"props"} \X MPTs) : Covered(b, todos \cup lost, lists)
    BY ChangesCovered
  <2>4. ASSUME NEW b \in behind, Covered(b, todos \cup lost, lists)
        PROVE  Covered(b, todos' \cup lost', lists')
    <3>1. CASE b \in todos \cup lost \cup forgotten
      BY <2>1, <2>2, <3>1 DEF Covered
    <3>2. CASE b \notin todos \cup lost \cup forgotten
      <4>1. PICK s \in Lists : b \in Marks(lists[s].dirty, lists[s].icons)
        BY <2>4, <3>2 DEF Covered
      <4>2. lists'[s] = lists[s]
        BY <2>1, <3>2, <4>1 DEF forgotten
      <4> QED
        BY <4>1, <4>2 DEF Covered
    <3> QED
      BY <3>1, <3>2
  <2>5. \A b \in behind' \ ({"props"} \X MPTs) : Covered(b, todos' \cup lost', lists')
    BY <2>1, <2>3, <2>4
  <2> QED
    BY <2>5 DEF ChangesMarked, Covered
<1>7. ASSUME NEW t \in Iterators, NewPass(t) PROVE ChangesMarked'
  BY <1>2, <1>7 DEF NewPass, history
<1>8. ASSUME NEW t \in Iterators, NEW w \in Workers(t), Take(t, w) PROVE ChangesMarked'
  <2> DEFINE item == Head(ids[t])
  <2>1. item \in Accounts /\ lists' = lists
    BY <1>1, <1>8 DEF QueuesType, Take
  <2>2. CASE UNCHANGED <<todos, behind, lost>>
    BY <1>2, <2>1, <2>2
  <2>3. ASSUME NEW writes \in Direct(t, item),
               Commit(Written(writes, t), MarksOfAll(writes))
        PROVE  ChangesMarked'
    <3>1. writes \in Seq(EntriesOf(Subjects))
      BY <2>1, AnswersIn
    <3>2. Differences(rows, Written(writes, t)) \subseteq MarksOfAll(writes)
      BY <3>1, WritesMarked
    <3> QED
      BY <2>1, <2>3, <3>2, CommitMarked
  <2>4. ASSUME NEW subjects, subjects = {r.subject : r \in Cleared(item)},
               Commit(rows \ Cleared(item), Marks(subjects, subjects))
        PROVE  ChangesMarked'
    <3>1. Differences(rows, rows \ Cleared(item)) \subseteq Marks(subjects, subjects)
      BY <2>4, SomeLeft DEF Differences, Marks
    <3> QED
      BY <2>1, <2>4, <3>1, CommitMarked
  <2>5. \/ UNCHANGED <<todos, behind, lost>>
        \/ \E writes \in Direct(t, item) : Commit(Written(writes, t), MarksOfAll(writes))
        \/ Commit(rows \ Cleared(item), Marks({r.subject : r \in Cleared(item)}, {r.subject : r \in Cleared(item)}))
    BY <1>8 DEF Take, MarksOfAll
  <2> QED
    BY <2>2, <2>3, <2>4, <2>5
<1>9. ASSUME NEW t \in Iterators, NEW w \in Workers(t), Answered(t, w) PROVE ChangesMarked'
  <2>1. PICK writes \in Answers(t, jobs[t][w]) : Commit(Written(writes, t), MarksOfAll(writes))
    BY <1>9 DEF Answered, MarksOfAll
  <2>2. jobs[t][w] \in Accounts /\ lists' = lists
    BY <1>9 DEF Answered
  <2>3. writes \in Seq(EntriesOf(Subjects))
    BY <2>1, <2>2, AnswersIn
  <2>4. Differences(rows, Written(writes, t)) \subseteq MarksOfAll(writes)
    BY <2>3, WritesMarked
  <2> QED
    BY <2>1, <2>2, <2>4, CommitMarked
<1>10. ASSUME NEW t \in Iterators, NEW w \in Workers(t), Failed(t, w) PROVE ChangesMarked'
  BY <1>2, <1>10 DEF Failed, history
<1>11. CASE BatchStep
  <2>1. CASE OpenPass \/ Gather \/ LastBatch \/ BatchFailed
    BY <1>2, <2>1 DEF OpenPass, Gather, LastBatch, BatchFailed, history
  <2>2. CASE BatchCommitted
    <3>1. PICK profiles \in Profiles : Commit(Written(BatchWrites(profiles), "x"), MarksOfAll(BatchWrites(profiles)))
      BY <2>2 DEF BatchCommitted, BatchWrites, MarksOfAll
    <3>2. BatchWrites(profiles) \in Seq(EntriesOf(Subjects))
      BY <1>1, BatchWritesIn
    <3>3. Differences(rows, Written(BatchWrites(profiles), "x")) \subseteq MarksOfAll(BatchWrites(profiles))
      BY <3>2, WritesMarked
    <3>4. lists' = lists
      BY <2>2 DEF BatchCommitted
    <3> QED
      BY <3>1, <3>3, <3>4, CommitMarked
  <2> QED
    BY <1>11, <2>1, <2>2 DEF BatchStep
<1>12. CASE OtherStep
  <2>1. lists' = lists
    BY <1>12, OtherStepsLeave
  <2>2. ASSUME NEW t, NEW s, Expire(t, s) PROVE ChangesMarked'
    BY <1>2, <2>1, <2>2 DEF Expire, history
  <2>3. ASSUME NEW a, LedgerDomain(a) PROVE ChangesMarked'
    BY <2>1, <2>3 DEF LedgerDomain, ChangesMarked
  <2>4. ASSUME NEW a, Serve(a) PROVE ChangesMarked'
    BY <2>1, <2>4 DEF Serve, ChangesMarked
  <2> QED
    BY <1>12, <2>2, <2>3, <2>4 DEF OtherStep
<1>13. CASE Crash
  <2>1. \A after, marks : Restart(after, marks) => behind' \ todos' \subseteq lost'
    BY DEF Restart
  <2>2. behind' \ todos' \subseteq lost'
    BY <1>13, <2>1 DEF Crash
  <2> QED
    BY <2>2 DEF ChangesMarked
<1>14. CASE UNCHANGED vars
  BY <1>2, <1>14 DEF vars, history, schedule
<1> QED
  BY <1>3, <1>4, <1>5, <1>6, <1>6a, <1>7, <1>8, <1>9, <1>10, <1>11, <1>12, <1>13, <1>14,
     StepKinds
     DEF ListStep, PassStep

\* Whatever a crawler or a ledger has changed is marked for the cache, or will
\* be at the end of the diff that has changed it, unless a crash or its failure came
\* between.
THEOREM ChangesMarkedHolds == Spec => []ChangesMarked
<1>1. Init => ChangesMarked
  BY DEF Init, ChangesMarked
<1>2. Types /\ ChangesMarked /\ [Next]_vars => ChangesMarked'
  BY MarkedStep
<1> QED
  BY <1>1, <1>2, TypesAlways, PTL DEF Spec

---------------------------------------------------------------------------
(* Who has passed kyc keeps it.                                            *)

HasPassed(account, rs) == Row(account, "kyc", "kyc", Yes) \in rs
SameApproved(accounts) == \A account \in accounts : HasPassed(account, rows') <=> HasPassed(account, rows)

LEMMA OtherSource ==
  ASSUME NEW source, source # "kyc", \A r : r.source # source => (r \in rows' <=> r \in rows)
  PROVE  SameApproved(Accounts)
  BY RowIn DEF SameApproved, HasPassed

\* What a crawler writes of the items it asks for.
LEMMA WritesApprove ==
  ASSUME NEW t \in Iterators, NEW account \in Accounts, NEW writes \in Answers(t, account),
         NEW n \in Nat, n <= Len(writes), rows' = Written(SubSeq(writes, 1, n), t)
  PROVE  SameApproved(IF t = "kyc" THEN Accounts \ {account} ELSE Accounts)
<1> DEFINE part == SubSeq(writes, 1, n)
<1>1. writes \in Seq(EntriesOf(Subjects))
  BY AnswersIn
<1>2. DOMAIN part = 1 .. n /\ \A i \in 1 .. n : part[i] = writes[i] /\ i \in 1 .. Len(writes)
  BY <1>1
<1>3. rows' = Written(part, t)
  OBVIOUS
<1> HIDE DEF part
<1>4. /\ \A r : r.source # t => (r \in Written(part, t) <=> r \in rows)
      /\ \A subject : (\A i \in 1 .. n : part[i].subject # subject) =>
           \A r : r.subject = subject => (r \in Written(part, t) <=> r \in rows)
  BY <1>2, WrittenFacts
<1>5. CASE t # "kyc"
  BY <1>3, <1>4, <1>5, OtherSource
<1>6. CASE t = "kyc"
  <2>1. \A i \in 1 .. Len(writes) : writes[i].subject = account
    BY <1>6 DEF Answers, Entry
  <2>2. ASSUME NEW a \in Accounts \ {account} PROVE HasPassed(a, rows') <=> HasPassed(a, rows)
    <3>1. \A i \in 1 .. n : part[i].subject # a
      BY <1>2, <2>1
    <3>2. \A r : r.subject = a => (r \in rows' <=> r \in rows)
      BY <1>3, <1>4, <3>1
    <3> QED
      BY <3>2, RowIn DEF HasPassed
  <2> QED
    BY <1>6, <2>2 DEF SameApproved
<1> QED
  BY <1>5, <1>6

LEMMA KycRows ==
  ASSUME Types, [Next]_vars
  PROVE  \/ SameApproved(Accounts)
         \/ \E w \in Workers("kyc") : /\ Answered("kyc", w) \/ Crash
                                      /\ jobs["kyc"][w] \in Accounts
                                      /\ SameApproved(Accounts \ {jobs["kyc"][w]})
<1>1. RowsType /\ ListsType /\ QueuesType /\ BatchesType
  BY DEF Types
<1>2. ASSUME rows' = rows PROVE SameApproved(Accounts)
  BY <1>2 DEF SameApproved
<1> DEFINE Goal == \/ SameApproved(Accounts)
                   \/ \E w \in Workers("kyc") : /\ Answered("kyc", w) \/ Crash
                                                /\ jobs["kyc"][w] \in Accounts
                                                /\ SameApproved(Accounts \ {jobs["kyc"][w]})
<1>3. CASE ListStep
  <2> SUFFICES ASSUME NEW t \in Lists, Listed(t) \/ WriteChunk(t) \/ ChunkFails(t) \/ SweepChunk(t) \/ EndDiff(t)
               PROVE  SameApproved(Accounts)
    BY <1>3 DEF ListStep
  <2>0. t # "kyc"
    BY DEF Lists
  <2>1. CASE Listed(t) \/ ChunkFails(t) \/ EndDiff(t)
    BY <1>2, <2>1 DEF Listed, ChunkFails, EndDiff, core
  <2>2. CASE WriteChunk(t)
    <3>1. \A r : r.source # t => (r \in Chunk(t).rows <=> r \in rows)
      BY <1>1, <2>2, ChunkMarks DEF WriteChunk
    <3>2. rows' = Chunk(t).rows
      BY <1>1, <2>2, WrittenList DEF Commit
    <3> QED
      BY <2>0, <3>1, <3>2, OtherSource
  <2>3. CASE SweepChunk(t)
    <3>1. PICK slice \in SUBSET Unswept(t) : Swept(slice)
      BY <1>1, <2>3, SweptList
    <3>2. rows' = rows \ slice /\ \A r \in slice : r.source = t
      BY <3>1 DEF Swept, Unswept, Stale
    <3> QED
      BY <2>0, <3>2, OtherSource
  <2> QED
    BY <2>1, <2>2, <2>3
<1>4. CASE PassStep
  <2> SUFFICES ASSUME NEW t \in Iterators,
                      NewPass(t) \/ \E w \in Workers(t) : Take(t, w) \/ Answered(t, w) \/ Failed(t, w)
               PROVE  Goal
    BY <1>4 DEF PassStep
  <2>1. CASE NewPass(t) \/ \E w \in Workers(t) : Failed(t, w)
    BY <1>2, <2>1 DEF NewPass, Failed, core
  <2>2. ASSUME NEW w \in Workers(t), Take(t, w) PROVE SameApproved(Accounts)
    <3> DEFINE item == Head(ids[t])
    <3>1. item \in Accounts
      BY <1>1, <2>2, TakeQueues
    <3>2. \/ rows' = rows
          \/ \E writes \in Direct(t, item) : rows' = Written(writes, t)
          \/ t = "domains" /\ rows' = rows \ Cleared(item)
      BY <2>2 DEF Take, Commit
    <3> HIDE DEF item
    <3>3. ASSUME NEW writes \in Direct(t, item), rows' = Written(writes, t) PROVE SameApproved(Accounts)
      <4>1. writes \in Seq(EntriesOf(Subjects))
        BY <3>1, AnswersIn
      <4> DEFINE n == Len(writes)
      <4>2. n \in Nat /\ DOMAIN writes = 1 .. n
        BY <4>1
      <4>3. t = "kyc" => n = 0
        BY DEF Direct
      <4> HIDE DEF n
      <4>4. /\ \A r : r.source # t => (r \in Written(writes, t) <=> r \in rows)
            /\ n = 0 => Written(writes, t) = rows
        BY <4>2, WrittenFacts
      <4> QED
        BY <1>2, <3>3, <4>3, <4>4, OtherSource
    <3>4. ASSUME rows' = rows \ Cleared(item) PROVE SameApproved(Accounts)
      <4>1. \A r : r.source # "domains" => (r \in rows' <=> r \in rows)
        BY <3>4 DEF Cleared
      <4> QED
        BY <4>1, OtherSource
    <3> QED
      BY <1>2, <3>2, <3>3, <3>4
  <2>3. ASSUME NEW w \in Workers(t), Answered(t, w) PROVE Goal
    <3>1. PICK writes \in Answers(t, jobs[t][w]) : rows' = Written(writes, t)
      BY <2>3 DEF Answered, Commit
    <3>2. jobs[t][w] \in Accounts
      BY <2>3 DEF Answered
    <3>3. writes \in Seq(EntriesOf(Subjects))
      BY <3>1, <3>2, AnswersIn
    <3>4. Len(writes) \in Nat /\ SubSeq(writes, 1, Len(writes)) = writes
      BY <3>3, AllOfIt
    <3> DEFINE n == Len(writes)
               account == jobs[t][w]
    <3>6. rows' = Written(SubSeq(writes, 1, n), t)
      BY <3>1, <3>4, Zenon
    <3>9. n \in Nat /\ n <= Len(writes)
      BY <3>4
    <3>7. account \in Accounts /\ writes \in Answers(t, account)
      BY <3>2
    <3> HIDE DEF n, account
    <3>8. SameApproved(IF t = "kyc" THEN Accounts \ {account} ELSE Accounts)
      BY <3>6, <3>7, <3>9, WritesApprove
    <3>5. SameApproved(IF t = "kyc" THEN Accounts \ {jobs[t][w]} ELSE Accounts)
      BY <3>8 DEF account
    <3> QED
      BY <2>3, <3>2, <3>5
  <2> QED
    BY <2>1, <2>2, <2>3
<1>5. CASE BatchStep
  <2>1. CASE OpenPass \/ Gather \/ LastBatch \/ BatchFailed
    BY <1>2, <2>1 DEF OpenPass, Gather, LastBatch, BatchFailed, core
  <2>2. CASE BatchCommitted
    <3>1. PICK profiles \in Profiles : rows' = Written(BatchWrites(profiles), "x")
      BY <2>2 DEF BatchCommitted, BatchWrites, Commit
    <3>2. BatchWrites(profiles) \in Seq(EntriesOf(Subjects))
      BY <1>1, BatchWritesIn
    <3>3. Len(BatchWrites(profiles)) \in Nat /\ DOMAIN BatchWrites(profiles) = 1 .. Len(BatchWrites(profiles))
      BY <3>2
    <3>4. \A r : r.source # "x" => (r \in rows' <=> r \in rows)
      BY <3>1, <3>3, WrittenFacts
    <3> QED
      BY <3>4, OtherSource
  <2> QED
    BY <1>5, <2>1, <2>2 DEF BatchStep
<1>6. CASE Crash
  <2>1. PICK after, marks :
           /\ Restart(after, marks)
           /\ \/ after = rows
              \/ \E t \in Iterators : \E w \in Workers(t) :
                   /\ jobs[t][w] \in Accounts
                   /\ \E writes \in Answers(t, jobs[t][w]) : \E n \in DOMAIN writes :
                        after = Written(SubSeq(writes, 1, n), t)
    BY <1>1, <1>6, CrashIs
  <2>2. rows' = after
    BY <2>1 DEF Restart
  <2>3. ASSUME NEW t \in Iterators, NEW w \in Workers(t), jobs[t][w] \in Accounts,
               NEW writes \in Answers(t, jobs[t][w]), NEW n \in DOMAIN writes,
               after = Written(SubSeq(writes, 1, n), t)
        PROVE  Goal
    <3>1. writes \in Seq(EntriesOf(Subjects))
      BY <2>3, AnswersIn
    <3>2. n \in Nat /\ n <= Len(writes)
      BY <3>1
    <3>3. SameApproved(IF t = "kyc" THEN Accounts \ {jobs[t][w]} ELSE Accounts)
      BY <2>2, <2>3, <3>2, WritesApprove
    <3> QED
      BY <1>6, <2>3, <3>3
  <2> HIDE DEF Goal
  <2>4. Goal
    <3>1. CASE after = rows
      BY <1>2, <2>2, <3>1 DEF Goal
    <3> QED
      BY <2>1, <2>3, <3>1
  <2> QED
    BY <2>4 DEF Goal
<1>7. CASE OtherStep \/ UNCHANGED vars
  BY <1>2, <1>7, OtherStepsLeave DEF vars, core
<1> QED
  BY <1>3, <1>4, <1>5, <1>6, <1>7, StepKinds

\* A worker whose item has been approved is no longer at it.
LEMMA NoneAskedStep ==
  ASSUME Types, OneFetchEach, NoneAsked, [Next]_vars
  PROVE  NoneAsked'
<1>1. QueuesType /\ "kyc" \in Iterators
  BY DEF Types, Iterators
<1>2. SUFFICES ASSUME NEW v \in Workers("kyc"), jobs'["kyc"][v] \in Accounts
               PROVE  ~HasPassed(jobs'["kyc"][v], rows')
  BY DEF NoneAsked, Approved, HasPassed, Workers
<1> DEFINE item == jobs'["kyc"][v]
<1>3. ~Crash
  <2>1. Crash => jobs' = [t \in Iterators |-> [w \in Workers(t) |-> Nobody]]
    BY CrashQueues
  <2> QED
    BY <1>1, <1>2, <2>1, NobodyAssumption
<1>4. CASE \E w \in Workers("kyc") : Take("kyc", w) /\ SameButJob("kyc", w, Head(ids["kyc"]))
  <2>1. PICK w \in Workers("kyc") : Take("kyc", w) /\ SameButJob("kyc", w, Head(ids["kyc"]))
    BY <1>4
  <2>2. /\ jobs["kyc"][w] = Nobody /\ Head(ids["kyc"]) \in Accounts
        /\ jobs' = jobs \/ (Direct("kyc", Head(ids["kyc"])) = {} /\ rows' = rows)
    BY <1>1, <2>1, TakeQueues
  <2>7. jobs'["kyc"][w] = Head(ids["kyc"])
    BY <2>1 DEF SameButJob
  <2>3. Direct("kyc", Head(ids["kyc"])) = {} /\ rows' = rows
    BY <2>2, <2>7, NobodyAssumption
  <2>4. ~HasPassed(Head(ids["kyc"]), rows)
    BY <2>3 DEF Direct, Approved, HasPassed
  <2>5. item = IF v = w THEN Head(ids["kyc"]) ELSE jobs["kyc"][v]
    BY <2>1 DEF SameButJob
  <2>6. ~HasPassed(item, rows)
    BY <1>2, <2>4, <2>5 DEF NoneAsked, Approved, HasPassed
  <2> QED
    BY <2>3, <2>6
<1>5. CASE \E w \in Workers("kyc") : (Answered("kyc", w) \/ Failed("kyc", w)) /\ SameButJob("kyc", w, Nobody)
  <2>1. PICK w \in Workers("kyc") : (Answered("kyc", w) \/ Failed("kyc", w)) /\ SameButJob("kyc", w, Nobody)
    BY <1>5
  <2>2. v # w /\ item = jobs["kyc"][v]
    BY <1>2, <2>1, NobodyAssumption DEF SameButJob
  <2>3. ~HasPassed(item, rows)
    BY <1>2, <2>2 DEF NoneAsked, Approved, HasPassed
  <2>4. \A u \in Workers("kyc") : jobs["kyc"][u] = item => u = v
    BY <1>1, <1>2, <2>2 DEF OneFetchEach
  <2>5. \A u \in Workers("kyc") \ {v} : item \in Accounts \ {jobs["kyc"][u]}
    BY <1>2, <2>4
  <2>6. CASE SameApproved(Accounts)
    BY <1>2, <2>3, <2>6 DEF SameApproved
  <2>7. CASE ~SameApproved(Accounts)
    <3>1. PICK u \in Workers("kyc") : /\ Answered("kyc", u)
                                      /\ SameApproved(Accounts \ {jobs["kyc"][u]})
      BY <1>3, <2>7, KycRows
    <3>2. SameButJob("kyc", u, Nobody)
      BY <1>1, <3>1, FreedQueues
    <3>3. u # v
      BY <1>2, <3>2, NobodyAssumption DEF SameButJob
    <3> QED
      BY <2>3, <2>5, <3>1, <3>3 DEF SameApproved
  <2> QED
    BY <2>6, <2>7
<1>6. CASE jobs'["kyc"] = jobs["kyc"]
  <2>1. item = jobs["kyc"][v] /\ ~HasPassed(item, rows)
    BY <1>2, <1>6 DEF NoneAsked, Approved, HasPassed
  <2>2. \A u \in Workers("kyc") : ~Answered("kyc", u)
    <3> SUFFICES ASSUME NEW u \in Workers("kyc"), Answered("kyc", u) PROVE FALSE
      OBVIOUS
    <3>1. SameButJob("kyc", u, Nobody) /\ jobs["kyc"][u] \in Accounts
      BY <1>1, FreedQueues
    <3> QED
      BY <1>6, <3>1, NobodyAssumption DEF SameButJob
  <2>3. SameApproved(Accounts)
    BY <1>3, <2>2, KycRows
  <2> QED
    BY <1>2, <2>1, <2>3 DEF SameApproved
<1>7. ASSUME NEW t \in Iterators,
             NewPass(t) \/ \E w \in Workers(t) : Take(t, w) \/ Answered(t, w) \/ Failed(t, w)
      PROVE  \/ jobs'["kyc"] = jobs["kyc"]
             \/ \E w \in Workers("kyc") : Take("kyc", w) /\ SameButJob("kyc", w, Head(ids["kyc"]))
             \/ \E w \in Workers("kyc") : (Answered("kyc", w) \/ Failed("kyc", w)) /\ SameButJob("kyc", w, Nobody)
  <2>1. CASE NewPass(t)
    BY <2>1 DEF NewPass
  <2>2. ASSUME NEW w \in Workers(t), Take(t, w) PROVE jobs' = jobs \/ SameButJob(t, w, Head(ids[t]))
    BY <1>1, <2>2, TakeQueues
  <2>3. ASSUME NEW w \in Workers(t), Answered(t, w) \/ Failed(t, w) PROVE SameButJob(t, w, Nobody)
    BY <1>1, <2>3, FreedQueues
  <2>4. \A w, x : t # "kyc" /\ SameButJob(t, w, x) => jobs'["kyc"] = jobs["kyc"]
    BY <1>1 DEF SameButJob
  <2> QED
    BY <1>7, <2>1, <2>2, <2>3, <2>4
<1>8. CASE PassStep
  BY <1>4, <1>5, <1>6, <1>7, <1>8 DEF PassStep
<1>9. CASE ListStep \/ BatchStep \/ OtherStep \/ UNCHANGED vars
  BY <1>6, <1>9, ListStepsLeave, BatchStepsLeave, OtherStepsLeave DEF vars, schedule
<1> QED
  BY <1>3, <1>8, <1>9, StepKinds

LEMMA KycStep ==
  ASSUME Types, NoneAsked, [Next]_vars
  PROVE  \A account \in Accounts : Approved(account) => Approved(account)'
<1>1. ASSUME NEW w \in Workers("kyc"), jobs["kyc"][w] \in Accounts,
             SameApproved(Accounts \ {jobs["kyc"][w]}), NEW account \in Accounts, Approved(account)
      PROVE  HasPassed(account, rows')
  <2>1. account # jobs["kyc"][w]
    BY <1>1 DEF NoneAsked
  <2> QED
    BY <1>1, <2>1 DEF SameApproved, Approved, HasPassed
<1> QED
  BY <1>1, KycRows DEF SameApproved, Approved, HasPassed

\* No step takes an approval away: a worker that asks has seen that there is
\* none, no other worker is at its item, and nobody else writes rows of kyc.
THEOREM KycIsFinalHolds == Spec => KycIsFinal
<1>1. Init => NoneAsked
  BY NobodyAssumption DEF Init, NoneAsked, Iterators
<1>2. Types /\ OneFetchEach /\ NoneAsked /\ [Next]_vars => NoneAsked'
  BY NoneAskedStep
<1>3. Types /\ NoneAsked /\ [Next]_vars
      => [\A account \in Accounts : Approved(account) => Approved(account)']_vars
  BY KycStep
<1> QED
  BY <1>1, <1>2, <1>3, FetchesAlways, PTL DEF Spec, KycIsFinal

---------------------------------------------------------------------------
(* What a list has said.                                                   *)

\* Of the first p entries, the i-th is the last to say something of the key.
IsLast(e, p, i, key) ==
  /\ key \in Given(e[i].props)
  /\ \A j \in i + 1 .. p : e[j].subject = e[i].subject => key \notin DOMAIN e[j].props

LastSaid(e, p, t) ==
  UNION {{Row(e[i].subject, key, t, e[i].props[key]) : key \in {k \in Given(e[i].props) : IsLast(e, p, i, k)}} :
          i \in 1 .. p}

KeptOf(e, p) == UNION {{e[i].subject} \X Given(e[i].props) : i \in 1 .. p}

\* The rows of a source that its list has given, in one of the tables.
HeardOf(rs, kept, table, t) ==
  {r \in rs : r.source = t /\ r.subject \in table /\ <<r.subject, r.key>> \in kept}

\* The rows of a source, as far as its list has been heard.
Exact(t, l, rs) ==
  l # Idle =>
    LET d == l.said[At(l)] IN
    /\ l.kept = KeptOf(d.entries, Heard(l))
    /\ HeardOf(rs, l.kept, d.of, t) = LastSaid(d.entries, Heard(l), t)
    /\ At(l) = 2 => {r \in rs : r.source = t /\ r.subject \in Accounts}
                      = LastSaid(l.said[1].entries, Len(l.said[1].entries), t)

AllExact == \A t \in Lists : Exact(t, lists[t], rows)

LEMMA InLastSaid ==
  ASSUME NEW e, NEW p, NEW t, NEW r
  PROVE  r \in LastSaid(e, p, t) <=>
           \E i \in 1 .. p : \E key : IsLast(e, p, i, key) /\ r = Row(e[i].subject, key, t, e[i].props[key])
  BY DEF LastSaid, IsLast

LEMMA NothingSaid ==
  ASSUME NEW e, NEW t
  PROVE  LastSaid(e, 0, t) = {} /\ KeptOf(e, 0) = {}
  BY DEF LastSaid, KeptOf

LEMMA OneMore ==
  ASSUME NEW e, NEW p \in Nat, NEW t
  PROVE  /\ LastSaid(e, p + 1, t) = ApplyProps(LastSaid(e, p, t), e[p + 1].subject, e[p + 1].props, t)
         /\ KeptOf(e, p + 1) = KeptOf(e, p) \cup ({e[p + 1].subject} \X Given(e[p + 1].props))
<1> DEFINE q == p + 1
           subject == e[p + 1].subject
           props == e[p + 1].props
<1>0. 1 .. q = (1 .. p) \cup {q} /\ q \notin 1 .. p /\ q \in Nat
  OBVIOUS
<1>1. \A i \in 1 .. p : i + 1 .. q = (i + 1 .. p) \cup {q}
  OBVIOUS
<1>2. q + 1 .. q = {} /\ e[q].subject = subject /\ e[q].props = props
  OBVIOUS
<1> HIDE DEF subject, props
<1>3. KeptOf(e, q) = KeptOf(e, p) \cup ({subject} \X Given(props))
  <2> HIDE DEF q
  <2> QED
    BY <1>0, <1>2 DEF KeptOf
<1> HIDE DEF q
<1>4. \A i \in 1 .. p : \A key : IsLast(e, q, i, key) <=>
        IsLast(e, p, i, key) /\ ~(e[i].subject = subject /\ key \in DOMAIN props)
  BY <1>1, <1>2 DEF IsLast
<1>5. \A key : IsLast(e, q, q, key) <=> key \in Given(props)
  BY <1>2 DEF IsLast
<1> DEFINE old == {r \in LastSaid(e, p, t) : ~(r.subject = subject /\ r.source = t /\ r.key \in DOMAIN props)}
           new == {Row(subject, key, t, props[key]) : key \in Given(props)}
<1>6. \A r : r \in LastSaid(e, q, t) <=> r \in old \/ r \in new
  <2>1. ASSUME NEW r, r \in LastSaid(e, q, t) PROVE r \in old \/ r \in new
    <3>1. PICK i \in 1 .. q : \E key : IsLast(e, q, i, key) /\ r = Row(e[i].subject, key, t, e[i].props[key])
      BY <2>1, InLastSaid
    <3>2. PICK key : IsLast(e, q, i, key) /\ r = Row(e[i].subject, key, t, e[i].props[key])
      BY <3>1
    <3>3. CASE i = q
      BY <1>2, <1>5, <3>2, <3>3
    <3>4. CASE i # q
      <4>1. i \in 1 .. p
        BY <1>0, <3>4
      <4>2. IsLast(e, p, i, key) /\ ~(e[i].subject = subject /\ key \in DOMAIN props)
        BY <1>4, <3>2, <4>1
      <4>3. r \in LastSaid(e, p, t)
        BY <3>2, <4>1, <4>2, InLastSaid
      <4>4. r.subject = e[i].subject /\ r.key = key
        BY <3>2, RowIn
      <4> QED
        BY <4>2, <4>3, <4>4
    <3> QED
      BY <3>3, <3>4
  <2>2. ASSUME NEW r, r \in old PROVE r \in LastSaid(e, q, t)
    <3>1. r \in LastSaid(e, p, t) /\ ~(r.subject = subject /\ r.source = t /\ r.key \in DOMAIN props)
      BY <2>2
    <3>2. PICK i \in 1 .. p : \E key : IsLast(e, p, i, key) /\ r = Row(e[i].subject, key, t, e[i].props[key])
      BY <3>1, InLastSaid
    <3>3. PICK key : IsLast(e, p, i, key) /\ r = Row(e[i].subject, key, t, e[i].props[key])
      BY <3>2
    <3>4. r.subject = e[i].subject /\ r.key = key /\ r.source = t
      BY <3>3, RowIn
    <3>5. IsLast(e, q, i, key)
      BY <1>4, <3>1, <3>3, <3>4
    <3>6. i \in 1 .. q
      BY <1>0
    <3> QED
      BY <3>3, <3>5, <3>6, InLastSaid
  <2>3. ASSUME NEW r, r \in new PROVE r \in LastSaid(e, q, t)
    <3>1. PICK key \in Given(props) : r = Row(subject, key, t, props[key])
      BY <2>3
    <3>2. IsLast(e, q, q, key) /\ r = Row(e[q].subject, key, t, e[q].props[key])
      BY <1>2, <1>5, <3>1
    <3>3. q \in 1 .. q
      BY <1>0
    <3> QED
      BY <3>2, <3>3, InLastSaid
  <2> QED
    BY <2>1, <2>2, <2>3
<1>7. ApplyProps(LastSaid(e, p, t), subject, props, t) = old \cup new
  BY DEF ApplyProps
<1> HIDE DEF old, new
<1>8. LastSaid(e, q, t) = old \cup new
  BY <1>6
<1> QED
  BY <1>3, <1>7, <1>8 DEF q, subject, props

\* What a write makes of the rows heard is what it makes of what was said.
LEMMA HeardMore ==
  ASSUME NEW rs, NEW kept, NEW table, NEW t, NEW subject \in table, NEW props
  PROVE  HeardOf(ApplyProps(rs, subject, props, t), kept \cup ({subject} \X Given(props)), table, t)
           = ApplyProps(HeardOf(rs, kept, table, t), subject, props, t)
<1> DEFINE new == {Row(subject, key, t, props[key]) : key \in Given(props)}
           more == kept \cup ({subject} \X Given(props))
<1>1. \A r \in new : r.subject = subject /\ r.source = t /\ r.key \in Given(props)
  BY RowIn
<1>2. /\ ApplyProps(rs, subject, props, t)
           = {r \in rs : ~(r.subject = subject /\ r.source = t /\ r.key \in DOMAIN props)} \cup new
      /\ ApplyProps(HeardOf(rs, kept, table, t), subject, props, t)
           = {r \in HeardOf(rs, kept, table, t) :
                ~(r.subject = subject /\ r.source = t /\ r.key \in DOMAIN props)} \cup new
  BY DEF ApplyProps
<1>3. \A s, key : <<s, key>> \in more <=> <<s, key>> \in kept \/ (s = subject /\ key \in Given(props))
  OBVIOUS
<1>4. Given(props) \subseteq DOMAIN props
  BY DEF Given
<1> HIDE DEF new, more
<1>5. \A r : r \in HeardOf(ApplyProps(rs, subject, props, t), more, table, t)
         <=> r \in ApplyProps(HeardOf(rs, kept, table, t), subject, props, t)
  BY <1>1, <1>2, <1>3, <1>4 DEF HeardOf
<1> QED
  BY <1>5 DEF more

IsChunk(part, e, p, n) == DOMAIN part = 1 .. n /\ \A i \in 1 .. n : part[i] = e[p + i]
HasHeard(d, table, e, p, t) ==
  d.kept = KeptOf(e, p) /\ HeardOf(d.rows, d.kept, table, t) = LastSaid(e, p, t)
SameOutside(before, after, table) ==
  \A r : r.subject \notin table => (r \in after.rows <=> r \in before.rows)

\* A chunk of a list: what has been heard then.
LEMMA DiffedExact ==
  ASSUME NEW table, NEW e \in Seq(EntriesOf(table)), NEW n \in Nat, NEW p \in Nat, p + n <= Len(e), NEW t,
         NEW part, IsChunk(part, e, p, n), NEW d, HasHeard(d, table, e, p, t)
  PROVE  HasHeard(Diffed(d, part, t), table, e, p + n, t) /\ SameOutside(d, Diffed(d, part, t), table)
<1>0. /\ DOMAIN part = 1 .. n /\ \A i \in 1 .. n : part[i] = e[p + i]
      /\ d.kept = KeptOf(e, p) /\ HeardOf(d.rows, d.kept, table, t) = LastSaid(e, p, t)
  BY DEF IsChunk, HasHeard
<1>1. PICK h : IsTrace(h, "diff", t, d, part, n) /\ h[n] = Diffed(d, part, t)
  BY <1>0, DiffedTrace
<1> DEFINE P(after, i) == /\ after.kept = KeptOf(e, p + i)
                          /\ HeardOf(after.rows, after.kept, table, t) = LastSaid(e, p + i, t)
                          /\ \A r : r.subject \notin table => (r \in after.rows <=> r \in d.rows)
           S == {i \in 0 .. n : P(h[i], i)}
<1>2. h[0] = d /\ \A i \in 1 .. n : h[i] = ApplyEntry(h[i - 1], part[i], t)
  BY <1>1 DEF IsTrace, OneStep
<1>3. 0 \in S
  <2>1. p + 0 = p
    OBVIOUS
  <2> QED
    BY <1>0, <1>2, <2>1
<1>4. ASSUME NEW i \in 0 .. n - 1, i \in S PROVE i + 1 \in S
  <2>1. i + 1 \in 1 .. n /\ (i + 1) - 1 = i /\ p + i \in Nat /\ (p + i) + 1 = p + (i + 1)
        /\ (p + i) + 1 \in 1 .. Len(e)
    OBVIOUS
  <2> DEFINE m == p + i
             x == e[m + 1]
             before == h[i]
             after == h[i + 1]
             new == ApplyProps(before.rows, x.subject, x.props, t)
  <2>2. after = ApplyEntry(before, x, t)
    BY <1>0, <1>2, <2>1
  <2>3. x.subject \in table
    <3>1. x \in EntriesOf(table)
      BY <2>1
    <3> HIDE DEF x
    <3> QED
      BY <3>1 DEF EntriesOf
  <2>4. after.rows = new /\ after.kept = before.kept \cup ({x.subject} \X Given(x.props))
    BY <2>2 DEF ApplyEntry
  <2>5. P(before, i)
    BY <1>4
  <2>6. m \in Nat /\ m + 1 = p + (i + 1)
    BY <2>1
  <2> DEFINE subject == x.subject
             props == x.props
  <2>7. subject = e[m + 1].subject /\ props = e[m + 1].props
    OBVIOUS
  <2> HIDE DEF subject, props, m
  <2>8. /\ LastSaid(e, m + 1, t) = ApplyProps(LastSaid(e, m, t), subject, props, t)
        /\ KeptOf(e, m + 1) = KeptOf(e, m) \cup ({subject} \X Given(props))
    <3>1. /\ LastSaid(e, m + 1, t) = ApplyProps(LastSaid(e, m, t), e[m + 1].subject, e[m + 1].props, t)
          /\ KeptOf(e, m + 1) = KeptOf(e, m) \cup ({e[m + 1].subject} \X Given(e[m + 1].props))
      BY <2>6, OneMore
    <3> QED
      BY <2>7, <3>1
  <2>9. /\ after.rows = ApplyProps(before.rows, subject, props, t)
        /\ after.kept = before.kept \cup ({subject} \X Given(props))
        /\ subject \in table
    BY <2>3, <2>4 DEF subject, props
  <2>10. /\ before.kept = KeptOf(e, m) /\ HeardOf(before.rows, before.kept, table, t) = LastSaid(e, m, t)
         /\ \A r : r.subject \notin table => (r \in before.rows <=> r \in d.rows)
    BY <2>5 DEF m
  <2> HIDE DEF before, after
  <2>11. after.kept = KeptOf(e, m + 1)
    BY <2>8, <2>9, <2>10
  <2>12. HeardOf(after.rows, after.kept, table, t) = LastSaid(e, m + 1, t)
    <3>1. HeardOf(ApplyProps(before.rows, subject, props, t), before.kept \cup ({subject} \X Given(props)), table, t)
            = ApplyProps(HeardOf(before.rows, before.kept, table, t), subject, props, t)
      BY <2>9, HeardMore
    <3> QED
      BY <2>8, <2>9, <2>10, <3>1
  <2>13. \A r : r.subject \notin table => (r \in after.rows <=> r \in d.rows)
    <3> DEFINE rs == before.rows
               rt == after.rows
    <3>1. rt = ApplyProps(rs, subject, props, t)
      BY <2>9
    <3> HIDE DEF rs, rt
    <3>2. \A r : r.subject # subject => (r \in rt <=> r \in rs)
      BY <3>1, ApplyChanges
    <3> QED
      BY <2>9, <2>10, <3>2 DEF rs, rt
  <2>14. P(after, i + 1)
    BY <2>6, <2>11, <2>12, <2>13
  <2> HIDE DEF P
  <2> QED
    BY <2>1, <2>14 DEF after
<1>5. 0 .. n \subseteq S
  <2> HIDE DEF S
  <2> QED
    BY <1>3, <1>4, NumbersUpTo
<1>6. P(h[n], n)
  BY <1>5
<1> HIDE DEF P
<1>7. P(Diffed(d, part, t), n)
  BY <1>1, <1>6
<1> QED
  BY <1>7 DEF P, HasHeard, SameOutside

---------------------------------------------------------------------------
(* The rows of a list that is done are what it has said.                   *)

\* What is said of the accounts, and then of the tokens.
LEMMA TwoTables ==
  ASSUME NEW e1 \in Seq(EntriesOf(Accounts)), NEW e2 \in Seq(EntriesOf(Tokens)), NEW t
  PROVE  LastSaid(e1 \o e2, Len(e1 \o e2), t) = LastSaid(e1, Len(e1), t) \cup LastSaid(e2, Len(e2), t)
<1> DEFINE a == Len(e1)
           b == Len(e2)
           e == e1 \o e2
<1>1. /\ a \in Nat /\ b \in Nat /\ Len(e) = a + b
      /\ \A i \in 1 .. a : e[i] = e1[i]
      /\ \A i \in 1 .. b : e[a + i] = e2[i]
  OBVIOUS
<1>2. /\ \A i \in 1 .. a : e1[i].subject \in Accounts
      /\ \A i \in 1 .. b : e2[i].subject \in Tokens
  <2>1. \A x \in EntriesOf(Accounts) : x.subject \in Accounts
    BY DEF EntriesOf
  <2>2. \A x \in EntriesOf(Tokens) : x.subject \in Tokens
    BY DEF EntriesOf
  <2> QED
    BY <2>1, <2>2
<1> HIDE DEF a, b, e
<1>3. \A i \in 1 .. b : /\ a + i \in 1 .. a + b /\ a + i > a
                        /\ \A j \in i + 1 .. b : a + j \in a + i + 1 .. a + b
                        /\ \A j \in a + i + 1 .. a + b : j - a \in i + 1 .. b /\ a + (j - a) = j
  BY <1>1
<1>4. \A i \in 1 .. a : /\ i \in 1 .. a + b
                        /\ \A j \in i + 1 .. a : j \in i + 1 .. a + b /\ j \in 1 .. a
                        /\ \A j \in i + 1 .. a + b : j \in i + 1 .. a \/ (j - a \in 1 .. b /\ a + (j - a) = j)
  BY <1>1
<1>5. \A i \in 1 .. a : \A key : IsLast(e, a + b, i, key) <=> IsLast(e1, a, i, key)
  <2> SUFFICES ASSUME NEW i \in 1 .. a, NEW key PROVE IsLast(e, a + b, i, key) <=> IsLast(e1, a, i, key)
    OBVIOUS
  <2>1. e[i] = e1[i] /\ e1[i].subject \in Accounts
    BY <1>1, <1>2
  <2>2. \A j \in i + 1 .. a : e[j] = e1[j] /\ j \in i + 1 .. a + b
    BY <1>1, <1>4
  <2>3. ASSUME NEW j \in i + 1 .. a + b, j \notin i + 1 .. a PROVE e[j].subject \in Tokens
    <3>1. j - a \in 1 .. b /\ a + (j - a) = j
      BY <1>4, <2>3
    <3> DEFINE k == j - a
    <3>2. k \in 1 .. b /\ a + k = j
      BY <3>1
    <3> HIDE DEF k
    <3>3. e[a + k] = e2[k] /\ e2[k].subject \in Tokens
      BY <1>1, <1>2, <3>2
    <3> QED
      BY <3>2, <3>3
  <2>4. \A j \in i + 1 .. a + b : e[j].subject = e[i].subject => j \in i + 1 .. a
    BY <2>1, <2>3, SubjectAssumption
  <2> QED
    BY <2>1, <2>2, <2>4 DEF IsLast
<1>6. \A i \in 1 .. b : \A key : IsLast(e, a + b, a + i, key) <=> IsLast(e2, b, i, key)
  <2> SUFFICES ASSUME NEW i \in 1 .. b, NEW key PROVE IsLast(e, a + b, a + i, key) <=> IsLast(e2, b, i, key)
    OBVIOUS
  <2> DEFINE k == a + i
             c == a + b
  <2>1. e[k] = e2[i]
    BY <1>1
  <2>2. \A j \in i + 1 .. b : e[a + j] = e2[j] /\ a + j \in k + 1 .. c
    BY <1>1, <1>3
  <2>3. \A j \in k + 1 .. c : j - a \in i + 1 .. b /\ e[j] = e2[j - a]
    <3>1. \A j \in k + 1 .. c : j - a \in i + 1 .. b /\ a + (j - a) = j
      BY <1>3
    <3> QED
      BY <2>2, <3>1
  <2> HIDE DEF k, c
  <2>4. IsLast(e, c, k, key) <=> IsLast(e2, b, i, key)
    BY <2>1, <2>2, <2>3 DEF IsLast
  <2> QED
    BY <2>4 DEF k, c
<1>7. \A i \in 1 .. a + b : i \in 1 .. a \/ (i - a \in 1 .. b /\ a + (i - a) = i)
  BY <1>1
<1>8. \A r : r \in LastSaid(e, a + b, t) <=> r \in LastSaid(e1, a, t) \/ r \in LastSaid(e2, b, t)
  <2> DEFINE Gives(x, p, i, r) == \E key : IsLast(x, p, i, key) /\ r = Row(x[i].subject, key, t, x[i].props[key])
  <2>1. \A r : /\ r \in LastSaid(e, a + b, t) <=> \E i \in 1 .. a + b : Gives(e, a + b, i, r)
               /\ r \in LastSaid(e1, a, t) <=> \E i \in 1 .. a : Gives(e1, a, i, r)
               /\ r \in LastSaid(e2, b, t) <=> \E i \in 1 .. b : Gives(e2, b, i, r)
    BY InLastSaid
  <2>2. \A i \in 1 .. a : \A r : Gives(e, a + b, i, r) <=> Gives(e1, a, i, r)
    BY <1>1, <1>5
  <2>3. \A i \in 1 .. b : \A r : Gives(e, a + b, a + i, r) <=> Gives(e2, b, i, r)
    BY <1>1, <1>6
  <2> HIDE DEF Gives
  <2>4. ASSUME NEW r, NEW i \in 1 .. a + b, Gives(e, a + b, i, r)
        PROVE  (\E j \in 1 .. a : Gives(e1, a, j, r)) \/ (\E j \in 1 .. b : Gives(e2, b, j, r))
    BY <1>7, <2>2, <2>3, <2>4
  <2>5. ASSUME NEW r, NEW i \in 1 .. a, Gives(e1, a, i, r) PROVE \E j \in 1 .. a + b : Gives(e, a + b, j, r)
    BY <1>4, <2>2, <2>5
  <2>6. ASSUME NEW r, NEW i \in 1 .. b, Gives(e2, b, i, r) PROVE \E j \in 1 .. a + b : Gives(e, a + b, j, r)
    BY <1>3, <2>3, <2>6
  <2> QED
    BY <2>1, <2>4, <2>5, <2>6
<1>9. LastSaid(e, a + b, t) = LastSaid(e1, a, t) \cup LastSaid(e2, b, t)
  BY <1>8
<1> QED
  BY <1>1, <1>9 DEF a, b, e

LEMMA MoreSubjects ==
  ASSUME NEW S, NEW T, S \subseteq T
  PROVE  Seq(EntriesOf(S)) \subseteq Seq(EntriesOf(T))
<1>1. EntriesOf(S) \subseteq EntriesOf(T)
  BY DEF EntriesOf
<1> QED
  BY <1>1

LEMMA SaidIs ==
  ASSUME NEW t \in Lists, IsTold(t, lists[t].said)
  PROVE  LET said == lists[t].said IN
         /\ Len(said) = 1 => Said(t) = LastSaid(said[1].entries, Len(said[1].entries), t)
         /\ Len(said) = 2 => Said(t) = LastSaid(said[1].entries, Len(said[1].entries), t)
                                       \cup LastSaid(said[2].entries, Len(said[2].entries), t)
<1> DEFINE said == lists[t].said
           X == EntriesOf(Subjects)
           seqs == [i \in DOMAIN said |-> said[i].entries]
           all == FlattenSeq(seqs)
<1>1. /\ said \in Seq(AccountDiff \cup TokenDiff) /\ Len(said) \in {1, 2}
      /\ said[1].entries \in Seq(EntriesOf(Accounts))
      /\ Len(said) = 2 => said[2].entries \in Seq(EntriesOf(Tokens))
  BY DEF IsTold, AccountDiff, TokenDiff
<1> HIDE DEF said, X
<1>2. /\ Accounts \subseteq Subjects /\ Tokens \subseteq Subjects
  BY DEF Subjects
<1>3. \A i \in 1 .. Len(said) : said[i].entries \in Seq(X)
  BY <1>1, <1>2, MoreSubjects DEF X
<1>4. seqs \in Seq(Seq(X)) /\ Len(seqs) = Len(said) /\ \A i \in 1 .. Len(said) : seqs[i] = said[i].entries
  <2>1. Len(said) \in Nat /\ DOMAIN said = 1 .. Len(said)
    BY <1>1
  <2> DEFINE n == Len(said)
  <2> HIDE DEF n
  <2>2. seqs = [i \in 1 .. n |-> said[i].entries] /\ n \in Nat /\ \A i \in 1 .. n : said[i].entries \in Seq(X)
    BY <1>3, <2>1 DEF n
  <2> HIDE DEF seqs
  <2>3. seqs \in Seq(Seq(X)) /\ Len(seqs) = n /\ \A i \in 1 .. n : seqs[i] = said[i].entries
    BY <2>2
  <2> QED
    BY <2>3 DEF n
<1> HIDE DEF seqs
<1>5. all \in Seq(X)
  BY <1>4, FlattenType
<1>6. /\ Len(said) = 1 => all = said[1].entries
      /\ Len(said) = 2 => all = said[1].entries \o said[2].entries
  <2>1. /\ Len(seqs) = 1 => all = seqs[1]
        /\ Len(seqs) = 2 => all = seqs[1] \o seqs[2]
    BY <1>4, FlattenFew
  <2>2. 1 \in 1 .. Len(said) /\ (Len(said) = 2 => 2 \in 1 .. Len(said))
    BY <1>1
  <2>3. seqs[1] = said[1].entries /\ (Len(said) = 2 => seqs[2] = said[2].entries)
    BY <1>4, <2>2
  <2> HIDE DEF all
  <2> QED
    BY <1>4, <2>1, <2>3
<1>7. Said(t) = UNION {{Row(all[i].subject, key, t, all[i].props[key]) :
                   key \in {k \in Given(all[i].props) :
                      \A j \in DOMAIN all : j > i /\ all[j].subject = all[i].subject => k \notin DOMAIN all[j].props}} :
                 i \in DOMAIN all}
  BY Zenon DEF Said, seqs, said
<1> HIDE DEF all
<1>8. Said(t) = LastSaid(all, Len(all), t)
  <2> DEFINE n == Len(all)
  <2>1. n \in Nat /\ DOMAIN all = 1 .. n
    BY <1>5
  <2> HIDE DEF n
  <2>2. \A i \in 1 .. n : \A j : j \in 1 .. n /\ j > i <=> j \in i + 1 .. n
    BY <2>1
  <2>3. \A i \in 1 .. n :
          {k \in Given(all[i].props) :
             \A j \in DOMAIN all : j > i /\ all[j].subject = all[i].subject => k \notin DOMAIN all[j].props}
          = {k \in Given(all[i].props) : IsLast(all, n, i, k)}
    BY <2>1, <2>2 DEF IsLast
  <2> QED
    BY <1>7, <2>1, <2>3 DEF LastSaid, n
<1>9. CASE Len(said) = 1
  BY <1>6, <1>8, <1>9 DEF said
<1>10. CASE Len(said) = 2
  <2>1. LastSaid(all, Len(all), t) = LastSaid(said[1].entries, Len(said[1].entries), t)
                                       \cup LastSaid(said[2].entries, Len(said[2].entries), t)
    <3> DEFINE e1 == said[1].entries
               e2 == said[2].entries
    <3>1. e1 \in Seq(EntriesOf(Accounts)) /\ e2 \in Seq(EntriesOf(Tokens)) /\ all = e1 \o e2
      BY <1>1, <1>6, <1>10
    <3> HIDE DEF e1, e2
    <3>2. LastSaid(e1 \o e2, Len(e1 \o e2), t) = LastSaid(e1, Len(e1), t) \cup LastSaid(e2, Len(e2), t)
      BY <3>1, TwoTables
    <3> QED
      BY <3>1, <3>2 DEF e1, e2
  <2> QED
    BY <1>8, <1>10, <2>1 DEF said
<1> QED
  BY <1>1, <1>9, <1>10 DEF said

\* Where a list is in what it says.
LEMMA WhereIs ==
  ASSUME NEW t \in Lists, NEW l, ListType(t, l), l # Idle
  PROVE  LET d == l.said[At(l)] IN
         /\ IsTold(t, l.said)
         /\ Len(l.said) \in {1, 2} /\ At(l) \in {1, 2} /\ At(l) \in 1 .. Len(l.said)
         /\ Len(l.diffs) = 1 => At(l) = Len(l.said)
         /\ Len(l.diffs) = 2 => At(l) = 1
         /\ At(l) = 1 => d.of = Accounts
         /\ At(l) = 2 => d.of = Tokens
         /\ d.entries \in Seq(EntriesOf(d.of))
         /\ l.diffs[1].of = d.of
         /\ Heard(l) \in 0 .. Len(d.entries)
         /\ l.diffs[1].entries = SubSeq(d.entries, Heard(l) + 1, Len(d.entries))
<1>1. /\ IsTold(t, l.said) /\ Len(l.diffs) \in 1 .. Len(l.said)
      /\ l.diffs[1].of = l.said[At(l)].of
      /\ Heard(l) \in 0 .. Len(l.said[At(l)].entries)
      /\ l.diffs[1].entries = SubSeq(l.said[At(l)].entries, Heard(l) + 1, Len(l.said[At(l)].entries))
  BY DEF ListType
<1>2. /\ Len(l.said) \in {1, 2}
      /\ l.said[1].of = Accounts /\ l.said[1].entries \in Seq(EntriesOf(Accounts))
      /\ Len(l.said) = 2 => l.said[2].of = Tokens /\ l.said[2].entries \in Seq(EntriesOf(Tokens))
  BY <1>1 DEF IsTold, AccountDiff, TokenDiff
<1> DEFINE a == Len(l.said)
           b == Len(l.diffs)
           c == At(l)
<1>3. a \in {1, 2} /\ b \in 1 .. a /\ c = 1 + a - b
  BY <1>1, <1>2 DEF At
<1> HIDE DEF a, b, c
<1>4. c \in 1 .. a /\ (b = 1 => c = a) /\ (b = 2 => c = 1) /\ c \in {1, 2} /\ (c = 2 => a = 2)
  BY <1>3
<1>5. /\ c = 1 => l.said[c].of = Accounts /\ l.said[c].entries \in Seq(EntriesOf(Accounts))
      /\ c = 2 => l.said[c].of = Tokens /\ l.said[c].entries \in Seq(EntriesOf(Tokens))
  BY <1>2, <1>4 DEF a
<1>6. l.said[c].entries \in Seq(EntriesOf(l.said[c].of))
  BY <1>4, <1>5
<1> QED
  BY <1>1, <1>2, <1>4, <1>5, <1>6 DEF a, b, c

\* A diff that begins has heard nothing.
LEMMA FreshExact ==
  ASSUME NEW t \in Lists, NEW said, IsTold(t, said), NEW diffs, NEW l, IsList5(l, diffs, {}, {}, {}, said), NEW rs,
         \/ diffs = said
         \/ /\ Len(said) = 2 /\ diffs = <<said[2]>>
            /\ {r \in rs : r.source = t /\ r.subject \in Accounts}
                 = LastSaid(said[1].entries, Len(said[1].entries), t)
  PROVE  Exact(t, l, rs)
<1>1. At(l) = 1 + Len(said) - Len(diffs) /\ Heard(l) = 0
  BY FirstOfDiff
<1>2. l.kept = {} /\ l.said = said
  BY Parts
<1>3. \A e : KeptOf(e, 0) = {} /\ LastSaid(e, 0, t) = {}
  BY NothingSaid
<1>4. \A table : HeardOf(rs, {}, table, t) = {}
  BY DEF HeardOf
<1>5. diffs = said => At(l) = 1
  <2>1. Len(said) \in Nat
    BY DEF IsTold
  <2> QED
    BY <1>1, <2>1
<1>6. At(l) = 2 => {r \in rs : r.source = t /\ r.subject \in Accounts}
                     = LastSaid(l.said[1].entries, Len(l.said[1].entries), t)
  BY <1>2, <1>5
<1> QED
  BY <1>1, <1>2, <1>3, <1>4, <1>6 DEF Exact

\* Other rows do not matter.
LEMMA ExactLeft ==
  ASSUME NEW t, NEW l, NEW rs, NEW rt, Exact(t, l, rs), \A r : r.source = t => (r \in rt <=> r \in rs)
  PROVE  Exact(t, l, rt)
<1>1. \A kept, table : HeardOf(rt, kept, table, t) = HeardOf(rs, kept, table, t)
  BY DEF HeardOf
<1>2. {r \in rt : r.source = t /\ r.subject \in Accounts} = {r \in rs : r.source = t /\ r.subject \in Accounts}
  OBVIOUS
<1> QED
  BY <1>1, <1>2 DEF Exact

LEMMA ChunkExact ==
  ASSUME Types, NEW t \in Lists, Exact(t, lists[t], rows), WriteChunk(t)
  PROVE  Exact(t, lists'[t], rows') /\ lists'[t] # Idle
<1> DEFINE l == lists[t]
           m == lists'[t]
           d == l.said[At(l)]
           e == d.entries
           table == d.of
           rest == Diff(t).entries
           n == Min({ChunkSize, Len(rest)})
           part == SubSeq(rest, 1, n)
           p == Heard(l)
           before == [rows |-> rows, kept |-> lists[t].kept, dirty |-> lists[t].dirty, icons |-> lists[t].icons]
<1>1. /\ RowsType /\ ListsType /\ ListType(t, l) /\ l # Idle /\ Diffing(t) /\ rest # <<>>
      /\ rest = l.diffs[1].entries
  <2>1. ListsType /\ Diffing(t)
    BY DEF Types, WriteChunk
  <2> QED
    BY <2>1, DiffIs DEF Types, ListsType, WriteChunk, Diffing
<1>2. /\ At(l) = 1 => table = Accounts
      /\ At(l) = 2 => table = Tokens
      /\ At(l) \in {1, 2}
      /\ e \in Seq(EntriesOf(table)) /\ p \in 0 .. Len(e)
      /\ rest = SubSeq(e, p + 1, Len(e))
  BY <1>1, WhereIs
<1>3. /\ n \in 1 .. Len(rest)
      /\ IsAfterChunk(m, l, n, Chunk(t).kept, Chunk(t).dirty, Chunk(t).icons)
      /\ rows' = Chunk(t).rows
  <2>1. PICK X : rest \in Seq(X)
    BY <1>1, EntriesIn
  <2>2. n \in 1 .. Len(rest)
    BY <1>1, <2>1, ChunkOf
  <2> QED
    BY <1>1, <2>2, WrittenList DEF Commit
<1>4. /\ Chunk(t).kept \subseteq Subjects \X Names
      /\ Chunk(t).dirty \subseteq Subjects /\ Chunk(t).icons \subseteq Subjects
  BY <1>1, ChunkGood
<1>5. Chunk(t) = Diffed(before, part, t)
  BY Zenon DEF Chunk
<1>6. before.rows = rows /\ before.kept = l.kept
  OBVIOUS
<1> HIDE DEF before, p, m, n
<1>7. At(m) = At(l) /\ Heard(m) = p + n /\ m.said = l.said /\ m.kept = Chunk(t).kept /\ m # Idle
  <2>1. n \in 1 .. Len(l.diffs[1].entries)
    BY <1>1, <1>3
  <2> HIDE DEF l
  <2> QED
    BY <1>1, <1>3, <1>4, <2>1, ListAfterChunk DEF p
<1>8. l.kept = KeptOf(e, p) /\ HeardOf(rows, l.kept, table, t) = LastSaid(e, p, t)
  BY <1>1 DEF Exact, p
<1> HIDE DEF l, e, table, rest
<1>9. /\ n \in Nat /\ p \in Nat /\ p + n <= Len(e)
      /\ DOMAIN part = 1 .. n /\ \A i \in 1 .. n : part[i] = e[p + i]
  <2>1. rest \in Seq(EntriesOf(table)) /\ Len(rest) = Len(e) - p /\ \A i \in 1 .. Len(e) - p : rest[i] = e[p + i]
    BY <1>2
  <2>2. n \in Nat /\ p \in Nat /\ p + n <= Len(e) /\ \A i \in 1 .. n : i \in 1 .. Len(e) - p
    BY <1>2, <1>3, <2>1
  <2>3. DOMAIN part = 1 .. n /\ \A i \in 1 .. n : part[i] = rest[i]
    BY <1>1, <1>3, <2>1, ChunkOf
  <2> QED
    BY <2>1, <2>2, <2>3
<1> HIDE DEF part
<1>10. HasHeard(Diffed(before, part, t), table, e, p + n, t) /\ SameOutside(before, Diffed(before, part, t), table)
  <2>1. HasHeard(before, table, e, p, t)
    BY <1>6, <1>8 DEF HasHeard
  <2>2. p + n <= Len(e) /\ p \in Nat /\ n \in Nat /\ e \in Seq(EntriesOf(table))
    BY <1>2, <1>9
  <2>3. IsChunk(part, e, p, n)
    BY <1>9 DEF IsChunk
  <2> QED
    BY <2>1, <2>2, <2>3, DiffedExact
<1>11. /\ m.kept = KeptOf(e, Heard(m))
       /\ HeardOf(rows', m.kept, table, t) = LastSaid(e, Heard(m), t)
       /\ \A r : r.subject \notin table => (r \in rows' <=> r \in rows)
  BY <1>3, <1>5, <1>6, <1>7, <1>10 DEF HasHeard, SameOutside
<1>12. ASSUME At(m) = 2
       PROVE  {r \in rows' : r.source = t /\ r.subject \in Accounts}
                = LastSaid(m.said[1].entries, Len(m.said[1].entries), t)
  <2>1. table = Tokens
    BY <1>2, <1>7, <1>12
  <2>2. \A r : r.subject \in Accounts => (r \in rows' <=> r \in rows)
    BY <1>11, <2>1, SubjectAssumption
  <2>3. {r \in rows : r.source = t /\ r.subject \in Accounts}
          = LastSaid(l.said[1].entries, Len(l.said[1].entries), t)
    BY <1>1, <1>7, <1>12 DEF Exact, l
  <2> QED
    BY <1>7, <2>2, <2>3
<1>13. e = m.said[At(m)].entries /\ table = m.said[At(m)].of
  BY <1>7 DEF e, table
<1>14. Exact(t, m, rows')
  BY <1>11, <1>12, <1>13 DEF Exact
<1> QED
  BY <1>7, <1>14 DEF m

LEMMA SweepExact ==
  ASSUME Types, NEW t \in Lists, Exact(t, lists[t], rows), SweepChunk(t)
  PROVE  Exact(t, lists'[t], rows') /\ lists'[t] # Idle
<1> DEFINE l == lists[t]
           m == lists'[t]
           d == l.said[At(l)]
<1>1. RowsType /\ ListsType /\ Diffing(t) /\ ListType(t, l) /\ l # Idle
  BY DEF Types, SweepChunk, Diffing, ListsType
<1>2. PICK slice \in SUBSET Unswept(t) :
         Swept(slice) /\ m.diffs = l.diffs /\ m.said = l.said /\ m.kept = l.kept
  BY <1>1, SweptList
<1>3. Diff(t).of = d.of
  BY <1>1, DiffIs, WhereIs
<1>4. rows' = rows \ slice
      /\ \A r \in slice : r.source = t /\ r.subject \in d.of /\ <<r.subject, r.key>> \notin l.kept
  BY <1>2, <1>3 DEF Swept, Unswept, Stale
<1>5. At(l) = 2 => d.of = Tokens
  BY <1>1, WhereIs
<1>6. At(m) = At(l) /\ Heard(m) = Heard(l)
  BY <1>2 DEF At, Heard
<1>7. m # Idle
  <2>1. m.diffs # <<>>
    BY <1>1, <1>2, DiffIs
  <2> QED
    BY <2>1 DEF Idle
<1> HIDE DEF m, l
<1>8. HeardOf(rows', l.kept, d.of, t) = HeardOf(rows, l.kept, d.of, t)
  BY <1>4 DEF HeardOf
<1>9. At(l) = 2 => {r \in rows' : r.source = t /\ r.subject \in Accounts}
                     = {r \in rows : r.source = t /\ r.subject \in Accounts}
  BY <1>4, <1>5, SubjectAssumption
<1>10. Exact(t, l, rows)
  BY DEF l
<1>11. Exact(t, m, rows')
  BY <1>1, <1>2, <1>6, <1>8, <1>9, <1>10 DEF Exact
<1> QED
  BY <1>7, <1>11 DEF m

\* At the end of a diff the rows of its table are what it has said.
LEMMA TableDone ==
  ASSUME ListsType, NEW t \in Lists, Exact(t, lists[t], rows), Diffing(t), Diff(t).entries = <<>>, Unswept(t) = {}
  PROVE  LET d == lists[t].said[At(lists[t])] IN
         {r \in rows : r.source = t /\ r.subject \in d.of} = LastSaid(d.entries, Len(d.entries), t)
<1> DEFINE l == lists[t]
           d == l.said[At(l)]
           e == d.entries
<1>1. ListType(t, l) /\ l # Idle
  BY DEF Diffing, ListsType
<1>2. Diff(t) = l.diffs[1]
  BY DiffIs
<1>3. e \in Seq(EntriesOf(d.of)) /\ Heard(l) = Len(e)
  <2>1. e \in Seq(EntriesOf(d.of)) /\ Heard(l) = Len(e) - Len(l.diffs[1].entries)
    BY <1>1, WhereIs DEF Heard
  <2>2. Len(l.diffs[1].entries) = 0
    BY <1>2
  <2> HIDE DEF e, l
  <2>3. Len(e) \in Nat
    BY <2>1
  <2> QED
    BY <2>1, <2>2, <2>3
<1>4. HeardOf(rows, l.kept, d.of, t) = LastSaid(e, Len(e), t)
  BY <1>1, <1>3 DEF Exact
<1>5. Stale(rows, d.of, l.kept, t) = {}
  BY <1>1, <1>2, WhereIs DEF Unswept
<1> HIDE DEF l, e
<1>6. HeardOf(rows, l.kept, d.of, t) = {r \in rows : r.source = t /\ r.subject \in d.of}
  BY <1>5 DEF HeardOf, Stale
<1> QED
  BY <1>4, <1>6 DEF l, e

\* The next diff of a list begins when its first is done.
LEMMA EndExact ==
  ASSUME Types, NEW t \in Lists, Exact(t, lists[t], rows), EndDiff(t)
  PROVE  /\ Exact(t, lists'[t], rows')
         /\ lists'[t] = Idle => {r \in rows' : r.source = t} = Said(t)
<1> DEFINE l == lists[t]
           d == l.said[At(l)]
<1>1. /\ RowsType /\ ListsType /\ Diffing(t) /\ ListType(t, l) /\ l # Idle
      /\ Diff(t).entries = <<>> /\ Unswept(t) = {} /\ rows' = rows
  BY DEF Types, EndDiff, Diffing, ListsType, core
<1>2. {r \in rows : r.source = t /\ r.subject \in d.of} = LastSaid(d.entries, Len(d.entries), t)
  BY <1>1, TableDone
<1>3. /\ IsTold(t, l.said) /\ Len(l.said) \in {1, 2}
      /\ Len(l.diffs) = 1 => At(l) = Len(l.said)
      /\ Len(l.diffs) = 2 => At(l) = 1
      /\ At(l) = 1 => d.of = Accounts
      /\ At(l) = 2 => d.of = Tokens
  BY <1>1, WhereIs
<1>4. CASE Len(l.diffs) = 1 /\ lists'[t] = Idle
  <2>1. Exact(t, lists'[t], rows')
    BY <1>4 DEF Exact
  <2>2. \A r \in rows : r.subject \in Accounts \cup Tokens
    BY <1>1 DEF RowsType, GoodRows, RowSet, Subjects
  <2>3. CASE Len(l.said) = 1
    <3>1. t \in AccountSources
      BY <1>3, <2>3 DEF IsTold
    <3>2. \A r \in rows : r.source = t => r.subject \in Accounts
      BY <1>1, <3>1 DEF RowsType, GoodRows
    <3>3. {r \in rows : r.source = t} = {r \in rows : r.source = t /\ r.subject \in Accounts}
      BY <3>2
    <3>4. Said(t) = LastSaid(l.said[1].entries, Len(l.said[1].entries), t)
      BY <1>3, <2>3, SaidIs
    <3>5. {r \in rows : r.source = t /\ r.subject \in Accounts}
            = LastSaid(l.said[1].entries, Len(l.said[1].entries), t)
      BY <1>2, <1>3, <1>4, <2>3
    <3> HIDE DEF l
    <3> QED
      BY <1>1, <2>1, <3>3, <3>4, <3>5
  <2>4. CASE Len(l.said) = 2
    <3>1. {r \in rows : r.source = t /\ r.subject \in Tokens}
            = LastSaid(l.said[2].entries, Len(l.said[2].entries), t)
      BY <1>2, <1>3, <1>4, <2>4
    <3>2. {r \in rows : r.source = t /\ r.subject \in Accounts}
            = LastSaid(l.said[1].entries, Len(l.said[1].entries), t)
      BY <1>1, <1>3, <1>4, <2>4 DEF Exact
    <3>3. Said(t) = LastSaid(l.said[1].entries, Len(l.said[1].entries), t)
                    \cup LastSaid(l.said[2].entries, Len(l.said[2].entries), t)
      BY <1>3, <2>4, SaidIs
    <3>4. {r \in rows : r.source = t} = {r \in rows : r.source = t /\ r.subject \in Accounts}
                                        \cup {r \in rows : r.source = t /\ r.subject \in Tokens}
      BY <2>2
    <3> HIDE DEF l
    <3> QED
      BY <1>1, <2>1, <3>1, <3>2, <3>3, <3>4
  <2> QED
    BY <1>3, <2>3, <2>4
<1>5. CASE /\ Len(l.diffs) = 2 /\ Len(l.said) = 2
           /\ IsList5(lists'[t], <<l.said[2]>>, {}, {}, {}, l.said)
  <2> DEFINE m == lists'[t]
             said == l.said
             diffs == <<said[2]>>
  <2>1. {r \in rows : r.source = t /\ r.subject \in Accounts}
          = LastSaid(said[1].entries, Len(said[1].entries), t)
    BY <1>2, <1>3, <1>5
  <2>2. m # Idle
    BY <1>5 DEF Idle, IsList5
  <2>3. IsList5(m, diffs, {}, {}, {}, said) /\ diffs = <<said[2]>> /\ Len(said) = 2 /\ IsTold(t, said)
    BY <1>3, <1>5
  <2> HIDE DEF m, said, diffs
  <2>4. Exact(t, m, rows)
    BY <2>1, <2>3, FreshExact
  <2> QED
    BY <1>1, <2>2, <2>4 DEF m
<1> QED
  BY <1>1, <1>4, <1>5, EndedList

\* Who else writes rows.
LEMMA SourceLeft ==
  ASSUME Types, [Next]_vars, NEW t \in Lists, ~WriteChunk(t), ~SweepChunk(t), ~Crash
  PROVE  \A r : r.source = t => (r \in rows' <=> r \in rows)
<1> DEFINE Goal == \A r : r.source = t => (r \in rows' <=> r \in rows)
<1>1. RowsType /\ ListsType /\ QueuesType /\ BatchesType
  BY DEF Types
<1>2. ASSUME rows' = rows PROVE Goal
  BY <1>2
<1>3. ASSUME NEW source, source # t, \A r : r.source # source => (r \in rows' <=> r \in rows) PROVE Goal
  BY <1>3
<1>4. ASSUME NEW writes \in Seq(EntriesOf(Subjects)), NEW source, source # t, rows' = Written(writes, source)
      PROVE  Goal
  <2>1. Len(writes) \in Nat /\ DOMAIN writes = 1 .. Len(writes)
    OBVIOUS
  <2>2. \A r : r.source # source => (r \in rows' <=> r \in rows)
    BY <1>4, <2>1, WrittenFacts
  <2> QED
    BY <1>3, <1>4, <2>2
<1>5. t \notin Iterators /\ t # "x" /\ t # "domains"
  BY DEF Lists, Iterators
<1> HIDE DEF Goal
<1>6. ASSUME NEW s \in Lists, Listed(s) \/ WriteChunk(s) \/ ChunkFails(s) \/ SweepChunk(s) \/ EndDiff(s) PROVE Goal
  <2>1. CASE Listed(s) \/ ChunkFails(s) \/ EndDiff(s)
    BY <1>2, <2>1 DEF Listed, ChunkFails, EndDiff, core
  <2>2. CASE WriteChunk(s)
    <3>1. s # t /\ rows' = Chunk(s).rows
      BY <1>1, <2>2, WrittenList DEF Commit
    <3>2. \A r : r.source # s => (r \in rows' <=> r \in rows)
      BY <1>1, <2>2, <3>1, ChunkMarks DEF WriteChunk
    <3> QED
      BY <1>3, <3>1, <3>2
  <2>3. CASE SweepChunk(s)
    <3>1. PICK slice \in SUBSET Unswept(s) : Swept(slice)
      BY <1>1, <2>3, SweptList
    <3>2. s # t /\ \A r : r.source # s => (r \in rows' <=> r \in rows)
      BY <2>3, <3>1 DEF Swept, Unswept, Stale
    <3> QED
      BY <1>3, <3>2
  <2> QED
    BY <1>6, <2>1, <2>2, <2>3
<1>7. ASSUME NEW s \in Iterators,
             NewPass(s) \/ \E w \in Workers(s) : Take(s, w) \/ Answered(s, w) \/ Failed(s, w)
      PROVE  Goal
  <2>1. CASE NewPass(s) \/ \E w \in Workers(s) : Failed(s, w)
    BY <1>2, <2>1 DEF NewPass, Failed, core
  <2>2. ASSUME NEW w \in Workers(s), Take(s, w) PROVE Goal
    <3> DEFINE item == Head(ids[s])
    <3>1. item \in Accounts
      BY <1>1, <2>2, TakeQueues
    <3>2. \/ rows' = rows
          \/ \E writes \in Direct(s, item) : rows' = Written(writes, s)
          \/ rows' = rows \ Cleared(item)
      BY <2>2 DEF Take, Commit
    <3> HIDE DEF item
    <3>3. ASSUME NEW writes \in Direct(s, item), rows' = Written(writes, s) PROVE Goal
      BY <1>4, <1>5, <3>1, <3>3, AnswersIn
    <3>4. ASSUME rows' = rows \ Cleared(item) PROVE Goal
      <4>1. \A r : r.source # "domains" => (r \in rows' <=> r \in rows)
        BY <3>4 DEF Cleared
      <4> QED
        BY <1>3, <1>5, <4>1
    <3> QED
      BY <1>2, <3>2, <3>3, <3>4
  <2>3. ASSUME NEW w \in Workers(s), Answered(s, w) PROVE Goal
    <3>1. PICK writes \in Answers(s, jobs[s][w]) : rows' = Written(writes, s)
      BY <2>3 DEF Answered, Commit
    <3>2. jobs[s][w] \in Accounts
      BY <2>3 DEF Answered
    <3>3. writes \in Seq(EntriesOf(Subjects))
      BY <3>1, <3>2, AnswersIn
    <3> QED
      BY <1>4, <1>5, <3>1, <3>3
  <2> QED
    BY <1>7, <2>1, <2>2, <2>3
<1>8. ASSUME BatchStep PROVE Goal
  <2>1. CASE OpenPass \/ Gather \/ LastBatch \/ BatchFailed
    BY <1>2, <2>1 DEF OpenPass, Gather, LastBatch, BatchFailed, core
  <2>2. CASE BatchCommitted
    <3>1. PICK profiles \in Profiles : rows' = Written(BatchWrites(profiles), "x")
      BY <2>2 DEF BatchCommitted, BatchWrites, Commit
    <3>2. BatchWrites(profiles) \in Seq(EntriesOf(Subjects))
      BY <1>1, BatchWritesIn
    <3> QED
      BY <1>4, <1>5, <3>1, <3>2
  <2> QED
    BY <1>8, <2>1, <2>2 DEF BatchStep
<1>9. ASSUME OtherStep \/ UNCHANGED vars PROVE Goal
  BY <1>2, <1>9, OtherStepsLeave DEF vars, core
<1>10. Goal
  BY <1>6, <1>7, <1>8, <1>9, StepKinds DEF ListStep, PassStep
<1> QED
  BY <1>10 DEF Goal

\* The operation of a list is noted at the end of its diffs, or when it is no
\* list at all.
LEMMA WhoNotes ==
  ASSUME Types, [Next]_vars, NEW t \in Lists, <<t, Global>> \in ops' \ ops
  PROVE  EndDiff(t) \/ Listed(t)
<1>1. t \notin Iterators /\ t # "x"
  BY DEF Lists, Iterators
<1>2. ASSUME NEW s \in Lists, Listed(s) \/ WriteChunk(s) \/ ChunkFails(s) \/ SweepChunk(s) \/ EndDiff(s)
      PROVE  EndDiff(t) \/ Listed(t)
  <2>1. ops' \subseteq ops \cup {<<s, Global>>}
    BY <1>2 DEF Listed, WriteChunk, ChunkFails, SweepChunk, EndDiff
  <2>2. s = t
    BY <2>1
  <2>3. WriteChunk(s) \/ ChunkFails(s) \/ SweepChunk(s) => ops' = ops
    BY DEF WriteChunk, ChunkFails, SweepChunk
  <2> QED
    BY <1>2, <2>2, <2>3
<1>3. ~PassStep
  <2>1. \A s, account : Done(s, account) => ops' = ops \cup {<<s, account>>}
    BY DEF Done
  <2>2. \A s : NewPass(s) => ops' = ops
    BY DEF NewPass
  <2>3. \A s, w : Take(s, w) => ops' \subseteq ops \cup {<<s, Head(ids[s])>>}
    BY <2>1 DEF Take
  <2>4. \A s, w : Answered(s, w) \/ Failed(s, w) => ops' \subseteq ops \cup {<<s, jobs[s][w]>>}
    BY <2>1 DEF Answered, Failed
  <2> QED
    BY <1>1, <2>2, <2>3, <2>4 DEF PassStep
<1>4. ~BatchStep
  <2>1. BatchStep => ops' \subseteq ops \cup ({"x"} \X BatchItems)
    BY DEF BatchStep, OpenPass, Gather, LastBatch, BatchCommitted, BatchFailed
  <2> QED
    BY <1>1, <2>1
<1>5. ~OtherStep
  <2>1. \A s, subject : Expire(s, subject) => ops' \subseteq ops
    BY DEF Expire
  <2>2. \A a : LedgerDomain(a) \/ Serve(a) => ops' = ops
    BY DEF LedgerDomain, Serve
  <2> QED
    BY <2>1, <2>2 DEF OtherStep
<1>6. ~Crash
  <2>1. \A after, marks : Restart(after, marks) => ops' = ops
    BY DEF Restart
  <2> QED
    BY <2>1 DEF Crash
<1> QED
  BY <1>2, <1>3, <1>4, <1>5, <1>6, StepKinds DEF ListStep, vars

\* A list, after a step.
LEMMA ListAfter ==
  ASSUME Types, AllExact, [Next]_vars, NEW t \in Lists
  PROVE  /\ Exact(t, lists'[t], rows')
         /\ lists[t] # Idle /\ <<t, Global>> \in ops' \ ops => {r \in rows' : r.source = t} = Said(t)
<1>1. RowsType /\ ListsType /\ QueuesType /\ BoundsType /\ Exact(t, lists[t], rows)
  BY DEF Types, AllExact
<1>2. CASE WriteChunk(t)
  <2>1. ops' = ops
    BY <1>2 DEF WriteChunk
  <2> QED
    BY <1>1, <1>2, <2>1, ChunkExact
<1>3. CASE SweepChunk(t)
  <2>1. ops' = ops
    BY <1>3 DEF SweepChunk
  <2> QED
    BY <1>1, <1>3, <2>1, SweepExact
<1>4. CASE EndDiff(t)
  <2>1. <<t, Global>> \in ops' \ ops => lists' = [lists EXCEPT ![t] = Idle]
    BY <1>4, Zenon DEF EndDiff
  <2>2. DOMAIN lists = Lists
    BY <1>1 DEF ListsType
  <2>3. <<t, Global>> \in ops' \ ops => lists'[t] = Idle
    BY <2>1, <2>2
  <2> QED
    BY <1>1, <1>4, <2>3, EndExact
<1>5. CASE Crash \/ ChunkFails(t)
  <2>1. lists'[t] = Idle
    BY <1>1, <1>5, CrashQueues, FailedList
  <2>2. \A after, marks : Restart(after, marks) => ops' = ops
    BY DEF Restart
  <2>3. ops' = ops
    BY <1>1, <1>5, <2>2, FailedList DEF Crash
  <2> QED
    BY <2>1, <2>3 DEF Exact
<1>6. CASE ~WriteChunk(t) /\ ~ChunkFails(t) /\ ~SweepChunk(t) /\ ~EndDiff(t) /\ ~Crash
  <2>0. lists[t] # Idle => ~(<<t, Global>> \in ops' \ ops)
    <3>1. Listed(t) => lists[t] = Idle
      BY Zenon DEF Listed
    <3> QED
      BY <1>6, <3>1, WhoNotes
  <2>1. \A r : r.source = t => (r \in rows' <=> r \in rows)
    BY <1>6, SourceLeft
  <2>2. CASE lists'[t] = lists[t]
    <3> DEFINE l == lists[t]
               rt == rows'
    <3>1. Exact(t, l, rows) /\ \A r : r.source = t => (r \in rt <=> r \in rows)
      BY <1>1, <2>1
    <3> HIDE DEF l, rt
    <3>2. Exact(t, l, rt)
      BY <3>1, ExactLeft
    <3> QED
      BY <2>0, <2>2, <3>2 DEF l, rt
  <2>3. CASE lists'[t] # lists[t]
    <3>1. PICK s \in Lists : Listed(s) \/ WriteChunk(s) \/ ChunkFails(s) \/ SweepChunk(s) \/ EndDiff(s)
      <4>1. lists' # lists
        BY <2>3
      <4> QED
        BY <1>6, <4>1, StepKinds, PassStepsLeave, BatchStepsLeave, OtherStepsLeave DEF ListStep, vars, schedule
    <3>2. s = t
      <4>1. s # t => lists'[t] = lists[t]
        BY <1>1, <2>3, <3>1, ListedList, WrittenList, FailedList, SweptList, EndedList
      <4> QED
        BY <2>3, <4>1
    <3>3. Listed(t) /\ lists' # lists
      BY <1>6, <2>3, <3>1, <3>2
    <3>4. PICK diffs \in Diffs(t) : IsList5(lists'[t], diffs, {}, {}, {}, diffs)
      BY <1>1, <3>3, ListedList
    <3>5. IsTold(t, diffs)
      BY Told
    <3> DEFINE m == lists'[t]
               rt == rows'
    <3>6. IsList5(m, diffs, {}, {}, {}, diffs)
      BY <3>4
    <3> HIDE DEF m, rt
    <3>7. Exact(t, m, rt)
      BY <3>5, <3>6, FreshExact
    <3>8. lists[t] = Idle
      BY Zenon, <3>3 DEF Listed
    <3> QED
      BY <3>7, <3>8 DEF m, rt
  <2> QED
    BY <2>2, <2>3
<1> QED
  BY <1>2, <1>3, <1>4, <1>5, <1>6

\* When a list is done, the rows of its source are exactly what it has said:
\* its chunks have written the last word on each key, its sweeps have removed
\* the rest, and nobody else writes rows of its source in between.
THEOREM ListIsExactHolds == Spec => ListIsExact
<1> DEFINE WhenDone == \A t \in Lists : Diffing(t) /\ <<t, Global>> \in ops' \ ops
                                          => {r \in rows' : r.source = t} = Said(t)
<1>1. Init => AllExact
  BY DEF Init, AllExact, Exact
<1>2. Types /\ AllExact /\ [Next]_vars => AllExact'
  BY ListAfter DEF AllExact
<1>3. Types /\ AllExact /\ [Next]_vars => [WhenDone]_vars
  BY ListAfter DEF Diffing
<1> QED
  BY <1>1, <1>2, <1>3, TypesAlways, PTL DEF Spec, ListIsExact
=============================================================================
