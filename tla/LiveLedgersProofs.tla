------------------------- MODULE LiveLedgersProofs -------------------------
(***************************************************************************)
(* Proofs about LiveLedgers, for every number of connections, ledgers and  *)
(* transactions, and whatever the connections miss.                        *)
(*                                                                         *)
(* They hold under two conditions that the code relies on and does not     *)
(* check: transactions carry their ledger, and the hashes that are         *)
(* remembered are enough for the ledgers between the first connection and  *)
(* the last.                                                               *)
(***************************************************************************)
EXTENDS LiveLedgers, FiniteSetTheorems, WellFoundedInduction, TLAPS

USE LiveAssumption

---------------------------------------------------------------------------
(* The invariant.                                                          *)

\* The ledger a message is about.
LedgerIn(m) == IF m[1] = "ledger" THEN m[2] ELSE ledgerOf[m[2]]

\* The messages that may come while some connection is at a ledger.
Around(s) == {m \in AllMessages : LedgerIn(m) \in s - MaxApart .. s + MaxApart}

\* seenHashOrder holds what connections say that are as far apart as they get.
WindowFits == \A s \in Ledgers : Cardinality(Around(s)) <= MaxSeen

\* No connection is farther ahead of another than the bound.
Together == \A c, d \in Connections : at[c] <= at[d] + MaxApart

\* What was delivered is remembered as long as it may be delivered again: the
\* messages behind it in seen come from ledgers near its own.
SeenInv ==
  /\ IsInjective(seen) /\ Range(seen) \subseteq delivered
  /\ \A m \in delivered : \E c \in Connections : LedgerIn(m) <= at[c]
  /\ \A i, j \in 1 .. Len(seen) : i < j => LedgerIn(seen[j]) >= LedgerIn(seen[i]) - MaxApart
  /\ \A m \in delivered : \A c \in Connections : at[c] <= LedgerIn(m) => m \in Range(seen)

\* The transactions of a ledger that have been delivered.
Arrived(s) == {t \in Content(s) : Tx(t) \in delivered}

\* A buffer holds some of what was delivered of its ledger, and is not complete.
BufferInv(s) ==
  /\ IsInjective(pending[s].transactions)
  /\ Range(pending[s].transactions) \subseteq Arrived(s)
  /\ pending[s].header => Header(s) \in delivered
  /\ ~IsComplete(s, pending[s])

\* Until its buffer is given up, nothing of a ledger is lost.
NothingLost(s) ==
  /\ s \in DOMAIN pending => /\ Range(pending[s].transactions) = Arrived(s)
                             /\ pending[s].header <=> Header(s) \in delivered
  /\ s \notin DOMAIN pending => MessagesOf(s) \cap delivered = {}

AssemblyInv ==
  \A s \in Ledgers :
    /\ s \in DOMAIN pending => BufferInv(s)
    /\ emitted[s] # <<>> => MessagesOf(s) \subseteq delivered
    /\ emitted[s] = <<>> /\ s \notin dropped => NothingLost(s)

IInv ==
  /\ Indexed /\ WindowFits
  /\ TypeOK
  /\ pending = [s \in DOMAIN pending |-> pending[s]]
  /\ Together
  /\ SeenInv
  /\ AssemblyInv
  /\ EmittedExact
  /\ EmittedOnce

---------------------------------------------------------------------------
(* Sequences, sets of numbers, and messages.                               *)

\* A sequence without repetitions has as many values as it is long.
LEMMA InjectiveLength ==
  ASSUME NEW S, NEW q \in Seq(S), IsInjective(q)
  PROVE  IsFiniteSet(Range(q)) /\ Cardinality(Range(q)) = Len(q)
<1> DEFINE D == 1 .. Len(q)
           T == Range(q)
<1>1. IsFiniteSet(D) /\ Cardinality(D) = Len(q)
  BY FS_Interval
<1>2. q \in Surjection(D, T) /\ q \in Injection(D, T)
  BY DEF Range, IsInjective, Surjection, Injection
<1> HIDE DEF D, T
<1>3. IsFiniteSet(T) /\ Cardinality(T) = Cardinality(D)
  BY <1>1, <1>2, FS_Surjection
<1> QED
  BY <1>1, <1>3 DEF T

\* A set of numbers that is not empty has a least one.
LEMMA MinFacts ==
  ASSUME NEW S \in SUBSET Nat, S # {}
  PROVE  Min(S) \in S
<1> DEFINE R == {p \in Nat \X Nat : p[1] < p[2]}
<1>1. IsWellFoundedOn(R, Nat)
  <2>1. OpToRel(<, Nat) = R
    BY DEF OpToRel
  <2> QED
    BY <2>1, NatLessThanWellFounded
<1> HIDE DEF R
<1>2. PICK x \in S : \A y \in S : ~(<<y, x>> \in R)
  BY <1>1, WFMin
<1>3. \A y \in S : x <= y
  <2>1. ASSUME NEW y \in S, y < x
        PROVE  FALSE
    <3>1. <<y, x>> \in R
      BY <2>1 DEF R
    <3> QED
      BY <1>2, <3>1
  <2> QED
    BY <2>1
<1> QED
  BY <1>3 DEF Min

\* A message belongs to one ledger, and tells what it is.
LEMMA MessageFacts ==
  ASSUME ledgerOf \in [Transactions -> Ledgers]
  PROVE  /\ \A s \in Ledgers : Header(s) \in AllMessages
         /\ \A t \in Transactions : Tx(t) \in AllMessages
         /\ \A s, t : Header(s) # Tx(t)
         /\ \A s, t : Tx(s) = Tx(t) => s = t
         /\ \A s \in Ledgers : \A m \in MessagesOf(s) : m \in AllMessages /\ LedgerIn(m) = s
         /\ \A m \in AllMessages : LedgerIn(m) \in Ledgers
<1>1. \A s : LedgerIn(Header(s)) = s
  BY DEF LedgerIn, Header
<1>2. \A t : LedgerIn(Tx(t)) = ledgerOf[t]
  BY DEF LedgerIn, Tx
<1>3. \A s, t : Header(s) # Tx(t) /\ (Tx(s) = Tx(t) => s = t)
  BY DEF Header, Tx
<1>4. (\A s \in Ledgers : Header(s) \in AllMessages) /\ (\A t \in Transactions : Tx(t) \in AllMessages)
  BY DEF AllMessages
<1>5. \A s \in Ledgers : \A m \in MessagesOf(s) : m \in AllMessages /\ LedgerIn(m) = s
  BY <1>1, <1>2, <1>4 DEF MessagesOf, Content
<1>6. \A m \in AllMessages : LedgerIn(m) \in Ledgers
  BY <1>1, <1>2 DEF AllMessages
<1> QED
  BY <1>3, <1>4, <1>5, <1>6

LEMMA FiniteMessages == IsFiniteSet(AllMessages)
<1> DEFINE H == {Header(s) : s \in Ledgers}
           X == {Tx(t) : t \in Transactions}
           h == [s \in Ledgers |-> Header(s)]
           x == [t \in Transactions |-> Tx(t)]
<1>1. h \in Surjection(Ledgers, H) /\ x \in Surjection(Transactions, X)
  BY DEF Surjection
<1>2. IsFiniteSet(Ledgers)
  BY FS_Interval DEF Ledgers
<1>3. AllMessages = H \cup X
  BY DEF AllMessages
<1> HIDE DEF H, X, h, x
<1>4. IsFiniteSet(H) /\ IsFiniteSet(X)
  BY <1>1, <1>2, FS_Surjection
<1> QED
  BY <1>3, <1>4, FS_Union

---------------------------------------------------------------------------
(* The hashes that are remembered.                                         *)

\* A message that is not remembered is new.
LEMMA UnseenIsNew ==
  ASSUME IInv, NEW c \in Connections, NEW m \in MessagesOf(at[c]), ~Seen(m)
  PROVE  m \in AllMessages /\ LedgerIn(m) = at[c] /\ m \notin delivered
<1>1. ledgerOf \in [Transactions -> Ledgers] /\ at[c] \in Ledgers
  BY DEF IInv, TypeOK
<1>2. m \in AllMessages /\ LedgerIn(m) = at[c]
  BY <1>1, MessageFacts
<1>3. m \notin delivered
  BY <1>1, <1>2 DEF IInv, SeenInv, Seen, Ledgers
<1> QED
  BY <1>2, <1>3

\* When the window is full, what falls out of it cannot come again: the window
\* is full of messages that came after it, from ledgers near its own.
LEMMA ForgottenIsPast ==
  ASSUME IInv, NEW c \in Connections, NEW m \in MessagesOf(at[c]), ~Seen(m),
         Len(seen) = MaxSeen, NEW d \in Connections
  PROVE  LedgerIn(seen[1]) < at[d]
<1>1. /\ ledgerOf \in [Transactions -> Ledgers] /\ at \in [Connections -> Ledgers]
      /\ seen \in Seq(AllMessages) /\ IsInjective(seen)
  BY DEF IInv, TypeOK, SeenInv
<1>2. m \in AllMessages /\ LedgerIn(m) = at[c] /\ m \notin delivered
  BY UnseenIsNew
<1>3. \A y \in AllMessages : LedgerIn(y) \in Ledgers
  BY <1>1, MessageFacts
<1> DEFINE x == seen[1]
           s == LedgerIn(x)
           W == Around(s)
           T == Range(seen)
<1>4. x \in AllMessages /\ x \in delivered /\ x \in Range(seen)
  BY <1>1 DEF IInv, SeenInv, Range
<1>5. s \in Ledgers
  BY <1>3, <1>4
<1> SUFFICES ASSUME at[d] <= s PROVE FALSE
  BY <1>1, <1>5 DEF Ledgers
<1>6. IsFiniteSet(T) /\ Cardinality(T) = MaxSeen /\ m \notin T
  BY <1>1, InjectiveLength DEF Seen
<1>7. ASSUME NEW y \in delivered
      PROVE  LedgerIn(y) <= s + MaxApart
  <2>1. PICK e \in Connections : LedgerIn(y) <= at[e]
    BY DEF IInv, SeenInv
  <2>2. at[e] <= at[d] + MaxApart
    BY DEF IInv, Together
  <2>3. y \in AllMessages
    BY DEF IInv, TypeOK
  <2> QED
    BY <1>1, <1>3, <1>5, <2>1, <2>2, <2>3 DEF Ledgers
<1>8. \A i \in 1 .. Len(seen) : LedgerIn(seen[i]) >= s - MaxApart
  <2>1. \A i \in 2 .. Len(seen) : LedgerIn(seen[i]) >= LedgerIn(seen[1]) - MaxApart
    BY DEF IInv, SeenInv
  <2>2. s >= s - MaxApart
    BY <1>5 DEF Ledgers
  <2> QED
    BY <2>1, <2>2
<1>9. T \subseteq W
  <2>1. ASSUME NEW i \in 1 .. Len(seen)
        PROVE  seen[i] \in W
    <3>1. seen[i] \in AllMessages /\ seen[i] \in delivered
      BY <1>1 DEF IInv, SeenInv, Range
    <3>2. LedgerIn(seen[i]) \in Ledgers
      BY <1>3, <3>1
    <3> QED
      BY <1>5, <1>7, <1>8, <3>1, <3>2 DEF Around, Ledgers
  <2> QED
    BY <1>1, <2>1 DEF Range
<1>10. m \in W
  <2>1. PICK e \in Connections : s <= at[e]
    BY <1>4 DEF IInv, SeenInv
  <2>2. at[e] <= at[c] + MaxApart /\ at[c] <= at[d] + MaxApart
    BY DEF IInv, Together
  <2> QED
    BY <1>1, <1>2, <1>5, <2>1, <2>2 DEF Around, Ledgers
<1>11. IsFiniteSet(W) /\ Cardinality(W) <= MaxSeen
  <2>1. W \in SUBSET AllMessages
    BY DEF Around
  <2> HIDE DEF W
  <2>2. IsFiniteSet(W)
    BY <2>1, FiniteMessages, FS_Subset
  <2> QED
    BY <1>5, <2>2 DEF IInv, WindowFits, W
<1> DEFINE V == T \cup {m}
<1>12. V \in SUBSET W
  BY <1>9, <1>10
<1> HIDE DEF T, W
<1>13. Cardinality(V) = MaxSeen + 1
  BY <1>6, FS_AddElement
<1> HIDE DEF V
<1>14. Cardinality(V) <= Cardinality(W) /\ Cardinality(W) \in Nat
  BY <1>11, <1>12, FS_Subset, FS_CardinalityType
<1> QED
  BY <1>11, <1>13, <1>14
\* A new message is remembered, and one that falls out cannot come again.
LEMMA RememberKeeps ==
  ASSUME IInv, NEW c \in Connections, NEW m \in MessagesOf(at[c]), ~Seen(m), Remember(m),
         delivered' = delivered \cup {m}, at' = at, ledgerOf' = ledgerOf
  PROVE  SeenInv' /\ seen' \in Seq(AllMessages) /\ Len(seen') <= MaxSeen
<1>1. /\ ledgerOf \in [Transactions -> Ledgers] /\ at \in [Connections -> Ledgers]
      /\ seen \in Seq(AllMessages) /\ IsInjective(seen) /\ Len(seen) <= MaxSeen
      /\ delivered \subseteq AllMessages
  BY DEF IInv, TypeOK, SeenInv
<1>2. m \in AllMessages /\ LedgerIn(m) = at[c] /\ m \notin delivered
  BY UnseenIsNew
<1>3. \A y \in AllMessages : LedgerIn(y) \in Ledgers
  BY <1>1, MessageFacts
<1>4. \A y : LedgerIn(y)' = LedgerIn(y)
  BY DEF LedgerIn
<1> DEFINE k == IF Len(seen) = MaxSeen THEN 1 ELSE 0
           n == Len(seen) - k
<1>5. /\ seen' \in Seq(AllMessages) /\ Len(seen') = n + 1 /\ DOMAIN seen' = 1 .. n + 1
      /\ n + 1 <= MaxSeen /\ n \in Nat
      /\ \A i \in 1 .. n : i + k \in 1 .. Len(seen) /\ seen'[i] = seen[i + k]
      /\ seen'[n + 1] = m
  <2>1. CASE Len(seen) = MaxSeen
    <3> DEFINE q == Tail(seen)
    <3>1. seen # <<>>
      BY <1>1, <2>1
    <3>2. q \in Seq(AllMessages) /\ Len(q) = n /\ n \in Nat
          /\ \A i \in 1 .. n : q[i] = seen[i + 1]
      BY <1>1, <2>1, <3>1
    <3>3. seen' = Append(q, m)
      BY <2>1 DEF Remember
    <3>4. k = 1 /\ n + 1 = Len(seen) /\ n + 1 = MaxSeen
      BY <1>1, <2>1
    <3>5. seen' \in Seq(AllMessages) /\ Len(seen') = n + 1
          /\ \A i \in 1 .. n : seen'[i] = q[i]
      <4> HIDE DEF q, n
      <4> QED
        BY <1>2, <3>2, <3>3
    <3>6. seen'[n + 1] = m
      <4> HIDE DEF q, n
      <4> QED
        BY <1>2, <3>2, <3>3
    <3> HIDE DEF q, k, n
    <3> QED
      BY <3>2, <3>4, <3>5, <3>6
  <2>2. CASE Len(seen) # MaxSeen
    <3>1. seen' = Append(seen, m)
      BY <2>2 DEF Remember
    <3> QED
      BY <1>1, <1>2, <2>2, <3>1
  <2> QED
    BY <2>1, <2>2
<1>6. k \in Nat /\ DOMAIN seen = 1 .. Len(seen) /\ Len(seen) \in Nat
  BY <1>1
<1>7. \A i \in 1 .. Len(seen) : seen[i] \in delivered /\ seen[i] # m /\ seen[i] \in AllMessages
  BY <1>1, <1>2, <1>6 DEF IInv, SeenInv, Range
<1>8. IsInjective(seen')
  <2>1. ASSUME NEW i \in 1 .. n + 1, NEW j \in 1 .. n + 1, seen'[i] = seen'[j]
        PROVE  i = j
    <3> HIDE DEF k, n
    <3>1. CASE i \in 1 .. n /\ j \in 1 .. n
      <4>1. seen[i + k] = seen[j + k] /\ i + k \in DOMAIN seen /\ j + k \in DOMAIN seen
        BY <1>5, <1>6, <2>1, <3>1
      <4>2. i + k = j + k
        BY <1>1, <4>1 DEF IsInjective
      <4> QED
        BY <1>6, <3>1, <4>2
    <3>2. CASE i = n + 1 /\ j \in 1 .. n
      BY <1>5, <1>7, <2>1, <3>2
    <3>3. CASE i \in 1 .. n /\ j = n + 1
      BY <1>5, <1>7, <2>1, <3>3
    <3>4. CASE i = n + 1 /\ j = n + 1
      BY <3>4
    <3> QED
      BY <1>5, <3>1, <3>2, <3>3, <3>4
  <2> QED
    BY <1>5, <2>1 DEF IsInjective
<1>9. Range(seen') \subseteq delivered'
  <2>1. ASSUME NEW i \in 1 .. n + 1
        PROVE  seen'[i] \in delivered'
    <3> HIDE DEF k, n
    <3>1. CASE i \in 1 .. n
      BY <1>5, <1>7, <3>1
    <3>2. CASE i = n + 1
      BY <1>5, <3>2
    <3> QED
      BY <1>5, <3>1, <3>2
  <2> QED
    BY <1>5, <2>1 DEF Range
<1>10. (\A y \in delivered : \E e \in Connections : LedgerIn(y) <= at[e])'
  <2>1. \A y \in delivered : \E e \in Connections : LedgerIn(y) <= at[e]
    BY DEF IInv, SeenInv
  <2>2. at[c] <= at[c]
    BY <1>1 DEF Ledgers
  <2> QED
    BY <1>2, <1>4, <2>1, <2>2
<1>11. ASSUME NEW y \in delivered
       PROVE  LedgerIn(m) >= LedgerIn(y) - MaxApart
  <2>1. PICK e \in Connections : LedgerIn(y) <= at[e]
    BY DEF IInv, SeenInv
  <2>2. at[e] <= at[c] + MaxApart
    BY DEF IInv, Together
  <2> QED
    BY <1>1, <1>2, <1>3, <2>1, <2>2 DEF Ledgers
<1>12. (\A i, j \in 1 .. Len(seen) :
           i < j => LedgerIn(seen[j]) >= LedgerIn(seen[i]) - MaxApart)'
  <2>1. ASSUME NEW i \in 1 .. n + 1, NEW j \in 1 .. n + 1, i < j
        PROVE  LedgerIn(seen'[j]) >= LedgerIn(seen'[i]) - MaxApart
    <3> HIDE DEF k, n
    <3>1. i \in 1 .. n /\ i + k \in 1 .. Len(seen) /\ seen'[i] = seen[i + k]
      BY <1>5, <2>1
    <3>2. CASE j \in 1 .. n
      <4>1. j + k \in 1 .. Len(seen) /\ seen'[j] = seen[j + k] /\ i + k < j + k
        BY <1>5, <1>6, <2>1, <3>1, <3>2
      <4> QED
        BY <3>1, <4>1 DEF IInv, SeenInv
    <3>3. CASE j = n + 1
      BY <1>5, <1>7, <1>11, <3>1, <3>3
    <3> QED
      BY <1>5, <3>2, <3>3
  <2> HIDE DEF k, n
  <2>2. Len(seen') = n + 1
    BY <1>5
  <2> QED
    BY <2>1, <2>2 DEF LedgerIn
<1>13. ASSUME NEW y \in delivered', NEW d \in Connections, at[d] <= LedgerIn(y)
       PROVE  y \in Range(seen')
  <2>1. CASE y = m
    <3> HIDE DEF k, n
    <3> QED
      BY <1>5, <2>1 DEF Range
  <2>2. CASE y \in delivered
    <3>1. y \in Range(seen)
      BY <1>13, <2>2 DEF IInv, SeenInv
    <3>2. PICK i \in 1 .. Len(seen) : y = seen[i]
      BY <1>6, <3>1 DEF Range
    <3>3. i - k \in 1 .. n
      <4>1. CASE Len(seen) = MaxSeen
        <5>1. LedgerIn(seen[1]) < at[d]
          BY <4>1, ForgottenIsPast
        <5>2. i # 1
          BY <1>1, <1>3, <1>7, <1>13, <3>2, <5>1 DEF Ledgers
        <5> QED
          BY <1>6, <4>1, <5>2
      <4>2. CASE Len(seen) # MaxSeen
        <5>1. k = 0
          BY <4>2
        <5> HIDE DEF k
        <5> QED
          BY <1>6, <5>1
      <4> QED
        BY <4>1, <4>2
    <3> HIDE DEF k, n
    <3>4. seen'[i - k] = y /\ i - k \in DOMAIN seen'
      BY <1>5, <1>6, <3>2, <3>3
    <3> QED
      BY <3>4 DEF Range
  <2> QED
    BY <2>1, <2>2
<1>14. SeenInv'
  <2>1. (\A y \in delivered : \A d \in Connections : at[d] <= LedgerIn(y) => y \in Range(seen))'
    BY <1>4, <1>13
  <2> QED
    BY <1>8, <1>9, <1>10, <1>12, <2>1 DEF SeenInv
<1> QED
  BY <1>5, <1>14

---------------------------------------------------------------------------
(* The buffers.                                                            *)

\* A buffer and one message more of its ledger.
Grown(s, m, changed) ==
  /\ changed \in Buffers
  /\ IsInjective(changed.transactions)
  /\ Range(changed.transactions) =
       Range(BufferFor(s).transactions) \cup {t \in Content(s) : Tx(t) = m}
  /\ changed.header <=> (BufferFor(s).header \/ m = Header(s))

\* What a buffer holds before a message of its ledger is put into it.
LEMMA BufferFacts ==
  ASSUME IInv, NEW s \in Ledgers
  PROVE  /\ BufferFor(s) \in Buffers
         /\ IsInjective(BufferFor(s).transactions)
         /\ Range(BufferFor(s).transactions) \subseteq Arrived(s)
         /\ BufferFor(s).header => Header(s) \in delivered
         /\ emitted[s] = <<>> /\ s \notin dropped =>
              /\ Range(BufferFor(s).transactions) = Arrived(s)
              /\ BufferFor(s).header <=> Header(s) \in delivered
<1>1. CASE s \in DOMAIN pending
  <2>1. BufferFor(s) = pending[s]
    BY <1>1 DEF BufferFor
  <2>2. pending[s] \in Buffers
    BY <1>1 DEF IInv, TypeOK
  <2>3. BufferInv(s)
    BY <1>1 DEF IInv, AssemblyInv
  <2>4. emitted[s] = <<>> /\ s \notin dropped => NothingLost(s)
    BY DEF IInv, AssemblyInv
  <2> QED
    BY <1>1, <2>1, <2>2, <2>3, <2>4 DEF BufferInv, NothingLost
<1>2. CASE s \notin DOMAIN pending
  <2>1. BufferFor(s) = Fresh
    BY <1>2 DEF BufferFor
  <2>2. Fresh \in Buffers /\ Fresh.transactions = <<>> /\ Fresh.header = FALSE
    BY DEF Fresh, Buffers
  <2>3. IsInjective(<<>>) /\ Range(<<>>) = {}
    BY DEF IsInjective, Range
  <2>4. emitted[s] = <<>> /\ s \notin dropped => MessagesOf(s) \cap delivered = {}
    BY <1>2 DEF IInv, AssemblyInv, NothingLost
  <2>5. Header(s) \in MessagesOf(s) /\ \A t \in Content(s) : Tx(t) \in MessagesOf(s)
    BY DEF MessagesOf
  <2> QED
    BY <2>1, <2>2, <2>3, <2>4, <2>5 DEF Arrived
<1> QED
  BY <1>1, <1>2
LEMMA FiniteContent ==
  ASSUME NEW s
  PROVE  IsFiniteSet(Content(s))
<1> DEFINE C == Content(s)
<1>1. C \in SUBSET Transactions
  BY DEF Content
<1> HIDE DEF C
<1>2. IsFiniteSet(C)
  BY <1>1, FS_Subset
<1> QED
  BY <1>2 DEF C

\* A complete buffer holds exactly the transactions of its ledger: they are as
\* many, none is there twice, and none is from elsewhere.
LEMMA CompleteIsExact ==
  ASSUME NEW s, NEW b \in Buffers, IsInjective(b.transactions),
         Range(b.transactions) \subseteq Content(s), IsComplete(s, b)
  PROVE  Range(b.transactions) = Content(s)
<1> DEFINE C == Content(s)
           q == b.transactions
           T == Range(q)
<1>1. q \in Seq(Transactions) /\ IsInjective(q) /\ T \in SUBSET C /\ Len(q) = Cardinality(C)
  BY DEF Buffers, IsComplete
<1>2. IsFiniteSet(C)
  BY FiniteContent
<1> HIDE DEF q, C
<1>3. Cardinality(T) = Cardinality(C)
  BY <1>1, InjectiveLength
<1> HIDE DEF T
<1>4. T = C
  BY <1>1, <1>2, <1>3, FS_Subset
<1> QED
  BY <1>4 DEF T, C, q

\* The ledgers that are given up are in assembly, and leave no more than may be.
LEMMA GivenUpFacts ==
  ASSUME NEW D \in SUBSET Ledgers, NEW s \in Ledgers, s \notin D, Cardinality(D) <= MaxPending
  PROVE  /\ GivenUp(D \cup {s}) \subseteq D \cup {s}
         /\ Cardinality((D \cup {s}) \ GivenUp(D \cup {s})) <= MaxPending
<1> DEFINE E == D \cup {s}
           x == Min(E)
<1>1. IsFiniteSet(D)
  <2>1. IsFiniteSet(Ledgers)
    BY FS_Interval DEF Ledgers
  <2> QED
    BY <2>1, FS_Subset
<1>2. IsFiniteSet(E) /\ Cardinality(E) = Cardinality(D) + 1 /\ Cardinality(D) \in Nat
  BY <1>1, FS_AddElement, FS_CardinalityType
<1>3. E \in SUBSET Nat /\ E # {}
  BY DEF Ledgers
<1>4. CASE Cardinality(E) > MaxPending
  <2>1. GivenUp(E) = {x}
    BY <1>4 DEF GivenUp
  <2> HIDE DEF E
  <2>2. x \in E
    BY <1>3, MinFacts
  <2> HIDE DEF x
  <2>3. Cardinality(E \ {x}) = Cardinality(E) - 1
    BY <1>2, <2>2, FS_RemoveElement
  <2>4. Cardinality(E \ {x}) <= MaxPending
    BY <1>2, <2>3
  <2> QED
    BY <2>1, <2>2, <2>4 DEF E
<1>5. CASE ~(Cardinality(E) > MaxPending)
  <2>1. GivenUp(E) = {}
    BY <1>5 DEF GivenUp
  <2>2. E \ {} = E
    OBVIOUS
  <2> HIDE DEF E
  <2>3. Cardinality(E) <= MaxPending
    BY <1>2, <1>5
  <2> QED
    BY <2>1, <2>2, <2>3 DEF E
<1> QED
  BY <1>4, <1>5

\* A new message of a ledger is put into its buffer, and the ledger is emitted
\* if that completes it.
LEMMA DeliverKeeps ==
  ASSUME IInv, NEW s \in Ledgers, NEW m \in MessagesOf(s), m \notin delivered,
         NEW changed, Grown(s, m, changed), Deliver(s, changed),
         delivered' = delivered \cup {m}, ledgerOf' = ledgerOf
  PROVE  /\ AssemblyInv' /\ EmittedExact' /\ EmittedOnce'
         /\ pending' = [r \in DOMAIN pending' |-> pending'[r]]
         /\ DOMAIN pending' \subseteq Ledgers /\ Cardinality(DOMAIN pending') <= MaxPending
         /\ \A r \in DOMAIN pending' : pending'[r] \in Buffers
         /\ emitted' \in [Ledgers -> Seq(Seq(Transactions))]
         /\ dropped' \subseteq Ledgers
<1> SUFFICES ASSUME NEW D, D = DOMAIN pending,
                    NEW lost, lost = IF s \in D THEN {} ELSE GivenUp(D \cup {s}),
                    NEW buffers, buffers = [r \in (D \cup {s}) \ lost |->
                                              IF r = s THEN changed ELSE pending[r]]
             PROVE  /\ AssemblyInv' /\ EmittedExact' /\ EmittedOnce'
                    /\ pending' = [r \in DOMAIN pending' |-> pending'[r]]
                    /\ DOMAIN pending' \subseteq Ledgers /\ Cardinality(DOMAIN pending') <= MaxPending
                    /\ \A r \in DOMAIN pending' : pending'[r] \in Buffers
                    /\ emitted' \in [Ledgers -> Seq(Seq(Transactions))]
                    /\ dropped' \subseteq Ledgers
  OBVIOUS
<1>1. /\ D \in SUBSET Ledgers /\ Cardinality(D) <= MaxPending
      /\ \A r \in D : pending[r] \in Buffers
      /\ emitted \in [Ledgers -> Seq(Seq(Transactions))]
      /\ dropped \subseteq Ledgers
      /\ ledgerOf \in [Transactions -> Ledgers]
  BY DEF IInv, TypeOK
<1>2. DOMAIN buffers = (D \cup {s}) \ lost /\ (s \in DOMAIN buffers => buffers[s] = changed)
      /\ \A r \in DOMAIN buffers \ {s} : r \in D /\ buffers[r] = pending[r]
  OBVIOUS
<1>3. dropped' = dropped \cup lost
  BY DEF Deliver
<1>4. lost \subseteq D \cup {s} /\ Cardinality(DOMAIN buffers) <= MaxPending
  <2>1. CASE s \in D
    <3>1. lost = {} /\ (D \cup {s}) \ lost = D
      BY <2>1
    <3> QED
      BY <1>1, <1>2, <3>1
  <2>2. CASE s \notin D
    BY <1>1, <1>2, <2>2, GivenUpFacts
  <2> QED
    BY <2>1, <2>2
<1>5. \A r : Content(r)' = Content(r) /\ MessagesOf(r)' = MessagesOf(r)
  BY DEF Content, MessagesOf
<1>6. /\ changed \in Buffers /\ IsInjective(changed.transactions)
      /\ Range(changed.transactions) \subseteq Arrived(s)'
      /\ changed.header => Header(s) \in delivered'
      /\ emitted[s] = <<>> /\ s \notin dropped =>
           /\ Range(changed.transactions) = Arrived(s)'
           /\ changed.header <=> Header(s) \in delivered'
  <2>1. Arrived(s)' = Arrived(s) \cup {t \in Content(s) : Tx(t) = m}
    BY <1>5 DEF Arrived
  <2> QED
    BY <2>1, BufferFacts DEF Grown
<1>7. emitted[s] = <<>> /\ s \notin dropped => NothingLost(s)
  BY DEF IInv, AssemblyInv
<1>8. emitted[s] = <<>>
  BY DEF IInv, AssemblyInv
<1>9. ASSUME NEW r \in Ledgers, r # s
      PROVE  /\ MessagesOf(r) \cap delivered' = MessagesOf(r) \cap delivered
             /\ Arrived(r)' = Arrived(r) /\ Header(r) # m
  <2>1. m \notin MessagesOf(r)
    BY <1>1, <1>9, MessageFacts
  <2>2. Header(r) \in MessagesOf(r) /\ \A t \in Content(r) : Tx(t) \in MessagesOf(r)
    BY DEF MessagesOf
  <2> QED
    BY <1>5, <2>1, <2>2 DEF Arrived
<1>10. \/ /\ s \in DOMAIN buffers /\ IsComplete(s, changed)
          /\ pending' = [r \in DOMAIN buffers \ {s} |-> buffers[r]]
          /\ emitted' = [emitted EXCEPT ![s] = Append(emitted[s], changed.transactions)]
       \/ /\ ~(s \in DOMAIN buffers /\ IsComplete(s, changed))
          /\ pending' = buffers /\ emitted' = emitted
  BY DEF Deliver, Remaining, Restrict
<1>11. ASSUME NEW r \in Ledgers, r # s
       PROVE  /\ r \in DOMAIN pending' <=> r \in D \ lost
              /\ r \in DOMAIN pending' => pending'[r] = pending[r]
              /\ emitted'[r] = emitted[r]
  BY <1>1, <1>2, <1>10, <1>11
<1>12. ASSUME NEW r \in Ledgers, r # s
       PROVE  /\ r \in DOMAIN pending' => BufferInv(r)'
              /\ emitted'[r] # <<>> => MessagesOf(r)' \subseteq delivered'
              /\ emitted'[r] = <<>> /\ r \notin dropped' => NothingLost(r)'
  <2>1. /\ r \in DOMAIN pending' <=> r \in D \ lost
        /\ r \in DOMAIN pending' => pending'[r] = pending[r]
        /\ emitted'[r] = emitted[r]
    BY <1>11, <1>12
  <2>2. /\ r \in D => BufferInv(r)
        /\ emitted[r] # <<>> => MessagesOf(r) \subseteq delivered
        /\ emitted[r] = <<>> /\ r \notin dropped => NothingLost(r)
    BY DEF IInv, AssemblyInv
  <2>3. /\ MessagesOf(r) \cap delivered' = MessagesOf(r) \cap delivered
        /\ Arrived(r)' = Arrived(r) /\ Header(r) # m
    BY <1>9, <1>12
  <2>4. ASSUME r \in DOMAIN pending'
        PROVE  BufferInv(r)'
    <3>1. BufferInv(r) /\ pending'[r] = pending[r]
      BY <2>1, <2>2, <2>4
    <3>2. IsComplete(r, pending[r])' <=> IsComplete(r, pending[r])
      BY <1>5, <3>1 DEF IsComplete
    <3> QED
      BY <2>3, <3>1, <3>2 DEF BufferInv
  <2>5. ASSUME emitted'[r] = <<>>, r \notin dropped'
        PROVE  NothingLost(r)'
    <3>1. NothingLost(r) /\ (r \in DOMAIN pending' <=> r \in D)
      BY <1>3, <2>1, <2>2, <2>5
    <3> QED
      BY <1>5, <2>1, <2>3, <3>1 DEF NothingLost
  <2>6. emitted'[r] # <<>> => MessagesOf(r)' \subseteq delivered'
    BY <1>5, <2>1, <2>2
  <2> QED
    BY <2>4, <2>5, <2>6
<1>13. ASSUME NEW r \in Ledgers, r # s
       PROVE  /\ \A i \in DOMAIN emitted'[r] : /\ Range(emitted'[r][i]) = Content(r)'
                                               /\ IsInjective(emitted'[r][i])
              /\ Len(emitted'[r]) <= 1
              /\ emitted'[r] # <<>> => r \notin DOMAIN pending'
  <2>1. emitted'[r] = emitted[r] /\ (r \in DOMAIN pending' => r \in D)
    BY <1>11, <1>13
  <2> QED
    BY <1>5, <2>1 DEF IInv, EmittedExact, EmittedOnce
<1>14. CASE /\ s \in DOMAIN buffers /\ IsComplete(s, changed)
            /\ pending' = [r \in DOMAIN buffers \ {s} |-> buffers[r]]
            /\ emitted' = [emitted EXCEPT ![s] = Append(emitted[s], changed.transactions)]
  <2> DEFINE q == changed.transactions
  <2>1. q \in Seq(Transactions) /\ IsInjective(q)
    BY <1>6 DEF Buffers
  <2>2. emitted'[s] = Append(<<>>, q)
    BY <1>1, <1>8, <1>14
  <2>3. Range(q) = Content(s)
    <3>1. Range(q) \subseteq Content(s)
      BY <1>5, <1>6 DEF Arrived
    <3> QED
      BY <1>6, <1>14, <3>1, CompleteIsExact
  <2>4. MessagesOf(s) \subseteq delivered'
    <3>1. Header(s) \in delivered'
      BY <1>6, <1>14 DEF IsComplete
    <3>2. \A t \in Content(s) : Tx(t) \in delivered'
      BY <1>6, <2>3 DEF Arrived
    <3> QED
      BY <3>1, <3>2 DEF MessagesOf
  <2> HIDE DEF q
  <2>5. emitted'[s] \in Seq(Seq(Transactions)) /\ Len(emitted'[s]) = 1
        /\ DOMAIN emitted'[s] = {1} /\ emitted'[s][1] = q /\ emitted'[s] # <<>>
    BY <2>1, <2>2
  <2>6. s \notin DOMAIN pending'
    BY <1>14
  <2>7. AssemblyInv'
    BY <1>5, <1>12, <2>4, <2>5, <2>6 DEF AssemblyInv
  <2>8. EmittedExact'
    <3>1. \A i \in DOMAIN emitted'[s] : Range(emitted'[s][i]) = Content(s)'
                                        /\ IsInjective(emitted'[s][i])
      BY <1>5, <2>1, <2>3, <2>5
    <3> QED
      BY <1>13, <3>1 DEF EmittedExact
  <2>9. EmittedOnce'
    <3>1. Len(emitted'[s]) <= 1
      BY <2>5
    <3> QED
      BY <1>13, <2>6, <3>1 DEF EmittedOnce
  <2>10. emitted' \in [Ledgers -> Seq(Seq(Transactions))]
    <3>1. Append(emitted[s], changed.transactions) \in Seq(Seq(Transactions))
      BY <1>1, <1>14, <2>5
    <3> QED
      BY <1>1, <1>14, <3>1
  <2>11. DOMAIN pending' = DOMAIN buffers \ {s} /\ Cardinality(DOMAIN pending') <= MaxPending
    <3> DEFINE E == DOMAIN buffers
    <3>1. IsFiniteSet(E)
      <4>1. E \in SUBSET Ledgers
        BY <1>1, <1>2
      <4>2. IsFiniteSet(Ledgers)
        BY FS_Interval DEF Ledgers
      <4> HIDE DEF E
      <4> QED
        BY <4>1, <4>2, FS_Subset
    <3>2. DOMAIN pending' = E \ {s}
      BY <1>14
    <3> DEFINE F == E \ {s}
    <3>3. F \in SUBSET E
      OBVIOUS
    <3> HIDE DEF E, F
    <3>4. IsFiniteSet(F) /\ Cardinality(F) <= Cardinality(E)
      BY <3>1, <3>3, FS_Subset
    <3>5. Cardinality(E) \in Nat /\ Cardinality(F) \in Nat
      BY <3>1, <3>4, FS_CardinalityType
    <3>6. Cardinality(E) <= MaxPending
      BY <1>4 DEF E
    <3>7. Cardinality(F) <= MaxPending
      BY <3>4, <3>5, <3>6
    <3> QED
      BY <3>2, <3>7 DEF E, F
  <2>12. \A r \in DOMAIN pending' : pending'[r] \in Buffers
    BY <1>1, <1>2, <1>14
  <2>13. pending' = [r \in DOMAIN pending' |-> pending'[r]] /\ DOMAIN pending' \subseteq Ledgers
    BY <1>1, <1>2, <1>14
  <2>14. dropped' \subseteq Ledgers
    BY <1>1, <1>3, <1>4
  <2> QED
    BY <2>7, <2>8, <2>9, <2>10, <2>11, <2>12, <2>13, <2>14
<1>15. CASE /\ ~(s \in DOMAIN buffers /\ IsComplete(s, changed))
            /\ pending' = buffers /\ emitted' = emitted
  <2>1. s \in DOMAIN pending' => pending'[s] = changed
    BY <1>2, <1>15
  <2>2. s \in DOMAIN pending' => BufferInv(s)'
    <3> SUFFICES ASSUME s \in DOMAIN pending' PROVE BufferInv(s)'
      OBVIOUS
    <3>1. pending'[s] = changed /\ ~IsComplete(s, changed)
      BY <1>15, <2>1
    <3>2. ~IsComplete(s, pending[s])'
      BY <1>5, <3>1 DEF IsComplete
    <3> QED
      BY <1>6, <3>1, <3>2 DEF BufferInv
  <2>3. s \notin dropped' => NothingLost(s)'
    <3> SUFFICES ASSUME s \notin dropped' PROVE NothingLost(s)'
      OBVIOUS
    <3>1. s \in DOMAIN pending' /\ s \notin dropped
      BY <1>2, <1>3, <1>15
    <3> QED
      BY <1>6, <1>8, <2>1, <3>1 DEF NothingLost
  <2>4. emitted'[s] = <<>>
    BY <1>8, <1>15
  <2>5. AssemblyInv'
    BY <1>12, <2>2, <2>3, <2>4 DEF AssemblyInv
  <2>6. EmittedExact'
    <3>1. DOMAIN emitted'[s] = {}
      BY <2>4
    <3> QED
      BY <1>13, <3>1 DEF EmittedExact
  <2>7. EmittedOnce'
    <3>1. Len(emitted'[s]) <= 1
      BY <2>4
    <3> QED
      BY <1>13, <2>4, <3>1 DEF EmittedOnce
  <2>8. \A r \in DOMAIN pending' : pending'[r] \in Buffers
    BY <1>1, <1>2, <1>6, <1>15
  <2>9. pending' = [r \in DOMAIN pending' |-> pending'[r]] /\ DOMAIN pending' \subseteq Ledgers
    BY <1>1, <1>2, <1>15
  <2>10. dropped' \subseteq Ledgers
    BY <1>1, <1>3, <1>4
  <2> QED
    BY <1>1, <1>4, <1>15, <2>5, <2>6, <2>7, <2>8, <2>9, <2>10
<1> QED
  BY <1>10, <1>14, <1>15
---------------------------------------------------------------------------
(* The steps.                                                              *)

LEMMA InitInv == Indexed /\ WindowFits /\ Init => IInv
<1> SUFFICES ASSUME Indexed, WindowFits, Init
             PROVE  IInv
  OBVIOUS
<1>0. 1 \in Ledgers
  BY DEF Ledgers
<1>1. DOMAIN pending = {} /\ pending = [s \in DOMAIN pending |-> pending[s]]
  BY DEF Init
<1>2. Cardinality(DOMAIN pending) = 0
  BY <1>1, FS_EmptySet
<1>3. <<>> \in Seq(AllMessages) /\ <<>> \in Seq(Seq(Transactions)) /\ Len(<<>>) = 0
      /\ Range(<<>>) = {} /\ IsInjective(<<>>) /\ DOMAIN <<>> = {}
  BY DEF Range, IsInjective
<1>4. TypeOK
  BY <1>0, <1>1, <1>2, <1>3 DEF Init, TypeOK
<1>5. Together
  BY DEF Init, Together
<1>6. SeenInv
  BY <1>3 DEF Init, SeenInv
<1>7. AssemblyInv
  BY <1>1 DEF Init, AssemblyInv, NothingLost
<1>8. EmittedExact /\ EmittedOnce
  BY <1>1, <1>3 DEF Init, EmittedExact, EmittedOnce
<1> QED
  BY <1>1, <1>4, <1>5, <1>6, <1>7, <1>8 DEF IInv

\* What the network has decided, and whether the window fits, stay.
LEMMA NetworkStays ==
  ASSUME IInv, ledgerOf' = ledgerOf
  PROVE  WindowFits'
<1>1. \A s : Around(s)' = Around(s)
  BY DEF Around, LedgerIn
<1> QED
  BY <1>1 DEF IInv, WindowFits

\* ... and so does what is in assembly, if nothing new is delivered.
LEMMA AssemblyStays ==
  ASSUME AssemblyInv, UNCHANGED <<ledgerOf, pending, emitted, delivered, dropped>>
  PROVE  AssemblyInv'
<1>1. \A s : Content(s)' = Content(s) /\ MessagesOf(s)' = MessagesOf(s) /\ Arrived(s)' = Arrived(s)
  BY DEF Content, MessagesOf, Arrived
<1>2. ASSUME NEW s \in Ledgers, BufferInv(s)
      PROVE  BufferInv(s)'
  BY <1>1, <1>2 DEF BufferInv, IsComplete
<1>3. ASSUME NEW s \in Ledgers, NothingLost(s)
      PROVE  NothingLost(s)'
  BY <1>1, <1>3 DEF NothingLost
<1> QED
  BY <1>1, <1>2, <1>3 DEF AssemblyInv

LEMMA RepeatedStep ==
  ASSUME IInv, NEW c \in Connections, NEW m \in MessagesOf(at[c]), OnRepeated(m),
         given' = [given EXCEPT ![c] = @ \cup {m}],
         delivered' = delivered \cup {m}, UNCHANGED <<ledgerOf, at>>
  PROVE  IInv'
<1>1. m \in delivered
  BY DEF OnRepeated, Seen, IInv, SeenInv
<1>2. UNCHANGED <<ledgerOf, at, seen, pending, emitted, delivered, dropped>>
  BY <1>1 DEF OnRepeated, Ignore
<1>3. m \in AllMessages
  BY <1>1 DEF IInv, TypeOK
<1>4. given' \in [Connections -> SUBSET AllMessages]
  BY <1>3 DEF IInv, TypeOK
<1>5. TypeOK'
  BY <1>2, <1>4 DEF IInv, TypeOK
<1>6. Together' /\ SeenInv' /\ EmittedExact' /\ EmittedOnce'
  BY <1>2 DEF IInv, Together, SeenInv, LedgerIn, EmittedExact, EmittedOnce, Content
<1>7. AssemblyInv'
  BY <1>2, AssemblyStays DEF IInv
<1> QED
  BY <1>2, <1>5, <1>6, <1>7, NetworkStays DEF IInv

\* A message that counts is put into the buffer of its ledger.
LEMMA NewStep ==
  ASSUME IInv, NEW c \in Connections, NEW m \in MessagesOf(at[c]), ~Seen(m), Remember(m),
         NEW changed, Grown(at[c], m, changed), Deliver(at[c], changed),
         given' = [given EXCEPT ![c] = @ \cup {m}],
         delivered' = delivered \cup {m}, UNCHANGED <<ledgerOf, at>>
  PROVE  IInv'
<1> DEFINE s == at[c]
<1>1. s \in Ledgers /\ m \in MessagesOf(s) /\ Grown(s, m, changed) /\ Deliver(s, changed)
  BY DEF IInv, TypeOK
<1>2. m \in AllMessages /\ m \notin delivered
  BY UnseenIsNew
<1>3. SeenInv' /\ seen' \in Seq(AllMessages) /\ Len(seen') <= MaxSeen
  BY RememberKeeps
<1> HIDE DEF s
<1>4. /\ AssemblyInv' /\ EmittedExact' /\ EmittedOnce'
      /\ pending' = [r \in DOMAIN pending' |-> pending'[r]]
      /\ DOMAIN pending' \subseteq Ledgers /\ Cardinality(DOMAIN pending') <= MaxPending
      /\ \A r \in DOMAIN pending' : pending'[r] \in Buffers
      /\ emitted' \in [Ledgers -> Seq(Seq(Transactions))]
      /\ dropped' \subseteq Ledgers
  BY <1>1, <1>2, DeliverKeeps
<1>5. given' \in [Connections -> SUBSET AllMessages] /\ delivered' \subseteq AllMessages
  BY <1>2 DEF IInv, TypeOK
<1>6. TypeOK'
  BY <1>3, <1>4, <1>5 DEF IInv, TypeOK
<1>7. Together'
  BY DEF IInv, Together
<1> QED
  BY <1>3, <1>4, <1>6, <1>7, NetworkStays DEF IInv

LEMMA HeaderGrows ==
  ASSUME IInv, NEW s \in Ledgers
  PROVE  Grown(s, Header(s), Merged(BufferFor(s)))
<1> DEFINE b == BufferFor(s)
           g == [transactions |-> b.transactions, header |-> TRUE]
<1>1. b \in Buffers /\ IsInjective(b.transactions)
  BY BufferFacts
<1>2. Merged(b) = g
  BY DEF Merged
<1>3. g \in Buffers
  BY <1>1 DEF Buffers
<1>4. {t \in Content(s) : Tx(t) = Header(s)} = {}
  BY DEF Tx, Header
<1> QED
  BY <1>1, <1>2, <1>3, <1>4 DEF Grown

LEMMA TransactionGrows ==
  ASSUME IInv, NEW s \in Ledgers, NEW t \in Content(s), Tx(t) \notin delivered
  PROVE  Grown(s, Tx(t), [BufferFor(s) EXCEPT !.transactions = Append(@, t)])
<1> DEFINE b == BufferFor(s)
           q == b.transactions
           p == Append(q, t)
           g == [transactions |-> p, header |-> b.header]
<1>1. b \in Buffers /\ IsInjective(q) /\ Range(q) \subseteq Arrived(s)
  BY BufferFacts
<1>2. [b EXCEPT !.transactions = Append(@, t)] = g
  <2>1. b = [transactions |-> b.transactions, header |-> b.header]
    BY <1>1 DEF Buffers
  <2> HIDE DEF b
  <2> QED
    BY <2>1
<1>3. q \in Seq(Transactions) /\ t \in Transactions /\ t \notin Range(q)
  BY <1>1 DEF Buffers, Content, Arrived
<1> HIDE DEF q
<1>4. /\ p \in Seq(Transactions) /\ DOMAIN p = 1 .. Len(q) + 1 /\ DOMAIN q = 1 .. Len(q)
      /\ \A i \in 1 .. Len(q) : p[i] = q[i]
      /\ p[Len(q) + 1] = t
  BY <1>3
<1> HIDE DEF p
<1>5. IsInjective(p) /\ Range(p) = Range(q) \cup {t}
  BY <1>1, <1>3, <1>4 DEF IsInjective, Range
<1>6. {u \in Content(s) : Tx(u) = Tx(t)} = {t}
  BY DEF Tx
<1>7. g \in Buffers
  BY <1>1, <1>4 DEF Buffers
<1>8. Tx(t) # Header(s)
  BY DEF Tx, Header
<1> QED
  BY <1>2, <1>5, <1>6, <1>7, <1>8 DEF Grown, q

LEMMA ReceiveStep ==
  ASSUME IInv, NEW c \in Connections, Receive(c)
  PROVE  IInv'
<1> PICK m \in MessagesOf(at[c]) \ given[c] :
      /\ \/ OnRepeated(m)
         \/ ~Seen(m) /\ m = Header(at[c]) /\ OnHeader(at[c])
         \/ ~Seen(m) /\ \E t \in Content(at[c]) : m = Tx(t) /\ OnTransaction(t)
      /\ given' = [given EXCEPT ![c] = @ \cup {m}]
      /\ delivered' = delivered \cup {m}
  BY DEF Receive
<1>1. UNCHANGED <<ledgerOf, at>>
  BY DEF Receive
<1>2. at[c] \in Ledgers /\ ledgerOf \in [Transactions -> Ledgers]
  BY DEF IInv, TypeOK
<1>3. CASE OnRepeated(m)
  BY <1>1, <1>3, RepeatedStep
<1>4. CASE ~Seen(m) /\ m = Header(at[c]) /\ OnHeader(at[c])
  <2> SUFFICES ASSUME NEW changed, changed = Merged(BufferFor(at[c]))
               PROVE  IInv'
    OBVIOUS
  <2>1. Remember(m) /\ Deliver(at[c], changed)
    BY <1>4 DEF OnHeader
  <2>2. Grown(at[c], m, changed)
    BY <1>2, <1>4, HeaderGrows
  <2> QED
    BY <1>1, <1>4, <2>1, <2>2, NewStep
<1>5. CASE ~Seen(m) /\ \E t \in Content(at[c]) : m = Tx(t) /\ OnTransaction(t)
  <2> PICK t \in Content(at[c]) : m = Tx(t) /\ OnTransaction(t)
    BY <1>5
  <2> SUFFICES ASSUME NEW changed,
                      changed = [BufferFor(at[c]) EXCEPT !.transactions = Append(@, t)]
               PROVE  IInv'
    OBVIOUS
  <2>1. Sequence(t) = at[c] /\ at[c] # 0
    BY <1>2 DEF Sequence, IInv, Content, Ledgers
  <2>2. Remember(m) /\ Deliver(at[c], changed)
    BY <2>1 DEF OnTransaction
  <2>3. m \notin delivered
    BY <1>5, UnseenIsNew
  <2>4. Grown(at[c], m, changed)
    BY <1>2, <2>3, TransactionGrows
  <2> QED
    BY <1>1, <1>5, <2>2, <2>4, NewStep
<1> QED
  BY <1>3, <1>4, <1>5

LEMMA AdvanceStep ==
  ASSUME IInv, NEW c \in Connections, Advance(c)
  PROVE  IInv'
<1>1. /\ at[c] < LastLedger
      /\ \A d \in Connections : at[c] < at[d] + MaxApart
      /\ at' = [at EXCEPT ![c] = at[c] + 1]
      /\ given' = [given EXCEPT ![c] = {}]
      /\ UNCHANGED <<ledgerOf, seen, pending, emitted, delivered, dropped>>
  BY DEF Advance
<1>2. at \in [Connections -> Ledgers] /\ ledgerOf \in [Transactions -> Ledgers]
      /\ delivered \subseteq AllMessages
  BY DEF IInv, TypeOK
<1>3. at' \in [Connections -> Ledgers] /\ \A d \in Connections : at[d] <= at'[d]
  BY <1>1, <1>2 DEF Ledgers
<1>4. TypeOK'
  BY <1>1, <1>3 DEF IInv, TypeOK
<1>5. Together'
  <2>1. ASSUME NEW d \in Connections, NEW e \in Connections
        PROVE  at'[d] <= at'[e] + MaxApart
    <3>1. at[d] <= at[e] + MaxApart
      BY DEF IInv, Together
    <3>2. CASE d = c
      BY <1>1, <1>2, <1>3, <3>2 DEF Ledgers
    <3>3. CASE d # c
      BY <1>1, <1>2, <1>3, <3>1, <3>3 DEF Ledgers
    <3> QED
      BY <3>2, <3>3
  <2> QED
    BY <2>1 DEF Together
<1>6. \A y \in delivered : LedgerIn(y)' = LedgerIn(y) /\ LedgerIn(y) \in Ledgers
  <2>1. \A y \in delivered : LedgerIn(y) \in Ledgers
    BY <1>2, MessageFacts
  <2> QED
    BY <1>1, <2>1 DEF LedgerIn
<1>7. SeenInv'
  <2>1. \A y \in delivered : \E e \in Connections : LedgerIn(y) <= at'[e]
    <3> TAKE y \in delivered
    <3>1. PICK e \in Connections : LedgerIn(y) <= at[e]
      BY DEF IInv, SeenInv
    <3> QED
      BY <1>2, <1>3, <1>6, <3>1 DEF Ledgers
  <2>2. \A y \in delivered : \A d \in Connections : at'[d] <= LedgerIn(y) => y \in Range(seen)
    <3> TAKE y \in delivered
    <3> TAKE d \in Connections
    <3>1. at'[d] <= LedgerIn(y) => at[d] <= LedgerIn(y)
      BY <1>2, <1>3, <1>6 DEF Ledgers
    <3> QED
      BY <3>1 DEF IInv, SeenInv
  <2>3. (\A i, j \in 1 .. Len(seen) :
           i < j => LedgerIn(seen[j]) >= LedgerIn(seen[i]) - MaxApart)'
    BY <1>1 DEF IInv, SeenInv, LedgerIn
  <2> QED
    BY <1>1, <1>6, <2>1, <2>2, <2>3 DEF IInv, SeenInv
<1>8. EmittedExact' /\ EmittedOnce'
  BY <1>1 DEF IInv, EmittedExact, EmittedOnce, Content
<1>9. AssemblyInv'
  BY <1>1, AssemblyStays DEF IInv
<1> QED
  BY <1>1, <1>4, <1>5, <1>7, <1>8, <1>9, NetworkStays DEF IInv

LEMMA StutterStep ==
  ASSUME IInv, UNCHANGED vars
  PROVE  IInv'
<1> USE DEF vars
<1>1. TypeOK' /\ Together' /\ SeenInv' /\ EmittedExact' /\ EmittedOnce'
  BY DEF IInv, TypeOK, Together, SeenInv, LedgerIn, EmittedExact, EmittedOnce, Content
<1>2. AssemblyInv'
  BY AssemblyStays DEF IInv
<1> QED
  BY <1>1, <1>2, NetworkStays DEF IInv

---------------------------------------------------------------------------
(* The theorems.                                                           *)

\* What the code relies on: transactions carry their ledger, and the window of
\* hashes fits how far connections are apart.
Relied == Indexed /\ WindowFits

\* The invariant holds in every state (the event handler of nodepool.js).
THEOREM AssemblyInvariant == Relied /\ Spec => []IInv
<1>1. Relied /\ Init => IInv
  BY InitInv DEF Relied
<1>2. ASSUME IInv, [Next]_vars
      PROVE  IInv'
  <2>1. CASE \E c \in Connections : Receive(c) \/ Advance(c)
    BY <1>2, <2>1, ReceiveStep, AdvanceStep
  <2>2. CASE UNCHANGED vars
    BY <1>2, <2>2, StutterStep
  <2> QED
    BY <1>2, <2>1, <2>2 DEF Next
<1> QED
  BY <1>1, <1>2, PTL DEF Spec

\* Types, and no more than MAX_PENDING_LEDGERS buffers and 10000 hashes.
THEOREM WithinLimits == Relied /\ Spec => []TypeOK
<1>1. IInv => TypeOK
  BY DEF IInv
<1> QED
  BY AssemblyInvariant, <1>1, PTL

\* A ledger is emitted with its own transactions, all of them, none twice
\* (tryEmitLedger).
THEOREM LedgersExact == Relied /\ Spec => []EmittedExact
<1>1. IInv => EmittedExact
  BY DEF IInv
<1> QED
  BY AssemblyInvariant, <1>1, PTL

\* A ledger is emitted once, however often its messages come (sawHash).
THEOREM LedgersOnce == Relied /\ Spec => []EmittedOnce
<1>1. IInv => EmittedOnce
  BY DEF IInv
<1> QED
  BY AssemblyInvariant, <1>1, PTL

\* A ledger of which all has come is emitted, in whatever order it came, unless
\* its buffer was given up (bufferFor, tryEmitLedger).
THEOREM CompleteEmitted == Relied /\ Spec => []CompleteIsEmitted
<1>1. ASSUME IInv PROVE CompleteIsEmitted
  <2> SUFFICES ASSUME NEW s \in Ledgers, MessagesOf(s) \subseteq delivered,
                      s \notin dropped, emitted[s] = <<>>
               PROVE  FALSE
    BY DEF CompleteIsEmitted
  <2>1. NothingLost(s)
    BY <1>1 DEF IInv, AssemblyInv
  <2>2. Header(s) \in MessagesOf(s)
    BY DEF MessagesOf
  <2>3. s \in DOMAIN pending
    BY <2>1, <2>2 DEF NothingLost
  <2>4. pending[s].header /\ Range(pending[s].transactions) = Content(s)
    BY <2>1, <2>2, <2>3 DEF NothingLost, Arrived, MessagesOf
  <2>5. BufferInv(s) /\ pending[s] \in Buffers
    BY <1>1, <2>3 DEF IInv, AssemblyInv, TypeOK
  <2>6. Len(pending[s].transactions) = Cardinality(Content(s))
    BY <2>4, <2>5, InjectiveLength DEF BufferInv, Buffers
  <2> QED
    BY <2>4, <2>5, <2>6 DEF BufferInv, IsComplete
<1> QED
  BY AssemblyInvariant, <1>1, PTL
===========================================================================
