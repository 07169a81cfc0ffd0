---------------------------- MODULE LiveLedgers ----------------------------
(***************************************************************************)
(* How xrpl/nodepool.js puts the live ledgers together from the messages   *)
(* that its connections deliver: the header of a ledger ("ledgerClosed")   *)
(* and its transactions, each of them from every connection, in any order  *)
(* and with gaps where a connection was down.  A ledger is emitted to the  *)
(* live stream when its header and all its transactions are in.            *)
(***************************************************************************)
EXTENDS Integers, FiniteSets, Sequences, FiniteSetsExt, SequencesExt, Functions

CONSTANTS
  Connections,    \* the connections of the pool
  Transactions,   \* bound: the network's transactions
  LastLedger,     \* bound: the ledgers of the network are 1 .. LastLedger
  MaxPending,     \* MAX_PENDING_LEDGERS
  MaxSeen,        \* how many hashes are remembered: 10000
  MaxApart,       \* bound: how many ledgers a connection may be ahead of another
  Indexed         \* do transactions carry ledger_index (older servers: no)

ASSUME LiveAssumption ==
  /\ IsFiniteSet(Transactions)
  /\ LastLedger \in Nat \ {0} /\ MaxApart \in Nat
  /\ MaxPending \in Nat \ {0} /\ MaxSeen \in Nat \ {0}
  /\ Indexed \in BOOLEAN

VARIABLES
  ledgerOf,   \* the network: in which ledger a transaction is
  at,         \* the ledger whose messages a connection is delivering
  given,      \* the messages of that ledger it has delivered
  seen,       \* seenHashes and seenHashOrder: the last messages, oldest first
  pending,    \* pendingLedgers: a buffer for each ledger in assembly
  emitted,    \* history: the lists of transactions each ledger was emitted with
  delivered,  \* history: the messages that any connection has delivered
  dropped     \* history: the ledgers whose buffer was given up

vars == <<ledgerOf, at, given, seen, pending, emitted, delivered, dropped>>

Ledgers == 1 .. LastLedger
Content(s) == {t \in Transactions : ledgerOf[t] = s}

\* The messages, named by what their hash identifies.
Header(s) == <<"ledger", s>>
Tx(t) == <<"transaction", t>>
MessagesOf(s) == {Header(s)} \cup {Tx(t) : t \in Content(s)}

Fresh == [transactions |-> <<>>, header |-> FALSE]

---------------------------------------------------------------------------

\* Mutant of Seen: every connection's message counts.
Seen_Never(m) == FALSE

Seen(m) == m \in Range(seen)

Remember(m) ==
  seen' = IF Len(seen) = MaxSeen THEN Append(Tail(seen), m) ELSE Append(seen, m)

\* The oldest ledger in assembly is given up when there are too many.
GivenUp(sequences) ==
  IF Cardinality(sequences) > MaxPending THEN {Min(sequences)} ELSE {}

\* Mutant of Merged: the header starts a new buffer.
Merged_Anew(buffer) == [Fresh EXCEPT !.header = TRUE]

\* The header is merged without dropping what arrived ahead of it.
Merged(buffer) == [transactions |-> buffer.transactions, header |-> TRUE]

\* Mutant of Sequence: transactions go to the ledger begun last.
Sequence_Newest(t) == IF DOMAIN pending = {} THEN 0 ELSE Max(DOMAIN pending)

\* The ledger to which a transaction is taken to belong, 0 for none.
Sequence(t) ==
  IF Indexed THEN ledgerOf[t]
  ELSE IF DOMAIN pending = {} THEN 0 ELSE Max(DOMAIN pending)

IsComplete(s, buffer) ==
  buffer.header /\ Len(buffer.transactions) = Cardinality(Content(s))

Remaining(buffers, s) == Restrict(buffers, DOMAIN buffers \ {s})

BufferFor(s) == IF s \in DOMAIN pending THEN pending[s] ELSE Fresh

\* The buffer for s is made if there is none, changed, and if it is complete
\* emitted.  When there are too many it may itself be the oldest, and is then
\* changed in vain.
Deliver(s, changed) ==
  LET lost == IF s \in DOMAIN pending THEN {} ELSE GivenUp(DOMAIN pending \cup {s})
      buffers == [r \in (DOMAIN pending \cup {s}) \ lost |->
                    IF r = s THEN changed ELSE pending[r]]
  IN  /\ dropped' = dropped \cup lost
      /\ IF s \in DOMAIN buffers /\ IsComplete(s, changed)
         THEN /\ pending' = Remaining(buffers, s)
              /\ emitted' = [emitted EXCEPT ![s] = Append(@, changed.transactions)]
         ELSE /\ pending' = buffers
              /\ UNCHANGED emitted

Ignore == UNCHANGED <<pending, emitted, dropped>>

\* The handler of a connection's events, for the header of ledger s.
OnHeader(s) ==
  /\ Remember(Header(s))
  /\ Deliver(s, Merged(BufferFor(s)))

\* ... and for a transaction.
OnTransaction(t) ==
  /\ Remember(Tx(t))
  /\ LET s == Sequence(t)
         buffer == BufferFor(s)
     IN  IF s = 0 THEN Ignore
         ELSE Deliver(s, [buffer EXCEPT !.transactions = Append(@, t)])

\* A message that some connection has delivered before.
OnRepeated(m) == Seen(m) /\ Ignore /\ UNCHANGED seen

\* A connection delivers a message of the ledger it is at.
Receive(c) ==
  /\ \E m \in MessagesOf(at[c]) \ given[c] :
       /\ \/ OnRepeated(m)
          \/ ~Seen(m) /\ m = Header(at[c]) /\ OnHeader(at[c])
          \/ ~Seen(m) /\ \E t \in Content(at[c]) : m = Tx(t) /\ OnTransaction(t)
       /\ given' = [given EXCEPT ![c] = @ \cup {m}]
       /\ delivered' = delivered \cup {m}
  /\ UNCHANGED <<ledgerOf, at>>

\* A connection goes on to the next ledger.  What it has not delivered, it
\* missed while it was down.
Advance(c) ==
  /\ at[c] < LastLedger
  /\ \A d \in Connections : at[c] < at[d] + MaxApart
  /\ at' = [at EXCEPT ![c] = @ + 1]
  /\ given' = [given EXCEPT ![c] = {}]
  /\ UNCHANGED <<ledgerOf, seen, pending, emitted, delivered, dropped>>

Init ==
  /\ ledgerOf \in [Transactions -> Ledgers]
  /\ at = [c \in Connections |-> 1]
  /\ given = [c \in Connections |-> {}]
  /\ seen = <<>>
  /\ pending = [s \in {} |-> Fresh]
  /\ emitted = [s \in Ledgers |-> <<>>]
  /\ delivered = {}
  /\ dropped = {}

Next == \E c \in Connections : Receive(c) \/ Advance(c)

Spec == Init /\ [][Next]_vars

---------------------------------------------------------------------------
(* Properties.                                                             *)

AllMessages == {Header(s) : s \in Ledgers} \cup {Tx(t) : t \in Transactions}
Buffers == [transactions : Seq(Transactions), header : BOOLEAN]

\* Types; the buffers and the hashes stay within their limits.
TypeOK ==
  /\ ledgerOf \in [Transactions -> Ledgers]
  /\ at \in [Connections -> Ledgers]
  /\ given \in [Connections -> SUBSET AllMessages]
  /\ seen \in Seq(AllMessages) /\ Len(seen) <= MaxSeen
  /\ DOMAIN pending \subseteq Ledgers /\ Cardinality(DOMAIN pending) <= MaxPending
  /\ \A s \in DOMAIN pending : pending[s] \in Buffers
  /\ emitted \in [Ledgers -> Seq(Seq(Transactions))]
  /\ delivered \subseteq AllMessages
  /\ dropped \subseteq Ledgers

\* A ledger is emitted with its own transactions, all of them and each once.
EmittedExact ==
  \A s \in Ledgers : \A i \in DOMAIN emitted[s] :
    /\ Range(emitted[s][i]) = Content(s)
    /\ IsInjective(emitted[s][i])

\* However often its messages come, a ledger is emitted once, and no buffer is
\* left for it that could never be completed.
EmittedOnce ==
  \A s \in Ledgers :
    /\ Len(emitted[s]) <= 1
    /\ emitted[s] # <<>> => s \notin DOMAIN pending

\* A ledger all of whose messages have come is emitted, from whatever
\* connections and in whatever order they came, unless it was given up.
CompleteIsEmitted ==
  \A s \in Ledgers :
    MessagesOf(s) \subseteq delivered /\ s \notin dropped => emitted[s] # <<>>
===========================================================================
