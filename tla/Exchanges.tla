----------------------------- MODULE Exchanges -----------------------------
(***************************************************************************)
(* The exchanges of a token with XRP and what is read from them, as        *)
(* db/helpers/tokenexchanges.js reads it.                                  *)
(*                                                                         *)
(* An exchange is [token, ledger, sells, paid, got, taker]: the taker paid *)
(* the token and got XRP if sells, else the other way round.  A price is a *)
(* fraction <<XRP, token>>.                                                *)
(***************************************************************************)
EXTENDS Integers, FiniteSets, FiniteSetsExt

Free == <<0, 1>>

InXRP(e)   == IF e.sells THEN e.got ELSE e.paid
InToken(e) == IF e.sells THEN e.paid ELSE e.got

\* alignTokenExchange: price and volume seen from the token.
Price(e) == IF InToken(e) > 0 THEN <<InXRP(e), InToken(e)>> ELSE Free

\* readTokenExchangeAligned, with skipDust: the newest exchange up to a ledger
\* that moved some XRP.  Of several in one ledger any may be read.
Newest(exchanges, token, ledger) ==
  LET past == {e \in exchanges : e.token = token /\ e.ledger <= ledger /\ InXRP(e) > 0}
  IN  {e \in past : \A f \in past : f.ledger <= e.ledger}

Prices(exchanges, token, ledger) ==
  LET newest == Newest(exchanges, token, ledger)
  IN  IF newest = {} THEN {Free} ELSE {Price(e) : e \in newest}

Between(exchanges, token, from, to) ==
  {e \in exchanges : e.token = token /\ from <= e.ledger /\ e.ledger <= to}

\* readTokenVolume, readTokenExchangeCount, readTokenExchangeUniqueTakerCount.
Volume(exchanges, token, from, to) ==
  MapThenSumSet(InXRP, Between(exchanges, token, from, to))
Count(exchanges, token, from, to) == Cardinality(Between(exchanges, token, from, to))
Takers(exchanges, token, from, to) ==
  Cardinality({e.taker : e \in Between(exchanges, token, from, to)})
=============================================================================
