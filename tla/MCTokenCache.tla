---------------------------- MODULE MCTokenCache ----------------------------
(* An issuer with two tokens, and one client.                              *)
EXTENDS TokenCache

CONSTANTS a, t, u

MCIssuerOf == [token \in {t, u} |-> a]

MCWrites == {
  [subject |-> a, source |-> "kyc", props |-> [kyc |-> Yes]],
  [subject |-> a, source |-> "list", props |-> [trust_level |-> 2]],
  [subject |-> t, source |-> "list", props |-> [trust_level |-> 0]]}

MCTrades == {
  [sells |-> TRUE, paid |-> 1, got |-> 2, taker |-> 1],
  [sells |-> FALSE, paid |-> 0, got |-> 1, taker |-> 2]}
=============================================================================
