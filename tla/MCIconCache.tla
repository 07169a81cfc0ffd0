----------------------------- MODULE MCIconCache -----------------------------
(* An issuer with its tokens, and two urls.                           *)
EXTENDS IconCache

CONSTANT a

MCIssuerOf == [token \in Tokens |-> a]

Symmetry == Permutations(Tokens) \cup Permutations(Urls) \cup Permutations(Pictures)
=============================================================================
