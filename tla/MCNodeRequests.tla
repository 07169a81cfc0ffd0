--------------------------- MODULE MCNodeRequests --------------------------
(***************************************************************************)
(* Instances of NodeRequests for TLC.                                      *)
(***************************************************************************)
EXTENDS NodeRequests, TLC

CONSTANTS n1, n2, host

MCNodes == <<n1, n2>>
MCHosts == {host}
MCHostOf == [n \in {n1, n2} |-> host]
===========================================================================
