------------------------------ MODULE MCServer ------------------------------
(* Two threads; three NFTs, two of them with the same image.               *)
EXTENDS Server

CONSTANTS n1, n2, n3, x, y

MCImageOf == n1 :> x @@ n2 :> x @@ n3 :> y
=============================================================================
