----------------------------- MODULE MCPortfolio -----------------------------
(* Portfolio with a transaction tax that rises on the second date. *)
EXTENDS Results, TLC

Taxes == 2 :> 18 @@ 1 :> 20
=============================================================================
