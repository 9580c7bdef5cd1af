----------------------------- MODULE MCReconciler -----------------------------
(***************************************************************************)
(* Orders for the run of Reconciler: one of the program's with two         *)
(* executions, and one that somebody else placed.                          *)
(***************************************************************************)
EXTENDS Reconciler, TLC

CONSTANTS own, foreign, e1, e2, f1

OrderOfExec == (e1 :> own) @@ (e2 :> own) @@ (f1 :> foreign)
Sizes == (e1 :> 1) @@ (e2 :> 2) @@ (f1 :> 1)
Costs == (e1 :> 4) @@ (e2 :> 9) @@ (f1 :> 6)
Fee == (e1 :> 0) @@ (e2 :> 0) @@ (f1 :> 2)
Symbol == (own :> "BTC") @@ (foreign :> "ETH")
AllModes == {<<"FULL", {"BTC", "ETH"}>>, <<"SYMBOL", {"ETH"}>>}
=============================================================================
