--------------------------- MODULE MCBrokerAdapter ---------------------------
(***************************************************************************)
(* A broker that fills what it accepts at once, as FakeBroker does, and    *)
(* one in whose book orders rest and fill in parts; callers that submit an *)
(* order once, and callers that pass it again.                             *)
(***************************************************************************)
EXTENDS BrokerAdapter, TLC

CONSTANTS o1, o2

Sizes == (o1 :> 2) @@ (o2 :> 1)
EveryUsage == [atOnce : BOOLEAN, again : BOOLEAN]
=============================================================================
