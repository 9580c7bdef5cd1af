------------------------------- MODULE MCSoak --------------------------------
(***************************************************************************)
(* The soak harness, and in detail the market data gate it asks before it  *)
(* trades, over two symbols that are alike.  To the harness the gate is    *)
(* one verdict, so a behaviour moves one of the two.                       *)
(***************************************************************************)
EXTENDS MarketDataHealth, Soak, TLC

CONSTANTS s1, s2

Alike == Permutations({s1, s2})

soakVars == <<gateVars, vars>>
SoakInit == GateInit /\ Init

\* The harness has judged and ends.
Judged == verdict # None /\ UNCHANGED soakVars

SoakNext ==
    \/ Init /\ GateNext /\ UNCHANGED vars
    \/ GateInit /\ Next /\ UNCHANGED gateVars
    \/ Judged
SoakSpec == SoakInit /\ [][SoakNext]_soakVars
=============================================================================
