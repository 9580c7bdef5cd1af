---------------------------- MODULE MCAsyncTrader ----------------------------
(***************************************************************************)
(* Two assets for the run of AsyncTrader.                                  *)
(***************************************************************************)
EXTENDS AsyncTrader

CONSTANTS a1, a2
=============================================================================
