--------------------------- MODULE MCMomentumDaemon ---------------------------
(***************************************************************************)
(* Three symbols, which are alike, for the run of MomentumDaemon.          *)
(***************************************************************************)
EXTENDS MomentumDaemon

CONSTANTS s1, s2, s3

Alike == Permutations({s1, s2, s3})
=============================================================================
