----------------------------- MODULE MCMonitor -----------------------------
(***************************************************************************)
(* Small instances of Monitor: two producers, a limit that both can reach, *)
(* and record sizes of which two fit a message together, or one alone, or  *)
(* none.                                                                   *)
(***************************************************************************)
EXTENDS Monitor

CONSTANTS p1, p2
=============================================================================
