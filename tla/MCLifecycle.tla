---------------------------- MODULE MCLifecycle ----------------------------
(* Instances of Lifecycle for TLC.                                         *)
EXTENDS Lifecycle

CONSTANTS v1, v2
=============================================================================
