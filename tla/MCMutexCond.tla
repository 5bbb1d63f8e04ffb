---------------------------- MODULE MCMutexCond ----------------------------
(* Instances of MutexCond for TLC.                                         *)
EXTENDS MutexCond

CONSTANTS a, b, c, d

=============================================================================
