-------------------------------- MODULE MCPC --------------------------------
(* Instances of PC for TLC.                                                *)
EXTENDS PC

CONSTANTS p1, p2, c1, c2

=============================================================================
