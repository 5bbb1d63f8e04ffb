------------------------------ MODULE MCSmoke ------------------------------
(* Instances of Smoke for TLC.                                             *)
EXTENDS Smoke, TLC
=============================================================================
