------------------------------ MODULE MCPCSem ------------------------------
(* Instances of PCSem for TLC.                                             *)
EXTENDS PCSem, TLC

CONSTANTS p1, p2, c1, c2

AsCreated == (lock :> 1) @@ (isNotEmpty :> 0) @@ (isNotFull :> MAX_ITEMS)

=============================================================================
