------------------------------ MODULE ListsAndSets ------------------------------
(* The client of GenericList and, beside it, IntegerSet: the sequential programs     *)
(* without recursion, whose properties are proved.                                   *)
EXTENDS GenericList

CONSTANTS SIZE, Inputs, MaxInputs

VARIABLES argv, rc, set, stack, created, place, shown, used

I == INSTANCE IntegerSet

ASSUME SetsAssumption == I!IntegerSetAssumption

(* That of IntegerSet: no count or pointer goes wrong while a set and a stack share     *)
(* integers (set.c, stack.c, refcount.c).                                              *)
SetOutlivesStack == I!SetOutlivesStack
=============================================================================
