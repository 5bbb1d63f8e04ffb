------------------------------- MODULE IntegerSet -------------------------------
(* Assignment5/q3: counted integers in a hash set without chaining and on a stack.    *)
(* The i-th argument makes integer i. Negative arguments are left out: hash would      *)
(* index below the table (set.c:12, 16).                                              *)
EXTENDS Naturals, Sequences, FiniteSets, SequencesExt

CONSTANTS SIZE, Inputs, MaxInputs

IntegerSetAssumption == SIZE \in Nat \ {0} /\ Inputs \subseteq Nat /\ MaxInputs \in Nat

VARIABLES argv,
          rc,      \* the counts; 0 is freed, or not allocated yet
          set,     \* set[h], the integer at h, or 0
          stack,   \* its elements, top first
          created, \* arguments processed
          place,   \* in main, or in its call of helper_process_input
          shown,   \* what each set_print has printed, and what was popped
          used     \* freed memory was used

vars == <<argv, rc, set, stack, created, place, shown, used>>
Integer == 1 .. MaxInputs
NULL == 0

Init ==
  /\ argv \in UNION {[1 .. n -> Inputs] : n \in 0 .. MaxInputs}
  /\ rc = [i \in Integer |-> 0]
  /\ set = [h \in 0 .. SIZE - 1 |-> NULL]
  /\ stack = <<>> /\ created = 0 /\ place = "create"
  /\ shown = [sets |-> <<>>, popped |-> <<>>] /\ used = FALSE

hash(key) == key % SIZE
Frees(i) == used' = (used \/ rc[i] = 0) /\ rc' = [rc EXCEPT ![i] = @ - 1]
Keeps(i) == used' = (used \/ rc[i] = 0) /\ rc' = [rc EXCEPT ![i] = @ + 1]

integer_create ==
  /\ place = "create" /\ created < Len(argv)
  /\ created' = created + 1 /\ rc' = [rc EXCEPT ![created + 1] = 1]
  /\ place' = "add"
  /\ UNCHANGED <<argv, set, stack, shown, used>>

set_addM ==
  LET h == hash(argv[created])
  IN  /\ place = "add" /\ place' = "push"
      /\ set' = [set EXCEPT ![h] = created] /\ Keeps(created)
      /\ UNCHANGED <<argv, stack, created, shown>>

(* An integer whose slot is taken is not added, whether or not it is equal.            *)
set_add ==
  LET h == hash(argv[created])
  IN  /\ place = "add" /\ place' = "push"
      /\ IF set[h] = NULL THEN set' = [set EXCEPT ![h] = created] /\ Keeps(created)
                          ELSE UNCHANGED <<set, rc, used>>
      /\ UNCHANGED <<argv, stack, created, shown>>

stack_push ==
  /\ place = "push" /\ place' = "free"
  /\ stack' = <<created>> \o stack /\ Keeps(created)
  /\ UNCHANGED <<argv, set, created, shown>>

(* helper_process_input gives up its own reference.                                    *)
free_ref ==
  /\ place = "free" /\ place' = "create"
  /\ Frees(created)
  /\ UNCHANGED <<argv, set, stack, created, shown>>

InSet == {i \in Integer : \E h \in DOMAIN set : set[h] = i}
set_print(from, to) ==
  /\ place = from /\ place' = to
  /\ from = "create" => created = Len(argv)
  /\ from = "pop" => stack = <<>>
  /\ shown' = [shown EXCEPT !.sets = Append(@, {argv[i] : i \in InSet})]
  /\ used' = (used \/ \E i \in InSet : rc[i] = 0)
  /\ UNCHANGED <<argv, rc, set, stack, created>>

stack_pop_and_print ==
  /\ place = "pop" /\ stack # <<>>
  /\ shown' = [shown EXCEPT !.popped = Append(@, argv[Head(stack)])]
  /\ Frees(Head(stack)) /\ stack' = Tail(stack)
  /\ UNCHANGED <<argv, set, created, place>>

set_empty ==
  /\ place = "empty" /\ place' = "end"
  /\ rc' = [i \in Integer |-> IF i \in InSet THEN rc[i] - 1 ELSE rc[i]]
  /\ used' = (used \/ \E i \in InSet : rc[i] = 0)
  /\ set' = [h \in DOMAIN set |-> NULL]
  /\ UNCHANGED <<argv, stack, created, shown>>

Next == \/ integer_create \/ set_add \/ stack_push \/ free_ref
        \/ set_print("create", "pop") \/ stack_pop_and_print \/ set_print("pop", "empty")
        \/ set_empty

Spec == Init /\ [][Next]_vars
---------------------------------------------------------------------------
FirstOfItsSlot(i) == \A j \in 1 .. i - 1 : hash(argv[j]) # hash(argv[i])

(* The set outlives the pops that free the integers only the stack held: it prints the *)
(* same twice, the first argument of each slot; the stack gives back all arguments,     *)
(* last first; nothing freed is used, and all is freed when main returns.               *)
SetOutlivesStack ==
  /\ ~used
  /\ \A k \in DOMAIN shown.sets :
       shown.sets[k] = {argv[i] : i \in {i \in DOMAIN argv : FirstOfItsSlot(i)}}
  /\ IsPrefix(shown.popped, Reverse(argv))
  /\ place = "end" => /\ shown.popped = Reverse(argv)
                      /\ \A i \in Integer : rc[i] = 0
=============================================================================
