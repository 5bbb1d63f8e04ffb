------------------------------ MODULE GenericList ------------------------------
(* A client of Assignment8/q1/list.c that calls every function of list.h in any     *)
(* order, as its comments allow: positions are in range, and a list is not mapped   *)
(* or filtered to itself. The list it maps or filters to need not be empty.         *)
EXTENDS ListOps

CONSTANTS Lists, Elements,
          MaxLen     \* bound: the client lets list x grow to MaxLen[x]

\* The functions below take integers.
ASSUME ElementsAssumption == Elements \subseteq Int

VARIABLES list, result

(* The functions the client passes: any do, if the order of elements shows in what   *)
(* they compute.                                                                     *)
F1(e) == 3 - e
F2(d, e) == IF d = 1 THEN e ELSE d
Fold(acc, e) == (2 * acc + e) % 7
Start == 3
Keep(e) == e = 1

vars == <<list, result>>

Init == list = [x \in Lists |-> list_create] /\ result = <<"void">>

Update(x, l) == l.len <= MaxLen[x] /\ list' = [list EXCEPT ![x] = l] /\ result' = <<"void">>
Returns(call, v) == result' = <<call, v>> /\ UNCHANGED list

Positions(x) == 0 .. list[x].len - 1

Grow(x) ==
  \E e \in Elements :
    \/ Update(x, list_append(list[x], e))
    \/ \E d \in Elements : Update(x, list_append_array(list[x], <<e, d>>))
    \/ \E pos \in Positions(x) : Update(x, list_insert(list[x], pos, e))

Delete(x) == \E pos \in Positions(x) : Update(x, list_remove(list[x], pos))

(* list_destroy, and list_create for a list in its place. *)
Renew(x) == Update(x, list_create)

Query(x) ==
  \/ \E pos \in Positions(x) : Returns("get", list_get(list[x], pos))
  \/ \E e \in Elements : Returns("index", list_index(list[x], e))
  \/ Returns("len", list[x].len)
  \/ Returns("foreach", Contents(list[x]))
  \/ Returns("foldl", list_foldl(Fold, Start, list[x]))

Combine(out) ==
  \E x \in Lists \ {out} :
    \/ Update(out, list_map1(F1, list[out], list[x]))
    \/ Update(out, list_filter(Keep, list[out], list[x]))
    \/ \E y \in Lists \ {out} : Update(out, list_map2(F2, list[out], list[x], list[y]))

Next == \E x \in Lists : Grow(x) \/ Delete(x) \/ Renew(x) \/ Query(x) \/ Combine(x)

Spec == Init /\ [][Next]_vars

Abstract == INSTANCE SequenceList WITH seq <- [x \in Lists |-> Contents(list[x])]

(* The lists behave as sequences, whatever their arrays hold beyond len and however  *)
(* often they were expanded; no call returns a cell nobody wrote (list.c:19-206). A   *)
(* map replaces what its list held, where its comment would append (list.c:113, 123). *)
ListsAreSequences == Abstract!Spec
=============================================================================
