-------------------------------- MODULE RefCount --------------------------------
(* Assignment5/q4: a list and a tree that share reference-counted elements, each     *)
(* with a counted value. An element is named by the order in which it was added.     *)
(* `heap` holds the counts and the links of the elements, and whether memory that     *)
(* had been freed was used; a count of 0 is freed, or not allocated yet.              *)
EXTENDS Tree, Integers, FiniteSets

CONSTANTS MaxElements,  \* bound on the number of arguments
          Values        \* the arguments, numbers in their strcmp order

Element == 1 .. MaxElements
RefCountAssumption == MaxElements \in Nat /\ Values \subseteq Nat

VARIABLES heap, value, n,   \* n elements have been added
          head, tail,       \* of the list
          tree, cursor,     \* cursor is the e of the loop in main
          phase

vars == <<heap, value, n, head, tail, tree, cursor, phase>>

E(x) == <<"element", x>>
V(x) == <<"value", x>>
Objects == {"element", "value"} \X Element

Init ==
  /\ heap = [rc |-> [o \in Objects |-> 0], used |-> FALSE,
             next |-> [x \in Element |-> NIL], prev |-> [x \in Element |-> NIL]]
  /\ value = [x \in Element |-> 0] /\ n = 0
  /\ head = NIL /\ tail = NIL
  /\ tree = EmptyTree(Element) /\ cursor = NIL
  /\ phase = "adding"

(* refcount.c; any access to an object that has been freed is noted.                 *)
Access(h, o) == [h EXCEPT !.used = @ \/ h.rc[o] = 0]
rc_malloc(h, o) == [h EXCEPT !.rc[o] = 1]
rc_keep_ref(h, o) == [Access(h, o) EXCEPT !.rc[o] = @ + 1]
rc_free_ref(h, o) == [Access(h, o) EXCEPT !.rc[o] = @ - 1]

(* element.c: element_set_next and element_set_prev.                                 *)
SetLink(h, link, x, to) ==
  LET old == h[link][x]
      freed == IF old # NIL THEN rc_free_ref(Access(h, E(x)), E(old)) ELSE Access(h, E(x))
      set == [freed EXCEPT ![link][x] = to]
  IN  IF to # NIL THEN rc_keep_ref(set, E(to)) ELSE set

element_keep_refM(h, x) == rc_keep_ref(h, E(x))
element_keep_ref(h, x) == rc_keep_ref(rc_keep_ref(h, V(x)), E(x))
element_free_ref(h, x) == rc_free_ref(rc_free_ref(h, V(x)), E(x))

(* list.c.                                                                           *)
list_add_element ==
  LET x == n + 1
      created == rc_malloc(rc_malloc(heap, E(x)), V(x))
  IN  /\ phase = "adding" /\ n < MaxElements
      /\ \E v \in Values : value' = [value EXCEPT ![x] = v]
      /\ IF head = NIL
         THEN head' = x /\ heap' = created
         ELSE heap' = SetLink(SetLink(created, "next", tail, x), "prev", x, tail)
              /\ UNCHANGED head
      /\ n' = x /\ tail' = x
      /\ UNCHANGED <<tree, cursor, phase>>

list_delete_element(x) ==
  LET next == heap.next[x]
      prev == heap.prev[x]
      skipped == IF x = head THEN Access(heap, E(x)) ELSE SetLink(heap, "next", prev, next)
      bridged == IF x = tail THEN skipped ELSE SetLink(skipped, "prev", next, prev)
      unlinked == SetLink(SetLink(bridged, "prev", x, NIL), "next", x, NIL)
  IN  /\ head' = IF x = head THEN next ELSE head
      /\ tail' = IF x = tail THEN prev ELSE tail
      /\ heap' = element_free_ref(unlinked, x)

(* main: elements are added, some of them, whichever, inserted into the tree, the     *)
(* tree printed, the list deleted, the tree printed again and deleted.                *)
EndAdding ==
  /\ phase = "adding"
  /\ phase' = "inserting" /\ cursor' = head
  /\ UNCHANGED <<heap, value, n, head, tail, tree>>

(* includeElement() decides; in the tree a node goes left of those not less than it.  *)
Consider(include) ==
  LET Side == [x, y \in Element |-> IF value[x] <= value[y] THEN "left" ELSE "right"]
  IN  /\ phase = "inserting" /\ cursor # NIL
      /\ IF include
         THEN tree' = Hang(tree, cursor, Side) /\ heap' = element_keep_ref(heap, cursor)
         ELSE heap' = Access(heap, E(cursor)) /\ UNCHANGED tree
      /\ cursor' = heap.next[cursor]
      /\ UNCHANGED <<value, n, head, tail, phase>>

(* An application of list.h may delete any element it knows of.                       *)
DeleteAny(x) ==
  /\ phase = "inserting" /\ cursor = NIL
  /\ heap.rc[E(x)] > 0 /\ (x = head \/ heap.prev[x] # NIL)
  /\ list_delete_element(x)
  /\ UNCHANGED <<value, n, tree, cursor, phase>>

(* tree_ordered_suffix_print reads the values of what follows each node in the list.  *)
RECURSIVE PrintSuffix(_, _)
PrintSuffix(h, x) ==
  IF x = NIL THEN h ELSE PrintSuffix(Access(Access(h, V(x)), E(x)), h.next[x])
RECURSIVE PrintSuffixes(_, _)
PrintSuffixes(h, nodes) ==
  IF nodes = <<>> THEN h ELSE PrintSuffixes(PrintSuffix(h, Head(nodes)), Tail(nodes))

PrintTree(from, to) ==
  /\ phase = from /\ cursor = NIL
  /\ heap' = PrintSuffixes(heap, InOrder(tree))
  /\ phase' = to /\ cursor' = head
  /\ UNCHANGED <<value, n, head, tail, tree>>

(* list_delete keeps the next element before it deletes one.                          *)
list_delete ==
  /\ phase = "deleting"
  /\ IF cursor # NIL
     THEN list_delete_element(cursor) /\ cursor' = heap.next[cursor] /\ UNCHANGED phase
     ELSE phase' = "deleted" /\ UNCHANGED <<heap, head, tail, cursor>>
  /\ UNCHANGED <<value, n, tree>>

RECURSIVE FreeNodes(_, _)
FreeNodes(h, nodes) ==
  IF nodes = <<>> THEN h ELSE FreeNodes(element_free_ref(h, Head(nodes)), Tail(nodes))
tree_delete ==
  /\ phase = "printed"
  /\ heap' = FreeNodes(heap, PostOrder(tree))
  /\ tree' = EmptyTree(Element) /\ phase' = "end"
  /\ UNCHANGED <<value, n, head, tail, cursor>>

Next ==
  \/ list_add_element \/ EndAdding
  \/ \E include \in BOOLEAN : Consider(include)
  \/ \E x \in Element : DeleteAny(x)
  \/ PrintTree("inserting", "deleting") \/ list_delete
  \/ PrintTree("deleted", "printed") \/ tree_delete

Spec == Init /\ [][Next]_vars
---------------------------------------------------------------------------
Live(x) == heap.rc[E(x)] > 0
InTree(x) == \E i \in DOMAIN InOrder(tree) : InOrder(tree)[i] = x
InList(x) == Live(x) /\ (x = head \/ heap.prev[x] # NIL)
Pointing(link, x) == {y \in Element : Live(y) /\ heap[link][y] = x}
One(b) == IF b THEN 1 ELSE 0

(* No freed memory is used; every count is the number of the pointers to the object:   *)
(* from the list and the tree, and, to an element, from its neighbours; and everything  *)
(* has been freed when main returns (element.c:57-105, list.c:24-64, tree.c:28-57).     *)
CountsRight ==
  /\ ~heap.used
  /\ \A x \in Element :
       LET owners == One(InList(x)) + One(InTree(x))
       IN  /\ heap.rc[V(x)] = owners
           /\ heap.rc[E(x)] = owners + Cardinality(Pointing("next", x))
                                     + Cardinality(Pointing("prev", x))
  /\ phase = "end" => \A o \in Objects : heap.rc[o] = 0
=============================================================================
