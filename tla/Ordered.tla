--------------------------------- MODULE Ordered ---------------------------------
(* The programs that print their arguments in order: the bubble sorts of Assignment 3, *)
(* the binary trees of Assignment 4 in C and in Java, and the polymorphic trees of      *)
(* Assignment 7, whose nodes decide how they compare. The i-th argument makes node i.   *)
EXTENDS Tree, Integers, SequencesExt, FiniteSetsExt

CONSTANTS Keys,    \* the arguments, numbers in the order of their comparison
          MaxArgs, \* bound on how many
          STATIC   \* the length of val in bubble_sort_static.c

Trees == {"BinaryTree.c", "BinaryTree.java", "polytree-c s", "polytree-java i",
          "polytree-java s", "polytree-java r", "polytree-java l"}
Sorts == {"bubble_sort_static", "bubble_sort_dynamic"}

VARIABLES program, argv,
          tree, k, \* the first k arguments have been inserted
          log,     \* what LoggingStringNode prints: a node for each line
          done, out \* the nodes printed, in order, when the program is done

vars == <<program, argv, tree, k, log, done, out>>
Node == 1 .. MaxArgs

Init ==
  /\ program \in Trees \cup Sorts
  /\ argv \in UNION {[1 .. n -> Keys] : n \in 1 .. MaxArgs}
  /\ tree = EmptyTree(Node) /\ k = 0 /\ log = <<>> /\ done = FALSE /\ out = <<>>

(* compareTo(this, node), of which only the sign is used. *)
compareTo(this, node) ==
  IF program = "polytree-java r" THEN argv[node] - argv[this] ELSE argv[this] - argv[node]

(* On which side of m insert(m, n) goes on. *)
BinarySide(n, m) == IF argv[n] <= argv[m] THEN "left" ELSE "right"
NodeSideCM(n, m) == IF compareTo(m, n) >= 0 THEN "left" ELSE "right"
NodeSideC(n, m) == IF compareTo(m, n) > 0 THEN "left" ELSE "right"
NodeSideJava(n, m) ==
  IF compareTo(m, n) > 0 THEN "left" ELSE IF compareTo(m, n) < 0 THEN "right" ELSE "none"

Side == [n, m \in DOMAIN argv |->
           CASE program \in {"BinaryTree.c", "BinaryTree.java"} -> BinarySide(n, m)
             [] program = "polytree-c s" -> NodeSideC(n, m)
             [] OTHER -> NodeSideJava(n, m)]

(* insert is looked up again in every node on the way, and each logs once the node is in. *)
Insert ==
  LET n == k + 1
  IN  /\ program \in Trees /\ k < Len(argv)
      /\ tree' = Hang(tree, n, Side)
      /\ log' = IF program = "polytree-java l"
                THEN log \o [i \in DOMAIN Path(tree, n, Side) |-> n] ELSE log
      /\ k' = n
      /\ UNCHANGED <<program, argv, done, out>>

(* sort(n): pairs of positions, from the ends, are exchanged if out of order.            *)
Pairs(n) ==
  FlattenSeq([a \in 1 .. n - 1 |-> [b \in 1 .. n - a |-> <<n - a + 1, n - a + 1 - b>>]])
Exchange(val, p) ==
  IF argv[val[p[1]]] < argv[val[p[2]]]
  THEN [val EXCEPT ![p[1]] = val[p[2]], ![p[2]] = val[p[1]]]
  ELSE val
sort(n) == FoldLeft(Exchange, [i \in 1 .. n |-> i], Pairs(n))

Output ==
  /\ ~done /\ done' = TRUE
  /\ \/ program \in Trees /\ k = Len(argv) /\ out' = InOrder(tree)
     \/ program = "bubble_sort_dynamic" /\ out' = sort(Len(argv))
     \/ program = "bubble_sort_static" /\ out' = IF Len(argv) > STATIC THEN <<>> ELSE sort(Len(argv))
  /\ UNCHANGED <<program, argv, tree, k, log>>

Next == Insert \/ Output
Spec == Init /\ [][Next]_vars
---------------------------------------------------------------------------
Printed == [i \in DOMAIN out |-> argv[out[i]]]
Sorted(nodes, Before(_, _)) == SetToSortSeq(nodes, Before)
FirstOfItsKey == {n \in DOMAIN argv : \A m \in 1 .. n - 1 : argv[m] # argv[n]}

(* Insertions before that of n of which n was compared with m. *)
Passes(n, m) ==
  /\ m \in 1 .. n - 1 \cap FirstOfItsKey
  /\ \A j \in 1 .. m - 1 : (argv[j] - argv[m]) * (argv[j] - argv[n]) > 0

(* Everything is printed, in order. Of equal arguments the tree of Assignment 4 puts the *)
(* last first and that of polytree-c the first first, while polytree-java keeps one;      *)
(* its reverse nodes print backwards, and a logging node is announced by every node it     *)
(* is compared with, and not just once.                                                   *)
OutputSorted ==
  LET Later(m, n)   == argv[m] < argv[n] \/ (argv[m] = argv[n] /\ m > n)
      Earlier(m, n) == argv[m] < argv[n] \/ (argv[m] = argv[n] /\ m < n)
      Greater(m, n) == argv[m] > argv[n]
      Stable == Sorted(DOMAIN argv, Earlier)
  IN  /\ done =>
           CASE program \in {"BinaryTree.c", "BinaryTree.java"} -> out = Sorted(DOMAIN argv, Later)
             [] program = "polytree-c s"    -> out = Stable
             [] program = "polytree-java r" -> out = Sorted(FirstOfItsKey, Greater)
             [] program \in Sorts /\ out # <<>> -> Printed = [i \in DOMAIN argv |-> argv[Stable[i]]]
             [] program \in Sorts -> program = "bubble_sort_static" /\ Len(argv) > STATIC
             [] OTHER -> out = Sorted(FirstOfItsKey, Earlier)
      /\ program = "polytree-java l" =>
           \A n \in 1 .. k : Cardinality({i \in DOMAIN log : log[i] = n})
                               = Cardinality({m \in Node : Passes(n, m)})
=============================================================================
