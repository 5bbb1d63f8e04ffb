---------------------------------- MODULE Tree ----------------------------------
(* Binary trees of numbered nodes, as Assignments 4, 5 and 7 build them: a node is   *)
(* hung where the search for its place leaves the tree. NIL is the null pointer.     *)
EXTENDS Naturals, Sequences

NIL == 0

EmptyTree(nodes) ==
  [root |-> NIL, left |-> [n \in nodes |-> NIL], right |-> [n \in nodes |-> NIL]]

(* The nodes that insert is called on, one after the other; Side[n, m] is the side of  *)
(* m that n belongs to, "left" or "right", or "none" if the search ends at m.          *)
Path(tree, n, Side) ==
  LET RECURSIVE From(_)
      From(m) ==
        IF m = NIL THEN <<>>
        ELSE <<m>> \o IF Side[n, m] = "none" THEN <<>> ELSE From(tree[Side[n, m]][m])
  IN  From(tree.root)

Hang(tree, n, Side) ==
  LET path == Path(tree, n, Side)
      last == path[Len(path)]
  IN  IF path = <<>> THEN [tree EXCEPT !.root = n]
      ELSE IF Side[n, last] = "none" THEN tree
      ELSE [tree EXCEPT ![Side[n, last]][last] = n]

(* Depth-first, printing a node between its children, and freeing it after them.      *)
RECURSIVE InOrderFrom(_, _), PostOrderFrom(_, _)
InOrderFrom(tree, n) ==
  IF n = NIL THEN <<>>
  ELSE InOrderFrom(tree, tree.left[n]) \o <<n>> \o InOrderFrom(tree, tree.right[n])
PostOrderFrom(tree, n) ==
  IF n = NIL THEN <<>>
  ELSE PostOrderFrom(tree, tree.left[n]) \o PostOrderFrom(tree, tree.right[n]) \o <<n>>

InOrder(tree) == InOrderFrom(tree, tree.root)
PostOrder(tree) == PostOrderFrom(tree, tree.root)
=============================================================================
