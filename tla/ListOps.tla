-------------------------------- MODULE ListOps --------------------------------
(* The operations of Assignment8/q1/list.c on one list: an array that grows, of    *)
(* which the first len cells are the list. A loop over cells is a fold over their  *)
(* indices, in its order.                                                          *)
EXTENDS Integers, Sequences, SequencesExt, FiniteSetsExt

CONSTANTS INITIAL_SIZE, GROWTH_FACTOR,
          Uninitialized   \* what malloc and realloc leave in a cell

ASSUME ListAssumption == INITIAL_SIZE \in Nat \ {0} /\ GROWTH_FACTOR \in Nat \ {0, 1}

From(i, j) == [k \in 1 .. j - i + 1 |-> i + k - 1]
Downto(j, i) == Reverse(From(i, j))

Cells(n) == [i \in 0 .. n - 1 |-> Uninitialized]

list_create == [data |-> Cells(INITIAL_SIZE), len |-> 0, size |-> INITIAL_SIZE]

expand_list(l) ==
  LET size == l.size * GROWTH_FACTOR
  IN  [l EXCEPT !.size = size,
                !.data = [i \in 0 .. size - 1 |-> IF i < l.size THEN l.data[i] ELSE Uninitialized]]

Full(l) == l.len = l.size
WithRoom(l) == IF Full(l) THEN expand_list(l) ELSE l

list_append(l, e) ==
  LET m == WithRoom(l) IN [m EXCEPT !.data[m.len] = e, !.len = @ + 1]

list_append_array(l, elements) == FoldLeft(list_append, l, elements)

list_insertM(l, pos, e) ==
  LET m == WithRoom(l)
      Down(data, i) == [data EXCEPT ![i] = data[i - 1]]
      moved == FoldLeft(Down, m.data, From(pos + 1, m.len))
  IN  [m EXCEPT !.data = [moved EXCEPT ![pos] = e], !.len = @ + 1]

list_insert(l, pos, e) ==
  LET m == WithRoom(l)
      Down(data, i) == [data EXCEPT ![i] = data[i - 1]]
      moved == FoldLeft(Down, m.data, Downto(m.len, pos + 1))
  IN  [m EXCEPT !.data = [moved EXCEPT ![pos] = e], !.len = @ + 1]

list_remove(l, pos) ==
  LET Up(data, i) == [data EXCEPT ![i] = data[i + 1]]
  IN  [l EXCEPT !.data = FoldLeft(Up, @, From(pos, l.len - 2)), !.len = @ - 1]

list_get(l, pos) == l.data[pos]

list_index(l, e) ==
  LET found == {i \in 0 .. l.len - 1 : l.data[i] = e}
  IN  IF found = {} THEN -1 ELSE Min(found)

(* map and filter overwrite out, from its start. *)
Emptied(out) == [out EXCEPT !.len = 0]

list_map1(f(_), out, in) ==
  LET Put(o, i) == list_append(o, f(in.data[i]))
  IN  FoldLeft(Put, Emptied(out), From(0, in.len - 1))

list_map2(f(_, _), out, in0, in1) ==
  LET minLength == IF in0.len < in1.len THEN in0.len ELSE in1.len
      Put(o, i) == list_append(o, f(in0.data[i], in1.data[i]))
  IN  FoldLeft(Put, Emptied(out), From(0, minLength - 1))

list_foldl(f(_, _), acc, in) ==
  LET Take(a, i) == f(a, in.data[i]) IN FoldLeft(Take, acc, From(0, in.len - 1))

list_filter(f(_), out, in) ==
  LET Put(o, i) == IF f(in.data[i]) THEN list_append(o, in.data[i]) ELSE o
  IN  FoldLeft(Put, Emptied(out), From(0, in.len - 1))

(* What a list stands for; list_foreach visits just these, in this order. *)
Contents(l) == [k \in 1 .. l.len |-> l.data[k - 1]]
=============================================================================
