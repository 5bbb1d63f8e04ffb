------------------------------ MODULE SequenceList ------------------------------
(* The lists of Assignment8/q1/list.c as sequences, with positions from 0. It is   *)
(* what the comments of list.c promise, save in one point: those of list_map1 and   *)
(* list_map2 have the results appended to out_list (lines 113 and 134), whereas the *)
(* code empties it first (123 and 147), and so does Combine.                        *)
EXTENDS Integers, Sequences, SequencesExt, FiniteSetsExt, Functions

CONSTANTS Lists, Elements, F1(_), F2(_, _), Fold(_, _), Start, Keep(_)

VARIABLES seq,     \* the contents of each list
          result   \* what the last call returned

Set(x, s) == seq' = [seq EXCEPT ![x] = s] /\ result' = <<"void">>
Returns(call, v) == result' = <<call, v>> /\ UNCHANGED seq

Init == seq = [x \in Lists |-> <<>>] /\ result = <<"void">>

Grow(x) ==
  \E e \in Elements :
    \/ Set(x, Append(seq[x], e))
    \/ \E d \in Elements : Set(x, seq[x] \o <<e, d>>)
    \/ \E pos \in 0 .. Len(seq[x]) - 1 : Set(x, InsertAt(seq[x], pos + 1, e))
Delete(x) == \E pos \in 0 .. Len(seq[x]) - 1 : Set(x, RemoveAt(seq[x], pos + 1))
Renew(x) == Set(x, <<>>)

Query(x) ==
  \/ \E pos \in 1 .. Len(seq[x]) : Returns("get", seq[x][pos])
  \/ \E e \in Elements :
       LET at == {pos \in DOMAIN seq[x] : seq[x][pos] = e}
       IN  Returns("index", IF at = {} THEN -1 ELSE Min(at) - 1)
  \/ Returns("len", Len(seq[x]))
  \/ Returns("foreach", seq[x])
  \/ Returns("foldl", FoldLeft(Fold, Start, seq[x]))

(* The list a map or a filter puts its results in holds nothing else then. Of map2     *)
(* and filter the comments say so as well (lines 137 and 182), of map1 only the code.   *)
Combine(out) ==
  \E x \in Lists \ {out} :
    \/ Set(out, [i \in DOMAIN seq[x] |-> F1(seq[x][i])])
    \/ LET Take(s, e) == IF Keep(e) THEN Append(s, e) ELSE s
       IN  Set(out, FoldLeft(Take, <<>>, seq[x]))
    \/ \E y \in Lists \ {out} :
         Set(out, [i \in DOMAIN seq[x] \cap DOMAIN seq[y] |-> F2(seq[x][i], seq[y][i])])

Next == \E x \in Lists : Grow(x) \/ Delete(x) \/ Renew(x) \/ Query(x) \/ Combine(x)

Spec == Init /\ [][Next]_<<seq, result>>
=============================================================================
