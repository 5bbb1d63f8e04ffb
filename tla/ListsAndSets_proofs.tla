-------------------------- MODULE ListsAndSets_proofs --------------------------
(***************************************************************************)
(* Proofs about GenericList and IntegerSet.  GenericList implements        *)
(* SequenceList, for any number of lists of any integers and any length.   *)
(* IntegerSet prints what it should and counts right, for a table of any   *)
(* size, any number of arguments and any natural numbers.                  *)
(***************************************************************************)
EXTENDS ListsAndSets, Lemmas

-----------------------------------------------------------------------------
(* The arrays.                                                              *)

\* What a cell holds; the lists that the calls build, of any size.
Cell == Int \cup {Uninitialized}
Arrays(n) == [0 .. n - 1 -> Cell]
GoodLists == UNION {[data : Arrays(n), len : 0..n, size : {n}] : n \in Nat \ {0}}

LEMMA GoodParts ==
  \A l \in GoodLists :
    /\ l.size \in Nat \ {0} /\ l.len \in 0..l.size /\ l.len \in Nat /\ l.data \in Arrays(l.size)
    /\ l = [data |-> l.data, len |-> l.len, size |-> l.size]
<1> SUFFICES ASSUME NEW n \in Nat \ {0}, NEW l \in [data : Arrays(n), len : 0..n, size : {n}]
    PROVE  /\ l.size \in Nat \ {0} /\ l.len \in 0..l.size /\ l.len \in Nat
           /\ l.data \in Arrays(l.size)
           /\ l = [data |-> l.data, len |-> l.len, size |-> l.size]
  BY DEF GoodLists
<1> QED OBVIOUS

LEMMA GoodMade ==
  ASSUME NEW n \in Nat \ {0}, NEW d \in Arrays(n), NEW k \in 0..n
  PROVE  [data |-> d, len |-> k, size |-> n] \in GoodLists
BY DEF GoodLists

\* The contents of a list as a sequence.
LEMMA ContentsType ==
  ASSUME NEW l \in GoodLists
  PROVE  /\ Contents(l) \in Seq(Cell) /\ Len(Contents(l)) = l.len
         /\ DOMAIN Contents(l) = 1..l.len
         /\ \A k \in 1..l.len : Contents(l)[k] = l.data[k - 1] /\ Contents(l)[k] \in Cell
<1>1. l.size \in Nat \ {0} /\ l.len \in 0..l.size /\ l.len \in Nat /\ l.data \in Arrays(l.size)
  BY GoodParts
<1>2. \A k \in 1..l.len : k - 1 \in 0 .. l.size - 1
  BY <1>1
<1>3. \A k \in 1..l.len : l.data[k - 1] \in Cell
  BY <1>1, <1>2 DEF Arrays
<1>4. Contents(l) \in [1..l.len -> Cell]
  BY <1>3 DEF Contents
<1> QED BY <1>1, <1>3, <1>4 DEF Contents

\* list_create makes an empty list.
LEMMA CreateRight == list_create \in GoodLists /\ Contents(list_create) = <<>>
<1>1. INITIAL_SIZE \in Nat \ {0} /\ Cells(INITIAL_SIZE) \in Arrays(INITIAL_SIZE)
  BY ListAssumption DEF Cells, Arrays, Cell
<1>2. list_create \in GoodLists
  <2>1. 0 \in 0..INITIAL_SIZE
    BY <1>1
  <2> QED BY <1>1, <2>1, GoodMade DEF list_create
<1>3. list_create.len = 0
  BY DEF list_create
<1>4. Contents(list_create) \in Seq(Cell) /\ Len(Contents(list_create)) = 0
  BY <1>2, <1>3, ContentsType
<1> QED BY <1>2, <1>4, EmptySeq

LEMMA Grown ==
  ASSUME NEW a \in Nat \ {0}, NEW g \in Nat \ {0, 1}
  PROVE  a * g \in Nat /\ a * g > a
<1>1. a * g = a + a * (g - 1)
  OBVIOUS
<1>2. g - 1 \in Nat \ {0}
  OBVIOUS
<1>3. \A x, y \in Nat \ {0} : x * y \in Nat \ {0}
  OBVIOUS
<1> QED BY <1>1, <1>2, <1>3

\* expand_list makes room and moves nothing.
LEMMA WithRoomRight ==
  ASSUME NEW l \in GoodLists
  PROVE  LET m == WithRoom(l)
         IN  /\ m \in GoodLists /\ m.len = l.len /\ m.len < m.size
             /\ \A i \in 0 .. l.len - 1 : m.data[i] = l.data[i]
<1>1. /\ l.size \in Nat \ {0} /\ l.len \in 0..l.size /\ l.len \in Nat /\ l.data \in Arrays(l.size)
      /\ l = [data |-> l.data, len |-> l.len, size |-> l.size]
  BY GoodParts
<1>2. CASE l.len = l.size
  <2> DEFINE n == l.size * GROWTH_FACTOR
             d == [i \in 0 .. n - 1 |-> IF i < l.size THEN l.data[i] ELSE Uninitialized]
             m == [data |-> d, len |-> l.len, size |-> n]
  <2>1. n \in Nat \ {0} /\ n > l.size /\ l.len \in 0..n
    <3>1. n \in Nat /\ n > l.size
      BY <1>1, ListAssumption, Grown
    <3> HIDE DEF n
    <3> QED BY <1>1, <1>2, <3>1
  <2>2. WithRoom(l) = m
    <3>1. WithRoom(l) = [l EXCEPT !.size = n, !.data = d]
      BY <1>2 DEF WithRoom, Full, expand_list
    <3> HIDE DEF n, d
    <3> QED BY <1>1, <3>1
  <2>3. d \in Arrays(n)
    <3> HIDE DEF n
    <3>1. \A i \in 0 .. n - 1 : i < l.size => i \in 0 .. l.size - 1
      BY <1>1
    <3>2. \A i \in 0 .. n - 1 : i < l.size => l.data[i] \in Cell
      BY <1>1, <3>1 DEF Arrays
    <3> QED BY <3>2 DEF Arrays, Cell
  <2>4. \A i \in 0 .. l.len - 1 : d[i] = l.data[i]
    <3> HIDE DEF n
    <3>1. \A i \in 0 .. l.len - 1 : i \in 0 .. n - 1 /\ i < l.size
      BY <1>1, <1>2, <2>1
    <3> QED BY <3>1
  <2> HIDE DEF n, d
  <2>5. m \in GoodLists
    BY <2>1, <2>3, GoodMade
  <2> QED BY <1>2, <2>1, <2>2, <2>4, <2>5
<1>3. CASE l.len # l.size
  <2>1. WithRoom(l) = l
    BY <1>3 DEF WithRoom, Full
  <2> QED BY <1>1, <1>3, <2>1
<1> QED BY <1>2, <1>3

\* list_append appends.
LEMMA AppendRight ==
  ASSUME NEW l \in GoodLists, NEW e \in Cell
  PROVE  /\ list_append(l, e) \in GoodLists
         /\ Contents(list_append(l, e)) = Append(Contents(l), e)
<1> DEFINE m == WithRoom(l)
           d == [m.data EXCEPT ![m.len] = e]
           r == [data |-> d, len |-> m.len + 1, size |-> m.size]
           c == Contents(r)
           s == Append(Contents(l), e)
<1>1. /\ m \in GoodLists /\ m.len = l.len /\ m.len < m.size /\ l.len \in Nat
      /\ \A i \in 0 .. l.len - 1 : m.data[i] = l.data[i]
  BY WithRoomRight, GoodParts
<1> HIDE DEF m
<1>2. /\ m.size \in Nat \ {0} /\ m.data \in Arrays(m.size)
      /\ m = [data |-> m.data, len |-> m.len, size |-> m.size]
  BY <1>1, GoodParts
<1>3. list_append(l, e) = r
  <2>1. list_append(l, e) = [m EXCEPT !.data[m.len] = e, !.len = @ + 1]
    BY DEF list_append, m
  <2> QED BY <1>2, <2>1
<1>4. d \in Arrays(m.size) /\ m.len + 1 \in 0..m.size
  BY <1>1, <1>2 DEF Arrays
<1>5. r \in GoodLists
  <2> HIDE DEF d
  <2> QED BY <1>2, <1>4, GoodMade
<1>6. /\ c \in Seq(Cell) /\ Len(c) = l.len + 1 /\ \A k \in 1 .. l.len + 1 : c[k] = d[k - 1]
  <2>1. r.len = l.len + 1 /\ r.data = d
    BY <1>1
  <2> HIDE DEF r
  <2> QED BY <1>5, <2>1, ContentsType
<1>7. /\ s \in Seq(Cell) /\ Len(s) = l.len + 1 /\ s[l.len + 1] = e
      /\ \A k \in 1..l.len : s[k] = l.data[k - 1]
  <2>1. /\ Contents(l) \in Seq(Cell) /\ Len(Contents(l)) = l.len
        /\ \A k \in 1..l.len : Contents(l)[k] = l.data[k - 1]
    BY ContentsType
  <2> QED BY <2>1, Appended
<1>8. \A k \in 1 .. l.len + 1 : c[k] = s[k]
  <2> TAKE k \in 1 .. l.len + 1
  <2>1. CASE k = l.len + 1
    <3>1. d[l.len] = e /\ k - 1 = l.len
      BY <1>1, <1>2, <2>1 DEF Arrays
    <3> HIDE DEF c, s, d
    <3> QED BY <1>6, <1>7, <2>1, <3>1
  <2>2. CASE k # l.len + 1
    <3>1. k \in 1..l.len /\ k - 1 \in 0 .. l.len - 1 /\ k - 1 # m.len
      BY <1>1, <2>2
    <3>2. d[k - 1] = m.data[k - 1]
      BY <1>1, <1>2, <3>1 DEF Arrays
    <3> HIDE DEF c, s, d
    <3> QED BY <1>1, <1>6, <1>7, <3>1, <3>2
  <2> QED BY <2>1, <2>2
<1>9. c = s
  <2> HIDE DEF c, s
  <2>1. Len(c) = Len(s) /\ \A k \in 1..Len(c) : c[k] = s[k]
    BY <1>6, <1>7, <1>8
  <2> QED BY <1>6, <1>7, <2>1, SeqEqual
<1> QED BY <1>3, <1>5, <1>9

\* The list after some of the appends of list_append_array.
AppendsTo(g, l, s) ==
  g = [t \in SUBSET DOMAIN s |->
         IF t = {} THEN l ELSE list_append(g[t \ {Largest(t)}], s[Largest(t)])]
\* The list after m of them.
AfterAppends(l, s, m) == (CHOOSE g : AppendsTo(g, l, s))[1..m]

\* list_append_array appends its elements one by one.
LEMMA Appends ==
  ASSUME NEW l \in GoodLists, NEW s \in Seq(Cell)
  PROVE  /\ AfterAppends(l, s, 0) = l /\ list_append_array(l, s) = AfterAppends(l, s, Len(s))
         /\ \A m \in 0 .. Len(s) - 1 :
              AfterAppends(l, s, m + 1) = list_append(AfterAppends(l, s, m), s[m + 1])
<1> DEFINE n == Len(s)
           f == [p \in GoodLists \X (1..n) |-> list_append(p[1], s[p[2]])]
<1>1. n \in Nat /\ DOMAIN s = 1..n /\ \A m \in 1..n : s[m] \in Cell
  BY LenProperties, ElementOfSeq
<1> HIDE DEF n
<1>2. f \in [GoodLists \X (1..n) -> GoodLists]
  BY <1>1, AppendRight
<1>3. PICK g \in [SUBSET (1..n) -> GoodLists] : LeftFoldsTo(g, f, l, n)
  <2> HIDE DEF f
  <2> QED BY <1>1, <1>2, LeftFoldExists
<1>4. ASSUME NEW t \in SUBSET (1..n), t # {}
      PROVE  f[<<g[t \ {Largest(t)}], Largest(t)>>] = list_append(g[t \ {Largest(t)}], s[Largest(t)])
  <2>1. Largest(t) \in 1..n /\ g[t \ {Largest(t)}] \in GoodLists
    BY <1>1, <1>4, LargestIn
  <2> QED BY <2>1
<1>5. AppendsTo(g, l, s)
  <2>1. g = [t \in SUBSET (1..n) |->
               IF t = {} THEN l ELSE f[<<g[t \ {Largest(t)}], Largest(t)>>]]
    BY <1>3 DEF LeftFoldsTo
  <2>2. \A t \in SUBSET (1..n) :
          g[t] = IF t = {} THEN l ELSE list_append(g[t \ {Largest(t)}], s[Largest(t)])
    <3> HIDE DEF f
    <3> QED BY <1>4, <2>1
  <2> HIDE DEF f
  <2> QED BY <1>1, <2>2 DEF AppendsTo
<1> DEFINE h == CHOOSE h : AppendsTo(h, l, s)
<1>6. AppendsTo(h, l, s)
  BY <1>5
<1> HIDE DEF h
<1>7. \A t \in SUBSET (1..n) :
        h[t] = IF t = {} THEN l ELSE list_append(h[t \ {Largest(t)}], s[Largest(t)])
  BY <1>1, <1>6 DEF AppendsTo
<1>8. \A m : AfterAppends(l, s, m) = h[1..m]
  BY DEF AfterAppends, h
<1>9. AfterAppends(l, s, 0) = l
  <2>1. 1..0 = {}
    OBVIOUS
  <2> QED BY <1>7, <1>8, <2>1
<1>10. ASSUME NEW m \in 0 .. n - 1
       PROVE  AfterAppends(l, s, m + 1) = list_append(AfterAppends(l, s, m), s[m + 1])
  <2>1. m + 1 \in 1..n /\ m + 1 - 1 = m /\ 1..(m + 1) \in SUBSET (1..n)
    BY <1>1
  <2>2. Largest(1..(m + 1)) = m + 1 /\ (1..(m + 1)) \ {m + 1} = 1..m /\ 1..(m + 1) # {}
    BY <1>1, <2>1, LargestOfInterval
  <2>3. h[1..(m + 1)] = list_append(h[1..m], s[m + 1])
    BY <1>7, <2>1, <2>2
  <2> QED BY <1>8, <2>3
<1>11. list_append_array(l, s) = AfterAppends(l, s, n)
  <2>1. list_append_array(l, s) = (CHOOSE x : AppendsTo(x, l, s))[DOMAIN s]
    BY DEF list_append_array, FoldLeft, MapThenFoldSet, AppendsTo, Largest, Max
  <2> QED BY <1>1, <2>1 DEF AfterAppends
<1> QED BY <1>9, <1>10, <1>11 DEF n

\* list_append_array appends the sequence.
LEMMA AppendArrayRight ==
  ASSUME NEW l \in GoodLists, NEW s \in Seq(Cell)
  PROVE  /\ list_append_array(l, s) \in GoodLists
         /\ Contents(list_append_array(l, s)) = Contents(l) \o s
<1> DEFINE n == Len(s)
           R(m) == AfterAppends(l, s, m)
           S == {m \in 0..n : /\ R(m) \in GoodLists /\ Len(Contents(R(m))) = l.len + m
                              /\ \A k \in 1..l.len : Contents(R(m))[k] = Contents(l)[k]
                              /\ \A k \in 1..m : Contents(R(m))[l.len + k] = s[k]}
<1>1. n \in Nat /\ \A m \in 1..n : s[m] \in Cell
  BY LenProperties, ElementOfSeq
<1>2. l.len \in Nat /\ Contents(l) \in Seq(Cell) /\ Len(Contents(l)) = l.len
  BY GoodParts, ContentsType
<1> HIDE DEF n
<1>3. 0 \in S
  <2>1. R(0) = l
    BY Appends
  <2> HIDE DEF R
  <2> QED BY <1>1, <1>2, <2>1
<1>4. ASSUME NEW m \in 0 .. n - 1, m \in S PROVE m + 1 \in S
  <2> DEFINE q == Contents(R(m))
             r == Contents(R(m + 1))
             e == s[m + 1]
  <2>1. /\ R(m) \in GoodLists /\ Len(q) = l.len + m
        /\ \A k \in 1..l.len : q[k] = Contents(l)[k]
        /\ \A k \in 1..m : q[l.len + k] = s[k]
    BY <1>4
  <2>2. R(m + 1) = list_append(R(m), e) /\ m + 1 \in 1..n /\ e \in Cell /\ m \in Nat
    BY <1>1, Appends DEF n
  <2> HIDE DEF R, e
  <2>3. R(m + 1) \in GoodLists /\ r = Append(q, e) /\ q \in Seq(Cell)
    BY <2>1, <2>2, AppendRight, ContentsType
  <2> HIDE DEF q, r
  <2>4. /\ Len(r) = l.len + (m + 1) /\ r[l.len + (m + 1)] = e
        /\ \A k \in 1 .. l.len + m : r[k] = q[k]
    <3>1. /\ Len(r) = Len(q) + 1 /\ r[Len(q) + 1] = e
          /\ \A k \in 1..Len(q) : r[k] = q[k]
      BY <2>2, <2>3, Appended
    <3>2. Len(q) + 1 = l.len + (m + 1)
      <4>1. Len(q) = l.len + m /\ l.len \in Nat /\ m \in Nat
        BY <1>2, <2>1, <2>2
      <4> QED BY ONLY <4>1
    <3> QED BY <2>1, <3>1, <3>2
  <2>5. \A k \in 1..l.len : r[k] = Contents(l)[k]
    <3>1. \A k \in 1..l.len : k \in 1 .. l.len + m
      BY <1>2, <2>2
    <3> QED BY <2>1, <2>4, <3>1
  <2>6. \A k \in 1 .. m + 1 : r[l.len + k] = s[k]
    <3> TAKE k \in 1 .. m + 1
    <3>1. CASE k = m + 1
      BY <2>4, <3>1 DEF e
    <3>2. CASE k # m + 1
      <4>1. k \in 1..m /\ l.len + k \in 1 .. l.len + m
        BY <1>2, <2>2, <3>2
      <4> QED BY <2>1, <2>4, <4>1
    <3> QED BY <3>1, <3>2
  <2> QED BY <2>2, <2>3, <2>4, <2>5, <2>6 DEF r
<1>5. n \in S
  <2>1. \A m \in 0..n : m \in S
    <3> HIDE DEF S
    <3> QED BY <1>1, <1>3, <1>4, ByPlaces
  <2> HIDE DEF S
  <2> QED BY <1>1, <2>1
<1> DEFINE c == Contents(R(n))
           d == Contents(l) \o s
<1>6. /\ R(n) \in GoodLists /\ Len(c) = l.len + n
      /\ \A k \in 1..l.len : c[k] = Contents(l)[k]
      /\ \A k \in 1..n : c[l.len + k] = s[k]
  BY <1>5
<1>7. list_append_array(l, s) = R(n)
  BY Appends DEF n
<1> HIDE DEF R, S
<1>8. /\ d \in Seq(Cell) /\ Len(d) = l.len + n
      /\ \A k \in 1 .. l.len + n : d[k] = IF k <= l.len THEN Contents(l)[k] ELSE s[k - l.len]
  <2> DEFINE q == Contents(l)
  <2>1. /\ q \in Seq(Cell) /\ Len(q) = l.len
    BY <1>2
  <2> HIDE DEF q, c
  <2>2. /\ q \o s \in Seq(Cell) /\ Len(q \o s) = Len(q) + Len(s)
        /\ \A k \in 1 .. Len(q) + Len(s) : (q \o s)[k] = IF k <= Len(q) THEN q[k] ELSE s[k - Len(q)]
    BY <2>1, ConcatProperties
  <2> QED BY <2>1, <2>2 DEF n, q
<1>9. c \in Seq(Cell)
  BY <1>6, ContentsType
<1> HIDE DEF c, d
<1>10. \A k \in 1 .. l.len + n : c[k] = d[k]
  <2> TAKE k \in 1 .. l.len + n
  <2>1. CASE k <= l.len
    BY <1>2, <1>6, <1>8, <2>1
  <2>2. CASE ~(k <= l.len)
    <3>1. k - l.len \in 1..n /\ l.len + (k - l.len) = k
      BY <1>1, <1>2, <2>2
    <3>2. c[l.len + (k - l.len)] = s[k - l.len]
      BY <1>6, <3>1
    <3> QED BY <1>8, <2>2, <3>1, <3>2
  <2> QED BY <2>1, <2>2
<1>11. c = d
  BY <1>6, <1>8, <1>9, <1>10, SeqEqual
<1> QED BY <1>6, <1>7, <1>11 DEF c, d

\* A list is emptied without its cells.
LEMMA EmptiedRight ==
  ASSUME NEW l \in GoodLists
  PROVE  Emptied(l) \in GoodLists /\ Contents(Emptied(l)) = <<>>
<1>1. /\ l.size \in Nat \ {0} /\ l.data \in Arrays(l.size)
      /\ l = [data |-> l.data, len |-> l.len, size |-> l.size]
  BY GoodParts
<1>2. Emptied(l) = [data |-> l.data, len |-> 0, size |-> l.size]
  BY <1>1 DEF Emptied
<1>3. Emptied(l) \in GoodLists
  <2>1. 0 \in 0..l.size
    BY <1>1
  <2> QED BY <1>1, <1>2, <2>1, GoodMade
<1>4. Contents(Emptied(l)) \in Seq(Cell) /\ Len(Contents(Emptied(l))) = 0
  BY <1>2, <1>3, ContentsType
<1> QED BY <1>3, <1>4, EmptySeq

\* list_map1 and list_map2 are list_append_array of what f computes.
LEMMA Map1Appends ==
  ASSUME NEW out, NEW in, in.len \in Nat
  PROVE  list_map1(F1, out, in) = list_append_array(Emptied(out), [k \in 1..in.len |-> F1(in.data[k - 1])])
<1> DEFINE o == Emptied(out)
           n == in.len
           s == [k \in 1..n |-> F1(in.data[k - 1])]
           Q(g) == g = [t \in SUBSET DOMAIN From(0, n - 1) |->
                          IF t = {} THEN o
                          ELSE list_append(g[t \ {Largest(t)}], F1(in.data[From(0, n - 1)[Largest(t)]]))]
<1>1. DOMAIN From(0, n - 1) = 1..n /\ \A k \in 1..n : From(0, n - 1)[k] = k - 1
  BY DEF From
<1>2. list_map1(F1, out, in) = (CHOOSE g : Q(g))[DOMAIN From(0, n - 1)]
  BY DEF list_map1, FoldLeft, MapThenFoldSet, Largest, Max
<1>3. list_append_array(o, s) = (CHOOSE g : AppendsTo(g, o, s))[DOMAIN s]
  BY DEF list_append_array, FoldLeft, MapThenFoldSet, AppendsTo, Largest, Max
<1>4. DOMAIN s = 1..n /\ \A k \in 1..n : s[k] = F1(in.data[From(0, n - 1)[k]])
  BY <1>1
<1>5. \A t \in SUBSET (1..n) : t # {} => Largest(t) \in 1..n
  BY LargestIn
<1>6. \A g : Q(g) <=> AppendsTo(g, o, s)
  <2> HIDE DEF n, o, s
  <2>1. \A t \in SUBSET (1..n) : t # {} => s[Largest(t)] = F1(in.data[From(0, n - 1)[Largest(t)]])
    BY <1>4, <1>5
  <2> QED BY <1>1, <1>4, <2>1 DEF AppendsTo
<1>7. (CHOOSE g : Q(g)) = CHOOSE g : AppendsTo(g, o, s)
  <2> HIDE DEF Q
  <2> QED BY <1>6
<1> HIDE DEF Q
<1> QED BY <1>1, <1>2, <1>3, <1>4, <1>7

LEMMA Map2Appends ==
  ASSUME NEW out, NEW in0, NEW in1, in0.len \in Nat, in1.len \in Nat
  PROVE  LET n == IF in0.len < in1.len THEN in0.len ELSE in1.len
         IN  list_map2(F2, out, in0, in1)
               = list_append_array(Emptied(out), [k \in 1..n |-> F2(in0.data[k - 1], in1.data[k - 1])])
<1> DEFINE o == Emptied(out)
           n == IF in0.len < in1.len THEN in0.len ELSE in1.len
           s == [k \in 1..n |-> F2(in0.data[k - 1], in1.data[k - 1])]
           v(i) == F2(in0.data[i], in1.data[i])
           Q(g) == g = [t \in SUBSET DOMAIN From(0, n - 1) |->
                          IF t = {} THEN o
                          ELSE list_append(g[t \ {Largest(t)}], v(From(0, n - 1)[Largest(t)]))]
<1>1. n \in Nat /\ DOMAIN From(0, n - 1) = 1..n /\ \A k \in 1..n : From(0, n - 1)[k] = k - 1
  BY DEF From
<1>2. list_map2(F2, out, in0, in1) = (CHOOSE g : Q(g))[DOMAIN From(0, n - 1)]
  BY DEF list_map2, FoldLeft, MapThenFoldSet, Largest, Max
<1>3. list_append_array(o, s) = (CHOOSE g : AppendsTo(g, o, s))[DOMAIN s]
  BY DEF list_append_array, FoldLeft, MapThenFoldSet, AppendsTo, Largest, Max
<1>4. DOMAIN s = 1..n /\ \A k \in 1..n : s[k] = v(From(0, n - 1)[k])
  BY <1>1
<1> HIDE DEF v, n
<1>5. \A t \in SUBSET (1..n) : t # {} => Largest(t) \in 1..n
  BY <1>1, LargestIn
<1>6. \A g : Q(g) <=> AppendsTo(g, o, s)
  <2> HIDE DEF o, s
  <2>1. \A t \in SUBSET (1..n) : t # {} => s[Largest(t)] = v(From(0, n - 1)[Largest(t)])
    BY <1>4, <1>5
  <2> QED BY <1>1, <1>4, <2>1 DEF AppendsTo
<1>7. (CHOOSE g : Q(g)) = CHOOSE g : AppendsTo(g, o, s)
  <2> HIDE DEF Q
  <2> QED BY <1>6
<1> HIDE DEF Q
<1>8. list_map2(F2, out, in0, in1) = list_append_array(o, s)
  BY <1>1, <1>2, <1>3, <1>4, <1>7
<1> QED BY <1>8 DEF n

\* list_map1 and list_map2 make lists of what f computes, as long as the shorter argument.
LEMMA Map1Right ==
  ASSUME NEW out \in GoodLists, NEW in \in GoodLists, Contents(in) \in Seq(Int)
  PROVE  LET r == list_map1(F1, out, in)
         IN  /\ r \in GoodLists /\ Contents(r) \in Seq(Int)
             /\ Contents(r) = [k \in DOMAIN Contents(in) |-> F1(Contents(in)[k])]
<1> DEFINE n == in.len
           s == [k \in 1..n |-> F1(in.data[k - 1])]
<1>1. /\ n \in Nat /\ DOMAIN Contents(in) = 1..n /\ Len(Contents(in)) = n
      /\ \A k \in 1..n : Contents(in)[k] = in.data[k - 1]
  BY GoodParts, ContentsType
<1>2. \A k \in 1..n : in.data[k - 1] \in Int
  BY <1>1, ElementOfSeq
<1>3. s \in Seq(Int) /\ s \in Seq(Cell)
  <2> HIDE DEF n
  <2>1. \A k \in 1..n : F1(in.data[k - 1]) \in Int
    BY <1>2 DEF F1
  <2>2. s \in [1..n -> Int]
    BY <2>1
  <2>3. s \in [1..n -> Cell]
    BY <2>2 DEF Cell
  <2> HIDE DEF s
  <2> QED BY <1>1, <2>2, <2>3
<1>4. s = [k \in DOMAIN Contents(in) |-> F1(Contents(in)[k])]
  BY <1>1
<1>5. list_map1(F1, out, in) = list_append_array(Emptied(out), s)
  BY <1>1, Map1Appends
<1> HIDE DEF s
<1>6. /\ list_append_array(Emptied(out), s) \in GoodLists
      /\ Contents(list_append_array(Emptied(out), s)) = <<>> \o s
  BY <1>3, AppendArrayRight, EmptiedRight
<1>7. <<>> \o s = s
  BY <1>3, ConcatEmptySeq
<1> QED BY <1>3, <1>4, <1>5, <1>6, <1>7

LEMMA Map2Right ==
  ASSUME NEW out \in GoodLists, NEW in0 \in GoodLists, NEW in1 \in GoodLists,
         Contents(in0) \in Seq(Int), Contents(in1) \in Seq(Int)
  PROVE  LET r == list_map2(F2, out, in0, in1)
             a == Contents(in0)
             b == Contents(in1)
         IN  /\ r \in GoodLists /\ Contents(r) \in Seq(Int)
             /\ Contents(r) = [k \in DOMAIN a \cap DOMAIN b |-> F2(a[k], b[k])]
<1> DEFINE a == Contents(in0)
           b == Contents(in1)
           n == IF in0.len < in1.len THEN in0.len ELSE in1.len
           s == [k \in 1..n |-> F2(in0.data[k - 1], in1.data[k - 1])]
<1>1. /\ in0.len \in Nat /\ DOMAIN a = 1..in0.len /\ Len(a) = in0.len
      /\ \A k \in 1..in0.len : a[k] = in0.data[k - 1]
      /\ in1.len \in Nat /\ DOMAIN b = 1..in1.len /\ Len(b) = in1.len
      /\ \A k \in 1..in1.len : b[k] = in1.data[k - 1]
  BY GoodParts, ContentsType
<1>2. n \in Nat /\ 1..n = DOMAIN a \cap DOMAIN b
  BY <1>1
<1>3. \A k \in 1..n : /\ a[k] \in Int /\ b[k] \in Int
                      /\ in0.data[k - 1] = a[k] /\ in1.data[k - 1] = b[k]
  <2> HIDE DEF n, a, b
  <2>1. \A k \in 1..n : k \in 1..in0.len /\ k \in 1..in1.len
    BY <1>1, <1>2
  <2> QED BY <1>1, <2>1, ElementOfSeq DEF a, b
<1> HIDE DEF a, b
<1>4. s \in Seq(Int) /\ s \in Seq(Cell)
  <2> HIDE DEF n
  <2>1. \A k \in 1..n : F2(in0.data[k - 1], in1.data[k - 1]) \in Int
    BY <1>3 DEF F2
  <2>2. s \in [1..n -> Int]
    BY <2>1
  <2> HIDE DEF s
  <2> QED BY <1>2, <2>2 DEF Cell
<1>5. s = [k \in DOMAIN a \cap DOMAIN b |-> F2(a[k], b[k])]
  <2> HIDE DEF n
  <2> QED BY <1>2, <1>3
<1>6. list_map2(F2, out, in0, in1) = list_append_array(Emptied(out), s)
  <2>1. in0.len \in Nat /\ in1.len \in Nat
    BY <1>1
  <2> QED BY <2>1, Map2Appends, Zenon
<1> HIDE DEF s, n
<1>7. /\ list_append_array(Emptied(out), s) \in GoodLists
      /\ Contents(list_append_array(Emptied(out), s)) = <<>> \o s
  <2>1. Emptied(out) \in GoodLists /\ Contents(Emptied(out)) = <<>>
    BY EmptiedRight
  <2> QED BY <1>4, <2>1, AppendArrayRight
<1>8. <<>> \o s = s
  BY <1>4, ConcatEmptySeq
<1> QED BY <1>4, <1>5, <1>6, <1>7, <1>8 DEF a, b

\* list_foldl folds the contents.
LEMMA FoldlRight ==
  ASSUME NEW in \in GoodLists
  PROVE  list_foldl(Fold, Start, in) = Abstract!FoldLeft(Fold, Start, Contents(in))
<1> DEFINE n == in.len
           s == Contents(in)
           Q(g) == g = [t \in SUBSET DOMAIN From(0, n - 1) |->
                          IF t = {} THEN Start
                          ELSE Fold(g[t \ {Largest(t)}], in.data[From(0, n - 1)[Largest(t)]])]
           R(g) == g = [t \in SUBSET DOMAIN s |->
                          IF t = {} THEN Start ELSE Fold(g[t \ {Largest(t)}], s[Largest(t)])]
<1>1. DOMAIN From(0, n - 1) = 1..n /\ \A k \in 1..n : From(0, n - 1)[k] = k - 1
  <2>1. n \in Nat
    BY GoodParts
  <2> QED BY <2>1 DEF From
<1>2. list_foldl(Fold, Start, in) = (CHOOSE g : Q(g))[DOMAIN From(0, n - 1)]
  BY DEF list_foldl, FoldLeft, MapThenFoldSet, Largest, Max
<1>3. Abstract!FoldLeft(Fold, Start, s) = (CHOOSE g : R(g))[DOMAIN s]
  BY DEF Abstract!FoldLeft, Abstract!MapThenFoldSet, Largest, Abstract!Max
<1>4. n \in Nat /\ DOMAIN s = 1..n /\ \A k \in 1..n : s[k] = in.data[From(0, n - 1)[k]]
  BY <1>1, ContentsType, GoodParts
<1>5. \A t \in SUBSET (1..n) : t # {} => Largest(t) \in 1..n
  BY <1>4, LargestIn
<1>6. \A g : Q(g) <=> R(g)
  <2> HIDE DEF n, s
  <2>1. \A t \in SUBSET (1..n) : t # {} => s[Largest(t)] = in.data[From(0, n - 1)[Largest(t)]]
    BY <1>4, <1>5
  <2> QED BY <1>1, <1>4, <2>1
<1>7. (CHOOSE g : Q(g)) = CHOOSE g : R(g)
  <2> HIDE DEF Q, R
  <2> QED BY <1>6
<1> HIDE DEF Q, R
<1> QED BY <1>1, <1>2, <1>3, <1>4, <1>7

\* The least of a set of numbers.
LEMMA LeastIn ==
  ASSUME NEW s \in SUBSET Nat, s # {}
  PROVE  Min(s) \in s /\ \A x \in s : Min(s) <= x
<1>1. PICK x \in s : \A y \in s : ~(y < x)
  BY LeastNat
<1>2. \A y \in s : x <= y
  BY <1>1
<1> QED BY <1>2 DEF Min

\* list_index finds the first place of an element.
LEMMA IndexRight ==
  ASSUME NEW l \in GoodLists, NEW e
  PROVE  LET s == Contents(l)
             at == {pos \in DOMAIN s : s[pos] = e}
         IN  list_index(l, e) = IF at = {} THEN -1 ELSE Abstract!Min(at) - 1
<1> DEFINE s == Contents(l)
           at == {pos \in DOMAIN s : s[pos] = e}
           found == {i \in 0 .. l.len - 1 : l.data[i] = e}
<1>1. l.len \in Nat /\ DOMAIN s = 1..l.len /\ \A k \in 1..l.len : s[k] = l.data[k - 1]
  BY ContentsType, GoodParts
<1>2. \A i \in found : i + 1 \in at
  BY <1>1
<1>3. \A k \in at : k - 1 \in found
  BY <1>1
<1>4. found \in SUBSET Nat /\ at \in SUBSET Nat
  BY <1>1
<1>5. list_index(l, e) = IF found = {} THEN -1 ELSE Min(found)
  BY DEF list_index
<1>6. Abstract!Min(at) = Min(at)
  BY DEF Abstract!Min, Min
<1> HIDE DEF found, at
<1>7. CASE found = {}
  <2>1. at = {}
    BY <1>3, <1>7
  <2> QED BY <1>5, <1>7, <2>1 DEF at
<1>8. CASE found # {}
  <2> DEFINE i == Min(found)
             k == Min(at)
  <2>1. at # {}
    BY <1>2, <1>8
  <2>2. i \in found /\ k \in at /\ i + 1 \in at /\ k - 1 \in found
    BY <1>2, <1>3, <1>4, <1>8, <2>1, LeastIn
  <2>3. i <= k - 1 /\ k <= i + 1
    BY <1>4, <1>8, <2>1, <2>2, LeastIn
  <2>4. i \in Nat /\ k \in Nat
    BY <1>4, <2>2
  <2> HIDE DEF i, k
  <2>5. i = k - 1
    BY <2>3, <2>4
  <2> QED BY <1>5, <1>6, <1>8, <2>1, <2>5 DEF i, k, at
<1> QED BY <1>7, <1>8

\* What a filter keeps.
Kept(s) ==
  LET Take(q, e) == IF Keep(e) THEN Append(q, e) ELSE q
  IN  Abstract!FoldLeft(Take, <<>>, s)

\* The list and the sequence after some of the cells.
FiltersTo(g, o, in) ==
  g = [t \in SUBSET (1..in.len) |->
         IF t = {} THEN o
         ELSE IF Keep(in.data[Largest(t) - 1])
              THEN list_append(g[t \ {Largest(t)}], in.data[Largest(t) - 1])
              ELSE g[t \ {Largest(t)}]]
KeepsTo(g, s) ==
  g = [t \in SUBSET DOMAIN s |->
         IF t = {} THEN <<>>
         ELSE IF Keep(s[Largest(t)]) THEN Append(g[t \ {Largest(t)}], s[Largest(t)])
              ELSE g[t \ {Largest(t)}]]

\* list_filter appends the elements it keeps.
LEMMA FilterRight ==
  ASSUME NEW out \in GoodLists, NEW in \in GoodLists, Contents(in) \in Seq(Int)
  PROVE  LET r == list_filter(Keep, out, in)
         IN  r \in GoodLists /\ Contents(r) \in Seq(Int) /\ Contents(r) = Kept(Contents(in))
<1> DEFINE o == Emptied(out)
           n == in.len
           s == Contents(in)
           f == [p \in GoodLists \X (1..n) |->
                   IF Keep(s[p[2]]) THEN list_append(p[1], s[p[2]]) ELSE p[1]]
<1>1. /\ n \in Nat /\ DOMAIN s = 1..n /\ Len(s) = n /\ \A k \in 1..n : s[k] = in.data[k - 1]
  BY GoodParts, ContentsType
<1>2. \A k \in 1..n : s[k] \in Int /\ s[k] \in Cell
  <2> HIDE DEF n, s
  <2> QED BY <1>1, ElementOfSeq DEF s, Cell
<1>3. o \in GoodLists /\ Contents(o) = <<>>
  BY EmptiedRight
<1> HIDE DEF n, s, o
<1>4. f \in [GoodLists \X (1..n) -> GoodLists]
  <2>1. ASSUME NEW l \in GoodLists, NEW k \in 1..n PROVE list_append(l, s[k]) \in GoodLists
    BY <1>2, AppendRight
  <2> QED BY <2>1
<1>5. PICK g \in [SUBSET (1..n) -> GoodLists] : LeftFoldsTo(g, f, o, n)
  <2> HIDE DEF f
  <2> QED BY <1>1, <1>3, <1>4, LeftFoldExists
<1>6. ASSUME NEW t \in SUBSET (1..n), t # {}
      PROVE  /\ Largest(t) \in 1..n /\ g[t \ {Largest(t)}] \in GoodLists
             /\ f[<<g[t \ {Largest(t)}], Largest(t)>>]
                  = IF Keep(s[Largest(t)]) THEN list_append(g[t \ {Largest(t)}], s[Largest(t)])
                    ELSE g[t \ {Largest(t)}]
  <2>1. Largest(t) \in 1..n /\ g[t \ {Largest(t)}] \in GoodLists
    BY <1>1, <1>6, LargestIn
  <2> QED BY <2>1
<1>7. \A t \in SUBSET (1..n) :
        g[t] = IF t = {} THEN o
               ELSE IF Keep(s[Largest(t)]) THEN list_append(g[t \ {Largest(t)}], s[Largest(t)])
                    ELSE g[t \ {Largest(t)}]
  <2>1. g = [t \in SUBSET (1..n) |->
               IF t = {} THEN o ELSE f[<<g[t \ {Largest(t)}], Largest(t)>>]]
    BY <1>5 DEF LeftFoldsTo
  <2> HIDE DEF f
  <2> QED BY <1>6, <2>1
<1> HIDE DEF f
<1>8. FiltersTo(g, o, in)
  <2>1. \A t \in SUBSET (1..n) : t # {} => in.data[Largest(t) - 1] = s[Largest(t)]
    BY <1>1, <1>6
  <2>2. g = [t \in SUBSET (1..n) |-> g[t]]
    OBVIOUS
  <2>3. \A t \in SUBSET (1..n) :
          g[t] = IF t = {} THEN o
                 ELSE IF Keep(in.data[Largest(t) - 1])
                      THEN list_append(g[t \ {Largest(t)}], in.data[Largest(t) - 1])
                      ELSE g[t \ {Largest(t)}]
    BY <1>7, <2>1, Zenon
  <2> QED BY <2>2, <2>3 DEF FiltersTo, n
<1> DEFINE c == [t \in SUBSET (1..n) |-> Contents(g[t])]
<1>9. KeepsTo(c, s)
  <2>1. ASSUME NEW t \in SUBSET (1..n)
        PROVE  c[t] = IF t = {} THEN <<>>
                      ELSE IF Keep(s[Largest(t)]) THEN Append(c[t \ {Largest(t)}], s[Largest(t)])
                           ELSE c[t \ {Largest(t)}]
    <3>1. CASE t = {}
      BY <1>3, <1>7, <3>1
    <3>2. CASE t # {}
      <4> DEFINE l == g[t \ {Largest(t)}]
                 e == s[Largest(t)]
      <4>1. l \in GoodLists /\ e \in Cell /\ c[t \ {Largest(t)}] = Contents(l) /\ c[t] = Contents(g[t])
        BY <1>2, <1>6, <3>2
      <4>2. g[t] = IF Keep(e) THEN list_append(l, e) ELSE l
        BY <1>7, <3>2
      <4> HIDE DEF l, e
      <4>3. c[t] = IF Keep(e) THEN Append(Contents(l), e) ELSE Contents(l)
        BY <4>1, <4>2, AppendRight
      <4> HIDE DEF c
      <4> QED BY <3>2, <4>1, <4>3 DEF l, e
    <3> QED BY <3>1, <3>2
  <2>2. c = [t \in SUBSET (1..n) |-> c[t]]
    OBVIOUS
  <2> HIDE DEF c
  <2> QED BY <1>1, <2>1, <2>2 DEF KeepsTo
<1> HIDE DEF c
<1> DEFINE h == CHOOSE x : FiltersTo(x, o, in)
           d == CHOOSE x : KeepsTo(x, s)
<1>10. FiltersTo(h, o, in) /\ KeepsTo(d, s)
  BY <1>8, <1>9
<1> HIDE DEF h, d
<1>11. ASSUME NEW m \in 0 .. n - 1
       PROVE  /\ h[1..(m + 1)] = IF Keep(s[m + 1]) THEN list_append(h[1..m], s[m + 1]) ELSE h[1..m]
              /\ d[1..(m + 1)] = IF Keep(s[m + 1]) THEN Append(d[1..m], s[m + 1]) ELSE d[1..m]
  <2>1. m + 1 \in 1..n /\ m + 1 - 1 = m /\ 1..(m + 1) \in SUBSET (1..n)
    BY <1>1
  <2>2. Largest(1..(m + 1)) = m + 1 /\ (1..(m + 1)) \ {m + 1} = 1..m /\ 1..(m + 1) # {}
    <3>1. n \in Nat
      BY <1>1
    <3> DEFINE l == m + 1
    <3>2. Largest(1..l) = l /\ (1..l) \ {l} = 1..(l - 1) /\ 1..l # {}
      <4> HIDE DEF l
      <4> QED BY <2>1, <3>1, LargestOfInterval DEF l
    <3> QED BY <2>1, <3>2
  <2>3. h[1..(m + 1)] = IF Keep(in.data[(m + 1) - 1]) THEN list_append(h[1..m], in.data[(m + 1) - 1]) ELSE h[1..m]
    <3>1. \A t \in SUBSET (1..n) :
            h[t] = IF t = {} THEN o
                   ELSE IF Keep(in.data[Largest(t) - 1])
                        THEN list_append(h[t \ {Largest(t)}], in.data[Largest(t) - 1])
                        ELSE h[t \ {Largest(t)}]
      BY <1>10 DEF FiltersTo, n
    <3> DEFINE t == 1..(m + 1)
    <3>2. t \in SUBSET (1..n) /\ t # {} /\ Largest(t) = m + 1 /\ t \ {m + 1} = 1..m
      BY <2>1, <2>2
    <3> HIDE DEF t
    <3>3. h[t] = IF Keep(in.data[(m + 1) - 1]) THEN list_append(h[1..m], in.data[(m + 1) - 1]) ELSE h[1..m]
      BY <3>1, <3>2
    <3> QED BY <3>3 DEF t
  <2>4. d[1..(m + 1)] = IF Keep(s[m + 1]) THEN Append(d[1..m], s[m + 1]) ELSE d[1..m]
    <3>1. \A t \in SUBSET (1..n) :
            d[t] = IF t = {} THEN <<>>
                   ELSE IF Keep(s[Largest(t)]) THEN Append(d[t \ {Largest(t)}], s[Largest(t)])
                        ELSE d[t \ {Largest(t)}]
      BY <1>1, <1>10 DEF KeepsTo
    <3> QED BY <2>1, <2>2, <3>1
  <2>5. in.data[(m + 1) - 1] = s[m + 1]
    BY <1>1, <2>1
  <2> QED BY <2>3, <2>4, <2>5
<1> DEFINE S == {m \in 0..n : /\ h[1..m] \in GoodLists /\ d[1..m] = Contents(h[1..m])
                              /\ d[1..m] \in Seq(Int)}
<1>12. 0 \in S
  <2>1. 1..0 = {} /\ {} \in SUBSET (1..n)
    OBVIOUS
  <2>2. h[{}] = o /\ d[{}] = <<>>
    BY <1>1, <1>10, <2>1 DEF FiltersTo, KeepsTo, n
  <2>3. <<>> \in Seq(Int)
    OBVIOUS
  <2>4. 0 \in 0..n
    BY <1>1
  <2> QED BY <1>3, <2>1, <2>2, <2>3, <2>4
<1>13. ASSUME NEW m \in 0 .. n - 1, m \in S PROVE m + 1 \in S
  <2> DEFINE l == h[1..m]
             q == d[1..m]
             e == s[m + 1]
  <2>1. l \in GoodLists /\ q = Contents(l) /\ q \in Seq(Int)
    BY <1>13
  <2>2. m + 1 \in 0..n /\ e \in Int /\ e \in Cell
    BY <1>1, <1>2
  <2>3. /\ h[1..(m + 1)] = IF Keep(e) THEN list_append(l, e) ELSE l
        /\ d[1..(m + 1)] = IF Keep(e) THEN Append(q, e) ELSE q
    BY <1>11
  <2> HIDE DEF l, q, e
  <2>4. list_append(l, e) \in GoodLists /\ Contents(list_append(l, e)) = Append(q, e)
        /\ Append(q, e) \in Seq(Int)
    BY <2>1, <2>2, AppendRight, AppendProperties
  <2> QED BY <2>1, <2>2, <2>3, <2>4
<1>14. h[1..n] \in GoodLists /\ d[1..n] = Contents(h[1..n]) /\ d[1..n] \in Seq(Int)
  <2>1. \A m \in 0..n : m \in S
    <3> HIDE DEF S
    <3> QED BY <1>1, <1>12, <1>13, ByPlaces
  <2> QED BY <1>1, <2>1
<1>15. list_filter(Keep, out, in) = h[1..n]
  <2> DEFINE Q(x) == x = [t \in SUBSET DOMAIN From(0, n - 1) |->
                            IF t = {} THEN o
                            ELSE IF Keep(in.data[From(0, n - 1)[Largest(t)]])
                                 THEN list_append(x[t \ {Largest(t)}], in.data[From(0, n - 1)[Largest(t)]])
                                 ELSE x[t \ {Largest(t)}]]
  <2>1. DOMAIN From(0, n - 1) = 1..n /\ \A k \in 1..n : From(0, n - 1)[k] = k - 1
    BY <1>1 DEF From
  <2>2. list_filter(Keep, out, in) = (CHOOSE x : Q(x))[DOMAIN From(0, n - 1)]
    BY DEF list_filter, FoldLeft, MapThenFoldSet, Largest, Max, n, o
  <2>3. \A t \in SUBSET (1..n) : t # {} => From(0, n - 1)[Largest(t)] = Largest(t) - 1
    BY <1>6, <2>1
  <2>4. \A x : Q(x) <=> FiltersTo(x, o, in)
    BY <2>1, <2>3 DEF FiltersTo, n
  <2>5. (CHOOSE x : Q(x)) = CHOOSE x : FiltersTo(x, o, in)
    <3> HIDE DEF Q
    <3> QED BY <2>4
  <2> HIDE DEF Q
  <2> QED BY <2>1, <2>2, <2>5 DEF h
<1>16. Kept(s) = d[1..n]
  <2>1. Kept(s) = (CHOOSE x : KeepsTo(x, s))[DOMAIN s]
    BY DEF Kept, Abstract!FoldLeft, Abstract!MapThenFoldSet, KeepsTo, Largest, Abstract!Max
  <2> QED BY <1>1, <2>1 DEF d
<1> QED BY <1>14, <1>15, <1>16 DEF s

\* The array after some of the moves of list_insert and list_remove: to the places w, each
\* from the cell c further.
MovesTo(g, data, w, c) ==
  g = [t \in SUBSET DOMAIN w |->
         IF t = {} THEN data
         ELSE [g[t \ {Largest(t)}] EXCEPT ![w[Largest(t)]] = g[t \ {Largest(t)}][w[Largest(t)] + c]]]
Moved(data, w, c) == (CHOOSE g : MovesTo(g, data, w, c))[DOMAIN w]

\* The n moves stay in an array of size z, and no cell is written before it is read.
Movable(w, c, n, z) ==
  /\ w \in [1..n -> 0 .. z - 1] /\ \A k \in 1..n : w[k] + c \in 0 .. z - 1
  /\ \A k \in 1..n : \A j \in 1 .. k - 1 : w[k] + c # w[j]

\* Then every place gets what was in its cell.
LEMMA MovedRight ==
  ASSUME NEW z \in Nat, NEW data \in Arrays(z), NEW n \in Nat, NEW w, NEW c \in Int,
         Movable(w, c, n, z)
  PROVE  /\ Moved(data, w, c) \in Arrays(z)
         /\ \A i \in 0 .. z - 1 :
              Moved(data, w, c)[i] = IF \E k \in 1..n : w[k] = i THEN data[i + c] ELSE data[i]
<1> USE DEF Movable
<1> DEFINE f == [p \in Arrays(z) \X (1..n) |-> [p[1] EXCEPT ![w[p[2]]] = p[1][w[p[2]] + c]]]
<1>1. \A d \in Arrays(z), k \in 1..n :
        /\ w[k] \in 0 .. z - 1 /\ d[w[k] + c] \in Cell
        /\ [d EXCEPT ![w[k]] = d[w[k] + c]] \in Arrays(z)
        /\ f[<<d, k>>] = [d EXCEPT ![w[k]] = d[w[k] + c]]
  <2> TAKE d \in Arrays(z), k \in 1..n
  <2>1. w[k] \in 0 .. z - 1 /\ w[k] + c \in 0 .. z - 1
    OBVIOUS
  <2>2. d \in [0 .. z - 1 -> Cell]
    BY DEF Arrays
  <2>3. d[w[k] + c] \in Cell
    BY <2>1, <2>2
  <2>4. [d EXCEPT ![w[k]] = d[w[k] + c]] \in [0 .. z - 1 -> Cell]
    BY <2>2, <2>3
  <2> QED BY <2>1, <2>3, <2>4 DEF Arrays
<1>2. f \in [Arrays(z) \X (1..n) -> Arrays(z)]
  <2>1. \A d \in Arrays(z), k \in 1..n : [d EXCEPT ![w[k]] = d[w[k] + c]] \in Arrays(z)
    BY <1>1
  <2> QED BY <2>1
<1>3. PICK g \in [SUBSET (1..n) -> Arrays(z)] : LeftFoldsTo(g, f, data, n)
  <2> HIDE DEF f
  <2> QED BY <1>2, LeftFoldExists
<1>4. ASSUME NEW t \in SUBSET (1..n), t # {}
      PROVE  LET d == g[t \ {Largest(t)}]
             IN  f[<<d, Largest(t)>>] = [d EXCEPT ![w[Largest(t)]] = d[w[Largest(t)] + c]]
  <2>1. Largest(t) \in 1..n /\ g[t \ {Largest(t)}] \in Arrays(z)
    BY <1>4, LargestIn
  <2> HIDE DEF f
  <2> QED BY <1>1, <2>1
<1>5. MovesTo(g, data, w, c)
  <2>1. g = [t \in SUBSET (1..n) |->
               IF t = {} THEN data ELSE f[<<g[t \ {Largest(t)}], Largest(t)>>]]
    BY <1>3 DEF LeftFoldsTo
  <2> HIDE DEF f
  <2>2. \A t \in SUBSET (1..n) :
          g[t] = IF t = {} THEN data
                 ELSE [g[t \ {Largest(t)}] EXCEPT
                        ![w[Largest(t)]] = g[t \ {Largest(t)}][w[Largest(t)] + c]]
    BY <1>4, <2>1
  <2>3. DOMAIN w = 1..n
    OBVIOUS
  <2> QED BY <2>2, <2>3 DEF MovesTo
<1> DEFINE h == CHOOSE x : MovesTo(x, data, w, c)
<1>6. MovesTo(h, data, w, c)
  BY <1>5
<1> HIDE DEF h, f
<1>7. \A t \in SUBSET (1..n) :
        h[t] = IF t = {} THEN data
               ELSE [h[t \ {Largest(t)}] EXCEPT
                      ![w[Largest(t)]] = h[t \ {Largest(t)}][w[Largest(t)] + c]]
  BY <1>6 DEF MovesTo
<1> DEFINE Right(d, m) == \A i \in 0 .. z - 1 :
                            d[i] = IF \E k \in 1..m : w[k] = i THEN data[i + c] ELSE data[i]
           S == {m \in 0..n : h[1..m] \in Arrays(z) /\ Right(h[1..m], m)}
<1>8. 0 \in S
  <2>1. 1..0 = {} /\ {} \in SUBSET (1..n) /\ 0 \in 0..n
    OBVIOUS
  <2>2. h[1..0] = data
    BY <1>7, <2>1
  <2>3. Right(data, 0)
    BY <2>1
  <2> QED BY <2>1, <2>2, <2>3
<1>9. ASSUME NEW m \in 0 .. n - 1, m \in S PROVE m + 1 \in S
  <2> DEFINE d == h[1..m]
             l == m + 1
             r == [d EXCEPT ![w[l]] = d[w[l] + c]]
  <2>1. d \in Arrays(z) /\ Right(d, m)
    BY <1>9
  <2>2. l \in 1..n /\ l - 1 = m /\ l = m + 1 /\ 1..l \in SUBSET (1..n) /\ l \in 0..n /\ m \in Nat
    OBVIOUS
  <2> HIDE DEF l
  <2>3. Largest(1..l) = l /\ (1..l) \ {l} = 1..m /\ 1..l # {}
    BY <2>2, LargestOfInterval
  <2>4. h[1..l] = r
    BY <1>7, <2>2, <2>3
  <2> HIDE DEF d
  <2>5. r \in Arrays(z)
    BY <1>1, <2>1, <2>2
  <2>6. d[w[l] + c] = data[w[l] + c]
    <3> DEFINE j == w[l] + c
    <3>1. j \in 0 .. z - 1 /\ ~\E k \in 1..m : w[k] = j
      BY <2>2
    <3> HIDE DEF j
    <3>2. d[j] = data[j]
      BY <2>1, <3>1
    <3> QED BY <3>2 DEF j
  <2>7. ASSUME NEW i \in 0 .. z - 1
        PROVE  r[i] = IF \E k \in 1..l : w[k] = i THEN data[i + c] ELSE data[i]
    <3>1. d \in [0 .. z - 1 -> Cell] /\ w[l] \in 0 .. z - 1
      BY <2>1, <2>2 DEF Arrays
    <3>2. CASE i = w[l]
      <4>1. r[i] = data[i + c]
        BY <2>6, <3>1, <3>2
      <4>2. \E k \in 1..l : w[k] = i
        BY <2>2, <3>2
      <4> HIDE DEF r
      <4> QED BY <4>1, <4>2
    <3>3. CASE i # w[l]
      <4>1. r[i] = d[i]
        BY <3>1, <3>3
      <4>2. (\E k \in 1..l : w[k] = i) <=> \E k \in 1..m : w[k] = i
        <5>1. \A k : k \in 1..l <=> k \in 1..m \/ k = l
          <6>1. l = m + 1 /\ m \in Nat
            BY <2>2
          <6> QED BY ONLY <6>1
        <5> QED BY <3>3, <5>1
      <4> HIDE DEF r
      <4> QED BY <2>1, <4>1, <4>2
    <3> QED BY <3>2, <3>3
  <2> HIDE DEF r
  <2>8. h[1..l] \in Arrays(z) /\ Right(h[1..l], l)
    BY <2>4, <2>5, <2>7
  <2> QED BY <2>2, <2>8 DEF l
<1>10. h[1..n] \in Arrays(z) /\ Right(h[1..n], n)
  <2>1. \A m \in 0..n : m \in S
    <3> HIDE DEF S
    <3> QED BY <1>8, <1>9, ByPlaces
  <2>2. n \in S
    <3> HIDE DEF S
    <3> QED BY <2>1
  <2> QED BY <2>2
<1>11. Moved(data, w, c) = h[1..n]
  <2>1. DOMAIN w = 1..n
    OBVIOUS
  <2> QED BY <2>1 DEF Moved, h
<1> QED BY <1>10, <1>11

\* The elements of a sequence with one put in or taken out.
LEMMA InsertedAt ==
  ASSUME NEW s \in Seq(Cell), NEW i \in 1..Len(s), NEW e \in Cell
  PROVE  LET r == Abstract!InsertAt(s, i, e)
         IN  /\ r \in Seq(Cell) /\ Len(r) = Len(s) + 1
             /\ \A k \in 1 .. Len(s) + 1 :
                  r[k] = IF k < i THEN s[k] ELSE IF k = i THEN e ELSE s[k - 1]
<1> DEFINE n == Len(s)
           a == SubSeq(s, 1, i - 1)
           b == <<e>>
           c == SubSeq(s, i, n)
           r == (a \o b) \o c
<1>1. n \in Nat /\ i \in Nat /\ 1 <= i /\ i <= n /\ \A k \in 1..n : s[k] \in Cell
  BY LenProperties, ElementOfSeq
<1> HIDE DEF n
<1>2. a \in Seq(Cell) /\ Len(a) = i - 1 /\ \A k \in 1 .. i - 1 : a[k] = s[k]
  <2>1. /\ 1 \in Int /\ i - 1 \in Int /\ \A k \in 1 .. i - 1 : s[k] \in Cell
        /\ (IF 1 <= i - 1 THEN ((i - 1) - 1) + 1 ELSE 0) = i - 1
        /\ ((i - 1) - 1) + 1 = i - 1 /\ \A k \in 1 .. i - 1 : (1 + k) - 1 = k
    BY <1>1
  <2>2. /\ a \in Seq(Cell) /\ Len(a) = IF 1 <= i - 1 THEN ((i - 1) - 1) + 1 ELSE 0
        /\ \A k \in 1 .. ((i - 1) - 1) + 1 : a[k] = s[(1 + k) - 1]
    BY <2>1, SubSeqProperties
  <2> HIDE DEF a
  <2> QED BY <2>1, <2>2
<1>3. b \in Seq(Cell) /\ Len(b) = 1 /\ b[1] = e
  OBVIOUS
<1>4. /\ c \in Seq(Cell) /\ Len(c) = (n - i) + 1
      /\ \A k \in 1 .. (n - i) + 1 : c[k] = s[(i + k) - 1]
  <2>1. /\ i \in Int /\ n \in Int /\ \A k \in i..n : s[k] \in Cell
        /\ (IF i <= n THEN (n - i) + 1 ELSE 0) = (n - i) + 1
    BY <1>1
  <2>2. /\ c \in Seq(Cell) /\ Len(c) = IF i <= n THEN (n - i) + 1 ELSE 0
        /\ \A k \in 1 .. (n - i) + 1 : c[k] = s[(i + k) - 1]
    BY <2>1, SubSeqProperties
  <2> HIDE DEF c
  <2> QED BY <2>1, <2>2
<1>5. Abstract!InsertAt(s, i, e) = r
  BY DEF Abstract!InsertAt, n
<1> HIDE DEF a, b, c
<1>6. /\ a \o b \in Seq(Cell) /\ Len(a \o b) = i
      /\ \A k \in 1..i : (a \o b)[k] = IF k < i THEN s[k] ELSE e
  <2>1. /\ a \o b \in Seq(Cell) /\ Len(a \o b) = Len(a) + Len(b)
        /\ \A k \in 1 .. Len(a) + Len(b) : (a \o b)[k] = IF k <= Len(a) THEN a[k] ELSE b[k - Len(a)]
    BY <1>2, <1>3, ConcatProperties
  <2>2. Len(a) + Len(b) = i /\ i - Len(a) = 1
    BY <1>1, <1>2, <1>3
  <2>3. ASSUME NEW k \in 1..i PROVE (a \o b)[k] = IF k < i THEN s[k] ELSE e
    <3>1. CASE k < i
      <4>1. k \in 1 .. i - 1 /\ k <= Len(a) /\ k \in 1 .. Len(a) + Len(b)
        BY <1>1, <1>2, <2>2, <3>1
      <4>2. (a \o b)[k] = a[k]
        BY <2>1, <4>1
      <4> QED BY <1>2, <3>1, <4>1, <4>2
    <3>2. CASE ~(k < i)
      <4>1. k = i /\ ~(k <= Len(a))
        BY <1>1, <1>2, <3>2
      <4> QED BY <1>3, <2>1, <2>2, <3>2, <4>1
    <3> QED BY <3>1, <3>2
  <2> QED BY <2>1, <2>2, <2>3
<1>7. /\ r \in Seq(Cell) /\ Len(r) = n + 1
      /\ \A k \in 1 .. n + 1 : r[k] = IF k <= i THEN (a \o b)[k] ELSE c[k - i]
  <2> DEFINE q == a \o b
  <2>1. q \in Seq(Cell) /\ Len(q) = i
    BY <1>6
  <2> HIDE DEF q
  <2>2. /\ q \o c \in Seq(Cell) /\ Len(q \o c) = Len(q) + Len(c)
        /\ \A k \in 1 .. Len(q) + Len(c) : (q \o c)[k] = IF k <= Len(q) THEN q[k] ELSE c[k - Len(q)]
    BY <1>4, <2>1, ConcatProperties
  <2>3. Len(q) + Len(c) = n + 1
    BY <1>1, <1>4, <2>1
  <2> QED BY <2>1, <2>2, <2>3 DEF q
<1> HIDE DEF r
<1>8. ASSUME NEW k \in 1 .. n + 1
      PROVE  r[k] = IF k < i THEN s[k] ELSE IF k = i THEN e ELSE s[k - 1]
  <2>1. CASE k <= i
    <3>1. k \in 1..i
      BY <1>1, <2>1
    <3>2. r[k] = (a \o b)[k] /\ (a \o b)[k] = IF k < i THEN s[k] ELSE e
      BY <1>6, <1>7, <2>1, <3>1
    <3>3. ~(k < i) => k = i
      BY <1>1, <2>1
    <3> QED BY <3>2, <3>3
  <2>2. CASE ~(k <= i)
    <3>1. k - i \in 1 .. (n - i) + 1 /\ (i + (k - i)) - 1 = k - 1 /\ ~(k < i) /\ k # i
      BY <1>1, <2>2
    <3>2. c[k - i] = s[(i + (k - i)) - 1]
      BY <1>4, <3>1
    <3> QED BY <1>7, <2>2, <3>1, <3>2
  <2> QED BY <2>1, <2>2
<1> QED BY <1>5, <1>7, <1>8 DEF n

LEMMA RemovedAt ==
  ASSUME NEW s \in Seq(Cell), NEW i \in 1..Len(s)
  PROVE  LET r == Abstract!RemoveAt(s, i)
         IN  /\ r \in Seq(Cell) /\ Len(r) = Len(s) - 1
             /\ \A k \in 1 .. Len(s) - 1 : r[k] = IF k < i THEN s[k] ELSE s[k + 1]
<1> DEFINE n == Len(s)
           a == SubSeq(s, 1, i - 1)
           c == SubSeq(s, i + 1, n)
           r == a \o c
<1>1. n \in Nat /\ i \in Nat /\ 1 <= i /\ i <= n /\ \A k \in 1..n : s[k] \in Cell
  BY LenProperties, ElementOfSeq
<1> HIDE DEF n
<1>2. a \in Seq(Cell) /\ Len(a) = i - 1 /\ \A k \in 1 .. i - 1 : a[k] = s[k]
  <2>1. /\ 1 \in Int /\ i - 1 \in Int /\ \A k \in 1 .. i - 1 : s[k] \in Cell
        /\ (IF 1 <= i - 1 THEN ((i - 1) - 1) + 1 ELSE 0) = i - 1
        /\ ((i - 1) - 1) + 1 = i - 1 /\ \A k \in 1 .. i - 1 : (1 + k) - 1 = k
    BY <1>1
  <2>2. /\ a \in Seq(Cell) /\ Len(a) = IF 1 <= i - 1 THEN ((i - 1) - 1) + 1 ELSE 0
        /\ \A k \in 1 .. ((i - 1) - 1) + 1 : a[k] = s[(1 + k) - 1]
    BY <2>1, SubSeqProperties
  <2> HIDE DEF a
  <2> QED BY <2>1, <2>2
<1>3. c \in Seq(Cell) /\ Len(c) = n - i /\ \A k \in 1 .. n - i : c[k] = s[i + k]
  <2>1. /\ i + 1 \in Int /\ n \in Int /\ \A k \in i + 1..n : s[k] \in Cell
        /\ (IF i + 1 <= n THEN (n - (i + 1)) + 1 ELSE 0) = n - i
        /\ (n - (i + 1)) + 1 = n - i /\ \A k \in 1 .. n - i : ((i + 1) + k) - 1 = i + k
    BY <1>1
  <2>2. /\ c \in Seq(Cell) /\ Len(c) = IF i + 1 <= n THEN (n - (i + 1)) + 1 ELSE 0
        /\ \A k \in 1 .. (n - (i + 1)) + 1 : c[k] = s[((i + 1) + k) - 1]
    BY <2>1, SubSeqProperties
  <2> HIDE DEF c
  <2> QED BY <2>1, <2>2
<1>4. Abstract!RemoveAt(s, i) = r
  BY DEF Abstract!RemoveAt, n
<1> HIDE DEF a, c
<1>5. /\ r \in Seq(Cell) /\ Len(r) = n - 1
      /\ \A k \in 1 .. n - 1 : r[k] = IF k <= i - 1 THEN a[k] ELSE c[k - (i - 1)]
  <2>1. /\ r \in Seq(Cell) /\ Len(r) = Len(a) + Len(c)
        /\ \A k \in 1 .. Len(a) + Len(c) : r[k] = IF k <= Len(a) THEN a[k] ELSE c[k - Len(a)]
    BY <1>2, <1>3, ConcatProperties
  <2>2. Len(a) + Len(c) = n - 1
    BY <1>1, <1>2, <1>3
  <2> HIDE DEF r
  <2> QED BY <1>2, <2>1, <2>2
<1> HIDE DEF r
<1>6. ASSUME NEW k \in 1 .. n - 1 PROVE r[k] = IF k < i THEN s[k] ELSE s[k + 1]
  <2>1. CASE k < i
    <3>1. k \in 1 .. i - 1 /\ k <= i - 1
      BY <1>1, <2>1
    <3> QED BY <1>2, <1>5, <2>1, <3>1
  <2>2. CASE ~(k < i)
    <3>1. k - (i - 1) \in 1 .. n - i /\ i + (k - (i - 1)) = k + 1 /\ ~(k <= i - 1)
      BY <1>1, <2>2
    <3>2. c[k - (i - 1)] = s[i + (k - (i - 1))]
      BY <1>3, <3>1
    <3> QED BY <1>5, <2>2, <3>1, <3>2
  <2> QED BY <2>1, <2>2
<1> QED BY <1>4, <1>5, <1>6 DEF n

\* list_insert moves the elements from pos on and puts one in their place.
LEMMA InsertRight ==
  ASSUME NEW l \in GoodLists, NEW pos \in 0 .. l.len - 1, NEW e \in Cell
  PROVE  /\ list_insert(l, pos, e) \in GoodLists
         /\ Contents(list_insert(l, pos, e)) = Abstract!InsertAt(Contents(l), pos + 1, e)
<1> DEFINE m == WithRoom(l)
           w == Downto(m.len, pos + 1)
           n == m.len - pos
           d == Moved(m.data, w, -1)
           q == [d EXCEPT ![pos] = e]
           r == [data |-> q, len |-> m.len + 1, size |-> m.size]
<1>1. /\ m \in GoodLists /\ m.len = l.len /\ m.len < m.size /\ l.len \in Nat
      /\ \A i \in 0 .. l.len - 1 : m.data[i] = l.data[i]
  BY WithRoomRight, GoodParts
<1> HIDE DEF m
<1>2. /\ m.size \in Nat \ {0} /\ m.data \in Arrays(m.size)
      /\ m = [data |-> m.data, len |-> m.len, size |-> m.size]
  BY <1>1, GoodParts
<1>3. n \in Nat /\ pos \in Nat /\ pos < m.len /\ (m.len - (pos + 1)) + 1 = n
  BY <1>1
<1>4. DOMAIN w = 1..n /\ \A k \in 1..n : w[k] = (m.len - k) + 1
  <2> DEFINE v == From(pos + 1, m.len)
  <2>1. v = [k \in 1..n |-> ((pos + 1) + k) - 1]
    BY <1>3 DEF From
  <2>2. Len(v) = n
    <3> HIDE DEF n
    <3> QED BY <1>3, <2>1
  <2>3. \A k \in 1..n : (n - k) + 1 \in 1..n /\ ((pos + 1) + ((n - k) + 1)) - 1 = (m.len - k) + 1
    BY <1>1, <1>3
  <2>4. w = [k \in 1..n |-> v[(n - k) + 1]]
    BY <2>2 DEF Downto, Reverse
  <2> HIDE DEF v, n
  <2>5. \A k \in 1..n : v[(n - k) + 1] = ((pos + 1) + ((n - k) + 1)) - 1
    BY <2>1, <2>3
  <2> HIDE DEF w
  <2> QED BY <2>3, <2>4, <2>5
<1> HIDE DEF w
<1>5. \A k \in 1..n : w[k] \in 0 .. m.size - 1 /\ w[k] + (-1) = m.len - k /\ w[k] + (-1) \in 0 .. m.size - 1
  <2> TAKE k \in 1..n
  <2>1. /\ k \in Nat /\ 1 <= k /\ k <= m.len - pos /\ pos \in Nat /\ m.len \in Nat
        /\ m.len < m.size /\ m.size \in Nat
    BY <1>1, <1>2, <1>3
  <2>2. w[k] = (m.len - k) + 1
    BY <1>4
  <2> QED BY <2>1, <2>2
<1>6. w \in [1..n -> 0 .. m.size - 1]
  <2>1. w = [k \in 1..n |-> w[k]]
    <3>1. w = [k \in DOMAIN w |-> w[k]]
      BY DEF w, Downto, Reverse
    <3> QED BY <1>4, <3>1
  <2> HIDE DEF n
  <2> QED BY <1>5, <2>1
<1>7. list_insert(l, pos, e) = r
  <2> DEFINE Q(g) == g = [t \in SUBSET DOMAIN w |->
                            IF t = {} THEN m.data
                            ELSE [g[t \ {Largest(t)}] EXCEPT
                                   ![w[Largest(t)]] = g[t \ {Largest(t)}][w[Largest(t)] - 1]]]
             moved == (CHOOSE g : Q(g))[DOMAIN w]
  <2>1. list_insert(l, pos, e) = [m EXCEPT !.data = [moved EXCEPT ![pos] = e], !.len = @ + 1]
    BY DEF list_insert, FoldLeft, MapThenFoldSet, Largest, Max, m, w
  <2>2. \A t \in SUBSET (1..n) : t # {} => w[Largest(t)] - 1 = w[Largest(t)] + (-1)
    <3>1. \A t \in SUBSET (1..n) : t # {} => Largest(t) \in 1..n
      BY <1>3, LargestIn
    <3>2. \A k \in 1..n : w[k] - 1 = w[k] + (-1)
      BY <1>5
    <3> HIDE DEF n
    <3> QED BY <3>1, <3>2
  <2>3. \A g : Q(g) <=> MovesTo(g, m.data, w, -1)
    <3> HIDE DEF n
    <3> QED BY <1>4, <2>2 DEF MovesTo
  <2>4. moved = d
    <3>1. (CHOOSE g : Q(g)) = CHOOSE g : MovesTo(g, m.data, w, -1)
      <4> HIDE DEF Q
      <4> QED BY <2>3
    <3> HIDE DEF Q
    <3> QED BY <3>1 DEF Moved
  <2> HIDE DEF d, moved
  <2> QED BY <1>2, <2>1, <2>4
<1>8. /\ d \in Arrays(m.size)
      /\ \A i \in 0 .. m.size - 1 : d[i] = IF \E k \in 1..n : w[k] = i THEN m.data[i + (-1)] ELSE m.data[i]
  <2>1. \A k \in 1..n : \A j \in 1 .. k - 1 : w[k] + (-1) # w[j]
    <3> TAKE k \in 1..n
    <3> TAKE j \in 1 .. k - 1
    <3>1. j \in 1..n /\ w[j] = (m.len - j) + 1 /\ w[k] + (-1) = m.len - k /\ k \in Nat /\ j \in Nat /\ j < k
      BY <1>3, <1>4, <1>5
    <3> QED BY <1>1, <3>1
  <2>2. -1 \in Int /\ m.size \in Nat /\ n \in Nat
    BY <1>2, <1>3
  <2>3. \A k \in 1..n : w[k] + (-1) \in 0 .. m.size - 1
    BY <1>5
  <2> HIDE DEF n
  <2>4. Movable(w, -1, n, m.size)
    BY <1>6, <2>1, <2>3 DEF Movable
  <2> QED BY <1>2, <2>2, <2>4, MovedRight
<1> HIDE DEF d
<1>9. \A i \in 0 .. m.size - 1 : d[i] = IF pos + 1 <= i /\ i <= m.len THEN m.data[i - 1] ELSE m.data[i]
  <2> TAKE i \in 0 .. m.size - 1
  <2>1. (\E k \in 1..n : w[k] = i) <=> pos + 1 <= i /\ i <= m.len
    <3>1. ASSUME NEW k \in 1..n, w[k] = i PROVE pos + 1 <= i /\ i <= m.len
      BY <1>1, <1>3, <1>4, <3>1
    <3>2. ASSUME pos + 1 <= i, i <= m.len PROVE (m.len - i) + 1 \in 1..n /\ w[(m.len - i) + 1] = i
      <4> DEFINE k == (m.len - i) + 1
      <4>1. k \in 1..n /\ (m.len - k) + 1 = i
        BY <1>1, <1>2, <1>3, <3>2
      <4> HIDE DEF k, n
      <4>2. w[k] = i
        BY <1>4, <4>1
      <4> QED BY <4>1, <4>2 DEF k
    <3> QED BY <3>1, <3>2
  <2>2. i + (-1) = i - 1
    OBVIOUS
  <2> QED BY <1>8, <2>1, <2>2
<1>10. q \in Arrays(m.size) /\ m.len + 1 \in 0..m.size /\ pos \in 0 .. m.size - 1
  BY <1>1, <1>2, <1>3, <1>8 DEF Arrays
<1>11. r \in GoodLists
  <2> HIDE DEF q
  <2> QED BY <1>2, <1>10, GoodMade
<1> DEFINE c == Contents(r)
           s == Abstract!InsertAt(Contents(l), pos + 1, e)
<1>12. /\ c \in Seq(Cell) /\ Len(c) = l.len + 1 /\ \A k \in 1 .. l.len + 1 : c[k] = q[k - 1]
  <2>1. r.len = l.len + 1 /\ r.data = q
    BY <1>1
  <2> HIDE DEF r
  <2> QED BY <1>11, <2>1, ContentsType
<1>13. /\ s \in Seq(Cell) /\ Len(s) = l.len + 1
       /\ \A k \in 1 .. l.len + 1 :
            s[k] = IF k < pos + 1 THEN l.data[k - 1] ELSE IF k = pos + 1 THEN e ELSE l.data[(k - 1) - 1]
  <2> DEFINE a == Contents(l)
  <2>1. /\ a \in Seq(Cell) /\ Len(a) = l.len /\ \A k \in 1..l.len : a[k] = l.data[k - 1]
    BY ContentsType
  <2>2. pos + 1 \in 1..Len(a)
    BY <1>1, <1>3, <2>1
  <2> HIDE DEF a
  <2>3. /\ s \in Seq(Cell) /\ Len(s) = Len(a) + 1
        /\ \A k \in 1 .. Len(a) + 1 :
             s[k] = IF k < pos + 1 THEN a[k] ELSE IF k = pos + 1 THEN e ELSE a[k - 1]
    BY <2>1, <2>2, InsertedAt DEF a
  <2> HIDE DEF s
  <2>4. ASSUME NEW k \in 1 .. l.len + 1
        PROVE  /\ k < pos + 1 => a[k] = l.data[k - 1]
               /\ ~(k < pos + 1) /\ k # pos + 1 => a[k - 1] = l.data[(k - 1) - 1]
    <3>1. k < pos + 1 => k \in 1..l.len
      BY <1>1, <1>3
    <3>2. ~(k < pos + 1) /\ k # pos + 1 => k - 1 \in 1..l.len
      BY <1>1, <1>3
    <3> QED BY <2>1, <3>1, <3>2
  <2> QED BY <2>1, <2>3, <2>4
<1> HIDE DEF c, s
<1>14. ASSUME NEW k \in 1 .. l.len + 1 PROVE c[k] = s[k]
  <2>1. k - 1 \in 0 .. m.size - 1 /\ c[k] = q[k - 1]
    BY <1>1, <1>2, <1>12
  <2>2. q[k - 1] = IF k - 1 = pos THEN e ELSE d[k - 1]
    BY <1>8, <2>1 DEF Arrays
  <2> HIDE DEF q
  <2>3. CASE k < pos + 1
    <3>1. k - 1 # pos /\ ~(pos + 1 <= k - 1) /\ k - 1 \in 0 .. l.len - 1
      BY <1>1, <1>3, <2>3
    <3> QED BY <1>1, <1>9, <1>13, <2>1, <2>2, <2>3, <3>1
  <2>4. CASE k = pos + 1
    BY <1>3, <1>13, <2>1, <2>2, <2>4
  <2>5. CASE ~(k < pos + 1) /\ k # pos + 1
    <3>1. k - 1 # pos /\ pos + 1 <= k - 1 /\ k - 1 <= m.len /\ (k - 1) - 1 \in 0 .. l.len - 1
      BY <1>1, <1>3, <2>5
    <3>2. d[k - 1] = m.data[(k - 1) - 1]
      BY <1>9, <2>1, <3>1
    <3> QED BY <1>1, <1>13, <2>1, <2>2, <2>5, <3>1, <3>2
  <2> QED BY <2>3, <2>4, <2>5
<1>15. c = s
  BY <1>12, <1>13, <1>14, SeqEqual
<1> QED BY <1>7, <1>11, <1>15 DEF c, s

\* list_remove moves those behind an element into its place.
LEMMA RemoveRight ==
  ASSUME NEW l \in GoodLists, NEW pos \in 0 .. l.len - 1
  PROVE  /\ list_remove(l, pos) \in GoodLists
         /\ Contents(list_remove(l, pos)) = Abstract!RemoveAt(Contents(l), pos + 1)
<1> DEFINE w == From(pos, l.len - 2)
           n == (l.len - 1) - pos
           d == Moved(l.data, w, 1)
           r == [data |-> d, len |-> l.len - 1, size |-> l.size]
<1>1. /\ l.size \in Nat \ {0} /\ l.data \in Arrays(l.size) /\ l.len \in Nat /\ l.len <= l.size
      /\ l = [data |-> l.data, len |-> l.len, size |-> l.size]
  BY GoodParts
<1>2. n \in Nat /\ pos \in Nat /\ pos < l.len /\ ((l.len - 2) - pos) + 1 = n
  BY <1>1
<1>3. w = [k \in 1..n |-> (pos + k) - 1]
  BY <1>2 DEF From
<1>4. DOMAIN w = 1..n /\ \A k \in 1..n : w[k] = (pos + k) - 1
  BY <1>3
<1>5. \A k \in 1..n : w[k] \in 0 .. l.size - 1 /\ w[k] + 1 = pos + k /\ w[k] + 1 \in 0 .. l.size - 1
  BY <1>1, <1>2, <1>4
<1>6. w \in [1..n -> 0 .. l.size - 1]
  <2>1. w = [k \in 1..n |-> w[k]]
    BY <1>3
  <2> HIDE DEF n, w
  <2> QED BY <1>5, <2>1
<1>7. list_remove(l, pos) = r
  <2> DEFINE Q(g) == g = [t \in SUBSET DOMAIN w |->
                            IF t = {} THEN l.data
                            ELSE [g[t \ {Largest(t)}] EXCEPT
                                   ![w[Largest(t)]] = g[t \ {Largest(t)}][w[Largest(t)] + 1]]]
             moved == (CHOOSE g : Q(g))[DOMAIN w]
  <2>1. list_remove(l, pos) = [l EXCEPT !.data = moved, !.len = @ - 1]
    BY DEF list_remove, FoldLeft, MapThenFoldSet, Largest, Max
  <2>2. moved = d
    BY DEF Moved, MovesTo
  <2> HIDE DEF d, moved
  <2> QED BY <1>1, <2>1, <2>2
<1>8. /\ d \in Arrays(l.size)
      /\ \A i \in 0 .. l.size - 1 : d[i] = IF \E k \in 1..n : w[k] = i THEN l.data[i + 1] ELSE l.data[i]
  <2> HIDE DEF w
  <2>1. \A k \in 1..n : \A j \in 1 .. k - 1 : w[k] + 1 # w[j]
    <3> TAKE k \in 1..n
    <3> TAKE j \in 1 .. k - 1
    <3>1. j \in 1..n /\ w[j] = (pos + j) - 1 /\ w[k] + 1 = pos + k /\ k \in Nat /\ j \in Nat /\ j < k
      BY <1>2, <1>4, <1>5
    <3> QED BY <1>2, <3>1
  <2>2. 1 \in Int /\ l.size \in Nat /\ n \in Nat
    BY <1>1, <1>2
  <2>3. \A k \in 1..n : w[k] + 1 \in 0 .. l.size - 1
    BY <1>5
  <2> HIDE DEF n
  <2>4. Movable(w, 1, n, l.size)
    BY <1>6, <2>1, <2>3 DEF Movable
  <2> QED BY <1>1, <2>2, <2>4, MovedRight
<1> HIDE DEF d, w
<1>9. \A i \in 0 .. l.len - 2 : d[i] = IF pos <= i THEN l.data[i + 1] ELSE l.data[i]
  <2> TAKE i \in 0 .. l.len - 2
  <2>1. (\E k \in 1..n : w[k] = i) <=> pos <= i
    <3>1. ASSUME NEW k \in 1..n, w[k] = i PROVE pos <= i
      BY <1>2, <1>4, <3>1
    <3>2. ASSUME pos <= i PROVE (i - pos) + 1 \in 1..n /\ w[(i - pos) + 1] = i
      <4> DEFINE k == (i - pos) + 1
      <4>1. k \in 1..n /\ (pos + k) - 1 = i
        BY <1>1, <1>2, <3>2
      <4> HIDE DEF k, n
      <4>2. w[k] = i
        BY <1>4, <4>1
      <4> QED BY <4>1, <4>2 DEF k
    <3> QED BY <3>1, <3>2
  <2>2. i \in 0 .. l.size - 1
    BY <1>1
  <2> QED BY <1>8, <2>1, <2>2
<1>10. r \in GoodLists
  <2>1. l.len - 1 \in 0..l.size
    BY <1>1, <1>2
  <2> QED BY <1>1, <1>8, <2>1, GoodMade
<1> DEFINE c == Contents(r)
           s == Abstract!RemoveAt(Contents(l), pos + 1)
<1>11. /\ c \in Seq(Cell) /\ Len(c) = l.len - 1 /\ \A k \in 1 .. l.len - 1 : c[k] = d[k - 1]
  <2>1. r.len = l.len - 1 /\ r.data = d
    OBVIOUS
  <2> HIDE DEF r
  <2> QED BY <1>10, <2>1, ContentsType
<1>12. /\ s \in Seq(Cell) /\ Len(s) = l.len - 1
       /\ \A k \in 1 .. l.len - 1 : s[k] = IF k < pos + 1 THEN l.data[k - 1] ELSE l.data[k]
  <2> DEFINE a == Contents(l)
  <2>1. /\ a \in Seq(Cell) /\ Len(a) = l.len /\ \A k \in 1..l.len : a[k] = l.data[k - 1]
    BY ContentsType
  <2>2. pos + 1 \in 1..Len(a)
    BY <1>1, <1>2, <2>1
  <2> HIDE DEF a
  <2>3. /\ s \in Seq(Cell) /\ Len(s) = Len(a) - 1
        /\ \A k \in 1 .. Len(a) - 1 : s[k] = IF k < pos + 1 THEN a[k] ELSE a[k + 1]
    BY <2>1, <2>2, RemovedAt DEF a
  <2> HIDE DEF s
  <2>4. \A k \in 1 .. l.len - 1 : k \in 1..l.len /\ k + 1 \in 1..l.len /\ (k + 1) - 1 = k
    BY <1>1
  <2>5. \A k \in 1 .. l.len - 1 : a[k] = l.data[k - 1] /\ a[k + 1] = l.data[k]
    BY <2>1, <2>4
  <2> QED BY <2>1, <2>3, <2>5
<1> HIDE DEF c, s
<1>13. ASSUME NEW k \in 1 .. l.len - 1 PROVE c[k] = s[k]
  <2>1. k - 1 \in 0 .. l.len - 2 /\ (k - 1) + 1 = k /\ (pos <= k - 1 <=> ~(k < pos + 1))
    BY <1>1, <1>2
  <2>2. c[k] = IF pos <= k - 1 THEN l.data[(k - 1) + 1] ELSE l.data[k - 1]
    BY <1>9, <1>11, <2>1
  <2> QED BY <1>12, <2>1, <2>2
<1>14. c = s
  BY <1>11, <1>12, <1>13, SeqEqual
<1> QED BY <1>7, <1>10, <1>14 DEF c, s

-----------------------------------------------------------------------------
(* The calls.                                                               *)

Seqs == [x \in Lists |-> Contents(list[x])]

\* The elements of the lists have been written: their contents are integers.
ListInv == list \in [Lists -> GoodLists] /\ \A x \in Lists : Contents(list[x]) \in Seq(Int)

LEMMA UpdateRight ==
  ASSUME ListInv, NEW x \in Lists, NEW l \in GoodLists, Contents(l) \in Seq(Int), Update(x, l)
  PROVE  ListInv' /\ Abstract!Set(x, Contents(l))
<1>1. list' = [list EXCEPT ![x] = l] /\ result' = <<"void">>
  BY DEF Update
<1>2. list' \in [Lists -> GoodLists] /\ \A y \in Lists : list'[y] = IF y = x THEN l ELSE list[y]
  BY <1>1 DEF ListInv
<1>3. \A y \in Lists : Contents(list'[y]) = IF y = x THEN Contents(l) ELSE Contents(list[y])
  BY <1>2
<1>4. ListInv'
  <2>1. \A y \in Lists : Contents(list'[y]) \in Seq(Int)
    BY <1>3 DEF ListInv
  <2> QED BY <1>2, <2>1 DEF ListInv
<1>5. Seqs' = [Seqs EXCEPT ![x] = Contents(l)]
  BY <1>3 DEF Seqs
<1> QED BY <1>1, <1>4, <1>5 DEF Abstract!Set, Seqs

LEMMA ReturnsRight ==
  ASSUME ListInv, NEW call, NEW v, Returns(call, v)
  PROVE  ListInv' /\ Abstract!Returns(call, v)
<1>1. list' = list /\ result' = <<call, v>>
  BY DEF Returns
<1>2. ListInv'
  BY <1>1 DEF ListInv
<1>3. Seqs' = Seqs
  BY <1>1 DEF Seqs
<1> QED BY <1>1, <1>2, <1>3 DEF Abstract!Returns, Seqs

\* The list x, what it stands for, and its positions.
LEMMA ListAt ==
  ASSUME ListInv, NEW x \in Lists
  PROVE  /\ list[x] \in GoodLists /\ Contents(list[x]) \in Seq(Int) /\ Seqs[x] = Contents(list[x])
         /\ Len(Contents(list[x])) = list[x].len /\ list[x].len \in Nat
BY ContentsType, GoodParts DEF ListInv, Seqs

LEMMA StepGrow ==
  ASSUME ListInv, NEW x \in Lists, Grow(x)
  PROVE  ListInv' /\ Abstract!Grow(x)
<1> DEFINE l == list[x]
           s == Contents(l)
<1>1. l \in GoodLists /\ s \in Seq(Int) /\ Seqs[x] = s /\ Len(s) = l.len /\ l.len \in Nat
  BY ListAt
<1>2. PICK e \in Elements :
        \/ Update(x, list_append(l, e))
        \/ \E d \in Elements : Update(x, list_append_array(l, <<e, d>>))
        \/ \E pos \in 0 .. l.len - 1 : Update(x, list_insert(l, pos, e))
  BY DEF Grow, Positions
<1> HIDE DEF l
<1>3. e \in Int /\ e \in Cell
  BY ElementsAssumption DEF Cell
<1>4. CASE Update(x, list_append(l, e))
  <2>1. /\ list_append(l, e) \in GoodLists /\ Contents(list_append(l, e)) = Append(s, e)
        /\ Append(s, e) \in Seq(Int)
    BY <1>1, <1>3, AppendRight, AppendProperties
  <2>2. ListInv' /\ Abstract!Set(x, Append(s, e))
    BY <1>4, <2>1, UpdateRight
  <2>3. Abstract!Set(x, Append(Seqs[x], e))
    BY <1>1, <2>2
  <2> QED BY <2>2, <2>3 DEF Abstract!Grow, Seqs
<1>5. CASE \E d \in Elements : Update(x, list_append_array(l, <<e, d>>))
  <2>1. PICK d \in Elements : Update(x, list_append_array(l, <<e, d>>))
    BY <1>5
  <2> DEFINE q == <<e, d>>
  <2>2. q \in Seq(Int) /\ q \in Seq(Cell)
    <3>1. d \in Int /\ d \in Cell
      BY ElementsAssumption DEF Cell
    <3> QED BY <1>3, <3>1
  <2> HIDE DEF q
  <2>3. /\ list_append_array(l, q) \in GoodLists /\ Contents(list_append_array(l, q)) = s \o q
        /\ s \o q \in Seq(Int)
    BY <1>1, <2>2, AppendArrayRight, ConcatProperties
  <2>4. Update(x, list_append_array(l, q))
    BY <2>1 DEF q
  <2>5. ListInv' /\ Abstract!Set(x, s \o q)
    BY <2>3, <2>4, UpdateRight
  <2>6. Abstract!Set(x, Seqs[x] \o <<e, d>>)
    BY <1>1, <2>5 DEF q
  <2> QED BY <2>5, <2>6 DEF Abstract!Grow, Seqs
<1>6. CASE \E pos \in 0 .. l.len - 1 : Update(x, list_insert(l, pos, e))
  <2>1. PICK pos \in 0 .. l.len - 1 : Update(x, list_insert(l, pos, e))
    BY <1>6
  <2> DEFINE q == Abstract!InsertAt(s, pos + 1, e)
  <2>2. list_insert(l, pos, e) \in GoodLists /\ Contents(list_insert(l, pos, e)) = q
    BY <1>1, <1>3, InsertRight
  <2>3. q \in Seq(Int)
    <3>1. /\ q \in Seq(Cell) /\ Len(q) = Len(s) + 1
          /\ \A k \in 1 .. Len(s) + 1 :
               q[k] = IF k < pos + 1 THEN s[k] ELSE IF k = pos + 1 THEN e ELSE s[k - 1]
      <4>1. pos + 1 \in 1..Len(s) /\ s \in Seq(Cell)
        BY <1>1, ContentsType
      <4> HIDE DEF s
      <4> QED BY <1>3, <4>1, InsertedAt
    <3>2. ASSUME NEW k \in 1 .. Len(s) + 1 PROVE q[k] \in Int
      <4>1. \A j \in 1..Len(s) : s[j] \in Int
        <5> HIDE DEF s
        <5> QED BY <1>1, ElementOfSeq
      <4>2. /\ k < pos + 1 => k \in 1..Len(s)
            /\ ~(k < pos + 1) /\ k # pos + 1 => k - 1 \in 1..Len(s)
        BY <1>1
      <4> HIDE DEF q, s
      <4> QED BY <1>3, <3>1, <4>1, <4>2
    <3> HIDE DEF q
    <3> QED BY <3>1, <3>2, LenProperties
  <2>4. ListInv' /\ Abstract!Set(x, q)
    BY <2>1, <2>2, <2>3, UpdateRight
  <2>5. Abstract!Set(x, Abstract!InsertAt(Seqs[x], pos + 1, e)) /\ pos \in 0 .. Len(Seqs[x]) - 1
    BY <1>1, <2>4
  <2> QED BY <2>4, <2>5 DEF Abstract!Grow, Seqs
<1> QED BY <1>2, <1>4, <1>5, <1>6

LEMMA StepDelete ==
  ASSUME ListInv, NEW x \in Lists, Delete(x)
  PROVE  ListInv' /\ Abstract!Delete(x)
<1> DEFINE l == list[x]
           s == Contents(l)
<1>1. l \in GoodLists /\ s \in Seq(Int) /\ Seqs[x] = s /\ Len(s) = l.len /\ l.len \in Nat
  BY ListAt
<1>2. PICK pos \in 0 .. l.len - 1 : Update(x, list_remove(l, pos))
  BY DEF Delete, Positions
<1> HIDE DEF l
<1> DEFINE q == Abstract!RemoveAt(s, pos + 1)
<1>3. list_remove(l, pos) \in GoodLists /\ Contents(list_remove(l, pos)) = q
  BY <1>1, RemoveRight
<1>4. q \in Seq(Int)
  <2>1. /\ q \in Seq(Cell) /\ Len(q) = Len(s) - 1
        /\ \A k \in 1 .. Len(s) - 1 : q[k] = IF k < pos + 1 THEN s[k] ELSE s[k + 1]
    <3>1. pos + 1 \in 1..Len(s) /\ s \in Seq(Cell)
      BY <1>1, ContentsType
    <3> HIDE DEF s
    <3> QED BY <3>1, RemovedAt
  <2>2. ASSUME NEW k \in 1 .. Len(s) - 1 PROVE q[k] \in Int
    <3>1. \A j \in 1..Len(s) : s[j] \in Int
      <4> HIDE DEF s
      <4> QED BY <1>1, ElementOfSeq
    <3>2. k \in 1..Len(s) /\ k + 1 \in 1..Len(s)
      BY <1>1
    <3> HIDE DEF q, s
    <3> QED BY <2>1, <3>1, <3>2
  <2> HIDE DEF q
  <2> QED BY <2>1, <2>2, LenProperties
<1>5. ListInv' /\ Abstract!Set(x, q)
  BY <1>2, <1>3, <1>4, UpdateRight
<1>6. Abstract!Set(x, Abstract!RemoveAt(Seqs[x], pos + 1)) /\ pos \in 0 .. Len(Seqs[x]) - 1
  BY <1>1, <1>5
<1> QED BY <1>5, <1>6 DEF Abstract!Delete, Seqs

LEMMA StepQuery ==
  ASSUME ListInv, NEW x \in Lists, Query(x)
  PROVE  ListInv' /\ Abstract!Query(x)
<1> DEFINE l == list[x]
           s == Contents(l)
<1>1. l \in GoodLists /\ s \in Seq(Int) /\ Seqs[x] = s /\ Len(s) = l.len /\ l.len \in Nat
  BY ListAt
<1>2. /\ DOMAIN s = 1..l.len /\ \A k \in 1..l.len : s[k] = l.data[k - 1]
  BY <1>1, ContentsType
<1>3. ASSUME NEW call, NEW v, Returns(call, v) PROVE ListInv' /\ Abstract!Returns(call, v)
  BY <1>3, ReturnsRight
<1>4. CASE \E pos \in 0 .. l.len - 1 : Returns("get", list_get(l, pos))
  <2>1. PICK pos \in 0 .. l.len - 1 : Returns("get", list_get(l, pos))
    BY <1>4
  <2>2. pos + 1 \in 1..Len(Seqs[x]) /\ (pos + 1) - 1 = pos
    BY <1>1
  <2>3. list_get(l, pos) = Seqs[x][pos + 1]
    BY <1>1, <1>2, <2>2 DEF list_get
  <2> HIDE DEF l
  <2>4. ListInv' /\ Abstract!Returns("get", Seqs[x][pos + 1])
    BY <1>3, <2>1, <2>3
  <2> QED BY <2>2, <2>4 DEF Abstract!Query, Seqs
<1>5. CASE \E e \in Elements : Returns("index", list_index(l, e))
  <2>1. PICK e \in Elements : Returns("index", list_index(l, e))
    BY <1>5
  <2> DEFINE at == {pos \in DOMAIN s : s[pos] = e}
             v == IF at = {} THEN -1 ELSE Abstract!Min(at) - 1
  <2>2. list_index(l, e) = v
    BY <1>1, IndexRight
  <2> HIDE DEF v
  <2>3. ListInv' /\ Abstract!Returns("index", v)
    BY <1>3, <2>1, <2>2
  <2> QED BY <1>1, <2>3 DEF Abstract!Query, Seqs, v
<1>6. CASE Returns("len", l.len)
  <2>1. ListInv' /\ Abstract!Returns("len", l.len)
    BY <1>3, <1>6
  <2>2. Abstract!Returns("len", Len(Seqs[x]))
    BY <1>1, <2>1
  <2> QED BY <2>1, <2>2 DEF Abstract!Query, Seqs
<1>7. CASE Returns("foreach", Contents(l))
  <2>1. ListInv' /\ Abstract!Returns("foreach", Seqs[x])
    BY <1>1, <1>3, <1>7
  <2> QED BY <2>1 DEF Abstract!Query, Seqs
<1>8. CASE Returns("foldl", list_foldl(Fold, Start, l))
  <2>1. list_foldl(Fold, Start, l) = Abstract!FoldLeft(Fold, Start, Seqs[x])
    BY <1>1, FoldlRight
  <2>2. ListInv' /\ Abstract!Returns("foldl", Abstract!FoldLeft(Fold, Start, Seqs[x]))
    BY <1>3, <1>8, <2>1
  <2> QED BY <2>2 DEF Abstract!Query, Seqs
<1> QED BY <1>4, <1>5, <1>6, <1>7, <1>8 DEF Query, Positions

LEMMA StepCombine ==
  ASSUME ListInv, NEW out \in Lists, Combine(out)
  PROVE  ListInv' /\ Abstract!Combine(out)
<1> DEFINE o == list[out]
<1>1. PICK x \in Lists \ {out} :
        \/ Update(out, list_map1(F1, o, list[x]))
        \/ Update(out, list_filter(Keep, o, list[x]))
        \/ \E y \in Lists \ {out} : Update(out, list_map2(F2, o, list[x], list[y]))
  BY DEF Combine
<1>2. /\ o \in GoodLists /\ list[x] \in GoodLists /\ Contents(list[x]) \in Seq(Int)
      /\ Seqs[x] = Contents(list[x])
  BY ListAt
<1> HIDE DEF o
<1> DEFINE s == Seqs[x]
<1>3. CASE Update(out, list_map1(F1, o, list[x]))
  <2> DEFINE r == list_map1(F1, o, list[x])
  <2>1. r \in GoodLists /\ Contents(r) \in Seq(Int) /\ Contents(r) = [i \in DOMAIN s |-> F1(s[i])]
    BY <1>2, Map1Right
  <2> HIDE DEF r
  <2>2. Update(out, r)
    BY <1>3 DEF r
  <2>3. ListInv' /\ Abstract!Set(out, Contents(r))
    BY <2>1, <2>2, UpdateRight
  <2>4. Abstract!Set(out, [i \in DOMAIN s |-> F1(s[i])])
    BY <2>1, <2>3
  <2> QED BY <2>3, <2>4 DEF Abstract!Combine, Seqs
<1>4. CASE Update(out, list_filter(Keep, o, list[x]))
  <2> DEFINE r == list_filter(Keep, o, list[x])
  <2>1. r \in GoodLists /\ Contents(r) \in Seq(Int) /\ Contents(r) = Kept(s)
    BY <1>2, FilterRight
  <2> HIDE DEF r
  <2>2. Update(out, r)
    BY <1>4 DEF r
  <2>3. ListInv' /\ Abstract!Set(out, Contents(r))
    BY <2>1, <2>2, UpdateRight
  <2>4. Abstract!Set(out, Kept(s))
    BY <2>1, <2>3
  <2> QED BY <2>3, <2>4 DEF Abstract!Combine, Seqs, Kept
<1>5. CASE \E y \in Lists \ {out} : Update(out, list_map2(F2, o, list[x], list[y]))
  <2>1. PICK y \in Lists \ {out} : Update(out, list_map2(F2, o, list[x], list[y]))
    BY <1>5
  <2> DEFINE r == list_map2(F2, o, list[x], list[y])
             q == Seqs[y]
  <2>2. list[y] \in GoodLists /\ Contents(list[y]) \in Seq(Int) /\ q = Contents(list[y])
    BY ListAt
  <2>3. /\ r \in GoodLists /\ Contents(r) \in Seq(Int)
        /\ Contents(r) = [i \in DOMAIN s \cap DOMAIN q |-> F2(s[i], q[i])]
    <3> DEFINE u == list[x]
               v == list[y]
    <3>1. /\ r \in GoodLists /\ Contents(r) \in Seq(Int)
          /\ Contents(r) = [k \in DOMAIN Contents(u) \cap DOMAIN Contents(v) |->
                               F2(Contents(u)[k], Contents(v)[k])]
      <4>1. /\ o \in GoodLists /\ u \in GoodLists /\ v \in GoodLists
            /\ Contents(u) \in Seq(Int) /\ Contents(v) \in Seq(Int)
        BY <1>2, <2>2
      <4> HIDE DEF u, v
      <4>2. LET t == list_map2(F2, o, u, v)
            IN  /\ t \in GoodLists /\ Contents(t) \in Seq(Int)
                /\ Contents(t) = [k \in DOMAIN Contents(u) \cap DOMAIN Contents(v) |->
                                     F2(Contents(u)[k], Contents(v)[k])]
        BY <4>1, Map2Right
      <4>3. r = list_map2(F2, o, u, v)
        BY DEF u, v
      <4> HIDE DEF r
      <4> QED BY <4>2, <4>3
    <3> HIDE DEF r
    <3>2. s = Contents(list[x]) /\ q = Contents(list[y])
      BY <1>2, <2>2
    <3> HIDE DEF s, q
    <3> QED BY <3>1, <3>2
  <2>4. Update(out, r)
    BY <2>1
  <2> HIDE DEF r
  <2>5. ListInv' /\ Abstract!Set(out, Contents(r))
    BY <2>3, <2>4, UpdateRight
  <2>6. Abstract!Set(out, [i \in DOMAIN s \cap DOMAIN q |-> F2(s[i], q[i])])
    BY <2>3, <2>5
  <2> QED BY <2>5, <2>6 DEF Abstract!Combine, Seqs
<1> QED BY <1>1, <1>3, <1>4, <1>5

\* list.c: for any number of lists of any elements and any length, whatever the arrays hold
\* beyond it and however often they were expanded, every call of a client does to the lists
\* what SequenceList says it does to sequences, and returns what that says.
THEOREM ListsImplement == Spec => ListsAreSequences
<1>1. Init => ListInv /\ Abstract!Init
  <2> SUFFICES ASSUME Init PROVE ListInv /\ Abstract!Init
    OBVIOUS
  <2>1. list = [x \in Lists |-> list_create] /\ result = <<"void">>
    BY DEF Init
  <2>2. \A x \in Lists : list[x] \in GoodLists /\ Contents(list[x]) = <<>>
    BY <2>1, CreateRight
  <2>3. <<>> \in Seq(Int)
    OBVIOUS
  <2> QED BY <2>1, <2>2, <2>3 DEF ListInv, Abstract!Init
<1>2. ListInv /\ [Next]_vars
        => ListInv' /\ [Abstract!Next]_<<[x \in Lists |-> Contents(list[x])], result>>
  <2> SUFFICES ASSUME ListInv, [Next]_vars
      PROVE  ListInv' /\ [Abstract!Next]_<<Seqs, result>>
    BY DEF Seqs
  <2>1. CASE UNCHANGED vars
    BY <2>1 DEF vars, ListInv, Seqs
  <2>2. CASE Next
    <3>1. PICK x \in Lists : Grow(x) \/ Delete(x) \/ Renew(x) \/ Query(x) \/ Combine(x)
      BY <2>2 DEF Next
    <3>2. CASE Grow(x)
      BY <3>2, StepGrow DEF Abstract!Next
    <3>3. CASE Delete(x)
      BY <3>3, StepDelete DEF Abstract!Next
    <3>4. CASE Renew(x)
      <4>1. Contents(list_create) \in Seq(Int)
        BY CreateRight
      <4>2. ListInv' /\ Abstract!Set(x, <<>>)
        BY <3>4, <4>1, CreateRight, UpdateRight DEF Renew
      <4> QED BY <4>2 DEF Abstract!Next, Abstract!Renew
    <3>5. CASE Query(x)
      BY <3>5, StepQuery DEF Abstract!Next
    <3>6. CASE Combine(x)
      BY <3>6, StepCombine DEF Abstract!Next
    <3> QED BY <3>1, <3>2, <3>3, <3>4, <3>5, <3>6
  <2> QED BY <2>1, <2>2
<1> QED BY <1>1, <1>2, PTL DEF Spec, ListsAreSequences, Abstract!Spec

-----------------------------------------------------------------------------
(* The set and the stack.                                                   *)

\* The stack of the first m integers, last first.
Stacked(m) == [n \in 1..m |-> m + 1 - n]

LEMMA StackedMore ==
  ASSUME NEW m \in Nat
  PROVE  /\ Stacked(m) \in Seq(Nat) /\ Len(Stacked(m)) = m /\ (Stacked(m) = <<>> <=> m = 0)
         /\ <<m + 1>> \o Stacked(m) = Stacked(m + 1)
<1> DEFINE s == Stacked(m)
           t == Stacked(m + 1)
           r == <<m + 1>> \o s
<1>1. s \in Seq(Nat) /\ Len(s) = m
  BY DEF Stacked
<1>2. t \in Seq(Nat) /\ Len(t) = m + 1
  BY DEF Stacked
<1>3. s = <<>> <=> m = 0
  BY <1>1, EmptySeq
<1>4. <<m + 1>> \in Seq(Nat) /\ Len(<<m + 1>>) = 1
  OBVIOUS
<1>5. /\ r \in Seq(Nat) /\ Len(r) = 1 + m
      /\ \A n \in 1..(1 + m) : r[n] = IF n <= 1 THEN <<m + 1>>[n] ELSE s[n - 1]
  <2> HIDE DEF s
  <2> QED BY <1>1, <1>4, ConcatProperties
<1>6. ASSUME NEW n \in 1..(m + 1) PROVE r[n] = t[n]
  <2>1. t[n] = m + 2 - n
    BY DEF Stacked
  <2>2. CASE n = 1
    BY <1>5, <2>1, <2>2
  <2>3. CASE n # 1
    <3>1. n - 1 \in 1..m /\ s[n - 1] = m + 1 - (n - 1)
      BY <2>3 DEF Stacked
    <3> HIDE DEF s, t
    <3> QED BY <1>5, <2>1, <2>3, <3>1
  <2> QED BY <2>2, <2>3
<1>7. r = t
  <2> HIDE DEF r, t
  <2>1. Len(r) = Len(t) /\ Len(r) = m + 1
    BY <1>2, <1>5
  <2> QED BY <1>2, <1>5, <1>6, <2>1, SeqEqual
<1> HIDE DEF s, t
<1> QED BY <1>1, <1>3, <1>7 DEF s, t

LEMMA StackedLess ==
  ASSUME NEW m \in Nat \ {0}
  PROVE  Head(Stacked(m)) = m /\ Tail(Stacked(m)) = Stacked(m - 1)
<1> DEFINE s == Stacked(m)
           r == Tail(s)
           t == Stacked(m - 1)
<1>1. s \in Seq(Nat) /\ Len(s) = m /\ s # <<>>
  BY StackedMore
<1>2. s[1] = m /\ \A n \in 1..(m - 1) : s[n + 1] = m - n
  BY DEF Stacked
<1>3. /\ Head(s) = s[1] /\ r \in Seq(Nat) /\ Len(r) = m - 1
      /\ \A n \in 1..(m - 1) : r[n] = s[n + 1]
  <2> HIDE DEF s
  <2> QED BY <1>1, Beheaded
<1>4. /\ t \in Seq(Nat) /\ Len(t) = m - 1
      /\ \A n \in 1..(m - 1) : t[n] = m - n
  <2>1. m - 1 \in Nat
    OBVIOUS
  <2>2. \A n \in 1..(m - 1) : t[n] = m - n
    BY DEF Stacked
  <2> QED BY <2>1, <2>2, StackedMore
<1>5. r = t
  <2> HIDE DEF s, r, t
  <2>1. Len(r) = Len(t) /\ \A n \in 1..Len(r) : r[n] = t[n]
    BY <1>2, <1>3, <1>4
  <2> QED BY <1>3, <1>4, <2>1, SeqEqual
<1> HIDE DEF s, r, t
<1>6. Head(s) = m /\ r = t
  BY <1>2, <1>3, <1>5
<1> QED BY <1>6 DEF s, r, t

-----------------------------------------------------------------------------
\* The integers that have been offered to the set, and those it holds.
Offered == IF place = "add" THEN created - 1 ELSE created
Firsts == {n \in 1..Offered : I!FirstOfItsSlot(n)}
Answer == {argv[n] : n \in {n \in DOMAIN argv : I!FirstOfItsSlot(n)}}

Making == {"add", "push", "free"}
Emptying == {"pop", "empty", "end"}

SetTypes ==
  /\ argv \in Seq(Inputs) /\ Len(argv) \in 0..MaxInputs
  /\ created \in 0..Len(argv) /\ place \in {"create"} \cup Making \cup Emptying
  /\ set \in [0 .. SIZE - 1 -> Nat] /\ rc \in [I!Integer -> Int]
  /\ place \in Making => created > 0
  /\ place \in Emptying => created = Len(argv)
  /\ shown \in [sets : Seq({Answer}), popped : Seq(Inputs)]

\* The stack has what was created, but the last integer until it is pushed.
StackRight(m) ==
  /\ m \in 0..created /\ stack = Stacked(m)
  /\ place \in {"create", "free"} => m = created
  /\ place \in {"add", "push"} => m = created - 1
  /\ place \in {"empty", "end"} => m = 0

\* A slot has the first integer offered of those that belong there.
SlotsRight ==
  IF place = "end" THEN \A h \in 0 .. SIZE - 1 : set[h] = I!NULL
  ELSE \A h \in 0 .. SIZE - 1 :
         /\ set[h] # I!NULL => set[h] \in Firsts /\ I!hash(argv[set[h]]) = h
         /\ \A n \in 1..Offered : I!hash(argv[n]) = h => set[h] # I!NULL

One(b) == IF b THEN 1 ELSE 0
\* One reference each of main while it makes an integer, of the set and of the stack.
CountsRight(m) ==
  \A n \in I!Integer :
    rc[n] = One(place \in Making /\ n = created) + One(n \in I!InSet) + One(n <= m)

\* What has been popped is the arguments from the last on, m of them are left.
Popped(k) == [n \in 1..k |-> argv[Len(argv) + 1 - n]]
PoppedRight(m) == shown.popped = Popped(IF place \in Emptying THEN Len(argv) - m ELSE 0)

SetInv ==
  SetTypes /\ SlotsRight /\ ~used /\ \E m \in Nat : StackRight(m) /\ CountsRight(m) /\ PoppedRight(m)

\* A pop prints one argument more of the last ones.
LEMMA PoppedMore ==
  ASSUME argv \in Seq(Inputs)
  PROVE  /\ Popped(0) = <<>>
         /\ \A k \in 0..Len(argv) : Popped(k) \in Seq(Inputs) /\ Len(Popped(k)) = k
         /\ \A k \in 0 .. Len(argv) - 1 : Append(Popped(k), argv[Len(argv) - k]) = Popped(k + 1)
         /\ Popped(Len(argv)) = Reverse(argv)
<1>1. Len(argv) \in Nat /\ \A n \in 1..Len(argv) : argv[n] \in Inputs
  BY LenProperties, ElementOfSeq
<1>2. ASSUME NEW k \in 0..Len(argv) PROVE Popped(k) \in Seq(Inputs) /\ Len(Popped(k)) = k
  <2>1. k \in Nat /\ \A n \in 1..k : Len(argv) + 1 - n \in 1..Len(argv)
    BY <1>1
  <2>2. Popped(k) \in [1..k -> Inputs]
    BY <1>1, <2>1 DEF Popped
  <2> QED BY <2>1, <2>2
<1>3. Popped(0) = <<>>
  <2>1. Popped(0) \in Seq(Inputs) /\ Len(Popped(0)) = 0
    BY <1>1, <1>2
  <2> QED BY <2>1, EmptySeq
<1>4. ASSUME NEW k \in 0 .. Len(argv) - 1
      PROVE  Append(Popped(k), argv[Len(argv) - k]) = Popped(k + 1)
  <2> DEFINE p == Popped(k)
             e == argv[Len(argv) - k]
             r == Append(p, e)
             t == Popped(k + 1)
  <2>1. k \in Nat /\ k \in 0..Len(argv) /\ k + 1 \in 0..Len(argv)
        /\ Len(argv) - k \in 1..Len(argv)
    BY <1>1
  <2>2. p \in Seq(Inputs) /\ Len(p) = k /\ t \in Seq(Inputs) /\ Len(t) = k + 1 /\ e \in Inputs
    BY <1>1, <1>2, <2>1
  <2>3. /\ r \in Seq(Inputs) /\ Len(r) = k + 1 /\ r[k + 1] = e
        /\ \A n \in 1..k : r[n] = p[n]
    <3> HIDE DEF p, e
    <3> QED BY <2>2, Appended
  <2>4. /\ \A n \in 1..k : p[n] = argv[Len(argv) + 1 - n]
        /\ \A n \in 1..(k + 1) : t[n] = argv[Len(argv) + 1 - n]
    BY DEF Popped
  <2>5. t[k + 1] = e
    <3>1. Len(argv) + 1 - (k + 1) = Len(argv) - k /\ k + 1 \in 1..(k + 1)
      BY <1>1, <2>1
    <3> HIDE DEF t
    <3> QED BY <2>4, <3>1
  <2> HIDE DEF p, e, r, t
  <2>6. Len(r) = Len(t) /\ \A n \in 1..Len(r) : r[n] = t[n]
    <3>1. \A n \in 1..(k + 1) : n \in 1..k \/ n = k + 1
      BY <2>1
    <3>2. \A n \in 1..k : n \in 1..(k + 1)
      BY <2>1
    <3> QED BY <2>2, <2>3, <2>4, <2>5, <3>1, <3>2
  <2>7. r = t
    BY <2>2, <2>3, <2>6, SeqEqual
  <2> QED BY <2>7 DEF p, e, r, t
<1>5. Popped(Len(argv)) = Reverse(argv)
  <2>1. \A n \in 1..Len(argv) : argv[Len(argv) + 1 - n] = argv[(Len(argv) - n) + 1]
    BY <1>1
  <2> QED BY <2>1 DEF Popped, Reverse
<1> QED BY <1>2, <1>3, <1>4, <1>5

\* The integers in the set are the first of their slots.
LEMMA InSetRight ==
  I!IntegerSetAssumption /\ SetTypes /\ SlotsRight =>
    /\ I!InSet = IF place = "end" THEN {} ELSE Firsts
    /\ Firsts \subseteq I!Integer /\ Offered \in 0..created
    /\ DOMAIN argv = 1..Len(argv)
    /\ \A n \in 1..Len(argv) : argv[n] \in Inputs /\ I!hash(argv[n]) \in 0 .. SIZE - 1
<1> SUFFICES ASSUME I!IntegerSetAssumption, SetTypes, SlotsRight
    PROVE  /\ I!InSet = IF place = "end" THEN {} ELSE Firsts
           /\ Firsts \subseteq I!Integer /\ Offered \in 0..created
           /\ DOMAIN argv = 1..Len(argv)
           /\ \A n \in 1..Len(argv) : argv[n] \in Inputs /\ I!hash(argv[n]) \in 0 .. SIZE - 1
  OBVIOUS
<1>1. /\ SIZE \in Nat \ {0} /\ Inputs \subseteq Nat /\ DOMAIN argv = 1..Len(argv) /\ MaxInputs \in Nat
      /\ Len(argv) \in Nat /\ created \in 0..Len(argv) /\ Len(argv) <= MaxInputs
      /\ \A n \in 1..Len(argv) : argv[n] \in Inputs /\ argv[n] \in Nat
  <2>1. /\ SIZE \in Nat \ {0} /\ Inputs \subseteq Nat /\ MaxInputs \in Nat
        /\ argv \in Seq(Inputs) /\ Len(argv) \in 0..MaxInputs /\ created \in 0..Len(argv)
    BY DEF I!IntegerSetAssumption, SetTypes
  <2>2. \A n \in 1..Len(argv) : argv[n] \in Inputs
    BY <2>1, ElementOfSeq
  <2>3. DOMAIN argv = 1..Len(argv) /\ Len(argv) \in Nat
    BY <2>1, LenProperties
  <2>4. \A n \in 1..Len(argv) : argv[n] \in Nat
    BY <2>1, <2>2
  <2> QED BY <2>1, <2>2, <2>3, <2>4
<1>2. Offered \in 0..created
  <2>1. place = "add" => created > 0
    BY DEF SetTypes, Making
  <2> QED BY <1>1, <2>1 DEF Offered
<1>3. \A n \in 1..Len(argv) : argv[n] \in Inputs /\ I!hash(argv[n]) \in 0 .. SIZE - 1
  BY <1>1 DEF I!hash
<1>4. Firsts \subseteq I!Integer
  BY <1>1, <1>2 DEF Firsts, I!Integer
<1>5. DOMAIN set = 0 .. SIZE - 1
  BY DEF SetTypes
<1>6. CASE place = "end"
  <2>1. I!InSet = {}
    BY <1>5, <1>6 DEF I!InSet, SlotsRight, I!NULL, I!Integer
  <2> QED BY <1>1, <1>2, <1>3, <1>4, <1>6, <2>1
<1>7. CASE place # "end"
  <2>1. \A h \in 0 .. SIZE - 1 :
          /\ set[h] # I!NULL => set[h] \in Firsts /\ I!hash(argv[set[h]]) = h
          /\ \A n \in 1..Offered : I!hash(argv[n]) = h => set[h] # I!NULL
    BY <1>7 DEF SlotsRight
  <2>2. ASSUME NEW n \in I!InSet PROVE n \in Firsts
    BY <1>5, <2>1 DEF I!InSet, I!Integer, I!NULL
  <2>3. ASSUME NEW n \in Firsts PROVE n \in I!InSet
    <3> DEFINE h == I!hash(argv[n])
               j == set[h]
    <3>1. n \in 1..Len(argv) /\ n \in 1..Offered /\ h \in 0 .. SIZE - 1 /\ I!FirstOfItsSlot(n)
      BY <1>1, <1>2, <1>3 DEF Firsts
    <3>2. j \in Firsts /\ I!hash(argv[j]) = h
      <4> HIDE DEF h
      <4>1. j # I!NULL
        BY <2>1, <3>1 DEF h
      <4> QED BY <2>1, <3>1, <4>1
    <3>3. j \in 1..Offered /\ I!FirstOfItsSlot(j)
      BY <3>2 DEF Firsts
    <3>4. ~(j < n) /\ ~(n < j)
      <4> HIDE DEF j
      <4>1. I!hash(argv[n]) = I!hash(argv[j])
        BY <3>2
      <4>2. j < n => j \in 1 .. n - 1
        BY <1>1, <1>2, <3>1, <3>3
      <4>3. n < j => n \in 1 .. j - 1
        BY <1>1, <1>2, <3>1, <3>3
      <4> QED BY <3>1, <3>3, <4>1, <4>2, <4>3 DEF I!FirstOfItsSlot
    <3>5. set[h] = n
      <4>1. j \in Nat /\ n \in Nat
        BY <3>1, <3>3
      <4> QED BY <3>4, <4>1
    <3> HIDE DEF h
    <3> QED BY <1>4, <1>5, <3>1, <3>5 DEF I!InSet
  <2> QED BY <1>1, <1>2, <1>3, <1>4, <1>7, <2>2, <2>3
<1> QED BY <1>6, <1>7

LEMMA SetInit == I!IntegerSetAssumption /\ I!Init => SetInv
<1> SUFFICES ASSUME I!IntegerSetAssumption, I!Init PROVE SetInv
  OBVIOUS
<1>1. SIZE \in Nat \ {0} /\ Inputs \subseteq Nat /\ MaxInputs \in Nat
  BY DEF I!IntegerSetAssumption
<1>2. argv \in Seq(Inputs) /\ Len(argv) \in 0..MaxInputs
  <2>1. PICK n \in 0..MaxInputs : argv \in [1..n -> Inputs]
    BY DEF I!Init
  <2> QED BY <1>1, <2>1
<1>3. /\ created = 0 /\ place = "create" /\ stack = <<>> /\ ~used
      /\ rc = [n \in I!Integer |-> 0] /\ set = [h \in 0 .. SIZE - 1 |-> 0]
      /\ shown = [sets |-> <<>>, popped |-> <<>>]
  BY DEF I!Init, I!NULL
<1>4. SetTypes
  BY <1>2, <1>3, EmptySeq DEF SetTypes, Making, Emptying
<1>5. SlotsRight
  BY <1>3 DEF SlotsRight, I!NULL, Offered
<1>6. I!InSet = {}
  BY <1>3 DEF I!InSet, I!Integer
<1>7. StackRight(0) /\ CountsRight(0) /\ PoppedRight(0)
  <2>1. StackRight(0)
    <3>1. Stacked(0) = <<>>
      BY StackedMore
    <3> QED BY <1>3, <3>1 DEF StackRight
  <2>2. CountsRight(0)
    BY <1>3, <1>6 DEF CountsRight, One, Making, I!Integer
  <2>3. PoppedRight(0)
    BY <1>2, <1>3, PoppedMore DEF PoppedRight, Emptying
  <2> QED BY <2>1, <2>2, <2>3
<1> QED BY <1>3, <1>4, <1>5, <1>7 DEF SetInv

-----------------------------------------------------------------------------
(* The steps.                                                               *)

\* One of the references of CountsRight is enough for the integer to be there.
LEMMA Counted ==
  ASSUME NEW m \in Nat, CountsRight(m), NEW n \in I!Integer,
         (place \in Making /\ n = created) \/ n \in I!InSet \/ n <= m
  PROVE  rc[n] # 0
BY DEF CountsRight, One

LEMMA StepCreate ==
  ASSUME I!IntegerSetAssumption, SetInv, I!integer_create
  PROVE  SetInv'
<1>1. PICK m \in Nat : StackRight(m) /\ CountsRight(m) /\ PoppedRight(m)
  BY DEF SetInv
<1>2. SetTypes /\ SlotsRight /\ ~used
  BY DEF SetInv
<1>3. /\ place = "create" /\ place' = "add" /\ created < Len(argv) /\ created' = created + 1
      /\ rc' = [rc EXCEPT ![created + 1] = 1]
      /\ argv' = argv /\ set' = set /\ stack' = stack /\ shown' = shown /\ used' = used
  BY DEF I!integer_create
<1>4. /\ argv \in Seq(Inputs) /\ Len(argv) \in 0..MaxInputs /\ created \in 0..Len(argv)
      /\ rc \in [I!Integer -> Int] /\ MaxInputs \in Nat
  BY <1>2 DEF SetTypes, I!IntegerSetAssumption
<1>5. created + 1 \in I!Integer /\ created + 1 \in 0..Len(argv) /\ created \in Nat
  BY <1>3, <1>4 DEF I!Integer
<1>6. SetTypes'
  <2>1. rc' \in [I!Integer -> Int]
    BY <1>3, <1>4, <1>5
  <2>2. Answer' = Answer
    BY <1>3 DEF Answer, I!FirstOfItsSlot
  <2> QED BY <1>2, <1>3, <1>5, <2>1, <2>2 DEF SetTypes, Making, Emptying
<1>7. Offered' = Offered /\ Firsts' = Firsts /\ I!InSet' = I!InSet
  BY <1>3, <1>5 DEF Offered, Firsts, I!FirstOfItsSlot, I!InSet
<1>8. SlotsRight'
  BY <1>2, <1>3, <1>7 DEF SlotsRight
<1>9. m = created
  BY <1>1, <1>3 DEF StackRight
<1>10. StackRight(m)'
  BY <1>1, <1>3, <1>5, <1>9 DEF StackRight
<1>11. CountsRight(m)'
  <2>1. I!InSet = Firsts /\ Firsts \subseteq 1..created
    BY <1>2, <1>3, InSetRight DEF Firsts, Offered
  <2>2. ASSUME NEW n \in I!Integer
        PROVE  rc'[n] = One(n = created + 1) + One(n \in I!InSet) + One(n <= m)
    <3>1. rc[n] = One(FALSE) + One(n \in I!InSet) + One(n <= m)
      BY <1>1, <1>3 DEF CountsRight, Making
    <3>2. CASE n = created + 1
      <4>1. n \notin I!InSet /\ ~(n <= m)
        BY <1>5, <1>9, <2>1, <3>2
      <4> QED BY <1>3, <1>4, <1>5, <3>2, <4>1 DEF One
    <3>3. CASE n # created + 1
      BY <1>3, <1>4, <3>1, <3>3 DEF One
    <3> QED BY <3>2, <3>3
  <2> QED BY <1>3, <1>7, <2>2 DEF CountsRight, Making
<1>12. PoppedRight(m)'
  BY <1>1, <1>3 DEF PoppedRight, Popped, Emptying
<1> QED BY <1>2, <1>3, <1>6, <1>8, <1>10, <1>11, <1>12 DEF SetInv

LEMMA StepAdd ==
  ASSUME I!IntegerSetAssumption, SetInv, I!set_add
  PROVE  SetInv'
<1> DEFINE h == I!hash(argv[created])
<1>1. PICK m \in Nat : StackRight(m) /\ CountsRight(m) /\ PoppedRight(m)
  BY DEF SetInv
<1>2. SetTypes /\ SlotsRight /\ ~used
  BY DEF SetInv
<1>3. /\ place = "add" /\ place' = "push"
      /\ IF set[h] = I!NULL THEN set' = [set EXCEPT ![h] = created] /\ I!Keeps(created)
                          ELSE UNCHANGED <<set, rc, used>>
      /\ argv' = argv /\ stack' = stack /\ created' = created /\ shown' = shown
  BY DEF I!set_add
<1>4. /\ argv \in Seq(Inputs) /\ Len(argv) \in 0..MaxInputs /\ created \in 1..Len(argv)
      /\ rc \in [I!Integer -> Int] /\ MaxInputs \in Nat /\ set \in [0 .. SIZE - 1 -> Nat]
      /\ SIZE \in Nat
  BY <1>2, <1>3 DEF SetTypes, I!IntegerSetAssumption, Making
<1>5. /\ I!InSet = Firsts /\ Firsts \subseteq I!Integer /\ created \in I!Integer /\ h \in 0 .. SIZE - 1
      /\ Offered = created - 1 /\ Offered' = created /\ created \in Nat \ {0}
  BY <1>2, <1>3, <1>4, InSetRight DEF Offered, I!Integer
<1>6. /\ \A g \in 0 .. SIZE - 1 :
           /\ set[g] # I!NULL => set[g] \in Firsts /\ I!hash(argv[set[g]]) = g
           /\ \A n \in 1 .. created - 1 : I!hash(argv[n]) = g => set[g] # I!NULL
  BY <1>2, <1>3, <1>5 DEF SlotsRight
<1>7. \A n : I!FirstOfItsSlot(n)' <=> I!FirstOfItsSlot(n)
  BY <1>3 DEF I!FirstOfItsSlot
<1>8. Firsts' = Firsts \cup (IF I!FirstOfItsSlot(created) THEN {created} ELSE {})
  <2>1. Firsts' = {n \in 1..created : I!FirstOfItsSlot(n)}
    BY <1>5, <1>7 DEF Firsts
  <2>2. Firsts = {n \in 1 .. created - 1 : I!FirstOfItsSlot(n)}
    BY <1>5 DEF Firsts
  <2>3. \A n : n \in 1..created <=> n \in 1 .. created - 1 \/ n = created
    BY <1>5
  <2> QED BY <2>1, <2>2, <2>3
<1>9. I!FirstOfItsSlot(created) <=> set[h] = I!NULL
  <2> HIDE DEF h
  <2>1. ASSUME set[h] = I!NULL PROVE I!FirstOfItsSlot(created)
    BY <1>5, <1>6, <2>1 DEF I!FirstOfItsSlot, h
  <2>2. ASSUME set[h] # I!NULL PROVE ~I!FirstOfItsSlot(created)
    <3> DEFINE j == set[h]
    <3>1. j \in Firsts /\ I!hash(argv[j]) = h
      BY <1>5, <1>6, <2>2
    <3>2. j \in 1 .. created - 1
      BY <1>5, <3>1 DEF Firsts
    <3> HIDE DEF j
    <3> QED BY <3>1, <3>2 DEF I!FirstOfItsSlot, h
  <2> QED BY <2>1, <2>2
<1>10. CASE set[h] = I!NULL
  <2> HIDE DEF h
  <2>1. /\ set' = [set EXCEPT ![h] = created] /\ rc' = [rc EXCEPT ![created] = @ + 1]
        /\ used' = (used \/ rc[created] = 0)
    BY <1>3, <1>10 DEF I!Keeps
  <2>2. ~used'
    BY <1>1, <1>2, <1>3, <1>5, <2>1, Counted DEF Making
  <2>3. SetTypes'
    <3>1. rc' \in [I!Integer -> Int]
      BY <1>4, <1>5, <2>1
    <3>2. set' \in [0 .. SIZE - 1 -> Nat]
      BY <1>4, <1>5, <2>1
    <3>3. Answer' = Answer
      BY <1>3, <1>7 DEF Answer
    <3> QED BY <1>2, <1>3, <3>1, <3>2, <3>3 DEF SetTypes, Making, Emptying
  <2>4. Firsts' = Firsts \cup {created} /\ created \notin Firsts
    BY <1>5, <1>8, <1>9, <1>10 DEF Firsts
  <2>5. SlotsRight'
    <3>1. ASSUME NEW g \in 0 .. SIZE - 1
          PROVE  /\ set'[g] # I!NULL => set'[g] \in Firsts' /\ I!hash(argv[set'[g]]) = g
                 /\ \A n \in 1..created : I!hash(argv[n]) = g => set'[g] # I!NULL
      <4>1. CASE g = h
        <5>1. set'[g] = created
          BY <1>4, <1>5, <2>1, <4>1
        <5> QED BY <1>5, <2>4, <4>1, <5>1 DEF h, I!NULL
      <4>2. CASE g # h
        <5>1. set'[g] = set[g]
          BY <1>4, <2>1, <4>2
        <5>2. \A n \in 1..created : I!hash(argv[n]) = g => n \in 1 .. created - 1
          BY <1>5, <4>2 DEF h
        <5> QED BY <1>6, <2>4, <5>1, <5>2
      <4> QED BY <4>1, <4>2
    <3> QED BY <1>3, <1>5, <3>1 DEF SlotsRight, I!hash
  <2>6. I!InSet' = Firsts'
    <3>1. (I!IntegerSetAssumption /\ SetTypes /\ SlotsRight => I!InSet = IF place = "end" THEN {} ELSE Firsts)'
      BY InSetRight, PTL
    <3> QED BY <1>3, <2>3, <2>5, <3>1 DEF I!IntegerSetAssumption
  <2>7. StackRight(m)'
    BY <1>1, <1>3 DEF StackRight
  <2>8. CountsRight(m)'
    <3>1. ASSUME NEW n \in I!Integer
          PROVE  rc'[n] = One(n = created) + One(n \in Firsts') + One(n <= m)
      <4>1. rc[n] = One(n = created) + One(n \in Firsts) + One(n <= m)
        BY <1>1, <1>3, <1>5 DEF CountsRight, Making
      <4>2. CASE n = created
        BY <1>4, <2>1, <2>4, <4>1, <4>2 DEF One
      <4>3. CASE n # created
        BY <1>4, <2>1, <2>4, <4>1, <4>3
      <4> QED BY <4>2, <4>3
    <3> QED BY <1>3, <2>6, <3>1 DEF CountsRight, Making
  <2>9. PoppedRight(m)'
    BY <1>1, <1>3 DEF PoppedRight, Popped, Emptying
  <2> QED BY <2>2, <2>3, <2>5, <2>7, <2>8, <2>9 DEF SetInv
<1>11. CASE set[h] # I!NULL
  <2> HIDE DEF h
  <2>1. set' = set /\ rc' = rc /\ used' = used
    BY <1>3, <1>11
  <2>2. SetTypes'
    <3>1. Answer' = Answer
      BY <1>3, <1>7 DEF Answer
    <3> QED BY <1>2, <1>3, <2>1, <3>1 DEF SetTypes, Making, Emptying
  <2>3. Firsts' = Firsts /\ I!InSet' = I!InSet
    BY <1>8, <1>9, <1>11, <2>1 DEF I!InSet
  <2>4. SlotsRight'
    <3>1. ASSUME NEW g \in 0 .. SIZE - 1, NEW n \in 1..created, I!hash(argv[n]) = g
          PROVE  set[g] # I!NULL
      <4>1. CASE n = created
        BY <1>11, <3>1, <4>1 DEF h
      <4>2. CASE n # created
        <5>1. n \in 1 .. created - 1
          BY <1>5, <4>2
        <5> QED BY <1>6, <3>1, <5>1
      <4> QED BY <4>1, <4>2
    <3> QED BY <1>3, <1>5, <1>6, <2>1, <2>3, <3>1 DEF SlotsRight, I!hash
  <2>5. StackRight(m)' /\ CountsRight(m)' /\ PoppedRight(m)'
    BY <1>1, <1>3, <2>1, <2>3 DEF StackRight, CountsRight, PoppedRight, Popped, Making, Emptying
  <2> QED BY <1>2, <2>1, <2>2, <2>4, <2>5 DEF SetInv
<1> QED BY <1>10, <1>11

LEMMA StepPush ==
  ASSUME I!IntegerSetAssumption, SetInv, I!stack_push
  PROVE  SetInv'
<1>1. PICK m \in Nat : StackRight(m) /\ CountsRight(m) /\ PoppedRight(m)
  BY DEF SetInv
<1>2. SetTypes /\ SlotsRight /\ ~used
  BY DEF SetInv
<1>3. /\ place = "push" /\ place' = "free" /\ stack' = <<created>> \o stack
      /\ rc' = [rc EXCEPT ![created] = @ + 1] /\ used' = (used \/ rc[created] = 0)
      /\ argv' = argv /\ set' = set /\ created' = created /\ shown' = shown
  BY DEF I!stack_push, I!Keeps
<1>4. /\ created \in 1..Len(argv) /\ Len(argv) \in 0..MaxInputs /\ MaxInputs \in Nat
      /\ rc \in [I!Integer -> Int] /\ created \in I!Integer
  BY <1>2, <1>3 DEF SetTypes, I!IntegerSetAssumption, Making, I!Integer
<1>5. SetTypes'
  <2>1. rc' \in [I!Integer -> Int]
    BY <1>3, <1>4
  <2>2. Answer' = Answer
    BY <1>3 DEF Answer, I!FirstOfItsSlot
  <2> QED BY <1>2, <1>3, <2>1, <2>2 DEF SetTypes, Making, Emptying
<1>6. Firsts' = Firsts /\ I!InSet' = I!InSet /\ Offered' = Offered
  BY <1>3 DEF Offered, Firsts, I!FirstOfItsSlot, I!InSet
<1>7. SlotsRight' /\ ~used'
  <2>1. rc[created] # 0
    BY <1>1, <1>3, <1>4, Counted DEF Making
  <2> QED BY <1>2, <1>3, <1>6, <2>1 DEF SlotsRight
<1>8. created = m + 1
  BY <1>1, <1>3, <1>4 DEF StackRight
<1>9. StackRight(m + 1)'
  <2>1. stack' = Stacked(m + 1)
    BY <1>1, <1>3, <1>8, StackedMore DEF StackRight
  <2> QED BY <1>3, <1>4, <1>8, <2>1 DEF StackRight
<1>10. CountsRight(m + 1)'
  <2>1. ASSUME NEW n \in I!Integer
        PROVE  rc'[n] = One(n = created) + One(n \in I!InSet) + One(n <= m + 1)
    <3>1. rc[n] = One(n = created) + One(n \in I!InSet) + One(n <= m)
      BY <1>1, <1>3 DEF CountsRight, Making
    <3>2. CASE n = created
      BY <1>3, <1>4, <1>8, <3>1, <3>2 DEF One
    <3>3. CASE n # created
      <4>1. n <= m + 1 <=> n <= m
        BY <1>8, <3>3 DEF I!Integer
      <4> QED BY <1>3, <1>4, <3>1, <3>3, <4>1
    <3> QED BY <3>2, <3>3
  <2> QED BY <1>3, <1>6, <2>1 DEF CountsRight, Making
<1>11. PoppedRight(m + 1)'
  BY <1>1, <1>3 DEF PoppedRight, Popped, Emptying
<1> QED BY <1>5, <1>7, <1>9, <1>10, <1>11 DEF SetInv

LEMMA StepFree ==
  ASSUME I!IntegerSetAssumption, SetInv, I!free_ref
  PROVE  SetInv'
<1>1. PICK m \in Nat : StackRight(m) /\ CountsRight(m) /\ PoppedRight(m)
  BY DEF SetInv
<1>2. SetTypes /\ SlotsRight /\ ~used
  BY DEF SetInv
<1>3. /\ place = "free" /\ place' = "create"
      /\ rc' = [rc EXCEPT ![created] = @ - 1] /\ used' = (used \/ rc[created] = 0)
      /\ argv' = argv /\ set' = set /\ stack' = stack /\ created' = created /\ shown' = shown
  BY DEF I!free_ref, I!Frees
<1>4. /\ created \in 1..Len(argv) /\ Len(argv) \in 0..MaxInputs /\ MaxInputs \in Nat
      /\ rc \in [I!Integer -> Int] /\ created \in I!Integer
  BY <1>2, <1>3 DEF SetTypes, I!IntegerSetAssumption, Making, I!Integer
<1>5. SetTypes'
  <2>1. rc' \in [I!Integer -> Int]
    BY <1>3, <1>4
  <2>2. Answer' = Answer
    BY <1>3 DEF Answer, I!FirstOfItsSlot
  <2> QED BY <1>2, <1>3, <2>1, <2>2 DEF SetTypes, Making, Emptying
<1>6. Firsts' = Firsts /\ I!InSet' = I!InSet /\ Offered' = Offered
  BY <1>3 DEF Offered, Firsts, I!FirstOfItsSlot, I!InSet
<1>7. SlotsRight' /\ ~used'
  <2>1. rc[created] # 0
    BY <1>1, <1>3, <1>4, Counted DEF Making
  <2> QED BY <1>2, <1>3, <1>6, <2>1 DEF SlotsRight
<1>8. StackRight(m)' /\ PoppedRight(m)'
  BY <1>1, <1>3 DEF StackRight, PoppedRight, Popped, Emptying
<1>9. CountsRight(m)'
  <2>1. ASSUME NEW n \in I!Integer
        PROVE  rc'[n] = One(FALSE) + One(n \in I!InSet) + One(n <= m)
    <3>1. rc[n] = One(n = created) + One(n \in I!InSet) + One(n <= m)
      BY <1>1, <1>3 DEF CountsRight, Making
    <3>2. CASE n = created
      BY <1>3, <1>4, <3>1, <3>2 DEF One
    <3>3. CASE n # created
      BY <1>3, <1>4, <3>1, <3>3 DEF One
    <3> QED BY <3>2, <3>3
  <2> QED BY <1>3, <1>6, <2>1 DEF CountsRight, Making
<1> QED BY <1>5, <1>7, <1>8, <1>9 DEF SetInv

LEMMA StepPrint ==
  ASSUME I!IntegerSetAssumption, SetInv, I!set_print("create", "pop") \/ I!set_print("pop", "empty")
  PROVE  SetInv'
<1>1. PICK m \in Nat : StackRight(m) /\ CountsRight(m) /\ PoppedRight(m)
  BY DEF SetInv
<1>2. SetTypes /\ SlotsRight /\ ~used
  BY DEF SetInv
<1>3. /\ \/ place = "create" /\ place' = "pop" /\ created = Len(argv)
         \/ place = "pop" /\ place' = "empty" /\ stack = <<>>
      /\ shown' = [shown EXCEPT !.sets = Append(@, {argv[n] : n \in I!InSet})]
      /\ used' = (used \/ \E n \in I!InSet : rc[n] = 0)
      /\ argv' = argv /\ rc' = rc /\ set' = set /\ stack' = stack /\ created' = created
  BY DEF I!set_print
<1>4. created = Len(argv) /\ Len(argv) \in Nat
  BY <1>2, <1>3, LenProperties DEF SetTypes, Emptying
<1>5. I!InSet = Firsts /\ Firsts \subseteq I!Integer /\ DOMAIN argv = 1..Len(argv)
  BY <1>2, <1>3, InSetRight
<1>6. {argv[n] : n \in I!InSet} = Answer
  BY <1>3, <1>4, <1>5 DEF Firsts, Offered, Answer
<1>7. /\ shown' \in [sets : Seq({Answer}), popped : Seq(Inputs)]
      /\ shown'.popped = shown.popped
  <2>1. shown \in [sets : Seq({Answer}), popped : Seq(Inputs)]
    BY <1>2 DEF SetTypes
  <2>2. shown' = [shown EXCEPT !.sets = Append(shown.sets, Answer)]
    BY <1>3, <1>6
  <2>3. Append(shown.sets, Answer) \in Seq({Answer})
    BY <2>1, AppendProperties
  <2> QED BY <2>1, <2>2, <2>3
<1>8. Firsts' = Firsts /\ I!InSet' = I!InSet /\ Offered' = Offered
  BY <1>3 DEF Offered, Firsts, I!FirstOfItsSlot, I!InSet
<1>9. SetTypes'
  <2>1. Answer' = Answer
    BY <1>3 DEF Answer, I!FirstOfItsSlot
  <2> QED BY <1>2, <1>3, <1>4, <1>7, <2>1 DEF SetTypes, Making, Emptying
<1>10. SlotsRight' /\ ~used'
  <2>1. \A n \in I!InSet : rc[n] # 0
    BY <1>1, <1>5, Counted
  <2> QED BY <1>2, <1>3, <1>8, <2>1 DEF SlotsRight
<1>11. m \in 0..created /\ (place' = "empty" => m = 0)
  BY <1>1, <1>3, StackedMore DEF StackRight
<1>12. StackRight(m)'
  BY <1>1, <1>3, <1>11 DEF StackRight
<1>13. CountsRight(m)'
  BY <1>1, <1>3, <1>8 DEF CountsRight, Making
<1>14. PoppedRight(m)'
  <2>1. place = "create" => Len(argv) - m = 0
    BY <1>1, <1>4 DEF StackRight
  <2>2. \A k : Popped(k)' = Popped(k)
    BY <1>3 DEF Popped
  <2>3. place = "create" => PoppedRight(m)'
    BY <1>1, <1>3, <1>7, <2>1, <2>2 DEF PoppedRight, Emptying
  <2>4. place = "pop" => PoppedRight(m)'
    BY <1>1, <1>3, <1>7, <2>2 DEF PoppedRight, Emptying
  <2> QED BY <1>3, <2>3, <2>4
<1> QED BY <1>9, <1>10, <1>12, <1>13, <1>14 DEF SetInv

LEMMA StepPop ==
  ASSUME I!IntegerSetAssumption, SetInv, I!stack_pop_and_print
  PROVE  SetInv'
<1>1. PICK m \in Nat : StackRight(m) /\ CountsRight(m) /\ PoppedRight(m)
  BY DEF SetInv
<1>2. SetTypes /\ SlotsRight /\ ~used
  BY DEF SetInv
<1> DEFINE e == Head(stack)
<1>3. /\ place = "pop" /\ place' = "pop" /\ stack # <<>> /\ stack' = Tail(stack)
      /\ shown' = [shown EXCEPT !.popped = Append(@, argv[e])]
      /\ rc' = [rc EXCEPT ![e] = @ - 1] /\ used' = (used \/ rc[e] = 0)
      /\ argv' = argv /\ set' = set /\ created' = created
  BY DEF I!stack_pop_and_print, I!Frees
<1>4. /\ created = Len(argv) /\ Len(argv) \in 0..MaxInputs /\ MaxInputs \in Nat
      /\ rc \in [I!Integer -> Int] /\ argv \in Seq(Inputs) /\ Len(argv) \in Nat
  BY <1>2, <1>3 DEF SetTypes, I!IntegerSetAssumption, Emptying
<1>5. /\ m \in 1..Len(argv) /\ m \in Nat \ {0} /\ m \in I!Integer
      /\ e = m /\ stack' = Stacked(m - 1)
  <2>1. m # 0 /\ m \in 0..created /\ stack = Stacked(m)
    BY <1>1, <1>3, StackedMore DEF StackRight
  <2>2. m \in Nat \ {0}
    BY <2>1
  <2> QED BY <1>3, <1>4, <2>1, <2>2, StackedLess DEF I!Integer
<1> HIDE DEF e
<1>6. /\ shown' \in [sets : Seq({Answer}), popped : Seq(Inputs)]
      /\ shown'.popped = Popped(Len(argv) - (m - 1))
  <2> DEFINE k == Len(argv) - m
  <2>1. shown \in [sets : Seq({Answer}), popped : Seq(Inputs)] /\ shown.popped = Popped(k)
    BY <1>1, <1>2, <1>3 DEF SetTypes, PoppedRight, Emptying
  <2>2. k \in 0 .. Len(argv) - 1 /\ Len(argv) - k = m /\ k + 1 = Len(argv) - (m - 1)
        /\ k + 1 \in 0..Len(argv)
    BY <1>4, <1>5
  <2>3. Append(Popped(k), argv[Len(argv) - k]) = Popped(k + 1) /\ Popped(k + 1) \in Seq(Inputs)
    <3> HIDE DEF k
    <3> QED BY <1>4, <2>2, PoppedMore
  <2>4. shown' = [shown EXCEPT !.popped = Popped(k + 1)]
    <3> HIDE DEF k
    <3> QED BY <1>3, <1>5, <2>1, <2>2, <2>3
  <2> HIDE DEF k
  <2> QED BY <2>1, <2>2, <2>3, <2>4
<1>7. Firsts' = Firsts /\ I!InSet' = I!InSet /\ Offered' = Offered
  BY <1>3 DEF Offered, Firsts, I!FirstOfItsSlot, I!InSet
<1>8. SetTypes'
  <2>1. rc' \in [I!Integer -> Int]
    BY <1>3, <1>4, <1>5
  <2>2. Answer' = Answer
    BY <1>3 DEF Answer, I!FirstOfItsSlot
  <2> QED BY <1>2, <1>3, <1>6, <2>1, <2>2 DEF SetTypes, Making, Emptying
<1>9. SlotsRight' /\ ~used'
  <2>1. rc[e] # 0
    BY <1>1, <1>5, Counted
  <2> QED BY <1>2, <1>3, <1>7, <2>1 DEF SlotsRight
<1>10. StackRight(m - 1)' /\ m - 1 \in Nat
  BY <1>3, <1>4, <1>5 DEF StackRight
<1>11. CountsRight(m - 1)'
  <2>1. ASSUME NEW n \in I!Integer
        PROVE  rc'[n] = One(FALSE) + One(n \in I!InSet) + One(n <= m - 1)
    <3>1. rc[n] = One(FALSE) + One(n \in I!InSet) + One(n <= m)
      BY <1>1, <1>3 DEF CountsRight, Making
    <3>2. CASE n = m
      BY <1>3, <1>4, <1>5, <3>1, <3>2 DEF One
    <3>3. CASE n # m
      <4>1. n <= m - 1 <=> n <= m
        BY <3>3 DEF I!Integer
      <4>2. rc'[n] = rc[n]
        BY <1>3, <1>4, <1>5, <3>3
      <4> QED BY <3>1, <4>1, <4>2 DEF One
    <3> QED BY <3>2, <3>3
  <2> QED BY <1>3, <1>7, <2>1 DEF CountsRight, Making
<1>12. PoppedRight(m - 1)'
  BY <1>3, <1>6 DEF PoppedRight, Popped, Emptying
<1> QED BY <1>8, <1>9, <1>10, <1>11, <1>12 DEF SetInv

LEMMA StepEmpty ==
  ASSUME I!IntegerSetAssumption, SetInv, I!set_empty
  PROVE  SetInv'
<1>1. PICK m \in Nat : StackRight(m) /\ CountsRight(m) /\ PoppedRight(m)
  BY DEF SetInv
<1>2. SetTypes /\ SlotsRight /\ ~used
  BY DEF SetInv
<1>3. /\ place = "empty" /\ place' = "end"
      /\ rc' = [n \in I!Integer |-> IF n \in I!InSet THEN rc[n] - 1 ELSE rc[n]]
      /\ used' = (used \/ \E n \in I!InSet : rc[n] = 0) /\ set' = [h \in DOMAIN set |-> I!NULL]
      /\ argv' = argv /\ stack' = stack /\ created' = created /\ shown' = shown
  BY DEF I!set_empty
<1>4. I!InSet \subseteq I!Integer /\ m = 0 /\ \A n \in I!Integer : rc[n] = One(n \in I!InSet)
  <2>1. m = 0
    BY <1>1, <1>3 DEF StackRight
  <2> QED BY <1>1, <1>3, <2>1 DEF CountsRight, Making, One, I!Integer, I!InSet
<1>5. set' = [h \in 0 .. SIZE - 1 |-> 0] /\ rc \in [I!Integer -> Int]
  BY <1>2, <1>3 DEF SetTypes, I!NULL
<1>6. SetTypes'
  <2>1. rc' \in [I!Integer -> Int]
    BY <1>3, <1>5
  <2>2. Answer' = Answer
    BY <1>3 DEF Answer, I!FirstOfItsSlot
  <2> QED BY <1>2, <1>3, <1>5, <2>1, <2>2 DEF SetTypes, Making, Emptying
<1>7. SlotsRight' /\ ~used'
  <2>1. \A n \in I!InSet : rc[n] # 0
    BY <1>4 DEF One
  <2> QED BY <1>2, <1>3, <1>5, <2>1 DEF SlotsRight, I!NULL
<1>8. I!InSet' = {}
  BY <1>5 DEF I!InSet, I!Integer
<1>9. StackRight(m)' /\ PoppedRight(m)'
  BY <1>1, <1>3, <1>4 DEF StackRight, PoppedRight, Popped, Emptying
<1>10. CountsRight(m)'
  <2>1. ASSUME NEW n \in I!Integer PROVE rc'[n] = 0 /\ ~(n <= m)
    BY <1>3, <1>4 DEF One, I!Integer
  <2> QED BY <1>3, <1>8, <2>1 DEF CountsRight, Making, One
<1> QED BY <1>6, <1>7, <1>9, <1>10 DEF SetInv

\* Of the invariant: what the program prints and leaves.
LEMMA SetShows ==
  ASSUME I!IntegerSetAssumption, SetInv
  PROVE  SetOutlivesStack
<1>1. PICK m \in Nat : StackRight(m) /\ CountsRight(m) /\ PoppedRight(m)
  BY DEF SetInv
<1>2. SetTypes /\ SlotsRight /\ ~used
  BY DEF SetInv
<1>3. /\ argv \in Seq(Inputs) /\ Len(argv) \in Nat /\ created \in 0..Len(argv)
      /\ shown.sets \in Seq({Answer}) /\ I!Integer \subseteq Nat \ {0}
      /\ place \in Emptying => created = Len(argv)
  BY <1>2, LenProperties DEF SetTypes, I!Integer
<1>4. \A k \in DOMAIN shown.sets : shown.sets[k] = Answer
  <2>1. DOMAIN shown.sets = 1..Len(shown.sets)
    BY <1>3, LenProperties
  <2> QED BY <1>3, <2>1, ElementOfSeq
<1>5. PICK k \in 0..Len(argv) : shown.popped = Popped(k) /\ (place = "end" => k = Len(argv))
  <2> DEFINE k == IF place \in Emptying THEN Len(argv) - m ELSE 0
  <2>1. shown.popped = Popped(k) /\ m \in 0..created /\ (place = "end" => m = 0)
    BY <1>1 DEF PoppedRight, StackRight
  <2>2. k \in 0..Len(argv) /\ (place = "end" => k = Len(argv))
    BY <1>3, <2>1 DEF Emptying
  <2> QED BY <2>1, <2>2
<1>6. IsPrefix(Popped(k), Popped(Len(argv)))
  <2> DEFINE p == Popped(k)
             r == Popped(Len(argv))
  <2>1. /\ p \in Seq(Inputs) /\ Len(p) = k /\ r \in Seq(Inputs) /\ Len(r) = Len(argv)
        /\ k \in Nat /\ k <= Len(argv) /\ Len(argv) \in 0..Len(argv)
    BY <1>3, PoppedMore
  <2>2. \A n \in 1..k : p[n] = r[n]
    BY <2>1 DEF Popped
  <2> HIDE DEF p, r
  <2>3. \A n \in 1..k : p[n] \in Inputs /\ r[n] \in Inputs
    BY <2>1, <2>2, ElementOfSeq
  <2>4. /\ SubSeq(p, 1, k) \in Seq(Inputs) /\ SubSeq(r, 1, k) \in Seq(Inputs)
        /\ Len(SubSeq(p, 1, k)) = k /\ Len(SubSeq(r, 1, k)) = k
        /\ \A n \in 1..k : SubSeq(p, 1, k)[n] = p[n] /\ SubSeq(r, 1, k)[n] = r[n]
    <3>1. 1 \in Int /\ k \in Int /\ (IF 1 <= k THEN k - 1 + 1 ELSE 0) = k /\ k - 1 + 1 = k
          /\ \A n \in 1..k : 1 + n - 1 = n
      BY <2>1
    <3>2. /\ SubSeq(p, 1, k) \in Seq(Inputs) /\ Len(SubSeq(p, 1, k)) = k
          /\ \A n \in 1..k : SubSeq(p, 1, k)[n] = p[1 + n - 1]
      BY <2>3, <3>1, SubSeqProperties
    <3>3. /\ SubSeq(r, 1, k) \in Seq(Inputs) /\ Len(SubSeq(r, 1, k)) = k
          /\ \A n \in 1..k : SubSeq(r, 1, k)[n] = r[1 + n - 1]
      BY <2>3, <3>1, SubSeqProperties
    <3> QED BY <3>1, <3>2, <3>3
  <2>5. SubSeq(p, 1, k) = SubSeq(r, 1, k)
    <3>1. \A n \in 1..k : SubSeq(p, 1, k)[n] = SubSeq(r, 1, k)[n]
      BY <2>2, <2>4
    <3> QED BY <2>4, <3>1, SeqEqual
  <2>6. IsPrefix(p, r)
    BY <2>1, <2>5 DEF IsPrefix
  <2> QED BY <2>6 DEF p, r
<1>7. Popped(Len(argv)) = Reverse(argv)
  BY <1>3, PoppedMore
<1>8. place = "end" => \A n \in I!Integer : rc[n] = 0
  <2> SUFFICES ASSUME place = "end", NEW n \in I!Integer PROVE rc[n] = 0
    OBVIOUS
  <2>1. I!InSet = {} /\ m = 0
    BY <1>1, <1>2, InSetRight DEF StackRight
  <2>2. ~(n <= m)
    BY <1>3, <2>1
  <2> QED BY <1>1, <2>1, <2>2 DEF CountsRight, Making, One
<1>9. I!Reverse(argv) = Reverse(argv)
  BY DEF I!Reverse, Reverse
<1>10. I!IsPrefix(shown.popped, I!Reverse(argv))
  <2>1. IsPrefix(shown.popped, Reverse(argv))
    BY <1>5, <1>6, <1>7
  <2> DEFINE p == shown.popped
             r == Reverse(argv)
  <2>2. I!IsPrefix(p, r)
    <3> HIDE DEF p, r
    <3>1. IsPrefix(p, r)
      BY <2>1 DEF p, r
    <3> QED BY <3>1 DEF I!IsPrefix, IsPrefix
  <2> QED BY <1>9, <2>2
<1>11. place = "end" => shown.popped = I!Reverse(argv)
  BY <1>5, <1>7, <1>9
<1> QED BY <1>2, <1>4, <1>8, <1>10, <1>11 DEF SetOutlivesStack, I!SetOutlivesStack, Answer

\* set.c, stack.c, refcount.c: for a table of any size and any arguments, the set prints the
\* first argument of each slot before and after the stack has given back all arguments, last
\* first; no freed integer is used, and none is left when main returns.
THEOREM SetOutlives == I!Spec => []SetOutlivesStack
<1> USE SetsAssumption
<1>1. I!Init => SetInv
  BY SetInit
<1>2. SetInv /\ [I!Next]_(I!vars) => SetInv'
  <2> SUFFICES ASSUME SetInv, [I!Next]_(I!vars) PROVE SetInv'
    OBVIOUS
  <2>1. CASE UNCHANGED I!vars
    <3>1. /\ argv' = argv /\ rc' = rc /\ set' = set /\ stack' = stack /\ created' = created
          /\ place' = place /\ shown' = shown /\ used' = used
      BY <2>1 DEF I!vars
    <3>2. Firsts' = Firsts /\ I!InSet' = I!InSet /\ Offered' = Offered /\ Answer' = Answer
      BY <3>1 DEF Offered, Firsts, I!FirstOfItsSlot, I!InSet, Answer
    <3>3. SetTypes' /\ SlotsRight'
      BY <3>1, <3>2 DEF SetInv, SetTypes, SlotsRight
    <3>4. PICK m \in Nat : StackRight(m) /\ CountsRight(m) /\ PoppedRight(m)
      BY DEF SetInv
    <3>5. StackRight(m)' /\ CountsRight(m)' /\ PoppedRight(m)'
      BY <3>1, <3>2, <3>4 DEF StackRight, CountsRight, PoppedRight, Popped
    <3> QED BY <3>1, <3>3, <3>5 DEF SetInv
  <2>2. CASE I!integer_create
    BY <2>2, StepCreate
  <2>3. CASE I!set_add
    BY <2>3, StepAdd
  <2>4. CASE I!stack_push
    BY <2>4, StepPush
  <2>5. CASE I!free_ref
    BY <2>5, StepFree
  <2>6. CASE I!set_print("create", "pop") \/ I!set_print("pop", "empty")
    BY <2>6, StepPrint
  <2>7. CASE I!stack_pop_and_print
    BY <2>7, StepPop
  <2>8. CASE I!set_empty
    BY <2>8, StepEmpty
  <2> QED BY <2>1, <2>2, <2>3, <2>4, <2>5, <2>6, <2>7, <2>8 DEF I!Next
<1>3. SetInv => SetOutlivesStack
  BY SetShows
<1> QED BY <1>1, <1>2, <1>3, PTL DEF I!Spec
================================================================================
