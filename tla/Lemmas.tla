------------------------------- MODULE Lemmas -------------------------------
(***************************************************************************)
(* What the other proofs share: what the queue operations do to the        *)
(* threads in a queue and to their order, what a change of one value does  *)
(* to a sum, and that there is a function that a fold computes.            *)
(*                                                                         *)
(* Sums are those that FoldFunction (+, 0, f) of the community modules      *)
(* computes.  It recurs over the subsets of the domain; the induction is   *)
(* by a set without counterexamples, since its rule (BySubsets) then needs *)
(* no operator for a parameter.                                            *)
(***************************************************************************)
EXTENDS ThreadQueue, Integers, FiniteSets, Functions, WellFoundedInduction,
        FiniteSetTheorems, SequenceTheorems, TLAPS

\* An empty queue holds no thread; a queue that holds none is empty.
LEMMA EmptyQueue ==
  /\ Elems(<<>>) = {} /\ Once(<<>>)
  /\ \A S : \A q \in Seq(S) : q = <<>> <=> Elems(q) = {}
<1>1. Elems(<<>>) = {} /\ Once(<<>>)
  BY DEF Elems, Once
<1>2. ASSUME NEW S, NEW q \in Seq(S), q # <<>> PROVE Elems(q) # {}
  <2>1. 1 \in DOMAIN q
    BY <1>2, EmptySeq
  <2> QED BY <2>1 DEF Elems
<1> QED BY <1>1, <1>2

\* The threads of a queue are those of its type.
LEMMA ElemsType == \A S : \A q \in Seq(S) : Elems(q) \subseteq S
BY DEF Elems

\* uthread_enqueue of a thread that is not queued adds just that thread.
LEMMA EnqueueOnce ==
  ASSUME NEW S, NEW q \in Seq(S), NEW t \in S, t \notin Elems(q), Once(q)
  PROVE  /\ Append(q, t) \in Seq(S)
         /\ Elems(Append(q, t)) = Elems(q) \cup {t}
         /\ Once(Append(q, t))
<1> DEFINE r == Append(q, t)
           n == Len(q) + 1
<1>1. /\ r \in Seq(S) /\ Len(q) \in Nat
      /\ DOMAIN q = 1..Len(q) /\ DOMAIN r = 1..n
      /\ \A i \in 1..Len(q) : r[i] = q[i]
      /\ r[n] = t
  OBVIOUS
<1>2. \A i \in DOMAIN r : i = n \/ i \in DOMAIN q
  BY <1>1
<1>3. n \in DOMAIN r /\ \A i \in DOMAIN q : i \in DOMAIN r /\ i # n
  BY <1>1
<1> HIDE DEF r, n
<1>4. Elems(r) = Elems(q) \cup {t}
  BY <1>1, <1>2, <1>3 DEF Elems
<1>5. Once(r)
  BY <1>1, <1>2, <1>3 DEF Elems, Once
<1> QED BY <1>1, <1>4, <1>5 DEF r

\* uthread_dequeue takes out the thread at the head and no other.
LEMMA DequeueOnce ==
  ASSUME NEW S, NEW q \in Seq(S), q # <<>>, Once(q)
  PROVE  /\ Head(q) \in Elems(q) /\ Head(q) \in S
         /\ Tail(q) \in Seq(S)
         /\ Elems(Tail(q)) = Elems(q) \ {Head(q)}
         /\ Once(Tail(q))
<1> DEFINE r == Tail(q)
           h == Head(q)
<1>1. /\ Len(q) \in Nat \ {0} /\ h \in S /\ r \in Seq(S)
      /\ Len(r) = Len(q) - 1
      /\ \A i \in 1..Len(r) : r[i] = q[i + 1]
  BY EmptySeq, HeadTailProperties
<1>2. /\ h = q[1] /\ 1 \in DOMAIN q
      /\ DOMAIN q = 1..Len(q) /\ DOMAIN r = 1..Len(r)
  BY <1>1
<1> HIDE DEF r, h
<1>3. \A i \in DOMAIN r : i + 1 \in DOMAIN q /\ i + 1 # 1 /\ r[i] = q[i + 1]
  BY <1>1, <1>2
<1>4. \A k \in DOMAIN q : k = 1 \/ \E i \in DOMAIN r : k = i + 1
  <2> TAKE k \in DOMAIN q
  <2>1. k = 1 \/ (k - 1 \in DOMAIN r /\ k = (k - 1) + 1)
    BY <1>1, <1>2
  <2> QED BY <2>1
<1>5. Elems(r) = Elems(q) \ {h}
  <2>1. ASSUME NEW x \in Elems(r) PROVE x \in Elems(q) \ {h}
    <3>1. PICK i \in DOMAIN r : x = r[i]
      BY DEF Elems
    <3> QED BY <3>1, <1>2, <1>3 DEF Elems, Once
  <2>2. ASSUME NEW x \in Elems(q) \ {h} PROVE x \in Elems(r)
    <3>1. PICK k \in DOMAIN q : x = q[k]
      BY DEF Elems
    <3>2. PICK i \in DOMAIN r : k = i + 1
      BY <3>1, <1>2, <1>4
    <3> QED BY <3>1, <3>2, <1>3 DEF Elems
  <2> QED BY <2>1, <2>2
<1>6. Once(r)
  <2> SUFFICES ASSUME NEW i \in DOMAIN r, NEW j \in DOMAIN r, r[i] = r[j]
               PROVE  i = j
    BY DEF Once
  <2>1. i + 1 = j + 1
    BY <1>3 DEF Once
  <2> QED BY <2>1, <1>2
<1> QED BY <1>1, <1>2, <1>5, <1>6 DEF r, h, Elems

-----------------------------------------------------------------------------
(* Sums.                                                                   *)

Sum(f) == FoldFunction(+, 0, f)

\* The element of s that the fold takes first.
First(s) == CHOOSE x \in s : TRUE

\* g is what the fold computes of f, for every subset of S.
FoldsTo(g, f, S) ==
  g = [s \in SUBSET S |-> IF s = {} THEN 0 ELSE f[First(s)] + g[s \ {First(s)}]]

-----------------------------------------------------------------------------
LEMMA LeastNat ==
  ASSUME NEW T \in SUBSET Nat, T # {}
  PROVE  \E m \in T : \A k \in T : ~(k < m)
<1> DEFINE R == OpToRel(<, Nat)
<1>1. IsWellFoundedOn(R, Nat)
  BY NatLessThanWellFounded, Zenon
<1>2. \A k, m \in Nat : <<k, m>> \in R <=> k < m
  BY DEF OpToRel
<1> HIDE DEF R
<1>3. PICK m \in T : \A k \in T : ~(<<k, m>> \in R)
  BY <1>1, WFMin, Zenon
<1> QED BY <1>2, <1>3

LEMMA FirstIn == \A s : s # {} => First(s) \in s
  BY DEF First

\* Induction over the subsets of a finite set.
LEMMA BySubsets ==
  ASSUME NEW S, IsFiniteSet(S), NEW Good, {} \in Good,
         \A s \in SUBSET S : s # {} /\ s \ {First(s)} \in Good => s \in Good
  PROVE  SUBSET S \subseteq Good
<1> DEFINE Bad == {s \in SUBSET S : s \notin Good}
           T == {Cardinality(s) : s \in Bad}
<1> SUFFICES ASSUME Bad # {} PROVE FALSE
  OBVIOUS
<1>1. \A s \in SUBSET S : IsFiniteSet(s) /\ Cardinality(s) \in Nat
  BY FS_Subset, FS_CardinalityType
<1>2. T \in SUBSET Nat /\ T # {}
  BY <1>1
<1>3. PICK m \in T : \A k \in T : ~(k < m)
  <2> HIDE DEF T
  <2> QED BY <1>2, LeastNat
<1>4. PICK s \in Bad : m = Cardinality(s)
  BY <1>3
<1>5. s # {} /\ First(s) \in s
  BY <1>4, FirstIn
<1>6. s \ {First(s)} \in Bad
  BY <1>4, <1>5
<1>7. /\ Cardinality(s \ {First(s)}) \in T /\ m \in Nat
      /\ Cardinality(s \ {First(s)}) = m - 1
  BY <1>1, <1>4, <1>5, <1>6, FS_RemoveElement
<1> QED BY <1>3, <1>7

\* There is a function that does what the recursive definition says.
LEMMA FoldExists ==
  ASSUME NEW S, IsFiniteSet(S), NEW f
  PROVE  \E g : FoldsTo(g, f, S)
<1> DEFINE Body(g, s) == IF s = {} THEN 0 ELSE f[First(s)] + g[s \ {First(s)}]
           Upto(g, n) == /\ g = [s \in SUBSET S |-> g[s]]
                         /\ \A s \in SUBSET S :
                              Cardinality(s) <= n => g[s] = Body(g, s)
           T == {n \in Nat : ~\E g : Upto(g, n)}
<1>1. \A s \in SUBSET S : IsFiniteSet(s) /\ Cardinality(s) \in Nat
  BY FS_Subset, FS_CardinalityType
<1>2. T = {}
  <2> SUFFICES ASSUME T # {} PROVE FALSE
    OBVIOUS
  <2>1. PICK m \in T : \A k \in T : ~(k < m)
    <3>1. T \in SUBSET Nat
      OBVIOUS
    <3> HIDE DEF T
    <3> QED BY <3>1, LeastNat
  <2>2. CASE m = 0
    <3> DEFINE g == [s \in SUBSET S |-> 0]
    <3>1. \A s \in SUBSET S : Cardinality(s) <= 0 => s = {}
      BY <1>1, FS_EmptySet
    <3>2. Upto(g, 0)
      BY <3>1
    <3> QED BY <2>2, <3>2
  <2>3. CASE m # 0
    <3>1. m - 1 \in Nat /\ m - 1 \notin T
      <4>1. m \in Nat
        BY <2>1
      <4>2. m - 1 \in Nat
        BY <2>3, <4>1
      <4>3. m - 1 \in T => ~(m - 1 < m)
        <5> HIDE DEF T
        <5> QED BY <2>1
      <4> HIDE DEF T
      <4> QED BY <4>1, <4>2, <4>3
    <3>2. PICK g : Upto(g, m - 1)
      <4> HIDE DEF Upto
      <4> QED BY <3>1
    <3> DEFINE h == [s \in SUBSET S |-> Body(g, s)]
    <3>3. \A s \in SUBSET S : s # {} =>
            /\ s \ {First(s)} \in SUBSET S
            /\ Cardinality(s \ {First(s)}) = Cardinality(s) - 1
      BY <1>1, FirstIn, FS_RemoveElement
    <3>4. ASSUME NEW s \in SUBSET S, Cardinality(s) <= m
          PROVE  h[s] = Body(h, s)
      <4>1. CASE s = {}
        BY <4>1
      <4>2. CASE s # {}
        <5>1. s \ {First(s)} \in SUBSET S /\ Cardinality(s \ {First(s)}) <= m - 1
          BY <1>1, <3>1, <3>3, <3>4, <4>2
        <5>2. h[s \ {First(s)}] = g[s \ {First(s)}]
          BY <3>2, <5>1
        <5> QED BY <4>2, <5>2
      <4> QED BY <4>1, <4>2
    <3>5. Upto(h, m)
      BY <3>4
    <3> HIDE DEF h, Upto
    <3> QED BY <2>1, <3>5
  <2> QED BY <2>2, <2>3
<1>3. PICK g : Upto(g, Cardinality(S))
  BY <1>1, <1>2
<1>4. \A s \in SUBSET S : Cardinality(s) <= Cardinality(S)
  BY FS_Subset
<1>5. FoldsTo(g, f, S)
  BY <1>3, <1>4 DEF FoldsTo
<1> QED BY <1>5

\* Sum(f) is the value at the domain of such a function.
LEMMA SumFolds ==
  ASSUME NEW f, IsFiniteSet(DOMAIN f)
  PROVE  \E g : FoldsTo(g, f, DOMAIN f) /\ Sum(f) = g[DOMAIN f]
<1> DEFINE g == CHOOSE h : FoldsTo(h, f, DOMAIN f)
<1>1. FoldsTo(g, f, DOMAIN f)
  BY FoldExists
<1>2. Sum(f) = g[DOMAIN f]
  BY DEF Sum, FoldFunction, FoldFunctionOnSet, MapThenFoldSet, FoldsTo, First
<1> QED BY <1>1, <1>2

LEMMA FoldAt ==
  ASSUME NEW f, NEW g, NEW S, FoldsTo(g, f, S)
  PROVE  /\ g[{}] = 0
         /\ \A s \in SUBSET S : s # {} =>
              g[s] = f[First(s)] + g[s \ {First(s)}]
  BY DEF FoldsTo

LEMMA FoldType ==
  ASSUME NEW S, IsFiniteSet(S), NEW f \in [S -> Int], NEW g, FoldsTo(g, f, S)
  PROVE  \A s \in SUBSET S : g[s] \in Int
<1> DEFINE Good == {s \in SUBSET S : g[s] \in Int}
<1>1. {} \in Good
  BY FoldAt
<1>2. ASSUME NEW s \in SUBSET S, s # {}, s \ {First(s)} \in Good PROVE s \in Good
  <2>1. First(s) \in S /\ f[First(s)] \in Int
    BY <1>2, FirstIn
  <2>2. g[s] = f[First(s)] + g[s \ {First(s)}]
    BY <1>2, FoldAt
  <2>3. g[s \ {First(s)}] \in Int
    BY <1>2
  <2>4. g[s] \in Int
    BY <2>1, <2>2, <2>3
  <2> QED BY <2>4
<1> HIDE DEF Good
<1>3. SUBSET S \subseteq Good
  BY <1>1, <1>2, BySubsets
<1> QED BY <1>3 DEF Good

\* The sum of integers is an integer.
LEMMA SumType ==
  ASSUME NEW S, IsFiniteSet(S), NEW f \in [S -> Int]
  PROVE  Sum(f) \in Int
<1>1. DOMAIN f = S
  OBVIOUS
<1>2. PICK g : FoldsTo(g, f, S) /\ Sum(f) = g[S]
  BY <1>1, SumFolds
<1> QED BY <1>2, FoldType

\* Adding d to one value adds d to the sum.
LEMMA SumExcept ==
  ASSUME NEW S, IsFiniteSet(S), NEW f \in [S -> Int], NEW i \in S, NEW d \in Int
  PROVE  Sum([f EXCEPT ![i] = f[i] + d]) = Sum(f) + d
<1> DEFINE e == [f EXCEPT ![i] = f[i] + d]
<1>1. /\ e \in [S -> Int] /\ DOMAIN e = S /\ DOMAIN f = S
      /\ \A x \in S : e[x] = IF x = i THEN f[x] + d ELSE f[x]
  OBVIOUS
<1> HIDE DEF e
<1>2. PICK g : FoldsTo(g, f, S) /\ Sum(f) = g[S]
  BY <1>1, SumFolds
<1>3. PICK h : FoldsTo(h, e, S) /\ Sum(e) = h[S]
  BY <1>1, SumFolds
<1> DEFINE Good == {s \in SUBSET S : h[s] = IF i \in s THEN g[s] + d ELSE g[s]}
<1>4. {} \in Good
  BY <1>2, <1>3, FoldAt
<1>5. ASSUME NEW s \in SUBSET S, s # {}, s \ {First(s)} \in Good PROVE s \in Good
  <2> DEFINE x == First(s)
             r == s \ {x}
  <2>1. x \in s /\ x \in S /\ r \in SUBSET S
    BY <1>5, FirstIn
  <2>2. g[s] = f[x] + g[r] /\ h[s] = e[x] + h[r]
    BY <1>2, <1>3, <1>5, FoldAt
  <2>3. f[x] \in Int /\ g[r] \in Int
    BY <1>2, <2>1, FoldType
  <2>4. h[r] = IF i \in r THEN g[r] + d ELSE g[r]
    BY <1>5
  <2>5. h[s] = IF i \in s THEN g[s] + d ELSE g[s]
    <3>1. i \in r <=> i \in s /\ i # x
      OBVIOUS
    <3> HIDE DEF x, r
    <3> QED BY <1>1, <2>1, <2>2, <2>3, <2>4, <3>1
  <2> QED BY <2>5
<1> HIDE DEF Good
<1>6. SUBSET S \subseteq Good
  BY <1>4, <1>5, BySubsets
<1>7. h[S] = g[S] + d
  BY <1>6 DEF Good
<1> QED BY <1>2, <1>3, <1>7 DEF e

LEMMA SumAdd ==
  ASSUME NEW S, IsFiniteSet(S), NEW f \in [S -> Int], NEW i \in S, NEW d \in Int,
         NEW e, e = [f EXCEPT ![i] = f[i] + d]
  PROVE  Sum(e) = Sum(f) + d
  BY SumExcept, Zenon

\* The sum of a constant function.
LEMMA SumConstant ==
  ASSUME NEW S, IsFiniteSet(S), NEW c \in Int, NEW f, f = [x \in S |-> c]
  PROVE  Sum(f) = Cardinality(S) * c
<1>1. f \in [S -> Int] /\ DOMAIN f = S /\ \A x \in S : f[x] = c
  OBVIOUS
<1>2. PICK g : FoldsTo(g, f, S) /\ Sum(f) = g[S]
  BY <1>1, SumFolds
<1> DEFINE Good == {s \in SUBSET S : g[s] = Cardinality(s) * c}
<1>3. {} \in Good
  <2>1. 0 * c = 0
    OBVIOUS
  <2> QED BY <1>2, <2>1, FoldAt, FS_EmptySet
<1>4. ASSUME NEW s \in SUBSET S, s # {}, s \ {First(s)} \in Good PROVE s \in Good
  <2> DEFINE x == First(s)
             r == s \ {x}
  <2>1. x \in s /\ x \in S /\ r \in SUBSET S
    BY <1>4, FirstIn
  <2>2. g[s] = f[x] + g[r]
    <3>1. \A q \in SUBSET S : q # {} => g[q] = f[First(q)] + g[q \ {First(q)}]
      BY <1>2, FoldAt
    <3> QED BY <1>4, <3>1
  <2>3. f[x] = c /\ g[r] = Cardinality(r) * c
    BY <1>1, <1>4, <2>1
  <2>4. Cardinality(r) = Cardinality(s) - 1 /\ Cardinality(s) \in Int
    BY <2>1, FS_Subset, FS_RemoveElement, FS_CardinalityType
  <2>5. \A n \in Int : c + (n - 1) * c = n * c
    OBVIOUS
  <2>6. g[s] = Cardinality(s) * c
    BY <2>2, <2>3, <2>4, <2>5
  <2> QED BY <2>6
<1> HIDE DEF Good
<1>5. SUBSET S \subseteq Good
  BY <1>3, <1>4, BySubsets
<1>6. g[S] = Cardinality(S) * c
  BY <1>5 DEF Good
<1> QED BY <1>2, <1>6

-----------------------------------------------------------------------------
(* The order of a queue.                                                   *)

\* a comes before b in queue q.
Precedes(q, a, b) == \E i, j \in DOMAIN q : i < j /\ q[i] = a /\ q[j] = b

\* In a concatenation what is on the left comes first.
LEMMA ConcatOrder ==
  ASSUME NEW S, NEW x \in Seq(S), NEW y \in Seq(S)
  PROVE  /\ x \o y \in Seq(S)
         /\ Elems(x \o y) = Elems(x) \cup Elems(y)
         /\ Once(x) /\ Once(y) /\ Elems(x) \cap Elems(y) = {} => Once(x \o y)
         /\ \A a, b : Precedes(x, a, b) => Precedes(x \o y, a, b)
         /\ \A a, b : Precedes(y, a, b) => Precedes(x \o y, a, b)
         /\ \A a \in Elems(x), b \in Elems(y) : Precedes(x \o y, a, b)
         /\ \A a, b : Precedes(x \o y, a, b) /\ b \notin Elems(y) => Precedes(x, a, b)
         /\ \A a, b : Precedes(x \o y, a, b) /\ a \notin Elems(x) => Precedes(y, a, b)
<1> DEFINE z == x \o y
           n == Len(x)
<1>1. /\ z \in Seq(S) /\ n \in Nat /\ Len(y) \in Nat /\ Len(z) = n + Len(y)
      /\ DOMAIN x = 1..n /\ DOMAIN y = 1..Len(y) /\ DOMAIN z = 1..Len(z)
      /\ \A i \in 1..n + Len(y) : z[i] = IF i <= n THEN x[i] ELSE y[i - n]
  BY ConcatProperties, LenProperties
<1> HIDE DEF z, n
<1>2. /\ \A i \in DOMAIN x : i \in DOMAIN z /\ z[i] = x[i] /\ i <= n
      /\ \A i \in DOMAIN y : n + i \in DOMAIN z /\ z[n + i] = y[i] /\ n + i > n
      /\ \A i \in DOMAIN z : \/ i \in DOMAIN x /\ z[i] = x[i]
                             \/ /\ i > n /\ i - n \in DOMAIN y /\ z[i] = y[i - n]
      /\ DOMAIN x \subseteq Int /\ DOMAIN y \subseteq Int /\ DOMAIN z \subseteq Int
  <2>1. \A i \in DOMAIN x : i \in DOMAIN z /\ z[i] = x[i] /\ i <= n
    BY <1>1
  <2>2. \A i \in DOMAIN y : n + i \in DOMAIN z /\ z[n + i] = y[i] /\ n + i > n
    BY <1>1
  <2>3. \A i \in DOMAIN z : \/ i \in DOMAIN x /\ z[i] = x[i]
                           \/ /\ i > n /\ i - n \in DOMAIN y /\ z[i] = y[i - n]
    BY <1>1
  <2>4. DOMAIN x \subseteq Int /\ DOMAIN y \subseteq Int /\ DOMAIN z \subseteq Int
    BY <1>1
  <2> QED BY <2>1, <2>2, <2>3, <2>4
<1>3. Elems(z) = Elems(x) \cup Elems(y)
  <2>1. Elems(x) \cup Elems(y) \subseteq Elems(z)
    BY <1>2 DEF Elems
  <2>2. Elems(z) \subseteq Elems(x) \cup Elems(y)
    BY <1>2 DEF Elems
  <2> QED BY <2>1, <2>2
<1>4. ASSUME Once(x), Once(y), Elems(x) \cap Elems(y) = {} PROVE Once(z)
  <2> SUFFICES ASSUME NEW i \in DOMAIN z, NEW j \in DOMAIN z, z[i] = z[j] PROVE i = j
    BY DEF Once
  <2>1. CASE i \in DOMAIN x /\ j \in DOMAIN x
    BY <1>2, <1>4, <2>1 DEF Once
  <2>2. CASE i > n /\ j > n
    <3>1. /\ i - n \in DOMAIN y /\ j - n \in DOMAIN y /\ y[i - n] = y[j - n]
      BY <1>1, <1>2, <2>2
    <3>2. i - n = j - n
      BY <1>4, <3>1 DEF Once
    <3> QED BY <1>1, <1>2, <3>2
  <2>3. ASSUME NEW k \in DOMAIN x, NEW l \in DOMAIN y PROVE x[k] # y[l]
    BY <1>4 DEF Elems
  <2>4. ~(i \in DOMAIN x /\ j > n) /\ ~(j \in DOMAIN x /\ i > n)
    BY <1>1, <1>2, <2>3
  <2> QED BY <1>2, <2>1, <2>2, <2>4
<1>5. ASSUME NEW a, NEW b, Precedes(x, a, b) PROVE Precedes(z, a, b)
  BY <1>2, <1>5 DEF Precedes
<1>8. ASSUME NEW a, NEW b, Precedes(y, a, b) PROVE Precedes(z, a, b)
  <2>1. PICK i \in DOMAIN y, j \in DOMAIN y : i < j /\ y[i] = a /\ y[j] = b
    BY <1>8 DEF Precedes
  <2>2. n + i < n + j /\ n + i \in DOMAIN z /\ n + j \in DOMAIN z
    BY <1>1, <1>2, <2>1
  <2> QED BY <1>2, <2>1, <2>2 DEF Precedes
<1>6. ASSUME NEW a \in Elems(x), NEW b \in Elems(y) PROVE Precedes(z, a, b)
  <2>1. PICK i \in DOMAIN x : x[i] = a
    BY DEF Elems
  <2>2. PICK j \in DOMAIN y : y[j] = b
    BY DEF Elems
  <2>3. /\ i \in DOMAIN z /\ n + j \in DOMAIN z /\ i < n + j
        /\ z[i] = a /\ z[n + j] = b
    BY <1>1, <1>2, <2>1, <2>2
  <2> QED BY <2>3 DEF Precedes
<1>7. ASSUME NEW a, NEW b, Precedes(z, a, b)
      PROVE  /\ b \notin Elems(y) => Precedes(x, a, b)
             /\ a \notin Elems(x) => Precedes(y, a, b)
  <2>1. PICK i \in DOMAIN z, j \in DOMAIN z : i < j /\ z[i] = a /\ z[j] = b
    BY <1>7 DEF Precedes
  <2>2. ASSUME b \notin Elems(y) PROVE Precedes(x, a, b)
    <3>1. j \in DOMAIN x /\ x[j] = b
      BY <1>2, <2>1, <2>2 DEF Elems
    <3>2. i \in DOMAIN x /\ x[i] = a
      BY <1>1, <1>2, <2>1, <3>1
    <3> QED BY <2>1, <3>1, <3>2 DEF Precedes
  <2>3. ASSUME a \notin Elems(x) PROVE Precedes(y, a, b)
    <3>1. i > n /\ i - n \in DOMAIN y /\ y[i - n] = a
      BY <1>2, <2>1, <2>3 DEF Elems
    <3>2. j - n \in DOMAIN y /\ y[j - n] = b /\ i - n < j - n
      BY <1>1, <1>2, <2>1, <3>1
    <3> QED BY <3>1, <3>2 DEF Precedes
  <2> QED BY <2>2, <2>3
<1> QED BY <1>1, <1>3, <1>4, <1>5, <1>6, <1>7, <1>8 DEF z

\* The head comes before all others; the tail keeps their order.
LEMMA TailOrder ==
  ASSUME NEW S, NEW q \in Seq(S), q # <<>>, Once(q)
  PROVE  /\ \A a : ~Precedes(q, a, Head(q))
         /\ \A b \in Elems(q) \ {Head(q)} : Precedes(q, Head(q), b)
         /\ \A a, b : Precedes(Tail(q), a, b) <=> Precedes(q, a, b) /\ a # Head(q)
<1> DEFINE r == Tail(q)
           h == Head(q)
<1>1. /\ Len(q) \in Nat \ {0} /\ r \in Seq(S) /\ Len(r) = Len(q) - 1
      /\ DOMAIN q = 1..Len(q) /\ DOMAIN r = 1..Len(r)
      /\ h = q[1]
      /\ \A i \in 1..Len(r) : r[i] = q[i + 1]
  BY EmptySeq, HeadTailProperties
<1> HIDE DEF r, h
<1>2. /\ 1 \in DOMAIN q /\ DOMAIN q \subseteq Int /\ DOMAIN r \subseteq Int
      /\ \A i \in DOMAIN q : i >= 1
      /\ \A i \in DOMAIN r : i + 1 \in DOMAIN q /\ r[i] = q[i + 1] /\ i + 1 > 1
      /\ \A i \in DOMAIN q : i > 1 => i - 1 \in DOMAIN r /\ r[i - 1] = q[i]
  BY <1>1
<1>3. \A i \in DOMAIN q : q[i] = h => i = 1
  BY <1>1, <1>2 DEF Once
<1>4. ASSUME NEW a PROVE ~Precedes(q, a, h)
  BY <1>2, <1>3 DEF Precedes
<1>5. ASSUME NEW b \in Elems(q) \ {h} PROVE Precedes(q, h, b)
  <2>1. PICK j \in DOMAIN q : q[j] = b
    BY DEF Elems
  <2>2. j > 1
    BY <1>1, <1>2, <2>1
  <2> QED BY <1>1, <1>2, <2>1, <2>2 DEF Precedes
<1>6. ASSUME NEW a, NEW b, Precedes(r, a, b) PROVE Precedes(q, a, b) /\ a # h
  <2>1. PICK i \in DOMAIN r, j \in DOMAIN r : i < j /\ r[i] = a /\ r[j] = b
    BY <1>6 DEF Precedes
  <2>2. /\ i + 1 \in DOMAIN q /\ j + 1 \in DOMAIN q
        /\ q[i + 1] = a /\ q[j + 1] = b /\ i + 1 > 1
    BY <1>2, <2>1
  <2>3. i \in Int /\ j \in Int /\ i < j
    BY <1>2, <2>1
  <2>4. i + 1 < j + 1 /\ i + 1 # 1
    BY <2>2, <2>3
  <2> QED BY <1>3, <2>2, <2>4 DEF Precedes
<1>7. ASSUME NEW a, NEW b, Precedes(q, a, b), a # h PROVE Precedes(r, a, b)
  <2>1. PICK i \in DOMAIN q, j \in DOMAIN q : i < j /\ q[i] = a /\ q[j] = b
    BY <1>7 DEF Precedes
  <2>2. i > 1 /\ j > 1
    BY <1>1, <1>2, <1>7, <2>1
  <2>3. /\ i - 1 \in DOMAIN r /\ j - 1 \in DOMAIN r /\ i - 1 < j - 1
        /\ r[i - 1] = a /\ r[j - 1] = b
    BY <1>2, <2>1, <2>2
  <2> QED BY <2>3 DEF Precedes
<1> QED BY <1>4, <1>5, <1>6, <1>7 DEF r, h

\* What the order is when the head has gone and those of y have come.
LEMMA TurnOrder ==
  ASSUME NEW S, NEW q \in Seq(S), q # <<>>, Once(q),
         NEW y \in Seq(S), Once(y), Elems(y) \cap (Elems(q) \ {Head(q)}) = {}
  PROVE  LET others == Elems(q) \ {Head(q)}
             r == Tail(q) \o y
         IN  /\ r \in Seq(S) /\ Once(r) /\ Elems(r) = others \cup Elems(y)
             /\ \A a, b \in others : Precedes(r, a, b) <=> Precedes(q, a, b)
             /\ \A a \in others, b \in Elems(y) :
                  Precedes(r, a, b) /\ ~Precedes(r, b, a)
             /\ \A a, b \in Elems(y) : Precedes(y, a, b) => Precedes(r, a, b)
<1> DEFINE r == Tail(q) \o y
<1>0. r = Tail(q) \o y
  OBVIOUS
<1> HIDE DEF r
<1> DEFINE others == Elems(q) \ {Head(q)}
           x == Tail(q)
<1>1. x \in Seq(S) /\ Once(x) /\ Elems(x) = others
  BY DequeueOnce
<1>2. \A a, b : Precedes(x, a, b) <=> Precedes(q, a, b) /\ a # Head(q)
  BY TailOrder
<1>3. \A a, b : Precedes(x, a, b) => a \in Elems(x) /\ b \in Elems(x)
  BY DEF Precedes, Elems
<1>4. \A a, b : Precedes(y, a, b) => a \in Elems(y) /\ b \in Elems(y)
  BY DEF Precedes, Elems
<1> HIDE DEF x
<1>5. r = x \o y
  BY <1>0 DEF x
<1> DEFINE z == x \o y
<1>6. /\ z \in Seq(S)
      /\ Elems(z) = Elems(x) \cup Elems(y)
      /\ Elems(x) \cap Elems(y) = {} => Once(z)
      /\ \A a, b : Precedes(x, a, b) => Precedes(z, a, b)
      /\ \A a, b : Precedes(y, a, b) => Precedes(z, a, b)
      /\ \A a \in Elems(x), b \in Elems(y) : Precedes(z, a, b)
      /\ \A a, b : Precedes(z, a, b) /\ b \notin Elems(y) => Precedes(x, a, b)
      /\ \A a, b : Precedes(z, a, b) /\ a \notin Elems(x) => Precedes(y, a, b)
  BY <1>1, ConcatOrder
<1> HIDE DEF z
<1>12. z = r
  BY <1>5 DEF z
<1>7. /\ r \in Seq(S) /\ Once(r) /\ Elems(r) = Elems(x) \cup Elems(y)
      /\ \A a, b : Precedes(x, a, b) => Precedes(r, a, b)
      /\ \A a, b : Precedes(y, a, b) => Precedes(r, a, b)
      /\ \A a \in Elems(x), b \in Elems(y) : Precedes(r, a, b)
      /\ \A a, b : Precedes(r, a, b) /\ b \notin Elems(y) => Precedes(x, a, b)
      /\ \A a, b : Precedes(r, a, b) /\ a \notin Elems(x) => Precedes(y, a, b)
  <2>1. Elems(x) \cap Elems(y) = {}
    BY <1>1
  <2> QED BY <1>6, <1>12, <2>1, Zenon
<1> HIDE DEF others
<1>9. others \cap Elems(y) = {} /\ \A a \in others : a # Head(q)
  BY DEF others
<1>10. ASSUME NEW a \in others, NEW b \in others
       PROVE  Precedes(r, a, b) <=> Precedes(q, a, b)
  <2>1. Precedes(x, a, b) <=> Precedes(q, a, b)
    BY <1>2, <1>9, Zenon
  <2> QED BY <1>7, <1>9, <2>1
<1>11. ASSUME NEW a \in others, NEW b \in Elems(y)
       PROVE  Precedes(r, a, b) /\ ~Precedes(r, b, a)
  BY <1>1, <1>3, <1>4, <1>7, <1>9
<1> QED BY <1>1, <1>7, <1>10, <1>11 DEF others, r

\* What the order is when the head goes to the tail.
LEMMA TurnAlone ==
  ASSUME NEW S, NEW q \in Seq(S), q # <<>>, Once(q)
  PROVE  LET p == Head(q)
             r == Append(Tail(q), p)
             others == Elems(q) \ {p}
         IN  /\ r \in Seq(S) /\ Once(r) /\ Elems(r) = Elems(q)
             /\ \A a, b \in others : Precedes(r, a, b) <=> Precedes(q, a, b)
             /\ \A a \in others : Precedes(r, a, p) /\ ~Precedes(r, p, a)
<1> DEFINE p == Head(q)
           r == Append(Tail(q), p)
<1>0. p = Head(q) /\ r = Append(Tail(q), p)
  OBVIOUS
<1> HIDE DEF p, r
<1> DEFINE y == <<p>>
<1>1. /\ Tail(q) \in Seq(S) /\ p \in S /\ p \in Elems(q)
      /\ y \in Seq(S) /\ Once(y) /\ Elems(y) = {p}
  <2>1. <<p>> \in Seq(S) /\ DOMAIN <<p>> = {1} /\ <<p>>[1] = p
    BY <1>0, HeadTailProperties
  <2> QED BY <1>0, <2>1, HeadTailProperties, DequeueOnce DEF Once, Elems
<1>2. r = Tail(q) \o y
  BY <1>0, <1>1, AppendIsConcat
<1> HIDE DEF y
<1>3. Elems(y) \cap (Elems(q) \ {Head(q)}) = {}
  BY <1>0, <1>1
<1> DEFINE others == Elems(q) \ {Head(q)}
<1>4. LET s == Tail(q) \o y
      IN  /\ s \in Seq(S) /\ Once(s) /\ Elems(s) = others \cup Elems(y)
          /\ \A a, b \in others : Precedes(s, a, b) <=> Precedes(q, a, b)
          /\ \A a \in others, b \in Elems(y) :
               Precedes(s, a, b) /\ ~Precedes(s, b, a)
  BY <1>1, <1>3, TurnOrder
<1> HIDE DEF others
<1>5. /\ r \in Seq(S) /\ Once(r) /\ Elems(r) = others \cup {p}
      /\ \A a, b \in others : Precedes(r, a, b) <=> Precedes(q, a, b)
      /\ \A a \in others : Precedes(r, a, p) /\ ~Precedes(r, p, a)
  BY <1>1, <1>2, <1>4
<1>6. others \cup {p} = Elems(q)
  BY <1>0, <1>1 DEF others
<1> QED BY <1>5, <1>6 DEF p, r, others

\* Nothing put between a queue and a new tail is nothing.
LEMMA NothingBetween ==
  ASSUME NEW S, NEW q \in Seq(S), NEW p \in S
  PROVE  q \o <<>> \o <<p>> = Append(q, p)
BY ConcatEmptySeq, AppendIsConcat

\* What the order is when the head goes to the tail, behind those of y.
LEMMA TurnBehind ==
  ASSUME NEW S, NEW q \in Seq(S), q # <<>>, Once(q),
         NEW y \in Seq(S), Once(y), Elems(y) \cap Elems(q) = {}
  PROVE  LET p == Head(q)
             r == Tail(q) \o y \o <<p>>
             others == Elems(q) \ {p}
         IN  /\ r \in Seq(S) /\ Once(r) /\ Elems(r) = Elems(q) \cup Elems(y)
             /\ \A a, b \in others : Precedes(r, a, b) <=> Precedes(q, a, b)
             /\ \A a \in others, b \in Elems(y) \cup {p} :
                  Precedes(r, a, b) /\ ~Precedes(r, b, a)
             /\ \A a \in Elems(y) : Precedes(r, a, p)
<1> DEFINE p == Head(q)
           z == y \o <<p>>
           r == Tail(q) \o z
           others == Elems(q) \ {p}
<1>1. p \in S /\ p \in Elems(q) /\ Tail(q) \in Seq(S)
  BY DequeueOnce
<1>2. <<p>> \in Seq(S) /\ Once(<<p>>) /\ Elems(<<p>>) = {p}
  <2> HIDE DEF p
  <2>1. <<p>> \in Seq(S) /\ DOMAIN <<p>> = {1} /\ <<p>>[1] = p
    BY <1>1
  <2> QED BY <2>1 DEF Once, Elems
<1>3. Tail(q) \o y \o <<p>> = r
  BY <1>1, <1>2, ConcatAssociative
<1>4. /\ z \in Seq(S) /\ Once(z) /\ Elems(z) = Elems(y) \cup {p}
      /\ \A a \in Elems(y) : Precedes(z, a, p)
  <2> DEFINE w == <<p>>
  <2>1. w \in Seq(S) /\ Once(w) /\ Elems(w) = {p} /\ p \in Elems(w)
        /\ Elems(y) \cap Elems(w) = {} /\ z = y \o w
    BY <1>1, <1>2
  <2> HIDE DEF w, z, p
  <2> QED BY <2>1, ConcatOrder
<1> HIDE DEF z
<1>5. Elems(z) \cap others = {}
  BY <1>4
<1>6. /\ r \in Seq(S) /\ Once(r) /\ Elems(r) = others \cup Elems(z)
      /\ \A a, b \in others : Precedes(r, a, b) <=> Precedes(q, a, b)
      /\ \A a \in others, b \in Elems(z) : Precedes(r, a, b) /\ ~Precedes(r, b, a)
      /\ \A a, b \in Elems(z) : Precedes(z, a, b) => Precedes(r, a, b)
  BY <1>4, <1>5, TurnOrder
<1> HIDE DEF p, r, others
<1>7. Elems(r) = Elems(q) \cup Elems(y)
  BY <1>1, <1>4, <1>6 DEF others
<1>8. \A a \in Elems(y) : Precedes(r, a, p)
  BY <1>4, <1>6
<1> QED BY <1>3, <1>4, <1>6, <1>7, <1>8 DEF p, others

\* A queue cut after its first n elements.
LEMMA CutOnce ==
  ASSUME NEW S, NEW q \in Seq(S), Once(q), NEW n \in 0..Len(q)
  PROVE  LET f == SubSeq(q, 1, n)
             b == SubSeq(q, n + 1, Len(q))
         IN  /\ f \in Seq(S) /\ b \in Seq(S) /\ Once(f) /\ Once(b)
             /\ Elems(f) \cup Elems(b) = Elems(q) /\ Elems(f) \cap Elems(b) = {}
             /\ IsFiniteSet(Elems(f)) /\ Cardinality(Elems(f)) <= n
             /\ n > 0 => Elems(f) # {}
             /\ n = Len(q) => b = <<>>
<1> DEFINE f == SubSeq(q, 1, n)
           b == SubSeq(q, n + 1, Len(q))
<1>1. f = SubSeq(q, 1, n) /\ b = SubSeq(q, n + 1, Len(q))
  OBVIOUS
<1> HIDE DEF f, b
<1> DEFINE m == Len(q)
<1>2. Len(q) \in Nat /\ n \in Nat /\ n <= Len(q) /\ \A i \in 1..Len(q) : q[i] \in S
  OBVIOUS
<1>3. f \in Seq(S) /\ Len(f) = n /\ \A i \in 1..n : f[i] = q[i]
  <2>1. \A i \in 1..n : q[i] \in S
    BY <1>2
  <2>2. /\ f \in Seq(S) /\ Len(f) = IF 1 <= n THEN n - 1 + 1 ELSE 0
        /\ \A i \in 1..n - 1 + 1 : f[i] = q[1 + i - 1]
    BY <1>2, <1>1, <2>1, SubSeqProperties
  <2>3. n - 1 + 1 = n /\ \A i \in 1..n : 1 + i - 1 = i
    BY <1>2
  <2> QED BY <1>2, <2>2, <2>3
<1>4. b \in Seq(S) /\ Len(b) = Len(q) - n /\ \A i \in 1..Len(q) - n : b[i] = q[n + i]
  <2>1. \A i \in n + 1..Len(q) : q[i] \in S
    BY <1>2
  <2>2. /\ b \in Seq(S) /\ Len(b) = IF n + 1 <= Len(q) THEN Len(q) - (n + 1) + 1 ELSE 0
        /\ \A i \in 1..Len(q) - (n + 1) + 1 : b[i] = q[(n + 1) + i - 1]
    BY <1>2, <1>1, <2>1, SubSeqProperties
  <2>3. /\ Len(q) - (n + 1) + 1 = Len(q) - n
        /\ \A i \in 1..Len(q) - n : (n + 1) + i - 1 = n + i
    BY <1>2
  <2>4. Len(b) = Len(q) - n
    BY <1>2, <2>2
  <2>5. \A i \in 1..Len(q) - n : b[i] = q[n + i]
    BY <2>2, <2>3
  <2> QED BY <2>2, <2>4, <2>5
<1>5. /\ m \in Nat /\ DOMAIN q = 1..m /\ n \in Nat /\ n <= m
      /\ DOMAIN f = 1..n /\ DOMAIN b = 1..m - n
      /\ \A i \in 1..n : f[i] = q[i]
      /\ \A i \in 1..m - n : b[i] = q[n + i]
  BY <1>2, <1>3, <1>4
<1> HIDE DEF m
<1>6. /\ \A i \in DOMAIN f : i \in DOMAIN q /\ f[i] = q[i] /\ i <= n
      /\ \A i \in DOMAIN b : n + i \in DOMAIN q /\ b[i] = q[n + i] /\ n + i > n
      /\ \A i \in DOMAIN q : \/ i \in DOMAIN f
                             \/ i - n \in DOMAIN b /\ n + (i - n) = i
      /\ DOMAIN f \subseteq Int /\ DOMAIN b \subseteq Int
  <2>1. \A i \in DOMAIN f : i \in DOMAIN q /\ f[i] = q[i] /\ i <= n
    BY <1>5
  <2>2. \A i \in DOMAIN b : n + i \in DOMAIN q /\ b[i] = q[n + i] /\ n + i > n
    BY <1>5
  <2>3. \A i \in DOMAIN q : \/ i \in DOMAIN f
                            \/ i - n \in DOMAIN b /\ n + (i - n) = i
    BY <1>5
  <2>4. DOMAIN f \subseteq Int /\ DOMAIN b \subseteq Int
    BY <1>5
  <2> QED BY <2>1, <2>2, <2>3, <2>4
<1>7. Once(f)
  BY <1>6 DEF Once
<1>8. Once(b)
  <2> SUFFICES ASSUME NEW i \in DOMAIN b, NEW j \in DOMAIN b, b[i] = b[j] PROVE i = j
    BY DEF Once
  <2>1. n + i = n + j
    BY <1>6 DEF Once
  <2>2. i \in Int /\ j \in Int
    BY <1>6
  <2> QED BY <1>5, <2>1, <2>2
<1>9. Elems(f) \cup Elems(b) \subseteq Elems(q)
  <2>1. Elems(f) \subseteq Elems(q)
    BY <1>6 DEF Elems
  <2>2. Elems(b) \subseteq Elems(q)
    BY <1>6 DEF Elems
  <2> QED BY <2>1, <2>2
<1>10. Elems(q) \subseteq Elems(f) \cup Elems(b)
  <2> SUFFICES ASSUME NEW i \in DOMAIN q PROVE q[i] \in Elems(f) \cup Elems(b)
    BY DEF Elems
  <2>1. CASE i \in DOMAIN f
    BY <1>6, <2>1 DEF Elems
  <2>2. CASE i - n \in DOMAIN b /\ n + (i - n) = i
    <3>1. b[i - n] = q[i]
      BY <1>6, <2>2
    <3> QED BY <2>2, <3>1 DEF Elems
  <2> QED BY <1>6, <2>1, <2>2
<1>11. Elems(f) \cap Elems(b) = {}
  <2> SUFFICES ASSUME NEW i \in DOMAIN f, NEW j \in DOMAIN b, f[i] = b[j] PROVE FALSE
    BY DEF Elems
  <2>1. /\ i \in DOMAIN q /\ n + j \in DOMAIN q /\ q[i] = q[n + j]
        /\ i <= n /\ n + j > n
    BY <1>6
  <2>2. i = n + j
    BY <2>1 DEF Once
  <2> QED BY <1>5, <1>6, <2>1, <2>2
<1>12. IsFiniteSet(Elems(f)) /\ Cardinality(Elems(f)) <= n
  <2> DEFINE T == Elems(f)
             g == [i \in 1..n |-> f[i]]
  <2>1. (\A i \in 1..n : f[i] \in T) /\ \A t \in T : \E i \in 1..n : f[i] = t
    BY <1>5 DEF Elems
  <2>2. g \in Surjection(1..n, T)
    <3> HIDE DEF T
    <3> QED BY <2>1 DEF Surjection
  <2>3. IsFiniteSet(1..n) /\ Cardinality(1..n) = n
    <3> HIDE DEF T, g
    <3>1. n \in Int /\ 1 \in Int
      BY <1>5
    <3>2. IsFiniteSet(1..n) /\ Cardinality(1..n) = IF 1 > n THEN 0 ELSE n - 1 + 1
      BY <3>1, FS_Interval
    <3> QED BY <1>5, <3>2
  <2> HIDE DEF T, g
  <2>4. IsFiniteSet(T) /\ Cardinality(T) <= Cardinality(1..n)
    BY <2>2, <2>3, FS_Surjection
  <2> QED BY <2>3, <2>4 DEF T
<1>13. n > 0 => Elems(f) # {}
  <2>1. n > 0 => 1 \in DOMAIN f
    BY <1>5
  <2> QED BY <2>1 DEF Elems
<1>14. n = Len(q) => b = <<>>
  BY <1>4, EmptySeq
<1> QED BY <1>3, <1>4, <1>7, <1>8, <1>9, <1>10, <1>11, <1>12, <1>13, <1>14 DEF f, b

-----------------------------------------------------------------------------
(* Queues and stacks at their ends.                                        *)

\* A queue at its end.
LEMMA Appended ==
  ASSUME NEW S, NEW q \in Seq(S), NEW e \in S
  PROVE  LET r == Append(q, e)
             n == Len(q)
         IN  /\ r \in Seq(S) /\ r # <<>> /\ n \in Nat /\ Len(r) = n + 1
             /\ DOMAIN q = 1..n /\ DOMAIN r = 1..(n + 1)
             /\ r[n + 1] = e /\ \A m \in 1..n : r[m] = q[m]
<1> DEFINE r == Append(q, e)
<1>1. /\ r \in Seq(S) /\ Len(q) \in Nat /\ Len(r) = Len(q) + 1
      /\ DOMAIN q = 1..Len(q) /\ DOMAIN r = 1..Len(r)
      /\ r[Len(q) + 1] = e /\ \A m \in 1..Len(q) : r[m] = q[m]
  BY AppendProperties, LenProperties
<1>2. r # <<>>
  BY <1>1, EmptySeq
<1> QED BY <1>1, <1>2

\* A queue at its head.
LEMMA Beheaded ==
  ASSUME NEW S, NEW q \in Seq(S), q # <<>>
  PROVE  LET r == Tail(q)
             n == Len(q)
         IN  /\ Head(q) \in S /\ Head(q) = q[1]
             /\ r \in Seq(S) /\ n \in Nat \ {0} /\ Len(r) = n - 1
             /\ DOMAIN q = 1..n /\ DOMAIN r = 1..(n - 1)
             /\ \A m \in 1..(n - 1) : r[m] = q[m + 1]
<1> DEFINE r == Tail(q)
<1>1. /\ r \in Seq(S) /\ Len(q) \in Nat \ {0} /\ Len(r) = Len(q) - 1
      /\ DOMAIN q = 1..Len(q) /\ DOMAIN r = 1..Len(r)
      /\ Head(q) \in S /\ \A m \in 1..Len(r) : r[m] = q[m + 1]
  BY HeadTailProperties, LenProperties, EmptySeq
<1>2. Head(q) = q[1]
  OBVIOUS
<1> QED BY <1>1, <1>2

\* A stack at its top.
LEMMA Topped ==
  ASSUME NEW S, NEW q \in Seq(S), q # <<>>, NEW e \in S
  PROVE  LET n == Len(q)
             r == [q EXCEPT ![n] = e]
         IN  /\ r \in Seq(S) /\ r # <<>> /\ n \in Nat \ {0} /\ Len(r) = n
             /\ DOMAIN q = 1..n /\ DOMAIN r = 1..n
             /\ r[n] = e /\ \A m \in 1..n : m # n => r[m] = q[m]
<1> DEFINE n == Len(q)
           r == [q EXCEPT ![n] = e]
<1>1. n \in Nat \ {0} /\ DOMAIN q = 1..n
  BY EmptySeq, LenProperties
<1>2. /\ r \in Seq(S) /\ Len(r) = n
      /\ \A m \in 1..n : r[m] = IF m = n THEN e ELSE q[m]
  BY <1>1, ExceptSeq
<1>3. DOMAIN r = 1..n /\ r # <<>>
  BY <1>1, <1>2, LenProperties, EmptySeq
<1> HIDE DEF n, r
<1>4. /\ r \in Seq(S) /\ r # <<>> /\ n \in Nat \ {0} /\ Len(r) = n
      /\ DOMAIN q = 1..n /\ DOMAIN r = 1..n
      /\ r[n] = e /\ \A m \in 1..n : m # n => r[m] = q[m]
  BY <1>1, <1>2, <1>3
<1> QED BY <1>4 DEF n, r

-----------------------------------------------------------------------------
(* A queue in which the threads of a set may be more than once.           *)

\* Only the readers that have queued themselves are in the ready queue twice.
OnceBut(q, p) == \A m, n \in DOMAIN q : q[m] = q[n] /\ q[m] \notin p => m = n
\* The threads of q are created; those who have queued themselves have their data.
LinedUp(q, c, p, d) == Elems(q) \subseteq c /\ OnceBut(q, p) /\ Elems(q) \cap p \subseteq d

\* uthread_enqueue and dequeue keep such a queue lined up.
LEMMA LinedUpAppend ==
  ASSUME NEW S, NEW q \in Seq(S), NEW t \in S, NEW c, NEW p, NEW d, LinedUp(q, c, p, d),
         t \in c, t \in p \/ t \notin Elems(q), t \in p => t \in d
  PROVE  /\ Append(q, t) \in Seq(S) /\ Elems(Append(q, t)) = Elems(q) \cup {t}
         /\ LinedUp(Append(q, t), c, p, d)
<1> DEFINE r == Append(q, t)
           n == Len(q)
<1>1. /\ r \in Seq(S) /\ n \in Nat /\ DOMAIN q = 1..n /\ DOMAIN r = 1..(n + 1)
      /\ r[n + 1] = t /\ \A m \in 1..n : r[m] = q[m]
  BY Appended
<1> HIDE DEF r, n
<1>2. /\ n + 1 \in DOMAIN r /\ n + 1 \notin DOMAIN q
      /\ \A m \in DOMAIN q : m \in DOMAIN r /\ r[m] = q[m]
      /\ \A m \in DOMAIN r : m = n + 1 \/ m \in DOMAIN q
  BY <1>1
<1>3. Elems(r) = Elems(q) \cup {t}
  BY <1>1, <1>2 DEF Elems
<1>4. OnceBut(r, p)
  <2>1. \A m \in DOMAIN q : q[m] = t => t \in p
    BY DEF Elems
  <2> QED BY <1>1, <1>2, <2>1 DEF OnceBut, LinedUp
<1>5. LinedUp(r, c, p, d)
  BY <1>3, <1>4 DEF LinedUp
<1> QED BY <1>1, <1>3, <1>5 DEF r

LEMMA LinedUpTail ==
  ASSUME NEW S, NEW q \in Seq(S), q # <<>>, NEW c, NEW p, NEW d, LinedUp(q, c, p, d)
  PROVE  /\ Head(q) \in Elems(q) /\ Elems(Tail(q)) \subseteq Elems(q)
         /\ Head(q) \in Elems(Tail(q)) => Head(q) \in p
         /\ LinedUp(Tail(q), c, p, d)
<1> DEFINE r == Tail(q)
           n == Len(q)
<1>1. /\ n \in Nat \ {0} /\ DOMAIN q = 1..n /\ DOMAIN r = 1..(n - 1) /\ Head(q) = q[1]
      /\ \A m \in 1..(n - 1) : r[m] = q[m + 1]
  BY Beheaded
<1> HIDE DEF r, n
<1>2. /\ 1 \in DOMAIN q
      /\ \A m \in DOMAIN r : m + 1 \in DOMAIN q /\ m + 1 # 1 /\ r[m] = q[m + 1]
      /\ \A l, m \in DOMAIN r : l + 1 = m + 1 => l = m
  BY <1>1
<1>3. Head(q) \in Elems(q) /\ Elems(r) \subseteq Elems(q)
  BY <1>1, <1>2 DEF Elems
<1>4. Head(q) \in Elems(r) => Head(q) \in p
  BY <1>1, <1>2 DEF Elems, LinedUp, OnceBut
<1>5. OnceBut(r, p)
  BY <1>2 DEF LinedUp, OnceBut
<1> QED BY <1>3, <1>4, <1>5 DEF LinedUp, r

\* The sets may grow.
LEMMA LinedUpMore ==
  ASSUME NEW q, NEW c, NEW p, NEW d, LinedUp(q, c, p, d), NEW a, NEW b, NEW e,
         c \subseteq a, p \subseteq b, d \subseteq e, Elems(q) \cap b \subseteq p
  PROVE  LinedUp(q, a, b, e)
BY DEF LinedUp, OnceBut

-----------------------------------------------------------------------------
(* Folds of a sequence from its first element on, as FoldLeft and           *)
(* FoldFunctionOnSet compute them: over the sets of places.                 *)

\* The place of the last element.
Largest(s) == CHOOSE m \in s : \A l \in s : m >= l

\* g is what the fold of n elements computes with f(value, place) from b on, for every
\* set of places.
LeftFoldsTo(g, f, b, n) ==
  g = [s \in SUBSET (1..n) |->
         IF s = {} THEN b ELSE f[<<g[s \ {Largest(s)}], Largest(s)>>]]

\* It is there.
LEMMA LargestIn ==
  ASSUME NEW n \in Nat, NEW s \in SUBSET (1..n), s # {}
  PROVE  Largest(s) \in s /\ \A l \in s : Largest(s) >= l
<1> DEFINE T == {n - m : m \in s}
<1>1. T \in SUBSET Nat /\ T # {}
  <2>1. \A m \in 1..n : n - m \in Nat
    OBVIOUS
  <2>2. \A m \in s : m \in 1..n
    OBVIOUS
  <2> QED BY <2>1, <2>2
<1>2. PICK x \in T : \A y \in T : ~(y < x)
  <2> HIDE DEF T
  <2> QED BY <1>1, LeastNat
<1>3. PICK m \in s : x = n - m
  BY <1>2
<1>4. ASSUME NEW l \in s PROVE m >= l
  <2>1. n - l \in T
    BY <1>4
  <2>2. ~(n - l < n - m)
    BY <1>2, <1>3, <2>1
  <2> QED BY <2>2
<1> QED BY <1>3, <1>4 DEF Largest

\* Without its last place, an interval ends one earlier.
LEMMA LargestOfInterval ==
  ASSUME NEW n \in Nat
  PROVE  \A m \in 1..n : Largest(1..m) = m /\ (1..m) \ {m} = 1..(m - 1) /\ 1..m # {}
<1> TAKE m \in 1..n
<1>1. 1..m \in SUBSET (1..m) /\ 1..m # {} /\ m \in Nat /\ m \in 1..m
  OBVIOUS
<1>2. Largest(1..m) \in 1..m /\ Largest(1..m) >= m
  BY <1>1, LargestIn
<1>3. \A l \in 1..m : l >= m => l = m
  BY <1>1
<1>4. Largest(1..m) = m
  BY <1>2, <1>3
<1>5. (1..m) \ {m} = 1..(m - 1)
  BY <1>1
<1> QED BY <1>1, <1>4, <1>5

\* What holds before the first place, and at a place if before it, holds up to the last.
LEMMA ByPlaces ==
  ASSUME NEW n \in Nat, NEW S, 0 \in S, \A m \in 0 .. n - 1 : m \in S => m + 1 \in S
  PROVE  \A m \in 0..n : m \in S
<1> DEFINE T == (0..n) \ S
<1> SUFFICES ASSUME T # {} PROVE FALSE
  OBVIOUS
<1>1. PICK m \in T : \A l \in T : ~(l < m)
  <2>1. T \in SUBSET Nat
    OBVIOUS
  <2> HIDE DEF T
  <2> QED BY <2>1, LeastNat
<1>2. m # 0 /\ m - 1 \in 0 .. n - 1
  OBVIOUS
<1>3. m - 1 \notin S
  BY <1>2
<1>4. m - 1 \in T /\ m - 1 < m
  BY <1>2, <1>3
<1> HIDE DEF T
<1> QED BY <1>1, <1>4

\* There is a function that does what the recursive definition says, on any set.
LEMMA LeftFoldExists ==
  ASSUME NEW n \in Nat, NEW D, NEW b \in D, NEW f \in [D \X (1..n) -> D]
  PROVE  \E g \in [SUBSET (1..n) -> D] : LeftFoldsTo(g, f, b, n)
<1> DEFINE S == 1..n
           Body(g, s) == IF s = {} THEN b ELSE f[<<g[s \ {Largest(s)}], Largest(s)>>]
           Upto(g, m) == /\ g \in [SUBSET S -> D]
                         /\ \A s \in SUBSET S : Cardinality(s) <= m => g[s] = Body(g, s)
           T == {m \in Nat : ~\E g : Upto(g, m)}
<1>1. IsFiniteSet(S) /\ \A s \in SUBSET S : IsFiniteSet(s) /\ Cardinality(s) \in Nat
  <2>1. IsFiniteSet(1..n)
    BY FS_Interval
  <2> QED BY <2>1, FS_Subset, FS_CardinalityType
<1>2. \A s \in SUBSET S : s # {} =>
        /\ Largest(s) \in S /\ s \ {Largest(s)} \in SUBSET S
        /\ Cardinality(s \ {Largest(s)}) = Cardinality(s) - 1
  BY <1>1, LargestIn, FS_RemoveElement
<1>3. T = {}
  <2> SUFFICES ASSUME T # {} PROVE FALSE
    OBVIOUS
  <2>1. PICK m \in T : \A l \in T : ~(l < m)
    <3>1. T \in SUBSET Nat
      OBVIOUS
    <3> HIDE DEF T
    <3> QED BY <3>1, LeastNat
  <2>2. CASE m = 0
    <3> DEFINE g == [s \in SUBSET S |-> b]
    <3>1. \A s \in SUBSET S : Cardinality(s) <= 0 => s = {}
      BY <1>1, FS_EmptySet
    <3>2. Upto(g, 0)
      BY <3>1
    <3> QED BY <2>2, <3>2
  <2>3. CASE m # 0
    <3>1. m \in Nat /\ m - 1 \in Nat /\ m - 1 \notin T
      <4>1. m \in Nat
        BY <2>1
      <4>2. m - 1 \in Nat
        BY <2>3, <4>1
      <4>3. m - 1 \in T => ~(m - 1 < m)
        <5> HIDE DEF T
        <5> QED BY <2>1
      <4> HIDE DEF T
      <4> QED BY <4>1, <4>2, <4>3
    <3>2. PICK g : Upto(g, m - 1)
      <4> HIDE DEF Upto
      <4> QED BY <3>1
    <3> DEFINE h == [s \in SUBSET S |-> Body(g, s)]
    <3>3. h \in [SUBSET S -> D]
      <4>1. ASSUME NEW s \in SUBSET S PROVE Body(g, s) \in D
        <5>1. CASE s = {}
          BY <5>1
        <5>2. CASE s # {}
          <6>1. g[s \ {Largest(s)}] \in D /\ Largest(s) \in S
            BY <1>2, <3>2, <5>2
          <6>2. f[<<g[s \ {Largest(s)}], Largest(s)>>] \in D
            BY <6>1
          <6> QED BY <5>2, <6>2
        <5> QED BY <5>1, <5>2
      <4> HIDE DEF Body
      <4> QED BY <4>1
    <3>4. ASSUME NEW s \in SUBSET S, Cardinality(s) <= m
          PROVE  h[s] = Body(h, s)
      <4>1. CASE s = {}
        BY <4>1
      <4>2. CASE s # {}
        <5>1. s \ {Largest(s)} \in SUBSET S /\ Cardinality(s \ {Largest(s)}) <= m - 1
          <6> DEFINE c == Cardinality(s)
                     d == Cardinality(s \ {Largest(s)})
          <6>1. c \in Nat /\ d = c - 1 /\ c <= m /\ m \in Nat
            BY <1>1, <1>2, <3>1, <3>4, <4>2
          <6> HIDE DEF c, d, S
          <6>2. d <= m - 1
            BY <6>1
          <6> QED BY <1>2, <4>2, <6>2 DEF d
        <5>2. h[s \ {Largest(s)}] = g[s \ {Largest(s)}]
          BY <3>2, <5>1
        <5> QED BY <4>2, <5>2
      <4> QED BY <4>1, <4>2
    <3>5. Upto(h, m)
      BY <3>3, <3>4
    <3> HIDE DEF h, Upto
    <3> QED BY <2>1, <3>5
  <2> QED BY <2>2, <2>3
<1>4. PICK g : Upto(g, Cardinality(S))
  BY <1>1, <1>3
<1>5. \A s \in SUBSET S : Cardinality(s) <= Cardinality(S)
  BY <1>1, FS_Subset
<1>6. LeftFoldsTo(g, f, b, n)
  <2>1. \A s \in SUBSET S : g[s] = Body(g, s)
    BY <1>4, <1>5
  <2>2. g = [s \in SUBSET S |-> g[s]]
    BY <1>4
  <2> QED BY <2>1, <2>2 DEF LeftFoldsTo
<1> QED BY <1>4, <1>6
=============================================================================
