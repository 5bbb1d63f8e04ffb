------------------------------ MODULE PC_proofs ------------------------------
(***************************************************************************)
(* Proofs about PC: the program runs on the monitor of MutexCond, so that  *)
(* what is proved of the monitor holds of it, and its assertions hold      *)
(* because of the exclusion the monitor gives.                             *)
(***************************************************************************)
EXTENDS PC, MutexCond_proofs

\* Between the test of items and the unlock.
Critical == {"load", "store", "assert", "record", "unlock"}

\* What a thread knows of items at each place of its critical section.
Knows(t) ==
  /\ pc[t] \in Critical => th[t] = "writing"
  /\ pc[t] \in {"load", "store"} => ~MustWait(t)
  /\ pc[t] = "store" => reg[t] = items

PInv ==
  /\ pc \in [Thread -> Places]
  /\ reg \in [Thread -> Int]
  /\ histogram \in [0..MAX_ITEMS -> Int]
  /\ items \in 0..MAX_ITEMS
  /\ \A t \in Thread : pc[t] # "aborted" /\ Knows(t)

\* The program changes the monitor by the operations of the monitor only.
THEOREM RunsOnMonitor == Spec => MutexSpec
<1>1. Init => MutexInit
  BY DEF Init
<1>2. [Next]_vars => [MutexNext]_mutexVars
  <2> SUFFICES ASSUME [Next]_vars PROVE [MutexNext]_mutexVars
    OBVIOUS
  <2>1. CASE UNCHANGED vars
    BY <2>1 DEF vars
  <2>2. ASSUME NEW t \in Thread, Step(t) PROVE [MutexNext]_mutexVars
    <3>1. WaitsFor(t) \in Cond /\ Signals(t) \in Cond
      BY PCAssumption DEF WaitsFor, Signals
    <3>2. CASE Lock(t)
      BY <3>2 DEF Lock, MutexNext
    <3>3. CASE Acquire(t)
      BY <3>3 DEF Acquire, MutexNext
    <3>4. CASE Wait(t)
      BY <3>1, <3>4 DEF Wait, MutexNext
    <3>5. CASE Pass(t) \/ Load(t) \/ Store(t) \/ CheckItems(t)
      BY <3>5 DEF Pass, Load, Store, CheckItems
    <3>6. CASE Record(t)
      BY <3>1, <3>6 DEF Record, MutexNext
    <3>7. CASE Leave(t)
      BY <3>7 DEF Leave, MutexNext
    <3> QED BY <2>2, <3>2, <3>3, <3>4, <3>5, <3>6, <3>7 DEF Step
  <2> QED BY <2>1, <2>2 DEF Next
<1> QED BY <1>1, <1>2, PTL DEF Spec, MutexSpec

\* While a thread has the mutex no other thread is in its critical section.
LEMMA OthersOut ==
  ASSUME PInv, MutualExclusion, NEW t \in Thread, th[t] = "writing",
         NEW u \in Thread, u # t
  PROVE  pc[u] \notin Critical
  BY DEF PInv, Knows, MutualExclusion

\* A step that leaves items alone and moves no thread but t, in or out of its
\* critical section, keeps what the others know.
LEMMA OthersKnow ==
  ASSUME PInv, MutualExclusion, NEW t \in Thread, th[t] = "writing",
         NEW a \in Places, pc' = [pc EXCEPT ![t] = a]
  PROVE  \A u \in Thread : u # t => pc'[u] # "aborted" /\ Knows(u)'
<1> SUFFICES ASSUME NEW u \in Thread, u # t
             PROVE  pc'[u] # "aborted" /\ Knows(u)'
  OBVIOUS
<1>1. pc[u] \notin Critical
  BY OthersOut
<1>2. pc'[u] = pc[u] /\ pc[u] # "aborted"
  BY DEF PInv
<1> QED BY <1>1, <1>2 DEF Knows, Critical

LEMMA PInvStep ==
  ASSUME PInv, MutualExclusion, MutexTypeOK, QueuedOnce,
         NEW t \in Thread, Step(t)
  PROVE  PInv'
<1> USE PCAssumption
<1>1. CASE Lock(t)
  <2>1. /\ pc' = [pc EXCEPT ![t] = "test"] /\ pc[t] = "lock"
        /\ th' = [th EXCEPT ![t] = "lock"] /\ th[t] = "out"
        /\ UNCHANGED <<items, histogram, reg>>
    BY <1>1 DEF Lock, LockCall, Goto
  <2> QED BY <2>1 DEF PInv, Knows, MustWait, Critical, Places, MutexTypeOK
<1>2. CASE Acquire(t)
  <2>1. /\ UNCHANGED appVars
        /\ \E b \in Stands : th' = [th EXCEPT ![t] = b]
        /\ th[t] # "writing"
    BY <1>2 DEF Acquire, Test, LockQueue, LockTake, ReadQueue, ReadTake, Stands
  <2> QED BY <2>1 DEF PInv, Knows, MustWait, Critical, appVars, MutexTypeOK
<1>3. CASE Wait(t)
  <2>1. /\ In(t, "test") /\ UNCHANGED appVars
    BY <1>3 DEF Wait
  <2>2. pc' = [pc EXCEPT ![t] = "test"] /\ th[t] = "writing"
    BY <2>1 DEF In, appVars, PInv
  <2>3. \A u \in Thread : u # t => pc'[u] # "aborted" /\ Knows(u)'
    BY <2>2, OthersKnow DEF Places
  <2> QED BY <2>1, <2>2, <2>3 DEF PInv, Knows, Critical, appVars, Places
<1>4. CASE Pass(t)
  <2>1. /\ pc' = [pc EXCEPT ![t] = "load"] /\ th[t] = "writing"
        /\ ~MustWait(t) /\ th' = th
        /\ UNCHANGED <<items, histogram, reg>>
    BY <1>4 DEF Pass, In, Goto, mutexVars
  <2>2. \A u \in Thread : u # t => pc'[u] # "aborted" /\ Knows(u)'
    BY <2>1, OthersKnow DEF Places
  <2>3. Knows(t)'
    BY <2>1 DEF Knows, MustWait, PInv
  <2> QED BY <2>1, <2>2, <2>3 DEF PInv, Places
<1>5. CASE Load(t)
  <2>1. /\ pc' = [pc EXCEPT ![t] = "store"] /\ th[t] = "writing"
        /\ pc[t] = "load" /\ th' = th /\ reg' = [reg EXCEPT ![t] = items]
        /\ UNCHANGED <<items, histogram>>
    BY <1>5 DEF Load, In, Goto, mutexVars
  <2>2. \A u \in Thread : u # t => pc'[u] # "aborted" /\ Knows(u)'
    BY <2>1, OthersKnow DEF Places
  <2>3. Knows(t)'
    BY <2>1 DEF Knows, MustWait, PInv
  <2> QED BY <2>1, <2>2, <2>3 DEF PInv, Places
<1>6. CASE Store(t)
  <2>1. /\ pc' = [pc EXCEPT ![t] = "assert"] /\ th[t] = "writing"
        /\ pc[t] = "store" /\ th' = th
        /\ items' = IF t \in Producer THEN reg[t] + 1 ELSE reg[t] - 1
        /\ UNCHANGED <<histogram, reg>>
    BY <1>6 DEF Store, In, Goto, mutexVars
  <2>2. \A u \in Thread : u # t => pc'[u] # "aborted" /\ Knows(u)'
    BY <2>1, OthersKnow DEF Places
  <2>3. reg[t] = items /\ ~MustWait(t)
    BY <2>1 DEF PInv, Knows
  <2>4. items' \in 0..MAX_ITEMS
    BY <2>1, <2>3 DEF PInv, MustWait
  <2>5. Knows(t)'
    BY <2>1 DEF Knows, PInv
  <2> QED BY <2>1, <2>2, <2>4, <2>5 DEF PInv, Places
<1>7. CASE CheckItems(t)
  <2>1. items >= 0 /\ items <= MAX_ITEMS
    BY DEF PInv
  <2>2. /\ pc' = [pc EXCEPT ![t] = "record"] /\ th[t] = "writing"
        /\ th' = th /\ reg' = [reg EXCEPT ![t] = histogram[items]]
        /\ UNCHANGED <<items, histogram>>
    BY <1>7, <2>1 DEF CheckItems, In, Goto, mutexVars
  <2>3. \A u \in Thread : u # t => pc'[u] # "aborted" /\ Knows(u)'
    BY <2>2, OthersKnow DEF Places
  <2>4. Knows(t)'
    BY <2>2 DEF Knows, PInv
  <2> QED BY <2>2, <2>3, <2>4 DEF PInv, Places
<1>8. CASE Record(t)
  <2>1. /\ pc' = [pc EXCEPT ![t] = "unlock"] /\ th[t] = "writing"
        /\ CondSignal(t, Signals(t))
        /\ histogram' = [histogram EXCEPT ![items] = reg[t] + 1]
        /\ UNCHANGED <<items, reg>>
    BY <1>8 DEF Record, In, Goto
  <2>2. \A u \in Thread : u # t => pc'[u] # "aborted" /\ Knows(u)'
    BY <2>1, OthersKnow DEF Places
  <2>3. th'[t] = "writing"
    <3> DEFINE q == cond[Signals(t)]
    <3>1. Signals(t) \in Cond
      BY DEF Signals
    <3>2. CASE q = <<>>
      BY <2>1, <3>2 DEF CondSignal
    <3>3. CASE q # <<>>
      <4>1. q \in Seq(Thread)
        BY <3>1 DEF MutexTypeOK
      <4>2. Head(q) \in Elems(q)
        BY <3>3, <4>1 DEF Elems
      <4>3. Elems(q) \in {Elems(cond[c]) : c \in Cond}
        BY <3>1
      <4>4. Head(q) \in Standing("condBlocked")
        BY <4>2, <4>3 DEF QueuedOnce
      <4>5. th' = [th EXCEPT ![Head(q)] = "lock"]
        BY <2>1, <3>3 DEF CondSignal
      <4> QED BY <2>1, <4>4, <4>5 DEF Standing, MutexTypeOK
    <3> QED BY <3>2, <3>3
  <2>4. Knows(t)'
    BY <2>1, <2>3 DEF Knows, PInv
  <2> QED BY <2>1, <2>2, <2>4 DEF PInv, Places
<1>9. CASE Leave(t)
  <2>1. /\ \E a \in {"done", "lock"} : pc' = [pc EXCEPT ![t] = a]
        /\ th[t] = "writing"
        /\ UNCHANGED <<items, histogram, reg>>
    BY <1>9 DEF Leave, In, Goto
  <2>2. PICK a \in {"done", "lock"} : pc' = [pc EXCEPT ![t] = a]
    BY <2>1
  <2>3. \A u \in Thread : u # t => pc'[u] # "aborted" /\ Knows(u)'
    BY <2>1, <2>2, OthersKnow DEF Places
  <2>4. Knows(t)'
    BY <2>2 DEF Knows, PInv, Critical
  <2> QED BY <2>1, <2>2, <2>3, <2>4 DEF PInv, Places
<1> QED BY <1>1, <1>2, <1>3, <1>4, <1>5, <1>6, <1>7, <1>8, <1>9 DEF Step

LEMMA PInvAlways == Spec => []PInv
<1>1. Init => PInv
  BY PCAssumption DEF Init, PInv, Places, Knows, Critical
<1>2. /\ PInv /\ MutualExclusion /\ MutexTypeOK /\ QueuedOnce
      /\ [Next]_vars
      => PInv'
  <2>1. ASSUME PInv, UNCHANGED vars PROVE PInv'
    BY <2>1 DEF vars, mutexVars, appVars, PInv, Knows, MustWait
  <2> QED BY <2>1, PInvStep DEF Next
<1> QED
  BY <1>1, <1>2, RunsOnMonitor, MutexExcludes, MutexQueuesCorrect, PTL DEF Spec

\* The assertions of pc.c:34 and 53 hold for any number of producers and
\* consumers, any capacity and any number of iterations.
THEOREM PCAsserts == Spec => []AssertsHold
<1>1. PInv => AssertsHold
  BY DEF PInv, AssertsHold
<1> QED BY <1>1, PInvAlways, PTL

-----------------------------------------------------------------------------
(* Signals: why ItemsOffered holds, told alike of both conditions.         *)

Takers(c) == IF c = add THEN Consumer ELSE Producer
Senders(c) == IF c = add THEN Producer ELSE Consumer

\* How many may take what c announces, and who is about to or announces more.
Due(c) == IF c = add THEN items ELSE MAX_ITEMS - items
Offers(c) == OnTheWay(Takers(c)) \cup AboutToSignal(Senders(c))

Offered(c) == cond[c] # <<>> => Due(c) <= Cardinality(Offers(c))

\* Who waits on a condition is at its test, and of the kind that waits on it.
WaitersPlaced ==
  /\ \A t \in Thread : th[t] = "condBlocked" => pc[t] = "test"
  /\ \A c \in {add, rem} : Elems(cond[c]) \subseteq Takers(c)

OInv == PInv /\ MInv /\ WaitersPlaced /\ ItemsOffered

LEMMA Sides ==
  ASSUME NEW t \in Thread
  PROVE  /\ WaitsFor(t) \in {add, rem} /\ Signals(t) \in {add, rem}
         /\ \A c \in {add, rem} : /\ c = WaitsFor(t) <=> c # Signals(t)
                                  /\ t \in Takers(c) <=> c = WaitsFor(t)
                                  /\ t \in Senders(c) <=> c = Signals(t)
  BY PCAssumption DEF WaitsFor, Signals, Takers, Senders

LEMMA BothOffered == ItemsOffered <=> \A c \in {add, rem} : Offered(c)
  BY PCAssumption DEF ItemsOffered, Offered, Offers, Due, Takers, Senders

LEMMA BothOfferedNext == ItemsOffered' <=> \A c \in {add, rem} : Offered(c)'
  BY PCAssumption DEF ItemsOffered, Offered, Offers, Due, Takers, Senders

LEMMA CountsOf ==
  ASSUME NEW c \in {add, rem}
  PROVE  /\ Due(c) \in Int \/ items \notin Int
         /\ Cardinality(Offers(c)) \in Nat /\ Cardinality(Offers(c)') \in Nat
         /\ Offers(c) \subseteq Offers(c)' =>
              Cardinality(Offers(c)) <= Cardinality(Offers(c)')
         /\ \A t \in Thread : Offers(c) \ {t} \subseteq Offers(c)' =>
              Cardinality(Offers(c)) <= Cardinality(Offers(c)') + 1
         /\ \A h \in Offers(c)' \ Offers(c) : Offers(c) \subseteq Offers(c)' =>
              Cardinality(Offers(c)) + 1 <= Cardinality(Offers(c)')
         /\ \A t \in Thread, h \in Offers(c)' \ Offers(c) :
              Offers(c) \ {t} \subseteq Offers(c)' =>
                Cardinality(Offers(c)) <= Cardinality(Offers(c)')
<1> DEFINE A == Offers(c)
           B == Offers(c)'
<1>1. IsFiniteSet(A) /\ IsFiniteSet(B)
  <2>1. A \subseteq Thread /\ B \subseteq Thread
    BY PCAssumption DEF Offers, OnTheWay, AboutToSignal, Takers, Senders
  <2> QED BY <2>1, MutexAssumption, FS_Subset
<1>2. Due(c) \in Int \/ items \notin Int
  BY PCAssumption DEF Due
<1> HIDE DEF A, B
<1>3. Cardinality(A) \in Nat /\ Cardinality(B) \in Nat
  BY <1>1, FS_CardinalityType
<1>4. A \subseteq B => Cardinality(A) <= Cardinality(B)
  BY <1>1, FS_Subset
<1>5. ASSUME NEW h \in B \ A, A \subseteq B
      PROVE  Cardinality(A) + 1 <= Cardinality(B)
  <2>1. Cardinality(A \cup {h}) = Cardinality(A) + 1
    BY <1>1, <1>5, FS_AddElement
  <2>2. A \cup {h} \subseteq B
    BY <1>5
  <2>3. Cardinality(A \cup {h}) <= Cardinality(B)
    BY <1>1, <2>2, FS_Subset
  <2> QED BY <2>1, <2>3
<1>6. ASSUME NEW t \in Thread, A \ {t} \subseteq B
      PROVE  /\ Cardinality(A) <= Cardinality(B) + 1
             /\ \A h \in B \ A : Cardinality(A) <= Cardinality(B)
  <2>1. /\ IsFiniteSet(A \ {t})
        /\ Cardinality(A \ {t}) \in {Cardinality(A) - 1, Cardinality(A)}
    BY <1>1, FS_RemoveElement
  <2>2. Cardinality(A \ {t}) <= Cardinality(B)
    BY <1>1, <1>6, FS_Subset
  <2>3. ASSUME NEW h \in B \ A PROVE Cardinality(A) <= Cardinality(B)
    <3>1. Cardinality((A \ {t}) \cup {h}) = Cardinality(A \ {t}) + 1
      BY <2>1, <2>3, FS_AddElement
    <3>2. (A \ {t}) \cup {h} \subseteq B
      BY <1>6, <2>3
    <3>3. Cardinality((A \ {t}) \cup {h}) <= Cardinality(B)
      BY <1>1, <3>2, FS_Subset
    <3> QED BY <1>3, <2>1, <3>1, <3>3
  <2> QED BY <1>3, <2>1, <2>2, <2>3
<1> QED BY <1>2, <1>3, <1>4, <1>5, <1>6 DEF A, B

\* A step that leaves items and the conditions alone, and takes no thread off
\* its way, offers what was offered.
LEMMA QuietOffers ==
  ASSUME OInv, UNCHANGED <<items, cond>>,
         \A u \in Thread :
           /\ th'[u] = "condBlocked" <=> th[u] = "condBlocked"
           /\ th[u] = "condBlocked" => pc'[u] = pc[u]
           /\ pc[u] \in {"test", "load", "store"} /\ th[u] # "condBlocked"
                => pc'[u] \in {"test", "load", "store"}
           /\ pc[u] \in {"assert", "record"} => pc'[u] \in {"assert", "record"}
  PROVE  WaitersPlaced' /\ ItemsOffered'
<1>1. WaitersPlaced'
  BY DEF OInv, WaitersPlaced, Takers
<1>2. ASSUME NEW c \in {add, rem} PROVE Offered(c)'
  <2>1. Offers(c) \subseteq Offers(c)'
    BY PCAssumption DEF Offers, OnTheWay, AboutToSignal, Takers, Senders
  <2>2. /\ Cardinality(Offers(c)) <= Cardinality(Offers(c)')
        /\ Cardinality(Offers(c)) \in Nat /\ Cardinality(Offers(c)') \in Nat
    BY <2>1, CountsOf
  <2>3. Due(c)' = Due(c) /\ Due(c) \in Int
    BY PCAssumption DEF OInv, PInv, Due
  <2>4. Offered(c)
    BY BothOffered DEF OInv
  <2> QED BY <2>2, <2>3, <2>4 DEF Offered
<1> QED BY <1>1, <1>2, BothOfferedNext

\* A consumer that starts to wait saw no item, a producer no room.
LEMMA WaitOffers ==
  ASSUME OInv, NEW t \in Thread, Wait(t)
  PROVE  WaitersPlaced' /\ ItemsOffered'
<1>1. /\ pc[t] = "test" /\ th[t] = "writing" /\ MustWait(t)
      /\ cond' = [cond EXCEPT ![WaitsFor(t)] = Append(cond[WaitsFor(t)], t)]
      /\ Release(t, "condBlocked")
      /\ UNCHANGED <<items, pc>>
  BY DEF Wait, In, CondWait, appVars
<1>2. \A u \in Thread : th'[u] = "condBlocked" <=> th[u] = "condBlocked" \/ u = t
  <2>1. Standing("condBlocked")' = Standing("condBlocked") \cup {t}
    BY <1>1, ReleaseCorrect DEF OInv
  <2> QED BY <2>1 DEF Standing
<1>3. cond \in [Cond -> Seq(Thread)] /\ add \in Cond /\ rem \in Cond
  BY PCAssumption DEF OInv, MInv, MutexTypeOK
<1>4. WaitersPlaced'
  <2>1. \A c \in {add, rem} : Elems(cond'[c]) \subseteq Takers(c)
    <3> SUFFICES ASSUME NEW c \in {add, rem}
                 PROVE  Elems(cond'[c]) \subseteq Takers(c)
      OBVIOUS
    <3>1. Elems(cond[c]) \subseteq Takers(c)
      BY DEF OInv, WaitersPlaced
    <3>2. CASE c = WaitsFor(t)
      <4>1. Elems(cond'[c]) = Elems(cond[c]) \cup {t}
        <5>1. Once(cond[c]) /\ t \notin Elems(cond[c])
          BY <1>1, <1>3, QueuedBlocked DEF OInv, MInv, QueuedOnce, Standing
        <5> QED BY <1>1, <1>3, <3>2, <5>1, EnqueueOnce
      <4> QED BY <3>1, <3>2, <4>1, Sides
    <3>3. CASE c # WaitsFor(t)
      BY <1>1, <1>3, <3>1, <3>3
    <3> QED BY <3>2, <3>3
  <2> QED BY <1>1, <1>2, <2>1 DEF OInv, WaitersPlaced, Takers
<1>5. ASSUME NEW c \in {add, rem} PROVE Offered(c)'
  <2>1. Cardinality(Offers(c)) \in Nat /\ Cardinality(Offers(c)') \in Nat
    BY CountsOf
  <2>2. items \in Int /\ MAX_ITEMS \in Int
    BY PCAssumption DEF OInv, PInv
  <2>3. CASE c = WaitsFor(t)
    <3>1. Due(c)' <= 0
      BY <1>1, <2>2, <2>3, PCAssumption DEF Due, MustWait, WaitsFor
    <3>2. Due(c)' \in Int
      BY <1>1, <2>2 DEF Due
    <3> QED BY <2>1, <3>1, <3>2 DEF Offered
  <2>4. CASE c # WaitsFor(t)
    <3>1. t \notin Takers(c)
      BY <2>4, Sides
    <3>2. Offers(c) \subseteq Offers(c)'
      BY <1>1, <1>2, <3>1, PCAssumption
         DEF Offers, OnTheWay, AboutToSignal, Takers, Senders
    <3>3. Cardinality(Offers(c)) <= Cardinality(Offers(c)')
      BY <3>2, CountsOf
    <3>4. Due(c)' = Due(c) /\ Due(c) \in Int /\ cond'[c] = cond[c]
      BY <1>1, <1>3, <2>2, <2>4 DEF Due
    <3>5. Offered(c)
      BY BothOffered DEF OInv
    <3> QED BY <2>1, <3>3, <3>4, <3>5 DEF Offered
  <2> QED BY <2>3, <2>4
<1> QED BY <1>4, <1>5, BothOfferedNext

\* A taker is off its way as it takes, and then announces room or an item.
LEMMA StoreOffers ==
  ASSUME OInv, NEW t \in Thread, Store(t)
  PROVE  WaitersPlaced' /\ ItemsOffered'
<1>1. /\ pc[t] = "store" /\ th[t] = "writing"
      /\ pc' = [pc EXCEPT ![t] = "assert"]
      /\ th' = th /\ cond' = cond
      /\ items' = IF t \in Producer THEN items + 1 ELSE items - 1
      /\ pc \in [Thread -> Places] /\ items \in Int
  BY DEF Store, In, Goto, mutexVars, OInv, PInv, Knows
<1>2. WaitersPlaced'
  BY <1>1 DEF OInv, WaitersPlaced, Takers
<1>3. ASSUME NEW c \in {add, rem} PROVE Offered(c)'
  <2>1. /\ Cardinality(Offers(c)) \in Nat /\ Cardinality(Offers(c)') \in Nat
        /\ Due(c) \in Int
    BY <1>1, CountsOf
  <2>2. Offered(c)
    BY BothOffered DEF OInv
  <2>3. CASE c = Signals(t)
    <3>1. t \in Senders(c) /\ t \notin Takers(c)
      BY <2>3, Sides
    <3>2. t \in Offers(c)' \ Offers(c) /\ Offers(c) \subseteq Offers(c)'
      BY <1>1, <3>1, PCAssumption
         DEF Offers, OnTheWay, AboutToSignal, Takers, Senders
    <3>3. Cardinality(Offers(c)) + 1 <= Cardinality(Offers(c)')
      BY <3>2, CountsOf
    <3>4. Due(c)' = Due(c) + 1
      BY <1>1, <2>3, PCAssumption DEF Due, Signals
    <3> QED BY <1>1, <2>1, <2>2, <3>3, <3>4 DEF Offered
  <2>4. CASE c = WaitsFor(t)
    <3>1. t \in Takers(c) /\ t \notin Senders(c)
      BY <2>4, Sides
    <3>2. Offers(c) \ {t} \subseteq Offers(c)'
      BY <1>1, <3>1, PCAssumption
         DEF Offers, OnTheWay, AboutToSignal, Takers, Senders
    <3>3. Cardinality(Offers(c)) <= Cardinality(Offers(c)') + 1
      BY <3>2, CountsOf
    <3>4. Due(c)' = Due(c) - 1
      BY <1>1, <2>4, PCAssumption DEF Due, WaitsFor
    <3> QED BY <1>1, <2>1, <2>2, <3>3, <3>4 DEF Offered
  <2> QED BY <2>3, <2>4, Sides
<1> QED BY <1>2, <1>3, BothOfferedNext

\* The signal sets one waiter on its way for the announcement it was.
LEMMA RecordOffers ==
  ASSUME OInv, NEW t \in Thread, Record(t)
  PROVE  WaitersPlaced' /\ ItemsOffered'
<1> DEFINE q == cond[Signals(t)]
<1>1. /\ pc[t] = "record" /\ th[t] = "writing"
      /\ pc' = [pc EXCEPT ![t] = "unlock"]
      /\ CondSignal(t, Signals(t))
      /\ items' = items
      /\ pc \in [Thread -> Places] /\ items \in Int
  BY DEF Record, In, Goto, OInv, PInv
<1>2. /\ cond \in [Cond -> Seq(Thread)] /\ add \in Cond /\ rem \in Cond
      /\ th \in [Thread -> Stands] /\ Signals(t) \in Cond
  BY PCAssumption DEF OInv, MInv, MutexTypeOK, Signals
<1>3. CASE q = <<>>
  <2>1. cond' = cond /\ th' = th
    BY <1>1, <1>3 DEF CondSignal
  <2>2. WaitersPlaced'
    BY <1>1, <2>1 DEF OInv, WaitersPlaced, Takers
  <2>3. ASSUME NEW c \in {add, rem} PROVE Offered(c)'
    <3>1. CASE c = Signals(t)
      BY <1>3, <2>1, <3>1 DEF Offered
    <3>2. CASE c # Signals(t)
      <4>1. t \notin Senders(c)
        BY <3>2, Sides
      <4>2. Offers(c) \subseteq Offers(c)'
        BY <1>1, <2>1, <4>1, PCAssumption
           DEF Offers, OnTheWay, AboutToSignal, Takers, Senders
      <4>3. /\ Cardinality(Offers(c)) <= Cardinality(Offers(c)')
            /\ Cardinality(Offers(c)) \in Nat /\ Cardinality(Offers(c)') \in Nat
        BY <4>2, CountsOf
      <4>4. Due(c)' = Due(c) /\ Due(c) \in Int
        BY <1>1, PCAssumption DEF Due
      <4>5. Offered(c)
        BY BothOffered DEF OInv
      <4> QED BY <2>1, <4>3, <4>4, <4>5 DEF Offered
    <3> QED BY <3>1, <3>2
  <2> QED BY <2>2, <2>3, BothOfferedNext
<1>4. CASE q # <<>>
  <2>1. /\ cond' = [cond EXCEPT ![Signals(t)] = Tail(q)]
        /\ th' = [th EXCEPT ![Head(q)] = "lock"]
    BY <1>1, <1>4 DEF CondSignal
  <2>2. /\ Head(q) \in Elems(q) /\ Elems(Tail(q)) \subseteq Elems(q)
    <3>1. Once(q)
      BY <1>2 DEF OInv, MInv, QueuedOnce
    <3> QED BY <1>2, <1>4, <3>1, DequeueOnce
  <2>3. /\ Head(q) \in Thread /\ th[Head(q)] = "condBlocked"
        /\ pc[Head(q)] = "test" /\ Head(q) \in Takers(Signals(t))
        /\ Head(q) # t
    <3>1. Elems(q) \subseteq Standing("condBlocked")
      BY <1>2, QueuedBlocked DEF OInv
    <3>2. Elems(q) \subseteq Takers(Signals(t))
      BY Sides DEF OInv, WaitersPlaced
    <3> QED BY <1>1, <2>2, <3>1, <3>2 DEF Standing, OInv, WaitersPlaced
  <2>4. WaitersPlaced'
    <3>1. ASSUME NEW c \in {add, rem} PROVE Elems(cond'[c]) \subseteq Elems(cond[c])
      BY <1>2, <2>1, <2>2
    <3> QED BY <1>1, <1>2, <2>1, <2>3, <3>1 DEF OInv, WaitersPlaced, Takers
  <2>5. ASSUME NEW c \in {add, rem} PROVE Offered(c)'
    <3>1. /\ Due(c)' = Due(c) /\ Due(c) \in Int
          /\ Cardinality(Offers(c)) \in Nat /\ Cardinality(Offers(c)') \in Nat
      BY <1>1, PCAssumption, CountsOf DEF Due
    <3>2. cond'[c] # <<>> => cond[c] # <<>>
      BY <1>2, <1>4, <2>1
    <3>3. Cardinality(Offers(c)) <= Cardinality(Offers(c)')
      <4>1. CASE c = Signals(t)
        <5>1. t \in Senders(c) /\ t \notin Takers(c)
          BY <4>1, Sides
        <5>2. Head(q) \in Offers(c)'
          BY <1>1, <1>2, <2>1, <2>3, <4>1
             DEF Offers, OnTheWay, AboutToSignal, Takers
        <5>3. Head(q) \notin Offers(c)
          BY <2>3 DEF Offers, OnTheWay, AboutToSignal
        <5>4. Offers(c) \ {t} \subseteq Offers(c)'
          BY <1>1, <1>2, <2>1, <2>3, PCAssumption
             DEF Offers, OnTheWay, AboutToSignal, Takers, Senders
        <5> QED BY <5>2, <5>3, <5>4, CountsOf
      <4>2. CASE c # Signals(t)
        <5>1. t \notin Senders(c)
          BY <4>2, Sides
        <5>2. Offers(c) \subseteq Offers(c)'
          BY <1>1, <1>2, <2>1, <2>3, <5>1, PCAssumption
             DEF Offers, OnTheWay, AboutToSignal, Takers, Senders
        <5> QED BY <5>2, CountsOf
      <4> QED BY <4>1, <4>2
    <3>4. Offered(c)
      BY BothOffered DEF OInv
    <3> QED BY <3>1, <3>2, <3>3, <3>4 DEF Offered
  <2> QED BY <2>4, <2>5, BothOfferedNext
<1> QED BY <1>3, <1>4

LEMMA OffersStep ==
  ASSUME OInv, NEW t \in Thread, Step(t)
  PROVE  WaitersPlaced' /\ ItemsOffered'
<1>1. /\ pc \in [Thread -> Places] /\ th \in [Thread -> Stands]
      /\ items >= 0 /\ items <= MAX_ITEMS
  BY PCAssumption DEF OInv, PInv, MInv, MutexTypeOK
<1>2. CASE Lock(t)
  <2>1. /\ pc' = [pc EXCEPT ![t] = "test"] /\ pc[t] = "lock"
        /\ th' = [th EXCEPT ![t] = "lock"] /\ th[t] = "out"
        /\ UNCHANGED <<items, cond>>
    BY <1>2 DEF Lock, LockCall, Goto
  <2> QED BY <1>1, <2>1, QuietOffers
<1>3. CASE Acquire(t)
  <2>1. /\ UNCHANGED <<items, pc, cond>>
        /\ \E b \in Stands \ {"condBlocked"} : th' = [th EXCEPT ![t] = b]
        /\ th[t] # "condBlocked"
    BY <1>3 DEF Acquire, Test, LockQueue, LockTake, ReadQueue, ReadTake, Stands,
                appVars
  <2> QED BY <1>1, <2>1, QuietOffers
<1>4. CASE Pass(t) \/ Load(t) \/ CheckItems(t)
  <2>1. /\ \/ pc[t] = "test" /\ pc' = [pc EXCEPT ![t] = "load"]
           \/ pc[t] = "load" /\ pc' = [pc EXCEPT ![t] = "store"]
           \/ pc[t] = "assert" /\ pc' = [pc EXCEPT ![t] = "record"]
        /\ th[t] = "writing"
        /\ UNCHANGED <<items, cond, th>>
    BY <1>1, <1>4 DEF Pass, Load, CheckItems, In, Goto, mutexVars
  <2> QED BY <1>1, <2>1, QuietOffers
<1>5. CASE Leave(t)
  <2>1. /\ pc[t] = "unlock" /\ th[t] = "writing"
        /\ \E a \in Places : pc' = [pc EXCEPT ![t] = a]
        /\ UNCHANGED <<items, cond>>
        /\ Release(t, "out")
    BY <1>5 DEF Leave, In, Goto, Unlock, Places
  <2>2. Standing("condBlocked")' = Standing("condBlocked")
    BY <2>1, ReleaseCorrect DEF OInv
  <2>3. \A u \in Thread : th'[u] = "condBlocked" <=> th[u] = "condBlocked"
    BY <2>2 DEF Standing
  <2> QED BY <1>1, <2>1, <2>3, QuietOffers
<1> QED BY <1>2, <1>3, <1>4, <1>5, WaitOffers, StoreOffers, RecordOffers DEF Step

\* For any number of producers and consumers, any capacity and any number of
\* iterations: while consumers wait on add, each item has a consumer on its way
\* to it or a producer about to signal, and the same of producers and room;
\* no signal of pc.c:37 and 56 that is needed is missed.
THEOREM SignalsSuffice == Spec => []ItemsOffered
<1>1. Init /\ PInv /\ MInv => OInv
  <2>1. Init => cond[add] = <<>> /\ cond[rem] = <<>>
    BY PCAssumption DEF Init, MutexInit
  <2>2. Init => \A t \in Thread : th[t] # "condBlocked"
    BY DEF Init, MutexInit
  <2>3. Elems(<<>>) = {}
    BY DEF Elems
  <2> QED BY <2>1, <2>2, <2>3 DEF OInv, WaitersPlaced, ItemsOffered
<1>2. OInv /\ [Next]_vars /\ PInv' /\ MInv' => OInv'
  <2>1. ASSUME OInv, UNCHANGED vars PROVE WaitersPlaced' /\ ItemsOffered'
    BY <2>1, QuietOffers DEF vars, mutexVars, appVars
  <2> QED BY <2>1, OffersStep DEF Next, OInv
<1>3. OInv => ItemsOffered
  BY DEF OInv
<1>4. Spec => []MInv
  BY RunsOnMonitor, MInvAlways, PTL
<1> QED
  BY <1>1, <1>2, <1>3, <1>4, PInvAlways, PTL DEF Spec

-----------------------------------------------------------------------------
(* The histogram.                                                          *)

\* Threads that have recorded an iteration they still have among those left.
Recorded == {t \in Thread : pc[t] = "unlock"}

\* What is in the histogram and what is left make up all iterations.
Balance ==
  Sum(histogram) + Sum(left)
    = Cardinality(Thread) * NUM_ITERATIONS + Cardinality(Recorded)

HInv ==
  /\ left \in [Thread -> Int]
  /\ \A t \in Thread : /\ pc[t] = "done" => left[t] = 0
                       /\ pc[t] = "record" => reg[t] = histogram[items]
  /\ Balance

LEMMA Totals ==
  ASSUME PInv, HInv
  PROVE  /\ Sum(histogram) \in Int /\ Sum(left) \in Int
         /\ IsFiniteSet(0..MAX_ITEMS) /\ IsFiniteSet(Thread)
         /\ IsFiniteSet(Recorded) /\ Cardinality(Recorded) \in Int
         /\ Cardinality(Thread) * NUM_ITERATIONS \in Int
<1>1. IsFiniteSet(0..MAX_ITEMS) /\ IsFiniteSet(Thread)
  BY PCAssumption, MutexAssumption, FS_Interval
<1>2. IsFiniteSet(Recorded)
  BY <1>1, FS_Subset DEF Recorded
<1>3. Cardinality(Recorded) \in Nat /\ Cardinality(Thread) \in Nat
  BY <1>1, <1>2, FS_CardinalityType
<1>4. Cardinality(Thread) * NUM_ITERATIONS \in Int
  BY <1>3, PCAssumption
<1>5. Sum(histogram) \in Int
  <2>1. histogram \in [0..MAX_ITEMS -> Int]
    BY DEF PInv
  <2> QED BY <1>1, <2>1, SumType, Zenon
<1>6. Sum(left) \in Int
  <2>1. left \in [Thread -> Int]
    BY DEF HInv
  <2> QED BY <1>1, <2>1, SumType, Zenon
<1> QED BY <1>1, <1>2, <1>3, <1>4, <1>5, <1>6

LEMMA HInvInit == Init => HInv
<1> SUFFICES ASSUME Init PROVE HInv
  OBVIOUS
<1>1. IsFiniteSet(0..MAX_ITEMS) /\ IsFiniteSet(Thread)
  BY PCAssumption, MutexAssumption, FS_Interval
<1>2. Cardinality(0..MAX_ITEMS) \in Nat /\ Cardinality(Thread) \in Nat
  BY <1>1, FS_CardinalityType
<1>3. Sum(histogram) = 0
  <2>1. Sum(histogram) = Cardinality(0..MAX_ITEMS) * 0
    <3>1. histogram = [n \in 0..MAX_ITEMS |-> 0] /\ 0 \in Int
      BY DEF Init
    <3> QED BY <1>1, <3>1, SumConstant, Zenon
  <2>2. \A n \in Nat : n * 0 = 0
    OBVIOUS
  <2> QED BY <1>2, <2>1, <2>2
<1>4. Sum(left) = Cardinality(Thread) * NUM_ITERATIONS
  <2>1. left = [t \in Thread |-> NUM_ITERATIONS] /\ NUM_ITERATIONS \in Int
    BY PCAssumption DEF Init
  <2> QED BY <1>1, <2>1, SumConstant, Zenon
<1>5. Cardinality(Recorded) = 0
  <2>1. Recorded = {}
    BY DEF Init, Recorded
  <2> QED BY <2>1, FS_EmptySet
<1>6. Cardinality(Thread) * NUM_ITERATIONS \in Int
  BY <1>2, PCAssumption
<1>7. Balance
  BY <1>3, <1>4, <1>5, <1>6 DEF Balance
<1> QED BY <1>7, PCAssumption DEF Init, HInv

\* A step that does not count anything.
LEMMA HInvQuiet ==
  ASSUME HInv, UNCHANGED <<histogram, left>>,
         \A u \in Thread :
           /\ pc'[u] = "unlock" <=> pc[u] = "unlock"
           /\ pc'[u] = "done" => pc[u] = "done"
           /\ pc'[u] = "record" => reg'[u] = histogram[items']
  PROVE  HInv'
<1>1. Recorded' = Recorded
  BY DEF Recorded
<1> QED BY <1>1 DEF HInv, Balance

LEMMA HInvRecord ==
  ASSUME PInv, HInv, MutualExclusion, NEW t \in Thread, Record(t)
  PROVE  HInv'
<1>1. /\ pc[t] = "record" /\ th[t] = "writing"
      /\ pc' = [pc EXCEPT ![t] = "unlock"]
      /\ histogram' = [histogram EXCEPT ![items] = histogram[items] + 1]
      /\ UNCHANGED <<items, left, reg>>
      /\ pc \in [Thread -> Places] /\ items \in 0..MAX_ITEMS
      /\ histogram \in [0..MAX_ITEMS -> Int]
  BY DEF Record, In, Goto, HInv, PInv
<1>2. Sum(histogram') = Sum(histogram) + 1
  <2> DEFINE S == 0..MAX_ITEMS
  <2>1. IsFiniteSet(S) /\ 1 \in Int
    BY Totals
  <2>2. histogram \in [S -> Int] /\ items \in S
    BY <1>1
  <2>3. histogram' = [histogram EXCEPT ![items] = histogram[items] + 1]
    BY <1>1
  <2> HIDE DEF S
  <2> QED BY <2>1, <2>2, <2>3, SumAdd, ZenonT(60)
<1>3. Cardinality(Recorded') = Cardinality(Recorded) + 1
  <2>1. Recorded' = Recorded \cup {t} /\ t \notin Recorded
    BY <1>1 DEF Recorded
  <2> QED BY <2>1, Totals, FS_AddElement
<1>4. Balance'
  <2>1. Sum(left') = Sum(left)
    BY <1>1
  <2> QED BY <1>2, <1>3, <2>1, Totals DEF HInv, Balance
<1>5. \A u \in Thread : u # t => pc[u] # "record"
  BY <1>1, OthersOut DEF Critical
<1> QED BY <1>1, <1>4, <1>5 DEF HInv

LEMMA HInvLeave ==
  ASSUME PInv, HInv, NEW t \in Thread, Leave(t)
  PROVE  HInv'
<1>1. /\ pc[t] = "unlock"
      /\ pc' = [pc EXCEPT ![t] = IF left[t] = 1 THEN "done" ELSE "lock"]
      /\ left' = [left EXCEPT ![t] = left[t] + (-1)]
      /\ UNCHANGED <<items, histogram, reg>>
      /\ pc \in [Thread -> Places] /\ left \in [Thread -> Int]
  BY DEF Leave, In, Goto, HInv, PInv
<1>2. Sum(left') = Sum(left) - 1
  <2>1. Sum(left') = Sum(left) + (-1)
    <3>1. IsFiniteSet(Thread) /\ -1 \in Int
      BY MutexAssumption
    <3>2. /\ left \in [Thread -> Int]
          /\ left' = [left EXCEPT ![t] = left[t] + (-1)]
      BY <1>1
    <3> QED BY <3>1, <3>2, SumAdd, ZenonT(60)
  <2> QED BY <2>1, Totals
<1>3. Cardinality(Recorded') = Cardinality(Recorded) - 1
  <2>1. Recorded' = Recorded \ {t} /\ t \in Recorded
    BY <1>1 DEF Recorded
  <2> QED BY <2>1, Totals, FS_RemoveElement
<1>4. Balance'
  BY <1>1, <1>2, <1>3, Totals DEF HInv, Balance
<1> QED BY <1>1, <1>4 DEF HInv

LEMMA HInvStep ==
  ASSUME PInv, HInv, MutualExclusion, NEW t \in Thread, Step(t)
  PROVE  HInv'
<1>1. /\ pc \in [Thread -> Places] /\ reg \in [Thread -> Int]
      /\ items >= 0 /\ items <= MAX_ITEMS
  BY PCAssumption DEF PInv
<1>2. CASE Lock(t) \/ Pass(t) \/ Load(t)
  BY <1>1, <1>2, HInvQuiet DEF Lock, Pass, Load, In, Goto, HInv
<1>3. CASE Acquire(t) \/ Wait(t)
  BY <1>3, HInvQuiet DEF Acquire, Wait, appVars, HInv
<1>4. CASE Store(t)
  <2>1. \A u \in Thread : u # t => pc[u] # "record"
    BY <1>4, OthersOut DEF Store, In, Critical
  <2> QED BY <1>1, <1>4, <2>1, HInvQuiet DEF Store, In, Goto
<1>5. CASE CheckItems(t)
  BY <1>1, <1>5, HInvQuiet DEF CheckItems, In, Goto, HInv
<1> QED BY <1>2, <1>3, <1>4, <1>5, HInvRecord, HInvLeave DEF Step

\* For any number of producers and consumers, any capacity and any number of
\* iterations: when all threads are done, every change of items is in the
\* histogram, each once (pc.c:35, 54, 89).
THEOREM HistogramAddsUp == Spec => []HistogramComplete
<1>1. PInv /\ HInv /\ MutualExclusion /\ [Next]_vars => HInv'
  <2>1. ASSUME HInv, UNCHANGED vars PROVE HInv'
    BY <2>1, HInvQuiet DEF vars, appVars, HInv
  <2> QED BY <2>1, HInvStep DEF Next
<1>2. ASSUME PInv, HInv, Done
      PROVE  FoldFunction(+, 0, histogram) = Cardinality(Thread) * NUM_ITERATIONS
  <2>1. Cardinality(Recorded) = 0
    <3>1. Recorded = {}
      BY <1>2 DEF Done, Recorded
    <3> QED BY <3>1, FS_EmptySet
  <2>2. Sum(left) = 0
    <3>1. left = [t \in Thread |-> 0]
      BY <1>2 DEF Done, HInv
    <3>2. Sum(left) = Cardinality(Thread) * 0
      BY <1>2, <3>1, Totals, SumConstant, 0 \in Int, Zenon
    <3>3. Cardinality(Thread) \in Nat /\ \A n \in Nat : n * 0 = 0
      BY MutexAssumption, FS_CardinalityType
    <3> QED BY <3>2, <3>3
  <2>3. Sum(histogram) = Cardinality(Thread) * NUM_ITERATIONS
    BY <1>2, <2>1, <2>2, Totals DEF HInv, Balance
  <2> QED BY <2>3 DEF Sum
<1>3. PInv /\ HInv => HistogramComplete
  BY <1>2 DEF HistogramComplete
<1> QED
  BY <1>1, <1>3, HInvInit, PInvAlways, RunsOnMonitor, MutexExcludes, PTL DEF Spec
=============================================================================
