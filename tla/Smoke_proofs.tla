---------------------------- MODULE Smoke_proofs ----------------------------
(***************************************************************************)
(* Proofs about Smoke, for any number of rounds: agent and smokers run on  *)
(* the monitor of MutexCond, and a round that ends has ended right.        *)
(***************************************************************************)
EXTENDS Smoke, MutexCond_proofs

\* Smokers that have been signalled and have not seen to it yet.
Signalled == {r \in Resource : pc[r] = "woken" /\ th[r] # "condBlocked"}

\* The thread that waits for condition c.
Waiter(c) == IF c = smoke THEN agent ELSE c

Spots == {"lock", "wait", "woken", "chain", "choose", "signal", "done"}

SmokeTypes ==
  /\ table \in [Resource -> Int]
  /\ signal_count \in [Resource -> Int]
  /\ smoke_count \in [Resource -> Int]
  /\ pc \in [Thread -> Spots]
  /\ pending \subseteq Resource

\* Where threads are when they have the mutex or wait for a condition.
Seats ==
  /\ \A t \in Thread : pc[t] \in {"chain", "signal"} => th[t] = "writing"
  /\ \A t \in Thread : th[t] = "condBlocked" =>
       pc[t] = IF t = agent THEN "choose" ELSE "woken"
  /\ \A c \in Cond : Elems(cond[c]) \subseteq {Waiter(c)}

\* Between rounds: nothing is on the table and nobody is on the way to it.
Rest ==
  /\ smoke_count = signal_count
  /\ table = Zero
  /\ Signalled = {} /\ pending = {}
  /\ pc[agent] \in {"lock", "choose", "done"} /\ th[agent] # "condBlocked"

\* In a round for smoker w: each of the two resources is to be signalled, or
\* its smoker is on the way to put it down, or it lies on the table, or its
\* signal was lost; w is signalled only when both lie there.
Round(w) ==
  /\ signal_count = [smoke_count EXCEPT ![w] = @ + 1]
  /\ \/ In(agent, "signal")
     \/ pc[agent] = "choose" /\ th[agent] = "condBlocked" /\ pending = {}
  /\ pending \subseteq Others(w)
  /\ table[w] = 0
  /\ \A o \in Others(w) : /\ table[o] \in {0, 1}
                          /\ table[o] = 1 => o \notin pending \cup Signalled
                          /\ o \in pending => o \notin Signalled
  /\ w \in Signalled => \A o \in Others(w) : table[o] = 1

Phase == Rest \/ \E w \in Resource : Round(w)

SmokeInv == MInv /\ SmokeTypes /\ Seats /\ Phase

-----------------------------------------------------------------------------
(* The monitor.                                                            *)

LEMMA Names ==
  /\ agent \in Thread /\ smoke \in Cond
  /\ \A r \in Resource : r \in Thread /\ r \in Cond /\ r # agent /\ r # smoke
  /\ \A c \in Cond : Waiter(c) \in Thread
  BY SmokeAssumption DEF Waiter

LEMMA OthersExist ==
  ASSUME NEW r \in Resource
  PROVE  Others(r) # {}
<1>1. Cardinality({r}) = 1
  BY FS_Singleton
<1>2. Resource # {r}
  BY <1>1, SmokeAssumption
<1> QED BY <1>2 DEF Others

\* The first of the members of S in an order that has them all is one of them.
LEMMA FirstOfType ==
  ASSUME NEW S \in SUBSET Resource, S # {}
  PROVE  /\ FirstOf(<<match, paper, tobacco>>, S) \in S
         /\ FirstOf(<<match, tobacco, paper>>, S) \in S
<1>1. ASSUME NEW a, NEW b, NEW c, a \in S \/ b \in S \/ c \in S
      PROVE  FirstOf(<<a, b, c>>, S) \in S
  <2> DEFINE order == <<a, b, c>>
             IsFirst(i) == order[i] \in S /\ \A j \in 1..(i - 1) : order[j] \notin S
  <2>1. DOMAIN order = 1..3
    OBVIOUS
  <2>2. order[1] = a /\ order[2] = b /\ order[3] = c
    OBVIOUS
  <2>3. \E i \in 1..3 : IsFirst(i)
    <3>1. CASE a \in S
      <4>1. IsFirst(1)
        BY <2>2, <3>1
      <4> QED BY <4>1
    <3>2. CASE a \notin S /\ b \in S
      <4>1. IsFirst(2)
        BY <2>2, <3>2
      <4> QED BY <4>1
    <3>3. CASE a \notin S /\ b \notin S
      <4>1. IsFirst(3)
        BY <1>1, <2>2, <3>3
      <4> QED BY <4>1
    <3> QED BY <3>1, <3>2, <3>3
  <2>4. IsFirst(CHOOSE i \in DOMAIN order : IsFirst(i))
    BY <2>1, <2>3
  <2> QED BY <2>4 DEF FirstOf
<1>2. match \in S \/ paper \in S \/ tobacco \in S
  BY DEF Resource
<1> QED BY <1>1, <1>2

LEMMA SmokeTypesInit == Init => SmokeTypes
  BY DEF Init, SmokeTypes, Spots, Zero

LEMMA SmokeTypesStep == SmokeTypes /\ [Next]_vars => SmokeTypes'
<1>1. SmokeTypes /\ UNCHANGED vars => SmokeTypes'
  BY DEF vars, appVars, SmokeTypes
<1>2. ASSUME SmokeTypes, NEW t \in Thread, Step(t) PROVE SmokeTypes'
  <2>1. CASE Lock(t) \/ Acquire(t)
    BY <1>2, <2>1 DEF Lock, Acquire, Goto, SmokeTypes, Spots, appVars
  <2>2. ASSUME t \in Resource, Wait(t) \/ PutDown(t) \/ Chain(t) PROVE SmokeTypes'
    BY <1>2, <2>2 DEF Wait, PutDown, Chain, Goto, SmokeTypes, Spots
  <2>3. ASSUME t \in Resource, SmokeNow(t) PROVE SmokeTypes'
    <3>1. table' \in [Resource -> Int] /\ smoke_count' \in [Resource -> Int]
      BY <1>2, <2>3 DEF SmokeNow, SmokeTypes
    <3> QED BY <1>2, <2>3, <3>1 DEF SmokeNow, Goto, SmokeTypes, Spots
  <2>4. ASSUME Offer \/ AwaitSmoke \/ Finish PROVE SmokeTypes'
    BY <1>2, <2>4, Names DEF Offer, AwaitSmoke, Finish, Goto, SmokeTypes, Spots
  <2>5. ASSUME NEW r \in Resource, Choose(r) PROVE SmokeTypes'
    BY <1>2, <2>5, Names DEF Choose, Goto, Others, SmokeTypes, Spots
  <2> QED BY <1>2, <2>1, <2>2, <2>3, <2>4, <2>5 DEF Step
<1> QED BY <1>1, <1>2 DEF Next

LEMMA SmokeTypesAlways == Spec => []SmokeTypes
BY SmokeTypesInit, SmokeTypesStep, PTL DEF Spec

\* The program changes the monitor by the operations of the monitor only.
THEOREM SmokersUseMonitor == Spec => MutexSpec
<1>1. Init => MutexInit
  BY DEF Init
<1>2. ASSUME SmokeTypes, [Next]_vars PROVE [MutexNext]_mutexVars
  <2>1. CASE UNCHANGED vars
    BY <2>1 DEF vars
  <2>2. ASSUME NEW t \in Thread, Step(t) PROVE [MutexNext]_mutexVars
    <3>1. CASE Lock(t) \/ Acquire(t)
      BY <3>1 DEF Lock, Acquire, MutexNext
    <3>2. ASSUME t \in Resource, Wait(t) \/ SmokeNow(t) PROVE MutexNext
      BY <3>2, Names DEF Wait, SmokeNow, MutexNext
    <3>3. ASSUME PutDown(t) PROVE UNCHANGED mutexVars
      BY <3>3 DEF PutDown
    <3>4. ASSUME t \in Resource, Chain(t) PROVE [MutexNext]_mutexVars
      <4> DEFINE ready == {o \in Resource : Chainable(o)}
      <4>1. CASE ready = {}
        BY <3>4, <4>1 DEF Chain
      <4>2. CASE ready # {}
        <5>1. FirstOf(<<match, tobacco, paper>>, ready) \in Cond
          BY <4>2, FirstOfType, Names
        <5>2. CondSignal(t, FirstOf(<<match, tobacco, paper>>, ready))
          BY <3>4, <4>2 DEF Chain
        <5> QED BY <5>1, <5>2 DEF MutexNext
      <4> QED BY <4>1, <4>2
    <3>5. ASSUME Offer PROVE MutexNext
      <4> DEFINE o == FirstOf(<<match, paper, tobacco>>, pending)
      <4>1. CondSignal(agent, o) /\ o \in Cond
        BY <1>2, <3>5, FirstOfType, Names DEF Offer, SmokeTypes
      <4> QED BY <4>1, Names DEF MutexNext
    <3>6. ASSUME AwaitSmoke \/ Finish PROVE MutexNext
      BY <3>6, Names DEF AwaitSmoke, Finish, MutexNext
    <3>7. ASSUME NEW r \in Resource, Choose(r) PROVE UNCHANGED mutexVars
      BY <3>7 DEF Choose
    <3> QED BY <2>2, <3>1, <3>2, <3>3, <3>4, <3>5, <3>6, <3>7 DEF Step
  <2> QED BY <1>2, <2>1, <2>2 DEF Next
<1> QED BY <1>1, <1>2, SmokeTypesAlways, PTL DEF Spec, MutexSpec

\* A signal wakes the one thread that can wait for the condition, if it does.
LEMMA SignalWakes ==
  ASSUME MInv, Seats, NEW t \in Thread, NEW c \in Cond, CondSignal(t, c)
  PROVE  /\ \A d \in Cond : Elems(cond'[d]) \subseteq Elems(cond[d])
         /\ th' = IF th[Waiter(c)] = "condBlocked"
                  THEN [th EXCEPT ![Waiter(c)] = "lock"] ELSE th
<1> DEFINE q == cond[c]
           w == Waiter(c)
<1>1. /\ cond \in [Cond -> Seq(Thread)] /\ Once(q) /\ w \in Thread
      /\ th \in [Thread -> Stands]
  BY Names DEF MInv, MutexTypeOK, QueuedOnce
<1>2. th[w] = "condBlocked" <=> w \in Elems(q)
  <2>1. w \in Elems(q) => th[w] = "condBlocked"
    BY QueuedBlocked DEF Standing
  <2>2. ASSUME th[w] = "condBlocked" PROVE w \in Elems(q)
    <3>1. w \in UNION {Elems(cond[d]) : d \in Cond}
      BY <1>1, <2>2 DEF MInv, QueuedOnce, Standing
    <3>2. PICK d \in Cond : w \in Elems(cond[d])
      BY <3>1
    <3>3. w = Waiter(d)
      BY <3>2 DEF Seats
    <3>4. d = c
      BY <3>3, SmokeAssumption DEF Waiter
    <3> QED BY <3>2, <3>4
  <2> QED BY <2>1, <2>2
<1>3. CASE q = <<>>
  <2>1. Elems(q) = {}
    BY <1>3, EmptyQueue
  <2> QED BY <1>2, <1>3, <2>1 DEF CondSignal
<1>4. CASE q # <<>>
  <2>1. Head(q) \in Elems(q) /\ Elems(Tail(q)) \subseteq Elems(q)
    BY <1>1, <1>4, DequeueOnce
  <2>2. Head(q) = w
    BY <2>1 DEF Seats
  <2>3. cond' = [cond EXCEPT ![c] = Tail(q)] /\ th' = [th EXCEPT ![w] = "lock"]
    BY <1>4, <2>2 DEF CondSignal
  <2> QED BY <1>1, <1>2, <2>1, <2>2, <2>3
<1> QED BY <1>3, <1>4

\* A thread that waits gives up the mutex; no other is blocked or gets it.
LEMMA WaitBlocks ==
  ASSUME MInv, Seats, NEW t \in Thread, NEW c \in Cond, t = Waiter(c),
         CondWait(t, c)
  PROVE  /\ \A d \in Cond : Elems(cond'[d]) \subseteq {Waiter(d)}
         /\ \A u \in Thread : th'[u] = "condBlocked"
                                <=> th[u] = "condBlocked" \/ u = t
<1>1. /\ th[t] = "writing" /\ Release(t, "condBlocked")
      /\ cond' = [cond EXCEPT ![c] = Append(cond[c], t)]
      /\ cond \in [Cond -> Seq(Thread)] /\ Once(cond[c])
  BY DEF CondWait, MInv, MutexTypeOK, QueuedOnce
<1>2. Standing("condBlocked")' = Standing("condBlocked") \cup {t}
  BY <1>1, ReleaseCorrect
<1>3. t \notin Elems(cond[c])
  BY <1>1, QueuedBlocked DEF Standing
<1>4. Elems(cond'[c]) = Elems(cond[c]) \cup {t}
  BY <1>1, <1>3, EnqueueOnce
<1>5. \A d \in Cond \ {c} : cond'[d] = cond[d]
  BY <1>1
<1> QED BY <1>2, <1>4, <1>5 DEF Standing, Seats

LEMMA OneWrites ==
  ASSUME MInv, NEW t \in Thread, NEW u \in Thread, t # u, th[t] = "writing"
  PROVE  th[u] # "writing"
  BY DEF MInv, MutualExclusion

-----------------------------------------------------------------------------
(* The phases of a round.                                                  *)

\* A step that concerns nothing a phase speaks of.
LEMMA PhaseKept ==
  ASSUME SmokeInv, UNCHANGED <<table, signal_count, smoke_count, pending>>,
         Signalled' = Signalled,
         th'[agent] = "condBlocked" <=> th[agent] = "condBlocked",
         \/ pc'[agent] = pc[agent]
         \/ /\ pc'[agent] \in {"choose", "done"}
            /\ pc[agent] # "signal" /\ th[agent] # "condBlocked",
         pc[agent] = "signal" => th'[agent] = "writing"
  PROVE  Phase'
<1>1. CASE Rest
  BY <1>1 DEF Rest, Phase, Zero
<1>2. ASSUME NEW w \in Resource, Round(w) PROVE Round(w)'
  BY <1>2 DEF Round, In, Others
<1> QED BY <1>1, <1>2 DEF SmokeInv, Phase

LEMMA QuietSteps ==
  ASSUME SmokeInv, NEW t \in Thread, Lock(t) \/ Acquire(t)
  PROVE  Seats' /\ Phase'
<1>1. PICK b \in Stands \ {"condBlocked", "out"} : th' = [th EXCEPT ![t] = b]
  <2>1. Lock(t) => th' = [th EXCEPT ![t] = "lock"]
    BY DEF Lock, LockCall
  <2>2. Acquire(t) => \E b \in Stands \ {"condBlocked", "out"} :
                        th' = [th EXCEPT ![t] = b]
    BY DEF Acquire, Test, LockQueue, LockTake, ReadQueue, ReadTake, Stands
  <2> QED BY <2>1, <2>2 DEF Stands
<1>2. th[t] \notin {"condBlocked", "writing"}
  BY DEF Lock, LockCall, Acquire, Test, LockQueue, LockTake, ReadQueue, ReadTake
<1>3. cond' = cond
  BY DEF Lock, LockCall, Acquire, Test, LockQueue, LockTake, ReadQueue, ReadTake
<1>4. /\ \A u \in Thread : u # t => pc'[u] = pc[u]
      /\ \/ pc'[t] = pc[t]
         \/ pc[t] = "lock" /\ pc'[t] = IF t = agent THEN "choose" ELSE "wait"
      /\ UNCHANGED <<table, signal_count, smoke_count, pending>>
  BY DEF Lock, Acquire, Goto, appVars, SmokeInv, SmokeTypes
<1>5. th \in [Thread -> Stands]
  BY DEF SmokeInv, MInv, MutexTypeOK
<1>6. Seats'
  BY <1>1, <1>2, <1>3, <1>4, <1>5 DEF SmokeInv, Seats, Waiter
<1>7. Signalled' = Signalled
  BY <1>1, <1>2, <1>4, <1>5, Names DEF Signalled
<1>8. Phase'
  BY <1>1, <1>2, <1>4, <1>5, <1>6, <1>7, PhaseKept, Names
     DEF SmokeInv, Seats
<1> QED BY <1>6, <1>8

LEMMA WaitStep ==
  ASSUME SmokeInv, NEW r \in Resource, Wait(r)
  PROVE  Seats' /\ Phase'
<1>1. /\ pc[r] = "wait" /\ th[r] = "writing" /\ CondWait(r, r)
      /\ pc' = [pc EXCEPT ![r] = "woken"]
      /\ UNCHANGED <<table, signal_count, smoke_count, pending>>
      /\ r \in Thread /\ r \in Cond /\ r = Waiter(r) /\ agent \in Thread
      /\ pc \in [Thread -> Spots]
  BY Names DEF Wait, In, Goto, Waiter, SmokeInv, SmokeTypes
<1>2. /\ \A d \in Cond : Elems(cond'[d]) \subseteq {Waiter(d)}
      /\ \A u \in Thread : th'[u] = "condBlocked" <=> th[u] = "condBlocked" \/ u = r
  BY <1>1, WaitBlocks DEF SmokeInv
<1>3. \A u \in Thread : u # r => pc[u] \notin {"chain", "signal"}
  BY <1>1, OneWrites DEF SmokeInv, Seats
<1>4. Seats'
  BY <1>1, <1>2, <1>3, Names DEF SmokeInv, Seats
<1>5. Signalled' = Signalled
  BY <1>1, <1>2, Names DEF Signalled
<1>6. Phase'
  BY <1>1, <1>2, <1>3, <1>5, PhaseKept, Names
<1> QED BY <1>4, <1>6

LEMMA SmokeStep ==
  ASSUME SmokeInv, NEW r \in Resource, SmokeNow(r)
  PROVE  Seats' /\ Phase'
<1>1. /\ pc[r] = "woken" /\ th[r] = "writing" /\ CondSignal(r, smoke)
      /\ pc' = [pc EXCEPT ![r] = "chain"]
      /\ \A o \in Others(r) : Available(o)
      /\ UNCHANGED <<signal_count, pending>>
      /\ r \in Thread /\ smoke \in Cond /\ r # agent /\ agent \in Thread
      /\ pc \in [Thread -> Spots]
      /\ th \in [Thread -> Stands]
  BY Names DEF SmokeNow, In, Goto, SmokeInv, SmokeTypes, MInv, MutexTypeOK
<1>2. r \in Signalled
  BY <1>1 DEF Signalled
<1>3. PICK w \in Resource : Round(w)
  BY <1>2 DEF SmokeInv, Phase, Rest
<1>4. w = r
  <2>1. table[w] = 0
    BY <1>3 DEF Round
  <2> QED BY <1>1, <2>1 DEF Others, Available
<1>5. /\ pc[agent] = "choose" /\ th[agent] = "condBlocked" /\ pending = {}
  BY <1>1, <1>3, OneWrites DEF Round, In, SmokeInv
<1>6. /\ \A d \in Cond : Elems(cond'[d]) \subseteq Elems(cond[d])
      /\ th' = [th EXCEPT ![agent] = "lock"]
  BY <1>1, <1>5, SignalWakes DEF SmokeInv, Waiter
<1>7. Seats'
  BY <1>1, <1>5, <1>6, Names DEF SmokeInv, Seats
<1>8. table' = Zero
  <2>1. \A o \in Resource : table[o] = IF o = r THEN 0 ELSE 1
    BY <1>2, <1>3, <1>4 DEF Round, Others
  <2> QED BY <2>1 DEF SmokeNow, Zero
<1>9. smoke_count' = signal_count'
  <2>1. /\ signal_count = [smoke_count EXCEPT ![r] = smoke_count[r] + 1]
        /\ smoke_count' = [smoke_count EXCEPT ![r] = smoke_count[r] + 1]
    BY <1>3, <1>4 DEF Round, SmokeNow
  <2> QED BY <1>1, <2>1
<1>10. Signalled' = {}
  <2>1. \A o \in Others(r) : o \notin Signalled
    BY <1>2, <1>3, <1>4 DEF Round
  <2> QED BY <1>1, <1>6, <2>1, Names DEF Signalled, Others
<1>11. Rest'
  BY <1>1, <1>5, <1>6, <1>8, <1>9, <1>10 DEF Rest, Zero
<1> QED BY <1>7, <1>11 DEF Phase

LEMMA PutDownStep ==
  ASSUME SmokeInv, NEW r \in Resource, PutDown(r)
  PROVE  Seats' /\ Phase'
<1>1. /\ pc[r] = "woken" /\ th[r] = "writing"
      /\ pc' = [pc EXCEPT ![r] = "chain"]
      /\ ~\A o \in Others(r) : Available(o)
      /\ table' = [table EXCEPT ![r] = table[r] + 1]
      /\ UNCHANGED <<signal_count, smoke_count, pending, th, cond>>
      /\ r \in Thread /\ r # agent /\ agent \in Thread
      /\ pc \in [Thread -> Spots]
      /\ table \in [Resource -> Int]
  BY Names DEF PutDown, In, Goto, SmokeInv, SmokeTypes, mutexVars
<1>2. Seats'
  BY <1>1 DEF SmokeInv, Seats
<1>3. r \in Signalled /\ Signalled' = Signalled \ {r}
  BY <1>1, Names DEF Signalled
<1>4. PICK w \in Resource : Round(w)
  BY <1>3 DEF SmokeInv, Phase, Rest
<1>5. r # w
  BY <1>1, <1>3, <1>4 DEF Round, Available
<1>6. Round(w)'
  <2>1. table[r] = 0 /\ r \notin pending
    BY <1>3, <1>4, <1>5 DEF Round, Others
  <2> QED BY <1>1, <1>3, <1>4, <1>5, <2>1 DEF Round, In, Others
<1> QED BY <1>2, <1>6 DEF Phase

LEMMA ChainStep ==
  ASSUME SmokeInv, NEW r \in Resource, Chain(r)
  PROVE  Seats' /\ Phase'
<1> DEFINE ready == {o \in Resource : Chainable(o)}
           o == FirstOf(<<match, tobacco, paper>>, ready)
<1>1. /\ pc[r] = "chain" /\ th[r] = "writing"
      /\ pc' = [pc EXCEPT ![r] = "wait"]
      /\ IF ready = {} THEN UNCHANGED mutexVars ELSE CondSignal(r, o)
      /\ UNCHANGED <<table, signal_count, smoke_count, pending>>
      /\ r \in Thread /\ r # agent /\ agent \in Thread
      /\ pc \in [Thread -> Spots]
      /\ th \in [Thread -> Stands]
  BY Names DEF Chain, In, Goto, SmokeInv, SmokeTypes, MInv, MutexTypeOK
<1>2. CASE ready = {}
  <2>1. UNCHANGED <<th, cond>>
    BY <1>1, <1>2 DEF mutexVars
  <2>2. Seats'
    BY <1>1, <2>1 DEF SmokeInv, Seats
  <2>3. Signalled' = Signalled
    BY <1>1, <2>1, Names DEF Signalled
  <2> QED BY <1>1, <2>1, <2>2, <2>3, PhaseKept DEF SmokeInv, Seats
<1>3. CASE ready # {}
  <2>1. o \in Resource /\ \A x \in Others(o) : table[x] > 0
    <3>1. o \in ready
      BY <1>3, FirstOfType
    <3> QED BY <3>1 DEF Chainable, Available
  <2> HIDE DEF o
  <2>2. PICK w \in Resource : Round(w)
    <3>1. PICK x \in Resource : table[x] > 0
      BY <2>1, OthersExist DEF Others
    <3>2. table # Zero
      BY <3>1 DEF Zero
    <3> QED BY <3>2 DEF SmokeInv, Phase, Rest
  <2>3. o = w
    BY <2>1, <2>2 DEF Round, Others
  <2>4. pc[agent] = "choose" /\ th[agent] = "condBlocked" /\ pending = {}
    BY <1>1, <2>2, OneWrites DEF Round, In, SmokeInv
  <2>5. /\ \A d \in Cond : Elems(cond'[d]) \subseteq Elems(cond[d])
        /\ th' = IF th[w] = "condBlocked" THEN [th EXCEPT ![w] = "lock"] ELSE th
        /\ w \in Thread /\ w # agent
    <3>1. CondSignal(r, w) /\ w \in Cond /\ w = Waiter(w)
      BY <1>1, <1>3, <2>3, Names DEF Waiter
    <3> QED BY <1>1, <3>1, SignalWakes, Names DEF SmokeInv
  <2>6. \A u \in Thread : u # r => pc[u] \notin {"chain", "signal"}
    BY <1>1, OneWrites DEF SmokeInv, Seats
  <2>7. Seats'
    BY <1>1, <2>5, <2>6, Names DEF SmokeInv, Seats
  <2>8. Signalled' \subseteq Signalled \cup {w}
    BY <1>1, <2>5, Names DEF Signalled
  <2>9. Round(w)'
    <3>1. \A x \in Others(w) : table[x] = 1
      BY <2>1, <2>2, <2>3 DEF Round
    <3> QED BY <1>1, <2>2, <2>4, <2>5, <2>8, <3>1 DEF Round, In, Others
  <2> QED BY <2>7, <2>9 DEF Phase
<1> QED BY <1>2, <1>3

\* A round for the smoker r begins.
LEMMA ChooseStep ==
  ASSUME SmokeInv, NEW r \in Resource, Choose(r)
  PROVE  Seats' /\ Phase'
<1>1. /\ pc[agent] = "choose" /\ th[agent] = "writing" /\ agent \in Thread
      /\ pc' = [pc EXCEPT ![agent] = "signal"]
      /\ signal_count' = [signal_count EXCEPT ![r] = signal_count[r] + 1]
      /\ pending' = Others(r)
      /\ UNCHANGED <<table, smoke_count, th, cond>>
      /\ pc \in [Thread -> Spots]
  BY Names DEF Choose, In, Goto, SmokeInv, SmokeTypes, mutexVars
<1>2. Seats'
  BY <1>1 DEF SmokeInv, Seats
<1>3. Rest
  BY <1>1 DEF SmokeInv, Phase, Round, In
<1>4. Signalled' = {}
  BY <1>1, <1>3, Names DEF Signalled, Rest
<1>5. Round(r)'
  BY <1>1, <1>3, <1>4 DEF Round, In, Rest, Zero, Others
<1> QED BY <1>2, <1>5 DEF Phase

LEMMA OfferStep ==
  ASSUME SmokeInv, Offer
  PROVE  Seats' /\ Phase'
<1> DEFINE o == FirstOf(<<match, paper, tobacco>>, pending)
<1>1. /\ pc[agent] = "signal" /\ th[agent] = "writing" /\ CondSignal(agent, o)
      /\ pending' = pending \ {o}
      /\ o \in pending /\ o \in Resource
      /\ UNCHANGED <<table, signal_count, smoke_count, pc>>
      /\ th \in [Thread -> Stands]
  BY FirstOfType DEF Offer, In, SmokeInv, SmokeTypes, MInv, MutexTypeOK
<1> HIDE DEF o
<1>2. PICK w \in Resource : Round(w)
  BY <1>1 DEF SmokeInv, Phase, Rest
<1>3. /\ \A d \in Cond : Elems(cond'[d]) \subseteq Elems(cond[d])
      /\ th' = IF th[o] = "condBlocked" THEN [th EXCEPT ![o] = "lock"] ELSE th
      /\ o \in Thread /\ o # agent
  <2>1. o \in Cond /\ o = Waiter(o) /\ agent \in Thread
    BY <1>1, Names DEF Waiter
  <2> QED BY <1>1, <2>1, SignalWakes, Names DEF SmokeInv
<1>4. Seats'
  BY <1>1, <1>3, Names DEF SmokeInv, Seats
<1>5. Signalled' \subseteq Signalled \cup {o}
  BY <1>1, <1>3, Names DEF Signalled
<1>6. Round(w)'
  <2>1. In(agent, "signal")'
    BY <1>1, <1>3, Names DEF In
  <2>2. o \in Others(w) /\ table[o] = 0 /\ o # w
    BY <1>1, <1>2 DEF Round, Others
  <2> QED BY <1>1, <1>2, <1>5, <2>1, <2>2 DEF Round, Others
<1> QED BY <1>4, <1>6 DEF Phase

LEMMA AwaitStep ==
  ASSUME SmokeInv, AwaitSmoke
  PROVE  Seats' /\ Phase'
<1>1. /\ pc[agent] = "signal" /\ th[agent] = "writing" /\ pending = {}
      /\ CondWait(agent, smoke)
      /\ pc' = [pc EXCEPT ![agent] = "choose"]
      /\ UNCHANGED <<table, signal_count, smoke_count, pending>>
      /\ agent \in Thread /\ smoke \in Cond /\ agent = Waiter(smoke)
      /\ pc \in [Thread -> Spots]
  BY Names DEF AwaitSmoke, In, Goto, Waiter, SmokeInv, SmokeTypes
<1>2. /\ \A d \in Cond : Elems(cond'[d]) \subseteq {Waiter(d)}
      /\ \A u \in Thread :
           th'[u] = "condBlocked" <=> th[u] = "condBlocked" \/ u = agent
  BY <1>1, WaitBlocks DEF SmokeInv
<1>3. \A u \in Thread : u # agent => pc[u] \notin {"chain", "signal"}
  BY <1>1, OneWrites DEF SmokeInv, Seats
<1>4. Seats'
  BY <1>1, <1>2, <1>3 DEF SmokeInv, Seats
<1>5. Signalled' = Signalled
  BY <1>1, <1>2, Names DEF Signalled
<1>6. PICK w \in Resource : Round(w)
  BY <1>1 DEF SmokeInv, Phase, Rest
<1>7. Round(w)'
  BY <1>1, <1>2, <1>5, <1>6 DEF Round, Others
<1> QED BY <1>4, <1>7 DEF Phase

LEMMA FinishStep ==
  ASSUME SmokeInv, Finish
  PROVE  Seats' /\ Phase'
<1>1. /\ pc[agent] = "choose" /\ th[agent] = "writing" /\ Release(agent, "out")
      /\ pc' = [pc EXCEPT ![agent] = "done"]
      /\ UNCHANGED <<table, signal_count, smoke_count, pending, cond>>
      /\ agent \in Thread
      /\ pc \in [Thread -> Spots]
  BY Names DEF Finish, In, Goto, Unlock, SmokeInv, SmokeTypes
<1>2. \A u \in Thread : th'[u] = "condBlocked" <=> th[u] = "condBlocked"
  <2>1. Standing("condBlocked")' = Standing("condBlocked")
    BY <1>1, ReleaseCorrect DEF SmokeInv
  <2> QED BY <2>1 DEF Standing
<1>3. \A u \in Thread : u # agent => pc[u] \notin {"chain", "signal"}
  BY <1>1, OneWrites DEF SmokeInv, Seats
<1>4. Seats'
  BY <1>1, <1>2, <1>3 DEF SmokeInv, Seats
<1>5. Signalled' = Signalled
  BY <1>1, <1>2, Names DEF Signalled
<1> QED BY <1>1, <1>2, <1>4, <1>5, PhaseKept

LEMMA PhaseStep ==
  ASSUME SmokeInv, [Next]_vars
  PROVE  Seats' /\ Phase'
<1>1. CASE UNCHANGED vars
  BY <1>1 DEF vars, mutexVars, appVars, SmokeInv, Seats, Phase, Rest, Round, In,
              Signalled, Zero, Others
<1>2. ASSUME NEW t \in Thread, Step(t) PROVE Seats' /\ Phase'
  BY <1>2, QuietSteps, WaitStep, SmokeStep, PutDownStep, ChainStep, ChooseStep,
     OfferStep, AwaitStep, FinishStep DEF Step
<1> QED BY <1>1, <1>2 DEF Next

\* Whatever the order in which smokers arrive and wake, and for any number of
\* rounds: when a round is over the smoker it was for has smoked, no other has,
\* and no resource is left for a later round (smoke.c:78-115, 163-166).
THEOREM RoundsSound == Spec => []RoundsEndRight
<1>1. Init /\ MInv /\ SmokeTypes => SmokeInv
  <2>1. ASSUME Init PROVE Seats
    BY <2>1, EmptyQueue DEF Init, MutexInit, Seats
  <2>2. ASSUME Init PROVE Rest
    BY <2>2, Names DEF Init, MutexInit, Rest, Signalled
  <2> QED BY <2>1, <2>2 DEF SmokeInv, Phase
<1>2. SmokeInv /\ [Next]_vars /\ MInv' /\ SmokeTypes' => SmokeInv'
  BY PhaseStep DEF SmokeInv
<1>3. SmokeInv => RoundsEndRight
  BY DEF SmokeInv, Phase, Rest, Round, In, RoundsEndRight, RightOneSmoked,
         TableCleared, BetweenRounds
<1>4. Spec => []MInv
  BY SmokersUseMonitor, MInvAlways, PTL
<1> QED
  BY <1>1, <1>2, <1>3, <1>4, SmokeTypesAlways, PTL DEF Spec
=============================================================================
