--------------------------- MODULE MCPrograms_proofs ---------------------------
(***************************************************************************)
(* Proofs about Rendezvous, Well and Disk by way of MCPrograms, which      *)
(* states the properties of the last two.  Of Rendezvous: for any number   *)
(* of iterations of q2.c.  Of the well: for any number of people and       *)
(* iterations and any kinds they draw.  Of the disk: for any number of     *)
(* blocks, whatever they hold, handlers that nest to any depth, wherever   *)
(* they interrupt.                                                         *)
(***************************************************************************)
EXTENDS MCPrograms, MutexCond_proofs

-----------------------------------------------------------------------------
(* The exercises q1.c to q4.c.  They run on the monitor of MutexCond.        *)

ExercisePlaces == {"start", "up", "upStore", "again", "down", "downStore", "lock",
           "reach", "leave", "b", "signal", "await", "go", "print", "done"}

\* What the programs but q2.c print.
Vocabulary == {"zero", "one", "two", "three", "a", "b", "------"}

\* The variables that all programs have, and what main has waited for.
Common ==
  /\ program \in {"q1", "q2", "q3", "q4"}
  /\ pc \in [Thread -> ExercisePlaces]
  /\ program # "q2" => out \in Seq(Vocabulary)
  /\ joined \in Nat
  /\ program = "q1" /\ joined >= 1 => pc[t2] = "done"
  /\ program # "q1" => /\ joined >= 1 => pc[t0] = "done"
                       /\ joined >= 2 => pc[t1] = "done"
                       /\ joined >= 3 => pc[t2] = "done"

Inv1 ==
  /\ pc[t2] = "done" => \E j \in DOMAIN out : out[j] = "two"
  /\ Before("two", "three")

\* What thread t has contributed to cnt.
Share(t) ==
  CASE pc[t] \in {"up", "upStore"} -> k[t]
    [] pc[t] = "again" -> N
    [] pc[t] \in {"down", "downStore"} -> N - k[t]
    [] pc[t] \in {"start", "done"} -> 0

Inv2 ==
  /\ cnt \in Int /\ reg \in [Thread -> Int] /\ k \in [Thread -> Int]
  /\ \A t \in Thread :
       /\ pc[t] \in {"start", "up", "upStore", "again", "down", "downStore", "done"}
       /\ pc[t] \in {"start", "again", "done"} => k[t] = 0
       /\ pc[t] \in {"upStore", "downStore"} => th[t] = "writing" /\ reg[t] = cnt
  /\ cnt = Share(t0) + Share(t1) + Share(t2)
  /\ joined <= 3 => out = <<>>
  /\ joined > 3 => out = <<ToString(0)>>
  /\ ended => joined > 3

\* 1 if t has been counted in threadsReached.
Reached(t) == IF pc[t] \in {"leave", "b", "done"} THEN 1 ELSE 0

\* Whoever is past the barrier came there when all had been counted.
Inv3 ==
  /\ \A t \in Thread :
       /\ pc[t] \in {"start", "lock", "reach", "leave", "b", "done"}
       /\ \/ pc[t] = "leave" /\ th[t] # "condBlocked"
          \/ pc[t] \in {"b", "done"}
          => threadsReached = 3
  /\ threadsReached = Reached(t0) + Reached(t1) + Reached(t2)
  /\ \A j \in DOMAIN out : out[j] = "b" => threadsReached = 3
  /\ \A m, j \in DOMAIN out : out[m] = "a" /\ out[j] = "b" => m < j

\* A flag is set by who has printed; who goes on has seen the flag or has been
\* signalled by who set it.
InTurnOnly ==
  /\ pc[t0] \in {"start", "lock", "signal", "leave", "done"}
  /\ pc[t1] \in {"start", "await", "go", "signal", "leave", "done"}
  /\ pc[t2] \in {"start", "await", "go", "print", "done"}
  /\ Elems(cond[oneCanGo]) \subseteq {t1}
  /\ Elems(cond[twoCanGo]) \subseteq {t2}
  /\ oneNext \in BOOLEAN /\ twoNext \in BOOLEAN
  /\ oneNext => pc[t0] \in {"leave", "done"}
  /\ twoNext => pc[t1] \in {"leave", "done"}
  /\ \/ pc[t1] = "go" /\ th[t1] # "condBlocked"
     \/ pc[t1] \in {"signal", "leave", "done"}
     => oneNext
  /\ \/ pc[t2] = "go" /\ th[t2] # "condBlocked"
     \/ pc[t2] \in {"print", "done"}
     => twoNext

\* The first n words of q4.c have been printed.
Counting == <<"zero", "one", "two", "three">>
Says(n) == Len(out) = n /\ \A m \in 1..n : out[m] = Counting[m]

\* What has been printed when.
PrintedInOrder ==
  /\ \E n \in 0..4 : Says(n)
  /\ pc[t0] = "start" => Says(0)
  /\ pc[t0] # "start" /\ pc[t1] \in {"start", "await", "go"} => Says(1)
  /\ pc[t1] \in {"signal", "leave", "done"} /\ pc[t2] # "done" => Says(2)
  /\ pc[t2] = "done" /\ joined <= 3 => Says(3)

Inv4 == InTurnOnly /\ PrintedInOrder

RInv ==
  /\ MInv
  /\ Common
  /\ program = "q1" => Inv1
  /\ program = "q2" => Inv2
  /\ program = "q3" => Inv3
  /\ program = "q4" => Inv4

-----------------------------------------------------------------------------
(* The monitor.                                                            *)

LEMMA ThreeApart ==
  ASSUME NEW a, NEW b, NEW c, Cardinality({a, b, c}) = 3
  PROVE  a # b /\ a # c /\ b # c
<1>1. \A x, y : IsFiniteSet({x, y}) /\ Cardinality({x, y}) \in {1, 2}
  <2> TAKE x, y
  <2>1. IsFiniteSet({x}) /\ Cardinality({x}) = 1
    BY FS_Singleton
  <2>2. {x, y} = {x} \cup {y}
    OBVIOUS
  <2> QED BY <2>1, <2>2, FS_AddElement
<1>2. {a, b, c} # {a, b} /\ {a, b, c} # {a, c}
  <2>1. \A x, y : Cardinality({x, y}) # 3
    BY <1>1
  <2>2. \A x, y : {a, b, c} # {x, y}
    BY <2>1, Zenon
  <2> QED BY <2>2
<1> QED BY <1>2

LEMMA Names ==
  /\ t0 \in Thread /\ t1 \in Thread /\ t2 \in Thread
  /\ t0 # t1 /\ t0 # t2 /\ t1 # t2
  /\ \A t \in Thread : t = t0 \/ t = t1 \/ t = t2
  /\ barrier \in Cond /\ oneCanGo \in Cond /\ twoCanGo \in Cond
  /\ oneCanGo # twoCanGo
  BY RendezvousAssumption, ThreeApart

\* What a step of each program is.
LEMMA StepsOf ==
  ASSUME Common, Next
  PROVE  /\ program' = program
         /\ \/ Main
            \/ \E t \in Thread : Acquire(t)
            \/ program = "q1" /\ \E t \in Thread : Q1(t)
            \/ program = "q2" /\ \E t \in Thread : Q2(t)
            \/ program = "q3" /\ \E t \in Thread : Q3(t)
            \/ program = "q4" /\ (Q4Zero \/ Q4One \/ Q4Two)
<1>1. CASE Main
  BY <1>1 DEF Main, Join, Finish, Return
<1>2. ASSUME NEW t \in Thread, Step(t)
      PROVE  /\ program' = program
             /\ \/ Acquire(t)
                \/ program = "q1" /\ Q1(t)
                \/ program = "q2" /\ Q2(t)
                \/ program = "q3" /\ Q3(t)
                \/ program = "q4" /\ (Q4Zero \/ Q4One \/ Q4Two)
  <2>1. CASE Acquire(t)
    BY <2>1 DEF Acquire, appVars
  <2>2. CASE Q1(t)
    BY <2>2 DEF Q1, Say, At
  <2>3. CASE Q2(t)
    BY <2>3 DEF Q2, Lock, Looping, Count, LoopEnds, At, In
  <2>4. CASE Q3(t)
    BY <2>4 DEF Q3, Say, Lock, Reach, Leave, At, In
  <2>5. CASE Q4Zero
    BY <2>5 DEF Q4Zero, Say, Lock, LetOneGo, Leave, At, In
  <2>6. CASE Q4One
    BY <2>6 DEF Q4One, Say, Lock, Await, LetTwoGo, Leave, At, In
  <2>7. CASE Q4Two
    BY <2>7 DEF Q4Two, Say, Lock, Await, Leave, At, In
  <2> QED BY <1>2, <2>1, <2>2, <2>3, <2>4, <2>5, <2>6, <2>7 DEF Step
<1> QED BY <1>1, <1>2 DEF Next

\* The programs change the monitor by the operations of the monitor only.
THEOREM ExercisesUseMonitor == Spec => MutexSpec
<1>1. Init => MutexInit
  BY DEF Init
<1>2. ASSUME [Next]_vars PROVE [MutexNext]_mutexVars
  <2>1. CASE UNCHANGED vars
    BY <2>1 DEF vars
  <2>2. CASE Main
    BY <2>2 DEF Main, Join, Finish, Return
  <2>3. ASSUME NEW t \in Thread, Step(t) PROVE [MutexNext]_mutexVars
    <3>1. CASE Acquire(t)
      BY <3>1 DEF Acquire, MutexNext
    <3>2. CASE Q1(t)
      BY <3>2 DEF Q1, Say
    <3>3. CASE Q2(t)
      BY <3>3 DEF Q2, Lock, Looping, LoopEnds, MutexNext
    <3>4. CASE Q3(t)
      BY <3>4, Names DEF Q3, Say, Lock, Reach, Leave, MutexNext
    <3>5. CASE t = t0 /\ Q4Zero
      BY <3>5, Names DEF Q4Zero, Say, Lock, LetOneGo, Leave, MutexNext
    <3>6. CASE t = t1 /\ Q4One
      BY <3>6, Names DEF Q4One, Say, Lock, Await, LetTwoGo, Leave, MutexNext
    <3>7. CASE t = t2 /\ Q4Two
      BY <3>7, Names DEF Q4Two, Say, Lock, Await, Leave, MutexNext
    <3> QED BY <2>3, <3>1, <3>2, <3>3, <3>4, <3>5, <3>6, <3>7 DEF Step
  <2> QED BY <1>2, <2>1, <2>2, <2>3 DEF Next
<1> QED BY <1>1, <1>2, PTL DEF Spec, MutexSpec

\* A thread that calls or tests: no other is concerned, and it is not blocked
\* on a condition, before or after.
LEMMA AfterTest ==
  ASSUME MInv, NEW t \in Thread, LockCall(t) \/ Test(t)
  PROVE  /\ cond' = cond
         /\ th[t] # "writing"
         /\ \A u \in Thread : th'[u] = "condBlocked" <=> th[u] = "condBlocked"
         /\ \A u \in Thread : th[u] = "writing" => th'[u] = "writing"
  BY DEF LockCall, Test, LockQueue, LockTake, ReadQueue, ReadTake, MInv, MutexTypeOK

LEMMA AfterUnlock ==
  ASSUME MInv, NEW t \in Thread, Unlock(t)
  PROVE  /\ cond' = cond
         /\ \A u \in Thread : th'[u] = "condBlocked" <=> th[u] = "condBlocked"
<1>1. Standing("condBlocked")' = Standing("condBlocked")
  BY ReleaseCorrect DEF Unlock
<1> QED BY <1>1 DEF Unlock, Standing

LEMMA AfterWait ==
  ASSUME MInv, NEW t \in Thread, NEW c \in Cond, CondWait(t, c)
  PROVE  /\ Elems(cond'[c]) = Elems(cond[c]) \cup {t}
         /\ \A d \in Cond \ {c} : cond'[d] = cond[d]
         /\ \A u \in Thread : th'[u] = "condBlocked"
                                <=> th[u] = "condBlocked" \/ u = t
<1>1. /\ th[t] = "writing" /\ Release(t, "condBlocked")
      /\ cond' = [cond EXCEPT ![c] = Append(cond[c], t)]
      /\ cond \in [Cond -> Seq(Thread)] /\ Once(cond[c])
  BY DEF CondWait, MInv, MutexTypeOK, QueuedOnce
<1>2. Standing("condBlocked")' = Standing("condBlocked") \cup {t}
  BY <1>1, ReleaseCorrect
<1>3. t \notin Elems(cond[c])
  BY <1>1, QueuedBlocked DEF Standing
<1>4. Elems(cond'[c]) = Elems(cond[c]) \cup {t}
  BY <1>1, <1>3, EnqueueOnce
<1> QED BY <1>1, <1>2, <1>4 DEF Standing

\* A signal concerns none but a thread in the queue of its condition.
LEMMA AfterSignal ==
  ASSUME MInv, NEW t \in Thread, NEW c \in Cond, CondSignal(t, c)
  PROVE  /\ \A d \in Cond : Elems(cond'[d]) \subseteq Elems(cond[d])
         /\ \A u \in Thread : u \notin Elems(cond[c]) => th'[u] = th[u]
<1>1. /\ cond \in [Cond -> Seq(Thread)] /\ Once(cond[c])
      /\ th \in [Thread -> Stands]
  BY DEF MInv, MutexTypeOK, QueuedOnce
<1>2. CASE cond[c] = <<>>
  BY <1>2 DEF CondSignal
<1>3. CASE cond[c] # <<>>
  <2>1. /\ Head(cond[c]) \in Elems(cond[c])
        /\ Elems(Tail(cond[c])) \subseteq Elems(cond[c])
    BY <1>1, <1>3, DequeueOnce
  <2>2. /\ cond' = [cond EXCEPT ![c] = Tail(cond[c])]
        /\ th' = [th EXCEPT ![Head(cond[c])] = "lock"]
    BY <1>3 DEF CondSignal
  <2> QED BY <1>1, <2>1, <2>2
<1> QED BY <1>2, <1>3

LEMMA OneWrites ==
  ASSUME MInv, NEW t \in Thread, NEW u \in Thread, t # u, th[t] = "writing"
  PROVE  th[u] # "writing"
  BY DEF MInv, MutualExclusion

-----------------------------------------------------------------------------
(* What all programs have.                                                 *)

LEMMA RInvInit == Init => RInv
<1> SUFFICES ASSUME Init PROVE RInv
  OBVIOUS
<1>1. MInv
  BY MInvInit DEF Init
<1>2. Common
  BY Names DEF Init, Common, ExercisePlaces
<1>3. Inv1
  BY Names DEF Init, Inv1, Before
<1>4. Inv2
  BY Names DEF Init, Inv2, Share
<1>5. Inv3
  BY Names DEF Init, Inv3, Reached
<1>6. Inv4
  <2>1. Elems(<<>>) = {}
    BY EmptyQueue
  <2>2. InTurnOnly
    BY <2>1, Names DEF Init, MutexInit, InTurnOnly
  <2>3. Says(0)
    BY DEF Init, Says
  <2>4. PrintedInOrder
    BY <2>3, Names DEF Init, PrintedInOrder
  <2> QED BY <2>2, <2>4 DEF Inv4
<1> QED BY <1>1, <1>2, <1>3, <1>4, <1>5, <1>6 DEF RInv

\* A step that leaves one place for another.
LEMMA Moved ==
  ASSUME Common, NEW t \in Thread, NEW a \in ExercisePlaces, pc[t] # "done", Goto(t, a),
         program' = program, joined' = joined,
         program # "q2" => out' \in Seq(Vocabulary)
  PROVE  Common'
  BY Names DEF Common, Goto

LEMMA CommonMain ==
  ASSUME Common, Main
  PROVE  Common'
<1>1. CASE Join
  <2>1. CASE program = "q1"
    BY <1>1, <2>1 DEF Join, Joins, Common
  <2>2. CASE program # "q1"
    <3>1. joined \in {0, 1, 2}
      BY <1>1, <2>2 DEF Join, Joins, Common
    <3> QED BY <1>1, <2>2, <3>1 DEF Join, Joins, Common
  <2> QED BY <2>1, <2>2
<1>2. CASE Finish
  <2>1. program # "q2" => out' \in Seq(Vocabulary)
    <3>1. program \in {"q1", "q3", "q4"} => \E w \in Vocabulary : out' = Append(out, w)
      BY <1>2 DEF Finish, Vocabulary
    <3> QED BY <3>1 DEF Common
  <2>2. /\ program' = program /\ pc' = pc /\ joined' = joined + 1
        /\ IF program = "q1" THEN joined = 1 ELSE joined = 3
    BY <1>2 DEF Finish, Joins
  <2> QED BY <2>1, <2>2 DEF Common
<1>3. CASE Return
  BY <1>3 DEF Return, Common
<1> QED BY <1>1, <1>2, <1>3 DEF Main

LEMMA Said ==
  ASSUME Common, NEW t \in Thread, NEW a \in ExercisePlaces, NEW w \in Vocabulary,
         pc[t] # "done", program # "q2", Say(t, w, a)
  PROVE  Common'
<1>1. out' \in Seq(Vocabulary)
  BY DEF Say, Common
<1> QED BY <1>1, Moved DEF Say

LEMMA Words ==
  /\ Word(t0) = "zero" /\ Word(t1) = "one" /\ Word(t2) = "two"
  /\ \A t \in Thread : Word(t) \in Vocabulary
<1>1. Word(t0) = "zero"
  BY Names DEF Word
<1>2. Word(t1) = "one"
  BY Names DEF Word
<1>3. Word(t2) = "two"
  BY Names DEF Word
<1> QED BY <1>1, <1>2, <1>3, Names DEF Vocabulary

LEMMA CommonStep ==
  ASSUME Common, Next
  PROVE  Common'
<1> USE DEF At, In
<1>1. \A t \in Thread : Acquire(t) => Common'
  BY DEF Acquire, appVars, Common
<1>2. /\ \A s \in {"a", "b", "zero", "one", "two"} : s \in Vocabulary
      /\ program # "q2" => out \in Seq(Vocabulary)
  BY DEF Common, Vocabulary
<1>3. ASSUME NEW t \in Thread, NEW q, NEW from, NEW to \in ExercisePlaces, from # "done",
             Lock(t, q, from, to) \/ Leave(t, q, from, to)
      PROVE  Common'
  BY <1>2, <1>3, Moved DEF Lock, Leave
<1>4. ASSUME NEW t \in Thread, Q1(t) PROVE Common'
  <2>1. Say(t, Word(t), "done") /\ pc[t] # "done" /\ program # "q2"
    BY <1>4 DEF Q1
  <2> QED BY <2>1, Said, Words DEF ExercisePlaces
<1>5. ASSUME NEW t \in Thread, Q2(t) PROVE Common'
  BY <1>5, Moved DEF Q2, Lock, Looping, Count, LoopEnds, ExercisePlaces, Common
<1>6. ASSUME NEW t \in Thread, Q3(t) PROVE Common'
  <2>1. CASE At(t, "q3", "start") /\ Say(t, "a", "lock")
    BY <1>2, <2>1, Said DEF ExercisePlaces
  <2>2. CASE At(t, "q3", "b") /\ Say(t, "b", "done")
    BY <1>2, <2>2, Said DEF ExercisePlaces
  <2>3. CASE Reach(t)
    BY <1>2, <2>3, Moved DEF Reach, ExercisePlaces
  <2> QED BY <1>3, <1>6, <2>1, <2>2, <2>3 DEF Q3, ExercisePlaces
<1>7. ASSUME Q4Zero PROVE Common'
  <2>1. CASE At(t0, "q4", "start") /\ Say(t0, "zero", "lock")
    BY <1>2, <2>1, Said, Names DEF ExercisePlaces
  <2>2. CASE LetOneGo
    BY <1>2, <2>2, Moved, Names DEF LetOneGo, ExercisePlaces
  <2> QED BY <1>3, <1>7, <2>1, <2>2, Names DEF Q4Zero, ExercisePlaces
<1>8. ASSUME Q4One PROVE Common'
  <2>1. CASE In(t1, "q4", "go") /\ Say(t1, "one", "signal")
    BY <1>2, <2>1, Said, Names DEF ExercisePlaces
  <2>2. CASE LetTwoGo \/ Await(t1, oneNext, oneCanGo)
    BY <1>2, <2>2, Moved, Names DEF LetTwoGo, Await, ExercisePlaces
  <2> QED BY <1>3, <1>8, <2>1, <2>2, Names DEF Q4One, ExercisePlaces
<1>9. ASSUME Q4Two PROVE Common'
  <2>1. CASE At(t2, "q4", "print") /\ Say(t2, "two", "done")
    BY <1>2, <2>1, Said, Names DEF ExercisePlaces
  <2>2. CASE Await(t2, twoNext, twoCanGo)
    BY <1>2, <2>2, Moved, Names DEF Await, ExercisePlaces
  <2> QED BY <1>3, <1>9, <2>1, <2>2, Names DEF Q4Two, ExercisePlaces
<1> QED BY <1>1, <1>4, <1>5, <1>6, <1>7, <1>8, <1>9, StepsOf, CommonMain

-----------------------------------------------------------------------------
(* q1.c.                                                                   *)

\* Printing adds a word at the end.
LEMMA AppendAt ==
  ASSUME NEW q \in Seq(Vocabulary), NEW w
  PROVE  /\ DOMAIN Append(q, w) = 1..(Len(q) + 1) /\ DOMAIN q = 1..Len(q)
         /\ Len(q) \in Nat
         /\ Append(q, w)[Len(q) + 1] = w
         /\ \A m \in DOMAIN q : Append(q, w)[m] = q[m]
  OBVIOUS

LEMMA Inv1Append ==
  ASSUME Inv1, out \in Seq(Vocabulary), NEW w \in Vocabulary, out' = Append(out, w),
         w = "three" => pc[t2] = "done",
         w = "two" \/ (pc'[t2] = "done" => pc[t2] = "done")
  PROVE  Inv1'
<1>1. /\ DOMAIN out' = 1..(Len(out) + 1) /\ DOMAIN out = 1..Len(out)
      /\ Len(out) \in Nat
      /\ out'[Len(out) + 1] = w /\ \A m \in DOMAIN out : out'[m] = out[m]
  BY AppendAt
<1>2. pc'[t2] = "done" => \E j \in DOMAIN out' : out'[j] = "two"
  BY <1>1 DEF Inv1
<1>3. ASSUME NEW m \in DOMAIN out', out'[m] = "three"
      PROVE  \E j \in 1..(m - 1) : out'[j] = "two"
  <2>1. CASE m = Len(out) + 1
    <3>1. PICK j \in DOMAIN out : out[j] = "two"
      BY <1>1, <1>3, <2>1 DEF Inv1
    <3>2. j \in 1..(m - 1) /\ out'[j] = "two"
      BY <1>1, <2>1, <3>1
    <3> QED BY <3>2
  <2>2. CASE m # Len(out) + 1
    <3>1. m \in DOMAIN out /\ out[m] = "three"
      BY <1>1, <1>3, <2>2
    <3>2. PICK j \in 1..(m - 1) : out[j] = "two"
      BY <3>1 DEF Inv1, Before
    <3>3. j \in DOMAIN out
      BY <1>1, <3>1, <3>2
    <3> QED BY <1>1, <3>2, <3>3
  <2> QED BY <2>1, <2>2
<1> QED BY <1>2, <1>3 DEF Inv1, Before

LEMMA Inv1Step ==
  ASSUME Common, Inv1, program = "q1", Next
  PROVE  Inv1'
<1>1. out \in Seq(Vocabulary)
  BY DEF Common
<1>2. CASE Main
  <2>1. CASE Join \/ Return
    BY <2>1 DEF Join, Return, Inv1, Before
  <2>2. CASE Finish
    <3>1. out' = Append(out, "three") /\ pc' = pc /\ pc[t2] = "done"
      BY <2>2 DEF Finish, Joins, Common
    <3> QED BY <1>1, <3>1, Inv1Append DEF Vocabulary
  <2> QED BY <1>2, <2>1, <2>2 DEF Main
<1>3. ASSUME NEW t \in Thread, Acquire(t) PROVE Inv1'
  BY <1>3 DEF Acquire, appVars, Inv1, Before
<1>4. ASSUME NEW t \in Thread, Q1(t) PROVE Inv1'
  <2>1. /\ out' = Append(out, Word(t)) /\ pc' = [pc EXCEPT ![t] = "done"]
        /\ pc \in [Thread -> ExercisePlaces]
    BY <1>4 DEF Q1, Say, Goto, Common
  <2>2. /\ Word(t) \in Vocabulary /\ Word(t) # "three"
        /\ t = t2 => Word(t) = "two"
    BY Words, Names
  <2>3. t # t2 => pc'[t2] = pc[t2]
    BY <2>1, Names
  <2> QED BY <1>1, <2>1, <2>2, <2>3, Inv1Append
<1> QED BY <1>2, <1>3, <1>4, StepsOf

-----------------------------------------------------------------------------
(* q2.c.                                                                   *)

LEMMA SharesType ==
  ASSUME Inv2
  PROVE  \A t \in Thread : Share(t) \in Int
  BY RendezvousAssumption DEF Inv2, Share

\* Thread t alone goes on, by which it and cnt change by d.
LEMMA Contributes ==
  ASSUME Inv2, NEW t \in Thread, NEW d \in Int, cnt' = cnt + d,
         Share(t)' = Share(t) + d,
         \A u \in Thread : u # t => pc'[u] = pc[u] /\ k'[u] = k[u]
  PROVE  cnt' = Share(t0)' + Share(t1)' + Share(t2)'
<1>1. \A u \in Thread : u # t => Share(u)' = Share(u)
  BY DEF Share
<1>2. cnt = Share(t0) + Share(t1) + Share(t2)
  BY DEF Inv2
<1>3. /\ Share(t0) \in Int /\ Share(t1) \in Int /\ Share(t2) \in Int
  BY SharesType, Names
<1>4. CASE t = t0
  BY <1>1, <1>2, <1>3, <1>4, Names
<1>5. CASE t = t1
  BY <1>1, <1>2, <1>3, <1>5, Names
<1>6. CASE t = t2
  BY <1>1, <1>2, <1>3, <1>6, Names
<1> QED BY <1>4, <1>5, <1>6, Names

\* Thread t calls lock or unlock, between places where its share is the same.
LEMMA Inv2Moved ==
  ASSUME MInv, Common, Inv2, NEW t \in Thread, NEW a, Goto(t, a),
         UNCHANGED <<program, out, joined, ended, cnt, reg>>,
         k' = [k EXCEPT ![t] = 0], a \in {"up", "again", "down", "done"},
         \A u \in Thread : u # t /\ th[u] = "writing" => th'[u] = "writing",
         Share(t)' = Share(t)
  PROVE  Inv2'
<1>1. /\ pc \in [Thread -> ExercisePlaces] /\ k \in [Thread -> Int] /\ pc' = [pc EXCEPT ![t] = a]
  BY DEF Common, Inv2, Goto
<1>2. \A u \in Thread : u # t => pc'[u] = pc[u] /\ k'[u] = k[u]
  BY <1>1
<1>3. cnt' = Share(t0)' + Share(t1)' + Share(t2)'
  <2>1. cnt' = cnt + 0 /\ Share(t)' = Share(t) + 0
    BY SharesType DEF Inv2
  <2> QED BY <1>2, <2>1, Contributes
<1> QED BY <1>1, <1>2, <1>3 DEF Inv2

LEMMA Inv2Count ==
  ASSUME MInv, Common, Inv2, NEW t \in Thread, Looping(t)
  PROVE  Inv2'
<1> DEFINE up == pc[t] \in {"up", "upStore"}
           spot == IF up THEN "up" ELSE "down"
           next == IF up THEN "upStore" ELSE "downStore"
           d == IF up THEN 1 ELSE -1
<1>1. /\ Count(t, spot, d, next) /\ th[t] = "writing"
      /\ UNCHANGED <<th, program, out, joined, ended>>
      /\ pc \in [Thread -> ExercisePlaces] /\ k \in [Thread -> Int]
      /\ reg \in [Thread -> Int] /\ cnt \in Int
  BY DEF Looping, Count, In, At, mutexVars, Common, Inv2
<1>2. \A u \in Thread : u # t => pc[u] \notin {"upStore", "downStore"}
  BY <1>1, OneWrites DEF Inv2
<1>3. CASE /\ pc[t] = spot /\ reg' = [reg EXCEPT ![t] = cnt]
           /\ pc' = [pc EXCEPT ![t] = next] /\ UNCHANGED <<cnt, k>>
  <2>1. \A u \in Thread : u # t => pc'[u] = pc[u] /\ k'[u] = k[u]
    BY <1>1, <1>3
  <2>2. cnt' = cnt + 0 /\ Share(t)' = Share(t) + 0
    <3>1. Share(t)' = Share(t)
      <4>1. CASE up
        BY <1>1, <1>3, <4>1 DEF Share
      <4>2. CASE ~up
        BY <1>1, <1>3, <4>2 DEF Share
      <4> QED BY <4>1, <4>2
    <3> QED BY <1>1, <1>3, <3>1, SharesType
  <2>3. cnt' = Share(t0)' + Share(t1)' + Share(t2)'
    BY <2>1, <2>2, Contributes
  <2> QED BY <1>1, <1>3, <2>1, <2>3 DEF Inv2
<1>4. CASE /\ pc[t] = next /\ cnt' = reg[t] + d
           /\ k' = [k EXCEPT ![t] = k[t] + 1]
           /\ pc' = [pc EXCEPT ![t] = spot] /\ UNCHANGED reg
  <2>1. \A u \in Thread : u # t => pc'[u] = pc[u] /\ k'[u] = k[u]
    BY <1>1, <1>4
  <2>2. reg[t] = cnt /\ d \in Int
    BY <1>4 DEF Inv2
  <2>3. Share(t)' = Share(t) + d
    BY <1>1, <1>4, RendezvousAssumption DEF Share
  <2>4. cnt' = Share(t0)' + Share(t1)' + Share(t2)'
    BY <1>4, <2>1, <2>2, <2>3, Contributes
  <2> QED BY <1>1, <1>2, <1>4, <2>1, <2>2, <2>4 DEF Inv2
<1> QED BY <1>1, <1>3, <1>4 DEF Count, Goto, In, At

LEMMA Inv2Step ==
  ASSUME MInv, Common, Inv2, program = "q2", Next
  PROVE  Inv2'
<1>1. CASE Main
  <2>1. CASE Join
    <3>1. /\ joined < 3 /\ joined' = joined + 1 /\ joined \in Nat
          /\ UNCHANGED <<th, program, pc, out, ended, cnt, reg, k>> /\ ~ended
      BY <2>1 DEF Join, Joins, Common, mutexVars
    <3>2. \A t : Share(t)' = Share(t)
      BY <3>1 DEF Share
    <3> QED BY <3>1, <3>2 DEF Inv2
  <2>2. CASE Finish
    <3>1. /\ joined = 3 /\ joined' = 4 /\ out' = Append(out, ToString(cnt))
          /\ UNCHANGED <<th, program, pc, ended, cnt, reg, k>>
      BY <2>2 DEF Finish, Joins, mutexVars
    <3>2. pc[t0] = "done" /\ pc[t1] = "done" /\ pc[t2] = "done"
      BY <3>1 DEF Common
    <3>3. cnt = 0 /\ out = <<>>
      BY <3>1, <3>2 DEF Inv2, Share
    <3>4. out' = <<ToString(0)>>
      BY <3>1, <3>3
    <3>5. \A t : Share(t)' = Share(t)
      BY <3>1 DEF Share
    <3> QED BY <3>1, <3>4, <3>5 DEF Inv2
  <2>3. CASE Return
    BY <2>3 DEF Return, Joins, Inv2, Share, Common, mutexVars
  <2> QED BY <1>1, <2>1, <2>2, <2>3 DEF Main
<1>2. ASSUME NEW t \in Thread, Acquire(t) PROVE Inv2'
  <2>1. \A u \in Thread : th[u] = "writing" => th'[u] = "writing"
    BY <1>2, AfterTest DEF Acquire
  <2>2. UNCHANGED <<program, pc, out, joined, ended, cnt, reg, k>>
    BY <1>2 DEF Acquire, appVars
  <2> QED BY <2>1, <2>2 DEF Inv2, Share
<1>3. ASSUME NEW t \in Thread, Lock(t, "q2", "start", "up") \/ Lock(t, "q2", "again", "down")
      PROVE  Inv2'
  <2>1. \A u \in Thread : th[u] = "writing" => th'[u] = "writing"
    BY <1>3, AfterTest DEF Lock
  <2>2. k[t] = 0 /\ k' = k /\ k \in [Thread -> Int] /\ pc \in [Thread -> ExercisePlaces]
    BY <1>3 DEF Lock, At, Inv2, Common
  <2>3. k' = [k EXCEPT ![t] = 0]
    BY <2>2
  <2>4. Share(t)' = Share(t)
    BY <1>3, <2>2, RendezvousAssumption DEF Lock, Goto, At, Share
  <2> QED BY <1>3, <2>1, <2>3, <2>4, Inv2Moved DEF Lock
<1>4. ASSUME NEW t \in Thread, LoopEnds(t, "up", "again") \/ LoopEnds(t, "down", "done")
      PROVE  Inv2'
  <2>1. \A u \in Thread : u # t => th[u] # "writing"
    BY <1>4, OneWrites DEF LoopEnds, In
  <2>2. k[t] = N /\ k \in [Thread -> Int] /\ pc \in [Thread -> ExercisePlaces]
    BY <1>4 DEF LoopEnds, Inv2, Common
  <2>3. Share(t)' = Share(t)
    BY <1>4, <2>2, RendezvousAssumption DEF LoopEnds, Goto, In, At, Share
  <2> QED BY <1>4, <2>1, <2>3, Inv2Moved DEF LoopEnds
<1> QED BY <1>1, <1>2, <1>3, <1>4, Inv2Count, StepsOf DEF Q2

-----------------------------------------------------------------------------
(* q3.c.                                                                   *)

LEMMA ReachedType ==
  /\ \A t : Reached(t) \in {0, 1} /\ Reached(t)' \in {0, 1}
  /\ Inv3 => threadsReached \in 0..3
             /\ (threadsReached = 3 => \A t \in Thread : Reached(t) = 1)
  BY Names DEF Inv3, Reached

\* Nothing is printed, or a letter that may be.
LEMMA Ordered3 ==
  ASSUME Inv3, out \in Seq(Vocabulary), NEW w \in Vocabulary, out' = Append(out, w),
         w = "a" => threadsReached # 3,
         w = "b" => threadsReached = 3, threadsReached' = threadsReached
  PROVE  /\ \A j \in DOMAIN out' : out'[j] = "b" => threadsReached' = 3
         /\ \A m, j \in DOMAIN out' : out'[m] = "a" /\ out'[j] = "b" => m < j
<1>1. /\ DOMAIN out' = 1..(Len(out) + 1) /\ DOMAIN out = 1..Len(out)
      /\ Len(out) \in Nat
      /\ out'[Len(out) + 1] = w /\ \A m \in DOMAIN out : out'[m] = out[m]
  BY AppendAt
<1>2. \A m \in DOMAIN out' : m \in DOMAIN out \/ m = Len(out) + 1
  BY <1>1
<1>3. \A j \in DOMAIN out' : out'[j] = "b" => threadsReached = 3
  BY <1>1, <1>2 DEF Inv3
<1>4. ASSUME NEW m \in DOMAIN out', NEW j \in DOMAIN out',
             out'[m] = "a", out'[j] = "b"
      PROVE  m < j
  <2>1. m \in DOMAIN out
    BY <1>1, <1>2, <1>3, <1>4
  <2>2. CASE j \in DOMAIN out
    BY <1>1, <1>4, <2>1, <2>2 DEF Inv3
  <2>3. CASE j = Len(out) + 1
    BY <1>1, <2>1, <2>3
  <2> QED BY <1>2, <2>2, <2>3
<1> QED BY <1>3, <1>4

\* Thread t goes on without arriving at the barrier.
LEMMA Inv3Moved ==
  ASSUME Common, Inv3, NEW t \in Thread, NEW a, Goto(t, a), UNCHANGED threadsReached,
         \A u \in Thread : u # t /\ pc[u] = "leave" =>
                             (th'[u] = "condBlocked" <=> th[u] = "condBlocked"),
         \/ a \in {"lock", "reach"} /\ pc[t] \in {"start", "lock"}
         \/ a \in {"b", "done"} /\ pc[t] \in {"leave", "b"} /\ threadsReached = 3,
         \/ UNCHANGED out
         \/ /\ \A j \in DOMAIN out' : out'[j] = "b" => threadsReached' = 3
            /\ \A m, j \in DOMAIN out' : out'[m] = "a" /\ out'[j] = "b" => m < j
  PROVE  Inv3'
<1>1. pc' = [pc EXCEPT ![t] = a] /\ pc \in [Thread -> ExercisePlaces]
  BY DEF Goto, Common
<1>2. \A u \in Thread : Reached(u)' = Reached(u)
  BY <1>1 DEF Reached
<1> QED BY <1>1, <1>2, Names DEF Inv3

LEMMA Inv3Reach ==
  ASSUME MInv, Common, Inv3, NEW t \in Thread, Reach(t)
  PROVE  Inv3'
<1>1. /\ pc[t] = "reach" /\ pc' = [pc EXCEPT ![t] = "leave"]
      /\ threadsReached' = threadsReached + 1 /\ out' = out
      /\ pc \in [Thread -> ExercisePlaces]
  BY DEF Reach, In, At, Goto, Common
<1>2. threadsReached' = Reached(t0)' + Reached(t1)' + Reached(t2)'
  <2>1. /\ Reached(t)' = Reached(t) + 1
        /\ \A u \in Thread : u # t => Reached(u)' = Reached(u)
    BY <1>1 DEF Reached
  <2>2. threadsReached = Reached(t0) + Reached(t1) + Reached(t2)
    BY DEF Inv3
  <2> QED BY <1>1, <2>1, <2>2, ReachedType, Names
<1>3. threadsReached \in 0..2 /\ Reached(t) = 0
  BY <1>1, ReachedType DEF Reached
<1>4. \A j \in DOMAIN out : out[j] # "b"
  BY <1>3 DEF Inv3
<1>5. CASE threadsReached' = 3
  BY <1>1, <1>2, <1>4, <1>5 DEF Inv3
<1>6. CASE threadsReached' # 3
  <2>1. CondWait(t, barrier)
    BY <1>1, <1>6 DEF Reach, LastToReach
  <2>2. \A u \in Thread : th'[u] = "condBlocked" <=> th[u] = "condBlocked" \/ u = t
    BY <2>1, AfterWait, Names
  <2> QED BY <1>1, <1>2, <1>3, <1>4, <2>2 DEF Inv3
<1> QED BY <1>5, <1>6

LEMMA Inv3Step ==
  ASSUME MInv, Common, Inv3, program = "q3", Next
  PROVE  Inv3'
<1>1. out \in Seq(Vocabulary)
  BY DEF Common
<1>2. CASE Main
  <2>1. CASE Join \/ Return
    BY <2>1 DEF Join, Return, Inv3, Reached, mutexVars
  <2>2. CASE Finish
    <3>1. /\ out' = Append(out, "------") /\ UNCHANGED <<pc, th, threadsReached>>
      BY <2>2 DEF Finish, mutexVars
    <3>2. /\ \A j \in DOMAIN out' : out'[j] = "b" => threadsReached' = 3
          /\ \A m, j \in DOMAIN out' : out'[m] = "a" /\ out'[j] = "b" => m < j
      BY <1>1, <3>1, Ordered3 DEF Vocabulary
    <3> QED BY <3>1, <3>2 DEF Inv3, Reached
  <2> QED BY <1>2, <2>1, <2>2 DEF Main
<1>3. ASSUME NEW t \in Thread, Acquire(t) PROVE Inv3'
  <2>1. \A u \in Thread : th'[u] = "condBlocked" <=> th[u] = "condBlocked"
    BY <1>3, AfterTest DEF Acquire
  <2> QED BY <1>3, <2>1 DEF Acquire, appVars, Inv3, Reached
<1>4. ASSUME NEW t \in Thread, At(t, "q3", "start"), Say(t, "a", "lock") PROVE Inv3'
  <2>1. threadsReached # 3
    BY <1>4, ReachedType DEF At, Reached
  <2>2. UNCHANGED <<th, threadsReached>> /\ out' = Append(out, "a") /\ Goto(t, "lock")
    BY <1>4 DEF Say, mutexVars
  <2>3. /\ \A j \in DOMAIN out' : out'[j] = "b" => threadsReached' = 3
        /\ \A m, j \in DOMAIN out' : out'[m] = "a" /\ out'[j] = "b" => m < j
    BY <1>1, <2>1, <2>2, Ordered3 DEF Vocabulary
  <2> QED BY <1>4, <2>2, <2>3, Inv3Moved DEF At
<1>5. ASSUME NEW t \in Thread, At(t, "q3", "b"), Say(t, "b", "done") PROVE Inv3'
  <2>1. threadsReached = 3
    BY <1>5 DEF At, Inv3
  <2>2. UNCHANGED <<th, threadsReached>> /\ out' = Append(out, "b") /\ Goto(t, "done")
    BY <1>5 DEF Say, mutexVars
  <2>3. /\ \A j \in DOMAIN out' : out'[j] = "b" => threadsReached' = 3
        /\ \A m, j \in DOMAIN out' : out'[m] = "a" /\ out'[j] = "b" => m < j
    BY <1>1, <2>1, <2>2, Ordered3 DEF Vocabulary
  <2> QED BY <1>5, <2>1, <2>2, <2>3, Inv3Moved DEF At
<1>6. ASSUME NEW t \in Thread, Lock(t, "q3", "lock", "reach") PROVE Inv3'
  <2>1. \A u \in Thread : th'[u] = "condBlocked" <=> th[u] = "condBlocked"
    BY <1>6, AfterTest DEF Lock
  <2> QED BY <1>6, <2>1, Inv3Moved DEF Lock, At
<1>7. ASSUME NEW t \in Thread, Leave(t, "q3", "leave", "b") PROVE Inv3'
  <2>1. \A u \in Thread : th'[u] = "condBlocked" <=> th[u] = "condBlocked"
    BY <1>7, AfterUnlock DEF Leave
  <2>2. threadsReached = 3
    BY <1>7 DEF Leave, In, At, Inv3
  <2> QED BY <1>7, <2>1, <2>2, Inv3Moved DEF Leave, In, At
<1> QED BY <1>2, <1>3, <1>4, <1>5, <1>6, <1>7, Inv3Reach, StepsOf DEF Q3

-----------------------------------------------------------------------------
(* q4.c.                                                                   *)

\* A step of the monitor that blocks and wakes nobody who waits for a
\* condition, by a thread that has nothing to wait for or to announce, or by
\* main before it prints.
LEMMA Inv4Quiet ==
  ASSUME Inv4, UNCHANGED <<cond, oneNext, twoNext, out>>,
         \A u \in Thread : th'[u] = "condBlocked" <=> th[u] = "condBlocked",
         joined' = joined \/ (joined <= 3 /\ joined' <= 3),
         \/ pc'[t0] = pc[t0]
         \/ pc[t0] = "lock" /\ pc'[t0] = "signal"
         \/ pc[t0] = "leave" /\ pc'[t0] = "done",
         \/ pc'[t1] = pc[t1]
         \/ pc[t1] = "start" /\ pc'[t1] = "await"
         \/ pc[t1] = "leave" /\ pc'[t1] = "done",
         \/ pc'[t2] = pc[t2]
         \/ pc[t2] = "start" /\ pc'[t2] = "await"
         \/ pc[t2] = "go" /\ th[t2] # "condBlocked" /\ pc'[t2] = "print"
  PROVE  Inv4'
<1>1. /\ th'[t1] = "condBlocked" <=> th[t1] = "condBlocked"
      /\ th'[t2] = "condBlocked" <=> th[t2] = "condBlocked"
  BY Names
<1>2. InTurnOnly'
  BY <1>1 DEF Inv4, InTurnOnly
<1>3. /\ pc'[t0] = "start" <=> pc[t0] = "start"
      /\ pc'[t1] \in {"start", "await", "go"} <=> pc[t1] \in {"start", "await", "go"}
      /\ pc'[t1] \in {"signal", "leave", "done"}
           <=> pc[t1] \in {"signal", "leave", "done"}
      /\ pc'[t2] = "done" <=> pc[t2] = "done"
  OBVIOUS
<1>4. PrintedInOrder'
  BY <1>3 DEF Inv4, PrintedInOrder, Says
<1> QED BY <1>2, <1>4 DEF Inv4

\* What has been printed follows from where the threads are.
LEMMA SaysMore ==
  ASSUME out \in Seq(Vocabulary), NEW n \in 0..3, Says(n),
         out' = Append(out, Counting[n + 1])
  PROVE  Says(n + 1)'
<1>1. /\ DOMAIN out' = 1..(Len(out) + 1) /\ DOMAIN out = 1..Len(out)
      /\ out'[Len(out) + 1] = Counting[n + 1]
      /\ \A m \in DOMAIN out : out'[m] = out[m]
  BY AppendAt
<1>2. Len(out') = n + 1
  BY DEF Says
<1> QED BY <1>1, <1>2 DEF Says

LEMMA Inv4Await ==
  ASSUME MInv, Common, Inv4, NEW t \in {t1, t2}, NEW turn, NEW c,
         Await(t, turn, c),
         \/ t = t1 /\ turn = oneNext /\ c = oneCanGo
         \/ t = t2 /\ turn = twoNext /\ c = twoCanGo
  PROVE  Inv4'
<1>1. /\ pc[t] = "await" /\ pc' = [pc EXCEPT ![t] = "go"] /\ th[t] = "writing"
      /\ UNCHANGED <<oneNext, twoNext, out, joined>>
      /\ pc \in [Thread -> ExercisePlaces] /\ t \in Thread /\ c \in Cond
  BY Names DEF Await, In, At, Goto, Common
<1>2. CASE turn
  <2>1. UNCHANGED <<cond, th>>
    BY <1>2 DEF Await, mutexVars
  <2> QED BY <1>1, <1>2, <2>1, Names DEF Inv4, InTurnOnly, PrintedInOrder, Says
<1>3. CASE ~turn
  <2>1. /\ Elems(cond'[c]) = Elems(cond[c]) \cup {t}
        /\ \A d \in Cond \ {c} : cond'[d] = cond[d]
        /\ \A u \in Thread : th'[u] = "condBlocked"
                               <=> th[u] = "condBlocked" \/ u = t
    BY <1>1, <1>3, AfterWait DEF Await
  <2>2. /\ Elems(cond'[oneCanGo]) \subseteq {t1}
        /\ Elems(cond'[twoCanGo]) \subseteq {t2}
    BY <2>1, Names DEF Inv4, InTurnOnly, PrintedInOrder, Says
  <2> QED BY <1>1, <1>3, <2>1, <2>2, Names DEF Inv4, InTurnOnly, PrintedInOrder, Says
<1> QED BY <1>2, <1>3

\* The flag is set before the mutex is left, so a woken thread finds it set.
LEMMA Inv4Lets ==
  ASSUME MInv, Common, Inv4, LetOneGo \/ LetTwoGo
  PROVE  Inv4'
<1>1. CASE LetOneGo
  <2>1. /\ pc[t0] = "signal" /\ pc' = [pc EXCEPT ![t0] = "leave"]
        /\ oneNext' = TRUE /\ UNCHANGED <<twoNext, out, joined>>
        /\ CondSignal(t0, oneCanGo) /\ pc \in [Thread -> ExercisePlaces]
    BY <1>1 DEF LetOneGo, In, At, Goto, Common
  <2>2. /\ \A d \in Cond : Elems(cond'[d]) \subseteq Elems(cond[d])
        /\ \A u \in Thread : u \notin Elems(cond[oneCanGo]) => th'[u] = th[u]
    BY <2>1, AfterSignal, Names
  <2>3. th'[t2] = th[t2]
    BY <2>2, Names DEF Inv4, InTurnOnly, PrintedInOrder, Says
  <2> QED BY <2>1, <2>2, <2>3, Names DEF Inv4, InTurnOnly, PrintedInOrder, Says
<1>2. CASE LetTwoGo
  <2>1. /\ pc[t1] = "signal" /\ pc' = [pc EXCEPT ![t1] = "leave"]
        /\ twoNext' = TRUE /\ UNCHANGED <<oneNext, out, joined>>
        /\ CondSignal(t1, twoCanGo) /\ pc \in [Thread -> ExercisePlaces]
    BY <1>2, Names DEF LetTwoGo, In, At, Goto, Common
  <2>2. /\ \A d \in Cond : Elems(cond'[d]) \subseteq Elems(cond[d])
        /\ \A u \in Thread : u \notin Elems(cond[twoCanGo]) => th'[u] = th[u]
    BY <2>1, AfterSignal, Names
  <2>3. th'[t1] = th[t1]
    BY <2>2, Names DEF Inv4, InTurnOnly, PrintedInOrder, Says
  <2> QED BY <2>1, <2>2, <2>3, Names DEF Inv4, InTurnOnly, PrintedInOrder, Says
<1> QED BY <1>1, <1>2

LEMMA Inv4Main ==
  ASSUME Common, Inv4, program = "q4", Main
  PROVE  Inv4'
<1>1. UNCHANGED <<cond, th, pc, oneNext, twoNext>>
  BY DEF Main, Join, Finish, Return, mutexVars
<1>2. CASE Join
  <2>1. out' = out /\ joined <= 3 /\ joined' <= 3
    BY <1>2 DEF Join, Joins, Common
  <2> QED BY <1>1, <2>1, Inv4Quiet
<1>3. CASE Return
  BY <1>1, <1>3, Inv4Quiet DEF Return
<1>4. CASE Finish
  <2>1. joined = 3 /\ joined' = 4 /\ out' = Append(out, "three")
    BY <1>4 DEF Finish, Joins
  <2>2. pc[t2] = "done"
    BY <2>1 DEF Common
  <2>3. Says(4)'
    <3>1. Says(3) /\ out \in Seq(Vocabulary) /\ Counting[4] = "three"
      BY <2>1, <2>2 DEF Inv4, PrintedInOrder, Common, Counting
    <3> QED BY <2>1, <3>1, SaysMore
  <2>4. InTurnOnly'
    BY <1>1 DEF Inv4, InTurnOnly
  <2>5. PrintedInOrder'
    BY <1>1, <2>1, <2>2, <2>3 DEF Inv4, PrintedInOrder, InTurnOnly
  <2> QED BY <2>4, <2>5 DEF Inv4
<1> QED BY <1>2, <1>3, <1>4 DEF Main

LEMMA Inv4Step ==
  ASSUME MInv, Common, Inv4, program = "q4", Next
  PROVE  Inv4'
<1>1. pc \in [Thread -> ExercisePlaces]
  BY DEF Common
<1>2. ASSUME NEW t \in Thread, Acquire(t) PROVE Inv4'
  <2>1. cond' = cond /\ \A u \in Thread : th'[u] = "condBlocked" <=> th[u] = "condBlocked"
    BY <1>2, AfterTest DEF Acquire
  <2> QED BY <1>2, <2>1, Inv4Quiet DEF Acquire, appVars
<1>3. ASSUME NEW t \in Thread, NEW from, NEW to,
             \/ t = t0 /\ Lock(t, "q4", from, to) /\ from = "lock" /\ to = "signal"
             \/ t \in {t1, t2} /\ Lock(t, "q4", from, to) /\ from = "start" /\ to = "await"
             \/ t \in {t0, t1} /\ Leave(t, "q4", from, to) /\ from = "leave" /\ to = "done"
             \/ t = t2 /\ Leave(t, "q4", from, to) /\ from = "go" /\ to = "print"
      PROVE  Inv4'
  <2>1. cond' = cond /\ \A u \in Thread : th'[u] = "condBlocked" <=> th[u] = "condBlocked"
    BY <1>3, AfterTest, AfterUnlock DEF Lock, Leave
  <2>2. /\ pc[t] = from /\ pc' = [pc EXCEPT ![t] = to]
        /\ UNCHANGED <<oneNext, twoNext, out, joined>>
    BY <1>3 DEF Lock, Leave, In, At, Goto
  <2>3. th[t] = "writing" \/ from # "go"
    BY <1>3 DEF Leave, In
  <2> QED BY <1>1, <1>3, <2>1, <2>2, <2>3, Inv4Quiet, Names
<1>4. /\ Counting[1] = "zero" /\ Counting[2] = "one" /\ Counting[3] = "two"
      /\ out \in Seq(Vocabulary) /\ joined \in Nat
  BY DEF Counting, Common
<1>5. ASSUME At(t0, "q4", "start"), Say(t0, "zero", "lock") PROVE Inv4'
  <2>1. Says(1)'
    <3>1. Says(0)
      BY <1>5 DEF At, Inv4, PrintedInOrder
    <3> QED BY <1>4, <1>5, <3>1, SaysMore DEF Say
  <2> QED BY <1>1, <1>5, <2>1, Names DEF At, Say, Goto, Inv4, InTurnOnly, PrintedInOrder, Says, mutexVars
<1>6. ASSUME In(t1, "q4", "go"), Say(t1, "one", "signal") PROVE Inv4'
  <2>1. Says(2)'
    <3>1. Says(1)
      BY <1>6 DEF In, At, Inv4, InTurnOnly, PrintedInOrder, Says
    <3> QED BY <1>4, <1>6, <3>1, SaysMore DEF Say
  <2> QED BY <1>1, <1>6, <2>1, Names DEF In, At, Say, Goto, Inv4, InTurnOnly, PrintedInOrder, Says, mutexVars
<1>7. ASSUME At(t2, "q4", "print"), Say(t2, "two", "done") PROVE Inv4'
  <2>1. Says(3)'
    <3>1. Says(2)
      BY <1>7 DEF At, Inv4, InTurnOnly, PrintedInOrder, Says
    <3> QED BY <1>4, <1>7, <3>1, SaysMore DEF Say
  <2> QED BY <1>1, <1>7, <2>1, Names DEF At, Say, Goto, Inv4, InTurnOnly, PrintedInOrder, Says, mutexVars
<1>8. CASE Q4Zero
  BY <1>3, <1>5, <1>8, Inv4Lets, Names DEF Q4Zero
<1>9. CASE Q4One
  BY <1>3, <1>6, <1>9, Inv4Lets, Inv4Await, Names DEF Q4One
<1>10. CASE Q4Two
  BY <1>3, <1>7, <1>10, Inv4Await, Names DEF Q4Two
<1> QED BY <1>2, <1>8, <1>9, <1>10, Inv4Main, StepsOf

-----------------------------------------------------------------------------
LEMMA RInvStep ==
  ASSUME RInv, [Next]_vars, MInv'
  PROVE  RInv'
<1>1. CASE UNCHANGED vars
  <2>1. UNCHANGED <<mutexVars, program, pc, out, joined, ended, cnt, reg, k,
                    threadsReached, oneNext, twoNext>>
    BY <1>1 DEF vars, appVars
  <2> USE <2>1 DEF mutexVars
  <2>2. Common'
    BY DEF RInv, Common
  <2>3. Inv1 => Inv1'
    BY DEF Inv1, Before
  <2>4. Inv2 => Inv2'
    BY DEF Inv2, Share
  <2>5. Inv3 => Inv3'
    BY DEF Inv3, Reached
  <2>6. Inv4 => Inv4'
    BY DEF Inv4, InTurnOnly, PrintedInOrder, Says
  <2> QED BY <2>2, <2>3, <2>4, <2>5, <2>6 DEF RInv
<1>2. CASE Next
  <2>1. program' = program /\ Common'
    BY <1>2, StepsOf, CommonStep DEF RInv
  <2> QED BY <1>2, <2>1, Inv1Step, Inv2Step, Inv3Step, Inv4Step DEF RInv
<1> QED BY <1>1, <1>2

LEMMA SaysPrefix ==
  ASSUME out \in Seq(Vocabulary), NEW n \in 0..4, Says(n)
  PROVE  IsPrefix(out, Counting)
<1>1. Len(Counting) = 4 /\ \A m \in 1..4 : Counting[m] \in Vocabulary
  BY DEF Counting, Vocabulary
<1>2. SubSeq(out, 1, n) = SubSeq(Counting, 1, n)
  BY <1>1 DEF Says
<1> QED BY <1>1, <1>2 DEF Says, IsPrefix

\* For any number of iterations: the output comes in its order, whoever runs
\* when; in particular q2.c loses no update, no thread of q3.c passes the
\* barrier before all have reached it, and in q4.c no thread goes out of turn.
THEOREM OutputInOrder == Spec => []OutputRight
<1>1. RInv => OutputRight
  <2>1. ASSUME RInv, program = "q1" PROVE OutputRight
    BY <2>1 DEF RInv, Inv1, OutputRight
  <2>2. ASSUME RInv, program = "q2" PROVE OutputRight
    BY <2>2 DEF RInv, Inv2, OutputRight
  <2>3. ASSUME RInv, program = "q3" PROVE OutputRight
    BY <2>3 DEF RInv, Inv3, OutputRight
  <2>4. ASSUME RInv, program = "q4" PROVE OutputRight
    BY <2>4, SaysPrefix DEF RInv, Common, Inv4, PrintedInOrder, Counting, OutputRight
  <2> QED BY <2>1, <2>2, <2>3, <2>4 DEF RInv, Common
<1>2. RInv /\ [Next]_vars /\ MInv' => RInv'
  BY RInvStep
<1> QED
  BY <1>1, <1>2, RInvInit, ExercisesUseMonitor, MInvAlways, PTL DEF Spec

-----------------------------------------------------------------------------
(* The well.  Who goes in next rests on the order of the ready queue.       *)

PeopleAt(s) == {p \in W!People : at[p] = s}
Woken == {p \in PeopleAt("woken") : p \in Elems(ready)}

\* p is done yielding before q is.
Sooner(p, q) ==
  \/ yields[p] < yields[q]
  \/ yields[p] = yields[q] /\ Precedes(ready, p, q)

\* p has just begun to yield, behind q, who is about to be done with that.
JustBehind(p, q) ==
  /\ yields[q] = 0 /\ yields[p] = NUM_PEOPLE - 1
  /\ Precedes(ready, q, p)

WellTypes ==
  /\ kind \in [W!People -> W!Kinds] /\ endianness \in W!Kinds
  /\ waiting \in [W!Kinds -> Seq(W!People)]
  /\ ready \in Seq(W!People)
  /\ at \in [W!People -> {"enter", "woken", "inside", "outside", "done"}]
  /\ yields \in [W!People -> 0 .. NUM_PEOPLE - 1]

\* Everybody is ready, waits for the own kind, or is done.
Whereabouts ==
  /\ Once(ready)
  /\ \A p \in W!People :
       /\ at[p] \in {"enter", "inside", "outside"} => p \in Elems(ready)
       /\ at[p] = "woken" => p \in Elems(ready) \/ p \in Elems(waiting[kind[p]])
       /\ at[p] = "done" => p \notin Elems(ready)
       /\ at[p] \in {"enter", "woken"} => yields[p] = 0
  /\ \A g \in W!Kinds :
       /\ Once(waiting[g])
       /\ \A p \in Elems(waiting[g]) :
            at[p] = "woken" /\ kind[p] = g /\ p \notin Elems(ready)

\* Those who have been signalled go in before anybody else moves to or fro.
WokenFirst ==
  \A w \in Woken :
    /\ kind[w] = endianness
    /\ PeopleAt("enter") = {}
    /\ \A p \in PeopleAt("outside") : Sooner(w, p)
    /\ \A p \in PeopleAt("inside") : Precedes(ready, w, p) /\ yields[p] = NUM_PEOPLE - 1

\* Those inside came in one after the other, and after the others had left, who will
\* be back before they leave.
InsideLast ==
  \A p \in PeopleAt("inside") :
    /\ kind[p] = endianness
    /\ \A e \in PeopleAt("enter") : Sooner(e, p)
    /\ \A o \in PeopleAt("outside") : Sooner(o, p) \/ JustBehind(o, p)
    /\ \A q \in PeopleAt("inside") :
         Precedes(ready, p, q) => yields[p] \in {yields[q], yields[q] + 1}

\* The well has been turned to a kind of which nobody waits, if nobody is in or
\* called.
TurnedInVain == count = 0 /\ Woken = {} => waiting[endianness] = <<>>

WellInv ==
  /\ WellTypes
  /\ Whereabouts
  /\ count = Cardinality(W!Inside)
  /\ Cardinality(W!Inside \cup Woken) <= W!Signalled
  /\ WokenFirst
  /\ InsideLast
  /\ TurnedInVain

LEMMA PeopleFinite ==
  ASSUME W!WellAssumption
  PROVE  /\ NUM_PEOPLE \in Nat \ {0} /\ W!People \subseteq Nat
         /\ \A S \in SUBSET W!People : IsFiniteSet(S) /\ Cardinality(S) \in Nat
<1>1. NUM_PEOPLE \in Nat \ {0} /\ W!People \subseteq Nat
  BY DEF W!WellAssumption, W!People
<1>2. IsFiniteSet(W!People)
  BY <1>1, FS_Interval DEF W!People
<1> QED BY <1>1, <1>2, FS_Subset, FS_CardinalityType

\* The person who runs is at the head of the ready queue.
LEMMA WellHead ==
  ASSUME WellTypes, Whereabouts, NEW p \in W!People, NEW s, W!Running(p, s)
  PROVE  /\ ready # <<>> /\ p = Head(ready) /\ at[p] = s
         /\ p \in Elems(ready) /\ Elems(ready) \subseteq W!People
         /\ \A a : ~Precedes(ready, a, p)
         /\ \A b \in Elems(ready) \ {p} : Precedes(ready, p, b)
<1>1. /\ ready # <<>> /\ p = Head(ready) /\ at[p] = s
      /\ ready \in Seq(W!People) /\ Once(ready)
  BY DEF WellTypes, Whereabouts, W!Running
<1> QED BY <1>1, ElemsType, DequeueOnce, TailOrder

\* Who yields goes behind all the others, whose order stays.
LEMMA Turned ==
  ASSUME WellTypes, Whereabouts, ready # <<>>, NEW p, p = Head(ready),
         ready' = Append(Tail(ready), p)
  PROVE  LET others == Elems(ready) \ {p}
         IN  /\ ready' \in Seq(W!People) /\ Once(ready') /\ Elems(ready') = Elems(ready)
             /\ \A a, b \in others : Precedes(ready', a, b) <=> Precedes(ready, a, b)
             /\ \A a \in others : Precedes(ready', a, p) /\ ~Precedes(ready', p, a)
<1>1. ready \in Seq(W!People) /\ Once(ready)
  BY DEF WellTypes, Whereabouts
<1> QED BY <1>1, TurnAlone

LEMMA TurnedAfterNobody ==
  ASSUME WellTypes, ready # <<>>, NEW p, p = Head(ready),
         ready' = Tail(ready) \o <<>> \o <<p>>
  PROVE  ready' = Append(Tail(ready), p)
<1>1. Tail(ready) \in Seq(W!People) /\ p \in W!People
  BY HeadTailProperties DEF WellTypes
<1> QED BY <1>1, NothingBetween

\* Who blocks or returns leaves the order of the others.
LEMMA Left ==
  ASSUME WellTypes, Whereabouts, ready # <<>>, NEW p, p = Head(ready), ready' = Tail(ready)
  PROVE  LET others == Elems(ready) \ {p}
         IN  /\ ready' \in Seq(W!People) /\ Once(ready') /\ Elems(ready') = others
             /\ \A a, b \in others : Precedes(ready', a, b) <=> Precedes(ready, a, b)
<1>1. ready \in Seq(W!People) /\ Once(ready)
  BY DEF WellTypes, Whereabouts
<1> QED BY <1>1, DequeueOnce, TailOrder

\* Who moves between the outside and the inside remains ready.
LEMMA StillReady ==
  ASSUME WellTypes, Whereabouts, NEW p \in W!People, p \in Elems(ready),
         kind' = kind, waiting' = waiting, Once(ready'), Elems(ready') = Elems(ready),
         \A q \in W!People \ {p} : at'[q] = at[q] /\ yields'[q] = yields[q],
         at'[p] \in {"enter", "inside", "outside"}, at'[p] = "enter" => yields'[p] = 0
  PROVE  Whereabouts'
<1>1. ASSUME NEW q \in W!People
      PROVE  /\ at'[q] \in {"enter", "inside", "outside"} => q \in Elems(ready')
             /\ at'[q] = "woken" => q \in Elems(ready') \/ q \in Elems(waiting'[kind'[q]])
             /\ at'[q] = "done" => q \notin Elems(ready')
             /\ at'[q] \in {"enter", "woken"} => yields'[q] = 0
  <2>1. CASE q = p
    BY <2>1
  <2>2. CASE q # p
    <3>1. at'[q] = at[q] /\ yields'[q] = yields[q]
      BY <2>2
    <3> QED BY <3>1 DEF Whereabouts
  <2> QED BY <2>1, <2>2
<1>2. ASSUME NEW g \in W!Kinds
      PROVE  /\ Once(waiting'[g])
             /\ \A q \in Elems(waiting'[g]) :
                  at'[q] = "woken" /\ kind'[q] = g /\ q \notin Elems(ready')
  <2>1. /\ Once(waiting[g])
        /\ \A q \in Elems(waiting[g]) :
             q \in W!People /\ at[q] = "woken" /\ kind[q] = g /\ q \notin Elems(ready)
    BY ElemsType DEF WellTypes, Whereabouts
  <2>2. \A q \in Elems(waiting[g]) : at'[q] = at[q]
    BY <2>1
  <2> QED BY <2>1, <2>2
<1> QED BY <1>1, <1>2 DEF Whereabouts

-----------------------------------------------------------------------------
LEMMA WellInit == W!WellAssumption /\ W!Init => WellInv
<1> SUFFICES ASSUME W!WellAssumption, W!Init PROVE WellInv
  OBVIOUS
<1>1. NUM_PEOPLE \in Nat \ {0} /\ W!People = 1..NUM_PEOPLE
  BY DEF W!WellAssumption, W!People
<1>2. /\ ready \in Seq(W!People) /\ DOMAIN ready = W!People
      /\ \A p \in W!People : ready[p] = p
  BY <1>1 DEF W!Init
<1>3. Once(ready) /\ Elems(ready) = W!People
  BY <1>2 DEF Once, Elems
<1>4. /\ kind \in [W!People -> W!Kinds] /\ endianness = "LITTLE"
      /\ waiting = [g \in W!Kinds |-> <<>>]
      /\ at = [p \in W!People |-> "enter"] /\ yields = [p \in W!People |-> 0]
      /\ count = 0
  BY DEF W!Init
<1>5. WellTypes
  BY <1>1, <1>2, <1>4 DEF WellTypes, W!Kinds
<1>6. /\ PeopleAt("woken") = {} /\ PeopleAt("inside") = {} /\ W!Inside = {}
      /\ Woken = {}
  BY <1>4 DEF PeopleAt, Woken, W!Inside
<1>7. Whereabouts
  BY <1>3, <1>4, EmptyQueue DEF Whereabouts
<1>8. TurnedInVain
  BY <1>4 DEF TurnedInVain, W!Kinds
<1> QED BY <1>4, <1>5, <1>6, <1>7, <1>8, FS_EmptySet
        DEF WellInv, WokenFirst, InsideLast, W!Signalled

\* Somebody finds the well empty and goes in.
LEMMA WellEnterEmpty ==
  ASSUME W!WellAssumption, WellInv, NEW p \in W!People, W!Enter(p), count = 0
  PROVE  WellInv'
<1> DEFINE others == Elems(ready) \ {p}
<1>1. /\ ready # <<>> /\ p = Head(ready) /\ at[p] = "enter"
      /\ p \in Elems(ready) /\ Elems(ready) \subseteq W!People
  BY WellHead DEF WellInv, W!Enter
<1>2. /\ endianness' = kind[p] /\ count' = count + 1
      /\ ready' = Tail(ready) \o <<>> \o <<p>>
      /\ at' = [at EXCEPT ![p] = "inside"]
      /\ yields' = [yields EXCEPT ![p] = NUM_PEOPLE - 1]
      /\ kind' = kind /\ waiting' = waiting
  BY DEF W!Enter, W!GoIn, W!YieldAfter
<1>3. /\ ready' \in Seq(W!People) /\ Once(ready') /\ Elems(ready') = Elems(ready)
      /\ \A a \in others : Precedes(ready', a, p) /\ ~Precedes(ready', p, a)
  BY <1>1, <1>2, TurnedAfterNobody, Turned DEF WellInv
<1>4. NUM_PEOPLE \in Nat \ {0}
  BY PeopleFinite
<1>5. WellTypes'
  BY <1>2, <1>3, <1>4 DEF WellInv, WellTypes
<1>6. at' = [q \in W!People |-> IF q = p THEN "inside" ELSE at[q]]
  BY <1>2 DEF WellInv, WellTypes
<1>7. Whereabouts'
  BY <1>1, <1>2, <1>3, <1>6, StillReady DEF WellInv, WellTypes
<1>8. W!Inside = {} /\ Woken = {}
  <2>1. W!Inside = {}
    BY PeopleFinite, FS_EmptySet DEF WellInv, W!Inside
  <2>2. p \in PeopleAt("enter")
    BY <1>1 DEF PeopleAt
  <2> QED BY <2>1, <2>2 DEF WellInv, WokenFirst
<1>9. W!Inside' = {p} /\ PeopleAt("inside")' = {p} /\ Woken' = {}
  BY <1>3, <1>6, <1>8 DEF Woken, PeopleAt, W!Inside
<1>10. count' = Cardinality(W!Inside)' /\ Cardinality(W!Inside \cup Woken)' <= W!Signalled
  <2>1. Cardinality({p}) = 1 /\ W!Inside' \cup Woken' = {p}
    BY <1>9, FS_Singleton
  <2>2. count' = 1
    BY <1>2
  <2> QED BY <1>9, <2>1, <2>2 DEF W!Signalled
<1>11. WokenFirst'
  BY <1>9 DEF WokenFirst
<1>12. ASSUME NEW o \in W!People, at'[o] \in {"enter", "outside"} PROVE Sooner(o, p)'
  <2>1. o \in others
    BY <1>6, <1>12 DEF WellInv, Whereabouts
  <2>2. yields'[o] \in 0 .. NUM_PEOPLE - 1 /\ yields'[p] = NUM_PEOPLE - 1
    BY <1>2, <1>5 DEF WellTypes, WellInv
  <2> QED BY <1>3, <1>4, <2>1, <2>2 DEF Sooner
<1>13. InsideLast'
  <2>1. yields'[p] \in {yields'[p], yields'[p] + 1}
    OBVIOUS
  <2> QED BY <1>2, <1>9, <1>12, <2>1 DEF InsideLast, PeopleAt
<1>14. TurnedInVain'
  BY <1>2 DEF TurnedInVain
<1> QED BY <1>5, <1>7, <1>10, <1>11, <1>13, <1>14 DEF WellInv

\* Somebody finds people in the well, and waits.
LEMMA WellEnterWaits ==
  ASSUME W!WellAssumption, WellInv, NEW p \in W!People, W!Enter(p), count # 0
  PROVE  WellInv'
<1> DEFINE others == Elems(ready) \ {p}
<1>1. /\ ready # <<>> /\ p = Head(ready) /\ at[p] = "enter"
      /\ p \in Elems(ready) /\ Elems(ready) \subseteq W!People
  BY WellHead DEF WellInv, W!Enter
<1>2. /\ endianness' = endianness /\ count' = count
      /\ ready' = Tail(ready)
      /\ at' = [at EXCEPT ![p] = "woken"]
      /\ waiting' = [waiting EXCEPT ![kind[p]] = Append(waiting[kind[p]], p)]
      /\ kind' = kind /\ yields' = yields
  BY DEF W!Enter
<1>3. /\ ready' \in Seq(W!People) /\ Once(ready') /\ Elems(ready') = others
      /\ \A a, b \in others : Precedes(ready', a, b) <=> Precedes(ready, a, b)
  BY <1>1, <1>2, Left DEF WellInv
<1>4. at' = [q \in W!People |-> IF q = p THEN "woken" ELSE at[q]]
  BY <1>2 DEF WellInv, WellTypes
<1>5. /\ kind[p] \in W!Kinds /\ p \notin Elems(waiting[kind[p]])
      /\ waiting[kind[p]] \in Seq(W!People) /\ Once(waiting[kind[p]])
  BY <1>1 DEF WellInv, WellTypes, Whereabouts
<1>6. /\ Append(waiting[kind[p]], p) \in Seq(W!People)
      /\ Elems(Append(waiting[kind[p]], p)) = Elems(waiting[kind[p]]) \cup {p}
      /\ Once(Append(waiting[kind[p]], p))
  BY <1>5, EnqueueOnce
<1>7. WellTypes'
  BY <1>2, <1>3, <1>5, <1>6 DEF WellInv, WellTypes
<1>8. \A g \in W!Kinds :
        waiting'[g] = IF g = kind[p] THEN Append(waiting[kind[p]], p) ELSE waiting[g]
  BY <1>2, <1>5 DEF WellInv, WellTypes
<1>9. Whereabouts'
  <2>1. ASSUME NEW q \in W!People
        PROVE  /\ at'[q] \in {"enter", "inside", "outside"} => q \in Elems(ready')
               /\ at'[q] = "woken" => q \in Elems(ready') \/ q \in Elems(waiting'[kind'[q]])
               /\ at'[q] = "done" => q \notin Elems(ready')
               /\ at'[q] \in {"enter", "woken"} => yields'[q] = 0
    <3>1. kind'[q] = kind[q] /\ kind[q] \in W!Kinds /\ yields'[q] = yields[q]
      BY <1>2 DEF WellInv, WellTypes
    <3>2. CASE q = p
      BY <1>1, <1>4, <1>5, <1>6, <1>8, <3>1, <3>2 DEF WellInv, Whereabouts
    <3>3. CASE q # p
      <4>1. at'[q] = at[q] /\ (q \in Elems(ready') <=> q \in Elems(ready))
        BY <1>3, <1>4, <3>3
      <4>2. q \in Elems(waiting'[kind'[q]]) <=> q \in Elems(waiting[kind[q]])
        BY <1>6, <1>8, <3>1, <3>3
      <4> QED BY <3>1, <4>1, <4>2 DEF WellInv, Whereabouts
    <3> QED BY <3>2, <3>3
  <2>2. ASSUME NEW g \in W!Kinds
        PROVE  /\ Once(waiting'[g])
               /\ \A q \in Elems(waiting'[g]) :
                    at'[q] = "woken" /\ kind'[q] = g /\ q \notin Elems(ready')
    <3>1. /\ Once(waiting[g])
          /\ \A q \in Elems(waiting[g]) :
               q \in W!People /\ at[q] = "woken" /\ kind[q] = g /\ q \notin Elems(ready)
      BY ElemsType DEF WellInv, WellTypes, Whereabouts
    <3> QED BY <1>2, <1>3, <1>4, <1>6, <1>8, <3>1
  <2> QED BY <1>3, <2>1, <2>2 DEF Whereabouts
<1>10. Woken = {}
  <2>1. p \in PeopleAt("enter")
    BY <1>1 DEF PeopleAt
  <2> QED BY <2>1 DEF WellInv, WokenFirst
<1>11. /\ W!Inside' = W!Inside /\ Woken' = {}
       /\ PeopleAt("inside")' = PeopleAt("inside") /\ PeopleAt("outside")' = PeopleAt("outside")
       /\ PeopleAt("enter")' = PeopleAt("enter") \ {p}
  BY <1>1, <1>3, <1>4, <1>10 DEF Woken, PeopleAt, W!Inside
<1>12. count' = Cardinality(W!Inside)' /\ Cardinality(W!Inside \cup Woken)' <= W!Signalled
  BY <1>2, <1>10, <1>11 DEF WellInv
<1>13. WokenFirst'
  BY <1>11 DEF WokenFirst
<1>14. PeopleAt("inside") \cup PeopleAt("outside") \cup PeopleAt("enter")' \subseteq others
  BY <1>1, <1>11 DEF PeopleAt, WellInv, Whereabouts
<1>15. \A a, b \in others : /\ Sooner(a, b)' <=> Sooner(a, b)
                            /\ JustBehind(a, b)' <=> JustBehind(a, b)
  BY <1>2, <1>3 DEF Sooner, JustBehind
<1>16. InsideLast'
  BY <1>2, <1>3, <1>11, <1>14, <1>15 DEF WellInv, InsideLast
<1>17. TurnedInVain'
  BY <1>2 DEF TurnedInVain
<1> QED BY <1>7, <1>9, <1>12, <1>13, <1>16, <1>17 DEF WellInv

\* Somebody who has been signalled goes in.
LEMMA WellEnterWoken ==
  ASSUME W!WellAssumption, WellInv, NEW p \in W!People, W!EnterWoken(p)
  PROVE  WellInv'
<1> DEFINE others == Elems(ready) \ {p}
<1>1. /\ ready # <<>> /\ p = Head(ready) /\ at[p] = "woken"
      /\ p \in Elems(ready) /\ Elems(ready) \subseteq W!People
  BY WellHead DEF WellInv, W!EnterWoken
<1>2. /\ endianness' = endianness /\ count' = count + 1
      /\ ready' = Tail(ready) \o <<>> \o <<p>>
      /\ at' = [at EXCEPT ![p] = "inside"]
      /\ yields' = [yields EXCEPT ![p] = NUM_PEOPLE - 1]
      /\ kind' = kind /\ waiting' = waiting
  BY DEF W!EnterWoken, W!GoIn, W!YieldAfter
<1>3. /\ ready' \in Seq(W!People) /\ Once(ready') /\ Elems(ready') = Elems(ready)
      /\ \A a, b \in others : Precedes(ready', a, b) <=> Precedes(ready, a, b)
      /\ \A a \in others : Precedes(ready', a, p) /\ ~Precedes(ready', p, a)
  BY <1>1, <1>2, TurnedAfterNobody, Turned DEF WellInv
<1>4. NUM_PEOPLE \in Nat \ {0}
  BY PeopleFinite
<1>5. WellTypes'
  BY <1>2, <1>3, <1>4 DEF WellInv, WellTypes
<1>6. /\ at' = [q \in W!People |-> IF q = p THEN "inside" ELSE at[q]]
      /\ yields' = [q \in W!People |-> IF q = p THEN NUM_PEOPLE - 1 ELSE yields[q]]
  BY <1>2 DEF WellInv, WellTypes
<1>7. Whereabouts'
  BY <1>1, <1>2, <1>3, <1>6, StillReady DEF WellInv
<1>8. p \in Woken /\ p \notin W!Inside
  BY <1>1 DEF Woken, PeopleAt, W!Inside
<1>9. /\ kind[p] = endianness /\ PeopleAt("enter") = {}
      /\ \A q \in PeopleAt("inside") : yields[q] = NUM_PEOPLE - 1
  BY <1>8 DEF WellInv, WokenFirst
<1>10. /\ W!Inside' = W!Inside \cup {p} /\ Woken' = Woken \ {p}
       /\ PeopleAt("inside")' = PeopleAt("inside") \cup {p}
       /\ PeopleAt("outside")' = PeopleAt("outside") /\ PeopleAt("enter")' = {}
  BY <1>1, <1>3, <1>6, <1>9 DEF Woken, PeopleAt, W!Inside
<1>11. count' = Cardinality(W!Inside)' /\ Cardinality(W!Inside \cup Woken)' <= W!Signalled
  <2>1. W!Inside' \cup Woken' = W!Inside \cup Woken
    BY <1>8, <1>10
  <2>2. IsFiniteSet(W!Inside)
    BY PeopleFinite DEF W!Inside
  <2> QED BY <1>2, <1>8, <1>10, <2>1, <2>2, FS_AddElement DEF WellInv
<1>12. /\ PeopleAt("inside") \cup PeopleAt("outside") \cup Woken' \subseteq others
       /\ Woken' \subseteq Woken /\ p \notin PeopleAt("inside")
  BY <1>1, <1>10 DEF PeopleAt, Woken, WellInv, Whereabouts
<1>13. \A a, b \in others : /\ Sooner(a, b)' <=> Sooner(a, b)
                            /\ JustBehind(a, b)' <=> JustBehind(a, b)
  <2>1. others \subseteq W!People \ {p}
    BY <1>1
  <2> QED BY <1>3, <1>6, <2>1 DEF Sooner, JustBehind
<1>14. /\ yields'[p] = NUM_PEOPLE - 1
       /\ \A q \in others : yields'[q] = yields[q] /\ yields[q] \in 0 .. NUM_PEOPLE - 1
  BY <1>1, <1>6 DEF WellInv, WellTypes
<1>15. WokenFirst'
  <2> SUFFICES ASSUME NEW w \in Woken'
               PROVE  /\ kind'[w] = endianness'
                      /\ \A o \in PeopleAt("outside")' : Sooner(w, o)'
                      /\ \A q \in PeopleAt("inside")' :
                           Precedes(ready', w, q) /\ yields'[q] = NUM_PEOPLE - 1
    BY <1>10 DEF WokenFirst
  <2>1. w \in Woken /\ w \in others
    BY <1>12
  <2> QED BY <1>2, <1>3, <1>10, <1>12, <1>13, <1>14, <2>1 DEF WellInv, WokenFirst
<1>16. InsideLast'
  <2> SUFFICES ASSUME NEW q \in PeopleAt("inside")'
               PROVE  /\ kind'[q] = endianness'
                      /\ \A o \in PeopleAt("outside")' : Sooner(o, q)' \/ JustBehind(o, q)'
                      /\ \A r \in PeopleAt("inside")' :
                           Precedes(ready', q, r) => yields'[q] \in {yields'[r], yields'[r] + 1}
    BY <1>10 DEF InsideLast
  <2>1. CASE q = p
    <3>1. \A o \in PeopleAt("outside") : Sooner(o, p)'
      BY <1>3, <1>4, <1>12, <1>14 DEF Sooner
    <3>2. \A r \in PeopleAt("inside") : ~Precedes(ready', p, r)
      BY <1>3, <1>12
    <3> QED BY <1>2, <1>9, <1>10, <2>1, <3>1, <3>2
  <2>2. CASE q # p
    <3>1. q \in PeopleAt("inside") /\ q \in others
      BY <1>10, <1>12, <2>2
    <3>2. yields'[q] = NUM_PEOPLE - 1 /\ yields'[p] = NUM_PEOPLE - 1
      BY <1>9, <1>14, <3>1
    <3>3. \A r \in PeopleAt("inside") :
            Precedes(ready', q, r) => yields'[q] \in {yields'[r], yields'[r] + 1}
      BY <1>3, <1>12, <1>14, <3>1 DEF WellInv, InsideLast
    <3> QED BY <1>2, <1>10, <1>12, <1>13, <3>1, <3>2, <3>3 DEF WellInv, InsideLast
  <2> QED BY <2>1, <2>2
<1>17. TurnedInVain'
  <2>1. count' # 0
    BY <1>2, PeopleFinite DEF WellInv, W!Inside
  <2> QED BY <2>1 DEF TurnedInVain
<1> QED BY <1>5, <1>7, <1>11, <1>15, <1>16, <1>17 DEF WellInv

\* Somebody yields.
LEMMA WellYield ==
  ASSUME W!WellAssumption, WellInv, NEW p \in W!People, W!Yield(p)
  PROVE  WellInv'
<1> DEFINE others == Elems(ready) \ {p}
<1>1. /\ ready # <<>> /\ p = Head(ready) /\ at[p] \in {"inside", "outside"}
      /\ p \in Elems(ready) /\ Elems(ready) \subseteq W!People
      /\ \A a : ~Precedes(ready, a, p)
      /\ \A b \in others : Precedes(ready, p, b)
  BY WellHead DEF WellInv, W!Yield
<1>2. /\ endianness' = endianness /\ count' = count /\ at' = at
      /\ ready' = Append(Tail(ready), p)
      /\ yields' = [yields EXCEPT ![p] = yields[p] - 1] /\ yields[p] > 0
      /\ kind' = kind /\ waiting' = waiting
  BY DEF W!Yield
<1>3. /\ ready' \in Seq(W!People) /\ Once(ready') /\ Elems(ready') = Elems(ready)
      /\ \A a, b \in others : Precedes(ready', a, b) <=> Precedes(ready, a, b)
      /\ \A a \in others : Precedes(ready', a, p) /\ ~Precedes(ready', p, a)
  BY <1>1, <1>2, Turned DEF WellInv
<1>4. NUM_PEOPLE \in Nat \ {0}
  BY PeopleFinite
<1>5. /\ yields' = [q \in W!People |-> IF q = p THEN yields[p] - 1 ELSE yields[q]]
      /\ \A q \in W!People : yields[q] \in 0 .. NUM_PEOPLE - 1
      /\ yields[p] - 1 \in 0 .. NUM_PEOPLE - 1
  <2>1. yields \in [W!People -> 0 .. NUM_PEOPLE - 1]
    BY DEF WellInv, WellTypes
  <2>2. yields[p] \in 0 .. NUM_PEOPLE - 1
    BY <2>1
  <2>3. yields[p] - 1 \in 0 .. NUM_PEOPLE - 1
    BY <1>2, <1>4, <2>2
  <2> QED BY <1>2, <2>1, <2>3
<1>6. WellTypes'
  BY <1>2, <1>3, <1>5 DEF WellInv, WellTypes
<1>7. Whereabouts'
  BY <1>1, <1>2, <1>3, <1>5, StillReady DEF WellInv
<1>8. /\ W!Inside' = W!Inside /\ Woken' = Woken
      /\ \A s : PeopleAt(s)' = PeopleAt(s)
  BY <1>2, <1>3 DEF Woken, PeopleAt, W!Inside
<1>9. /\ PeopleAt("inside") \cup PeopleAt("outside") \cup PeopleAt("enter") \cup Woken
           \subseteq Elems(ready)
      /\ p \notin PeopleAt("enter") /\ p \notin Woken
  BY <1>1 DEF PeopleAt, Woken, WellInv, Whereabouts
<1>10. \A a, b \in others : /\ Sooner(a, b)' <=> Sooner(a, b)
                            /\ JustBehind(a, b)' <=> JustBehind(a, b)
  <2>1. others \subseteq W!People \ {p}
    BY <1>1
  <2> QED BY <1>3, <1>5, <2>1 DEF Sooner, JustBehind
<1>11. /\ yields'[p] = yields[p] - 1 /\ yields[p] \in 0 .. NUM_PEOPLE - 1
       /\ \A q \in others : yields'[q] = yields[q] /\ yields[q] \in 0 .. NUM_PEOPLE - 1
  BY <1>1, <1>5
<1>12. ASSUME NEW q \in others PROVE Sooner(q, p) => Sooner(q, p)'
  BY <1>1, <1>3, <1>4, <1>11 DEF Sooner
<1>13. ASSUME NEW q \in others PROVE Sooner(p, q) => Sooner(p, q)'
  BY <1>1, <1>3, <1>4, <1>11 DEF Sooner
<1>14. WokenFirst'
  <2> SUFFICES ASSUME NEW w \in Woken
               PROVE  /\ kind[w] = endianness /\ PeopleAt("enter") = {}
                      /\ \A o \in PeopleAt("outside") : Sooner(w, o)'
                      /\ \A q \in PeopleAt("inside") :
                           Precedes(ready', w, q) /\ yields'[q] = NUM_PEOPLE - 1
    BY <1>2, <1>8 DEF WokenFirst
  <2>1. /\ kind[w] = endianness /\ PeopleAt("enter") = {}
        /\ \A o \in PeopleAt("outside") : Sooner(w, o)
        /\ \A q \in PeopleAt("inside") :
             Precedes(ready, w, q) /\ yields[q] = NUM_PEOPLE - 1
    BY DEF WellInv, WokenFirst
  <2>2. p \notin PeopleAt("inside") /\ w \in others
    BY <1>1, <1>9, <2>1
  <2>3. \A o \in PeopleAt("outside") : Sooner(w, o)'
    BY <1>9, <1>10, <1>12, <2>1, <2>2
  <2> QED BY <1>3, <1>9, <1>11, <2>1, <2>2, <2>3
<1>15. InsideLast'
  <2> SUFFICES ASSUME NEW q \in PeopleAt("inside")
               PROVE  /\ kind[q] = endianness
                      /\ \A e \in PeopleAt("enter") : Sooner(e, q)'
                      /\ \A o \in PeopleAt("outside") : Sooner(o, q)' \/ JustBehind(o, q)'
                      /\ \A r \in PeopleAt("inside") :
                           Precedes(ready', q, r) => yields'[q] \in {yields'[r], yields'[r] + 1}
    BY <1>2, <1>8 DEF InsideLast
  <2>1. /\ kind[q] = endianness
        /\ \A e \in PeopleAt("enter") : Sooner(e, q)
        /\ \A o \in PeopleAt("outside") : Sooner(o, q) \/ JustBehind(o, q)
        /\ \A r \in PeopleAt("inside") :
             Precedes(ready, q, r) => yields[q] \in {yields[r], yields[r] + 1}
    BY DEF WellInv, InsideLast
  <2>2. PeopleAt("inside") \cap PeopleAt("outside") = {}
    BY DEF PeopleAt
  <2>3. CASE q = p
    <3>1. \A r \in PeopleAt("inside") \ {p} : ~Precedes(ready', p, r)
      BY <1>3, <1>9
    <3>2. yields'[p] \in {yields'[p], yields'[p] + 1}
      OBVIOUS
    <3>3. ASSUME NEW o \in PeopleAt("outside") PROVE Sooner(o, p)'
      <4>1. Sooner(o, p) /\ o \in others
        BY <1>2, <1>9, <2>1, <2>2, <2>3 DEF JustBehind
      <4> QED BY <1>12, <4>1
    <3>4. \A e \in PeopleAt("enter") : Sooner(e, p)'
      BY <1>9, <1>12, <2>1, <2>3
    <3> QED BY <2>1, <2>3, <3>1, <3>2, <3>3, <3>4
  <2>4. CASE q # p
    <3>1. q \in others
      BY <1>9, <2>4
    <3>2. \A e \in PeopleAt("enter") : Sooner(e, q)'
      BY <1>9, <1>10, <2>1, <3>1
    <3>3. ASSUME NEW o \in PeopleAt("outside") PROVE Sooner(o, q)' \/ JustBehind(o, q)'
      <4>1. CASE o = p
        <5>1. Sooner(p, q)
          BY <1>1, <2>1, <4>1 DEF JustBehind
        <5> QED BY <1>13, <3>1, <4>1, <5>1
      <4>2. CASE o # p
        BY <1>9, <1>10, <2>1, <3>1, <4>2
      <4> QED BY <4>1, <4>2
    <3>4. ASSUME NEW r \in PeopleAt("inside"), Precedes(ready', q, r)
          PROVE  yields'[q] \in {yields'[r], yields'[r] + 1}
      <4>1. CASE r = p
        <5>1. yields[p] \in {yields[q], yields[q] + 1}
          <6>1. Precedes(ready, p, q) /\ p \in PeopleAt("inside")
            BY <1>1, <3>1, <4>1
          <6> QED BY <6>1 DEF WellInv, InsideLast
        <5> QED BY <1>4, <1>11, <3>1, <4>1, <5>1
      <4>2. CASE r # p
        <5>1. r \in others
          BY <1>9, <4>2
        <5> QED BY <1>3, <1>11, <2>1, <3>1, <3>4, <5>1
      <4> QED BY <4>1, <4>2
    <3> QED BY <2>1, <3>2, <3>3, <3>4
  <2> QED BY <2>3, <2>4
<1>16. TurnedInVain'
  BY <1>2, <1>8 DEF WellInv, TurnedInVain
<1>17. count' = Cardinality(W!Inside)' /\ Cardinality(W!Inside \cup Woken)' <= W!Signalled
  BY <1>2, <1>8 DEF WellInv
<1> QED BY <1>6, <1>7, <1>14, <1>15, <1>16, <1>17 DEF WellInv

\* When somebody leaves, nobody is called, and nobody is about to enter.
LEMMA LeaveAlone ==
  ASSUME WellInv, NEW p \in W!People, W!Running(p, "inside"), yields[p] = 0
  PROVE  /\ Woken = {} /\ PeopleAt("enter") = {}
         /\ \A o \in PeopleAt("outside") : JustBehind(o, p)
<1>1. /\ at[p] = "inside" /\ p \in PeopleAt("inside")
      /\ \A a : ~Precedes(ready, a, p)
  BY WellHead DEF WellInv, PeopleAt
<1>2. \A a \in W!People : ~Sooner(a, p)
  BY <1>1 DEF WellInv, WellTypes, Sooner
<1> QED BY <1>1, <1>2 DEF WellInv, WokenFirst, InsideLast, PeopleAt

\* Somebody leaves others in the well.
LEMMA WellLeave ==
  ASSUME W!WellAssumption, WellInv, NEW p \in W!People, W!Leave(p), count # 1
  PROVE  WellInv'
<1> DEFINE others == Elems(ready) \ {p}
<1>1. /\ ready # <<>> /\ p = Head(ready) /\ at[p] = "inside"
      /\ p \in Elems(ready) /\ Elems(ready) \subseteq W!People
      /\ \A b \in others : Precedes(ready, p, b)
  BY WellHead DEF WellInv, W!Leave
<1>2. /\ endianness' = endianness /\ count' = count - 1
      /\ ready' = Tail(ready) \o <<>> \o <<p>>
      /\ at' = [at EXCEPT ![p] = "outside"]
      /\ yields' = [yields EXCEPT ![p] = NUM_PEOPLE - 1] /\ yields[p] = 0
      /\ kind' = kind /\ waiting' = waiting
  BY DEF W!Leave, W!LastOut, W!YieldAfter
<1>3. /\ ready' \in Seq(W!People) /\ Once(ready') /\ Elems(ready') = Elems(ready)
      /\ \A a, b \in others : Precedes(ready', a, b) <=> Precedes(ready, a, b)
      /\ \A a \in others : Precedes(ready', a, p) /\ ~Precedes(ready', p, a)
  BY <1>1, <1>2, TurnedAfterNobody, Turned DEF WellInv
<1>4. NUM_PEOPLE \in Nat \ {0}
  BY PeopleFinite
<1>5. WellTypes'
  BY <1>2, <1>3, <1>4 DEF WellInv, WellTypes
<1>6. /\ at' = [q \in W!People |-> IF q = p THEN "outside" ELSE at[q]]
      /\ yields' = [q \in W!People |-> IF q = p THEN NUM_PEOPLE - 1 ELSE yields[q]]
  BY <1>2 DEF WellInv, WellTypes
<1>7. Whereabouts'
  BY <1>1, <1>2, <1>3, <1>6, StillReady DEF WellInv
<1>8. /\ Woken = {} /\ PeopleAt("enter") = {} /\ p \in PeopleAt("inside")
  BY <1>1, <1>2, LeaveAlone DEF W!Leave, PeopleAt
<1>9. /\ W!Inside' = W!Inside \ {p} /\ Woken' = {} /\ p \in W!Inside
      /\ PeopleAt("inside")' = PeopleAt("inside") \ {p}
      /\ PeopleAt("outside")' = PeopleAt("outside") \cup {p} /\ PeopleAt("enter")' = {}
  BY <1>1, <1>3, <1>6, <1>8 DEF Woken, PeopleAt, W!Inside
<1>10. /\ count' = Cardinality(W!Inside)' /\ Cardinality(W!Inside \cup Woken)' <= W!Signalled
       /\ count' # 0
  <2>1. IsFiniteSet(W!Inside) /\ W!Inside \cup Woken = W!Inside /\ W!Inside' \cup Woken' = W!Inside'
    BY <1>8, <1>9, PeopleFinite DEF W!Inside
  <2>2. /\ Cardinality(W!Inside \ {p}) = Cardinality(W!Inside) - 1
        /\ Cardinality(W!Inside) \in Nat /\ Cardinality(W!Inside \ {p}) \in Nat
    BY <1>9, <2>1, FS_RemoveElement, FS_CardinalityType
  <2>3. count = Cardinality(W!Inside) /\ Cardinality(W!Inside) <= W!Signalled
    BY <2>1 DEF WellInv
  <2>4. count' = Cardinality(W!Inside') /\ Cardinality(W!Inside') <= W!Signalled /\ count' # 0
    BY <1>2, <1>9, <2>2, <2>3 DEF W!Signalled
  <2> QED BY <2>1, <2>4 DEF W!Signalled
<1>11. WokenFirst'
  BY <1>9 DEF WokenFirst
<1>12. PeopleAt("inside") \ {p} \subseteq others /\ PeopleAt("outside") \subseteq others
  BY <1>1 DEF PeopleAt, WellInv, Whereabouts
<1>13. \A a, b \in others : /\ Sooner(a, b)' <=> Sooner(a, b)
                            /\ JustBehind(a, b)' <=> JustBehind(a, b)
  <2>1. others \subseteq W!People \ {p}
    BY <1>1
  <2> QED BY <1>3, <1>6, <2>1 DEF Sooner, JustBehind
<1>14. /\ yields'[p] = NUM_PEOPLE - 1
       /\ \A q \in others : yields'[q] = yields[q] /\ yields[q] \in 0 .. NUM_PEOPLE - 1
  BY <1>1, <1>6 DEF WellInv, WellTypes
<1>15. InsideLast'
  <2> SUFFICES ASSUME NEW q \in PeopleAt("inside") \ {p}
               PROVE  /\ kind'[q] = endianness'
                      /\ \A o \in PeopleAt("outside") \cup {p} :
                           Sooner(o, q)' \/ JustBehind(o, q)'
                      /\ \A r \in PeopleAt("inside") \ {p} :
                           Precedes(ready', q, r) => yields'[q] \in {yields'[r], yields'[r] + 1}
    BY <1>9 DEF InsideLast
  <2>1. q \in others /\ q \in PeopleAt("inside")
    BY <1>12
  <2>2. JustBehind(p, q)'
    <3>1. yields[p] \in {yields[q], yields[q] + 1}
      BY <1>1, <1>8, <2>1 DEF WellInv, InsideLast
    <3>2. yields'[q] = 0
      BY <1>2, <1>14, <2>1, <3>1
    <3> QED BY <1>3, <1>14, <2>1, <3>2 DEF JustBehind
  <2>3. \A o \in PeopleAt("outside") : Sooner(o, q)' \/ JustBehind(o, q)'
    BY <1>12, <1>13, <2>1 DEF WellInv, InsideLast
  <2>4. \A r \in PeopleAt("inside") \ {p} :
          Precedes(ready', q, r) => yields'[q] \in {yields'[r], yields'[r] + 1}
    BY <1>3, <1>12, <1>14, <2>1 DEF WellInv, InsideLast
  <2> QED BY <1>2, <2>1, <2>2, <2>3, <2>4 DEF WellInv, InsideLast
<1>16. TurnedInVain'
  BY <1>10 DEF TurnedInVain
<1> QED BY <1>5, <1>7, <1>10, <1>11, <1>15, <1>16 DEF WellInv

\* The last to leave calls those of the other kind.
LEMMA WellLeaveLast ==
  ASSUME W!WellAssumption, WellInv, NEW p \in W!People, W!Leave(p), count = 1
  PROVE  WellInv'
<1> DEFINE others == Elems(ready) \ {p}
           other == W!Opposite(endianness)
           q == waiting[other]
           n == IF Len(q) < W!Signalled THEN Len(q) ELSE W!Signalled
           f == SubSeq(q, 1, n)
           b == SubSeq(q, n + 1, Len(q))
<1>1. /\ ready # <<>> /\ p = Head(ready) /\ at[p] = "inside"
      /\ p \in Elems(ready) /\ Elems(ready) \subseteq W!People
  BY WellHead DEF WellInv, W!Leave
<1>2. /\ endianness' = other /\ count' = 0
      /\ ready' = Tail(ready) \o f \o <<p>>
      /\ at' = [at EXCEPT ![p] = "outside"]
      /\ yields' = [yields EXCEPT ![p] = NUM_PEOPLE - 1] /\ yields[p] = 0
      /\ kind' = kind /\ waiting' = [waiting EXCEPT ![other] = b]
  <2>1. /\ endianness' = other /\ waiting' = [waiting EXCEPT ![other] = b]
        /\ W!YieldAfter(p, "outside", f)
    BY Zenon DEF W!Leave, W!LastOut
  <2>2. count' = count - 1 /\ yields[p] = 0 /\ kind' = kind
    BY DEF W!Leave
  <2> HIDE DEF f, b, other
  <2> QED BY <2>1, <2>2 DEF W!YieldAfter
<1>3. /\ other \in W!Kinds /\ q = waiting[other] /\ q \in Seq(W!People) /\ Once(q)
      /\ \A w \in Elems(q) : at[w] = "woken" /\ kind[w] = other /\ w \notin Elems(ready)
  BY DEF WellInv, WellTypes, Whereabouts, W!Opposite, W!Kinds
<1>4. n \in 0 .. Len(q) /\ n \in Nat /\ n <= W!Signalled /\ (n = 0 => n = Len(q))
  BY <1>3, LenProperties DEF W!Signalled
<1> HIDE DEF n
<1>5. /\ f \in Seq(W!People) /\ b \in Seq(W!People) /\ Once(f) /\ Once(b)
      /\ Elems(f) \cup Elems(b) = Elems(q) /\ Elems(f) \cap Elems(b) = {}
      /\ IsFiniteSet(Elems(f)) /\ Cardinality(Elems(f)) <= n
      /\ n > 0 => Elems(f) # {}
      /\ n = Len(q) => b = <<>>
  BY <1>3, <1>4, CutOnce
<1> HIDE DEF f, b, q, other
<1>6. /\ ready' \in Seq(W!People) /\ Once(ready') /\ Elems(ready') = Elems(ready) \cup Elems(f)
      /\ \A c \in others \cup Elems(f) : Precedes(ready', c, p)
  <2>1. Elems(f) \cap Elems(ready) = {} /\ ready \in Seq(W!People) /\ Once(ready)
    BY <1>3, <1>5 DEF WellInv, WellTypes, Whereabouts
  <2>2. LET h == Head(ready)
            r == Tail(ready) \o f \o <<h>>
            o == Elems(ready) \ {h}
        IN  /\ r \in Seq(W!People) /\ Once(r) /\ Elems(r) = Elems(ready) \cup Elems(f)
            /\ \A c \in o, d \in Elems(f) \cup {h} :
                 Precedes(r, c, d) /\ ~Precedes(r, d, c)
            /\ \A c \in Elems(f) : Precedes(r, c, h)
    BY <1>1, <1>5, <2>1, TurnBehind
  <2> QED BY <1>1, <1>2, <2>2
<1>7. NUM_PEOPLE \in Nat \ {0}
  BY PeopleFinite
<1>8. WellTypes'
  <2>1. waiting' \in [W!Kinds -> Seq(W!People)]
    BY <1>2, <1>5 DEF WellInv, WellTypes
  <2>2. yields' \in [W!People -> 0 .. NUM_PEOPLE - 1]
    BY <1>2, <1>7 DEF WellInv, WellTypes
  <2> QED BY <1>2, <1>3, <1>6, <2>1, <2>2 DEF WellInv, WellTypes
<1>9. /\ at' = [r \in W!People |-> IF r = p THEN "outside" ELSE at[r]]
      /\ yields' = [r \in W!People |-> IF r = p THEN NUM_PEOPLE - 1 ELSE yields[r]]
      /\ \A g \in W!Kinds : waiting'[g] = IF g = other THEN b ELSE waiting[g]
  BY <1>2 DEF WellInv, WellTypes
<1>10. Elems(f) \subseteq W!People /\ p \notin Elems(q) /\ p \notin Elems(f)
  BY <1>1, <1>3, <1>5, ElemsType
<1>11. Whereabouts'
  <2>1. ASSUME NEW r \in W!People
        PROVE  /\ at'[r] \in {"enter", "inside", "outside"} => r \in Elems(ready')
               /\ at'[r] = "woken" => r \in Elems(ready') \/ r \in Elems(waiting'[kind'[r]])
               /\ at'[r] = "done" => r \notin Elems(ready')
               /\ at'[r] \in {"enter", "woken"} => yields'[r] = 0
    <3>1. CASE r = p
      BY <1>1, <1>6, <1>9, <3>1
    <3>2. CASE r # p
      <4>1. at'[r] = at[r] /\ yields'[r] = yields[r] /\ kind'[r] = kind[r] /\ kind[r] \in W!Kinds
        BY <1>2, <1>9, <3>2 DEF WellInv, WellTypes
      <4>2. /\ at[r] \in {"enter", "inside", "outside"} => r \in Elems(ready)
            /\ at[r] = "woken" => r \in Elems(ready) \/ r \in Elems(waiting[kind[r]])
            /\ at[r] = "done" => r \notin Elems(ready)
            /\ at[r] \in {"enter", "woken"} => yields[r] = 0
        BY DEF WellInv, Whereabouts
      <4>3. r \in Elems(waiting[kind[r]]) => r \in Elems(f) \/ r \in Elems(waiting'[kind[r]])
        <5>1. CASE kind[r] = other
          BY <1>3, <1>5, <1>9, <4>1, <5>1
        <5>2. CASE kind[r] # other
          BY <1>9, <4>1, <5>2
        <5> QED BY <5>1, <5>2
      <4>4. at[r] = "done" => r \notin Elems(f)
        BY <1>3, <1>5
      <4> QED BY <1>6, <4>1, <4>2, <4>3, <4>4
    <3> QED BY <3>1, <3>2
  <2>2. ASSUME NEW g \in W!Kinds
        PROVE  /\ Once(waiting'[g])
               /\ \A r \in Elems(waiting'[g]) :
                    at'[r] = "woken" /\ kind'[r] = g /\ r \notin Elems(ready')
    <3>1. /\ Once(waiting[g])
          /\ \A r \in Elems(waiting[g]) :
               r \in W!People /\ at[r] = "woken" /\ kind[r] = g /\ r \notin Elems(ready)
      BY ElemsType DEF WellInv, WellTypes, Whereabouts
    <3>2. \A r \in Elems(waiting'[g]) : r \in Elems(waiting[g]) /\ r \notin Elems(f)
      <4>1. CASE g = other
        <5>1. waiting'[g] = b /\ waiting[g] = q
          BY <1>3, <1>9, <4>1
        <5> QED BY <1>5, <5>1
      <4>2. CASE g # other
        <5>1. ASSUME NEW r \in Elems(waiting[g]) PROVE r \notin Elems(q)
          <6>1. kind[r] = g
            BY <3>1
          <6> QED BY <1>3, <4>2, <6>1
        <5> QED BY <1>5, <1>9, <4>2, <5>1
      <4> QED BY <4>1, <4>2
    <3>3. Once(waiting'[g])
      BY <1>5, <1>9, <3>1
    <3>4. \A r \in Elems(waiting[g]) : at'[r] = at[r]
      BY <1>1, <1>9, <3>1
    <3> QED BY <1>2, <1>6, <3>1, <3>2, <3>3, <3>4
  <2> QED BY <1>6, <2>1, <2>2 DEF Whereabouts
<1>12. /\ Woken = {} /\ PeopleAt("enter") = {}
       /\ \A o \in PeopleAt("outside") : JustBehind(o, p)
  BY <1>2, LeaveAlone DEF W!Leave
<1>13. W!Inside = {p}
  <2>1. IsFiniteSet(W!Inside) /\ p \in W!Inside
    BY <1>1, PeopleFinite DEF W!Inside
  <2>2. \E x : W!Inside = {x}
    BY <2>1, FS_Singleton DEF WellInv
  <2> QED BY <2>1, <2>2
<1>14. /\ W!Inside' = {} /\ Woken' = Elems(f)
       /\ PeopleAt("inside")' = {} /\ PeopleAt("enter")' = {}
       /\ PeopleAt("outside")' = PeopleAt("outside") \cup {p}
  <2>1. W!Inside' = {} /\ PeopleAt("inside")' = {} /\ PeopleAt("enter")' = {}
        /\ PeopleAt("outside")' = PeopleAt("outside") \cup {p}
        /\ PeopleAt("woken")' = PeopleAt("woken")
    BY <1>1, <1>9, <1>12, <1>13 DEF W!Inside, PeopleAt
  <2>2. Elems(f) \subseteq PeopleAt("woken")
    BY <1>3, <1>5, <1>10 DEF PeopleAt
  <2>3. PeopleAt("woken") \cap Elems(ready) = {}
    BY <1>12 DEF Woken
  <2> QED BY <1>6, <2>1, <2>2, <2>3 DEF Woken
<1>15. count' = Cardinality(W!Inside)' /\ Cardinality(W!Inside \cup Woken)' <= W!Signalled
  <2>1. W!Inside' \cup Woken' = Elems(f) /\ Cardinality(Elems(f)) \in Nat
    BY <1>5, <1>14, FS_CardinalityType
  <2> QED BY <1>2, <1>4, <1>5, <1>14, <2>1, FS_EmptySet DEF W!Signalled
<1>16. WokenFirst'
  <2> SUFFICES ASSUME NEW w \in Elems(f)
               PROVE  /\ kind'[w] = endianness'
                      /\ \A o \in PeopleAt("outside") \cup {p} : Sooner(w, o)'
    BY <1>14 DEF WokenFirst
  <2>1. kind'[w] = endianness'
    BY <1>2, <1>3, <1>5
  <2>2. w \in W!People /\ at[w] = "woken" /\ w # p
    BY <1>3, <1>5, <1>10
  <2>3. yields'[w] = 0
    BY <1>9, <2>2 DEF WellInv, Whereabouts
  <2>4. ASSUME NEW o \in PeopleAt("outside") PROVE Sooner(w, o)'
    <3>1. o \in W!People /\ o # p
      BY <1>1 DEF PeopleAt
    <3>2. yields'[o] = NUM_PEOPLE - 1
      BY <1>9, <1>12, <3>1 DEF JustBehind
    <3>3. NUM_PEOPLE - 1 > 0
      BY <1>7, <3>1 DEF W!People
    <3> QED BY <2>3, <3>2, <3>3 DEF Sooner
  <2>5. Sooner(w, p)'
    BY <1>6, <1>7, <1>9, <2>3 DEF Sooner
  <2> QED BY <2>1, <2>4, <2>5
<1>17. InsideLast'
  BY <1>14 DEF InsideLast
<1>18. TurnedInVain'
  <2>1. Elems(f) = {} => b = <<>>
    BY <1>4, <1>5
  <2> QED BY <1>2, <1>3, <1>9, <1>14, <2>1 DEF TurnedInVain
<1> QED BY <1>8, <1>11, <1>15, <1>16, <1>17, <1>18 DEF WellInv

\* Somebody ends an iteration, and begins the next or returns.
LEMMA WellAgain ==
  ASSUME W!WellAssumption, WellInv, NEW p \in W!People, W!Again(p)
  PROVE  WellInv'
<1> DEFINE others == Elems(ready) \ {p}
<1>1. /\ ready # <<>> /\ p = Head(ready) /\ at[p] = "outside"
      /\ p \in Elems(ready) /\ Elems(ready) \subseteq W!People
      /\ \A a : ~Precedes(ready, a, p)
  BY WellHead DEF WellInv, W!Again
<1>2. /\ endianness' = endianness /\ count' = count /\ kind' = kind /\ waiting' = waiting
      /\ yields' = yields /\ yields[p] = 0
      /\ \/ at' = [at EXCEPT ![p] = "enter"] /\ ready' = ready
         \/ at' = [at EXCEPT ![p] = "done"] /\ ready' = Tail(ready)
  BY DEF W!Again
<1>3. /\ ready' \in Seq(W!People) /\ Once(ready')
      /\ Elems(ready') \in {Elems(ready), others}
      /\ \A a, b \in others : Precedes(ready', a, b) <=> Precedes(ready, a, b)
      /\ \A b \in W!People : Precedes(ready, p, b) /\ ready' = ready => Precedes(ready', p, b)
  BY <1>1, <1>2, Left DEF WellInv, WellTypes, Whereabouts
<1>4. PICK s \in {"enter", "done"} :
        /\ at' = [q \in W!People |-> IF q = p THEN s ELSE at[q]]
        /\ s = "enter" => ready' = ready
        /\ s = "done" => Elems(ready') = others
  BY <1>1, <1>2, Left DEF WellInv, WellTypes
<1>5. WellTypes'
  BY <1>2, <1>3, <1>4 DEF WellInv, WellTypes
<1>6. Whereabouts'
  <2>1. ASSUME NEW r \in W!People
        PROVE  /\ at'[r] \in {"enter", "inside", "outside"} => r \in Elems(ready')
               /\ at'[r] = "woken" => r \in Elems(ready') \/ r \in Elems(waiting'[kind'[r]])
               /\ at'[r] = "done" => r \notin Elems(ready')
               /\ at'[r] \in {"enter", "woken"} => yields'[r] = 0
    <3>1. CASE r = p
      BY <1>1, <1>2, <1>4, <3>1
    <3>2. CASE r # p
      <4>1. at'[r] = at[r] /\ (r \in Elems(ready') <=> r \in Elems(ready))
        BY <1>3, <1>4, <3>2
      <4> QED BY <1>2, <4>1 DEF WellInv, Whereabouts
    <3> QED BY <3>1, <3>2
  <2>2. ASSUME NEW g \in W!Kinds
        PROVE  /\ Once(waiting'[g])
               /\ \A r \in Elems(waiting'[g]) :
                    at'[r] = "woken" /\ kind'[r] = g /\ r \notin Elems(ready')
    <3>1. /\ Once(waiting[g])
          /\ \A r \in Elems(waiting[g]) :
               r \in W!People /\ at[r] = "woken" /\ kind[r] = g /\ r \notin Elems(ready)
      BY ElemsType DEF WellInv, WellTypes, Whereabouts
    <3>2. \A r \in Elems(waiting[g]) : at'[r] = at[r]
      BY <1>1, <1>4, <3>1
    <3> QED BY <1>2, <1>3, <3>1, <3>2
  <2> QED BY <1>3, <2>1, <2>2 DEF Whereabouts
<1>7. \A a \in W!People : ~Sooner(a, p)
  BY <1>1, <1>2 DEF WellInv, WellTypes, Sooner
<1>8. Woken = {} /\ p \in PeopleAt("outside")
  BY <1>1, <1>7 DEF WellInv, WokenFirst, PeopleAt, Woken
<1>9. /\ W!Inside' = W!Inside /\ Woken' = {} /\ PeopleAt("inside")' = PeopleAt("inside")
      /\ PeopleAt("outside")' = PeopleAt("outside") \ {p}
      /\ \A e \in PeopleAt("enter")' : (e = p /\ ready' = ready) \/ (e \in PeopleAt("enter") /\ e # p)
  <2>1. /\ W!Inside' = W!Inside /\ PeopleAt("inside")' = PeopleAt("inside")
        /\ PeopleAt("outside")' = PeopleAt("outside") \ {p}
    BY <1>1, <1>4 DEF W!Inside, PeopleAt
  <2>2. Woken' = {}
    BY <1>1, <1>3, <1>4, <1>8 DEF Woken, PeopleAt
  <2>3. \A e \in PeopleAt("enter")' : (e = p /\ ready' = ready) \/ (e \in PeopleAt("enter") /\ e # p)
    <3> SUFFICES ASSUME NEW e \in W!People, at'[e] = "enter"
                 PROVE  (e = p /\ ready' = ready) \/ (at[e] = "enter" /\ e # p)
      BY DEF PeopleAt
    <3>1. at'[e] = IF e = p THEN s ELSE at[e]
      BY <1>4
    <3>2. CASE e = p
      <4>1. s = "enter"
        BY <3>1, <3>2
      <4>2. ready' = ready
        BY <1>4, <4>1, Zenon
      <4> QED BY <3>2, <4>2
    <3> QED BY <3>1, <3>2
  <2> QED BY <2>1, <2>2, <2>3
<1>10. count' = Cardinality(W!Inside)' /\ Cardinality(W!Inside \cup Woken)' <= W!Signalled
  BY <1>2, <1>8, <1>9 DEF WellInv
<1>11. WokenFirst'
  BY <1>9 DEF WokenFirst
<1>12. /\ PeopleAt("inside") \subseteq others
       /\ PeopleAt("outside") \ {p} \subseteq others
       /\ PeopleAt("enter") \subseteq others
  BY <1>1 DEF PeopleAt, WellInv, Whereabouts
<1>13. \A a, b \in others : /\ Sooner(a, b)' <=> Sooner(a, b)
                            /\ JustBehind(a, b)' <=> JustBehind(a, b)
  BY <1>2, <1>3 DEF Sooner, JustBehind
<1>14. InsideLast'
  <2> SUFFICES ASSUME NEW q \in PeopleAt("inside")
               PROVE  /\ kind'[q] = endianness'
                      /\ \A e \in PeopleAt("enter")' : Sooner(e, q)'
                      /\ \A o \in PeopleAt("outside") \ {p} : Sooner(o, q)' \/ JustBehind(o, q)'
                      /\ \A r \in PeopleAt("inside") :
                           Precedes(ready', q, r) => yields'[q] \in {yields'[r], yields'[r] + 1}
    BY <1>9 DEF InsideLast
  <2>1. /\ kind[q] = endianness
        /\ \A e \in PeopleAt("enter") : Sooner(e, q)
        /\ \A o \in PeopleAt("outside") : Sooner(o, q) \/ JustBehind(o, q)
        /\ \A r \in PeopleAt("inside") :
             Precedes(ready, q, r) => yields[q] \in {yields[r], yields[r] + 1}
    BY DEF WellInv, InsideLast
  <2>2. q \in others
    BY <1>12
  <2>3. ready' = ready => Sooner(p, q)'
    <3>1. Sooner(p, q)
      BY <1>1, <1>8, <2>1 DEF JustBehind
    <3> QED BY <1>2, <3>1 DEF Sooner
  <2>4. \A e \in PeopleAt("enter")' : Sooner(e, q)'
    BY <1>9, <1>12, <1>13, <2>1, <2>2, <2>3
  <2>5. \A o \in PeopleAt("outside") \ {p} : Sooner(o, q)' \/ JustBehind(o, q)'
    BY <1>12, <1>13, <2>1, <2>2
  <2> QED BY <1>2, <1>3, <1>12, <2>1, <2>2, <2>4, <2>5
<1>15. TurnedInVain'
  BY <1>2, <1>8, <1>9 DEF WellInv, TurnedInVain
<1> QED BY <1>5, <1>6, <1>10, <1>11, <1>14, <1>15 DEF WellInv

-----------------------------------------------------------------------------
LEMMA WellNext == W!WellAssumption /\ WellInv /\ [W!Next]_(W!vars) => WellInv'
<1> SUFFICES ASSUME W!WellAssumption, WellInv, [W!Next]_(W!vars) PROVE WellInv'
  OBVIOUS
<1>1. ASSUME NEW p \in W!People,
             W!Enter(p) \/ W!EnterWoken(p) \/ W!Yield(p) \/ W!Leave(p) \/ W!Again(p)
      PROVE  WellInv'
  BY <1>1, WellEnterEmpty, WellEnterWaits, WellEnterWoken, WellYield, WellLeave,
     WellLeaveLast, WellAgain
<1>2. CASE UNCHANGED W!vars
  BY <1>2 DEF W!vars, WellInv, WellTypes, Whereabouts, WokenFirst, InsideLast, TurnedInVain,
              Woken, PeopleAt, Sooner, JustBehind, W!Inside
<1> QED BY <1>1, <1>2 DEF W!Next

\* The order of the ready queue is always as WellInv says.
LEMMA WellAlways == W!Spec => []WellInv
<1>1. W!WellAssumption
  BY ProgramsAssumption
<1>2. W!Init => WellInv
  BY <1>1, WellInit
<1>3. WellInv /\ [W!Next]_(W!vars) => WellInv'
  BY <1>1, WellNext
<1> QED BY <1>2, <1>3, PTL DEF W!Spec

\* well.c: never more people in the well than MAX_OCCUPANCY, nor of another kind than
\* it is turned to, though enterWell tests neither when somebody comes back from the
\* wait. It signals three (Signalled), whatever MAX_OCCUPANCY is; well.c has 3 of both.
THEOREM WellIsSafe ==
  ASSUME W!Signalled <= MAX_OCCUPANCY
  PROVE  W!Spec => []WellSafe
<1>1. ASSUME WellInv PROVE WellSafe
  <2>1. W!Inside = PeopleAt("inside")
    BY DEF W!Inside, PeopleAt
  <2>2. \A p \in W!Inside : kind[p] = endianness
    BY <1>1, <2>1 DEF WellInv, InsideLast
  <2>3. count <= MAX_OCCUPANCY
    <3>1. /\ IsFiniteSet(W!Inside \cup Woken) /\ W!Inside \subseteq W!Inside \cup Woken
          /\ Cardinality(W!Inside) \in Nat /\ Cardinality(W!Inside \cup Woken) \in Nat
      BY PeopleFinite, ProgramsAssumption DEF W!Inside, Woken, PeopleAt
    <3>2. Cardinality(W!Inside) <= Cardinality(W!Inside \cup Woken)
      BY <3>1, FS_Subset
    <3>3. MAX_OCCUPANCY \in Nat
      BY ProgramsAssumption DEF W!WellAssumption
    <3>4. count = Cardinality(W!Inside) /\ Cardinality(W!Inside \cup Woken) <= W!Signalled
      BY <1>1 DEF WellInv
    <3> QED BY <3>1, <3>2, <3>3, <3>4 DEF W!Signalled
  <2> QED BY <1>1, <2>2, <2>3 DEF WellSafe, W!WellSafe, WellInv, W!Cardinality, Cardinality
<1> QED BY <1>1, WellAlways, PTL

\* well.c: if all threads are blocked, they are of one kind, and not of the kind that
\* the well is turned to: whoever waits for the own side is signalled.
THEOREM WellStuckOnOneKind == W!Spec => []StuckOnOneKind
<1>1. ASSUME WellInv, ready = <<>> PROVE W!StuckOnOneKind
  <2>1. Elems(ready) = {}
    BY <1>1, EmptyQueue
  <2>2. Woken = {} /\ W!Inside = {}
    BY <1>1, <2>1 DEF Woken, W!Inside, WellInv, Whereabouts
  <2>3. count = 0
    BY <1>1, <2>2, FS_EmptySet DEF WellInv
  <2>4. waiting[endianness] = <<>>
    BY <1>1, <2>2, <2>3 DEF WellInv, TurnedInVain
  <2>5. ASSUME NEW p \in W!People, at[p] # "done"
        PROVE  at[p] = "woken" /\ kind[p] = W!Opposite(endianness)
    <3>1. at[p] = "woken" /\ p \in Elems(waiting[kind[p]])
      BY <1>1, <2>1, <2>5 DEF WellInv, WellTypes, Whereabouts
    <3>2. kind[p] # endianness
      BY <2>4, <3>1, EmptyQueue
    <3> QED BY <1>1, <3>1, <3>2 DEF WellInv, WellTypes, W!Kinds, W!Opposite
  <2>6. W!Opposite(endianness) \in W!Kinds
    BY DEF W!Opposite, W!Kinds
  <2> QED BY <2>3, <2>5, <2>6 DEF W!StuckOnOneKind
<1>2. WellInv => StuckOnOneKind
  BY <1>1 DEF StuckOnOneKind, W!StuckOnOneKind
<1> QED BY <1>2, WellAlways, PTL

-----------------------------------------------------------------------------
(* The disk.  What every state is like.                                     *)

\* The callbacks a client queues.
Callback == CASE client = "aRead" -> {"read", "read_and_exit"}
              [] client = "tRead" -> {"unblock"}
              [] client = "treasureHunt" -> {"first", "other"}
              [] OTHER -> {}

\* A handler that has taken no entry from the queue, or is done with it, and one that
\* has taken one.
NoEntry == {"scan", "deliver", "isr", "dequeue", "end"}
WithEntry ==
  CASE client = "aRead" -> {"read", "read_and_exit", "store", "exit"}
    [] client = "tRead" -> {"unblock", "ready"}
    [] client = "treasureHunt" -> {"first", "other", "next", "enqueue", "schedule", "append"}
    [] OTHER -> {}

\* The reads that are pending, the entries of the queue, and the handlers under way.
Read == [buf : D!Readers, block : Int]
Pending == [val : D!Readers, callback : Callback]
Frame == [pc : NoEntry \cup WithEntry, entry : {<<>>} \cup {<<r>> : r \in D!Readers}, reg : Int]

\* Where a reader, pthread_base and any thread can be.
ReaderPlaces == {"none", "schedule", "enqueue", "block", "add", "return", "dead"}
IdlePlaces == {"dequeue", "sleep", "asleep", "woken", "awake"}
Places == {"next", "sched", "spin", "joining"} \cup ReaderPlaces \cup IdlePlaces

\* Type correctness, variable by variable.
ClientTypes ==
  /\ client \in {"sRead", "aRead", "tRead", "treasureHunt"}
  /\ start \in Nat
ReadTypes ==
  /\ prq \in Seq(Read) /\ due \in Nat /\ due <= Len(prq)
  /\ queue \in Seq(Pending)
FrameTypes ==
  /\ frames \in Seq(Frame)
  /\ \A n \in DOMAIN frames : frames[n].pc \in WithEntry => frames[n].entry # <<>>
DataTypes ==
  /\ data \in [D!Readers -> Int] /\ sum \in Int /\ hops \in Int
  /\ i \in Nat
ThreadTypes ==
  /\ cur \in D!Threads /\ place \in [D!Threads -> Places]
  /\ runnable \in Seq(D!Readers \cup {D!Main}) /\ done \subseteq D!Readers
  /\ place[D!Main] \in {"next", "sched", "spin", "joining"}
  /\ place[D!Main] = "spin" => client \in {"sRead", "treasureHunt"}
  /\ place[D!Idle] \in IdlePlaces
  /\ \A r \in D!Readers : place[r] \in ReaderPlaces
  /\ client # "tRead" => cur = D!Main

DiskTypes == ClientTypes /\ ReadTypes /\ FrameTypes /\ DataTypes /\ ThreadTypes

\* Buffers and threads.
LEMMA DiskNumbers ==
  /\ NumBlocks \in Nat \ {0}
  /\ D!Main = NumBlocks /\ D!Readers = 0 .. NumBlocks - 1
  /\ D!Readers \subseteq D!Threads /\ D!Main \in D!Threads /\ D!Idle \in D!Threads
  /\ D!Threads = D!Readers \cup {D!Main, D!Idle}
  /\ D!Main # D!Idle /\ D!Main \notin D!Readers /\ D!Idle \notin D!Readers
  /\ 0 \in D!Readers
BY ProgramsAssumption DEF D!DiskAssumption, D!Main, D!Idle, D!Readers, D!Threads

\* What a block holds is told apart from what a buffer holds at first.
LEMMA BlockType == \A b \in Int : D!Block(b) \in Nat /\ D!Block(b) # Garbage
<1> DEFINE l == Len(Story)
<1>1. Story \in Seq(Nat) /\ l \in Nat \ {0} /\ DOMAIN Story = 1..l
      /\ \A n \in DOMAIN Story : Story[n] \in Nat /\ Story[n] # Garbage
  BY ProgramsAssumption, EmptySeq, ElementOfSeq, LenProperties DEF D!DiskAssumption
<1> HIDE DEF l
<1>2. \A b \in Int : 1 + (b % l) \in 1..l
  BY <1>1
<1> QED BY <1>1, <1>2 DEF D!Block, l

\* The types hold at first; DiskTypesAlways: in every state.
LEMMA DiskTypesInit == D!Init => DiskTypes
<1> SUFFICES ASSUME D!Init PROVE DiskTypes
  OBVIOUS
<1>1. ClientTypes
  <2>1. start \in Nat
    BY ProgramsAssumption, LenProperties DEF D!Init, D!DiskAssumption
  <2> QED BY <2>1, ProgramsAssumption DEF D!Init, D!DiskAssumption, ClientTypes
<1>2. ReadTypes /\ FrameTypes
  BY EmptySeq DEF D!Init, ReadTypes, FrameTypes
<1>3. DataTypes
  <2>1. Garbage \in Int
    BY ProgramsAssumption DEF D!DiskAssumption
  <2>2. data = [r \in D!Readers |-> Garbage] /\ sum = 0 /\ flag = FALSE /\ hops = 0 /\ i = 0
    BY DEF D!Init
  <2> QED BY <2>1, <2>2 DEF DataTypes
<1>4. ThreadTypes
  BY DiskNumbers, EmptySeq DEF D!Init, ThreadTypes, Places, IdlePlaces, ReaderPlaces
<1> QED BY <1>1, <1>2, <1>3, <1>4 DEF DiskTypes

\* A stack without its top.
LEMMA Popped ==
  ASSUME NEW S, NEW q \in Seq(S), q # <<>>
  PROVE  LET n == Len(q)
             r == D!Front(q)
         IN  /\ r \in Seq(S) /\ n \in Nat \ {0} /\ Len(r) = n - 1
             /\ DOMAIN q = 1..n /\ DOMAIN r = 1..(n - 1)
             /\ \A m \in 1..(n - 1) : r[m] = q[m]
<1> DEFINE n == Len(q)
           r == SubSeq(q, 1, n - 1)
<1>1. n \in Nat \ {0} /\ DOMAIN q = 1..n /\ \A m \in 1..n : q[m] \in S
  BY EmptySeq, LenProperties, ElementOfSeq
<1>2. /\ r \in Seq(S) /\ Len(r) = IF 1 <= n - 1 THEN (n - 1) - 1 + 1 ELSE 0
      /\ \A m \in 1..(n - 1) - 1 + 1 : r[m] = q[1 + m - 1]
  <2> HIDE DEF n
  <2>1. 1 \in Int /\ n - 1 \in Int /\ \A m \in 1..(n - 1) : q[m] \in S
    BY <1>1
  <2> QED BY <2>1, SubSeqProperties
<1>3. Len(r) = n - 1 /\ \A m \in 1..(n - 1) : r[m] = q[m]
  <2> HIDE DEF n, r
  <2> QED BY <1>1, <1>2
<1>4. DOMAIN r = 1..(n - 1)
  BY <1>2, <1>3, LenProperties
<1> QED BY <1>1, <1>2, <1>3, <1>4 DEF D!Front

-----------------------------------------------------------------------------
(* The disk.  What steps do to its queues.                                  *)

\* disk_scheduleRead adds a read at the end.
LEMMA Scheduling ==
  ASSUME ReadTypes, NEW r \in D!Readers, NEW b \in Int, D!Schedule(r, b)
  PROVE  /\ prq' \in Seq(Read) /\ prq' # <<>>
         /\ Len(prq) \in Nat /\ Len(prq') = Len(prq) + 1
         /\ DOMAIN prq = 1..Len(prq) /\ DOMAIN prq' = 1..(Len(prq) + 1)
         /\ prq'[Len(prq) + 1] = [buf |-> r, block |-> b]
         /\ \A n \in 1..Len(prq) : prq'[n] = prq[n]
         /\ due' = due /\ due' <= Len(prq')
         /\ held' = held /\ masked' = FALSE /\ isInterrupt' = isInterrupt
<1> DEFINE e == [buf |-> r, block |-> b]
<1>1. e \in Read
  BY DEF Read
<1>2. /\ prq \in Seq(Read) /\ prq' = Append(prq, e)
      /\ due' = due /\ due \in Nat /\ due <= Len(prq)
      /\ held' = held /\ masked' = FALSE /\ isInterrupt' = isInterrupt
  BY DEF ReadTypes, D!Schedule, D!Section
<1> HIDE DEF e
<1>3. /\ prq' \in Seq(Read) /\ prq' # <<>>
      /\ Len(prq) \in Nat /\ Len(prq') = Len(prq) + 1
      /\ DOMAIN prq = 1..Len(prq) /\ DOMAIN prq' = 1..(Len(prq) + 1)
      /\ prq'[Len(prq) + 1] = e
      /\ \A n \in 1..Len(prq) : prq'[n] = prq[n]
  BY <1>1, <1>2, Appended
<1> QED BY <1>2, <1>3 DEF e

\* queue_enqueue adds an entry at the end.
LEMMA Queueing ==
  ASSUME ReadTypes, NEW r \in D!Readers, NEW c \in Callback, D!Queue(r, c)
  PROVE  /\ queue' \in Seq(Pending) /\ queue' # <<>>
         /\ Len(queue) \in Nat /\ Len(queue') = Len(queue) + 1
         /\ DOMAIN queue = 1..Len(queue) /\ DOMAIN queue' = 1..(Len(queue) + 1)
         /\ queue'[Len(queue) + 1] = [val |-> r, callback |-> c]
         /\ \A n \in 1..Len(queue) : queue'[n] = queue[n]
         /\ held' = held /\ masked' = FALSE /\ isInterrupt' = isInterrupt
<1> DEFINE e == [val |-> r, callback |-> c]
<1>1. e \in Pending
  BY DEF Pending
<1>2. /\ queue \in Seq(Pending) /\ queue' = Append(queue, e)
      /\ held' = held /\ masked' = FALSE /\ isInterrupt' = isInterrupt
  BY DEF ReadTypes, D!Queue, D!Section
<1> HIDE DEF e
<1>3. /\ queue' \in Seq(Pending) /\ queue' # <<>>
      /\ Len(queue) \in Nat /\ Len(queue') = Len(queue) + 1
      /\ DOMAIN queue = 1..Len(queue) /\ DOMAIN queue' = 1..(Len(queue) + 1)
      /\ queue'[Len(queue) + 1] = e
      /\ \A n \in 1..Len(queue) : queue'[n] = queue[n]
  BY <1>1, <1>2, Appended
<1> QED BY <1>2, <1>3 DEF e

\* uthread_stop goes on with the thread that is first.
LEMMA Stopping ==
  ASSUME ThreadTypes, NEW x, D!Stop(x)
  PROVE  /\ cur' \in D!Threads /\ runnable' \in Seq(D!Readers \cup {D!Main})
         /\ IF runnable = <<>> THEN cur' = D!Idle /\ runnable' = <<>>
            ELSE cur' = Head(runnable) /\ runnable' = Tail(runnable)
         /\ place' = [place EXCEPT ![cur] = x]
         /\ held' = held /\ masked' = FALSE /\ isInterrupt' = isInterrupt
<1>1. runnable \in Seq(D!Readers \cup {D!Main})
  BY DEF ThreadTypes
<1>2. runnable # <<>> => /\ Head(runnable) \in D!Readers \cup {D!Main}
                         /\ Tail(runnable) \in Seq(D!Readers \cup {D!Main})
  BY <1>1, HeadTailProperties
<1> QED BY <1>1, <1>2, DiskNumbers DEF D!Stop, D!Section

\* The innermost handler turns into e.
Becomes(e) == frames' = [frames EXCEPT ![Len(frames)] = e]
\* The innermost handler at the place x.
Resumed(x) == [D!Top EXCEPT !.pc = x]

\* The innermost handler, and the entry it has taken.
LEMMA TopFrame ==
  ASSUME FrameTypes, frames # <<>>
  PROVE  /\ Len(frames) \in Nat \ {0} /\ DOMAIN frames = 1..Len(frames)
         /\ D!Top = frames[Len(frames)] /\ D!Top \in Frame
         /\ \A m \in DOMAIN frames : frames[m] \in Frame
         /\ D!Top.pc \in WithEntry => /\ D!Top.entry = <<D!Top.entry[1]>>
                                      /\ D!Top.entry[1] \in D!Readers
<1>1. /\ frames \in Seq(Frame)
      /\ Len(frames) \in Nat \ {0} /\ DOMAIN frames = 1..Len(frames)
  BY EmptySeq, LenProperties DEF FrameTypes
<1>2. \A m \in DOMAIN frames : frames[m] \in Frame
  BY <1>1, ElementOfSeq
<1>3. D!Top = frames[Len(frames)] /\ Len(frames) \in DOMAIN frames
  BY <1>1 DEF D!Top
<1>4. ASSUME D!Top.pc \in WithEntry
      PROVE  D!Top.entry = <<D!Top.entry[1]>> /\ D!Top.entry[1] \in D!Readers
  <2>1. D!Top.entry # <<>> /\ D!Top \in Frame
    BY <1>2, <1>3, <1>4 DEF FrameTypes
  <2>2. D!Top.entry \in {<<r>> : r \in D!Readers}
    BY <2>1 DEF Frame
  <2> QED BY <2>2
<1> QED BY <1>1, <1>2, <1>3, <1>4

LEMMA Becoming ==
  ASSUME FrameTypes, frames # <<>>, NEW e \in Frame, Becomes(e)
  PROVE  LET n == Len(frames)
         IN  /\ frames' \in Seq(Frame) /\ frames' # <<>>
             /\ n \in Nat \ {0} /\ Len(frames') = n
             /\ DOMAIN frames = 1..n /\ DOMAIN frames' = 1..n
             /\ frames'[n] = e /\ \A m \in 1..n : m # n => frames'[m] = frames[m]
<1>1. frames \in Seq(Frame) /\ frames' = [frames EXCEPT ![Len(frames)] = e]
  BY DEF FrameTypes, Becomes
<1> QED BY <1>1, Topped

LEMMA Resuming ==
  ASSUME FrameTypes, frames # <<>>, NEW x \in NoEntry \cup WithEntry, D!To(x)
  PROVE  /\ Becomes(Resumed(x)) /\ Resumed(x) \in Frame
         /\ Resumed(x).pc = x /\ Resumed(x).entry = D!Top.entry /\ Resumed(x).reg = D!Top.reg
<1>1. D!Top \in Frame
  BY TopFrame
<1>2. Resumed(x) \in Frame /\ Resumed(x).pc = x
      /\ Resumed(x).entry = D!Top.entry /\ Resumed(x).reg = D!Top.reg
  BY <1>1 DEF Resumed, Frame
<1>3. Becomes(Resumed(x))
  BY DEF Becomes, Resumed, D!To, D!Top
<1> QED BY <1>2, <1>3

-----------------------------------------------------------------------------
(* The disk.  Types are kept.                                               *)

\* Threads run when no handler does, and leave the buffers alone.
LEMMA ThreadsLeave ==
  ASSUME D!ThreadStep
  PROVE  /\ frames = <<>> /\ stopped = "no" /\ frames' = frames
         /\ client' = client /\ start' = start /\ prompt' = prompt /\ data' = data
         /\ hops' = hops
BY DEF D!ThreadStep, D!SRead, D!SPending, D!SSchedule, D!SSpun, D!ASchedules, D!HStart, D!HFinish,
       D!TCreate, D!TJoin, D!TJoined, D!TExit, D!TSchedule, D!TEnqueue, D!TBlock, D!TAdd,
       D!TReturn, D!IdleDequeue, D!IdleSleep, D!IdleWake, D!On, D!fixed, D!app

\* What a thread that goes on does to the places.
LEMMA Going ==
  ASSUME ThreadTypes, NEW s \in Places, D!Go(s)
  PROVE  /\ place' \in [D!Threads -> Places] /\ place'[cur] = s
         /\ \A t \in D!Threads : t # cur => place'[t] = place[t]
BY DEF ThreadTypes, D!Go

\* A thread that goes on, stops, or is none of those that a step is about.
LEMMA TypesIfPlaced ==
  ASSUME ThreadTypes, UNCHANGED <<client, cur, runnable, done>>,
         NEW s \in Places, D!Go(s),
         cur = D!Main => /\ s \in {"next", "sched", "spin", "joining"}
                         /\ s = "spin" => client \in {"sRead", "treasureHunt"},
         cur = D!Idle => s \in IdlePlaces,
         cur \in D!Readers => s \in ReaderPlaces
  PROVE  ThreadTypes'
BY DiskNumbers, Going DEF ThreadTypes

LEMMA TypesIfStopped ==
  ASSUME ThreadTypes, client = "tRead", client' = client, done' = done,
         NEW s \in Places, D!Stop(s),
         cur = D!Main => s = "joining",
         cur = D!Idle => s \in IdlePlaces,
         cur \in D!Readers => s \in ReaderPlaces
  PROVE  ThreadTypes'
<1>1. D!Go(s)
  BY DEF D!Stop, D!Go
<1>2. /\ place' \in [D!Threads -> Places] /\ place'[cur] = s
      /\ \A t \in D!Threads : t # cur => place'[t] = place[t]
  BY <1>1, Going
<1>3. cur' \in D!Threads /\ runnable' \in Seq(D!Readers \cup {D!Main})
  BY Stopping
<1>4. /\ place'[D!Main] \in {"next", "sched", "spin", "joining"}
      /\ place'[D!Main] = "spin" => client \in {"sRead", "treasureHunt"}
      /\ place'[D!Idle] \in IdlePlaces
      /\ \A r \in D!Readers : place'[r] \in ReaderPlaces
  BY <1>2, DiskNumbers DEF ThreadTypes
<1> QED BY <1>2, <1>3, <1>4 DEF ThreadTypes

\* A step that leaves the reads and the entries alone, or adds a read.
LEMMA TypesIfQuiet ==
  ASSUME ReadTypes, UNCHANGED <<client, D!disk, queue>>
  PROVE  ReadTypes'
BY DEF ReadTypes, D!disk, Pending, Callback

LEMMA TypesIfScheduled ==
  ASSUME ReadTypes, UNCHANGED <<client, queue>>, NEW r \in D!Readers, NEW b \in Nat,
         D!Schedule(r, b)
  PROVE  ReadTypes'
<1>1. b \in Int
  OBVIOUS
<1>2. prq' \in Seq(Read) /\ due' = due /\ due' <= Len(prq')
  BY <1>1, Scheduling
<1> QED BY <1>2 DEF ReadTypes, Pending, Callback

\* Steps of main in the programs without threads.
LEMMA TypesMain ==
  ASSUME DiskTypes, D!SRead \/ D!ASchedules \/ D!HStart \/ D!HFinish
  PROVE  ReadTypes' /\ DataTypes' /\ ThreadTypes'
<1> USE DEF DiskTypes
<1>1. CASE D!SPending
  <2>1. ReadTypes'
    BY <1>1, TypesIfQuiet DEF D!SPending, D!fixed
  <2>2. DataTypes'
    BY <1>1 DEF D!SPending, DataTypes
  <2>3. ThreadTypes'
    BY <1>1, TypesIfPlaced, DiskNumbers DEF D!SPending, D!On, D!fixed, Places
  <2> QED BY <2>1, <2>2, <2>3
<1>2. CASE D!SSchedule
  <2>1. D!Schedule(0, i) /\ i \in Nat /\ UNCHANGED <<client, queue>>
    BY <1>2 DEF D!SSchedule, D!fixed, DataTypes
  <2>2. ReadTypes'
    BY <2>1, TypesIfScheduled, DiskNumbers
  <2>3. DataTypes'
    BY <1>2 DEF D!SSchedule, D!app, DataTypes
  <2>4. ThreadTypes'
    BY <1>2, TypesIfPlaced, DiskNumbers DEF D!SSchedule, D!On, D!fixed, Places
  <2> QED BY <2>2, <2>3, <2>4
<1>3. CASE D!SSpun(flag)
  <2>1. ReadTypes'
    BY <1>3, TypesIfQuiet DEF D!SSpun, D!fixed
  <2>2. DataTypes'
    <3>1. data[0] \in Int
      BY DiskNumbers DEF DataTypes
    <3> QED BY <1>3, <3>1 DEF D!SSpun, DataTypes
  <2>3. ThreadTypes'
    BY <1>3, TypesIfPlaced, DiskNumbers DEF D!SSpun, D!On, D!fixed, Places
  <2> QED BY <2>1, <2>2, <2>3
<1>4. ASSUME UNCHANGED <<D!fixed, D!disk, queue, D!app, D!sched>>
      PROVE  ReadTypes' /\ DataTypes' /\ ThreadTypes'
  BY <1>4, TypesIfQuiet DEF D!fixed, D!app, D!sched, DataTypes, ThreadTypes
<1>5. CASE D!SRead
  <2>1. ASSUME UNCHANGED <<D!fixed, D!disk, queue, D!locks, frames, D!app, D!sched>>
        PROVE  ReadTypes' /\ DataTypes' /\ ThreadTypes'
    BY <1>4, <2>1
  <2> QED BY <1>1, <1>2, <1>3, <1>5, <2>1 DEF D!SRead
<1>6. CASE D!HFinish
  BY <1>4, <1>6 DEF D!HFinish
<1>7. CASE D!ASchedules
  <2>1. i \in D!Readers /\ client = "aRead" /\ client' = client /\ cur = D!Main
    BY <1>7, DiskNumbers DEF D!ASchedules, D!On, DataTypes, D!fixed
  <2>2. DataTypes'
    BY <1>7 DEF D!ASchedules, DataTypes
  <2>3. CASE D!On(D!Main, "next") /\ D!Go("sched") /\ UNCHANGED D!disk
             /\ D!Queue(i, IF i = NumBlocks - 1 THEN "read_and_exit" ELSE "read")
    <3>1. (IF i = NumBlocks - 1 THEN "read_and_exit" ELSE "read") \in Callback
      BY <2>1 DEF Callback
    <3>2. queue' \in Seq(Pending)
      BY <2>1, <2>3, <3>1, Queueing
    <3>3. ReadTypes'
      BY <2>1, <2>3, <3>2 DEF ReadTypes, D!disk, Pending, Callback
    <3>4. ThreadTypes'
      BY <1>7, <2>1, <2>3, TypesIfPlaced, DiskNumbers DEF D!ASchedules, Places
    <3> QED BY <2>2, <3>3, <3>4
  <2>4. CASE D!On(D!Main, "sched") /\ D!Schedule(i, i) /\ D!Go("next") /\ UNCHANGED queue
    <3>1. ReadTypes'
      BY <2>1, <2>4, TypesIfScheduled, DiskNumbers DEF DataTypes
    <3>2. ThreadTypes'
      BY <1>7, <2>1, <2>4, TypesIfPlaced, DiskNumbers DEF D!ASchedules, Places
    <3> QED BY <2>2, <3>1, <3>2
  <2> QED BY <1>7, <2>3, <2>4 DEF D!ASchedules
<1>8. CASE D!HStart
  <2>1. /\ client = "treasureHunt" /\ client' = client /\ cur = D!Main
        /\ UNCHANGED <<cur, runnable, done>>
    BY <1>8 DEF D!HStart, D!On, D!fixed
  <2>2. DataTypes'
    BY <1>8 DEF D!HStart, D!app, DataTypes
  <2>3. CASE D!On(D!Main, "next") /\ D!Queue(0, "first") /\ D!Go("sched") /\ UNCHANGED D!disk
    <3>1. "first" \in Callback
      BY <2>1 DEF Callback
    <3>2. queue' \in Seq(Pending)
      BY <2>1, <2>3, <3>1, Queueing, DiskNumbers
    <3>3. ReadTypes'
      BY <2>1, <2>3, <3>2 DEF ReadTypes, D!disk, Pending, Callback
    <3>4. ThreadTypes'
      BY <2>1, <2>3, TypesIfPlaced, DiskNumbers DEF Places
    <3> QED BY <2>2, <3>3, <3>4
  <2>4. CASE D!On(D!Main, "sched") /\ D!Schedule(0, start) /\ D!Go("spin") /\ UNCHANGED queue
    <3>1. ReadTypes'
      BY <2>1, <2>4, TypesIfScheduled, DiskNumbers DEF ClientTypes
    <3>2. ThreadTypes'
      BY <2>1, <2>4, TypesIfPlaced, DiskNumbers DEF Places
    <3> QED BY <2>2, <3>1, <3>2
  <2> QED BY <1>8, <2>3, <2>4 DEF D!HStart
<1> QED BY <1>5, <1>6, <1>7, <1>8

\* Steps of the threads of tRead.
LEMMA TypesTRead ==
  ASSUME DiskTypes,
         \/ D!TCreate \/ D!TJoin \/ D!TJoined \/ D!TExit
         \/ \E r \in D!Readers :
              D!TSchedule(r) \/ D!TEnqueue(r) \/ D!TBlock(r) \/ D!TAdd(r) \/ D!TReturn(r)
         \/ D!IdleDequeue \/ D!IdleSleep \/ D!IdleWake
  PROVE  ReadTypes' /\ DataTypes' /\ ThreadTypes'
<1> USE DEF DiskTypes
<1>1. CASE D!TCreate
  <2>1. i \in D!Readers /\ cur = D!Main /\ client = "tRead" /\ client' = client
    BY <1>1, DiskNumbers DEF D!TCreate, D!On, DataTypes, D!fixed
  <2>2. ReadTypes' /\ DataTypes'
    BY <1>1, TypesIfQuiet DEF D!TCreate, D!fixed, DataTypes
  <2>3. runnable' \in Seq(D!Readers \cup {D!Main})
    BY <1>1, <2>1, Appended DEF D!TCreate, ThreadTypes
  <2>4. /\ place' \in [D!Threads -> Places]
        /\ \A t \in D!Threads : place'[t] = IF t = i THEN "schedule" ELSE place[t]
    BY <1>1, <2>1, DiskNumbers DEF D!TCreate, ThreadTypes, Places, ReaderPlaces
  <2>5. cur' = cur /\ done' = done
    BY <1>1 DEF D!TCreate
  <2> QED BY <2>1, <2>2, <2>3, <2>4, <2>5, DiskNumbers DEF ThreadTypes, ReaderPlaces
<1>2. CASE D!TJoin
  <2>1. cur = D!Main /\ client = "tRead" /\ client' = client
    BY <1>2 DEF D!TJoin, D!On, D!fixed
  <2>2. ReadTypes' /\ DataTypes'
    BY <1>2, TypesIfQuiet DEF D!TJoin, D!fixed, DataTypes
  <2>3. CASE UNCHANGED D!sched
    BY <2>1, <2>2, <2>3 DEF D!sched, ThreadTypes
  <2>4. CASE D!Stop("joining") /\ UNCHANGED done
    BY <2>1, <2>2, <2>4, TypesIfStopped, DiskNumbers DEF Places
  <2> QED BY <1>2, <2>2, <2>3, <2>4 DEF D!TJoin
<1>3. CASE D!TJoined
  <2>1. cur = D!Main /\ client = "tRead" /\ client' = client
    BY <1>3 DEF D!TJoined, D!On, D!fixed
  <2>2. ReadTypes' /\ DataTypes'
    BY <1>3, TypesIfQuiet DEF D!TJoined, D!fixed, DataTypes
  <2>3. ThreadTypes'
    BY <1>3, <2>1, TypesIfPlaced, DiskNumbers DEF D!TJoined, Places
  <2> QED BY <2>2, <2>3
<1>4. CASE D!TExit
  BY <1>4, TypesIfQuiet DEF D!TExit, D!fixed, D!app, D!sched, DataTypes, ThreadTypes
<1>5. ASSUME NEW r \in D!Readers, D!TSchedule(r) PROVE ReadTypes' /\ DataTypes' /\ ThreadTypes'
  <2>1. cur = r /\ client' = client /\ r \in Nat
    BY <1>5, DiskNumbers DEF D!TSchedule, D!On, D!fixed
  <2>2. D!Schedule(r, r) /\ queue' = queue
    BY <1>5 DEF D!TSchedule
  <2>3. ReadTypes'
    BY <2>1, <2>2, TypesIfScheduled
  <2>4. DataTypes'
    BY <1>5 DEF D!TSchedule, D!app, DataTypes
  <2>5. ThreadTypes'
    BY <1>5, <2>1, TypesIfPlaced, DiskNumbers DEF D!TSchedule, Places, ReaderPlaces
  <2> QED BY <2>3, <2>4, <2>5
<1>6. ASSUME NEW r \in D!Readers, D!TEnqueue(r) PROVE ReadTypes' /\ DataTypes' /\ ThreadTypes'
  <2>1. cur = r /\ client' = client /\ client = "tRead"
    BY <1>6, DiskNumbers DEF D!TEnqueue, D!On, D!fixed, ThreadTypes
  <2>2. D!Queue(r, "unblock") /\ UNCHANGED D!disk
    BY <1>6 DEF D!TEnqueue
  <2>3. ReadTypes'
    <3>1. "unblock" \in Callback
      BY <2>1 DEF Callback
    <3>2. queue' \in Seq(Pending)
      BY <2>2, <3>1, Queueing
    <3> QED BY <2>1, <2>2, <3>2 DEF ReadTypes, Pending, Callback, D!disk
  <2>4. DataTypes'
    BY <1>6 DEF D!TEnqueue, D!app, DataTypes
  <2>5. ThreadTypes'
    BY <1>6, <2>1, TypesIfPlaced, DiskNumbers DEF D!TEnqueue, Places, ReaderPlaces
  <2> QED BY <2>3, <2>4, <2>5
<1>7. ASSUME NEW r \in D!Readers, D!TBlock(r) PROVE ReadTypes' /\ DataTypes' /\ ThreadTypes'
  <2>1. cur = r /\ client' = client /\ client = "tRead" /\ D!Stop("add") /\ done' = done
    BY <1>7, DiskNumbers DEF D!TBlock, D!On, D!fixed, ThreadTypes
  <2>2. ReadTypes' /\ DataTypes'
    BY <1>7, TypesIfQuiet DEF D!TBlock, D!fixed, D!app, DataTypes
  <2>3. ThreadTypes'
    BY <2>1, TypesIfStopped, DiskNumbers DEF Places, ReaderPlaces
  <2> QED BY <2>2, <2>3
<1>8. ASSUME NEW r \in D!Readers, D!TAdd(r) PROVE ReadTypes' /\ DataTypes' /\ ThreadTypes'
  <2>1. cur = r /\ client' = client /\ data[r] \in Int
    BY <1>8, DiskNumbers DEF D!TAdd, D!On, D!fixed, DataTypes
  <2>2. ReadTypes' /\ DataTypes'
    BY <1>8, <2>1, TypesIfQuiet DEF D!TAdd, D!fixed, DataTypes
  <2>3. ThreadTypes'
    BY <1>8, <2>1, TypesIfPlaced, DiskNumbers DEF D!TAdd, Places, ReaderPlaces
  <2> QED BY <2>2, <2>3
<1>9. ASSUME NEW r \in D!Readers, D!TReturn(r) PROVE ReadTypes' /\ DataTypes' /\ ThreadTypes'
  <2> DEFINE queued == IF place[D!Main] = "joining" /\ i - NumBlocks = r
                       THEN Append(runnable, D!Main) ELSE runnable
  <2>1. cur = r /\ client' = client /\ client = "tRead" /\ D!Go("dead") /\ done' = done \cup {r}
    BY <1>9, DiskNumbers DEF D!TReturn, D!On, D!fixed, ThreadTypes
  <2>2. ReadTypes' /\ DataTypes'
    BY <1>9, TypesIfQuiet DEF D!TReturn, D!fixed, D!app, DataTypes
  <2>3. queued \in Seq(D!Readers \cup {D!Main})
    BY Appended DEF ThreadTypes
  <2>4. cur' = (IF queued # <<>> THEN Head(queued) ELSE D!Idle)
        /\ runnable' = (IF queued # <<>> THEN Tail(queued) ELSE queued)
    BY <1>9 DEF D!TReturn
  <2> HIDE DEF queued
  <2>5. cur' \in D!Threads /\ runnable' \in Seq(D!Readers \cup {D!Main})
    BY <2>3, <2>4, HeadTailProperties, DiskNumbers
  <2>6. /\ place' \in [D!Threads -> Places] /\ place'[r] = "dead"
        /\ \A t \in D!Threads : t # r => place'[t] = place[t]
    BY <2>1, Going DEF Places, ReaderPlaces
  <2> QED BY <2>1, <2>2, <2>5, <2>6, DiskNumbers DEF ThreadTypes, ReaderPlaces
<1>10. CASE D!IdleDequeue
  <2>1. cur = D!Idle /\ client' = client /\ client = "tRead" /\ done' = done
    BY <1>10, DiskNumbers DEF D!IdleDequeue, D!On, D!fixed, ThreadTypes
  <2>2. ReadTypes' /\ DataTypes'
    BY <1>10, TypesIfQuiet DEF D!IdleDequeue, D!fixed, D!app, DataTypes
  <2>3. CASE D!Stop("dequeue")
    BY <2>1, <2>2, <2>3, TypesIfStopped, DiskNumbers DEF Places, IdlePlaces
  <2>4. CASE D!Go("sleep") /\ UNCHANGED <<cur, runnable>>
    BY <2>1, <2>2, <2>4, TypesIfPlaced, DiskNumbers DEF Places, IdlePlaces
  <2> QED BY <1>10, <2>2, <2>3, <2>4 DEF D!IdleDequeue
<1>11. CASE D!IdleSleep \/ D!IdleWake
  <2>1. cur = D!Idle /\ client' = client /\ UNCHANGED <<cur, runnable, done>>
    BY <1>11 DEF D!IdleSleep, D!IdleWake, D!On, D!fixed
  <2>2. ReadTypes' /\ DataTypes'
    BY <1>11, TypesIfQuiet DEF D!IdleSleep, D!IdleWake, D!fixed, D!app, DataTypes
  <2>3. D!Go("asleep") \/ D!Go("awake") \/ D!Go("dequeue")
    BY <1>11 DEF D!IdleSleep, D!IdleWake
  <2>4. ThreadTypes'
    BY <2>1, <2>3, TypesIfPlaced, DiskNumbers DEF Places, IdlePlaces
  <2> QED BY <2>2, <2>4
<1> QED BY <1>1, <1>2, <1>3, <1>4, <1>5, <1>6, <1>7, <1>8, <1>9, <1>10, <1>11

LEMMA DiskTypesThread == DiskTypes /\ D!ThreadStep => DiskTypes'
<1> SUFFICES ASSUME DiskTypes, D!ThreadStep PROVE DiskTypes'
  OBVIOUS
<1>1. ClientTypes' /\ FrameTypes'
  BY ThreadsLeave DEF DiskTypes, ClientTypes, FrameTypes, Frame, WithEntry
<1>2. ReadTypes' /\ DataTypes' /\ ThreadTypes'
  BY TypesMain, TypesTRead DEF D!ThreadStep
<1> QED BY <1>1, <1>2 DEF DiskTypes

\* What becomes of the innermost handler keeps the types of handlers.
LEMMA FramesBecome ==
  ASSUME FrameTypes, client' = client, frames # <<>>,
         NEW e \in Frame, e.pc \in WithEntry => e.entry # <<>>, Becomes(e)
  PROVE  FrameTypes'
<1>1. Frame' = Frame /\ WithEntry' = WithEntry
  BY DEF Frame, WithEntry
<1>2. /\ frames' \in Seq(Frame)
      /\ \A m \in DOMAIN frames' : frames'[m].pc \in WithEntry => frames'[m].entry # <<>>
  BY Becoming DEF FrameTypes
<1> QED BY <1>1, <1>2 DEF FrameTypes

LEMMA FramesResume ==
  ASSUME FrameTypes, client' = client, frames # <<>>,
         NEW x \in NoEntry \cup WithEntry, x \in WithEntry => D!Top.pc \in WithEntry, D!To(x)
  PROVE  FrameTypes'
<1>1. /\ Becomes(Resumed(x)) /\ Resumed(x) \in Frame
      /\ Resumed(x).pc = x /\ Resumed(x).entry = D!Top.entry
  BY Resuming
<1>2. D!Top.pc \in WithEntry => D!Top.entry # <<>>
  BY TopFrame
<1> QED BY <1>1, <1>2, FramesBecome

LEMMA ThreadsUndisturbed ==
  ASSUME ThreadTypes, UNCHANGED <<client, D!sched>> PROVE ThreadTypes'
BY DEF ThreadTypes, D!sched

LEMMA DiskTypesTick == DiskTypes /\ (D!Time \/ D!Tick) => DiskTypes'
<1> SUFFICES ASSUME DiskTypes, D!Time \/ D!Tick PROVE DiskTypes'
  OBVIOUS
<1> USE DEF DiskTypes
<1>1. /\ client' = client /\ start' = start /\ prq' = prq /\ queue' = queue
      /\ UNCHANGED <<D!app, D!sched>>
  BY DEF D!Time, D!Tick, D!fixed, D!disk
<1>2. ClientTypes' /\ DataTypes' /\ ThreadTypes'
  BY <1>1, ThreadsUndisturbed DEF ClientTypes, DataTypes, D!app
<1>3. ReadTypes'
  <2>1. due' \in Nat /\ due' <= Len(prq)
    BY LenProperties DEF D!Time, D!Tick, D!disk, ReadTypes
  <2> QED BY <1>1, <2>1 DEF ReadTypes, Pending, Callback
<1>4. FrameTypes'
  <2>1. CASE D!Time
    BY <1>1, <2>1 DEF D!Time, FrameTypes, Frame, WithEntry
  <2>2. CASE D!Tick
    <3> DEFINE e == [pc |-> "scan", entry |-> <<>>, reg |-> 0]
    <3>1. e \in Frame /\ e.pc \notin WithEntry
      BY DEF Frame, NoEntry, WithEntry
    <3>2. frames' = Append(frames, e) /\ frames \in Seq(Frame)
      BY <2>2 DEF D!Tick, FrameTypes
    <3> HIDE DEF e
    <3>3. /\ frames' \in Seq(Frame)
          /\ \A m \in DOMAIN frames' : frames'[m].pc \in WithEntry => frames'[m].entry # <<>>
      BY <3>1, <3>2, Appended DEF FrameTypes
    <3>4. Frame' = Frame /\ WithEntry' = WithEntry
      BY <1>1 DEF Frame, WithEntry
    <3> QED BY <3>3, <3>4 DEF FrameTypes
  <2> QED BY <2>1, <2>2
<1> QED BY <1>2, <1>3, <1>4

LEMMA DiskTypesScan == DiskTypes /\ D!Scan => DiskTypes'
<1> SUFFICES ASSUME DiskTypes, D!Scan PROVE DiskTypes'
  OBVIOUS
<1> USE DEF DiskTypes
<1>1. client' = client /\ start' = start /\ frames # <<>>
  BY DEF D!Scan, D!fixed, D!In
<1>2. ClientTypes' /\ ThreadTypes'
  BY <1>1, ThreadsUndisturbed DEF ClientTypes, D!Scan
<1>3. CASE due > 0
  <2>1. /\ data' = [data EXCEPT ![Head(prq).buf] = D!Block(Head(prq).block)]
        /\ prq' = Tail(prq) /\ due' = due - 1 /\ D!To("deliver")
        /\ UNCHANGED <<queue, sum, hops, i>>
    BY <1>3 DEF D!Scan
  <2>2. prq # <<>> /\ prq \in Seq(Read)
    BY <1>3, EmptySeq DEF ReadTypes
  <2>3. Head(prq) \in Read /\ prq' \in Seq(Read) /\ Len(prq') = Len(prq) - 1
    BY <2>1, <2>2, Beheaded
  <2>4. DataTypes'
    <3>1. Head(prq).buf \in D!Readers /\ Head(prq).block \in Int
      BY <2>3 DEF Read
    <3>2. D!Block(Head(prq).block) \in Int
      BY <3>1, BlockType
    <3> QED BY <2>1, <3>1, <3>2 DEF DataTypes
  <2>5. ReadTypes'
    <3>1. due' \in Nat /\ due' <= Len(prq')
      BY <1>3, <2>1, <2>2, <2>3, LenProperties DEF ReadTypes
    <3> QED BY <1>1, <2>1, <2>3, <3>1 DEF ReadTypes, Pending, Callback
  <2>6. FrameTypes'
    BY <1>1, <2>1, FramesResume DEF NoEntry, WithEntry
  <2> QED BY <1>2, <2>4, <2>5, <2>6
<1>4. CASE ~(due > 0)
  <2>1. frames' = D!Front(frames) /\ UNCHANGED <<D!disk, data, queue, sum, hops, i>>
    BY <1>4 DEF D!Scan
  <2>2. ReadTypes' /\ DataTypes'
    BY <1>1, <2>1, TypesIfQuiet DEF DataTypes
  <2>3. FrameTypes'
    <3>1. /\ frames' \in Seq(Frame)
          /\ \A m \in DOMAIN frames' : frames'[m].pc \in WithEntry => frames'[m].entry # <<>>
      BY <1>1, <2>1, Popped DEF FrameTypes
    <3>2. Frame' = Frame /\ WithEntry' = WithEntry
      BY <1>1 DEF Frame, WithEntry
    <3> QED BY <3>1, <3>2 DEF FrameTypes
  <2> QED BY <1>2, <2>2, <2>3
<1> QED BY <1>3, <1>4

\* Steps of a handler that leave the reads and the threads alone.
LEMMA TypesIfApart ==
  ASSUME DiskTypes, UNCHANGED <<D!fixed, D!disk, queue, D!sched>>, DataTypes', FrameTypes'
  PROVE  DiskTypes'
BY TypesIfQuiet, ThreadsUndisturbed DEF DiskTypes, ClientTypes, D!fixed

LEMMA DiskTypesHandler == DiskTypes /\ D!HandlerStep => DiskTypes'
<1> SUFFICES ASSUME DiskTypes, D!HandlerStep PROVE DiskTypes'
  OBVIOUS
<1>1. /\ FrameTypes /\ DataTypes /\ client' = client /\ frames # <<>>
  BY DEF DiskTypes, D!HandlerStep, D!Scan, D!SetInterrupt, D!SInterrupt, D!InterruptLocks,
     D!InterruptDequeues, D!HandleRead, D!HandleStore, D!Unblock, D!HandleHunt, D!NextRead,
     D!fixed, D!In
<1>2. /\ D!Top \in Frame /\ D!Top.pc \in NoEntry \cup WithEntry /\ D!Top.reg \in Int
      /\ D!Top.pc \in WithEntry => D!Top.entry # <<>> /\ D!Top.entry[1] \in D!Readers
      /\ D!Top.pc \in {"read", "read_and_exit"} => client = "aRead"
      /\ D!Top.pc \in {"unblock", "ready"} => client = "tRead"
      /\ D!Top.pc \in {"first", "other", "next", "enqueue", "schedule", "append"} =>
           client = "treasureHunt"
  BY <1>1, TopFrame DEF Frame, NoEntry, WithEntry
<1>3. CASE D!SetInterrupt
  <2>1. D!To("isr") \/ D!To("scan")
    BY <1>3 DEF D!SetInterrupt
  <2>2. FrameTypes'
    BY <1>1, <2>1, FramesResume DEF NoEntry, WithEntry
  <2>3. DataTypes'
    BY <1>1, <1>3 DEF D!SetInterrupt, DataTypes, D!app
  <2> QED BY <1>3, <2>2, <2>3, TypesIfApart DEF D!SetInterrupt
<1>4. CASE D!SInterrupt
  <2>1. FrameTypes'
    BY <1>1, <1>4, FramesResume DEF D!SInterrupt, NoEntry, WithEntry
  <2>2. DataTypes'
    BY <1>1, <1>4 DEF D!SInterrupt, DataTypes
  <2> QED BY <1>4, <2>1, <2>2, TypesIfApart DEF D!SInterrupt
<1>5. CASE D!InterruptLocks
  <2>1. FrameTypes'
    BY <1>1, <1>5, FramesResume DEF D!InterruptLocks, NoEntry, WithEntry
  <2>2. DataTypes'
    BY <1>1, <1>5 DEF D!InterruptLocks, DataTypes, D!app
  <2> QED BY <1>5, <2>1, <2>2, TypesIfApart DEF D!InterruptLocks
<1>6. CASE D!InterruptDequeues
  <2>1. DataTypes' /\ ClientTypes' /\ ThreadTypes'
    BY <1>1, <1>6, ThreadsUndisturbed
       DEF D!InterruptDequeues, DataTypes, D!app, DiskTypes, ClientTypes, D!fixed
  <2>2. CASE queue = <<>>
    BY <1>1, <1>6, <2>1, <2>2, TypesIfApart
       DEF D!InterruptDequeues, FrameTypes, Frame, WithEntry
  <2>3. CASE queue # <<>>
    <3> DEFINE e == [D!Top EXCEPT !.pc = Head(queue).callback, !.entry = <<Head(queue).val>>]
    <3>1. queue' = Tail(queue) /\ UNCHANGED D!disk
      BY <1>6, <2>3 DEF D!InterruptDequeues
    <3>2. queue \in Seq(Pending)
      BY DEF DiskTypes, ReadTypes
    <3>3. Head(queue) \in Pending /\ queue' \in Seq(Pending)
      BY <2>3, <3>1, <3>2, Beheaded
    <3>4. Head(queue).val \in D!Readers /\ Head(queue).callback \in WithEntry
      BY <3>3 DEF Pending, Callback, WithEntry
    <3>5. e \in Frame /\ e.entry # <<>>
      BY <1>2, <3>4 DEF Frame
    <3>6. Becomes(e)
      BY <1>6, <2>3 DEF D!InterruptDequeues, Becomes, D!Top
    <3> HIDE DEF e
    <3>7. FrameTypes'
      BY <1>1, <3>5, <3>6, FramesBecome
    <3>8. ReadTypes'
      BY <1>1, <3>1, <3>3 DEF DiskTypes, ReadTypes, D!disk, Pending, Callback
    <3> QED BY <2>1, <3>7, <3>8 DEF DiskTypes
  <2> QED BY <2>2, <2>3
<1>7. CASE D!HandleRead
  <2> DEFINE x == IF D!Top.pc = "read" THEN "store" ELSE "exit"
             e == [D!Top EXCEPT !.pc = x, !.reg = sum + data[D!Top.entry[1]]]
  <2>1. D!Top.pc \in {"read", "read_and_exit"} /\ Becomes(e)
    BY <1>7 DEF D!HandleRead, D!In, Becomes, D!Top
  <2>2. client = "aRead" /\ D!Top.entry # <<>> /\ D!Top.entry[1] \in D!Readers
    BY <1>2, <2>1 DEF WithEntry
  <2>3. sum + data[D!Top.entry[1]] \in Int /\ x \in WithEntry
    BY <1>1, <2>2 DEF DataTypes, WithEntry
  <2>4. e \in Frame /\ e.entry # <<>>
    BY <1>2, <2>2, <2>3 DEF Frame
  <2> HIDE DEF e
  <2>5. FrameTypes'
    BY <1>1, <2>1, <2>4, FramesBecome
  <2>6. DataTypes'
    BY <1>1, <1>7 DEF D!HandleRead, DataTypes, D!app
  <2> QED BY <1>7, <2>5, <2>6, TypesIfApart DEF D!HandleRead
<1>8. CASE D!HandleStore
  <2>1. D!To("end") /\ sum' = D!Top.reg
    BY <1>8 DEF D!HandleStore
  <2>2. FrameTypes'
    BY <1>1, <2>1, FramesResume DEF NoEntry, WithEntry
  <2>3. DataTypes'
    BY <1>1, <1>2, <1>8, <2>1 DEF D!HandleStore, DataTypes
  <2> QED BY <1>8, <2>2, <2>3, TypesIfApart DEF D!HandleStore
<1>9. CASE D!Unblock
  <2>1. /\ D!Top.pc \in {"unblock", "ready"} /\ client = "tRead"
        /\ D!Top.pc \in WithEntry /\ D!Top.entry[1] \in D!Readers
    BY <1>2, <1>9 DEF D!Unblock, D!In, WithEntry
  <2>2. D!To("ready") \/ D!To("end")
    BY <1>9 DEF D!Unblock
  <2>3. FrameTypes'
    BY <1>1, <2>1, <2>2, FramesResume DEF NoEntry, WithEntry
  <2>4. DataTypes' /\ ReadTypes' /\ ClientTypes'
    BY <1>1, <1>9, TypesIfQuiet
       DEF D!Unblock, DataTypes, D!app, DiskTypes, ClientTypes, D!fixed
  <2>5. ThreadTypes'
    <3>1. CASE UNCHANGED <<runnable, place>>
      BY <1>1, <1>9, <3>1 DEF D!Unblock, ThreadTypes, DiskTypes
    <3>2. CASE /\ runnable' = Append(runnable, D!Top.entry[1])
               /\ place' = [place EXCEPT ![D!Idle] = IF @ = "asleep" THEN "woken" ELSE @]
      <4>1. runnable' \in Seq(D!Readers \cup {D!Main})
        BY <2>1, <3>2, Appended DEF DiskTypes, ThreadTypes
      <4>2. /\ place' \in [D!Threads -> Places] /\ place'[D!Idle] \in IdlePlaces
            /\ \A t \in D!Threads : t # D!Idle => place'[t] = place[t]
        BY <3>2, DiskNumbers DEF DiskTypes, ThreadTypes, Places, IdlePlaces
      <4>3. UNCHANGED <<client, cur, done>>
        BY <1>1, <1>9 DEF D!Unblock
      <4> QED BY <4>1, <4>2, <4>3, DiskNumbers DEF DiskTypes, ThreadTypes
    <3> QED BY <1>9, <3>1, <3>2 DEF D!Unblock
  <2> QED BY <2>3, <2>4, <2>5 DEF DiskTypes
<1>10. CASE D!HandleHunt
  <2>1. /\ D!Top.pc \in WithEntry /\ client = "treasureHunt"
        /\ data[D!Top.entry[1]] \in Int
    BY <1>1, <1>2, <1>10 DEF D!HandleHunt, D!In, WithEntry, DataTypes
  <2>2. FrameTypes'
    BY <1>1, <1>10, <2>1, FramesResume DEF D!HandleHunt, NoEntry, WithEntry
  <2>3. DataTypes'
    BY <1>1, <1>10, <2>1 DEF D!HandleHunt, DataTypes
  <2> QED BY <1>10, <2>2, <2>3, TypesIfApart DEF D!HandleHunt
<1>11. CASE D!NextRead
  <2>1. /\ UNCHANGED <<client, start, data, sum, hops, i, cur, place, runnable, done>>
    BY <1>11 DEF D!NextRead, D!fixed, D!sched
  <2>2. ClientTypes' /\ DataTypes' /\ ThreadTypes'
    BY <2>1, ThreadsUndisturbed DEF DiskTypes, ClientTypes, DataTypes, D!sched
  <2>3. /\ D!Top.pc \in WithEntry /\ client = "treasureHunt"
        /\ D!Top.entry[1] \in D!Readers
    BY <1>2, <1>11 DEF D!NextRead, D!In, WithEntry
  <2>4. D!To("end") \/ D!To("enqueue") \/ D!To("schedule") \/ D!To("append")
    BY <1>11 DEF D!NextRead
  <2>5. FrameTypes'
    BY <1>1, <2>3, <2>4, FramesResume DEF NoEntry, WithEntry
  <2>6. ReadTypes'
    <3>1. CASE UNCHANGED <<D!disk, queue>>
      BY <2>1, <3>1, TypesIfQuiet DEF DiskTypes
    <3>2. CASE /\ queue' = Append(queue, [val |-> D!Top.entry[1], callback |-> "other"])
               /\ UNCHANGED D!disk
      <4>1. [val |-> D!Top.entry[1], callback |-> "other"] \in Pending
        BY <2>3 DEF Pending, Callback
      <4>2. queue' \in Seq(Pending)
        BY <3>2, <4>1, Appended DEF DiskTypes, ReadTypes
      <4> QED BY <2>1, <3>2, <4>2 DEF DiskTypes, ReadTypes, Pending, Callback, D!disk
    <3>3. CASE /\ prq' = Append(prq, [buf |-> D!Top.entry[1], block |-> data[D!Top.entry[1]]])
               /\ UNCHANGED <<due, queue>>
      <4>1. [buf |-> D!Top.entry[1], block |-> data[D!Top.entry[1]]] \in Read
        BY <1>1, <2>3 DEF Read, DataTypes
      <4>2. prq' \in Seq(Read) /\ due <= Len(prq')
        <5>1. Len(prq) \in Nat /\ Len(prq') = Len(prq) + 1 /\ prq' \in Seq(Read)
          BY <3>3, <4>1, Appended DEF DiskTypes, ReadTypes
        <5> QED BY <5>1 DEF DiskTypes, ReadTypes
      <4> QED BY <2>1, <3>3, <4>2 DEF DiskTypes, ReadTypes, Pending, Callback
    <3> QED BY <1>11, <3>1, <3>2, <3>3 DEF D!NextRead, D!disk
  <2> QED BY <2>2, <2>5, <2>6 DEF DiskTypes
<1> QED BY <1>3, <1>4, <1>5, <1>6, <1>7, <1>8, <1>9, <1>10, <1>11, DiskTypesScan
        DEF D!HandlerStep

LEMMA DiskTypesStep == DiskTypes /\ [D!Next]_(D!vars) => DiskTypes'
<1> SUFFICES ASSUME DiskTypes, UNCHANGED D!vars PROVE DiskTypes'
  BY DiskTypesThread, DiskTypesTick, DiskTypesHandler DEF D!Next
<1> QED BY DEF D!vars, D!fixed, D!disk, D!app, D!sched, DiskTypes, ClientTypes, ReadTypes,
               FrameTypes, DataTypes, ThreadTypes, Frame, WithEntry, Pending, Callback

LEMMA DiskTypesAlways == D!Spec => []DiskTypes
BY DiskTypesInit, DiskTypesStep, PTL DEF D!Spec

-----------------------------------------------------------------------------
(* The disk.  Who holds a lock, and who has the signal blocked.             *)

\* A handler has reached one of the places pcs.
FrameAt(pcs) == \E n \in DOMAIN frames : frames[n].pc \in pcs

\* The places from which deliverInterrupt has yet to return.
Delivered == {"isr", "dequeue", "end", "read", "read_and_exit", "store", "exit", "unblock", "ready",
              "first", "other", "next", "enqueue", "schedule", "append"}

\* Who must be at work for a lock to be taken, isInterrupt to be set, or the signal to
\* be blocked.
Locked ==
  /\ isInterrupt => FrameAt(Delivered)
  /\ held \subseteq {"queue", "ready", "prq", "pthread"}
  /\ "queue" \in held => FrameAt({"dequeue", "enqueue"})
  /\ "ready" \in held => FrameAt({"ready"})
  /\ "prq" \in held => FrameAt({"append"})
  /\ "pthread" \in held => cur = D!Idle /\ place[D!Idle] \in {"sleep", "awake"}
  /\ frames = <<>> /\ masked => client = "tRead" /\ cur = D!Main /\ place[D!Main] = "next"

\* How the handlers at given places change with the innermost one.
LEMMA NobodyThere == ~FrameAt({}) /\ (frames = <<>> => \A pcs : ~FrameAt(pcs))
BY DEF FrameAt

LEMMA FrameTurned ==
  ASSUME FrameTypes, frames # <<>>, NEW e \in Frame, Becomes(e)
  PROVE  /\ \A pcs : e.pc \in pcs => FrameAt(pcs)'
         /\ \A pcs : FrameAt(pcs) /\ D!Top.pc \notin pcs => FrameAt(pcs)'
         /\ \A pcs : FrameAt(pcs)' => FrameAt(pcs) \/ e.pc \in pcs
         /\ frames' # <<>>
<1>1. /\ Len(frames) \in Nat \ {0} /\ frames' # <<>>
      /\ DOMAIN frames = 1..Len(frames) /\ DOMAIN frames' = 1..Len(frames)
      /\ frames'[Len(frames)] = e
      /\ \A m \in 1..Len(frames) : m # Len(frames) => frames'[m] = frames[m]
  BY Becoming
<1>2. D!Top = frames[Len(frames)]
  BY DEF D!Top
<1>3. ASSUME NEW pcs, e.pc \in pcs PROVE FrameAt(pcs)'
  <2>1. Len(frames) \in DOMAIN frames'
    <3>1. Len(frames) \in 1..Len(frames)
      <4>1. \A l \in Nat \ {0} : l \in 1..l
        OBVIOUS
      <4> QED BY <1>1, <4>1
    <3> QED BY <1>1, <3>1
  <2>2. frames'[Len(frames)].pc \in pcs
    BY <1>1, <1>3
  <2> QED BY <2>1, <2>2 DEF FrameAt
<1>4. ASSUME NEW pcs, FrameAt(pcs), D!Top.pc \notin pcs PROVE FrameAt(pcs)'
  BY <1>1, <1>2, <1>4 DEF FrameAt
<1>5. ASSUME NEW pcs, FrameAt(pcs)' PROVE FrameAt(pcs) \/ e.pc \in pcs
  BY <1>1, <1>5 DEF FrameAt
<1> QED BY <1>1, <1>3, <1>4, <1>5

\* A handler comes.
LEMMA FrameAdded ==
  ASSUME FrameTypes, NEW e \in Frame, frames' = Append(frames, e)
  PROVE  /\ frames' # <<>>
         /\ \A pcs : FrameAt(pcs) => FrameAt(pcs)'
         /\ \A pcs : FrameAt(pcs)' => FrameAt(pcs) \/ e.pc \in pcs
BY Appended DEF FrameTypes, FrameAt

\* A handler goes.
LEMMA FrameLeft ==
  ASSUME FrameTypes, frames # <<>>, frames' = D!Front(frames)
  PROVE  /\ \A pcs : FrameAt(pcs) /\ D!Top.pc \notin pcs => FrameAt(pcs)'
         /\ \A pcs : FrameAt(pcs)' => FrameAt(pcs)
<1>1. /\ Len(frames) \in Nat \ {0}
      /\ DOMAIN frames = 1..Len(frames) /\ DOMAIN frames' = 1..(Len(frames) - 1)
      /\ \A m \in 1..(Len(frames) - 1) : frames'[m] = frames[m]
  BY Popped DEF FrameTypes
<1>2. D!Top = frames[Len(frames)]
  BY DEF D!Top
<1>3. ASSUME NEW pcs, FrameAt(pcs), D!Top.pc \notin pcs PROVE FrameAt(pcs)'
  <2>1. PICK n \in 1..Len(frames) : frames[n].pc \in pcs
    BY <1>1, <1>3 DEF FrameAt
  <2>2. n # Len(frames)
    BY <1>2, <1>3, <2>1
  <2>3. n \in 1..(Len(frames) - 1)
    <3> DEFINE l == Len(frames)
    <3>1. l \in Nat \ {0} /\ n \in 1..l /\ n # l
      BY <1>1, <2>1, <2>2
    <3> HIDE DEF l
    <3>2. n \in 1..(l - 1)
      BY <3>1
    <3> QED BY <3>2 DEF l
  <2> QED BY <1>1, <2>1, <2>3 DEF FrameAt
<1>4. ASSUME NEW pcs, FrameAt(pcs)' PROVE FrameAt(pcs)
  <2>1. PICK n \in 1..(Len(frames) - 1) : frames[n].pc \in pcs
    BY <1>1, <1>4 DEF FrameAt
  <2>2. n \in 1..Len(frames)
    BY <1>1, <2>1
  <2> QED BY <1>1, <2>1, <2>2 DEF FrameAt
<1> QED BY <1>3, <1>4

LEMMA LockedInit == D!Init => Locked
BY DEF D!Init, Locked

\* When no handler runs, all locks are free and the signal is unblocked, save for
\* pthread_base and for main after a join.
Resting ==
  /\ ~isInterrupt /\ held \subseteq {"pthread"}
  /\ "pthread" \in held => cur = D!Idle /\ place[D!Idle] \in {"sleep", "awake"}
  /\ masked => client = "tRead" /\ cur = D!Main /\ place[D!Main] = "next"

\* A thread that takes a lock frees it again, save for pthread_base.
LEMMA LockedThread ==
  ASSUME DiskTypes, Locked, D!ThreadStep
  PROVE  Locked'
<1>1. /\ frames = <<>> /\ frames' = <<>> /\ client' = client
      /\ \A pcs : ~FrameAt(pcs)
  BY ThreadsLeave, NobodyThere
<1>2. Resting
  BY <1>1 DEF Locked, Resting
<1>3. SUFFICES Resting'
  BY <1>1 DEF Locked, Resting
<1>4. ThreadTypes
  BY DEF DiskTypes
<1>5. CASE D!SRead \/ D!ASchedules \/ D!HStart \/ D!HFinish
  <2>1. cur = D!Main /\ client # "tRead" /\ cur' = cur
    BY <1>5 DEF D!SRead, D!SPending, D!SSchedule, D!SSpun, D!ASchedules, D!HStart, D!HFinish, D!On,
                D!sched
  <2>2. "pthread" \notin held /\ ~masked
    BY <1>2, <2>1, DiskNumbers DEF Resting
  <2>3. /\ held' = held /\ isInterrupt' = isInterrupt
        /\ masked' = masked \/ masked' = FALSE
    BY <1>5 DEF D!SRead, D!SPending, D!SSchedule, D!SSpun, D!ASchedules, D!HStart, D!HFinish,
                D!locks, D!Schedule, D!Queue, D!Section
  <2> QED BY <1>2, <2>2, <2>3 DEF Resting
<1>6. CASE D!TCreate \/ D!TExit
  <2>1. /\ cur = D!Main /\ cur' = cur /\ held' = held /\ isInterrupt' = isInterrupt
        /\ masked' = FALSE \/ UNCHANGED <<masked, place>>
    BY <1>6 DEF D!TCreate, D!TExit, D!On, D!Section, D!locks, D!sched
  <2>2. "pthread" \notin held
    BY <1>2, <2>1, DiskNumbers DEF Resting
  <2> QED BY <1>1, <1>2, <2>1, <2>2 DEF Resting
<1>7. CASE D!TJoin \/ D!TJoined
  <2>1. /\ cur = D!Main /\ client = "tRead" /\ client' = client /\ held' = held /\ isInterrupt' = isInterrupt
        /\ \/ masked' = FALSE
           \/ UNCHANGED <<cur, place>> /\ place[D!Main] = "next"
           \/ cur' = cur /\ D!Go("next")
    BY <1>1, <1>7 DEF D!TJoin, D!TJoined, D!On, D!sched, D!Stop, D!Section
  <2>2. "pthread" \notin held
    BY <1>2, <2>1, DiskNumbers DEF Resting
  <2>3. D!Go("next") => place'[D!Main] = "next"
    BY <1>4, <2>1, Going DEF Places
  <2> QED BY <1>2, <2>1, <2>2, <2>3 DEF Resting
<1>8. ASSUME NEW r \in D!Readers,
             D!TSchedule(r) \/ D!TEnqueue(r) \/ D!TBlock(r) \/ D!TAdd(r) \/ D!TReturn(r)
      PROVE  Resting'
  <2>1. /\ cur = r /\ held' = held /\ isInterrupt' = isInterrupt
        /\ masked' = FALSE \/ masked' = masked
    BY <1>8 DEF D!TSchedule, D!TEnqueue, D!TBlock, D!TAdd, D!TReturn, D!On, D!Schedule, D!Queue,
                D!Section, D!Stop, D!locks
  <2>2. "pthread" \notin held /\ ~masked
    BY <1>2, <2>1, DiskNumbers DEF Resting
  <2> QED BY <1>2, <2>1, <2>2 DEF Resting
<1>9. CASE D!IdleDequeue \/ D!IdleSleep \/ D!IdleWake
  <2>1. /\ cur = D!Idle /\ isInterrupt' = isInterrupt
        /\ masked' = FALSE \/ masked' = masked
    BY <1>9 DEF D!IdleDequeue, D!IdleSleep, D!IdleWake, D!On, D!Section, D!Stop
  <2>2. ~masked
    BY <1>2, <2>1, DiskNumbers DEF Resting
  <2>3. \/ held' = held /\ "pthread" \notin held
        \/ held' = held \ {"pthread"}
        \/ held' = held \cup {"pthread"} /\ cur' = cur /\ (D!Go("sleep") \/ D!Go("awake"))
    <3>1. CASE D!IdleDequeue
      <4>1. place[D!Idle] = "dequeue"
        BY <3>1 DEF D!IdleDequeue, D!On
      <4>2. "pthread" \notin held
        BY <1>2, <4>1 DEF Resting
      <4> QED BY <3>1, <4>2 DEF D!IdleDequeue, D!Stop, D!Section
    <3> QED BY <1>9, <3>1 DEF D!IdleSleep, D!IdleWake
  <2>4. ASSUME D!Go("sleep") \/ D!Go("awake") PROVE place'[D!Idle] \in {"sleep", "awake"}
    BY <1>4, <2>1, <2>4, Going DEF Places, IdlePlaces
  <2>5. CASE held' = held /\ "pthread" \notin held
    BY <1>2, <2>1, <2>2, <2>5 DEF Resting
  <2>6. CASE held' = held \ {"pthread"}
    BY <1>2, <2>1, <2>2, <2>6 DEF Resting
  <2>7. CASE held' = held \cup {"pthread"} /\ cur' = cur /\ (D!Go("sleep") \/ D!Go("awake"))
    BY <1>2, <2>1, <2>2, <2>4, <2>7 DEF Resting
  <2> QED BY <2>3, <2>5, <2>6, <2>7
<1> QED BY <1>5, <1>6, <1>7, <1>8, <1>9 DEF D!ThreadStep

\* A handler that comes or goes has no lock.
LEMMA LockedTick ==
  ASSUME DiskTypes, Locked, D!Time \/ D!Tick
  PROVE  Locked'
<1>1. CASE D!Time
  BY <1>1 DEF D!Time, Locked, FrameAt, D!locks, D!sched, D!fixed
<1>2. CASE D!Tick
  <2> DEFINE e == [pc |-> "scan", entry |-> <<>>, reg |-> 0]
  <2>1. e \in Frame
    BY DEF Frame, NoEntry
  <2>2. frames' = Append(frames, e) /\ UNCHANGED <<held, isInterrupt, D!sched>>
    BY <1>2 DEF D!Tick
  <2> HIDE DEF e
  <2>3. frames' # <<>> /\ \A pcs : FrameAt(pcs) => FrameAt(pcs)'
    BY <2>1, <2>2, FrameAdded DEF DiskTypes
  <2> QED BY <2>2, <2>3 DEF Locked, D!sched
<1> QED BY <1>1, <1>2

\* A step of a handler that frees no lock, and leaves isInterrupt set only if it was so.
LEMMA LockedResume ==
  ASSUME FrameTypes, Locked, frames # <<>>, NEW e \in Frame, Becomes(e),
         UNCHANGED <<held, D!sched>>, isInterrupt' => isInterrupt \/ e.pc \in Delivered,
         D!Top.pc \notin {"enqueue", "dequeue", "ready", "append"},
         isInterrupt' => D!Top.pc \notin Delivered \/ e.pc \in Delivered
  PROVE  Locked'
<1>1. /\ e.pc \in Delivered => FrameAt(Delivered)'
      /\ \A pcs : FrameAt(pcs) /\ D!Top.pc \notin pcs => FrameAt(pcs)'
      /\ frames' # <<>>
  BY FrameTurned
<1>2. isInterrupt' => FrameAt(Delivered)'
  BY <1>1 DEF Locked
<1>3. /\ "queue" \in held => FrameAt({"dequeue", "enqueue"})'
      /\ "ready" \in held => FrameAt({"ready"})'
      /\ "prq" \in held => FrameAt({"append"})'
  BY <1>1 DEF Locked
<1> QED BY <1>1, <1>2, <1>3 DEF Locked, D!sched

\* A step of a handler that takes a lock, or frees the one it has.
LEMMA LockedLock ==
  ASSUME FrameTypes, Locked, frames # <<>>, NEW e \in Frame, e.pc \in Delivered,
         Becomes(e), UNCHANGED <<isInterrupt, cur>>,
         place'[D!Idle] = place[D!Idle] \/ "pthread" \notin held,
         NEW l \in {"queue", "ready", "prq"},
         \/ /\ held' = held \cup {l}
            /\ <<l, e.pc>> \in {<<"queue", "dequeue">>, <<"queue", "enqueue">>, <<"ready", "ready">>,
                             <<"prq", "append">>}
            /\ D!Top.pc \notin {"enqueue", "dequeue", "ready", "append"}
         \/ /\ held' = held \ {l}
            /\ <<l, D!Top.pc>> \in {<<"queue", "dequeue">>, <<"queue", "enqueue">>,
                                    <<"ready", "ready">>, <<"prq", "append">>}
  PROVE  Locked'
<1>1. /\ \A pcs : e.pc \in pcs => FrameAt(pcs)'
      /\ \A pcs : FrameAt(pcs) /\ D!Top.pc \notin pcs => FrameAt(pcs)'
      /\ frames' # <<>>
  BY FrameTurned
<1>2. isInterrupt' => FrameAt(Delivered)'
  BY <1>1 DEF Locked
<1>3. /\ "queue" \in held' => FrameAt({"dequeue", "enqueue"})'
      /\ "ready" \in held' => FrameAt({"ready"})'
      /\ "prq" \in held' => FrameAt({"append"})'
  BY <1>1 DEF Locked
<1>4. /\ held' \subseteq {"queue", "ready", "prq", "pthread"}
      /\ "pthread" \in held' => cur' = D!Idle /\ place'[D!Idle] \in {"sleep", "awake"}
  BY DEF Locked
<1> QED BY <1>1, <1>2, <1>3, <1>4 DEF Locked

\* Handlers take and free locks in turn.
LEMMA LockedHandler ==
  ASSUME DiskTypes, Locked, D!HandlerStep
  PROVE  Locked'
<1>1. FrameTypes /\ frames # <<>>
  BY DEF DiskTypes, D!HandlerStep, D!Scan, D!SetInterrupt, D!SInterrupt, D!InterruptLocks,
     D!InterruptDequeues, D!HandleRead, D!HandleStore, D!Unblock, D!HandleHunt, D!NextRead, D!In
<1>2. D!Top.pc \in WithEntry => D!Top.entry[1] \in D!Readers
  BY <1>1, TopFrame
<1>3. \A x \in NoEntry \cup WithEntry :
        D!To(x) => \E e \in Frame : Becomes(e) /\ e.pc = x
  BY <1>1, Resuming
<1>4. D!Top \in Frame /\ D!Top.pc \in NoEntry \cup WithEntry
  BY <1>1, TopFrame DEF Frame
<1>5. CASE D!Scan
  <2>1. UNCHANGED <<held, isInterrupt, D!sched>> /\ D!Top.pc = "scan"
    BY <1>5 DEF D!Scan, D!In
  <2>2. CASE D!To("deliver")
    <3>1. PICK e \in Frame : Becomes(e) /\ e.pc = "deliver"
      BY <1>3, <2>2 DEF NoEntry
    <3> QED BY <1>1, <2>1, <3>1, LockedResume DEF Delivered
  <2>3. CASE frames' = D!Front(frames) /\ masked' = FALSE
    <3>1. \A pcs : FrameAt(pcs) /\ "scan" \notin pcs => FrameAt(pcs)'
      BY <1>1, <2>1, <2>3, FrameLeft
    <3>2. /\ isInterrupt' => FrameAt(Delivered)'
          /\ "queue" \in held => FrameAt({"dequeue", "enqueue"})'
          /\ "ready" \in held => FrameAt({"ready"})'
          /\ "prq" \in held => FrameAt({"append"})'
      BY <2>1, <3>1 DEF Locked, Delivered
    <3> QED BY <2>1, <2>3, <3>2 DEF Locked, D!sched
  <2> QED BY <1>5, <2>2, <2>3 DEF D!Scan
<1>6. CASE D!SetInterrupt
  <2>1. UNCHANGED <<held, D!sched>>
    BY <1>6 DEF D!SetInterrupt, D!app
  <2>2. CASE D!In("deliver") /\ D!To("isr")
    <3>1. PICK e \in Frame : Becomes(e) /\ e.pc = "isr"
      BY <1>3, <2>2 DEF NoEntry
    <3> QED BY <1>1, <2>1, <2>2, <3>1, LockedResume DEF Delivered, D!In
  <2>3. CASE D!In("end") /\ isInterrupt' = FALSE /\ D!To("scan")
    <3>1. PICK e \in Frame : Becomes(e) /\ e.pc = "scan"
      BY <1>3, <2>3 DEF NoEntry
    <3> QED BY <1>1, <2>1, <2>3, <3>1, LockedResume DEF D!In
  <2> QED BY <1>6, <2>2, <2>3 DEF D!SetInterrupt
<1>7. CASE D!SInterrupt
  <2>1. PICK e \in Frame : Becomes(e) /\ e.pc = "end"
    BY <1>3, <1>7 DEF D!SInterrupt, NoEntry
  <2>2. UNCHANGED <<held, isInterrupt, D!sched>> /\ D!Top.pc = "isr"
    BY <1>7 DEF D!SInterrupt, D!In, D!locks
  <2> QED BY <1>1, <2>1, <2>2, LockedResume DEF Delivered
<1>8. CASE D!InterruptLocks
  <2>1. PICK e \in Frame : Becomes(e) /\ e.pc = "dequeue"
    BY <1>3, <1>8 DEF D!InterruptLocks, NoEntry
  <2>2. /\ held' = held \cup {"queue"} /\ D!Top.pc = "isr"
        /\ UNCHANGED <<isInterrupt, cur, place>>
    BY <1>8 DEF D!InterruptLocks, D!Lock, D!In, D!sched
  <2> QED BY <1>1, <2>1, <2>2, LockedLock DEF Delivered
<1>9. CASE D!InterruptDequeues
  <2>1. /\ held' = held \ {"queue"} /\ D!Top.pc = "dequeue"
        /\ UNCHANGED <<isInterrupt, cur, place, client>>
    BY <1>9 DEF D!InterruptDequeues, D!Unlock, D!In, D!sched, D!fixed
  <2>2. CASE frames' = frames
    BY <1>1, <2>1, <2>2 DEF Locked, FrameAt
  <2>3. CASE queue # <<>>
    <3> DEFINE e == [D!Top EXCEPT !.pc = Head(queue).callback, !.entry = <<Head(queue).val>>]
    <3>1. Head(queue) \in Pending
      BY <2>3, Beheaded DEF DiskTypes, ReadTypes
    <3>2. e \in Frame /\ e.pc \in Delivered
      BY <1>4, <3>1 DEF Frame, Pending, Callback, WithEntry, Delivered
    <3>3. Becomes(e)
      BY <1>9, <2>3 DEF D!InterruptDequeues, Becomes, D!Top
    <3> HIDE DEF e
    <3> QED BY <1>1, <2>1, <3>2, <3>3, LockedLock
  <2> QED BY <1>9, <2>2, <2>3 DEF D!InterruptDequeues
<1>10. CASE D!HandleRead
  <2> DEFINE x == IF D!Top.pc = "read" THEN "store" ELSE "exit"
             e == [D!Top EXCEPT !.pc = x, !.reg = sum + data[D!Top.entry[1]]]
  <2>1. D!Top.pc \in {"read", "read_and_exit"} /\ Becomes(e)
    BY <1>10 DEF D!HandleRead, D!In, Becomes, D!Top
  <2>2. D!Top.pc \in WithEntry /\ client = "aRead"
    BY <1>4, <2>1 DEF NoEntry, WithEntry
  <2>3. sum + data[D!Top.entry[1]] \in Int
    BY <1>2, <2>2 DEF DiskTypes, DataTypes
  <2>4. e \in Frame /\ e.pc \in Delivered
    BY <1>4, <2>2, <2>3 DEF Frame, WithEntry, Delivered
  <2>5. UNCHANGED <<held, isInterrupt, D!sched>>
    BY <1>10 DEF D!HandleRead, D!locks
  <2> HIDE DEF e
  <2> QED BY <1>1, <2>1, <2>4, <2>5, LockedResume
<1>11. CASE D!HandleStore
  <2>1. PICK e \in Frame : Becomes(e) /\ e.pc = "end"
    BY <1>3, <1>11 DEF D!HandleStore, NoEntry
  <2>2. UNCHANGED <<held, isInterrupt, D!sched>> /\ D!Top.pc \in {"store", "exit"}
    BY <1>11 DEF D!HandleStore, D!In, D!locks
  <2> QED BY <1>1, <2>1, <2>2, LockedResume DEF Delivered
<1>12. CASE D!Unblock
  <2>1. /\ isInterrupt' = isInterrupt /\ cur' = cur
        /\ D!Top.pc \in {"unblock", "ready"}
    BY <1>12 DEF D!Unblock, D!In, D!Lock, D!Unlock
  <2>2. client = "tRead"
    BY <1>4, <2>1 DEF NoEntry, WithEntry
  <2>3. CASE D!In("unblock") /\ D!Lock("ready") /\ D!To("ready") /\ UNCHANGED <<runnable, place>>
    <3>1. PICK e \in Frame : Becomes(e) /\ e.pc = "ready"
      BY <1>3, <2>2, <2>3 DEF WithEntry
    <3>2. held' = held \cup {"ready"} /\ D!Top.pc = "unblock" /\ place' = place
      BY <2>3 DEF D!Lock, D!In
    <3> QED BY <1>1, <2>1, <3>1, <3>2, LockedLock DEF Delivered
  <2>4. CASE D!In("ready") /\ "pthread" \notin held /\ D!Unlock("ready") /\ D!To("end")
    <3>1. PICK e \in Frame : Becomes(e) /\ e.pc = "end"
      BY <1>3, <2>4 DEF NoEntry
    <3>2. held' = held \ {"ready"} /\ D!Top.pc = "ready"
      BY <2>4 DEF D!Unlock, D!In
    <3> QED BY <1>1, <2>1, <2>4, <3>1, <3>2, LockedLock DEF Delivered
  <2> QED BY <1>12, <2>3, <2>4 DEF D!Unblock
<1>13. CASE D!HandleHunt
  <2>1. /\ UNCHANGED <<held, isInterrupt, D!sched>> /\ D!Top.pc \in {"first", "other"}
        /\ D!To("next")
    BY <1>13 DEF D!HandleHunt, D!In, D!locks
  <2>2. client = "treasureHunt"
    BY <1>4, <2>1 DEF NoEntry, WithEntry
  <2>3. PICK e \in Frame : Becomes(e) /\ e.pc = "next"
    BY <1>3, <2>1, <2>2 DEF WithEntry
  <2> QED BY <1>1, <2>1, <2>3, LockedResume DEF Delivered
<1>14. CASE D!NextRead
  <2>1. /\ D!Top.pc \in {"next", "enqueue", "schedule", "append"}
        /\ UNCHANGED <<D!sched, isInterrupt>>
    BY <1>14 DEF D!NextRead, D!In, D!Lock, D!Unlock, D!locks
  <2>2. client = "treasureHunt"
    BY <1>4, <2>1 DEF NoEntry, WithEntry
  <2>3. cur' = cur /\ place' = place
    BY <2>1 DEF D!sched
  <2>4. {"next", "enqueue", "schedule", "append", "end"} \subseteq NoEntry \cup WithEntry
    BY <2>2 DEF NoEntry, WithEntry
  <2>5. CASE D!In("next") /\ D!To("end") /\ UNCHANGED D!locks
    <3>1. PICK e \in Frame : Becomes(e) /\ e.pc = "end"
      BY <1>3, <2>4, <2>5
    <3> QED BY <1>1, <2>1, <2>5, <3>1, LockedResume DEF Delivered, D!In, D!locks
  <2>6. CASE D!In("next") /\ D!Lock("queue") /\ D!To("enqueue")
    <3>1. PICK e \in Frame : Becomes(e) /\ e.pc = "enqueue"
      BY <1>3, <2>4, <2>6
    <3> QED BY <1>1, <2>1, <2>3, <2>6, <3>1, LockedLock DEF Delivered, D!In, D!Lock
  <2>7. CASE D!In("enqueue") /\ D!Unlock("queue") /\ D!To("schedule")
    <3>1. PICK e \in Frame : Becomes(e) /\ e.pc = "schedule"
      BY <1>3, <2>4, <2>7
    <3> QED BY <1>1, <2>1, <2>3, <2>7, <3>1, LockedLock DEF Delivered, D!In, D!Unlock
  <2>8. CASE D!In("schedule") /\ D!Lock("prq") /\ D!To("append")
    <3>1. PICK e \in Frame : Becomes(e) /\ e.pc = "append"
      BY <1>3, <2>4, <2>8
    <3> QED BY <1>1, <2>1, <2>3, <2>8, <3>1, LockedLock DEF Delivered, D!In, D!Lock
  <2>9. CASE D!In("append") /\ D!Unlock("prq") /\ D!To("end")
    <3>1. PICK e \in Frame : Becomes(e) /\ e.pc = "end"
      BY <1>3, <2>4, <2>9
    <3> QED BY <1>1, <2>1, <2>3, <2>9, <3>1, LockedLock DEF Delivered, D!In, D!Unlock
  <2> QED BY <1>14, <2>5, <2>6, <2>7, <2>8, <2>9 DEF D!NextRead
<1> QED BY <1>5, <1>6, <1>7, <1>8, <1>9, <1>10, <1>11, <1>12, <1>13, <1>14 DEF D!HandlerStep

LEMMA LockedStep == DiskTypes /\ Locked /\ [D!Next]_(D!vars) => Locked'
<1>1. UNCHANGED D!vars /\ Locked => Locked'
  BY DEF D!vars, D!fixed, D!locks, D!sched, Locked, FrameAt
<1> QED BY <1>1, LockedThread, LockedTick, LockedHandler DEF D!Next

LEMMA LockedAlways == D!Spec => []Locked
BY DiskTypesAlways, LockedInit, LockedStep, PTL DEF D!Spec

\* disk.c, uthread.c: when there is nothing to do but to wait for the disk, no lock is
\* taken, the signal is not blocked and isInterrupt is not set, at whatever points
\* handlers have interrupted the threads and one another.
THEOREM DiskOpen == D!Spec => []OpenToInterrupts
<1>1. DiskTypes /\ Locked => OpenToInterrupts
  <2> SUFFICES ASSUME DiskTypes, Locked, D!Quiet PROVE ~masked /\ held = {} /\ ~isInterrupt
    BY DEF OpenToInterrupts, D!OpenToInterrupts
  <2>1. frames = <<>> /\ \A pcs : ~FrameAt(pcs)
    BY NobodyThere DEF D!Quiet
  <2>2. /\ ~isInterrupt /\ held \subseteq {"pthread"}
        /\ "pthread" \in held => cur = D!Idle /\ place[D!Idle] \in {"sleep", "awake"}
        /\ masked => client = "tRead" /\ cur = D!Main /\ place[D!Main] = "next"
    BY <2>1 DEF Locked
  <2>3. D!Main # D!Idle
    BY DiskNumbers
  <2> QED BY <2>2, <2>3 DEF D!Quiet
<1> QED BY <1>1, DiskTypesAlways, LockedAlways, PTL

-----------------------------------------------------------------------------
(* The disk.  Handlers that have data, and have yet to find out for whom.   *)

\* The places of such handlers, who is there, and how many they are.
Finding == {"deliver", "isr", "dequeue"}
Delivering == {n \in DOMAIN frames : frames[n].pc \in Finding}
Served == Cardinality(Delivering)

\* They are finitely many, and none without handlers.
LEMMA ServedType == FrameTypes => IsFiniteSet(Delivering) /\ Served \in Nat
<1> SUFFICES ASSUME FrameTypes PROVE IsFiniteSet(Delivering) /\ Served \in Nat
  OBVIOUS
<1>1. Len(frames) \in Nat /\ DOMAIN frames = 1..Len(frames)
  BY LenProperties DEF FrameTypes
<1>2. IsFiniteSet(DOMAIN frames)
  BY <1>1, FS_Interval
<1> QED BY <1>2, FS_Subset, FS_CardinalityType DEF Delivering, Served

LEMMA NobodyServed == frames = <<>> => Delivering = {} /\ Served = 0
BY FS_EmptySet DEF Delivering, Served

\* The innermost handler is the only one whose place changes.
LEMMA ServedTurned ==
  ASSUME FrameTypes, frames # <<>>, NEW e \in Frame, Becomes(e)
  PROVE  /\ (D!Top.pc \in Finding <=> e.pc \in Finding) => Served' = Served
         /\ D!Top.pc \notin Finding /\ e.pc \in Finding => Served' = Served + 1
         /\ D!Top.pc \in Finding /\ e.pc \notin Finding => Served' = Served - 1 /\ Served > 0
<1> DEFINE l == Len(frames)
<1>1. /\ l \in Nat \ {0} /\ DOMAIN frames = 1..l /\ DOMAIN frames' = 1..l
      /\ frames'[l] = e /\ \A m \in 1..l : m # l => frames'[m] = frames[m]
      /\ D!Top = frames[l] /\ l \in 1..l
  <2>1. \A m \in Nat \ {0} : m \in 1..m
    OBVIOUS
  <2> QED BY <2>1, Becoming DEF D!Top
<1> HIDE DEF l
<1>2. IsFiniteSet(Delivering) /\ Cardinality(Delivering) \in Nat
  BY ServedType DEF Served
<1>3. l \in Delivering <=> D!Top.pc \in Finding
  BY <1>1 DEF Delivering
<1>4. l \in Delivering' <=> e.pc \in Finding
  BY <1>1 DEF Delivering
<1>5. \A m : m # l => (m \in Delivering' <=> m \in Delivering)
  BY <1>1 DEF Delivering
<1>6. CASE D!Top.pc \in Finding <=> e.pc \in Finding
  <2>1. Delivering' = Delivering
    BY <1>3, <1>4, <1>5, <1>6
  <2> QED BY <1>6, <2>1 DEF Served
<1>7. CASE D!Top.pc \notin Finding /\ e.pc \in Finding
  <2>1. Delivering' = Delivering \cup {l} /\ l \notin Delivering
    BY <1>3, <1>4, <1>5, <1>7
  <2>2. Cardinality(Delivering \cup {l}) = Cardinality(Delivering) + 1
    BY <1>2, <2>1, FS_AddElement
  <2> QED BY <1>7, <2>1, <2>2 DEF Served
<1>8. CASE D!Top.pc \in Finding /\ e.pc \notin Finding
  <2>1. Delivering' = Delivering \ {l} /\ l \in Delivering
    BY <1>3, <1>4, <1>5, <1>8
  <2>2. Cardinality(Delivering \ {l}) = Cardinality(Delivering) - 1
    BY <1>2, <2>1, FS_RemoveElement
  <2>3. Cardinality(Delivering) > 0
    <3>1. Cardinality(Delivering) # 0
      BY <1>2, <2>1, FS_EmptySet
    <3> QED BY <1>2, <3>1
  <2> QED BY <1>8, <2>1, <2>2, <2>3 DEF Served
<1> QED BY <1>6, <1>7, <1>8

\* A handler that comes or goes is none of them.
LEMMA ServedTick ==
  ASSUME FrameTypes
  PROVE  /\ \A e \in Frame : e.pc \notin Finding /\ frames' = Append(frames, e) =>
                                Served' = Served
         /\ frames # <<>> /\ D!Top.pc \notin Finding /\ frames' = D!Front(frames) =>
                                Served' = Served
<1>1. ASSUME NEW e \in Frame, e.pc \notin Finding, frames' = Append(frames, e)
      PROVE  Served' = Served
  <2>1. Delivering' = Delivering
    BY <1>1, Appended DEF FrameTypes, Delivering
  <2> QED BY <2>1 DEF Served
<1>2. ASSUME frames # <<>>, D!Top.pc \notin Finding, frames' = D!Front(frames)
      PROVE  Served' = Served
  <2> DEFINE l == Len(frames)
  <2>1. /\ l \in Nat \ {0} /\ DOMAIN frames = 1..l /\ DOMAIN frames' = 1..(l - 1)
        /\ \A m \in 1..(l - 1) : frames'[m] = frames[m]
        /\ D!Top = frames[l]
    BY <1>2, Popped DEF FrameTypes, D!Top
  <2> HIDE DEF l
  <2>2. Delivering' = Delivering
    BY <1>2, <2>1 DEF Delivering
  <2> QED BY <2>2 DEF Served
<1> QED BY <1>1, <1>2

-----------------------------------------------------------------------------
(* The disk.  Reads, entries of the queue and handlers stand for one        *)
(* another.                                                                 *)

\* A reader goes on from its read to its entry before another thread runs.
AtOnce == \A r \in D!Readers : place[r] = "enqueue" => cur = r

\* Who has asked for a read, of aRead's blocks and tRead's threads.
Asked == {b \in D!Readers : IF client = "aRead" THEN b < i
                              ELSE place[b] \notin {"none", "schedule"}}
\* A read whose entry is still to come, and an entry whose read is still to come.
ReadAhead == client = "tRead" /\ place[cur] = "enqueue"
EntryAhead == client = "aRead" /\ place[D!Main] = "sched"

\* Whose data have been read.
InPlace == {b \in Asked : data[b] = D!Block(b) /\ \A n \in DOMAIN prq : prq[n].buf # b}

\* Pending reads are for different buffers, each for its own block.
OwnBlocks ==
  /\ \A m, n \in DOMAIN prq : prq[m].buf = prq[n].buf => m = n
  /\ \A n \in DOMAIN prq : prq[n].block = prq[n].buf /\ prq[n].buf \in Asked

\* The first entries are for the handlers that have data for somebody, the next ones
\* for the reads that are pending, in their order; a read or an entry may be ahead.
Matched ==
  /\ Len(queue) + (IF ReadAhead THEN 1 ELSE 0) = Served + Len(prq) + (IF EntryAhead THEN 1 ELSE 0)
  /\ \A n \in DOMAIN queue : n <= Served => queue[n].val \in InPlace
  /\ \A n \in DOMAIN queue, m \in DOMAIN prq : n = Served + m => queue[n].val = prq[m].buf
  /\ ReadAhead /\ prq # <<>> => prq[Len(prq)].buf = cur
  /\ EntryAhead => queue[Len(queue)].val = i

\* Who has been taken from the queue has the data in place.
Passing == {"read", "read_and_exit", "unblock", "ready"}
Passed == \A n \in DOMAIN frames : frames[n].pc \in Passing => frames[n].entry[1] \in InPlace

Paired == client \in {"aRead", "tRead"} => OwnBlocks /\ Matched /\ Passed

\* No other thread runs between the read and the entry.
LEMMA AtOnceStep == DiskTypes /\ AtOnce /\ [D!Next]_(D!vars) => AtOnce'
<1> SUFFICES ASSUME DiskTypes, AtOnce, [D!Next]_(D!vars) PROVE AtOnce'
  OBVIOUS
<1>1. ThreadTypes
  BY DEF DiskTypes
<1>2. ASSUME NEW s \in Places \ {"enqueue"}, D!Go(s) PROVE AtOnce'
  BY <1>1, <1>2, Going, DiskNumbers DEF AtOnce, ThreadTypes
<1>3. ASSUME NEW s \in Places \ {"enqueue"}, D!Stop(s) PROVE AtOnce'
  <2>1. D!Go(s)
    BY <1>3 DEF D!Stop, D!Go
  <2> QED BY <1>2, <2>1
<1>4. CASE D!ThreadStep
  <2>1. CASE D!SRead \/ D!ASchedules \/ D!HStart \/ D!HFinish
    <3>1. D!Go("next") \/ D!Go("sched") \/ D!Go("spin") \/ UNCHANGED <<place, cur>>
      BY <2>1 DEF D!SRead, D!SPending, D!SSchedule, D!SSpun, D!ASchedules, D!HStart, D!HFinish,
                  D!sched
    <3> QED BY <1>2, <3>1 DEF Places, AtOnce
  <2>2. CASE D!TCreate
    <3>1. i \in D!Threads /\ cur' = cur /\ place' = [place EXCEPT ![i] = "schedule"]
      BY <2>2, DiskNumbers DEF D!TCreate, DiskTypes, DataTypes
    <3> QED BY <1>1, <3>1, DiskNumbers DEF AtOnce, ThreadTypes
  <2>3. CASE D!TJoin \/ D!TJoined \/ D!TExit
    <3>1. D!Go("next") \/ D!Stop("joining") \/ UNCHANGED <<place, cur>>
      BY <2>3 DEF D!TJoin, D!TJoined, D!TExit, D!sched
    <3> QED BY <1>2, <1>3, <3>1 DEF Places, AtOnce
  <2>4. ASSUME NEW r \in D!Readers, D!TSchedule(r) PROVE AtOnce'
    <3>1. D!Go("enqueue") /\ cur' = cur /\ cur = r
      BY <2>4 DEF D!TSchedule, D!On
    <3> QED BY <1>1, <3>1, Going, DiskNumbers DEF AtOnce, Places, ReaderPlaces
  <2>5. ASSUME NEW r \in D!Readers, D!TEnqueue(r) \/ D!TBlock(r) \/ D!TAdd(r) \/ D!TReturn(r)
        PROVE  AtOnce'
    <3>1. D!Go("block") \/ D!Stop("add") \/ D!Go("return") \/ D!Go("dead")
      BY <2>5 DEF D!TEnqueue, D!TBlock, D!TAdd, D!TReturn
    <3> QED BY <1>2, <1>3, <3>1 DEF Places, ReaderPlaces
  <2>6. CASE D!IdleDequeue \/ D!IdleSleep \/ D!IdleWake
    <3>1. D!Stop("dequeue") \/ D!Go("sleep") \/ D!Go("asleep") \/ D!Go("awake") \/ D!Go("dequeue")
      BY <2>6 DEF D!IdleDequeue, D!IdleSleep, D!IdleWake
    <3> QED BY <1>2, <1>3, <3>1 DEF Places, IdlePlaces
  <2> QED BY <1>4, <2>1, <2>2, <2>3, <2>4, <2>5, <2>6 DEF D!ThreadStep
<1>5. ASSUME UNCHANGED <<cur, place>> PROVE AtOnce'
  BY <1>5 DEF AtOnce
<1>6. CASE D!Unblock
  <2>1. cur' = cur /\ \A r \in D!Readers : place'[r] = place[r]
    BY <1>1, <1>6, DiskNumbers DEF D!Unblock, ThreadTypes
  <2> QED BY <2>1 DEF AtOnce
<1>7. CASE D!Time \/ D!Tick \/ D!Scan \/ D!SetInterrupt \/ D!SInterrupt \/ D!InterruptLocks
           \/ D!InterruptDequeues \/ D!HandleRead \/ D!HandleStore \/ D!HandleHunt \/ D!NextRead
           \/ UNCHANGED D!vars
  BY <1>5, <1>7 DEF D!Time, D!Tick, D!Scan, D!SetInterrupt, D!SInterrupt, D!InterruptLocks,
     D!InterruptDequeues, D!HandleRead, D!HandleStore, D!HandleHunt, D!NextRead, D!vars, D!sched
<1> QED BY <1>4, <1>6, <1>7 DEF D!Next, D!HandlerStep

\* main of tRead has yet to create the readers from i on.
Uncreated == client = "tRead" => \A r \in D!Readers : r >= i => place[r] = "none"

\* The reads and entries by their numbers.
LEMMA QueueEntries ==
  ASSUME ReadTypes
  PROVE  /\ Len(prq) \in Nat /\ DOMAIN prq = 1..Len(prq)
         /\ Len(queue) \in Nat /\ DOMAIN queue = 1..Len(queue)
         /\ \A n \in DOMAIN prq : prq[n] \in Read /\ prq[n].buf \in D!Readers
         /\ \A n \in DOMAIN queue : queue[n] \in Pending /\ queue[n].val \in D!Readers
<1>1. prq \in Seq(Read) /\ queue \in Seq(Pending)
  BY DEF ReadTypes
<1>2. \A n \in DOMAIN prq : prq[n] \in Read
  BY <1>1, ElementOfSeq, LenProperties
<1>3. \A n \in DOMAIN queue : queue[n] \in Pending
  BY <1>1, ElementOfSeq, LenProperties
<1> QED BY <1>1, <1>2, <1>3, LenProperties DEF Read, Pending

\* uthread_create is for the next reader.
LEMMA UncreatedStep == DiskTypes /\ Uncreated /\ [D!Next]_(D!vars) => Uncreated'
<1> SUFFICES ASSUME DiskTypes, Uncreated, [D!Next]_(D!vars), client = "tRead", client' = client
             PROVE  \A r \in D!Readers : r >= i' => place'[r] = "none"
  BY DEF Uncreated, D!Next, D!ThreadStep, D!SRead, D!SPending, D!SSchedule, D!SSpun, D!ASchedules,
     D!HStart, D!HFinish, D!TCreate, D!TJoin, D!TJoined, D!TExit, D!TSchedule, D!TEnqueue,
     D!TBlock, D!TAdd, D!TReturn, D!IdleDequeue, D!IdleSleep, D!IdleWake, D!Time, D!Tick,
     D!HandlerStep, D!Scan, D!SetInterrupt, D!SInterrupt, D!InterruptLocks, D!InterruptDequeues,
     D!HandleRead, D!HandleStore, D!Unblock, D!HandleHunt, D!NextRead, D!vars, D!fixed
<1>1. /\ ThreadTypes /\ i \in Nat /\ D!Readers \subseteq Nat
      /\ \A r \in D!Readers : r >= i => place[r] = "none"
  BY DiskNumbers DEF DiskTypes, DataTypes, Uncreated
<1>2. ASSUME NEW s \in Places, D!Go(s), i' \in {i, i + 1},
             cur \in D!Readers => place[cur] # "none"
      PROVE  \A r \in D!Readers : r >= i' => place'[r] = "none"
  <2>1. \A r \in D!Readers : r # cur => place'[r] = place[r]
    BY <1>1, <1>2, Going, DiskNumbers
  <2> QED BY <1>1, <1>2, <2>1
<1>3. ASSUME i' \in {i, i + 1}, \A r \in D!Readers : place'[r] = place[r]
      PROVE  \A r \in D!Readers : r >= i' => place'[r] = "none"
  BY <1>1, <1>3
<1>4. CASE D!ThreadStep
  <2>1. CASE D!SRead \/ D!ASchedules \/ D!HStart \/ D!HFinish
    BY <2>1 DEF D!SRead, D!SPending, D!SSchedule, D!SSpun, D!ASchedules, D!HStart, D!HFinish
  <2>2. CASE D!TCreate
    <3>1. i \in D!Threads /\ i' = i + 1 /\ place' = [place EXCEPT ![i] = "schedule"]
      BY <2>2, DiskNumbers DEF D!TCreate, DiskTypes, DataTypes
    <3>2. \A r \in D!Readers : r # i => place'[r] = place[r]
      BY <1>1, <3>1, DiskNumbers DEF ThreadTypes
    <3> QED BY <1>1, <3>1, <3>2
  <2>3. CASE D!TJoin \/ D!TJoined \/ D!TExit
    <3>1. /\ cur = D!Main /\ i' \in {i, i + 1}
          /\ D!Go("next") \/ D!Go("joining") \/ place' = place
      BY <2>3 DEF D!TJoin, D!TJoined, D!TExit, D!sched, D!app, D!On, D!Stop, D!Go
    <3> QED BY <1>2, <1>3, <3>1, DiskNumbers DEF Places
  <2>4. ASSUME NEW r \in D!Readers,
               D!TSchedule(r) \/ D!TEnqueue(r) \/ D!TBlock(r) \/ D!TAdd(r) \/ D!TReturn(r)
        PROVE  \A q \in D!Readers : q >= i' => place'[q] = "none"
    <3>1. D!Go("enqueue") \/ D!Go("block") \/ D!Go("add") \/ D!Go("return") \/ D!Go("dead")
      BY <2>4 DEF D!TSchedule, D!TEnqueue, D!TBlock, D!TAdd, D!TReturn, D!Stop, D!Go
    <3>2. cur = r /\ place[r] # "none" /\ i' = i
      BY <2>4 DEF D!TSchedule, D!TEnqueue, D!TBlock, D!TAdd, D!TReturn, D!On, D!app
    <3> QED BY <1>2, <3>1, <3>2 DEF Places, ReaderPlaces
  <2>5. CASE D!IdleDequeue \/ D!IdleSleep \/ D!IdleWake
    <3>1. D!Go("dequeue") \/ D!Go("sleep") \/ D!Go("asleep") \/ D!Go("awake")
      BY <2>5 DEF D!IdleDequeue, D!IdleSleep, D!IdleWake, D!Stop, D!Go
    <3>2. cur = D!Idle /\ i' = i
      BY <2>5 DEF D!IdleDequeue, D!IdleSleep, D!IdleWake, D!On, D!app
    <3> QED BY <1>2, <3>1, <3>2, DiskNumbers DEF Places, IdlePlaces
  <2> QED BY <1>4, <2>1, <2>2, <2>3, <2>4, <2>5 DEF D!ThreadStep
<1>5. CASE D!Unblock
  <2>1. i' = i /\ \A r \in D!Readers : place'[r] = place[r]
    BY <1>1, <1>5, DiskNumbers DEF D!Unblock, ThreadTypes, D!app
  <2> QED BY <1>3, <2>1
<1>6. CASE D!Time \/ D!Tick \/ D!Scan \/ D!SetInterrupt \/ D!SInterrupt \/ D!InterruptLocks
           \/ D!InterruptDequeues \/ D!HandleRead \/ D!HandleStore \/ D!HandleHunt \/ D!NextRead
           \/ UNCHANGED D!vars
  <2>1. i' = i /\ place' = place
    BY <1>6 DEF D!Time, D!Tick, D!Scan, D!SetInterrupt, D!SInterrupt, D!InterruptLocks,
       D!InterruptDequeues, D!HandleRead, D!HandleStore, D!HandleHunt, D!NextRead, D!vars, D!sched,
       D!app
  <2> QED BY <1>3, <2>1
<1> QED BY <1>4, <1>5, <1>6 DEF D!Next, D!HandlerStep

\* Time and handlers leave the threads where they are, save that they wake pthread_base.
LEMMA HandlersKeep ==
  ASSUME ThreadTypes, D!Time \/ D!Tick \/ D!HandlerStep
  PROVE  /\ UNCHANGED <<client, start, prompt, i, cur>>
         /\ \A t \in D!Threads : t # D!Idle => place'[t] = place[t]
         /\ ReadAhead' <=> ReadAhead
         /\ EntryAhead' <=> EntryAhead
         /\ Asked' = Asked
<1>1. UNCHANGED <<client, start, prompt, i, cur>>
  BY DEF D!Time, D!Tick, D!HandlerStep, D!Scan, D!SetInterrupt, D!SInterrupt, D!InterruptLocks,
     D!InterruptDequeues, D!HandleRead, D!HandleStore, D!Unblock, D!HandleHunt, D!NextRead,
     D!fixed, D!app, D!sched
<1>2. place' = place \/ place' = [place EXCEPT ![D!Idle] = IF @ = "asleep" THEN "woken" ELSE @]
  BY DEF D!Time, D!Tick, D!HandlerStep, D!Scan, D!SetInterrupt, D!SInterrupt, D!InterruptLocks,
     D!InterruptDequeues, D!HandleRead, D!HandleStore, D!Unblock, D!HandleHunt, D!NextRead,
     D!sched
<1>3. /\ \A t \in D!Threads : t # D!Idle => place'[t] = place[t]
      /\ place[D!Idle] # "enqueue" /\ place'[D!Idle] # "enqueue"
  BY <1>2, DiskNumbers DEF ThreadTypes, IdlePlaces
<1>4. ReadAhead' <=> ReadAhead
  BY <1>1, <1>3, DiskNumbers DEF ReadAhead, ThreadTypes
<1>5. EntryAhead' <=> EntryAhead
  BY <1>1, <1>3, DiskNumbers DEF EntryAhead
<1>6. Asked' = Asked
  BY <1>1, <1>3, DiskNumbers DEF Asked
<1> QED BY <1>1, <1>3, <1>4, <1>5, <1>6

\* Who is handed on stays in a set p that grows to q, when a handler takes only from q.
LEMMA PassedOn ==
  ASSUME FrameTypes, NEW p, NEW q, p \subseteq q,
         \A n \in DOMAIN frames : frames[n].pc \in Passing => frames[n].entry[1] \in p,
         \/ frames' = frames
         \/ \E e \in Frame : e.pc \notin Passing /\ frames' = Append(frames, e)
         \/ frames # <<>> /\ frames' = D!Front(frames)
         \/ frames # <<>> /\ \E e \in Frame : /\ Becomes(e)
                                              /\ e.pc \in Passing => e.entry[1] \in q
  PROVE  \A n \in DOMAIN frames' : frames'[n].pc \in Passing => frames'[n].entry[1] \in q
<1>1. \A n \in DOMAIN frames : frames[n].pc \in Passing => frames[n].entry[1] \in q
  OBVIOUS
<1>2. CASE frames' = frames
  BY <1>1, <1>2
<1>3. ASSUME NEW e \in Frame, e.pc \notin Passing, frames' = Append(frames, e)
      PROVE  \A n \in DOMAIN frames' : frames'[n].pc \in Passing => frames'[n].entry[1] \in q
  <2>1. /\ DOMAIN frames = 1..Len(frames) /\ DOMAIN frames' = 1..(Len(frames) + 1)
        /\ Len(frames) \in Nat /\ frames'[Len(frames) + 1] = e
        /\ \A m \in 1..Len(frames) : frames'[m] = frames[m]
    BY <1>3, Appended DEF FrameTypes
  <2>2. \A m \in DOMAIN frames' : m \in DOMAIN frames \/ m = Len(frames) + 1
    BY <2>1
  <2> QED BY <1>1, <1>3, <2>1, <2>2
<1>4. CASE frames # <<>> /\ frames' = D!Front(frames)
  <2> DEFINE l == Len(frames)
  <2>1. /\ DOMAIN frames = 1..l /\ DOMAIN frames' = 1..(l - 1) /\ l \in Nat
        /\ \A m \in 1..(l - 1) : frames'[m] = frames[m]
    BY <1>4, Popped DEF FrameTypes
  <2> HIDE DEF l
  <2>2. \A m \in DOMAIN frames' : m \in DOMAIN frames
    BY <2>1
  <2> QED BY <1>1, <2>1, <2>2
<1>5. ASSUME frames # <<>>, NEW e \in Frame, Becomes(e), e.pc \in Passing => e.entry[1] \in q
      PROVE  \A n \in DOMAIN frames' : frames'[n].pc \in Passing => frames'[n].entry[1] \in q
  <2> DEFINE l == Len(frames)
  <2>1. /\ DOMAIN frames = 1..l /\ DOMAIN frames' = 1..l
        /\ frames'[l] = e /\ \A m \in 1..l : m # l => frames'[m] = frames[m]
    BY <1>5, Becoming
  <2> HIDE DEF l
  <2> QED BY <1>1, <1>5, <2>1
<1> QED BY <1>2, <1>3, <1>4, <1>5

\* A handler that has just taken an entry is the only new one that passes data on.
LEMMA PassedStep ==
  ASSUME FrameTypes, Passed, InPlace \subseteq InPlace',
         \A n \in DOMAIN frames : frames[n].pc \in Passing => frames[n].entry[1] \in D!Readers,
         \/ frames' = frames
         \/ \E e \in Frame : e.pc \notin Passing /\ frames' = Append(frames, e)
         \/ frames # <<>> /\ frames' = D!Front(frames)
         \/ frames # <<>> /\ \E e \in Frame : /\ Becomes(e)
                                              /\ e.pc \in Passing => e.entry[1] \in InPlace'
  PROVE  Passed'
BY PassedOn DEF Passed

\* The frames that pass data on have taken an entry.
LEMMA PassingEntry ==
  ASSUME FrameTypes
  PROVE  /\ client \in {"aRead", "tRead"} => \A e \in Frame : e.pc \in Passing => e.pc \in WithEntry
         /\ \A n \in DOMAIN frames : /\ frames[n] \in Frame
                                     /\ frames[n].pc \in Passing => frames[n].entry[1] \in D!Readers
<1>1. \A e \in Frame : e.pc \in Passing => e.pc \in WithEntry
  BY DEF Frame, Passing, NoEntry
<1>2. frames \in Seq(Frame)
  BY DEF FrameTypes
<1>3. \A n \in DOMAIN frames : frames[n] \in Frame
  BY <1>2, ElementOfSeq, LenProperties
<1>4. ASSUME NEW n \in DOMAIN frames, frames[n].pc \in Passing
      PROVE  frames[n].entry[1] \in D!Readers
  <2>1. frames[n].entry # <<>> /\ frames[n] \in Frame
    BY <1>1, <1>3, <1>4 DEF FrameTypes
  <2>2. frames[n].entry \in {<<r>> : r \in D!Readers}
    BY <2>1 DEF Frame
  <2> QED BY <2>2
<1> QED BY <1>1, <1>3, <1>4

\* A step that leaves the reads, the entries and the buffers alone.
LEMMA PairedQuiet ==
  ASSUME DiskTypes, Paired, UNCHANGED <<client, prq, queue, data>>, Served' = Served,
         ReadAhead' <=> ReadAhead, EntryAhead' <=> EntryAhead,
         cur' = cur \/ ~ReadAhead, i' = i \/ ~EntryAhead,
         Asked \subseteq Asked',
         \/ frames' = frames
         \/ \E e \in Frame : e.pc \notin Passing /\ frames' = Append(frames, e)
         \/ frames # <<>> /\ frames' = D!Front(frames)
         \/ frames # <<>> /\ \E e \in Frame : /\ Becomes(e)
                                              /\ e.pc \in Passing => e.entry[1] \in InPlace'
  PROVE  Paired'
<1>1. SUFFICES ASSUME client \in {"aRead", "tRead"} PROVE (OwnBlocks /\ Matched /\ Passed)'
  BY DEF Paired
<1>2. OwnBlocks /\ Matched /\ Passed
  BY <1>1 DEF Paired
<1>3. OwnBlocks'
  BY <1>2, QueueEntries DEF DiskTypes, OwnBlocks
<1>4. InPlace \subseteq InPlace'
  BY DEF InPlace, D!Block
<1>5. Matched'
  BY <1>2, <1>4, QueueEntries DEF Matched, DiskTypes
<1>6. Passed'
  BY <1>2, <1>4, PassedStep, PassingEntry DEF DiskTypes
<1> QED BY <1>3, <1>5, <1>6

\* A read is scheduled for b, whose turn it is.
LEMMA PairedSchedule ==
  ASSUME DiskTypes, Paired, client \in {"aRead", "tRead"}, UNCHANGED <<client, queue, data>>,
         frames = <<>>, frames' = <<>>,
         NEW b \in D!Readers, D!Schedule(b, b), b \notin Asked, b \in Asked', EntryAhead => b = i,
         Asked \subseteq Asked',
         ~EntryAhead', ~ReadAhead, ReadAhead' <=> ~EntryAhead, ReadAhead' => cur' = b
  PROVE  Paired'
<1>1. OwnBlocks /\ Matched /\ Passed
  BY DEF Paired
<1> DEFINE l == Len(prq)
           k1 == Len(queue)
<1>2. /\ l \in Nat /\ Len(prq') = l + 1
      /\ DOMAIN prq = 1..l /\ DOMAIN prq' = 1..(l + 1)
      /\ prq'[l + 1] = [buf |-> b, block |-> b]
      /\ \A n \in 1..l : prq'[n] = prq[n]
  <2>1. ReadTypes /\ b \in Int
    BY DiskNumbers DEF DiskTypes
  <2> QED BY <2>1, Scheduling
<1>3. k1 \in Nat /\ DOMAIN queue = 1..k1 /\ \A n \in DOMAIN queue : queue[n].val \in D!Readers
  BY QueueEntries DEF DiskTypes
<1>4. \A n \in 1..l : prq[n].buf \in D!Readers
  BY <1>2, QueueEntries DEF DiskTypes
<1>5. Served = 0 /\ Served' = 0
  BY NobodyServed, FS_EmptySet DEF Delivering, Served
<1>6. \A n \in 1..l : prq[n].block = prq[n].buf /\ prq[n].buf \in Asked
  BY <1>1, <1>2 DEF OwnBlocks
<1> HIDE DEF l, k1
<1>7. OwnBlocks'
  <2>1. \A n \in 1..(l + 1) : n = l + 1 \/ n \in 1..l
    BY <1>2
  <2>2. \A m, n \in 1..(l + 1) : prq'[m].buf = prq'[n].buf => m = n
    <3>1. \A n \in 1..l : prq'[n].buf # b
      BY <1>2, <1>6
    <3> QED BY <1>1, <1>2, <2>1, <3>1 DEF OwnBlocks
  <2>3. \A n \in 1..(l + 1) : prq'[n].block = prq'[n].buf /\ prq'[n].buf \in Asked'
    BY <1>2, <1>4, <1>6, <2>1
  <2> QED BY <1>2, <2>2, <2>3 DEF OwnBlocks
<1>8. Passed'
  BY DEF Passed
<1>9. Matched'
  <2>1. k1 + 0 = 0 + l + (IF EntryAhead THEN 1 ELSE 0)
    BY <1>1, <1>5 DEF Matched, l, k1
  <2>2. k1 + (IF ReadAhead' THEN 1 ELSE 0) = Served' + Len(prq') + (IF EntryAhead' THEN 1 ELSE 0)
    BY <1>2, <1>3, <1>5, <2>1
  <2>3. \A n \in DOMAIN queue', m \in DOMAIN prq' : n = Served' + m => queue'[n].val = prq'[m].buf
    <3> SUFFICES ASSUME NEW n \in 1..k1, n \in 1..(l + 1) PROVE queue[n].val = prq'[n].buf
      BY <1>2, <1>3, <1>5
    <3>1. CASE n \in 1..l
      BY <1>1, <1>2, <1>3, <1>5, <3>1 DEF Matched
    <3>2. CASE n = l + 1
      <4>1. EntryAhead /\ n = k1 /\ b = i
        BY <1>2, <1>3, <2>1, <3>2
      <4> QED BY <1>1, <1>2, <3>2, <4>1 DEF Matched, k1
    <3> QED BY <1>2, <3>1, <3>2
  <2>4. \A n \in DOMAIN queue' : n <= Served' => queue'[n].val \in InPlace'
    BY <1>3, <1>5
  <2>5. ReadAhead' => prq'[Len(prq')].buf = cur'
    BY <1>2
  <2> QED BY <2>2, <2>3, <2>4, <2>5 DEF Matched, k1
<1> QED BY <1>7, <1>8, <1>9 DEF Paired

\* An entry is queued for b, whose turn it is.
LEMMA PairedQueue ==
  ASSUME DiskTypes, Paired, client \in {"aRead", "tRead"}, UNCHANGED <<client, prq, data>>,
         frames = <<>>, frames' = <<>>,
         NEW b \in D!Readers, NEW c \in Callback, D!Queue(b, c), ReadAhead => b = cur,
         Asked \subseteq Asked',
         ~ReadAhead', ~EntryAhead, EntryAhead' <=> ~ReadAhead, EntryAhead' => i' = b
  PROVE  Paired'
<1>1. OwnBlocks /\ Matched /\ Passed
  BY DEF Paired
<1> DEFINE l == Len(prq)
           k1 == Len(queue)
<1>2. /\ k1 \in Nat /\ Len(queue') = k1 + 1
      /\ DOMAIN queue = 1..k1 /\ DOMAIN queue' = 1..(k1 + 1)
      /\ queue'[k1 + 1] = [val |-> b, callback |-> c]
      /\ \A n \in 1..k1 : queue'[n] = queue[n]
  BY Queueing, DiskNumbers DEF DiskTypes
<1>3. l \in Nat /\ DOMAIN prq = 1..l /\ \A n \in DOMAIN prq : prq[n].buf \in D!Readers
  BY QueueEntries DEF DiskTypes
<1>4. Served = 0 /\ Served' = 0
  BY NobodyServed, FS_EmptySet DEF Delivering, Served
<1>5. OwnBlocks'
  BY <1>1, <1>3 DEF OwnBlocks
<1>6. Passed'
  BY DEF Passed
<1> HIDE DEF l, k1
<1>7. Matched'
  <2>1. k1 + (IF ReadAhead THEN 1 ELSE 0) = 0 + l + 0
    BY <1>1, <1>4 DEF Matched, l, k1
  <2>2. Len(queue') + (IF ReadAhead' THEN 1 ELSE 0)
          = Served' + l + (IF EntryAhead' THEN 1 ELSE 0)
    BY <1>2, <1>3, <1>4, <2>1
  <2>3. \A n \in DOMAIN queue', m \in DOMAIN prq' : n = Served' + m => queue'[n].val = prq'[m].buf
    <3> SUFFICES ASSUME NEW n \in 1..(k1 + 1), n \in 1..l PROVE queue'[n].val = prq[n].buf
      BY <1>2, <1>3, <1>4
    <3>1. CASE n \in 1..k1
      BY <1>1, <1>2, <1>3, <1>4, <3>1 DEF Matched
    <3>2. CASE n = k1 + 1
      <4>1. ReadAhead /\ n = l /\ b = cur
        BY <1>2, <1>3, <2>1, <3>2
      <4>2. prq # <<>>
        BY <1>3, <4>1, EmptySeq DEF l
      <4> QED BY <1>1, <1>2, <3>2, <4>1, <4>2 DEF Matched, l
    <3> QED BY <1>2, <3>1, <3>2
  <2>4. \A n \in DOMAIN queue' : n <= Served' => queue'[n].val \in InPlace'
    BY <1>2, <1>4
  <2>5. EntryAhead' => queue'[Len(queue')].val = i'
    BY <1>2
  <2> QED BY <2>2, <2>3, <2>4, <2>5 DEF Matched, l
<1> QED BY <1>5, <1>6, <1>7 DEF Paired

\* The data of the oldest read are put in place and its interrupt is delivered.
LEMMA PairedScan ==
  ASSUME DiskTypes, Paired, client \in {"aRead", "tRead"}, UNCHANGED <<client, queue, cur, i>>,
         due > 0, prq' = Tail(prq),
         data' = [data EXCEPT ![Head(prq).buf] = D!Block(Head(prq).block)],
         frames # <<>>, D!Top.pc \notin Finding,
         NEW e \in Frame, e.pc \in Finding, Becomes(e),
         Asked' = Asked, ReadAhead' <=> ReadAhead, EntryAhead' <=> EntryAhead
  PROVE  Paired'
<1>1. OwnBlocks /\ Matched /\ Passed
  BY DEF Paired
<1> DEFINE l == Len(prq)
           k1 == Len(queue)
           b == prq[1].buf
<1>2. prq # <<>> /\ prq \in Seq(Read)
  BY EmptySeq DEF DiskTypes, ReadTypes
<1>3. /\ Head(prq) = prq[1]
      /\ l \in Nat \ {0} /\ Len(prq') = l - 1
      /\ DOMAIN prq = 1..l /\ DOMAIN prq' = 1..(l - 1)
      /\ \A n \in 1..(l - 1) : prq'[n] = prq[n + 1]
  BY <1>2, Beheaded
<1>4. k1 \in Nat /\ DOMAIN queue = 1..k1 /\ \A n \in DOMAIN queue : queue[n].val \in D!Readers
  BY QueueEntries DEF DiskTypes
<1>5. \A n \in 1..l : prq[n].buf \in D!Readers
  BY <1>3, QueueEntries DEF DiskTypes
<1>6. Served \in Nat /\ Served' = Served + 1
  BY ServedType, ServedTurned DEF DiskTypes
<1>7. /\ \A m, n \in 1..l : prq[m].buf = prq[n].buf => m = n
      /\ \A n \in 1..l : prq[n].block = prq[n].buf /\ prq[n].buf \in Asked
  BY <1>1, <1>3 DEF OwnBlocks
<1>8. 1 \in 1..l /\ \A n \in 1..(l - 1) : n \in 1..l /\ n + 1 \in 1..l /\ n + 1 # 1
  BY <1>3
<1>9. b \in Asked /\ b \in D!Readers /\ data' = [data EXCEPT ![b] = D!Block(b)]
  BY <1>3, <1>5, <1>7, <1>8
<1> HIDE DEF l, k1
<1>10. OwnBlocks'
  BY <1>3, <1>7, <1>8 DEF OwnBlocks
<1>11. b \in InPlace'
  <2>1. data'[b] = D!Block(b)
    BY <1>9 DEF DiskTypes, DataTypes
  <2>2. \A n \in 1..(l - 1) : prq'[n].buf # b
    BY <1>3, <1>7, <1>8
  <2> QED BY <1>3, <1>9, <2>1, <2>2 DEF InPlace
<1>12. InPlace \subseteq InPlace'
  <2> SUFFICES ASSUME NEW c \in InPlace PROVE c \in InPlace'
    OBVIOUS
  <2>1. c \in Asked /\ c \in D!Readers /\ data[c] = D!Block(c)
        /\ \A n \in 1..l : prq[n].buf # c
    BY <1>3 DEF InPlace, Asked
  <2>2. data'[c] = D!Block(c)
    BY <1>9, <2>1 DEF DiskTypes, DataTypes
  <2>3. \A n \in 1..(l - 1) : prq'[n].buf # c
    BY <1>3, <1>8, <2>1
  <2> QED BY <1>3, <2>1, <2>2, <2>3 DEF InPlace
<1>13. Passed'
  <2>1. e.pc \notin Passing
    BY DEF Finding, Passing
  <2>2. FrameTypes
    BY DEF DiskTypes
  <2> QED BY <1>1, <1>12, <2>1, <2>2, PassedStep, PassingEntry
<1>14. Matched'
  <2>1. k1 + (IF ReadAhead THEN 1 ELSE 0) = Served + l + (IF EntryAhead THEN 1 ELSE 0)
    BY <1>1 DEF Matched, l, k1
  <2>2. Len(queue') + (IF ReadAhead' THEN 1 ELSE 0)
          = Served' + Len(prq') + (IF EntryAhead' THEN 1 ELSE 0)
    <3>1. Len(queue') = k1
      BY DEF k1
    <3>2. l \in Nat /\ Len(prq') = l - 1
      BY <1>3
    <3>3. Served' + Len(prq') = Served + l
      <4>1. \A a, c \in Nat : (a + 1) + (c - 1) = a + c
        OBVIOUS
      <4> QED BY <1>6, <3>2, <4>1
    <3> QED BY <1>4, <1>6, <2>1, <3>1, <3>3
  <2>3. \A n \in DOMAIN queue', m \in DOMAIN prq' : n = Served' + m => queue'[n].val = prq'[m].buf
    <3> SUFFICES ASSUME NEW n \in 1..k1, NEW m \in 1..(l - 1), n = Served + 1 + m
                 PROVE queue[n].val = prq'[m].buf
      BY <1>3, <1>4, <1>6
    <3>1. m + 1 \in 1..l /\ n = Served + (m + 1)
      BY <1>6, <1>8
    <3> QED BY <1>1, <1>3, <1>4, <3>1 DEF Matched
  <2>4. \A n \in DOMAIN queue' : n <= Served' => queue'[n].val \in InPlace'
    <3> SUFFICES ASSUME NEW n \in 1..k1, n <= Served + 1 PROVE queue[n].val \in InPlace'
      BY <1>4, <1>6
    <3>1. CASE n <= Served
      BY <1>1, <1>4, <1>12, <3>1 DEF Matched
    <3>2. CASE n = Served + 1
      BY <1>1, <1>3, <1>4, <1>8, <1>11, <3>2 DEF Matched
    <3> QED BY <1>4, <1>6, <3>1, <3>2
  <2>5. ReadAhead' /\ prq' # <<>> => prq'[Len(prq')].buf = cur'
    <3> SUFFICES ASSUME ReadAhead, prq' # <<>> PROVE prq'[l - 1].buf = cur
      BY <1>3
    <3>1. prq[l].buf = cur
      BY <1>1, <1>2 DEF Matched, l
    <3>2. l - 1 # 0
      <4>1. prq' \in Seq(Read)
        BY <1>2, Beheaded
      <4> QED BY <1>3, <4>1, EmptySeq
    <3>3. l - 1 \in 1..(l - 1) /\ (l - 1) + 1 = l
      BY <1>3, <3>2
    <3> QED BY <1>3, <3>1, <3>3
  <2>6. EntryAhead' => queue'[Len(queue')].val = i'
    BY <1>1 DEF Matched
  <2> QED BY <2>2, <2>3, <2>4, <2>5, <2>6 DEF Matched
<1> QED BY <1>10, <1>13, <1>14 DEF Paired

\* The first entry is taken, by whichever handler comes first.
LEMMA PairedDequeue ==
  ASSUME DiskTypes, Paired, client \in {"aRead", "tRead"}, UNCHANGED <<client, prq, data, cur, i>>,
         queue # <<>>, queue' = Tail(queue),
         frames # <<>>, D!Top.pc \in Finding,
         NEW e \in Frame, e.pc \notin Finding, e.entry = <<Head(queue).val>>, Becomes(e),
         Asked' = Asked, ReadAhead' <=> ReadAhead, EntryAhead' <=> EntryAhead
  PROVE  Paired'
<1>1. OwnBlocks /\ Matched /\ Passed
  BY DEF Paired
<1> DEFINE l == Len(prq)
           k1 == Len(queue)
<1>2. queue \in Seq(Pending)
  BY DEF DiskTypes, ReadTypes
<1>3. /\ Head(queue) = queue[1]
      /\ k1 \in Nat \ {0} /\ Len(queue') = k1 - 1
      /\ DOMAIN queue = 1..k1 /\ DOMAIN queue' = 1..(k1 - 1)
      /\ \A n \in 1..(k1 - 1) : queue'[n] = queue[n + 1]
  BY <1>2, Beheaded
<1>4. l \in Nat /\ DOMAIN prq = 1..l /\ \A n \in DOMAIN prq : prq[n].buf \in D!Readers
  BY QueueEntries DEF DiskTypes
<1>5. Served \in Nat /\ Served > 0 /\ Served' = Served - 1
  BY ServedType, ServedTurned DEF DiskTypes
<1>6. InPlace' = InPlace
  BY DEF InPlace
<1>7. OwnBlocks'
  BY <1>1 DEF OwnBlocks
<1> HIDE DEF l, k1
<1>8. 1 \in 1..k1 /\ \A n \in 1..(k1 - 1) : n + 1 \in 1..k1
  BY <1>3
<1>9. Passed'
  <2>1. queue[1].val \in InPlace
    BY <1>1, <1>3, <1>5, <1>8 DEF Matched
  <2>2. e.entry[1] \in InPlace'
    BY <1>3, <1>6, <2>1
  <2>3. FrameTypes
    BY DEF DiskTypes
  <2> QED BY <1>1, <1>6, <2>2, <2>3, PassedStep, PassingEntry
<1>10. Matched'
  <2>1. k1 + (IF ReadAhead THEN 1 ELSE 0) = Served + l + (IF EntryAhead THEN 1 ELSE 0)
    BY <1>1 DEF Matched, l, k1
  <2>2. Len(queue') + (IF ReadAhead' THEN 1 ELSE 0)
          = Served' + l + (IF EntryAhead' THEN 1 ELSE 0)
    BY <1>3, <1>4, <1>5, <2>1
  <2>3. \A n \in DOMAIN queue', m \in DOMAIN prq' : n = Served' + m => queue'[n].val = prq'[m].buf
    <3> SUFFICES ASSUME NEW n \in 1..(k1 - 1), NEW m \in 1..l, n = Served - 1 + m
                 PROVE queue'[n].val = prq[m].buf
      BY <1>3, <1>4, <1>5
    <3>1. n + 1 \in 1..k1 /\ n + 1 = Served + m
      BY <1>5, <1>8
    <3> QED BY <1>1, <1>3, <1>4, <3>1 DEF Matched
  <2>4. \A n \in DOMAIN queue' : n <= Served' => queue'[n].val \in InPlace'
    <3> SUFFICES ASSUME NEW n \in 1..(k1 - 1), n <= Served - 1 PROVE queue'[n].val \in InPlace
      BY <1>3, <1>5, <1>6
    <3>1. n + 1 \in 1..k1 /\ n + 1 <= Served
      BY <1>5, <1>8
    <3> QED BY <1>1, <1>3, <3>1 DEF Matched
  <2>5. ReadAhead' /\ prq' # <<>> => prq'[Len(prq')].buf = cur'
    BY <1>1 DEF Matched
  <2>6. EntryAhead' => queue'[Len(queue')].val = i'
    <3> SUFFICES ASSUME EntryAhead PROVE queue'[k1 - 1].val = i
      BY <1>3
    <3>1. queue[k1].val = i
      BY <1>1 DEF Matched, k1
    <3>2. k1 > 1
      <4>1. ~ReadAhead
        BY DEF ReadAhead, EntryAhead
      <4> QED BY <1>3, <1>4, <1>5, <2>1, <4>1
    <3>3. k1 - 1 \in 1..(k1 - 1) /\ (k1 - 1) + 1 = k1
      BY <1>3, <3>2
    <3> QED BY <1>3, <3>1, <3>3
  <2> QED BY <2>2, <2>3, <2>4, <2>5, <2>6 DEF Matched, l
<1> QED BY <1>7, <1>9, <1>10 DEF Paired

\* The steps of threads keep the pairing.
LEMMA PairedThread ==
  ASSUME DiskTypes, Paired, AtOnce, Uncreated, D!ThreadStep, DiskTypes', AtOnce'
  PROVE  Paired'
<1>1. /\ frames = <<>> /\ frames' = <<>> /\ UNCHANGED <<client, data>>
      /\ ThreadTypes /\ ThreadTypes'
  BY ThreadsLeave DEF DiskTypes
<1>2. Served' = Served
  BY <1>1, NobodyServed, FS_EmptySet DEF Delivering, Served
<1>3. SUFFICES ASSUME client \in {"aRead", "tRead"} PROVE Paired'
  BY <1>1 DEF Paired
<1>4. CASE D!ASchedules
  <2>1. /\ client = "aRead" /\ i < NumBlocks /\ i \in D!Readers /\ cur = D!Main /\ cur' = cur
        /\ ~ReadAhead /\ ~ReadAhead'
    <3>1. client = "aRead" /\ i < NumBlocks /\ cur = D!Main /\ cur' = cur
      BY <1>4 DEF D!ASchedules, D!On
    <3> QED BY <1>1, <3>1, DiskNumbers DEF DiskTypes, DataTypes, ReadAhead
  <2>2. CASE /\ D!On(D!Main, "next")
             /\ D!Queue(i, IF i = NumBlocks - 1 THEN "read_and_exit" ELSE "read")
             /\ D!Go("sched") /\ UNCHANGED <<D!disk, i>>
    <3> DEFINE c == IF i = NumBlocks - 1 THEN "read_and_exit" ELSE "read"
    <3>1. c \in Callback /\ D!Queue(i, c) /\ prq' = prq /\ i' = i
      BY <2>1, <2>2 DEF Callback, D!disk
    <3>2. place[D!Main] = "next" /\ place'[D!Main] = "sched"
      BY <1>1, <2>1, <2>2, Going DEF D!On, Places
    <3>3. ~EntryAhead /\ EntryAhead' /\ Asked' = Asked
      BY <1>1, <2>1, <3>1, <3>2 DEF EntryAhead, Asked
    <3> HIDE DEF c
    <3> QED BY <1>1, <1>3, <2>1, <3>1, <3>3, PairedQueue
  <2>3. CASE D!On(D!Main, "sched") /\ D!Schedule(i, i) /\ D!Go("next") /\ i' = i + 1 /\ queue' = queue
    <3>1. place[D!Main] = "sched" /\ place'[D!Main] = "next"
      BY <1>1, <2>1, <2>3, Going DEF D!On, Places
    <3>2. EntryAhead /\ ~EntryAhead' /\ i \notin Asked /\ i \in Asked' /\ Asked \subseteq Asked'
      BY <1>1, <2>1, <2>3, <3>1, DiskNumbers DEF EntryAhead, Asked
    <3> QED BY <1>1, <1>3, <2>1, <2>3, <3>2, PairedSchedule
  <2> QED BY <1>4, <2>2, <2>3 DEF D!ASchedules
<1>5. ASSUME client = "tRead", UNCHANGED <<prq, queue>>, place[cur] # "enqueue",
             \A r \in D!Readers : r \in Asked => place'[r] = place[r] \/ r = cur,
             \A r \in D!Readers : place'[r] # "enqueue",
             cur \in D!Readers => place'[cur] \notin {"none", "schedule"}
      PROVE  Paired'
  <2>1. ~ReadAhead /\ ~ReadAhead'
    BY <1>1, <1>5, DiskNumbers DEF ReadAhead, ThreadTypes, IdlePlaces
  <2>2. ~EntryAhead /\ ~EntryAhead'
    BY <1>1, <1>5 DEF EntryAhead
  <2>3. Asked \subseteq Asked'
    BY <1>1, <1>5 DEF Asked
  <2> QED BY <1>1, <1>2, <1>5, <2>1, <2>2, <2>3, PairedQuiet
<1>6. place[cur] # "enqueue" => \A r \in D!Readers : place[r] # "enqueue"
  BY DEF AtOnce
<1>7. ASSUME NEW s \in Places \ {"enqueue"}, D!Go(s), place[cur] # "enqueue", client = "tRead",
             UNCHANGED <<prq, queue>>, cur \in D!Readers => s \notin {"none", "schedule"}
      PROVE  Paired'
  <2>1. /\ place'[cur] = s /\ \A t \in D!Threads : t # cur => place'[t] = place[t]
    BY <1>1, <1>7, Going
  <2>2. \A r \in D!Readers : place'[r] # "enqueue"
    BY <1>6, <1>7, <2>1, DiskNumbers
  <2> QED BY <1>5, <1>7, <2>1, <2>2, DiskNumbers
<1>8. CASE D!TCreate
  <2>1. /\ client = "tRead" /\ place' = [place EXCEPT ![i] = "schedule"]
        /\ i \in D!Readers /\ cur = D!Main /\ place[cur] = "next" /\ UNCHANGED <<prq, queue>>
    BY <1>8, DiskNumbers DEF D!TCreate, D!On, DiskTypes, DataTypes, D!disk
  <2>2. place[i] = "none"
    BY <2>1, DiskNumbers DEF Uncreated
  <2>3. \A r \in D!Readers : place'[r] # "enqueue" /\ (r \in Asked => place'[r] = place[r])
    BY <1>1, <1>6, <2>1, <2>2, DiskNumbers DEF ThreadTypes, Asked
  <2> QED BY <1>5, <2>1, <2>3, DiskNumbers
<1>9. CASE D!TJoin \/ D!TJoined \/ D!TExit
  <2>1. /\ client = "tRead" /\ cur = D!Main /\ place[cur] \in {"next", "joining"}
        /\ UNCHANGED <<prq, queue>>
        /\ D!Go("joining") \/ D!Go("next") \/ place' = place
    BY <1>1, <1>9 DEF D!TJoin, D!TJoined, D!TExit, D!Stop, D!Go, D!On, D!sched, D!disk
  <2>2. CASE place' = place
    BY <1>5, <1>6, <2>1, <2>2, DiskNumbers
  <2>3. CASE D!Go("joining") \/ D!Go("next")
    BY <1>7, <2>1, <2>3, DiskNumbers DEF Places
  <2> QED BY <2>1, <2>2, <2>3
<1>10. ASSUME NEW r \in D!Readers, D!TSchedule(r) PROVE Paired'
  <2>1. /\ cur = r /\ place[r] = "schedule" /\ D!Schedule(r, r) /\ D!Go("enqueue")
        /\ UNCHANGED <<queue, cur>>
    BY <1>10 DEF D!TSchedule, D!On
  <2>2. client = "tRead"
    BY <1>1, <1>3, <2>1, DiskNumbers DEF ThreadTypes
  <2>3. /\ place'[r] = "enqueue" /\ \A t \in D!Threads : t # r => place'[t] = place[t]
    BY <1>1, <2>1, Going DEF Places, ReaderPlaces
  <2>4. r \notin Asked /\ r \in Asked' /\ Asked \subseteq Asked'
    BY <1>1, <2>1, <2>2, <2>3, DiskNumbers DEF Asked
  <2>5. ~ReadAhead /\ ReadAhead' /\ ~EntryAhead /\ ~EntryAhead'
    BY <1>1, <2>1, <2>2, <2>3 DEF ReadAhead, EntryAhead
  <2> QED BY <1>1, <1>3, <2>1, <2>4, <2>5, PairedSchedule
<1>11. ASSUME NEW r \in D!Readers, D!TEnqueue(r) PROVE Paired'
  <2>1. /\ cur = r /\ place[r] = "enqueue" /\ D!Queue(r, "unblock") /\ D!Go("block")
        /\ UNCHANGED <<prq, cur>>
    BY <1>11 DEF D!TEnqueue, D!On, D!disk
  <2>2. client = "tRead"
    BY <1>1, <1>3, <2>1, DiskNumbers DEF ThreadTypes
  <2>3. /\ place'[r] = "block" /\ \A t \in D!Threads : t # r => place'[t] = place[t]
    BY <1>1, <2>1, Going DEF Places, ReaderPlaces
  <2>4. Asked \subseteq Asked'
    BY <1>1, <2>1, <2>2, <2>3, DiskNumbers DEF Asked
  <2>5. ReadAhead /\ ~ReadAhead' /\ ~EntryAhead /\ ~EntryAhead' /\ "unblock" \in Callback
    BY <1>1, <2>1, <2>2, <2>3 DEF ReadAhead, EntryAhead, Callback
  <2> QED BY <1>1, <1>3, <2>1, <2>4, <2>5, PairedQueue
<1>12. ASSUME NEW r \in D!Readers, D!TBlock(r) \/ D!TAdd(r) \/ D!TReturn(r) PROVE Paired'
  <2>1. /\ cur = r /\ place[r] \in {"block", "add", "return"} /\ UNCHANGED <<prq, queue>>
        /\ D!Go("add") \/ D!Go("return") \/ D!Go("dead")
    BY <1>12 DEF D!TBlock, D!TAdd, D!TReturn, D!On, D!Stop, D!Go, D!disk
  <2>2. client = "tRead"
    BY <1>1, <1>3, <2>1, DiskNumbers DEF ThreadTypes
  <2> QED BY <1>7, <2>1, <2>2 DEF Places, ReaderPlaces
<1>13. CASE D!IdleDequeue \/ D!IdleSleep \/ D!IdleWake
  <2>1. /\ cur = D!Idle /\ place[cur] # "enqueue" /\ UNCHANGED <<prq, queue>>
        /\ D!Go("dequeue") \/ D!Go("sleep") \/ D!Go("asleep") \/ D!Go("awake")
    BY <1>13 DEF D!IdleDequeue, D!IdleSleep, D!IdleWake, D!On, D!Stop, D!Go, D!disk
  <2>2. client = "tRead"
    BY <1>1, <1>3, <2>1, DiskNumbers DEF ThreadTypes
  <2> QED BY <1>7, <2>1, <2>2, DiskNumbers DEF Places, IdlePlaces
<1>14. ~D!SRead /\ ~D!HStart /\ ~D!HFinish
  BY <1>3 DEF D!SRead, D!SPending, D!SSchedule, D!SSpun, D!HStart, D!HFinish
<1> QED BY <1>4, <1>8, <1>9, <1>10, <1>11, <1>12, <1>13, <1>14 DEF D!ThreadStep

\* The steps of handlers keep the pairing.
LEMMA PairedHandler ==
  ASSUME DiskTypes, Paired, D!Time \/ D!Tick \/ D!HandlerStep
  PROVE  Paired'
<1>1. ThreadTypes /\ FrameTypes
  BY DEF DiskTypes
<1>2. /\ UNCHANGED <<client, i, cur>> /\ Asked' = Asked
      /\ (ReadAhead' <=> ReadAhead) /\ (EntryAhead' <=> EntryAhead)
  BY <1>1, HandlersKeep
<1>3. SUFFICES ASSUME client \in {"aRead", "tRead"} PROVE Paired'
  BY <1>2 DEF Paired
<1>4. ASSUME UNCHANGED <<prq, queue, data>>, frames # <<>>, NEW e \in Frame, Becomes(e),
             D!Top.pc \in Finding <=> e.pc \in Finding,
             e.pc \in Passing => D!Top.pc \in Passing /\ e.entry = D!Top.entry
      PROVE  Paired'
  <2>1. Served' = Served
    BY <1>1, <1>4, ServedTurned
  <2>2. InPlace' = InPlace
    BY <1>2, <1>4 DEF InPlace
  <2>3. Passed
    BY <1>3 DEF Paired
  <2>4. D!Top = frames[Len(frames)] /\ Len(frames) \in DOMAIN frames
    BY <1>1, <1>4, TopFrame
  <2>5. e.pc \in Passing => e.entry[1] \in InPlace'
    BY <1>4, <2>2, <2>3, <2>4 DEF Passed
  <2> QED BY <1>2, <1>4, <2>1, <2>5, PairedQuiet
<1>5. CASE D!Time
  <2>1. UNCHANGED <<prq, queue, data, frames>>
    BY <1>5 DEF D!Time, D!app
  <2>2. Served' = Served
    BY <2>1 DEF Served, Delivering
  <2> QED BY <1>2, <2>1, <2>2, PairedQuiet
<1>6. CASE D!Tick
  <2> DEFINE e == [pc |-> "scan", entry |-> <<>>, reg |-> 0]
  <2>1. frames' = Append(frames, e) /\ UNCHANGED <<prq, queue, data>>
    BY <1>6 DEF D!Tick, D!disk, D!app
  <2>2. e \in Frame /\ e.pc \notin Passing /\ e.pc \notin Finding
    BY DEF Frame, NoEntry, Passing, Finding
  <2> HIDE DEF e
  <2>3. Served' = Served
    BY <1>1, <2>1, <2>2, ServedTick
  <2> QED BY <1>2, <2>1, <2>2, <2>3, PairedQuiet
<1>7. ASSUME D!HandlerStep PROVE frames # <<>>
  BY <1>7 DEF D!HandlerStep, D!Scan, D!SetInterrupt, D!SInterrupt, D!InterruptLocks,
     D!InterruptDequeues, D!HandleRead, D!HandleStore, D!Unblock, D!HandleHunt, D!NextRead, D!In
<1>8. frames # <<>> => D!Top \in Frame /\ D!Top.pc \in NoEntry \cup WithEntry
  BY <1>1, TopFrame DEF Frame
<1>9. \A x \in NoEntry \cup WithEntry :
        frames # <<>> /\ D!To(x) =>
          \E e \in Frame : Becomes(e) /\ e.pc = x /\ e.entry = D!Top.entry
  BY <1>1, Resuming
<1>10. ASSUME frames # <<>>, UNCHANGED <<prq, queue, data>>,
              NEW x \in NoEntry \cup WithEntry, D!To(x),
              D!Top.pc \in Finding <=> x \in Finding, x \in Passing => D!Top.pc \in Passing
       PROVE  Paired'
  BY <1>4, <1>9, <1>10
<1>11. CASE D!Scan
  <2>1. frames # <<>> /\ queue' = queue /\ D!Top.pc = "scan"
    BY <1>11 DEF D!Scan, D!In
  <2>2. CASE due > 0
    <3>1. /\ data' = [data EXCEPT ![Head(prq).buf] = D!Block(Head(prq).block)]
          /\ prq' = Tail(prq) /\ D!To("deliver")
      BY <1>11, <2>2 DEF D!Scan
    <3>2. PICK e \in Frame : Becomes(e) /\ e.pc = "deliver"
      BY <1>9, <2>1, <3>1 DEF NoEntry
    <3>3. D!Top.pc \notin Finding /\ e.pc \in Finding
      BY <2>1, <3>2 DEF Finding
    <3> QED BY <1>2, <1>3, <2>1, <2>2, <3>1, <3>2, <3>3, PairedScan
  <2>3. CASE frames' = D!Front(frames) /\ UNCHANGED <<D!disk, data>>
    <3>1. Served' = Served
      BY <1>1, <2>1, <2>3, ServedTick DEF Finding
    <3> QED BY <1>2, <2>1, <2>3, <3>1, PairedQuiet DEF D!disk
  <2> QED BY <1>11, <2>2, <2>3 DEF D!Scan
<1>12. CASE D!SetInterrupt
  <2>1. UNCHANGED <<prq, queue, data>>
    BY <1>12 DEF D!SetInterrupt, D!disk, D!app
  <2>2. \/ D!Top.pc = "deliver" /\ D!To("isr")
        \/ D!Top.pc = "end" /\ D!To("scan")
    BY <1>12 DEF D!SetInterrupt, D!In
  <2> QED BY <1>7, <1>10, <1>12, <2>1, <2>2 DEF D!HandlerStep, NoEntry, Finding, Passing
<1>13. ~D!SInterrupt /\ ~D!HandleHunt /\ ~D!NextRead
  <2>1. D!HandleHunt \/ D!NextRead =>
          frames # <<>> /\ D!Top.pc \in {"first", "other", "next", "enqueue", "schedule", "append"}
    BY DEF D!HandleHunt, D!NextRead, D!In
  <2> QED BY <1>3, <1>8, <2>1 DEF D!SInterrupt, NoEntry, WithEntry
<1>14. CASE D!InterruptLocks
  <2>1. UNCHANGED <<prq, queue, data>> /\ D!Top.pc = "isr" /\ D!To("dequeue")
    BY <1>14 DEF D!InterruptLocks, D!In, D!disk, D!app
  <2> QED BY <1>7, <1>10, <1>14, <2>1 DEF D!HandlerStep, NoEntry, Finding, Passing
<1>15. CASE D!InterruptDequeues
  <2>1. frames # <<>> /\ D!Top.pc = "dequeue" /\ UNCHANGED <<prq, data>>
    BY <1>15 DEF D!InterruptDequeues, D!In, D!disk, D!app
  <2>2. CASE UNCHANGED <<frames, queue>>
    <3>1. Served' = Served
      BY <2>2 DEF Served, Delivering
    <3> QED BY <1>2, <2>1, <2>2, <3>1, PairedQuiet
  <2>3. CASE queue # <<>>
    <3> DEFINE e == [D!Top EXCEPT !.pc = Head(queue).callback, !.entry = <<Head(queue).val>>]
    <3>1. Head(queue) \in Pending
      BY <2>3, Beheaded DEF DiskTypes, ReadTypes
    <3>2. e \in Frame /\ e.pc \notin Finding /\ e.entry = <<Head(queue).val>>
      BY <1>3, <1>8, <2>1, <3>1 DEF Frame, Pending, Callback, WithEntry, Finding
    <3>3. Becomes(e) /\ queue' = Tail(queue)
      BY <1>15, <2>3 DEF D!InterruptDequeues, Becomes, D!Top
    <3> HIDE DEF e
    <3>4. D!Top.pc \in Finding
      BY <2>1 DEF Finding
    <3> QED BY <1>2, <1>3, <2>1, <2>3, <3>2, <3>3, <3>4, PairedDequeue
  <2> QED BY <1>15, <2>2, <2>3 DEF D!InterruptDequeues
<1>16. CASE D!HandleRead
  <2> DEFINE x == IF D!Top.pc = "read" THEN "store" ELSE "exit"
             e == [D!Top EXCEPT !.pc = x, !.reg = sum + data[D!Top.entry[1]]]
  <2>1. /\ frames # <<>> /\ D!Top.pc \in {"read", "read_and_exit"} /\ Becomes(e)
        /\ UNCHANGED <<prq, queue, data>>
    BY <1>16 DEF D!HandleRead, D!In, Becomes, D!Top, D!disk, D!app
  <2>2. D!Top.pc \in WithEntry /\ client = "aRead"
    BY <1>8, <2>1 DEF NoEntry, WithEntry
  <2>3. D!Top.entry[1] \in D!Readers
    BY <1>1, <2>1, <2>2, TopFrame
  <2>4. sum + data[D!Top.entry[1]] \in Int
    BY <2>3 DEF DiskTypes, DataTypes
  <2>5. e \in Frame /\ e.pc \notin Finding /\ e.pc \notin Passing
    BY <1>8, <2>1, <2>2, <2>4 DEF Frame, WithEntry, Finding, Passing
  <2>6. D!Top.pc \notin Finding
    BY <2>1 DEF Finding
  <2> HIDE DEF e
  <2> QED BY <1>4, <2>1, <2>5, <2>6
<1>17. CASE D!HandleStore
  <2>1. UNCHANGED <<prq, queue, data>> /\ D!Top.pc \in {"store", "exit"} /\ D!To("end")
    BY <1>17 DEF D!HandleStore, D!In, D!disk
  <2> QED BY <1>7, <1>10, <1>17, <2>1 DEF D!HandlerStep, NoEntry, Finding, Passing
<1>18. CASE D!Unblock
  <2>1. /\ frames # <<>> /\ UNCHANGED <<prq, queue, data>>
        /\ \/ D!Top.pc = "unblock" /\ D!To("ready")
           \/ D!Top.pc = "ready" /\ D!To("end")
    BY <1>18 DEF D!Unblock, D!In, D!disk, D!app
  <2>2. client = "tRead"
    BY <1>8, <2>1 DEF NoEntry, WithEntry
  <2>3. D!Top.pc \notin Finding
    BY <2>1 DEF Finding
  <2>4. {"ready", "end"} \subseteq NoEntry \cup WithEntry
    BY <2>2 DEF NoEntry, WithEntry
  <2> QED BY <1>10, <2>1, <2>3, <2>4 DEF Finding, Passing
<1> QED BY <1>5, <1>6, <1>11, <1>12, <1>13, <1>14, <1>15, <1>16, <1>17, <1>18 DEF D!HandlerStep

\* Reads, entries and handlers always stand for one another.
LEMMA PairedAlways == D!Spec => [](AtOnce /\ Uncreated /\ Paired)
<1>1. D!Init => AtOnce /\ Uncreated /\ Paired
  <2> SUFFICES ASSUME D!Init PROVE AtOnce /\ Uncreated /\ Paired
    OBVIOUS
  <2>1. AtOnce /\ Uncreated
    BY DiskNumbers DEF D!Init, AtOnce, Uncreated
  <2>2. Served = 0
    BY NobodyServed DEF D!Init
  <2>3. OwnBlocks /\ Passed
    BY DEF D!Init, OwnBlocks, Passed
  <2>4. ~ReadAhead /\ ~EntryAhead
    BY DiskNumbers DEF D!Init, ReadAhead, EntryAhead
  <2>5. Matched
    BY <2>2, <2>4 DEF D!Init, Matched
  <2> QED BY <2>1, <2>3, <2>5 DEF Paired
<1>2. DiskTypes /\ AtOnce /\ Uncreated /\ Paired /\ DiskTypes' /\ [D!Next]_(D!vars)
        => (AtOnce /\ Uncreated /\ Paired)'
  <2> SUFFICES ASSUME DiskTypes, AtOnce, Uncreated, Paired, DiskTypes', [D!Next]_(D!vars)
               PROVE  (AtOnce /\ Uncreated /\ Paired)'
    OBVIOUS
  <2>1. AtOnce' /\ Uncreated'
    BY AtOnceStep, UncreatedStep
  <2>2. CASE UNCHANGED D!vars
    <3>1. UNCHANGED <<client, prq, queue, frames, data, cur, place, i>>
      BY <2>2 DEF D!vars, D!fixed, D!disk, D!app, D!sched
    <3>2. /\ Served' = Served /\ InPlace' = InPlace /\ Asked' = Asked
          /\ ReadAhead' <=> ReadAhead
          /\ EntryAhead' <=> EntryAhead
      BY <3>1 DEF Served, Delivering, InPlace, Asked, ReadAhead, EntryAhead
    <3> QED BY <2>1, <3>1, <3>2 DEF Paired, OwnBlocks, Matched, Passed
  <2> QED BY <2>1, <2>2, PairedThread, PairedHandler DEF D!Next
<1> QED BY <1>1, <1>2, DiskTypesAlways, PTL DEF D!Spec

-----------------------------------------------------------------------------
(* The disk.  The sum of the blocks, and where a hunt leads.                *)

\* The blocks, and what the sum of some of them is.
Numbers == [n \in 1..NumBlocks |-> n - 1]
TotalsTo(g) ==
  g = [s \in SUBSET DOMAIN Numbers |->
         IF s = {} THEN 0 ELSE g[s \ {Largest(s)}] + D!Block(Numbers[Largest(s)])]
\* The sum of the first m blocks.
Upto(m) == (CHOOSE g : TotalsTo(g))[1..m]

\* Total adds up the blocks one by one.
LEMMA Totals ==
  /\ Upto(0) = 0 /\ D!Total = Upto(NumBlocks)
  /\ \A m \in 0 .. NumBlocks - 1 : Upto(m + 1) = Upto(m) + D!Block(m)
<1> DEFINE f == [p \in Int \X (1..NumBlocks) |-> p[1] + D!Block(p[2] - 1)]
<1>1. NumBlocks \in Nat /\ DOMAIN Numbers = 1..NumBlocks /\ \A m \in 1..NumBlocks : Numbers[m] = m - 1
  BY DiskNumbers DEF Numbers
<1>2. f \in [Int \X (1..NumBlocks) -> Int]
  <2> SUFFICES ASSUME NEW x \in Int, NEW m \in 1..NumBlocks PROVE x + D!Block(m - 1) \in Int
    OBVIOUS
  <2>1. D!Block(m - 1) \in Nat
    BY <1>1, BlockType
  <2> QED BY <2>1
<1>3. PICK g \in [SUBSET (1..NumBlocks) -> Int] : LeftFoldsTo(g, f, 0, NumBlocks)
  <2> HIDE DEF f
  <2>1. 0 \in Int
    OBVIOUS
  <2> QED BY <1>1, <1>2, <2>1, LeftFoldExists, Zenon
<1>4. ASSUME NEW s \in SUBSET (1..NumBlocks), s # {}
      PROVE  f[<<g[s \ {Largest(s)}], Largest(s)>>] = g[s \ {Largest(s)}] + D!Block(Numbers[Largest(s)])
  <2>1. Largest(s) \in 1..NumBlocks
    BY <1>1, <1>4, LargestIn
  <2>2. g[s \ {Largest(s)}] \in Int
    OBVIOUS
  <2> QED BY <1>1, <2>1, <2>2
<1>5. TotalsTo(g)
  <2>1. g = [s \in SUBSET (1..NumBlocks) |->
               IF s = {} THEN 0 ELSE f[<<g[s \ {Largest(s)}], Largest(s)>>]]
    BY <1>3 DEF LeftFoldsTo
  <2>2. \A s \in SUBSET (1..NumBlocks) :
          g[s] = IF s = {} THEN 0 ELSE g[s \ {Largest(s)}] + D!Block(Numbers[Largest(s)])
    <3> HIDE DEF f
    <3> QED BY <1>4, <2>1
  <2> HIDE DEF f
  <2> QED BY <1>1, <2>2 DEF TotalsTo
<1> DEFINE t == CHOOSE h : TotalsTo(h)
<1>6. TotalsTo(t)
  BY <1>5
<1> HIDE DEF t
<1>7. \A s \in SUBSET (1..NumBlocks) :
        t[s] = IF s = {} THEN 0 ELSE t[s \ {Largest(s)}] + D!Block(Numbers[Largest(s)])
  BY <1>1, <1>6 DEF TotalsTo
<1>8. \A m : Upto(m) = t[1..m]
  BY DEF Upto, t
<1>9. Upto(0) = 0
  <2>1. 1..0 = {}
    OBVIOUS
  <2> QED BY <1>7, <1>8, <2>1
<1>10. ASSUME NEW m \in 0 .. NumBlocks - 1 PROVE Upto(m + 1) = Upto(m) + D!Block(m)
  <2>1. m + 1 \in 1..NumBlocks /\ m + 1 - 1 = m /\ 1..(m + 1) \in SUBSET (1..NumBlocks)
    BY <1>1
  <2>2. Largest(1..(m + 1)) = m + 1 /\ (1..(m + 1)) \ {m + 1} = 1..m /\ 1..(m + 1) # {}
    BY <1>1, <2>1, LargestOfInterval
  <2>3. t[1..(m + 1)] = t[1..m] + D!Block(Numbers[m + 1])
    BY <1>7, <2>1, <2>2
  <2> QED BY <1>1, <1>8, <2>1, <2>3
<1>11. D!Total = Upto(NumBlocks)
  <2>1. D!Total = (CHOOSE h : TotalsTo(h))[DOMAIN Numbers]
    BY DEF D!Total, D!FoldLeft, D!MapThenFoldSet, TotalsTo, Largest, Numbers, D!Max
  <2> QED BY <1>1, <2>1 DEF Upto
<1> QED BY <1>9, <1>10, <1>11

\* The steps of a hunt, and where some of them lead.
Steps == [n \in 1..D!Block(start) |-> n]
HuntsTo(g) ==
  g = [s \in SUBSET DOMAIN Steps |->
         IF s = {} THEN D!Block(start) ELSE D!Block(g[s \ {Largest(s)}])]
\* The block a hunt is sent to by the m-th of those it has followed.
Hunted == [m \in 0..D!Block(start) |-> (CHOOSE g : HuntsTo(g))[1..m]]

\* Treasure follows the blocks one by one.
LEMMA Hunts ==
  ASSUME start \in Nat
  PROVE  /\ Hunted[0] = D!Block(start) /\ D!Treasure = Hunted[D!Block(start)]
         /\ \A m \in 1..D!Block(start) : Hunted[m] = D!Block(Hunted[m - 1])
<1> DEFINE c == D!Block(start)
           f == [p \in Int \X (1..c) |-> D!Block(p[1])]
<1>1. c \in Nat /\ DOMAIN Steps = 1..c
  BY BlockType DEF Steps
<1> HIDE DEF c
<1>2. f \in [Int \X (1..c) -> Int]
  BY BlockType
<1>3. PICK g \in [SUBSET (1..c) -> Int] : LeftFoldsTo(g, f, c, c)
  <2> HIDE DEF f
  <2>1. c \in Int
    BY <1>1
  <2> QED BY <1>1, <1>2, <2>1, LeftFoldExists, Zenon
<1>4. ASSUME NEW s \in SUBSET (1..c), s # {}
      PROVE  f[<<g[s \ {Largest(s)}], Largest(s)>>] = D!Block(g[s \ {Largest(s)}])
  <2>1. Largest(s) \in 1..c
    BY <1>1, <1>4, LargestIn
  <2>2. g[s \ {Largest(s)}] \in Int
    OBVIOUS
  <2> QED BY <2>1, <2>2
<1>5. HuntsTo(g)
  <2>1. g = [s \in SUBSET (1..c) |->
               IF s = {} THEN c ELSE f[<<g[s \ {Largest(s)}], Largest(s)>>]]
    BY <1>3 DEF LeftFoldsTo
  <2>2. \A s \in SUBSET (1..c) :
          g[s] = IF s = {} THEN c ELSE D!Block(g[s \ {Largest(s)}])
    <3> HIDE DEF f
    <3> QED BY <1>4, <2>1
  <2> HIDE DEF f
  <2> QED BY <1>1, <2>2 DEF HuntsTo, c
<1> DEFINE t == CHOOSE h : HuntsTo(h)
<1>6. HuntsTo(t)
  BY <1>5
<1> HIDE DEF t
<1>7. \A s \in SUBSET (1..c) : t[s] = IF s = {} THEN c ELSE D!Block(t[s \ {Largest(s)}])
  BY <1>1, <1>6 DEF HuntsTo, c
<1>8. \A m \in 0..c : Hunted[m] = t[1..m]
  BY DEF Hunted, t, c
<1>9. Hunted[0] = c
  <2>1. 1..0 = {} /\ 0 \in 0..c
    BY <1>1
  <2> QED BY <1>7, <1>8, <2>1
<1>10. ASSUME NEW m \in 1..c PROVE Hunted[m] = D!Block(Hunted[m - 1])
  <2>1. 1..m \in SUBSET (1..c)
    BY <1>1
  <2>2. Largest(1..m) = m /\ (1..m) \ {m} = 1..(m - 1) /\ 1..m # {}
    BY <1>1, LargestOfInterval
  <2>3. t[1..m] = D!Block(t[1..(m - 1)])
    BY <1>7, <2>1, <2>2
  <2>4. m \in 0..c /\ m - 1 \in 0..c
    BY <1>1
  <2> QED BY <1>8, <2>3, <2>4
<1>11. D!Treasure = Hunted[c]
  <2>1. D!Treasure = (CHOOSE h : HuntsTo(h))[DOMAIN Steps]
    BY DEF D!Treasure, D!FoldLeft, D!MapThenFoldSet, HuntsTo, Largest, Steps, D!Max
  <2>2. c \in 0..c
    BY <1>1
  <2> QED BY <1>1, <1>8, <2>1, <2>2 DEF t
<1> QED BY <1>9, <1>10, <1>11 DEF c

-----------------------------------------------------------------------------
(* The disk.  In sRead and treasureHunt one handler at a time is at work.   *)

\* The handlers at work, and what they do; there is one at most, with the one buffer.
Active == {n \in DOMAIN frames : frames[n].pc \notin {"scan", "end"}}
Doing == {frames[n].pc : n \in Active}
Alone ==
  /\ \A m, n \in Active : m = n
  /\ \A n \in Active : frames[n].pc \in WithEntry => frames[n].entry = << 0 >>

\* How the innermost handler goes on decides who is at work.
LEMMA AtWork ==
  ASSUME FrameTypes, Alone
  PROVE  /\ frames = <<>> => Doing = {}
         /\ frames # <<>> /\ D!Top.pc \notin {"scan", "end"} =>
              /\ Doing = {D!Top.pc}
              /\ D!Top.pc \in WithEntry => D!Top.entry = << 0 >>
<1>1. CASE frames = <<>>
  BY <1>1 DEF Doing, Active
<1>2. CASE frames # <<>> /\ D!Top.pc \notin {"scan", "end"}
  <2>1. D!Top = frames[Len(frames)] /\ Len(frames) \in DOMAIN frames
    BY <1>2, TopFrame
  <2>2. Len(frames) \in Active
    BY <1>2, <2>1 DEF Active
  <2> QED BY <1>2, <2>1, <2>2 DEF Alone, Doing
<1> QED BY <1>1, <1>2

\* The innermost handler goes on, and with it the work.
LEMMA WorkTurned ==
  ASSUME FrameTypes, Alone, frames # <<>>, client' = client,
         NEW e \in Frame, Becomes(e), Doing = {} \/ D!Top.pc \notin {"scan", "end"},
         e.pc \in WithEntry => e.entry = << 0 >>
  PROVE  Alone' /\ Doing' = {e.pc} \ {"scan", "end"}
<1> DEFINE l == Len(frames)
<1>1. /\ l \in DOMAIN frames /\ DOMAIN frames' = DOMAIN frames
      /\ frames'[l] = e /\ \A m \in DOMAIN frames : m # l => frames'[m] = frames[m]
      /\ D!Top = frames[l]
  <2>1. /\ DOMAIN frames = 1..l /\ DOMAIN frames' = 1..l
        /\ frames'[l] = e /\ \A m \in 1..l : m # l => frames'[m] = frames[m]
    BY Becoming
  <2>2. l \in DOMAIN frames /\ D!Top = frames[l]
    BY TopFrame
  <2> HIDE DEF l
  <2> QED BY <2>1, <2>2
<1> HIDE DEF l
<1>2. \A m \in Active : m = l
  <2>1. CASE Doing = {}
    BY <2>1 DEF Doing
  <2>2. CASE D!Top.pc \notin {"scan", "end"}
    <3>1. l \in Active
      BY <1>1, <2>2 DEF Active
    <3> QED BY <3>1 DEF Alone
  <2> QED BY <2>1, <2>2
<1>3. WithEntry' = WithEntry
  BY DEF WithEntry
<1>4. Active' = IF e.pc \in {"scan", "end"} THEN {} ELSE {l}
  BY <1>1, <1>2 DEF Active
<1>5. Alone'
  BY <1>1, <1>3, <1>4 DEF Alone
<1>6. Doing' = {e.pc} \ {"scan", "end"}
  BY <1>1, <1>4 DEF Doing
<1> QED BY <1>5, <1>6

\* A handler that comes, goes or turns from its end to its start does no work.
LEMMA WorkKept ==
  ASSUME FrameTypes, Alone, client' = client,
         \/ frames' = frames
         \/ \E e \in Frame : e.pc = "scan" /\ frames' = Append(frames, e)
         \/ frames # <<>> /\ D!Top.pc = "scan" /\ frames' = D!Front(frames)
         \/ frames # <<>> /\ D!Top.pc = "end" /\ \E e \in Frame : e.pc = "scan" /\ Becomes(e)
  PROVE  Alone' /\ Doing' = Doing
<1>1. WithEntry' = WithEntry
  BY DEF WithEntry
<1>2. SUFFICES ASSUME Active' = Active, \A n \in Active : frames'[n] = frames[n]
               PROVE  Alone' /\ Doing' = Doing
  <2> SUFFICES Active' = Active /\ \A n \in Active : frames'[n] = frames[n]
    OBVIOUS
  <2>1. CASE frames' = frames
    BY <2>1 DEF Active
  <2>2. ASSUME NEW e \in Frame, e.pc = "scan", frames' = Append(frames, e)
        PROVE  Active' = Active /\ \A n \in Active : frames'[n] = frames[n]
    <3> DEFINE l == Len(frames)
    <3>1. /\ l \in Nat /\ DOMAIN frames = 1..l /\ DOMAIN frames' = 1..(l + 1)
          /\ frames'[l + 1] = e /\ \A m \in 1..l : frames'[m] = frames[m]
      BY <2>2, Appended DEF FrameTypes
    <3> HIDE DEF l
    <3>2. \A m : m \in 1..(l + 1) <=> m \in 1..l \/ m = l + 1
      BY <3>1
    <3>3. l + 1 \notin 1..l
      BY <3>1
    <3> QED BY <2>2, <3>1, <3>2, <3>3 DEF Active
  <2>3. CASE frames # <<>> /\ D!Top.pc = "scan" /\ frames' = D!Front(frames)
    <3> DEFINE l == Len(frames)
    <3>1. /\ l \in Nat \ {0} /\ DOMAIN frames = 1..l /\ DOMAIN frames' = 1..(l - 1)
          /\ \A m \in 1..(l - 1) : frames'[m] = frames[m]
          /\ frames[l].pc = "scan"
      BY <2>3, Popped DEF FrameTypes, D!Top
    <3> HIDE DEF l
    <3>2. \A m : m \in 1..l <=> m \in 1..(l - 1) \/ m = l
      BY <3>1
    <3> QED BY <3>1, <3>2 DEF Active
  <2>4. ASSUME frames # <<>>, D!Top.pc = "end", NEW e \in Frame, e.pc = "scan", Becomes(e)
        PROVE  Active' = Active /\ \A n \in Active : frames'[n] = frames[n]
    <3> DEFINE l == Len(frames)
    <3>1. /\ l \in DOMAIN frames /\ DOMAIN frames' = DOMAIN frames
          /\ frames'[l] = e /\ \A m \in DOMAIN frames : m # l => frames'[m] = frames[m]
          /\ frames[l].pc = "end"
      <4>1. /\ DOMAIN frames = 1..l /\ DOMAIN frames' = 1..l
            /\ frames'[l] = e /\ \A m \in 1..l : m # l => frames'[m] = frames[m]
        BY <2>4, Becoming
      <4>2. l \in DOMAIN frames /\ frames[l].pc = "end"
        BY <2>4, TopFrame
      <4> HIDE DEF l
      <4> QED BY <4>1, <4>2
    <3> HIDE DEF l
    <3> QED BY <2>4, <3>1 DEF Active
  <2> QED BY <2>1, <2>2, <2>3, <2>4
<1>3. Alone'
  BY <1>1, <1>2 DEF Alone
<1>4. Doing' = Doing
  BY <1>2 DEF Doing
<1> QED BY <1>3, <1>4

-----------------------------------------------------------------------------
(* The disk.  The stages of a hunt.                                         *)

\* The one entry of the queue, and the one read.
Queued(c) == queue = <<[val |-> 0, callback |-> c]>>
Pends(b) == prq = <<[buf |-> 0, block |-> b]>>
\* The hunt has come to the m-th block it was sent to.
Following(m) == hops \in 1..D!Block(start) /\ data[0] = Hunted[m] /\ data[0] # Garbage
\* How many blocks are still to be followed.
ToFollow == D!Block(start) - hops
\* The hunt has its first block.
AtFirst == data[0] = D!Block(start) /\ data[0] # Garbage

\* main queues itself and schedules the first read; then the read is pending, its
\* handler finds the entry, counts, goes on to the next read, or is done.
Prepares == /\ ~flag /\ prq = <<>> /\ Doing = {}
            /\ \/ place[D!Main] = "next" /\ queue = <<>>
               \/ place[D!Main] = "sched" /\ Queued("first")
Reads == /\ Doing = {}
         /\ \/ Queued("first") /\ Pends(start)
            \/ Queued("other") /\ Pends(data[0]) /\ Following(ToFollow)
Finds == /\ prq = <<>> /\ \E x \in {"deliver", "isr", "dequeue"} : Doing = {x}
         /\ \/ Queued("first") /\ AtFirst
            \/ Queued("other") /\ Following(ToFollow + 1)
Counts == /\ prq = <<>> /\ queue = <<>>
          /\ \/ Doing = {"first"} /\ AtFirst
             \/ Doing = {"other"} /\ Following(ToFollow + 1)
GoesOn == /\ prq = <<>>
          /\ \/ /\ Doing = {"next"} /\ queue = <<>>
                /\ hops \in 0..D!Block(start) /\ data[0] = Hunted[ToFollow] /\ data[0] # Garbage
             \/ Doing = {"enqueue"} /\ queue = <<>> /\ Following(ToFollow)
             \/ Doing \in {{"schedule"}, {"append"}} /\ Queued("other") /\ Following(ToFollow)
Arrived == /\ flag /\ prq = <<>> /\ queue = <<>> /\ Doing = {} /\ place[D!Main] = "spin"
           /\ data[0] = Hunted[D!Block(start)]

HuntStage == \/ Prepares
             \/ ~flag /\ place[D!Main] = "spin" /\ (Reads \/ Finds \/ Counts \/ GoesOn)
             \/ Arrived

\* The invariant of treasureHunt.
OneHunt == client = "treasureHunt" => Alone /\ HuntStage

\* What the stages depend on.
LEMMA SameHunt == start' = start => Hunted' = Hunted
BY DEF Hunted, HuntsTo, Steps

\* A step that changes nothing but whether idle handlers are there.
LEMMA HuntKept ==
  ASSUME UNCHANGED <<start, prq, queue, flag, hops, data>>, Doing' = Doing,
         place'[D!Main] = place[D!Main], HuntStage
  PROVE  HuntStage'
BY SameHunt DEF HuntStage, Prepares, Reads, Finds, Counts, GoesOn, Arrived, Following, ToFollow, AtFirst,
             Queued, Pends

\* The steps of main.
LEMMA HuntThread ==
  ASSUME DiskTypes, Alone, HuntStage, client = "treasureHunt", D!ThreadStep
  PROVE  Alone' /\ HuntStage' /\ (stopped' # "no" => flag /\ UNCHANGED <<start, data>> /\ HuntStage)
<1>1. /\ frames = <<>> /\ frames' = frames /\ UNCHANGED <<client, start, data, hops>>
      /\ ThreadTypes /\ FrameTypes /\ ReadTypes /\ cur = D!Main
  BY ThreadsLeave DEF DiskTypes, ThreadTypes
<1>2. Alone' /\ Doing' = Doing /\ Doing = {}
  BY <1>1, WorkKept, AtWork
<1>3. D!HStart \/ D!HFinish
  BY <1>1, DiskNumbers DEF D!ThreadStep, D!SRead, D!SPending, D!SSchedule, D!SSpun, D!ASchedules,
     D!TCreate, D!TJoin, D!TJoined, D!TExit, D!TSchedule, D!TEnqueue, D!TBlock, D!TAdd,
     D!TReturn, D!IdleDequeue, D!IdleSleep, D!IdleWake, D!On
<1>4. CASE D!HFinish
  <2>1. /\ UNCHANGED <<start, prq, queue, flag, hops, data, place>> /\ flag
    BY <1>4 DEF D!HFinish, D!fixed, D!disk, D!app, D!sched
  <2> QED BY <1>2, <2>1, HuntKept
<1>5. CASE D!On(D!Main, "next") /\ D!Queue(0, "first") /\ D!Go("sched") /\ UNCHANGED <<D!disk, D!app, stopped>>
  <2>1. place[D!Main] = "next" /\ place'[D!Main] = "sched" /\ stopped' = "no"
    BY <1>1, <1>5, Going DEF D!On, Places
  <2>2. Prepares /\ queue = <<>> /\ ~flag /\ prq = <<>>
    BY <1>2, <2>1 DEF HuntStage, Prepares, Arrived, Reads, Finds, Counts, GoesOn
  <2>3. queue' = <<[val |-> 0, callback |-> "first"]>>
    BY <1>5, <2>2 DEF D!Queue
  <2>4. flag' = flag /\ prq' = prq
    BY <1>5 DEF D!app, D!disk
  <2> QED BY <1>2, <2>1, <2>2, <2>3, <2>4 DEF HuntStage, Prepares, Queued
<1>6. CASE D!On(D!Main, "sched") /\ D!Schedule(0, start) /\ D!Go("spin") /\ UNCHANGED <<queue, D!app, stopped>>
  <2>1. place[D!Main] = "sched" /\ place'[D!Main] = "spin" /\ stopped' = "no"
    BY <1>1, <1>6, Going DEF D!On, Places
  <2>2. Queued("first") /\ ~flag /\ prq = <<>>
    BY <1>2, <2>1 DEF HuntStage, Prepares, Arrived, Reads, Finds, Counts, GoesOn
  <2>3. prq' = <<[buf |-> 0, block |-> start]>>
    BY <1>6, <2>2 DEF D!Schedule
  <2>4. flag' = flag /\ queue' = queue /\ start' = start
    BY <1>1, <1>6 DEF D!app
  <2> QED BY <1>2, <2>1, <2>2, <2>3, <2>4 DEF HuntStage, Reads, Queued, Pends
<1> QED BY <1>3, <1>4, <1>5, <1>6 DEF D!HStart

\* The steps of handlers.
LEMMA HuntHandler ==
  ASSUME DiskTypes, Alone, HuntStage, client = "treasureHunt", D!Time \/ D!Tick \/ D!HandlerStep
  PROVE  Alone' /\ HuntStage' /\ stopped' = "no"
<1>1. ThreadTypes /\ FrameTypes /\ ReadTypes /\ DataTypes /\ ClientTypes
  BY DEF DiskTypes
<1>2. UNCHANGED <<client, start>> /\ place'[D!Main] = place[D!Main]
  BY <1>1, HandlersKeep, DiskNumbers
<1>3. /\ frames # <<>> => D!Top \in Frame /\ D!Top.pc \in NoEntry \cup WithEntry
      /\ WithEntry = {"first", "other", "next", "enqueue", "schedule", "append"}
  BY <1>1, TopFrame DEF Frame, WithEntry
<1>4. /\ Hunted[0] = D!Block(start) /\ Hunted' = Hunted
      /\ \A m \in 1..D!Block(start) : Hunted[m] = D!Block(Hunted[m - 1])
      /\ D!Block(start) \in Nat
  BY <1>1, <1>2, Hunts, SameHunt, BlockType DEF ClientTypes
<1>5. \A x \in NoEntry \cup WithEntry :
        frames # <<>> /\ D!To(x) =>
          \E e \in Frame : Becomes(e) /\ e.pc = x /\ e.entry = D!Top.entry
  BY <1>1, Resuming
<1>6. ASSUME UNCHANGED <<prq, queue, flag, hops, data>>,
             \/ frames' = frames
             \/ \E e \in Frame : e.pc = "scan" /\ frames' = Append(frames, e)
             \/ frames # <<>> /\ D!Top.pc = "scan" /\ frames' = D!Front(frames)
             \/ frames # <<>> /\ D!Top.pc = "end" /\ \E e \in Frame : e.pc = "scan" /\ Becomes(e)
      PROVE  Alone' /\ HuntStage'
  BY <1>1, <1>2, <1>6, WorkKept, HuntKept
<1>7. \A x \in NoEntry \cup WithEntry :
        frames # <<>> /\ D!To(x) /\ D!Top.pc \notin {"scan", "end"}
          /\ (x \in WithEntry => D!Top.pc \in WithEntry) =>
          Alone' /\ Doing = {D!Top.pc} /\ Doing' = {x} \ {"scan", "end"}
  <2> SUFFICES ASSUME NEW x \in NoEntry \cup WithEntry, frames # <<>>, D!To(x),
                      D!Top.pc \notin {"scan", "end"}, x \in WithEntry => D!Top.pc \in WithEntry
               PROVE  Alone' /\ Doing = {D!Top.pc} /\ Doing' = {x} \ {"scan", "end"}
    OBVIOUS
  <2>1. PICK e \in Frame : Becomes(e) /\ e.pc = x /\ e.entry = D!Top.entry
    BY <1>5
  <2> QED BY <1>1, <1>2, <2>1, AtWork, WorkTurned
<1>8. CASE D!Time
  BY <1>6, <1>8 DEF D!Time, D!app
<1>9. CASE D!Tick
  <2> DEFINE e == [pc |-> "scan", entry |-> <<>>, reg |-> 0]
  <2>1. e \in Frame /\ e.pc = "scan"
    BY DEF Frame, NoEntry
  <2> HIDE DEF e
  <2> QED BY <1>6, <1>9, <2>1 DEF D!Tick, D!disk, D!app, e
<1>10. CASE D!Scan
  <2>1. frames # <<>> /\ D!Top.pc = "scan" /\ UNCHANGED <<queue, flag, hops, stopped>> /\ stopped = "no"
    BY <1>10 DEF D!Scan, D!In
  <2>2. CASE due > 0
    <3>1. /\ data' = [data EXCEPT ![Head(prq).buf] = D!Block(Head(prq).block)]
          /\ prq' = Tail(prq) /\ D!To("deliver") /\ prq # <<>>
      BY <1>1, <1>10, <2>2, EmptySeq DEF D!Scan, ReadTypes
    <3>2. Doing = {} /\ ~flag /\ place[D!Main] = "spin" /\ Reads
      BY <3>1 DEF HuntStage, Prepares, Finds, Counts, GoesOn, Arrived, Reads
    <3>3. PICK e \in Frame : Becomes(e) /\ e.pc = "deliver"
      BY <1>5, <2>1, <3>1 DEF NoEntry
    <3>4. Alone' /\ Doing' = {"deliver"}
      <4>1. e.pc \notin WithEntry
        BY <1>3, <3>3
      <4> QED BY <1>1, <1>2, <2>1, <3>2, <3>3, <4>1, WorkTurned
    <3>5. PICK b \in Int : /\ Pends(b)
                          /\ \/ Queued("first") /\ b = start
                             \/ Queued("other") /\ b = data[0] /\ Following(ToFollow)
      BY <1>1, <3>2, DiskNumbers DEF Reads, ClientTypes, DataTypes
    <3>6. prq' = <<>> /\ data' = [data EXCEPT ![0] = D!Block(b)]
      <4>1. Head(prq).buf = 0 /\ Head(prq).block = b /\ Tail(prq) = <<>>
        BY <3>5 DEF Pends
      <4> QED BY <3>1, <4>1
    <3>7. data'[0] = D!Block(b) /\ data'[0] # Garbage
      BY <1>1, <3>6, DiskNumbers, BlockType DEF DataTypes
    <3>8. Finds'
      <4>1. CASE Queued("first") /\ b = start
        BY <1>2, <2>1, <3>4, <3>6, <3>7, <4>1 DEF Finds, Queued, AtFirst
      <4>2. CASE Queued("other") /\ b = data[0] /\ Following(ToFollow)
        <5>1. hops \in 1..D!Block(start) /\ b = Hunted[ToFollow] /\ ToFollow + 1 \in 1..D!Block(start)
              /\ ToFollow \in Int
          BY <1>4, <4>2 DEF Following, ToFollow
        <5>2. data'[0] = Hunted[ToFollow + 1]
          <6> DEFINE m == ToFollow + 1
          <6>1. m \in 1..D!Block(start) /\ m - 1 = ToFollow
            BY <5>1
          <6> HIDE DEF m
          <6>2. Hunted[m] = D!Block(b)
            BY <1>4, <5>1, <6>1
          <6> QED BY <3>7, <6>2 DEF m
        <5>3. Following(ToFollow + 1)'
          BY <1>2, <1>4, <2>1, <3>7, <5>1, <5>2 DEF Following, ToFollow
        <5> QED BY <2>1, <3>4, <3>6, <4>2, <5>3 DEF Finds, Queued
      <4> QED BY <3>5, <4>1, <4>2
    <3> QED BY <1>2, <2>1, <3>2, <3>4, <3>8 DEF HuntStage
  <2>3. CASE frames' = D!Front(frames) /\ UNCHANGED <<D!disk, data>>
    BY <1>6, <2>1, <2>3 DEF D!disk
  <2> QED BY <1>10, <2>1, <2>2, <2>3 DEF D!Scan
<1>11. CASE D!SetInterrupt
  <2>1. UNCHANGED <<prq, queue, flag, hops, data, stopped>> /\ stopped = "no" /\ frames # <<>>
    BY <1>11 DEF D!SetInterrupt, D!disk, D!app, D!In
  <2>2. CASE D!Top.pc = "end" /\ D!To("scan")
    <3>1. \E e \in Frame : e.pc = "scan" /\ Becomes(e)
      BY <1>5, <2>1, <2>2 DEF NoEntry
    <3> QED BY <1>6, <2>1, <2>2, <3>1
  <2>3. CASE D!Top.pc = "deliver" /\ D!To("isr")
    <3>1. Alone' /\ Doing = {"deliver"} /\ Doing' = {"isr"}
      BY <1>3, <1>7, <2>1, <2>3 DEF NoEntry
    <3>2. ~flag /\ place[D!Main] = "spin" /\ Finds
      BY <3>1 DEF HuntStage, Prepares, Reads, Counts, GoesOn, Arrived
    <3>3. Finds'
      BY <1>2, <1>4, <2>1, <3>1, <3>2 DEF Finds, Queued, AtFirst, Following, ToFollow
    <3> QED BY <1>2, <2>1, <3>1, <3>2, <3>3 DEF HuntStage
  <2> QED BY <1>11, <2>1, <2>2, <2>3 DEF D!SetInterrupt, D!In
<1>12. CASE D!InterruptLocks
  <2>1. /\ UNCHANGED <<prq, queue, flag, hops, data, stopped>> /\ stopped = "no" /\ frames # <<>>
        /\ D!Top.pc = "isr" /\ D!To("dequeue")
    BY <1>12 DEF D!InterruptLocks, D!disk, D!app, D!In
  <2>2. Alone' /\ Doing = {"isr"} /\ Doing' = {"dequeue"}
    BY <1>3, <1>7, <2>1 DEF NoEntry
  <2>3. ~flag /\ place[D!Main] = "spin" /\ Finds
    BY <2>2 DEF HuntStage, Prepares, Reads, Counts, GoesOn, Arrived
  <2>4. Finds'
    BY <1>2, <1>4, <2>1, <2>2, <2>3 DEF Finds, Queued, AtFirst, Following, ToFollow
  <2> QED BY <1>2, <2>1, <2>2, <2>3, <2>4 DEF HuntStage
<1>13. CASE D!InterruptDequeues
  <2>1. /\ UNCHANGED <<prq, flag, hops, data>> /\ stopped = "no" /\ frames # <<>>
        /\ D!Top.pc = "dequeue"
    BY <1>13 DEF D!InterruptDequeues, D!disk, D!app, D!In
  <2>2. Doing = {"dequeue"}
    BY <1>1, <2>1, AtWork
  <2>3. ~flag /\ place[D!Main] = "spin" /\ Finds
    BY <2>2 DEF HuntStage, Prepares, Reads, Counts, GoesOn, Arrived
  <2>4. PICK c \in {"first", "other"} :
          /\ queue = <<[val |-> 0, callback |-> c]>>
          /\ IF c = "first" THEN AtFirst ELSE Following(ToFollow + 1)
    BY <2>3 DEF Finds, Queued
  <2> DEFINE e == [D!Top EXCEPT !.pc = c, !.entry = << 0 >>]
  <2>5. queue # <<>> /\ Head(queue).val = 0 /\ Head(queue).callback = c /\ Tail(queue) = <<>>
    BY <2>4
  <2>6. Becomes(e) /\ queue' = <<>> /\ stopped' = stopped
    BY <1>13, <2>5 DEF D!InterruptDequeues, Becomes, D!Top
  <2>7. e \in Frame /\ e.pc = c /\ e.entry = << 0 >>
    BY <1>3, <2>1, DiskNumbers DEF Frame
  <2> HIDE DEF e
  <2>8. Alone' /\ Doing' = {c}
    BY <1>1, <1>2, <2>1, <2>6, <2>7, WorkTurned
  <2>9. prq = <<>>
    BY <2>3 DEF Finds
  <2>10. Counts'
    BY <1>2, <1>4, <2>1, <2>4, <2>6, <2>8, <2>9 DEF Counts, AtFirst, Following, ToFollow
  <2> QED BY <1>2, <2>1, <2>3, <2>6, <2>8, <2>10 DEF HuntStage
<1>14. CASE D!HandleHunt
  <2>1. /\ UNCHANGED <<prq, queue, flag, data, stopped>> /\ stopped = "no" /\ frames # <<>>
        /\ D!Top.pc \in {"first", "other"} /\ D!To("next")
        /\ hops' = IF D!Top.pc = "first" THEN data[D!Top.entry[1]] ELSE hops - 1
    BY <1>14 DEF D!HandleHunt, D!disk, D!app, D!In
  <2>2. Alone' /\ Doing = {D!Top.pc} /\ Doing' = {"next"}
    BY <1>3, <1>7, <2>1
  <2>3. D!Top.entry[1] = 0
    <3>1. D!Top.entry = << 0 >>
      BY <1>1, <1>3, <2>1, AtWork
    <3> QED BY <3>1
  <2>4. ~flag /\ place[D!Main] = "spin" /\ Counts
    BY <2>1, <2>2 DEF HuntStage, Prepares, Reads, Finds, GoesOn, Arrived
  <2>5. hops' \in 0..D!Block(start) /\ data[0] = Hunted[D!Block(start) - hops'] /\ data[0] # Garbage
    <3>1. CASE D!Top.pc = "first"
      <4>1. AtFirst
        BY <2>2, <2>4, <3>1 DEF Counts
      <4>2. hops' = D!Block(start) /\ D!Block(start) - D!Block(start) = 0
        BY <1>4, <2>1, <2>3, <3>1, <4>1 DEF AtFirst
      <4> QED BY <1>4, <4>1, <4>2 DEF AtFirst
    <3>2. CASE D!Top.pc = "other"
      <4>1. Following(ToFollow + 1)
        BY <2>2, <2>4, <3>2 DEF Counts
      <4>2. hops' = hops - 1 /\ hops \in 1..D!Block(start)
        BY <2>1, <3>2, <4>1 DEF Following
      <4>3. D!Block(start) - hops' = ToFollow + 1
        BY <1>4, <4>2 DEF ToFollow
      <4> QED BY <1>4, <4>1, <4>2, <4>3 DEF Following
    <3> QED BY <2>1, <3>1, <3>2
  <2>6. GoesOn'
    BY <1>2, <1>4, <2>1, <2>2, <2>4, <2>5 DEF Counts, GoesOn, ToFollow
  <2> QED BY <1>2, <2>1, <2>2, <2>4, <2>6 DEF HuntStage
<1>15. CASE D!NextRead
  <2>1. /\ UNCHANGED <<hops, data, stopped>> /\ stopped = "no" /\ frames # <<>>
        /\ D!Top.pc \in {"next", "enqueue", "schedule", "append"}
    BY <1>15 DEF D!NextRead, D!In
  <2>2. Doing = {D!Top.pc} /\ D!Top.entry = << 0 >>
    BY <1>1, <1>3, <2>1, AtWork
  <2>3. ~flag /\ place[D!Main] = "spin" /\ GoesOn /\ prq = <<>>
    BY <2>1, <2>2 DEF HuntStage, Prepares, Reads, Finds, Counts, Arrived, GoesOn
  <2>4. D!Top.entry[1] = 0
    BY <2>2
  <2>5. CASE D!In("next") /\ hops = 0 /\ flag' = TRUE /\ D!To("end") /\ UNCHANGED <<D!disk, queue>>
    <3>1. Alone' /\ Doing' = {}
      BY <1>3, <1>7, <2>1, <2>5 DEF NoEntry, D!In
    <3>2. /\ data[0] = Hunted[ToFollow] /\ ToFollow = D!Block(start) /\ queue = <<>>
      <4>1. data[0] = Hunted[ToFollow] /\ queue = <<>>
        BY <2>2, <2>3, <2>5 DEF GoesOn, D!In
      <4>2. ToFollow = D!Block(start)
        BY <1>4, <2>5 DEF ToFollow
      <4> QED BY <4>1, <4>2
    <3>3. Arrived'
      BY <1>2, <1>4, <2>1, <2>3, <2>5, <3>1, <3>2 DEF Arrived, D!disk
    <3> QED BY <2>1, <3>1, <3>3 DEF HuntStage
  <2>6. CASE D!In("next") /\ hops # 0 /\ D!To("enqueue") /\ UNCHANGED <<flag, D!disk, queue>>
    <3>1. Alone' /\ Doing' = {"enqueue"}
      BY <1>3, <1>7, <2>1, <2>6
    <3>2. Following(ToFollow) /\ queue = <<>>
      <4>1. /\ hops \in 0..D!Block(start) /\ data[0] = Hunted[ToFollow] /\ data[0] # Garbage
            /\ queue = <<>>
        BY <2>2, <2>3, <2>6 DEF GoesOn, D!In
      <4>2. hops \in 1..D!Block(start)
        BY <1>4, <2>6, <4>1
      <4> QED BY <4>1, <4>2 DEF Following
    <3>3. GoesOn'
      BY <1>2, <1>4, <2>1, <2>3, <2>6, <3>1, <3>2 DEF GoesOn, D!disk, Following, ToFollow
    <3> QED BY <1>2, <2>1, <2>3, <2>6, <3>1, <3>3 DEF HuntStage
  <2>7. CASE /\ D!In("enqueue") /\ D!To("schedule") /\ UNCHANGED <<flag, D!disk>>
             /\ queue' = Append(queue, [val |-> D!Top.entry[1], callback |-> "other"])
    <3>1. Alone' /\ Doing' = {"schedule"}
      BY <1>3, <1>7, <2>1, <2>7
    <3>2. Following(ToFollow) /\ queue = <<>>
      BY <2>2, <2>3, <2>7 DEF GoesOn, D!In
    <3>3. queue' = <<[val |-> 0, callback |-> "other"]>>
      BY <2>4, <2>7, <3>2
    <3>4. GoesOn'
      BY <1>2, <1>4, <2>1, <2>3, <2>7, <3>1, <3>2, <3>3 DEF GoesOn, D!disk, Following, ToFollow, Queued
    <3> QED BY <1>2, <2>1, <2>3, <2>7, <3>1, <3>4 DEF HuntStage
  <2>8. CASE D!In("schedule") /\ D!To("append") /\ UNCHANGED <<flag, D!disk, queue>>
    <3>1. Alone' /\ Doing' = {"append"}
      BY <1>3, <1>7, <2>1, <2>8
    <3>2. Following(ToFollow) /\ Queued("other")
      BY <2>2, <2>3, <2>8 DEF GoesOn, D!In
    <3>3. GoesOn'
      BY <1>2, <1>4, <2>1, <2>3, <2>8, <3>1, <3>2 DEF GoesOn, D!disk, Following, ToFollow, Queued
    <3> QED BY <1>2, <2>1, <2>3, <2>8, <3>1, <3>3 DEF HuntStage
  <2>9. CASE /\ D!In("append") /\ D!To("end") /\ UNCHANGED <<flag, queue>>
             /\ prq' = Append(prq, [buf |-> D!Top.entry[1], block |-> data[D!Top.entry[1]]])
    <3>1. Alone' /\ Doing' = {}
      BY <1>3, <1>7, <2>1, <2>9 DEF NoEntry
    <3>2. Following(ToFollow) /\ Queued("other")
      BY <2>2, <2>3, <2>9 DEF GoesOn, D!In
    <3>3. prq' = <<[buf |-> 0, block |-> data[0]]>>
      BY <2>3, <2>4, <2>9
    <3>4. Reads'
      BY <1>2, <1>4, <2>1, <2>9, <3>1, <3>2, <3>3 DEF Reads, Pends, Following, ToFollow, Queued
    <3> QED BY <1>2, <2>1, <2>3, <2>9, <3>1, <3>4 DEF HuntStage
  <2> QED BY <1>15, <2>5, <2>6, <2>7, <2>8, <2>9 DEF D!NextRead
<1>16. ~D!SInterrupt /\ ~D!HandleRead /\ ~D!HandleStore /\ ~D!Unblock
  BY <1>3 DEF D!SInterrupt, D!HandleRead, D!HandleStore, D!Unblock, D!In, NoEntry
<1> QED BY <1>8, <1>9, <1>10, <1>11, <1>12, <1>13, <1>14, <1>15, <1>16 DEF D!HandlerStep

-----------------------------------------------------------------------------
(* The disk.  sRead: one read at a time.                                    *)

\* main is between two reads, or its read is under way.
Between == /\ prq = <<>> /\ Doing = {} /\ i <= NumBlocks
           /\ \/ place[D!Main] = "next"
              \/ place[D!Main] = "sched" /\ flag /\ i < NumBlocks
Waiting == /\ place[D!Main] = "spin" /\ i < NumBlocks
           /\ \/ flag /\ Doing = {} /\ Pends(i)
              \/ /\ prq = <<>> /\ data[0] = D!Block(i)
                 /\ \/ flag /\ \E x \in {"deliver", "isr"} : Doing = {x}
                    \/ ~flag /\ Doing = {}
ReadStage == Between \/ Waiting

\* The invariant of sRead.
OneRead == client = "sRead" => Alone /\ sum = Upto(i) /\ ReadStage

\* The steps of main.
LEMMA ReadThread ==
  ASSUME DiskTypes, Alone, sum = Upto(i), ReadStage, client = "sRead", D!ThreadStep
  PROVE  Alone' /\ sum' = Upto(i') /\ ReadStage' /\ (stopped' # "no" => sum' = Upto(NumBlocks))
<1>1. /\ frames = <<>> /\ frames' = frames /\ UNCHANGED <<client, data>> /\ stopped = "no"
      /\ ThreadTypes /\ FrameTypes /\ ReadTypes /\ DataTypes /\ cur = D!Main
  BY ThreadsLeave DEF DiskTypes, ThreadTypes
<1>2. Alone' /\ Doing' = Doing /\ Doing = {}
  BY <1>1, WorkKept, AtWork
<1>3. D!SRead
  BY <1>1, DiskNumbers DEF D!ThreadStep, D!HStart, D!HFinish, D!ASchedules,
     D!TCreate, D!TJoin, D!TJoined, D!TExit, D!TSchedule, D!TEnqueue, D!TBlock, D!TAdd,
     D!TReturn, D!IdleDequeue, D!IdleSleep, D!IdleWake, D!On
<1>4. CASE D!SPending
  <2>1. /\ place[D!Main] = "next" /\ i < NumBlocks /\ flag' = TRUE /\ D!Go("sched")
        /\ UNCHANGED <<prq, sum, i, stopped>>
    BY <1>4 DEF D!SPending, D!On, D!disk
  <2>2. place'[D!Main] = "sched"
    BY <1>1, <2>1, Going DEF Places
  <2>3. Between
    BY <2>1 DEF ReadStage, Waiting
  <2> QED BY <1>1, <1>2, <2>1, <2>2, <2>3 DEF ReadStage, Between
<1>5. CASE D!SSchedule
  <2>1. /\ place[D!Main] = "sched" /\ D!Schedule(0, i) /\ D!Go("spin")
        /\ UNCHANGED <<flag, sum, i, stopped>>
    BY <1>5 DEF D!SSchedule, D!On, D!app
  <2>2. place'[D!Main] = "spin"
    BY <1>1, <2>1, Going DEF Places
  <2>3. Between /\ i < NumBlocks /\ flag
    BY <2>1 DEF ReadStage, Between, Waiting
  <2>4. prq' = <<[buf |-> 0, block |-> i]>>
    BY <2>1, <2>3 DEF Between, D!Schedule
  <2> QED BY <1>1, <1>2, <2>1, <2>2, <2>3, <2>4 DEF ReadStage, Waiting, Pends
<1>6. CASE D!SSpun(flag)
  <2>1. /\ place[D!Main] = "spin" /\ ~flag /\ sum' = sum + data[0] /\ i' = i + 1 /\ D!Go("next")
        /\ UNCHANGED <<prq, stopped>>
    BY <1>6 DEF D!SSpun, D!On, D!disk
  <2>2. place'[D!Main] = "next"
    BY <1>1, <2>1, Going DEF Places
  <2>3. i < NumBlocks /\ prq = <<>> /\ data[0] = D!Block(i)
    BY <2>1 DEF ReadStage, Between, Waiting
  <2>4. i \in 0 .. NumBlocks - 1 /\ i' <= NumBlocks
    BY <1>1, <2>1, <2>3, DiskNumbers DEF DataTypes
  <2>5. sum' = Upto(i')
    BY <2>1, <2>3, <2>4, Totals
  <2> QED BY <1>1, <1>2, <2>1, <2>2, <2>3, <2>4, <2>5 DEF ReadStage, Between
<1>7. CASE D!On(D!Main, "next") /\ i = NumBlocks /\ UNCHANGED <<D!disk, D!app, D!sched>>
  <2>1. /\ UNCHANGED <<prq, sum, i, flag, place, data>>
    BY <1>7 DEF D!disk, D!app, D!sched
  <2>2. Between /\ i = NumBlocks
    BY <1>7 DEF D!On, ReadStage, Waiting
  <2> QED BY <1>2, <2>1, <2>2 DEF ReadStage, Between
<1> QED BY <1>3, <1>4, <1>5, <1>6, <1>7 DEF D!SRead

\* The steps of handlers.
LEMMA ReadHandler ==
  ASSUME DiskTypes, Alone, ReadStage, client = "sRead", D!Time \/ D!Tick \/ D!HandlerStep
  PROVE  Alone' /\ UNCHANGED <<sum, i>> /\ ReadStage' /\ stopped' = "no"
<1>1. ThreadTypes /\ FrameTypes /\ ReadTypes /\ DataTypes
  BY DEF DiskTypes
<1>2. UNCHANGED <<client, i>> /\ place'[D!Main] = place[D!Main]
  BY <1>1, HandlersKeep, DiskNumbers
<1>3. /\ frames # <<>> => D!Top \in Frame /\ D!Top.pc \in NoEntry
      /\ WithEntry = {}
  BY <1>1, TopFrame DEF Frame, WithEntry
<1>4. \A x \in NoEntry \cup WithEntry :
        frames # <<>> /\ D!To(x) => \E e \in Frame : Becomes(e) /\ e.pc = x
  BY <1>1, Resuming
<1>5. ASSUME UNCHANGED <<prq, flag, data>>,
             \/ frames' = frames
             \/ \E e \in Frame : e.pc = "scan" /\ frames' = Append(frames, e)
             \/ frames # <<>> /\ D!Top.pc = "scan" /\ frames' = D!Front(frames)
             \/ frames # <<>> /\ D!Top.pc = "end" /\ \E e \in Frame : e.pc = "scan" /\ Becomes(e)
      PROVE  Alone' /\ ReadStage'
  <2>1. Alone' /\ Doing' = Doing
    BY <1>1, <1>2, <1>5, WorkKept
  <2> QED BY <1>2, <1>5, <2>1 DEF ReadStage, Between, Waiting, Pends
<1>6. \A x \in NoEntry :
        frames # <<>> /\ D!To(x) /\ D!Top.pc \notin {"scan", "end"} =>
          Alone' /\ Doing = {D!Top.pc} /\ Doing' = {x} \ {"scan", "end"}
  <2> SUFFICES ASSUME NEW x \in NoEntry, frames # <<>>, D!To(x), D!Top.pc \notin {"scan", "end"}
               PROVE  Alone' /\ Doing = {D!Top.pc} /\ Doing' = {x} \ {"scan", "end"}
    OBVIOUS
  <2>1. PICK e \in Frame : Becomes(e) /\ e.pc = x
    BY <1>4
  <2> QED BY <1>1, <1>2, <1>3, <2>1, AtWork, WorkTurned
<1>7. CASE D!Time
  BY <1>5, <1>7 DEF D!Time, D!app
<1>8. CASE D!Tick
  <2> DEFINE e == [pc |-> "scan", entry |-> <<>>, reg |-> 0]
  <2>1. e \in Frame /\ e.pc = "scan"
    BY DEF Frame, NoEntry
  <2> HIDE DEF e
  <2> QED BY <1>5, <1>8, <2>1 DEF D!Tick, D!disk, D!app, e
<1>9. CASE D!Scan
  <2>1. frames # <<>> /\ D!Top.pc = "scan" /\ UNCHANGED <<flag, sum, stopped>> /\ stopped = "no"
    BY <1>9 DEF D!Scan, D!In
  <2>2. CASE due > 0
    <3>1. /\ data' = [data EXCEPT ![Head(prq).buf] = D!Block(Head(prq).block)]
          /\ prq' = Tail(prq) /\ D!To("deliver") /\ prq # <<>>
      BY <1>1, <1>9, <2>2, EmptySeq DEF D!Scan, ReadTypes
    <3>2. Doing = {} /\ flag /\ place[D!Main] = "spin" /\ Pends(i) /\ i < NumBlocks
      BY <3>1 DEF ReadStage, Between, Waiting
    <3>3. PICK e \in Frame : Becomes(e) /\ e.pc = "deliver"
      BY <1>4, <2>1, <3>1 DEF NoEntry
    <3>4. Alone' /\ Doing' = {"deliver"}
      BY <1>1, <1>2, <1>3, <2>1, <3>2, <3>3, WorkTurned
    <3>5. Head(prq).buf = 0 /\ Head(prq).block = i /\ Tail(prq) = <<>>
      BY <3>2 DEF Pends
    <3>6. data'[0] = D!Block(i) /\ prq' = <<>>
      BY <1>1, <3>1, <3>5, DiskNumbers DEF DataTypes
    <3> QED BY <1>2, <2>1, <3>2, <3>4, <3>6 DEF ReadStage, Waiting
  <2>3. CASE frames' = D!Front(frames) /\ UNCHANGED <<D!disk, data>>
    BY <1>2, <1>5, <2>1, <2>3 DEF D!disk
  <2> QED BY <1>9, <2>1, <2>2, <2>3 DEF D!Scan
<1>10. CASE D!SetInterrupt
  <2>1. UNCHANGED <<prq, flag, sum, data, stopped>> /\ stopped = "no" /\ frames # <<>>
    BY <1>10 DEF D!SetInterrupt, D!disk, D!app, D!In
  <2>2. CASE D!Top.pc = "end" /\ D!To("scan")
    <3>1. \E e \in Frame : e.pc = "scan" /\ Becomes(e)
      BY <1>4, <2>1, <2>2 DEF NoEntry
    <3> QED BY <1>2, <1>5, <2>1, <2>2, <3>1
  <2>3. CASE D!Top.pc = "deliver" /\ D!To("isr")
    <3>1. Alone' /\ Doing = {"deliver"} /\ Doing' = {"isr"}
      BY <1>6, <2>1, <2>3 DEF NoEntry
    <3>2. /\ flag /\ place[D!Main] = "spin" /\ i < NumBlocks /\ prq = <<>> /\ data[0] = D!Block(i)
      BY <3>1 DEF ReadStage, Between, Waiting
    <3> QED BY <1>2, <2>1, <3>1, <3>2 DEF ReadStage, Waiting
  <2> QED BY <1>10, <2>1, <2>2, <2>3 DEF D!SetInterrupt, D!In
<1>11. CASE D!SInterrupt
  <2>1. /\ UNCHANGED <<prq, sum, data, stopped>> /\ stopped = "no" /\ frames # <<>>
        /\ D!Top.pc = "isr" /\ D!To("end") /\ flag' = FALSE
    BY <1>11 DEF D!SInterrupt, D!disk, D!In
  <2>2. Alone' /\ Doing = {"isr"} /\ Doing' = {}
    BY <1>6, <2>1 DEF NoEntry
  <2>3. /\ place[D!Main] = "spin" /\ i < NumBlocks /\ prq = <<>> /\ data[0] = D!Block(i)
    BY <2>2 DEF ReadStage, Between, Waiting
  <2> QED BY <1>2, <2>1, <2>2, <2>3 DEF ReadStage, Waiting
<1>12. ~D!InterruptDequeues
  <2> SUFFICES ASSUME frames # <<>>, D!Top.pc = "dequeue" PROVE FALSE
    BY DEF D!InterruptDequeues, D!In
  <2>1. Doing = {"dequeue"}
    BY <1>1, AtWork
  <2> QED BY <2>1 DEF ReadStage, Between, Waiting
<1>13. ~D!InterruptLocks /\ ~D!HandleRead /\ ~D!HandleStore /\ ~D!Unblock /\ ~D!HandleHunt /\ ~D!NextRead
  BY <1>3 DEF D!InterruptLocks, D!HandleRead, D!HandleStore, D!Unblock, D!HandleHunt, D!NextRead,
              D!In, NoEntry
<1> QED BY <1>7, <1>8, <1>9, <1>10, <1>11, <1>12, <1>13 DEF D!HandlerStep

-----------------------------------------------------------------------------
(* The disk.  Data come before whoever waits for them.                      *)

\* The client and how it is to be interrupted are fixed.
LEMMA Fixed == [D!Next]_(D!vars) => UNCHANGED <<client, start, prompt>>
BY DEF D!Next, D!ThreadStep, D!SRead, D!SPending, D!SSchedule, D!SSpun, D!ASchedules, D!HStart,
       D!HFinish, D!TCreate, D!TJoin, D!TJoined, D!TExit, D!TSchedule, D!TEnqueue, D!TBlock, D!TAdd,
       D!TReturn, D!IdleDequeue, D!IdleSleep, D!IdleWake, D!Time, D!Tick, D!HandlerStep, D!Scan,
       D!SetInterrupt, D!SInterrupt, D!InterruptLocks, D!InterruptDequeues, D!HandleRead,
       D!HandleStore, D!Unblock, D!HandleHunt, D!NextRead, D!vars, D!fixed

\* What sRead and treasureHunt rest on.
Stages == OneRead /\ OneHunt

LEMMA StagesInit == D!Init => Stages
<1> SUFFICES ASSUME D!Init PROVE Stages
  OBVIOUS
<1>1. Alone /\ Doing = {}
  BY DEF D!Init, Alone, Doing, Active
<1>2. place[D!Main] = "next"
  BY DiskNumbers DEF D!Init
<1>3. 0 <= NumBlocks
  BY DiskNumbers
<1> QED BY <1>1, <1>2, <1>3, Totals
      DEF D!Init, Stages, OneRead, OneHunt, ReadStage, Between, HuntStage, Prepares

LEMMA StagesStep == DiskTypes /\ Stages /\ [D!Next]_(D!vars) => Stages'
<1> SUFFICES ASSUME DiskTypes, Stages, [D!Next]_(D!vars) PROVE Stages'
  OBVIOUS
<1>1. UNCHANGED <<client, start, prompt>>
  BY Fixed
<1>2. CASE UNCHANGED D!vars
  <2>1. UNCHANGED <<start, prq, queue, flag, hops, data, place, frames, sum, i, client>>
    BY <1>2 DEF D!vars, D!fixed, D!disk, D!app, D!sched
  <2>2. Alone' = Alone /\ Doing' = Doing
    BY <2>1 DEF Alone, Doing, Active, WithEntry
  <2> QED BY <2>1, <2>2, HuntKept DEF Stages, OneRead, OneHunt, ReadStage, Between, Waiting, Pends
<1>3. CASE client = "sRead" /\ D!Next
  <2>1. Alone' /\ sum' = Upto(i') /\ ReadStage'
    BY <1>3, ReadThread, ReadHandler DEF D!Next, Stages, OneRead
  <2> QED BY <1>1, <1>3, <2>1 DEF Stages, OneRead, OneHunt
<1>4. CASE client = "treasureHunt" /\ D!Next
  <2>1. Alone' /\ HuntStage'
    BY <1>4, HuntThread, HuntHandler DEF D!Next, Stages, OneHunt
  <2> QED BY <1>1, <1>4, <2>1 DEF Stages, OneRead, OneHunt
<1> QED BY <1>1, <1>2, <1>3, <1>4 DEF Stages, OneRead, OneHunt

LEMMA StagesAlways == D!Spec => []Stages
BY StagesInit, StagesStep, DiskTypesAlways, PTL DEF D!Spec

\* A client that is prompt has left the processor when a handler comes.
Waits == prompt /\ frames # <<>> => cur \in {D!Main, D!Idle}
\* Only tRead, when it is not prompt, finds the queue empty.
NoCrash == stopped = "crash" => client = "tRead" /\ ~prompt

\* Handlers come when a prompt client waits.
LEMMA WaitsStep == DiskTypes /\ Waits /\ [D!Next]_(D!vars) => Waits'
<1> SUFFICES ASSUME DiskTypes, Waits, [D!Next]_(D!vars) PROVE Waits'
  OBVIOUS
<1>1. CASE D!ThreadStep
  BY <1>1, ThreadsLeave DEF Waits
<1>2. CASE D!Time \/ D!Tick \/ D!HandlerStep
  <2>1. UNCHANGED <<prompt, cur>>
    BY <1>2, HandlersKeep DEF DiskTypes
  <2>2. CASE D!Tick
    BY <2>1, <2>2 DEF D!Tick, D!Quiet, Waits
  <2>3. CASE D!Time \/ D!HandlerStep
    <3>1. frames' # <<>> => frames # <<>>
      BY <2>3 DEF D!Time, D!HandlerStep, D!Scan, D!SetInterrupt, D!SInterrupt, D!InterruptLocks,
         D!InterruptDequeues, D!HandleRead, D!HandleStore, D!Unblock, D!HandleHunt, D!NextRead, D!In
    <3> QED BY <2>1, <3>1 DEF Waits
  <2> QED BY <1>2, <2>2, <2>3
<1>3. CASE UNCHANGED D!vars
  BY <1>3 DEF D!vars, D!fixed, D!sched, Waits
<1> QED BY <1>1, <1>2, <1>3 DEF D!Next

\* Only tRead can find the queue empty.
LEMMA NoCrashStep ==
  DiskTypes /\ Stages /\ Paired /\ Waits /\ NoCrash /\ [D!Next]_(D!vars) => NoCrash'
<1> SUFFICES ASSUME DiskTypes, Stages, Paired, Waits, NoCrash, [D!Next]_(D!vars), stopped' = "crash"
             PROVE  client = "tRead" /\ ~prompt
  BY Fixed DEF NoCrash
<1>1. CASE stopped' = stopped
  BY <1>1 DEF NoCrash
<1>2. CASE D!InterruptDequeues /\ queue = <<>>
  <2>1. /\ frames # <<>> /\ D!Top.pc = "dequeue" /\ FrameTypes /\ ThreadTypes
        /\ client \in {"sRead", "aRead", "tRead", "treasureHunt"}
    BY <1>2 DEF D!InterruptDequeues, D!In, DiskTypes, ClientTypes
  <2>2. client # "sRead" /\ client # "treasureHunt"
    BY <1>2, ReadHandler, HuntHandler DEF D!HandlerStep, Stages, OneRead, OneHunt
  <2>3. Matched
    BY <2>1, <2>2 DEF Paired
  <2>4. Served # 0 /\ Served \in Nat
    <3>1. Len(frames) \in Delivering
      BY <2>1, TopFrame DEF Delivering, Finding
    <3> QED BY <2>1, <3>1, ServedType, FS_EmptySet DEF Served
  <2>5. Len(queue) = 0 /\ Len(prq) \in Nat
    BY <1>2, QueueEntries DEF DiskTypes
  <2>6. ReadAhead
    BY <2>3, <2>4, <2>5 DEF Matched
  <2>7. client = "tRead" /\ cur \in D!Readers
    BY <2>1, <2>6, DiskNumbers DEF ReadAhead, ThreadTypes, IdlePlaces
  <2> QED BY <2>1, <2>7, DiskNumbers DEF Waits
<1> QED BY <1>1, <1>2
      DEF D!Next, D!ThreadStep, D!SRead, D!SPending, D!SSchedule, D!SSpun, D!ASchedules, D!HStart,
       D!HFinish, D!TCreate, D!TJoin, D!TJoined, D!TExit, D!TSchedule, D!TEnqueue, D!TBlock, D!TAdd,
       D!TReturn, D!IdleDequeue, D!IdleSleep, D!IdleWake, D!Time, D!Tick, D!HandlerStep, D!Scan,
       D!SetInterrupt, D!SInterrupt, D!InterruptLocks, D!InterruptDequeues, D!HandleRead,
       D!HandleStore, D!Unblock, D!HandleHunt, D!NextRead, D!vars, D!Exit

LEMMA NoCrashAlways == D!Spec => [](Waits /\ NoCrash)
<1>1. D!Init => Waits /\ NoCrash
  BY DEF D!Init, Waits, NoCrash
<1> QED BY <1>1, WaitsStep, NoCrashStep, DiskTypesAlways, StagesAlways, PairedAlways, PTL DEF D!Spec

\* disk.c, queue.c and the four programs: whoever a handler takes from the queue, a
\* callback or a reader, has its data in the buffer and no read pending for it, at
\* whatever points handlers interrupt the threads and one another; only tRead, which
\* schedules its read before it queues itself, can have the queue found empty.
THEOREM DiskReaders == D!Spec => []DataBeforeReader
<1>1. DiskTypes /\ Stages /\ Paired /\ NoCrash => DataBeforeReader
  <2> SUFFICES ASSUME DiskTypes, Stages, Paired, NoCrash, NEW n \in DOMAIN frames,
                      frames[n].pc \in Passing \cup {"first", "other"}
               PROVE  LET r == frames[n].entry[1]
                      IN  data[r] # Garbage /\ \A k1 \in DOMAIN prq : prq[k1].buf # r
    BY DEF DataBeforeReader, D!DataBeforeReader, D!Range, NoCrash, Passing
  <2> DEFINE r == frames[n].entry[1]
  <2>1. /\ FrameTypes /\ frames[n] \in Frame /\ frames[n].pc \in WithEntry
        /\ client \in {"aRead", "tRead", "treasureHunt"}
    <3>1. FrameTypes /\ frames[n] \in Frame
      BY PassingEntry DEF DiskTypes
    <3> QED BY <3>1 DEF Frame, NoEntry, WithEntry, Passing, DiskTypes, ClientTypes
  <2>2. CASE client \in {"aRead", "tRead"}
    <3>1. frames[n].pc \in Passing
      BY <2>1, <2>2 DEF WithEntry, Passing
    <3>2. r \in InPlace
      BY <2>2, <3>1 DEF Paired, Passed
    <3>3. data[r] = D!Block(r) /\ r \in Int /\ \A k1 \in DOMAIN prq : prq[k1].buf # r
      BY <3>2, DiskNumbers DEF InPlace, Asked
    <3>4. D!Block(r) # Garbage
      BY <3>3, BlockType
    <3> QED BY <3>3, <3>4
  <2>3. CASE client = "treasureHunt"
    <3>1. Alone /\ HuntStage /\ frames[n].pc \in {"first", "other"}
      BY <2>1, <2>3 DEF Stages, OneHunt, WithEntry, Passing
    <3>2. n \in Active /\ frames[n].pc \in Doing
      BY <3>1 DEF Active, Doing
    <3>3. r = 0
      BY <2>1, <3>1, <3>2 DEF Alone
    <3>4. Counts
      BY <3>1, <3>2 DEF HuntStage, Prepares, Reads, Finds, GoesOn, Arrived
    <3>5. prq = <<>> /\ data[0] # Garbage
      BY <3>4 DEF Counts, AtFirst, Following
    <3>6. \A k1 \in DOMAIN prq : prq[k1].buf # r
      BY <3>5
    <3> QED BY <3>3, <3>5, <3>6
  <2> QED BY <2>1, <2>2, <2>3
<1> QED BY <1>1, DiskTypesAlways, StagesAlways, PairedAlways, NoCrashAlways, PTL

-----------------------------------------------------------------------------
(* The disk.  What sRead and treasureHunt print.                            *)

\* A program that has ended has found its answer.
Printed ==
  stopped = "exit" =>
    IF client = "treasureHunt" THEN flag
    ELSE prompt \/ client # "aRead" => sum = Upto(NumBlocks)

\* sRead and treasureHunt end with their answers.
LEMMA PrintedAlone ==
  ASSUME DiskTypes, Stages, client \in {"sRead", "treasureHunt"}, D!Next, stopped' = "exit"
  PROVE  Printed'
<1>1. client' = client
  BY Fixed
<1>2. D!ThreadStep
  BY ReadHandler, HuntHandler DEF D!Next, Stages, OneRead, OneHunt
<1>3. CASE client = "sRead"
  <2>1. sum' = Upto(NumBlocks)
    BY <1>2, <1>3, ReadThread DEF Stages, OneRead
  <2> QED BY <1>1, <1>3, <2>1 DEF Printed
<1>4. CASE client = "treasureHunt"
  <2>1. flag /\ stopped = "no"
    BY <1>2, <1>4, HuntThread, ThreadsLeave DEF Stages, OneHunt
  <2>2. flag' = flag
    BY <1>2, <1>4, <2>1 DEF D!ThreadStep, D!SRead, D!SPending, D!SSchedule, D!SSpun, D!ASchedules,
       D!HStart, D!HFinish, D!TCreate, D!TJoin, D!TJoined, D!TExit, D!TSchedule, D!TEnqueue,
       D!TBlock, D!TAdd, D!TReturn, D!IdleDequeue, D!IdleSleep, D!IdleWake, D!app
  <2> QED BY <1>1, <1>4, <2>1, <2>2 DEF Printed
<1> QED BY <1>3, <1>4

\* The answer is what the blocks hold.
LEMMA PrintedRight == DiskTypes /\ Stages /\ Printed => RightAnswer
<1> SUFFICES ASSUME DiskTypes, Stages, Printed, stopped = "exit", prompt \/ client # "aRead"
             PROVE  D!Answer
  BY DEF RightAnswer, D!RightAnswer
<1>1. CASE client = "treasureHunt"
  <2>1. flag /\ HuntStage
    BY <1>1 DEF Printed, Stages, OneHunt
  <2>2. data[0] = Hunted[D!Block(start)]
    BY <2>1 DEF HuntStage, Prepares, Arrived
  <2>3. Hunted[D!Block(start)] = D!Treasure
    BY Hunts DEF DiskTypes, ClientTypes
  <2> QED BY <1>1, <2>2, <2>3 DEF D!Answer
<1>2. CASE client # "treasureHunt"
  BY <1>2, Totals DEF Printed, D!Answer
<1> QED BY <1>1, <1>2

-----------------------------------------------------------------------------
(* The disk.  aRead: the blocks are queued in turn, and their handlers add  *)
(* them in turn unless they nest.                                           *)

\* The block of the entry that is the next to be taken from the queue.
Taken == (IF EntryAhead THEN i + 1 ELSE i) - Len(queue)
\* The entry for the block b.
EntryOf(b) == [val |-> b, callback |-> IF b = NumBlocks - 1 THEN "read_and_exit" ELSE "read"]

\* The queue has the entries of the blocks in turn.
InTurn ==
  /\ i <= NumBlocks /\ (EntryAhead => i < NumBlocks) /\ Taken >= 0
  /\ \A n \in DOMAIN queue : queue[n] = EntryOf(Taken + (n - 1))

\* How far the handler has come with the block it has taken, if any.
AddStage ==
  \/ (frames # <<>> => D!Top.pc \in NoEntry) /\ sum = Upto(Taken)
  \/ /\ frames # <<>> /\ D!Top.pc \in {"read", "read_and_exit"}
     /\ D!Top.entry = <<Taken - 1>> /\ sum = Upto(Taken - 1)
     /\ D!Top.pc = "read_and_exit" => Taken = NumBlocks
  \/ /\ frames # <<>> /\ D!Top.pc \in {"store", "exit"}
     /\ D!Top.reg = Upto(Taken)
     /\ D!Top.pc = "exit" => Taken = NumBlocks

\* The invariant of aRead.
OneAtATime ==
  client = "aRead" =>
    /\ InTurn
    /\ prompt => Len(frames) <= 1 /\ AddStage

\* The innermost handler after its step.
LEMMA TopTurned ==
  ASSUME FrameTypes, frames # <<>>, NEW e \in Frame, Becomes(e)
  PROVE  D!Top' = e /\ frames' # <<>> /\ Len(frames') = Len(frames)
<1>1. Len(frames') = Len(frames) /\ frames' # <<>> /\ frames'[Len(frames)] = e
  BY Becoming
<1> QED BY <1>1 DEF D!Top

\* main queues the blocks in turn.
LEMMA AddThread ==
  ASSUME DiskTypes, client = "aRead", InTurn, D!ThreadStep
  PROVE  InTurn' /\ Taken' = Taken /\ stopped' = "no"
<1>1. /\ client' = client /\ stopped = "no" /\ ThreadTypes /\ cur = D!Main
      /\ i \in Nat /\ Len(queue) \in Nat /\ DOMAIN queue = 1..Len(queue)
  BY ThreadsLeave, QueueEntries DEF DiskTypes, ThreadTypes, DataTypes
<1>2. D!ASchedules
  BY <1>1, DiskNumbers DEF D!ThreadStep, D!SRead, D!SPending, D!SSchedule, D!SSpun, D!HStart,
     D!HFinish, D!TCreate, D!TJoin, D!TJoined, D!TExit, D!TSchedule, D!TEnqueue, D!TBlock, D!TAdd,
     D!TReturn, D!IdleDequeue, D!IdleSleep, D!IdleWake, D!On
<1>3. CASE place[D!Main] = "next"
  <2> DEFINE c == IF i = NumBlocks - 1 THEN "read_and_exit" ELSE "read"
  <2>1. /\ D!Queue(i, c) /\ D!Go("sched") /\ i' = i /\ i < NumBlocks /\ stopped' = stopped
    BY <1>2, <1>3 DEF D!ASchedules, D!On
  <2>2. i \in D!Readers /\ c \in Callback
    BY <1>1, <2>1, DiskNumbers DEF Callback
  <2>3. [val |-> i, callback |-> c] = EntryOf(i)
    BY DEF EntryOf
  <2> HIDE DEF c
  <2>4. /\ Len(queue') = Len(queue) + 1 /\ DOMAIN queue' = 1..(Len(queue) + 1)
        /\ queue'[Len(queue) + 1] = EntryOf(i)
        /\ \A n \in 1..Len(queue) : queue'[n] = queue[n]
    BY <2>1, <2>2, <2>3, Queueing DEF DiskTypes
  <2>5. ~EntryAhead /\ EntryAhead'
    BY <1>1, <1>3, <2>1, Going DEF EntryAhead, Places
  <2>6. Taken = i - Len(queue) /\ Taken' = (i + 1) - (Len(queue) + 1)
    BY <2>1, <2>4, <2>5 DEF Taken
  <2>7. Taken' = Taken /\ Taken \in Int /\ Taken + Len(queue) = i
    BY <1>1, <2>6
  <2>8. ASSUME NEW n \in 1..(Len(queue) + 1) PROVE queue'[n] = EntryOf(Taken + (n - 1))
    <3>1. CASE n = Len(queue) + 1
      <4>1. n - 1 = Len(queue)
        BY <1>1, <3>1
      <4> QED BY <2>4, <2>7, <3>1, <4>1
    <3>2. CASE n # Len(queue) + 1
      <4>1. n \in 1..Len(queue)
        BY <1>1, <3>2
      <4> QED BY <1>1, <2>4, <4>1 DEF InTurn
    <3> QED BY <3>1, <3>2
  <2> QED BY <1>1, <2>1, <2>4, <2>7, <2>8 DEF InTurn, EntryOf
<1>4. CASE place[D!Main] # "next"
  <2>1. /\ place[D!Main] = "sched" /\ D!Go("next") /\ i' = i + 1 /\ i < NumBlocks
        /\ queue' = queue /\ stopped' = stopped
    BY <1>2, <1>4 DEF D!ASchedules, D!On
  <2>2. EntryAhead /\ ~EntryAhead'
    BY <1>1, <2>1, Going DEF EntryAhead, Places
  <2>3. Taken' = Taken /\ i' <= NumBlocks
    BY <1>1, <2>1, <2>2, DiskNumbers DEF Taken
  <2> QED BY <1>1, <2>1, <2>2, <2>3 DEF InTurn, EntryOf
<1> QED BY <1>3, <1>4

\* An entry is taken.
LEMMA TurnTaken ==
  ASSUME DiskTypes, client = "aRead", InTurn, D!InterruptDequeues, queue # <<>>
  PROVE  InTurn' /\ Taken' = Taken + 1 /\ Head(queue) = EntryOf(Taken) /\ Taken \in Nat
<1> DEFINE l == Len(queue)
<1>1. /\ l \in Nat \ {0} /\ DOMAIN queue = 1..l /\ Len(queue') = l - 1
      /\ DOMAIN queue' = 1..(l - 1) /\ Head(queue) = queue[1]
      /\ \A m \in 1..(l - 1) : queue'[m] = queue[m + 1]
  BY Beheaded DEF DiskTypes, ReadTypes, D!InterruptDequeues
<1>2. /\ client' = client /\ i' = i /\ i \in Nat /\ (EntryAhead' <=> EntryAhead)
  BY HandlersKeep DEF DiskTypes, DataTypes, D!HandlerStep
<1>3. Taken = (IF EntryAhead THEN i + 1 ELSE i) - l /\ Taken' = (IF EntryAhead THEN i + 1 ELSE i) - (l - 1)
  BY <1>1, <1>2 DEF Taken
<1> HIDE DEF l
<1>4. Taken \in Nat /\ Taken' = Taken + 1
  <2>1. Taken >= 0
    BY DEF InTurn
  <2>2. \A x, y \in Int : y - (x - 1) = (y - x) + 1
    OBVIOUS
  <2> QED BY <1>1, <1>2, <1>3, <2>1, <2>2
<1>5. queue[1] = EntryOf(Taken)
  <2>1. 1 \in DOMAIN queue /\ Taken + (1 - 1) = Taken
    BY <1>1, <1>4
  <2> QED BY <2>1 DEF InTurn
<1>6. ASSUME NEW n \in DOMAIN queue' PROVE queue'[n] = EntryOf(Taken' + (n - 1))
  <2>1. n \in 1..(l - 1) /\ n + 1 \in DOMAIN queue
    BY <1>1, <1>6
  <2>2. Taken' + (n - 1) = Taken + ((n + 1) - 1)
    BY <1>1, <1>4, <2>1
  <2> QED BY <1>1, <2>1, <2>2 DEF InTurn
<1> QED BY <1>1, <1>2, <1>4, <1>5, <1>6 DEF InTurn, EntryOf

\* A handler goes on without an entry.
LEMMA AddKept ==
  ASSUME FrameTypes, InTurn, UNCHANGED <<queue, i, sum>>, EntryAhead' <=> EntryAhead,
         prompt => Len(frames) <= 1 /\ AddStage, prompt' = prompt, client' = client,
         \/ frames' = frames
         \/ /\ prompt => frames = <<>>
            /\ \E e \in Frame : e.pc \in NoEntry /\ frames' = Append(frames, e)
         \/ frames # <<>> /\ D!Top.pc \in NoEntry /\ frames' = D!Front(frames)
         \/ /\ frames # <<>> /\ D!Top.pc \in NoEntry
            /\ \E e \in Frame : e.pc \in NoEntry /\ Becomes(e)
  PROVE  InTurn' /\ (prompt => Len(frames') <= 1 /\ AddStage')
<1>1. InTurn' /\ Taken' = Taken
  BY DEF InTurn, Taken, EntryOf
<1>2. SUFFICES ASSUME prompt PROVE Len(frames') <= 1 /\ AddStage'
  BY <1>1
<1>3. CASE frames' = frames
  BY <1>1, <1>2, <1>3 DEF AddStage, D!Top
<1>4. ASSUME frames = <<>>, NEW e \in Frame, e.pc \in NoEntry, frames' = Append(frames, e)
      PROVE  Len(frames') <= 1 /\ AddStage'
  <2>1. Len(frames') = 1 /\ frames'[1] = e /\ frames' # <<>>
    BY <1>4, Appended DEF FrameTypes
  <2>2. D!Top' = e
    BY <2>1 DEF D!Top
  <2> QED BY <1>1, <1>2, <1>4, <2>1, <2>2 DEF AddStage
<1>5. CASE frames # <<>> /\ D!Top.pc \in NoEntry /\ frames' = D!Front(frames)
  <2>1. frames' \in Seq(Frame) /\ Len(frames) \in Nat \ {0} /\ Len(frames') = Len(frames) - 1
    BY <1>5, Popped DEF FrameTypes
  <2>2. Len(frames') = 0 /\ frames' = <<>>
    BY <1>2, <2>1, EmptySeq
  <2> QED BY <1>1, <1>2, <1>5, <2>2 DEF AddStage, NoEntry
<1>6. ASSUME frames # <<>>, D!Top.pc \in NoEntry, NEW e \in Frame, e.pc \in NoEntry, Becomes(e)
      PROVE  Len(frames') <= 1 /\ AddStage'
  <2>1. D!Top' = e /\ frames' # <<>> /\ Len(frames') = Len(frames)
    BY <1>6, TopTurned
  <2> QED BY <1>1, <1>2, <1>6, <2>1 DEF AddStage, NoEntry
<1> QED BY <1>2, <1>3, <1>4, <1>5, <1>6

\* Handlers add the blocks in turn.
LEMMA AddHandler ==
  ASSUME DiskTypes, client = "aRead", Paired, InTurn, prompt => Len(frames) <= 1 /\ AddStage,
         D!Time \/ D!Tick \/ D!HandlerStep
  PROVE  /\ InTurn' /\ (prompt => Len(frames') <= 1 /\ AddStage')
         /\ stopped' = "exit" /\ prompt => sum' = Upto(NumBlocks)
<1>1. ThreadTypes /\ FrameTypes /\ ReadTypes /\ DataTypes
  BY DEF DiskTypes
<1>2. UNCHANGED <<client, prompt, i, cur>> /\ (EntryAhead' <=> EntryAhead)
  BY <1>1, HandlersKeep
<1>3. /\ frames # <<>> => D!Top \in Frame /\ D!Top.pc \in NoEntry \cup WithEntry
      /\ WithEntry = {"read", "read_and_exit", "store", "exit"}
  BY <1>1, TopFrame DEF Frame, WithEntry
<1>4. ASSUME UNCHANGED <<queue, sum, stopped>>, stopped = "no",
             \/ frames' = frames
             \/ /\ prompt => frames = <<>>
                /\ \E e \in Frame : e.pc \in NoEntry /\ frames' = Append(frames, e)
             \/ frames # <<>> /\ D!Top.pc \in NoEntry /\ frames' = D!Front(frames)
             \/ /\ frames # <<>> /\ D!Top.pc \in NoEntry
                /\ \E e \in Frame : e.pc \in NoEntry /\ Becomes(e)
      PROVE  /\ InTurn' /\ (prompt => Len(frames') <= 1 /\ AddStage')
             /\ stopped' = "exit" /\ prompt => sum' = Upto(NumBlocks)
  BY <1>1, <1>2, <1>4, AddKept
<1>5. \A x \in NoEntry : frames # <<>> /\ D!To(x) => \E e \in Frame : e.pc \in NoEntry /\ Becomes(e)
  BY <1>1, Resuming
<1>6. CASE D!Time
  BY <1>4, <1>6 DEF D!Time, D!app
<1>7. CASE D!Tick
  <2> DEFINE e == [pc |-> "scan", entry |-> <<>>, reg |-> 0]
  <2>1. e \in Frame /\ e.pc \in NoEntry
    BY DEF Frame, NoEntry
  <2> HIDE DEF e
  <2> QED BY <1>4, <1>7, <2>1 DEF D!Tick, D!Quiet, D!app, e
<1>8. CASE D!Scan
  <2>1. frames # <<>> /\ D!Top.pc \in NoEntry /\ UNCHANGED <<queue, sum, stopped>> /\ stopped = "no"
    BY <1>8 DEF D!Scan, D!In, NoEntry
  <2>2. D!To("deliver") \/ frames' = D!Front(frames)
    BY <1>8 DEF D!Scan
  <2> QED BY <1>4, <1>5, <2>1, <2>2 DEF NoEntry
<1>9. CASE D!SetInterrupt \/ D!InterruptLocks
  <2>1. frames # <<>> /\ D!Top.pc \in NoEntry /\ UNCHANGED <<queue, sum, stopped>> /\ stopped = "no"
    BY <1>9 DEF D!SetInterrupt, D!InterruptLocks, D!In, D!app, NoEntry
  <2>2. D!To("isr") \/ D!To("scan") \/ D!To("dequeue")
    BY <1>9 DEF D!SetInterrupt, D!InterruptLocks
  <2> QED BY <1>4, <1>5, <2>1, <2>2 DEF NoEntry
<1>10. CASE D!InterruptDequeues
  <2>1. /\ frames # <<>> /\ D!Top.pc = "dequeue" /\ sum' = sum /\ stopped = "no"
        /\ stopped' # "exit"
    BY <1>10 DEF D!InterruptDequeues, D!In, D!app, D!Exit
  <2>2. CASE queue = <<>>
    <3>1. UNCHANGED <<frames, queue>>
      BY <1>10, <2>2 DEF D!InterruptDequeues
    <3>2. InTurn' /\ (prompt => Len(frames') <= 1 /\ AddStage')
      BY <1>1, <1>2, <2>1, <3>1, AddKept
    <3> QED BY <2>1, <3>2
  <2>3. CASE queue # <<>>
    <3> DEFINE e == [D!Top EXCEPT !.pc = Head(queue).callback, !.entry = <<Head(queue).val>>]
    <3>1. InTurn' /\ Taken' = Taken + 1 /\ Head(queue) = EntryOf(Taken) /\ Taken \in Nat
      BY <1>10, <2>3, TurnTaken
    <3>2. Head(queue) \in Pending
      BY <1>1, <2>3, Beheaded DEF ReadTypes
    <3>3. e \in Frame /\ e.pc = Head(queue).callback /\ e.entry = <<Head(queue).val>>
      BY <1>3, <2>1, <3>2 DEF Frame, Pending, Callback, WithEntry
    <3>4. Becomes(e)
      BY <1>10, <2>3 DEF D!InterruptDequeues, Becomes, D!Top
    <3> HIDE DEF e
    <3>5. D!Top' = e /\ frames' # <<>> /\ Len(frames') = Len(frames)
      BY <1>1, <2>1, <3>3, <3>4, TopTurned
    <3>6. e.entry = <<Taken>> /\ e.pc = IF Taken = NumBlocks - 1 THEN "read_and_exit" ELSE "read"
      BY <3>1, <3>3 DEF EntryOf
    <3>7. (Taken + 1) - 1 = Taken /\ (Taken = NumBlocks - 1 => Taken + 1 = NumBlocks)
      BY <3>1, DiskNumbers
    <3>8. prompt => sum = Upto(Taken)
      BY <2>1 DEF AddStage
    <3>9. prompt => AddStage'
      BY <2>1, <3>1, <3>5, <3>6, <3>7, <3>8 DEF AddStage
    <3> QED BY <2>1, <3>1, <3>5, <3>9
  <2> QED BY <2>2, <2>3
<1>11. CASE D!HandleRead
  <2> DEFINE x == IF D!Top.pc = "read" THEN "store" ELSE "exit"
             e == [D!Top EXCEPT !.pc = x, !.reg = sum + data[D!Top.entry[1]]]
  <2>1. /\ D!Top.pc \in {"read", "read_and_exit"} /\ Becomes(e) /\ frames # <<>>
        /\ stopped = "no" /\ UNCHANGED <<queue, sum, stopped>>
    BY <1>11 DEF D!HandleRead, D!In, Becomes, D!Top, D!app
  <2>2. D!Top.entry[1] \in D!Readers /\ D!Top \in Frame
    BY <1>1, <1>3, <2>1, TopFrame
  <2>3. sum + data[D!Top.entry[1]] \in Int
    BY <1>1, <2>2 DEF DataTypes
  <2>4. e \in Frame /\ e.pc = x /\ e.reg = sum + data[D!Top.entry[1]]
    BY <1>3, <2>2, <2>3 DEF Frame
  <2> HIDE DEF e
  <2>5. D!Top' = e /\ frames' # <<>> /\ Len(frames') = Len(frames)
    BY <1>1, <2>1, <2>4, TopTurned
  <2>6. InTurn' /\ Taken' = Taken
    BY <1>2, <2>1 DEF InTurn, Taken, EntryOf
  <2>7. ASSUME prompt PROVE sum + data[D!Top.entry[1]] = Upto(Taken)
    <3>1. D!Top.entry[1] = Taken - 1 /\ sum = Upto(Taken - 1)
      BY <2>1, <2>7 DEF AddStage, NoEntry
    <3>2. D!Top.entry[1] \in InPlace
      <4>1. Len(frames) \in DOMAIN frames /\ D!Top = frames[Len(frames)]
        BY <1>1, <2>1, TopFrame
      <4> QED BY <2>1, <4>1 DEF Paired, Passed, Passing
    <3>3. data[D!Top.entry[1]] = D!Block(Taken - 1)
      BY <3>1, <3>2 DEF InPlace
    <3>4. Taken - 1 \in 0 .. NumBlocks - 1
      BY <2>2, <3>1, DiskNumbers
    <3>5. (Taken - 1) + 1 = Taken
      <4>1. Taken \in Int
        BY <1>1, QueueEntries DEF Taken, DataTypes
      <4> QED BY <4>1
    <3> QED BY <3>1, <3>3, <3>4, <3>5, Totals
  <2>8. prompt => AddStage'
    BY <2>1, <2>4, <2>5, <2>6, <2>7 DEF AddStage, NoEntry
  <2> QED BY <2>1, <2>5, <2>6, <2>8
<1>12. CASE D!HandleStore
  <2>1. /\ D!Top.pc \in {"store", "exit"} /\ frames # <<>> /\ D!To("end")
        /\ queue' = queue /\ sum' = D!Top.reg /\ stopped = "no"
        /\ stopped' = "exit" => D!Top.pc = "exit"
    BY <1>12 DEF D!HandleStore, D!In, D!Exit
  <2>2. PICK e \in Frame : Becomes(e) /\ e.pc = "end"
    BY <1>1, <2>1, Resuming DEF NoEntry
  <2>3. D!Top' = e /\ frames' # <<>> /\ Len(frames') = Len(frames)
    BY <1>1, <2>1, <2>2, TopTurned
  <2>4. InTurn' /\ Taken' = Taken
    BY <1>2, <2>1 DEF InTurn, Taken, EntryOf
  <2>5. prompt => sum' = Upto(Taken) /\ (stopped' = "exit" => Taken = NumBlocks)
    BY <2>1 DEF AddStage, NoEntry
  <2>6. prompt => AddStage'
    BY <2>2, <2>3, <2>4, <2>5 DEF AddStage, NoEntry
  <2> QED BY <2>3, <2>4, <2>5, <2>6
<1>13. ~D!SInterrupt /\ ~D!Unblock /\ ~D!HandleHunt /\ ~D!NextRead
  BY <1>3 DEF D!SInterrupt, D!Unblock, D!HandleHunt, D!NextRead, D!In, NoEntry
<1> QED BY <1>6, <1>7, <1>8, <1>9, <1>10, <1>11, <1>12, <1>13 DEF D!HandlerStep

LEMMA OneAtATimeInit == D!Init => OneAtATime
<1> SUFFICES ASSUME D!Init, client = "aRead" PROVE InTurn /\ Len(frames) <= 1 /\ AddStage
  BY DEF OneAtATime
<1>1. ~EntryAhead /\ queue = <<>> /\ frames = <<>> /\ i = 0 /\ sum = 0
  BY DiskNumbers DEF D!Init, EntryAhead
<1>2. Taken = 0 /\ DOMAIN queue = {} /\ Len(frames) = 0
  BY <1>1 DEF Taken
<1>3. 0 <= NumBlocks
  BY DiskNumbers
<1> QED BY <1>1, <1>2, <1>3, Totals DEF InTurn, AddStage

LEMMA OneAtATimeStep == DiskTypes /\ Paired /\ OneAtATime /\ [D!Next]_(D!vars) => OneAtATime'
<1> SUFFICES ASSUME DiskTypes, Paired, OneAtATime, [D!Next]_(D!vars), client = "aRead"
             PROVE  OneAtATime'
  BY Fixed DEF OneAtATime
<1>1. /\ UNCHANGED <<client, prompt>> /\ InTurn /\ (prompt => Len(frames) <= 1 /\ AddStage)
  BY Fixed DEF OneAtATime
<1>2. CASE UNCHANGED D!vars
  <2>1. UNCHANGED <<queue, frames, i, sum, place>>
    BY <1>2 DEF D!vars, D!app, D!sched
  <2>2. Taken' = Taken /\ (EntryAhead' <=> EntryAhead)
    BY <1>1, <2>1 DEF Taken, EntryAhead
  <2> QED BY <1>1, <2>1, <2>2 DEF OneAtATime, InTurn, AddStage, D!Top, EntryOf
<1>3. CASE D!ThreadStep
  <2>1. InTurn' /\ Taken' = Taken /\ frames = <<>> /\ frames' = <<>>
    BY <1>1, <1>3, AddThread, ThreadsLeave
  <2>2. sum' = sum
    <3>1. cur = D!Main
      BY DEF DiskTypes, ThreadTypes
    <3> QED BY <1>3, <3>1, DiskNumbers DEF D!ThreadStep, D!SRead, D!SPending, D!SSchedule, D!SSpun,
       D!ASchedules, D!HStart, D!HFinish, D!TCreate, D!TJoin, D!TJoined, D!TExit, D!TSchedule,
       D!TEnqueue, D!TBlock, D!TAdd, D!TReturn, D!IdleDequeue, D!IdleSleep, D!IdleWake, D!On, D!app
  <2> QED BY <1>1, <2>1, <2>2 DEF OneAtATime, AddStage
<1>4. CASE D!Time \/ D!Tick \/ D!HandlerStep
  BY <1>1, <1>4, AddHandler DEF OneAtATime
<1> QED BY <1>2, <1>3, <1>4 DEF D!Next

\* aRead ends with the sum.
LEMMA PrintedInTurn ==
  ASSUME DiskTypes, Paired, OneAtATime, client = "aRead", D!Next, stopped' = "exit"
  PROVE  Printed'
<1>1. UNCHANGED <<client, prompt>>
  BY Fixed
<1>2. prompt => sum' = Upto(NumBlocks)
  BY AddThread, AddHandler DEF D!Next, OneAtATime
<1> QED BY <1>1, <1>2 DEF Printed

-----------------------------------------------------------------------------
(* The disk.  tRead: a reader runs on when its data are in place, and main  *)
(* joins it.                                                                *)

\* The threads that there are.
Created == {t \in D!Readers \cup {D!Main} : place[t] # "none"}
\* The readers that have queued themselves, and those that have ended.
Blocking == {r \in D!Readers : place[r] \notin {"none", "schedule", "enqueue"}}
Dead == {r \in D!Readers : place[r] = "dead"}
\* What each reader has added to the sum.
Added == [r \in D!Readers |-> IF place[r] \in {"return", "dead"} THEN D!Block(r) ELSE 0]

\* The queue is of readers that block, or are about to.
EntriesBlocking ==
  /\ \A n \in DOMAIN queue : queue[n].val \in Blocking
  /\ \A n \in DOMAIN frames : frames[n].pc \in Passing => frames[n].entry[1] \in Blocking
\* The ready queue is lined up.
Turns ==
  /\ LinedUp(runnable, Created, Blocking, InPlace)
  /\ cur \in Elems(runnable) => cur \in Blocking
  /\ place[cur] = "add" => cur \in InPlace
\* main is woken from a join by the end of the one it waits for.
Joinings ==
  /\ D!Main \in Elems(runnable) \/ (cur = D!Main /\ place[D!Main] = "joining") =>
       place[D!Main] = "joining" /\ i - NumBlocks \in done
  /\ done = Dead
  /\ \A r \in D!Readers : r < i - NumBlocks => r \in done

\* The invariant of tRead.
InThreads == EntriesBlocking /\ Turns /\ Joinings /\ sum = Sum(Added)
Threaded == client = "tRead" => InThreads

\* A reader goes on to the place s.
LEMMA ReaderOn ==
  ASSUME ThreadTypes, NEW r \in D!Readers, NEW s \in ReaderPlaces \ {"none"},
         place' = [place EXCEPT ![r] = s], place[r] # "dead", client = "tRead", client' = client
  PROVE  /\ Created' = Created \cup {r}
         /\ Blocking' = IF s \in {"schedule", "enqueue"} THEN Blocking \ {r} ELSE Blocking \cup {r}
         /\ Asked' = IF s = "schedule" THEN Asked \ {r} ELSE Asked \cup {r}
         /\ Dead' = IF s = "dead" THEN Dead \cup {r} ELSE Dead
         /\ Added' = [Added EXCEPT ![r] = IF s \in {"return", "dead"} THEN D!Block(r) ELSE 0]
         /\ place'[D!Main] = place[D!Main]
<1>1. place'[r] = s /\ \A t \in D!Threads : t # r => place'[t] = place[t]
  BY DiskNumbers DEF ThreadTypes
<1>2. Created' = Created \cup {r} /\ place'[D!Main] = place[D!Main]
  BY <1>1, DiskNumbers DEF Created
<1>3. Blocking' = IF s \in {"schedule", "enqueue"} THEN Blocking \ {r} ELSE Blocking \cup {r}
  BY <1>1, DiskNumbers DEF Blocking, ReaderPlaces
<1>4. Asked' = IF s = "schedule" THEN Asked \ {r} ELSE Asked \cup {r}
  BY <1>1, DiskNumbers DEF Asked, ReaderPlaces
<1>5. Dead' = IF s = "dead" THEN Dead \cup {r} ELSE Dead
  BY <1>1, DiskNumbers DEF Dead
<1>6. Added' = [Added EXCEPT ![r] = IF s \in {"return", "dead"} THEN D!Block(r) ELSE 0]
  <2>1. \A t \in D!Readers : t # r => place'[t] = place[t]
    BY <1>1, DiskNumbers
  <2> QED BY <1>1, <2>1 DEF Added
<1> QED BY <1>2, <1>3, <1>4, <1>5, <1>6

\* The readers stay where they are.
LEMMA ReadersStay ==
  ASSUME \A r \in D!Readers : place'[r] = place[r],
         place[D!Main] # "none", place'[D!Main] # "none", client = "tRead", client' = client
  PROVE  /\ Created' = Created /\ Blocking' = Blocking /\ Asked' = Asked
         /\ Dead' = Dead /\ Added' = Added
<1>1. Created' = Created
  BY DEF Created
<1>2. Blocking' = Blocking /\ Asked' = Asked /\ Dead' = Dead /\ Added' = Added
  BY DEF Blocking, Asked, Dead, Added
<1> QED BY <1>1, <1>2

\* What has been read stays in place.
LEMMA StaysInPlace ==
  ASSUME DiskTypes, Asked \subseteq Asked',
         \/ UNCHANGED <<prq, data>>
         \/ D!Scan
         \/ data' = data /\ \E r \in D!Readers : r \notin Asked /\ D!Schedule(r, r)
  PROVE  InPlace \subseteq InPlace'
<1>1. ReadTypes /\ DataTypes
  BY DEF DiskTypes
<1>2. CASE UNCHANGED <<prq, data>>
  BY <1>2 DEF InPlace
<1>3. CASE D!Scan /\ ~UNCHANGED <<prq, data>>
  <2>1. /\ data' = [data EXCEPT ![Head(prq).buf] = D!Block(Head(prq).block)]
        /\ prq' = Tail(prq) /\ prq # <<>>
    BY <1>1, <1>3, EmptySeq DEF D!Scan, D!disk, ReadTypes
  <2> DEFINE l == Len(prq)
  <2>2. /\ l \in Nat \ {0} /\ DOMAIN prq = 1..l /\ DOMAIN prq' = 1..(l - 1)
        /\ Head(prq) = prq[1] /\ \A n \in 1..(l - 1) : prq'[n] = prq[n + 1]
    BY <1>1, <2>1, Beheaded DEF ReadTypes
  <2> HIDE DEF l
  <2>3. 1 \in DOMAIN prq /\ \A n \in DOMAIN prq' : n + 1 \in DOMAIN prq /\ prq'[n] = prq[n + 1]
    BY <2>2
  <2> SUFFICES ASSUME NEW b \in InPlace PROVE b \in InPlace'
    OBVIOUS
  <2>4. /\ b \in Asked' /\ b \in D!Readers /\ data[b] = D!Block(b)
        /\ \A n \in DOMAIN prq : prq[n].buf # b
    BY DEF InPlace, Asked
  <2>5. data'[b] = data[b]
    BY <1>1, <2>1, <2>2, <2>3, <2>4 DEF DataTypes
  <2> QED BY <2>3, <2>4, <2>5 DEF InPlace
<1>4. ASSUME data' = data, NEW r \in D!Readers, r \notin Asked, D!Schedule(r, r)
      PROVE  InPlace \subseteq InPlace'
  <2> DEFINE l == Len(prq)
  <2>1. /\ l \in Nat /\ DOMAIN prq = 1..l /\ DOMAIN prq' = 1..(l + 1)
        /\ prq'[l + 1].buf = r /\ \A n \in 1..l : prq'[n] = prq[n]
    <3>1. r \in Int
      BY DiskNumbers
    <3>2. /\ Len(prq) \in Nat /\ DOMAIN prq = 1..Len(prq) /\ DOMAIN prq' = 1..(Len(prq) + 1)
          /\ prq'[Len(prq) + 1] = [buf |-> r, block |-> r]
          /\ \A n \in 1..Len(prq) : prq'[n] = prq[n]
      BY <1>1, <1>4, <3>1, Scheduling
    <3> QED BY <3>2
  <2> HIDE DEF l
  <2>2. \A n \in DOMAIN prq' : n = l + 1 \/ (n \in DOMAIN prq /\ prq'[n] = prq[n])
    BY <2>1
  <2> QED BY <1>4, <2>1, <2>2 DEF InPlace
<1> QED BY <1>2, <1>3, <1>4

\* uthread_stop goes on with the first of q.
LEMMA Switched ==
  ASSUME ThreadTypes', NEW q \in Seq(D!Readers \cup {D!Main}),
         LinedUp(q, Created', Blocking', InPlace'),
         IF q = <<>> THEN cur' = D!Idle /\ runnable' = <<>> ELSE cur' = Head(q) /\ runnable' = Tail(q)
  PROVE  /\ Turns' /\ Elems(runnable') \subseteq Elems(q)
         /\ cur' = D!Main => D!Main \in Elems(q)
<1>1. CASE q = <<>>
  <2>1. Elems(runnable') = {}
    BY <1>1, EmptyQueue
  <2>2. cur' = D!Idle /\ place'[D!Idle] # "add" /\ D!Idle # D!Main
    BY <1>1, DiskNumbers DEF ThreadTypes, IdlePlaces
  <2> QED BY <1>1, <2>1, <2>2 DEF Turns
<1>2. CASE q # <<>>
  <2>1. /\ Head(q) \in Elems(q) /\ Elems(Tail(q)) \subseteq Elems(q)
        /\ Head(q) \in Elems(Tail(q)) => Head(q) \in Blocking'
        /\ LinedUp(Tail(q), Created', Blocking', InPlace')
    BY <1>2, LinedUpTail
  <2>2. cur' = Head(q) /\ runnable' = Tail(q)
    BY <1>2
  <2>3. place'[cur'] = "add" => cur' \in InPlace'
    <3>1. ASSUME place'[cur'] = "add" PROVE cur' \in Blocking'
      BY <3>1, DiskNumbers DEF Blocking, ThreadTypes, IdlePlaces
    <3> QED BY <2>1, <2>2, <3>1 DEF LinedUp
  <2> QED BY <2>1, <2>2, <2>3 DEF Turns
<1> QED BY <1>1, <1>2

\* A step that leaves the threads and what they have added where they are.
LEMMA InThreadsKept ==
  ASSUME ThreadTypes, ThreadTypes', InThreads, client = "tRead", client' = client,
         UNCHANGED <<cur, runnable, done, sum, i>>,
         \A t \in D!Threads : t # D!Idle => place'[t] = place[t],
         InPlace \subseteq InPlace', EntriesBlocking'
  PROVE  InThreads'
<1>1. /\ Created' = Created /\ Blocking' = Blocking /\ Dead' = Dead /\ Added' = Added
      /\ place'[D!Main] = place[D!Main]
  <2>1. /\ \A r \in D!Readers : place'[r] = place[r]
        /\ place[D!Main] # "none" /\ place'[D!Main] # "none" /\ place'[D!Main] = place[D!Main]
    BY DiskNumbers DEF ThreadTypes
  <2> QED BY <2>1, ReadersStay
<1>2. LinedUp(runnable, Created', Blocking', InPlace')
  BY <1>1, LinedUpMore DEF InThreads, Turns
<1>3. place'[cur] = "add" => place[cur] = "add"
  BY DiskNumbers DEF ThreadTypes, IdlePlaces
<1>4. Turns'
  BY <1>1, <1>2, <1>3 DEF InThreads, Turns
<1>5. Joinings'
  BY <1>1 DEF InThreads, Joinings
<1> QED BY <1>1, <1>4, <1>5 DEF InThreads

\* Readers and main are all there is to wait for.
LEMMA NotMain == D!Main \notin Blocking /\ D!Idle \notin Blocking
BY DiskNumbers DEF Blocking

\* All have been added up.
LEMMA AllAdded == (\A r \in D!Readers : place[r] = "dead") => Sum(Added) = Upto(NumBlocks)
<1> DEFINE F(m) == [r \in D!Readers |-> IF r < m THEN D!Block(r) ELSE 0]
           Bad == {m \in 0..NumBlocks : Sum(F(m)) # Upto(m)}
<1>1. /\ NumBlocks \in Nat /\ D!Readers = 0 .. NumBlocks - 1 /\ IsFiniteSet(D!Readers)
      /\ \A r \in D!Readers : D!Block(r) \in Int
  <2>1. NumBlocks \in Nat \ {0} /\ D!Readers = 0 .. NumBlocks - 1
    BY DiskNumbers
  <2>2. IsFiniteSet(D!Readers)
    BY <2>1, FS_Interval
  <2> QED BY <2>1, <2>2, BlockType
<1>2. Sum(F(0)) = 0
  <2>1. F(0) = [r \in D!Readers |-> 0]
    BY <1>1
  <2>2. Sum(F(0)) = Cardinality(D!Readers) * 0
    BY <1>1, <2>1, SumConstant
  <2>3. Cardinality(D!Readers) \in Nat
    BY <1>1, FS_CardinalityType
  <2> QED BY <2>2, <2>3
<1>3. ASSUME NEW m \in 0 .. NumBlocks - 1 PROVE Sum(F(m + 1)) = Sum(F(m)) + D!Block(m)
  <2>1. F(m) \in [D!Readers -> Int] /\ F(m)[m] = 0 /\ m \in D!Readers /\ D!Block(m) \in Int
    BY <1>1
  <2>2. F(m + 1) = [F(m) EXCEPT ![m] = F(m)[m] + D!Block(m)]
    <3>1. \A r \in D!Readers : r < m + 1 <=> r < m \/ r = m
      BY <1>1
    <3>2. \A r \in D!Readers : F(m + 1)[r] = IF r = m THEN F(m)[m] + D!Block(m) ELSE F(m)[r]
      BY <1>1, <2>1, <3>1
    <3>3. F(m) = [r \in D!Readers |-> F(m)[r]] /\ F(m + 1) = [r \in D!Readers |-> F(m + 1)[r]]
      OBVIOUS
    <3> HIDE DEF F
    <3> QED BY <2>1, <3>2, <3>3
  <2> DEFINE f == F(m)
             e == F(m + 1)
             d == D!Block(m)
  <2>3. /\ IsFiniteSet(D!Readers) /\ f \in [D!Readers -> Int] /\ m \in D!Readers /\ d \in Int
        /\ e = [f EXCEPT ![m] = f[m] + d]
    BY <1>1, <2>1, <2>2
  <2> HIDE DEF f, e, d
  <2>4. Sum(e) = Sum(f) + d
    BY <2>3, SumAdd, ZenonT(60)
  <2> QED BY <2>4 DEF f, e, d
<1> HIDE DEF F
<1>4. Bad = {}
  <2> SUFFICES ASSUME Bad # {} PROVE FALSE
    OBVIOUS
  <2>1. PICK m \in Bad : \A l \in Bad : ~(l < m)
    <3>1. Bad \in SUBSET Nat
      BY <1>1
    <3> QED BY <3>1, LeastNat
  <2>2. m # 0
    BY <1>2, Totals
  <2>3. m - 1 \in 0 .. NumBlocks - 1 /\ (m - 1) + 1 = m /\ m - 1 < m /\ m - 1 \in 0..NumBlocks
    BY <1>1, <2>2
  <2>4. Sum(F(m - 1)) = Upto(m - 1)
    BY <2>1, <2>3
  <2>5. Sum(F(m)) = Upto(m)
    BY <1>3, <2>3, <2>4, Totals
  <2> QED BY <2>5
<1>5. Sum(F(NumBlocks)) = Upto(NumBlocks)
  BY <1>1, <1>4
<1> SUFFICES ASSUME \A r \in D!Readers : place[r] = "dead" PROVE Added = F(NumBlocks)
  BY <1>5
<1> QED BY <1>1 DEF Added, F

\* main's steps in tRead: it creates, joins and exits.
LEMMA ThreadedMain ==
  ASSUME DiskTypes, DiskTypes', Uncreated, InThreads, client = "tRead",
         D!TCreate \/ D!TJoin \/ D!TJoined \/ D!TExit
  PROVE  InThreads' /\ (stopped' = "exit" => sum' = Upto(NumBlocks))
<1>1. /\ stopped = "no" /\ frames = <<>> /\ frames' = <<>> /\ UNCHANGED <<client, data, prq, queue, sum>>
      /\ cur = D!Main /\ ThreadTypes /\ ThreadTypes' /\ i \in Nat
      /\ runnable \in Seq(D!Readers \cup {D!Main})
  BY DEF DiskTypes, DataTypes, ThreadTypes, D!TCreate, D!TJoin, D!TJoined, D!TExit, D!On, D!fixed,
     D!disk, D!app
<1>2. Blocking \subseteq Blocking' => EntriesBlocking'
  BY <1>1 DEF InThreads, EntriesBlocking
<1>3. Asked \subseteq Asked' => InPlace \subseteq InPlace'
  BY <1>1, StaysInPlace
<1>4. D!Main \notin Blocking /\ D!Main \notin Blocking' /\ D!Main # D!Idle
  BY NotMain, DiskNumbers DEF Blocking
<1>5. D!Main \notin Elems(runnable)
  BY <1>1, <1>4 DEF InThreads, Turns
<1>6. CASE D!TCreate
  <2>1. /\ place[D!Main] = "next" /\ i < NumBlocks /\ runnable' = Append(runnable, i)
        /\ place' = [place EXCEPT ![i] = "schedule"] /\ i' = i + 1 /\ UNCHANGED <<cur, done, stopped>>
    BY <1>1, <1>6 DEF D!TCreate, D!On
  <2>2. i \in D!Readers /\ place[i] = "none" /\ i \notin Elems(runnable)
    <3>1. i \in D!Readers
      BY <1>1, <2>1, DiskNumbers
    <3>2. place[i] = "none"
      BY <1>1, <3>1, DiskNumbers DEF Uncreated
    <3> QED BY <3>1, <3>2 DEF InThreads, Turns, LinedUp, Created
  <2>3. /\ Created' = Created \cup {i} /\ Blocking' = Blocking /\ Asked' = Asked
        /\ Dead' = Dead /\ Added' = Added /\ place'[D!Main] = "next"
    <3>1. /\ Created' = Created \cup {i} /\ Blocking' = Blocking \ {i} /\ Asked' = Asked \ {i}
          /\ Dead' = Dead /\ Added' = [Added EXCEPT ![i] = 0]
          /\ place'[D!Main] = place[D!Main]
      BY <1>1, <2>1, <2>2, ReaderOn DEF ReaderPlaces
    <3>2. i \notin Blocking /\ i \notin Asked /\ Added[i] = 0
      BY <2>2 DEF Blocking, Asked, Added
    <3>3. [Added EXCEPT ![i] = 0] = Added
      BY <3>2 DEF Added
    <3> QED BY <2>1, <3>1, <3>2, <3>3
  <2>4. InPlace \subseteq InPlace' /\ EntriesBlocking'
    BY <1>2, <1>3, <2>3
  <2>5. LinedUp(runnable, Created', Blocking', InPlace')
    BY <2>3, <2>4, LinedUpMore DEF InThreads, Turns
  <2>6. /\ Elems(runnable') = Elems(runnable) \cup {i}
        /\ LinedUp(runnable', Created', Blocking', InPlace')
    BY <1>1, <2>1, <2>2, <2>3, <2>5, LinedUpAppend DEF Blocking
  <2>7. D!Main \notin Elems(runnable')
    BY <1>5, <2>2, <2>6, DiskNumbers
  <2>8. Turns'
    BY <1>1, <2>1, <2>3, <2>6, <2>7 DEF Turns
  <2>9. Joinings'
    <3>1. \A r \in D!Readers : ~(r < (i + 1) - NumBlocks)
      BY <1>1, <2>1, DiskNumbers
    <3> QED BY <2>1, <2>3, <2>7, <3>1 DEF InThreads, Joinings
  <2> QED BY <1>1, <2>1, <2>3, <2>4, <2>8, <2>9 DEF InThreads
<1>7. ASSUME \A r \in D!Readers : place'[r] = place[r]
      PROVE  /\ Created' = Created /\ Blocking' = Blocking /\ Dead' = Dead /\ Added' = Added
             /\ InPlace \subseteq InPlace' /\ EntriesBlocking'
             /\ LinedUp(runnable, Created', Blocking', InPlace')
  <2>1. /\ Created' = Created /\ Blocking' = Blocking /\ Asked' = Asked
        /\ Dead' = Dead /\ Added' = Added
    <3>1. place[D!Main] # "none" /\ place'[D!Main] # "none"
      BY <1>1 DEF ThreadTypes
    <3> QED BY <1>1, <1>7, <3>1, ReadersStay
  <2>2. InPlace \subseteq InPlace' /\ EntriesBlocking'
    BY <1>2, <1>3, <2>1
  <2> QED BY <2>1, <2>2, LinedUpMore DEF InThreads, Turns
<1>8. CASE D!TJoin /\ i - NumBlocks \in done
  <2>1. /\ place[D!Main] = "next" /\ i' = i + 1 /\ UNCHANGED <<cur, place, runnable, done, stopped>>
    BY <1>1, <1>8 DEF D!TJoin, D!On, D!sched
  <2>2. /\ Dead' = Dead /\ Added' = Added /\ EntriesBlocking' /\ Blocking' = Blocking
        /\ LinedUp(runnable, Created', Blocking', InPlace')
    BY <1>7, <2>1
  <2>3. Turns'
    BY <1>1, <1>5, <2>1, <2>2 DEF Turns
  <2>4. \A r \in D!Readers : r < i' - NumBlocks => r < i - NumBlocks \/ r = i - NumBlocks
    BY <1>1, <2>1, DiskNumbers
  <2>5. Joinings'
    BY <1>5, <1>8, <2>1, <2>2, <2>4 DEF InThreads, Joinings
  <2> QED BY <1>1, <2>1, <2>2, <2>3, <2>5 DEF InThreads
<1>9. CASE D!TJoin /\ i - NumBlocks \notin done
  <2>1. /\ D!Stop("joining") /\ UNCHANGED <<i, done, stopped>>
    BY <1>9 DEF D!TJoin
  <2>2. /\ IF runnable = <<>> THEN cur' = D!Idle /\ runnable' = <<>>
           ELSE cur' = Head(runnable) /\ runnable' = Tail(runnable)
        /\ place' = [place EXCEPT ![cur] = "joining"]
    BY <1>1, <2>1, Stopping
  <2>3. \A r \in D!Readers : place'[r] = place[r]
    BY <1>1, <2>2, DiskNumbers DEF ThreadTypes
  <2>4. /\ Dead' = Dead /\ Added' = Added /\ EntriesBlocking'
        /\ LinedUp(runnable, Created', Blocking', InPlace')
    BY <1>7, <2>3
  <2>5. /\ Turns' /\ Elems(runnable') \subseteq Elems(runnable)
        /\ cur' = D!Main => D!Main \in Elems(runnable)
    BY <1>1, <2>2, <2>4, Switched
  <2>6. Joinings'
    BY <1>5, <2>1, <2>4, <2>5 DEF InThreads, Joinings
  <2> QED BY <1>1, <2>1, <2>4, <2>5, <2>6 DEF InThreads
<1>10. CASE D!TJoined
  <2>1. /\ place[D!Main] = "joining" /\ D!Go("next") /\ i' = i + 1
        /\ UNCHANGED <<cur, runnable, done, stopped>>
    BY <1>1, <1>10 DEF D!TJoined, D!On
  <2>2. place'[D!Main] = "next" /\ \A r \in D!Readers : place'[r] = place[r]
    BY <1>1, <2>1, Going, DiskNumbers DEF Places
  <2>3. /\ Dead' = Dead /\ Added' = Added /\ EntriesBlocking' /\ Blocking' = Blocking
        /\ LinedUp(runnable, Created', Blocking', InPlace')
    BY <1>7, <2>2
  <2>4. Turns'
    BY <1>1, <1>5, <2>1, <2>2, <2>3 DEF Turns
  <2>5. i - NumBlocks \in done
    BY <1>1, <2>1 DEF InThreads, Joinings
  <2>6. \A r \in D!Readers : r < i' - NumBlocks => r < i - NumBlocks \/ r = i - NumBlocks
    BY <1>1, <2>1, DiskNumbers
  <2>7. Joinings'
    BY <1>5, <2>1, <2>2, <2>3, <2>5, <2>6 DEF InThreads, Joinings
  <2> QED BY <1>1, <2>1, <2>3, <2>4, <2>7 DEF InThreads
<1>11. CASE D!TExit
  <2>1. i = 2 * NumBlocks /\ UNCHANGED <<cur, place, runnable, done, i>>
    BY <1>11 DEF D!TExit, D!sched, D!app
  <2>2. /\ Dead' = Dead /\ Added' = Added /\ EntriesBlocking' /\ Blocking' = Blocking
        /\ LinedUp(runnable, Created', Blocking', InPlace')
    BY <1>7, <2>1
  <2>3. Turns'
    BY <1>1, <1>5, <2>1, <2>2 DEF Turns, InThreads, ThreadTypes
  <2>4. Joinings'
    BY <2>1, <2>2 DEF InThreads, Joinings
  <2>5. \A r \in D!Readers : r < i - NumBlocks
    BY <2>1, DiskNumbers
  <2>6. \A r \in D!Readers : place[r] = "dead"
    BY <2>5 DEF InThreads, Joinings, Dead
  <2>7. sum = Upto(NumBlocks)
    BY <2>6, AllAdded DEF InThreads
  <2> QED BY <1>1, <2>2, <2>3, <2>4, <2>7 DEF InThreads
<1> QED BY <1>6, <1>8, <1>9, <1>10, <1>11

\* A reader that goes on.
LEMMA ThreadedReader ==
  ASSUME DiskTypes, DiskTypes', InThreads, client = "tRead", NEW r \in D!Readers,
         D!TSchedule(r) \/ D!TEnqueue(r) \/ D!TBlock(r) \/ D!TAdd(r) \/ D!TReturn(r)
  PROVE  InThreads' /\ stopped' = "no"
<1>1. /\ stopped' = "no" /\ frames = <<>> /\ frames' = <<>> /\ UNCHANGED <<client, data, i>>
      /\ cur = r /\ ThreadTypes /\ ThreadTypes' /\ ReadTypes /\ i \in Nat
      /\ runnable \in Seq(D!Readers \cup {D!Main})
      /\ IsFiniteSet(D!Readers) /\ Added \in [D!Readers -> Int] /\ D!Block(r) \in Int
  <2>1. stopped' = "no" /\ frames = <<>> /\ frames' = <<>> /\ UNCHANGED <<client, data, i>> /\ cur = r
    BY DEF D!TSchedule, D!TEnqueue, D!TBlock, D!TAdd, D!TReturn, D!On, D!fixed, D!app
  <2>2. \A b \in D!Readers : D!Block(b) \in Int
    BY BlockType, DiskNumbers
  <2>3. IsFiniteSet(D!Readers)
    BY DiskNumbers, FS_Interval
  <2> QED BY <2>1, <2>2, <2>3 DEF DiskTypes, DataTypes, ThreadTypes, Added
<1>2. ASSUME NEW s \in ReaderPlaces \ {"none"}, place' = [place EXCEPT ![r] = s],
             place[r] \notin {"none", "dead"}
      PROVE  /\ Created' = Created
             /\ Blocking' = IF s \in {"schedule", "enqueue"} THEN Blocking \ {r} ELSE Blocking \cup {r}
             /\ Asked' = IF s = "schedule" THEN Asked \ {r} ELSE Asked \cup {r}
             /\ Dead' = IF s = "dead" THEN Dead \cup {r} ELSE Dead
             /\ Added' = [Added EXCEPT ![r] = IF s \in {"return", "dead"} THEN D!Block(r) ELSE 0]
             /\ place'[D!Main] = place[D!Main]
  <2>1. r \in Created
    BY <1>2 DEF Created
  <2>2. /\ Created' = Created \cup {r}
        /\ Blocking' = IF s \in {"schedule", "enqueue"} THEN Blocking \ {r} ELSE Blocking \cup {r}
        /\ Asked' = IF s = "schedule" THEN Asked \ {r} ELSE Asked \cup {r}
        /\ Dead' = IF s = "dead" THEN Dead \cup {r} ELSE Dead
        /\ Added' = [Added EXCEPT ![r] = IF s \in {"return", "dead"} THEN D!Block(r) ELSE 0]
        /\ place'[D!Main] = place[D!Main]
    BY <1>1, <1>2, ReaderOn
  <2>3. Created \cup {r} = Created
    BY <2>1
  <2> QED BY <2>2, <2>3
<1>3. \A s : D!Go(s) \/ D!Stop(s) => place' = [place EXCEPT ![r] = s]
  BY <1>1 DEF D!Go, D!Stop
<1>4. ASSUME Blocking \subseteq Blocking', queue' = queue PROVE EntriesBlocking'
  BY <1>1, <1>4 DEF InThreads, EntriesBlocking
<1>5. r # D!Main
  BY DiskNumbers
<1>6. \A c : Added[r] = c => [Added EXCEPT ![r] = c] = Added
  BY DEF Added
<1>7. CASE D!TSchedule(r)
  <2>1. /\ place[r] = "schedule" /\ D!Schedule(r, r) /\ D!Go("enqueue")
        /\ UNCHANGED <<queue, sum, cur, runnable, done>>
    BY <1>7 DEF D!TSchedule, D!On, D!app
  <2>2. /\ Created' = Created /\ Blocking' = Blocking \ {r} /\ Asked' = Asked \cup {r} /\ Dead' = Dead
        /\ Added' = [Added EXCEPT ![r] = 0] /\ place'[D!Main] = place[D!Main]
        /\ place'[r] = "enqueue"
    BY <1>1, <1>2, <1>3, <2>1, Going DEF ReaderPlaces, Places
  <2>3. r \notin Blocking /\ r \notin Asked /\ Added[r] = 0
    BY <1>1, <2>1 DEF Blocking, Asked, Added
  <2>4. Blocking' = Blocking /\ Added' = Added
    BY <1>6, <2>2, <2>3
  <2>5. InPlace \subseteq InPlace' /\ EntriesBlocking'
    BY <1>1, <1>4, <2>1, <2>2, <2>3, <2>4, StaysInPlace
  <2>6. LinedUp(runnable, Created', Blocking', InPlace')
    BY <2>2, <2>4, <2>5, LinedUpMore DEF InThreads, Turns
  <2>7. Turns'
    BY <1>1, <2>1, <2>2, <2>4, <2>6 DEF InThreads, Turns
  <2>8. Joinings'
    BY <1>1, <2>1, <2>2 DEF InThreads, Joinings
  <2> QED BY <1>1, <2>1, <2>4, <2>5, <2>7, <2>8 DEF InThreads
<1>8. CASE D!TEnqueue(r)
  <2>1. /\ place[r] = "enqueue" /\ D!Queue(r, "unblock") /\ D!Go("block")
        /\ UNCHANGED <<prq, sum, cur, runnable, done>>
    BY <1>8 DEF D!TEnqueue, D!On, D!app, D!disk
  <2>2. /\ Created' = Created /\ Blocking' = Blocking \cup {r} /\ Asked' = Asked \cup {r} /\ Dead' = Dead
        /\ Added' = [Added EXCEPT ![r] = 0] /\ place'[D!Main] = place[D!Main]
        /\ place'[r] = "block"
    BY <1>1, <1>2, <1>3, <2>1, Going DEF ReaderPlaces, Places
  <2>3. r \notin Blocking /\ r \notin Elems(runnable) /\ Added[r] = 0
    <3>1. r \notin Blocking /\ Added[r] = 0
      BY <1>1, <2>1 DEF Blocking, Added
    <3> QED BY <1>1, <3>1 DEF InThreads, Turns
  <2>4. Added' = Added
    BY <1>6, <2>2, <2>3
  <2>5. InPlace \subseteq InPlace'
    BY <1>1, <2>1, <2>2, StaysInPlace
  <2>6. EntriesBlocking'
    <3>1. "unblock" \in Callback
      BY <1>1 DEF Callback
    <3>2. /\ Len(queue) \in Nat /\ DOMAIN queue = 1..Len(queue) /\ DOMAIN queue' = 1..(Len(queue) + 1)
          /\ queue'[Len(queue) + 1] = [val |-> r, callback |-> "unblock"]
          /\ \A n \in 1..Len(queue) : queue'[n] = queue[n]
      BY <1>1, <2>1, <3>1, Queueing
    <3>3. \A n \in DOMAIN queue' : n \in DOMAIN queue \/ n = Len(queue) + 1
      BY <3>2
    <3> QED BY <1>1, <2>2, <3>2, <3>3 DEF InThreads, EntriesBlocking
  <2>7. LinedUp(runnable, Created', Blocking', InPlace')
    BY <2>2, <2>3, <2>5, LinedUpMore DEF InThreads, Turns
  <2>8. Turns'
    BY <1>1, <2>1, <2>2, <2>3, <2>7 DEF Turns
  <2>9. Joinings'
    BY <1>1, <2>1, <2>2 DEF InThreads, Joinings
  <2> QED BY <1>1, <2>1, <2>4, <2>6, <2>8, <2>9 DEF InThreads
<1>9. CASE D!TBlock(r)
  <2>1. /\ place[r] = "block" /\ D!Stop("add") /\ UNCHANGED <<prq, queue, sum, done>>
    BY <1>9 DEF D!TBlock, D!On, D!app, D!disk
  <2>2. /\ Created' = Created /\ Blocking' = Blocking \cup {r} /\ Asked' = Asked \cup {r} /\ Dead' = Dead
        /\ Added' = [Added EXCEPT ![r] = 0] /\ place'[D!Main] = place[D!Main]
    BY <1>1, <1>2, <1>3, <2>1 DEF ReaderPlaces
  <2>3. r \in Blocking /\ Added[r] = 0
    BY <1>1, <2>1 DEF Blocking, Added
  <2>4. Blocking' = Blocking /\ Added' = Added
    BY <1>6, <2>2, <2>3
  <2>5. InPlace \subseteq InPlace' /\ EntriesBlocking'
    BY <1>1, <1>4, <2>1, <2>2, <2>4, StaysInPlace
  <2>6. LinedUp(runnable, Created', Blocking', InPlace')
    BY <2>2, <2>4, <2>5, LinedUpMore DEF InThreads, Turns
  <2>7. IF runnable = <<>> THEN cur' = D!Idle /\ runnable' = <<>>
        ELSE cur' = Head(runnable) /\ runnable' = Tail(runnable)
    BY <1>1, <2>1, Stopping
  <2>8. /\ Turns' /\ Elems(runnable') \subseteq Elems(runnable)
        /\ cur' = D!Main => D!Main \in Elems(runnable)
    BY <1>1, <2>6, <2>7, Switched
  <2>9. Joinings'
    BY <1>1, <2>1, <2>2, <2>8 DEF InThreads, Joinings
  <2> QED BY <1>1, <2>1, <2>4, <2>5, <2>8, <2>9 DEF InThreads
<1>10. CASE D!TAdd(r)
  <2>1. /\ place[r] = "add" /\ D!Go("return") /\ sum' = sum + data[r]
        /\ UNCHANGED <<prq, queue, cur, runnable, done>>
    BY <1>10 DEF D!TAdd, D!On, D!disk
  <2>2. /\ Created' = Created /\ Blocking' = Blocking \cup {r} /\ Asked' = Asked \cup {r} /\ Dead' = Dead
        /\ Added' = [Added EXCEPT ![r] = D!Block(r)] /\ place'[D!Main] = place[D!Main]
        /\ place'[r] = "return"
    BY <1>1, <1>2, <1>3, <2>1, Going DEF ReaderPlaces, Places
  <2>3. r \in Blocking /\ Added[r] = 0
    BY <1>1, <2>1 DEF Blocking, Added
  <2>4. Blocking' = Blocking
    BY <2>2, <2>3
  <2>5. InPlace \subseteq InPlace' /\ EntriesBlocking'
    BY <1>1, <1>4, <2>1, <2>2, <2>4, StaysInPlace
  <2>6. data[r] = D!Block(r)
    BY <1>1, <2>1 DEF InThreads, Turns, InPlace
  <2>7. sum' = Sum(Added')
    <3> DEFINE f == Added
               e == Added'
               d == D!Block(r)
               S == D!Readers
    <3>1. /\ IsFiniteSet(S) /\ f \in [S -> Int] /\ r \in S /\ d \in Int
          /\ e = [f EXCEPT ![r] = f[r] + d]
      <4>1. Added[r] + D!Block(r) = D!Block(r)
        BY <1>1, <2>3
      <4>2. Added' = [Added EXCEPT ![r] = Added[r] + D!Block(r)]
        BY <2>2, <4>1
      <4> QED BY <1>1, <4>2
    <3>2. sum' = Sum(f) + d
      BY <2>1, <2>6 DEF InThreads
    <3> HIDE DEF f, e, d, S
    <3>3. Sum(e) = Sum(f) + d
      BY <3>1, SumAdd, ZenonT(60)
    <3> QED BY <3>2, <3>3 DEF e
  <2>8. LinedUp(runnable, Created', Blocking', InPlace')
    BY <2>2, <2>4, <2>5, LinedUpMore DEF InThreads, Turns
  <2>9. Turns'
    BY <1>1, <2>1, <2>2, <2>4, <2>8 DEF InThreads, Turns
  <2>10. Joinings'
    BY <1>1, <2>1, <2>2 DEF InThreads, Joinings
  <2> QED BY <1>1, <2>5, <2>7, <2>9, <2>10 DEF InThreads
<1>11. CASE D!TReturn(r)
  <2> DEFINE joiner == place[D!Main] = "joining" /\ i - NumBlocks = r
             q == IF joiner THEN Append(runnable, D!Main) ELSE runnable
  <2>1. /\ place[r] = "return" /\ D!Go("dead") /\ done' = done \cup {r}
        /\ UNCHANGED <<prq, queue, sum>>
        /\ IF q = <<>> THEN cur' = D!Idle /\ runnable' = <<>> ELSE cur' = Head(q) /\ runnable' = Tail(q)
    BY <1>11 DEF D!TReturn, D!On, D!disk, D!app, D!Main
  <2>2. /\ Created' = Created /\ Blocking' = Blocking \cup {r} /\ Asked' = Asked \cup {r}
        /\ Dead' = Dead \cup {r}
        /\ Added' = [Added EXCEPT ![r] = D!Block(r)] /\ place'[D!Main] = place[D!Main]
    BY <1>1, <1>2, <1>3, <2>1 DEF ReaderPlaces
  <2>3. r \in Blocking /\ Added[r] = D!Block(r) /\ r \notin Dead
    BY <1>1, <2>1 DEF Blocking, Added, Dead
  <2>4. Blocking' = Blocking /\ Added' = Added
    BY <1>6, <2>2, <2>3
  <2>5. InPlace \subseteq InPlace' /\ EntriesBlocking'
    BY <1>1, <1>4, <2>1, <2>2, <2>4, StaysInPlace
  <2>6. LinedUp(runnable, Created', Blocking', InPlace')
    BY <2>2, <2>4, <2>5, LinedUpMore DEF InThreads, Turns
  <2>7. joiner => D!Main \notin Elems(runnable)
    BY <2>3 DEF InThreads, Joinings
  <2>8. /\ q \in Seq(D!Readers \cup {D!Main}) /\ LinedUp(q, Created', Blocking', InPlace')
        /\ D!Main \in Elems(q) => joiner \/ D!Main \in Elems(runnable)
    <3>1. D!Main \in Created' /\ D!Main \notin Blocking'
      BY <1>1, <2>2, <2>4, NotMain DEF Created, ThreadTypes
    <3> QED BY <1>1, <2>6, <2>7, <3>1, LinedUpAppend
  <2> HIDE DEF q
  <2>9. /\ Turns' /\ Elems(runnable') \subseteq Elems(q)
        /\ cur' = D!Main => D!Main \in Elems(q)
    BY <1>1, <2>1, <2>8, Switched
  <2>10. D!Main \in Elems(q) => place[D!Main] = "joining" /\ i - NumBlocks \in done \cup {r}
    BY <2>8 DEF InThreads, Joinings
  <2>11. Joinings'
    BY <1>1, <2>1, <2>2, <2>9, <2>10 DEF InThreads, Joinings
  <2> QED BY <1>1, <2>1, <2>4, <2>5, <2>9, <2>11 DEF InThreads
<1> QED BY <1>7, <1>8, <1>9, <1>10, <1>11

\* pthread_base.
LEMMA ThreadedIdle ==
  ASSUME DiskTypes, DiskTypes', InThreads, client = "tRead",
         D!IdleDequeue \/ D!IdleSleep \/ D!IdleWake
  PROVE  InThreads' /\ stopped' = "no"
<1>1. /\ stopped' = "no" /\ frames = <<>> /\ frames' = <<>>
      /\ UNCHANGED <<client, data, prq, queue, sum, i, done>>
      /\ cur = D!Idle /\ ThreadTypes /\ ThreadTypes' /\ runnable \in Seq(D!Readers \cup {D!Main})
  BY DEF DiskTypes, ThreadTypes, D!IdleDequeue, D!IdleSleep, D!IdleWake, D!On, D!fixed, D!disk, D!app
<1>2. /\ place' = [place EXCEPT ![cur] = place'[cur]]
      /\ (cur' = cur /\ runnable' = runnable) \/ D!Stop("dequeue")
  <2>1. \E s : place' = [place EXCEPT ![cur] = s]
    BY DEF D!IdleDequeue, D!IdleSleep, D!IdleWake, D!Go, D!Stop
  <2>2. place' = [place EXCEPT ![cur] = place'[cur]]
    BY <1>1, <2>1 DEF ThreadTypes
  <2>3. (cur' = cur /\ runnable' = runnable) \/ D!Stop("dequeue")
    BY DEF D!IdleDequeue, D!IdleSleep, D!IdleWake
  <2> QED BY <2>2, <2>3
<1>3. \A t \in D!Threads : t # D!Idle => place'[t] = place[t]
  BY <1>1, <1>2 DEF ThreadTypes
<1>4. /\ Created' = Created /\ Blocking' = Blocking /\ Asked' = Asked
      /\ Dead' = Dead /\ Added' = Added /\ place'[D!Main] = place[D!Main]
  <2>1. /\ \A r \in D!Readers : place'[r] = place[r]
        /\ place[D!Main] # "none" /\ place'[D!Main] # "none" /\ place'[D!Main] = place[D!Main]
    BY <1>1, <1>3, DiskNumbers DEF ThreadTypes
  <2> QED BY <1>1, <2>1, ReadersStay
<1>5. InPlace \subseteq InPlace' /\ EntriesBlocking'
  BY <1>1, <1>4, StaysInPlace DEF InThreads, EntriesBlocking
<1>6. CASE cur' = cur /\ runnable' = runnable
  BY <1>1, <1>3, <1>5, <1>6, InThreadsKept
<1>7. CASE D!Stop("dequeue")
  <2>1. IF runnable = <<>> THEN cur' = D!Idle /\ runnable' = <<>>
        ELSE cur' = Head(runnable) /\ runnable' = Tail(runnable)
    BY <1>1, <1>7, Stopping
  <2>2. LinedUp(runnable, Created', Blocking', InPlace')
    BY <1>4, <1>5, LinedUpMore DEF InThreads, Turns
  <2>3. /\ Turns' /\ Elems(runnable') \subseteq Elems(runnable)
        /\ cur' = D!Main => D!Main \in Elems(runnable)
    BY <1>1, <2>1, <2>2, Switched
  <2>4. Joinings'
    BY <1>1, <1>4, <2>3 DEF InThreads, Joinings
  <2> QED BY <1>1, <1>4, <1>5, <2>3, <2>4 DEF InThreads
<1> QED BY <1>2, <1>6, <1>7

\* A handler that readies a reader has its data in place.
LEMMA ThreadedHandler ==
  ASSUME DiskTypes, DiskTypes', Paired, InThreads, client = "tRead", D!Time \/ D!Tick \/ D!HandlerStep
  PROVE  InThreads' /\ stopped' # "exit"
<1>1. ThreadTypes /\ FrameTypes /\ ReadTypes /\ ThreadTypes'
  BY DEF DiskTypes
<1>2. /\ UNCHANGED <<client, i, cur>> /\ Asked' = Asked
      /\ \A t \in D!Threads : t # D!Idle => place'[t] = place[t]
  BY <1>1, HandlersKeep
<1>3. Blocking' = Blocking
  BY <1>2, DiskNumbers DEF Blocking
<1>4. frames # <<>> => /\ D!Top \in Frame /\ D!Top.pc \in NoEntry \cup WithEntry
                       /\ WithEntry = {"unblock", "ready"}
                       /\ Len(frames) \in DOMAIN frames /\ D!Top = frames[Len(frames)]
  BY <1>1, TopFrame DEF Frame, WithEntry
<1>5. ASSUME UNCHANGED <<sum, done, runnable>>, stopped' # "exit",
             UNCHANGED <<prq, data>> \/ D!Scan, EntriesBlocking'
      PROVE  InThreads' /\ stopped' # "exit"
  <2>1. InPlace \subseteq InPlace'
    BY <1>2, <1>5, StaysInPlace
  <2> QED BY <1>1, <1>2, <1>5, <2>1, InThreadsKept
<1>6. ASSUME queue' = queue,
             \/ frames' = frames
             \/ \E e \in Frame : e.pc \notin Passing /\ frames' = Append(frames, e)
             \/ frames # <<>> /\ frames' = D!Front(frames)
             \/ frames # <<>> /\ \E e \in Frame : /\ Becomes(e)
                                                  /\ e.pc \in Passing => e.entry[1] \in Blocking
      PROVE  EntriesBlocking'
  <2>1. \A n \in DOMAIN frames : frames[n].pc \in Passing => frames[n].entry[1] \in Blocking
    BY DEF InThreads, EntriesBlocking
  <2>2. \A n \in DOMAIN frames' : frames'[n].pc \in Passing => frames'[n].entry[1] \in Blocking
    BY <1>1, <1>6, <2>1, PassedOn
  <2> QED BY <1>3, <1>6, <2>2 DEF InThreads, EntriesBlocking
<1>7. \A x \in NoEntry \cup WithEntry :
        frames # <<>> /\ D!To(x) => \E e \in Frame : Becomes(e) /\ e.pc = x /\ e.entry = D!Top.entry
  BY <1>1, Resuming
<1>8. \A x \in NoEntry : x \notin Passing
  BY DEF NoEntry, Passing
<1>9. CASE D!Time
  <2>1. UNCHANGED <<sum, done, runnable, stopped, prq, data, queue, frames>> /\ stopped = "no"
    BY <1>9 DEF D!Time, D!app, D!sched
  <2> QED BY <1>5, <1>6, <2>1
<1>10. CASE D!Tick
  <2> DEFINE e == [pc |-> "scan", entry |-> <<>>, reg |-> 0]
  <2>1. e \in Frame /\ e.pc \notin Passing
    BY DEF Frame, NoEntry, Passing
  <2> HIDE DEF e
  <2>2. /\ UNCHANGED <<sum, done, runnable, stopped, prq, data, queue>> /\ stopped = "no"
        /\ frames' = Append(frames, e)
    BY <1>10 DEF D!Tick, D!app, D!sched, D!disk, e
  <2> QED BY <1>5, <1>6, <2>1, <2>2
<1>11. CASE D!Scan
  <2>1. UNCHANGED <<sum, done, runnable, stopped, queue>> /\ stopped = "no" /\ frames # <<>>
    BY <1>11 DEF D!Scan, D!In, D!sched
  <2>2. D!To("deliver") \/ frames' = D!Front(frames)
    BY <1>11 DEF D!Scan
  <2>3. D!To("deliver") => \E e \in Frame : Becomes(e) /\ e.pc \notin Passing
    BY <1>7, <1>8, <2>1 DEF NoEntry
  <2> QED BY <1>5, <1>6, <1>11, <2>1, <2>2, <2>3
<1>12. CASE D!SetInterrupt \/ D!InterruptLocks
  <2>1. UNCHANGED <<sum, done, runnable, stopped, prq, data, queue>> /\ stopped = "no" /\ frames # <<>>
    BY <1>12 DEF D!SetInterrupt, D!InterruptLocks, D!In, D!sched, D!app, D!disk
  <2>2. D!To("isr") \/ D!To("scan") \/ D!To("dequeue")
    BY <1>12 DEF D!SetInterrupt, D!InterruptLocks
  <2>3. \E e \in Frame : Becomes(e) /\ e.pc \notin Passing
    BY <1>7, <1>8, <2>1, <2>2 DEF NoEntry
  <2> QED BY <1>5, <1>6, <2>1, <2>3
<1>13. CASE D!InterruptDequeues
  <2>1. /\ UNCHANGED <<sum, done, runnable, prq, data>> /\ stopped' # "exit" /\ frames # <<>>
        /\ D!Top.pc = "dequeue"
    BY <1>13 DEF D!InterruptDequeues, D!In, D!sched, D!app, D!disk, D!Exit
  <2>2. CASE queue = <<>>
    <3>1. UNCHANGED <<frames, queue>>
      BY <1>13, <2>2 DEF D!InterruptDequeues
    <3> QED BY <1>5, <1>6, <2>1, <3>1
  <2>3. CASE queue # <<>>
    <3> DEFINE e == [D!Top EXCEPT !.pc = Head(queue).callback, !.entry = <<Head(queue).val>>]
               l == Len(queue)
    <3>1. /\ Head(queue) \in Pending /\ Head(queue) = queue[1]
          /\ l \in Nat \ {0} /\ DOMAIN queue = 1..l /\ DOMAIN queue' = 1..(l - 1)
          /\ \A m \in 1..(l - 1) : queue'[m] = queue[m + 1]
      BY <1>1, <1>13, <2>3, Beheaded DEF ReadTypes, D!InterruptDequeues
    <3> HIDE DEF l
    <3>2. 1 \in DOMAIN queue /\ \A m \in DOMAIN queue' : m + 1 \in DOMAIN queue /\ queue'[m] = queue[m + 1]
      BY <3>1
    <3>3. e \in Frame /\ e.entry[1] = Head(queue).val
      BY <1>4, <2>1, <3>1 DEF Frame, Pending, Callback
    <3>4. Becomes(e)
      BY <1>13, <2>3 DEF D!InterruptDequeues, Becomes, D!Top
    <3> HIDE DEF e
    <3>5. Head(queue).val \in Blocking
      BY <3>1, <3>2 DEF InThreads, EntriesBlocking
    <3>6. \A n \in DOMAIN frames : frames[n].pc \in Passing => frames[n].entry[1] \in Blocking
      BY DEF InThreads, EntriesBlocking
    <3>7. \A n \in DOMAIN frames' : frames'[n].pc \in Passing => frames'[n].entry[1] \in Blocking
      BY <1>1, <2>1, <3>3, <3>4, <3>5, <3>6, PassedOn
    <3>8. EntriesBlocking'
      BY <1>3, <3>2, <3>7 DEF InThreads, EntriesBlocking
    <3> QED BY <1>5, <2>1, <3>8
  <2> QED BY <2>2, <2>3
<1>14. CASE D!Unblock /\ D!Top.pc = "unblock"
  <2>1. /\ UNCHANGED <<sum, done, runnable, stopped, prq, data, queue>> /\ stopped = "no" /\ frames # <<>>
        /\ D!To("ready")
    BY <1>14 DEF D!Unblock, D!In, D!app, D!disk
  <2>2. \E e \in Frame : Becomes(e) /\ e.entry = D!Top.entry
    BY <1>4, <1>7, <2>1
  <2>3. D!Top.entry[1] \in Blocking
    BY <1>4, <1>14, <2>1 DEF InThreads, EntriesBlocking, Passing
  <2> QED BY <1>5, <1>6, <2>1, <2>2, <2>3
<1>15. CASE D!Unblock /\ D!Top.pc # "unblock"
  <2> DEFINE r == D!Top.entry[1]
  <2>1. /\ UNCHANGED <<sum, done, stopped, prq, data, queue>> /\ stopped = "no" /\ frames # <<>>
        /\ D!Top.pc = "ready" /\ D!To("end") /\ runnable' = Append(runnable, r)
    BY <1>15 DEF D!Unblock, D!In, D!app, D!disk
  <2>2. r \in Blocking /\ r \in InPlace
    BY <1>4, <2>1 DEF InThreads, EntriesBlocking, Passing, Paired, Passed
  <2>3. EntriesBlocking'
    <3>1. \E e \in Frame : Becomes(e) /\ e.pc \notin Passing
      BY <1>7, <1>8, <2>1 DEF NoEntry
    <3> QED BY <1>6, <2>1, <3>1
  <2>4. /\ Created' = Created /\ Dead' = Dead /\ Added' = Added /\ place'[D!Main] = place[D!Main]
    <3>1. /\ \A b \in D!Readers : place'[b] = place[b]
          /\ place[D!Main] # "none" /\ place'[D!Main] # "none" /\ place'[D!Main] = place[D!Main]
      BY <1>1, <1>2, DiskNumbers DEF ThreadTypes
    <3> QED BY <1>2, <3>1, ReadersStay
  <2>5. InPlace \subseteq InPlace'
    BY <1>2, <2>1, StaysInPlace
  <2>6. LinedUp(runnable, Created', Blocking', InPlace')
    BY <1>3, <2>4, <2>5, LinedUpMore DEF InThreads, Turns
  <2>7. /\ Elems(runnable') = Elems(runnable) \cup {r}
        /\ LinedUp(runnable', Created', Blocking', InPlace')
    <3>1. r \in Created' /\ r \in D!Readers /\ r \in Blocking' /\ r \in InPlace'
      BY <1>3, <2>2, <2>4, <2>5 DEF Created, Blocking
    <3>2. runnable \in Seq(D!Readers \cup {D!Main})
      BY <1>1 DEF ThreadTypes
    <3> HIDE DEF r
    <3> QED BY <2>1, <2>6, <3>1, <3>2, LinedUpAppend
  <2>8. place'[cur] = "add" => place[cur] = "add"
    BY <1>1, <1>2 DEF ThreadTypes, IdlePlaces
  <2>9. Turns'
    BY <1>2, <1>3, <2>2, <2>5, <2>7, <2>8 DEF InThreads, Turns
  <2>10. r # D!Main
    BY <2>2, NotMain
  <2>11. Joinings'
    BY <1>2, <2>1, <2>4, <2>7, <2>10 DEF InThreads, Joinings
  <2> QED BY <2>1, <2>3, <2>4, <2>9, <2>11 DEF InThreads
<1>16. ~D!SInterrupt /\ ~D!HandleRead /\ ~D!HandleStore /\ ~D!HandleHunt /\ ~D!NextRead
  BY <1>4 DEF D!SInterrupt, D!HandleRead, D!HandleStore, D!HandleHunt, D!NextRead, D!In, NoEntry
<1> QED BY <1>9, <1>10, <1>11, <1>12, <1>13, <1>14, <1>15, <1>16 DEF D!HandlerStep

\* At first main runs and nobody is ready.
LEMMA ThreadedInit == D!Init => Threaded
<1> SUFFICES ASSUME D!Init PROVE InThreads
  BY DEF Threaded
<1>1. /\ queue = <<>> /\ frames = <<>> /\ runnable = <<>> /\ cur = D!Main /\ i = 0 /\ sum = 0 /\ done = {}
      /\ place[D!Main] = "next" /\ \A r \in D!Readers : place[r] = "none"
  BY DiskNumbers DEF D!Init
<1>2. EntriesBlocking
  BY <1>1 DEF EntriesBlocking
<1>3. Elems(runnable) = {}
  BY <1>1, EmptyQueue
<1>4. Turns
  BY <1>1, <1>3 DEF Turns, LinedUp, OnceBut
<1>5. Joinings
  <2>1. \A r \in D!Readers : ~(r < 0 - NumBlocks)
    BY DiskNumbers
  <2> QED BY <1>1, <1>3, <2>1 DEF Joinings, Dead
<1>6. Sum(Added) = 0
  <2> DEFINE f == Added
             S == D!Readers
  <2>1. IsFiniteSet(S) /\ f = [r \in S |-> 0] /\ Cardinality(S) \in Nat
    <3>1. IsFiniteSet(S)
      BY DiskNumbers, FS_Interval
    <3> QED BY <1>1, <3>1, FS_CardinalityType DEF Added
  <2> HIDE DEF f, S
  <2>2. Sum(f) = Cardinality(S) * 0
    BY <2>1, SumConstant
  <2> QED BY <2>1, <2>2 DEF f
<1> QED BY <1>1, <1>2, <1>4, <1>5, <1>6 DEF InThreads

\* The steps of threads that are others' than tRead's.
LEMMA OthersRest ==
  client = "tRead" => ~D!SRead /\ ~D!ASchedules /\ ~D!HStart /\ ~D!HFinish
BY DEF D!SRead, D!SPending, D!SSchedule, D!SSpun, D!ASchedules, D!HStart, D!HFinish

\* The steps of tRead, and its sum when it ends.
LEMMA ThreadedSteps ==
  ASSUME DiskTypes, DiskTypes', Uncreated, Paired, InThreads, client = "tRead", D!Next
  PROVE  InThreads' /\ (stopped' = "exit" => sum' = Upto(NumBlocks))
<1>1. CASE D!ThreadStep
  <2>1. D!TCreate \/ D!TJoin \/ D!TJoined \/ D!TExit => InThreads' /\ (stopped' = "exit" => sum' = Upto(NumBlocks))
    BY ThreadedMain
  <2>2. \A r \in D!Readers :
          D!TSchedule(r) \/ D!TEnqueue(r) \/ D!TBlock(r) \/ D!TAdd(r) \/ D!TReturn(r) =>
            InThreads' /\ stopped' = "no"
    BY ThreadedReader
  <2>3. D!IdleDequeue \/ D!IdleSleep \/ D!IdleWake => InThreads' /\ stopped' = "no"
    BY ThreadedIdle
  <2> QED BY <1>1, <2>1, <2>2, <2>3, OthersRest DEF D!ThreadStep
<1>2. CASE D!Time \/ D!Tick \/ D!HandlerStep
  BY <1>2, ThreadedHandler
<1> QED BY <1>1, <1>2 DEF D!Next

LEMMA ThreadedStep ==
  DiskTypes /\ DiskTypes' /\ Uncreated /\ Paired /\ Threaded /\ [D!Next]_(D!vars) => Threaded'
<1> SUFFICES ASSUME DiskTypes, DiskTypes', Uncreated, Paired, Threaded, [D!Next]_(D!vars), client = "tRead"
             PROVE  InThreads'
  BY Fixed DEF Threaded
<1>1. client' = client /\ InThreads
  BY Fixed DEF Threaded
<1>2. CASE UNCHANGED D!vars
  <2>1. UNCHANGED <<cur, runnable, done, sum, i, place, prq, data, queue, frames>>
    BY <1>2 DEF D!vars, D!disk, D!app, D!sched
  <2>2. InPlace \subseteq InPlace' /\ EntriesBlocking'
    BY <1>1, <2>1 DEF InPlace, Asked, InThreads, EntriesBlocking, Blocking
  <2> QED BY <1>1, <2>1, <2>2, InThreadsKept DEF DiskTypes
<1>3. CASE D!Next
  BY <1>1, <1>3, ThreadedSteps
<1> QED BY <1>2, <1>3

-----------------------------------------------------------------------------
(* The disk.  Every answer is right.                                        *)

\* Whichever program ends has found its answer.
LEMMA PrintedStep ==
  DiskTypes /\ DiskTypes' /\ Uncreated /\ Paired /\ Stages /\ OneAtATime /\ Threaded
    /\ Printed /\ [D!Next]_(D!vars) => Printed'
<1> SUFFICES ASSUME DiskTypes, DiskTypes', Uncreated, Paired, Stages, OneAtATime, Threaded, Printed,
                    [D!Next]_(D!vars), stopped' = "exit"
             PROVE  Printed'
  BY DEF Printed
<1>1. CASE UNCHANGED D!vars
  BY <1>1 DEF D!vars, D!fixed, D!app, Printed
<1>2. CASE D!Next /\ client \in {"sRead", "treasureHunt"}
  BY <1>2, PrintedAlone
<1>3. CASE D!Next /\ client = "aRead"
  BY <1>3, PrintedInTurn
<1>4. CASE D!Next /\ client = "tRead"
  BY <1>4, ThreadedSteps, Fixed DEF Threaded, Printed
<1> QED BY <1>1, <1>2, <1>3, <1>4 DEF DiskTypes, ClientTypes

\* The four programs of Assignment 9: one that exits has added up each of the first
\* blocks once, or has found the block its hunt leads to, at whatever points handlers
\* interrupt its threads and one another; aRead if its handlers do not nest.
THEOREM DiskAnswer == D!Spec => []RightAnswer
<1>1. D!Init => Printed
  BY DEF D!Init, Printed
<1>2. D!Spec => []OneAtATime
  BY OneAtATimeInit, OneAtATimeStep, DiskTypesAlways, PairedAlways, PTL DEF D!Spec
<1>3. D!Spec => []Threaded
  BY ThreadedInit, ThreadedStep, DiskTypesAlways, PairedAlways, PTL DEF D!Spec
<1>4. D!Spec => []Printed
  BY <1>1, <1>2, <1>3, PrintedStep, DiskTypesAlways, PairedAlways, StagesAlways, PTL DEF D!Spec
<1> QED BY <1>4, PrintedRight, DiskTypesAlways, StagesAlways, PTL

-----------------------------------------------------------------------------
(* The programs side by side.                                               *)

\* The run's specification: one program takes steps, the others none, so that what
\* is proved of the well and of the disk alone holds in MCPrograms.
THEOREM ProgramsApart == MCSpec => W!Spec /\ D!Spec
<1>1. MCInit => W!Init /\ D!Init
  BY DEF MCInit
<1>2. [MCNext]_allVars => [W!Next]_(W!vars) /\ [D!Next]_(D!vars)
  <2> SUFFICES ASSUME [MCNext]_allVars PROVE [W!Next]_(W!vars) /\ [D!Next]_(D!vars)
    OBVIOUS
  <2>1. UNCHANGED wellVars => UNCHANGED W!vars
    BY DEF wellVars, W!vars, W!statistics
  <2>2. UNCHANGED diskVars => UNCHANGED D!vars
    BY DEF diskVars, D!vars, D!fixed, D!disk, D!locks, D!app, D!sched
  <2>3. CASE \E t \in Thread : AppStep(t)
    BY <2>1, <2>2, <2>3 DEF AppStep
  <2>4. CASE AppMain
    BY <2>1, <2>2, <2>4 DEF AppMain
  <2>5. CASE WellStep
    BY <2>2, <2>5 DEF WellStep
  <2>6. CASE DiskThreadStep \/ DiskTime \/ DiskTick \/ DiskHandlerStep
    BY <2>1, <2>6 DEF DiskThreadStep, DiskTime, DiskTick, DiskHandlerStep, OfDisk, D!Next
  <2>7. CASE UNCHANGED allVars
    BY <2>1, <2>2, <2>7 DEF allVars
  <2> QED BY <2>3, <2>4, <2>5, <2>6, <2>7 DEF MCNext
<1>3. MCSpec => MCInit /\ [][MCNext]_allVars
  BY PTL DEF MCSpec
<1> QED BY <1>1, <1>2, <1>3, PTL DEF W!Spec, D!Spec
=============================================================================
