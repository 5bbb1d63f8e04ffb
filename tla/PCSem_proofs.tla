---------------------------- MODULE PCSem_proofs ----------------------------
(***************************************************************************)
(* Proofs about Semaphore, for any finite set of threads, any set of       *)
(* semaphores, any initial values and any MaxValue, and about PCSem, for   *)
(* any finite sets of producers and consumers, any MAX_ITEMS and any       *)
(* NUM_ITERATIONS: the program runs on the semaphores, the binary one      *)
(* excludes, the counting ones account for items, and so the assertions on *)
(* items hold.                                                             *)
(***************************************************************************)
EXTENDS PCSem, Lemmas

\* The part of the invariant that is about types and queues; its conjuncts
\* need one another, since a thread is unblocked by way of the queue.
Queues == TypeOK /\ OnInside /\ QueuedOnce

-----------------------------------------------------------------------------
(* Queues is inductive.                                                    *)

LEMMA QueuesInit == Init => Queues
<1> SUFFICES ASSUME Init PROVE Queues
  OBVIOUS
<1>1. TypeOK /\ OnInside
  BY SemaphoreAssumption DEF Init, TypeOK, OnInside
<1>2. \A s \in Sem : Standing("blocked", s) = {}
  BY DEF Init, Standing
<1>3. QueuedOnce
  BY <1>2, EmptyQueue DEF Init, QueuedOnce
<1> QED BY <1>1, <1>3 DEF Queues

LEMMA QueuesWait ==
  ASSUME Queues, NEW t \in Thread, NEW s \in Sem, Wait(t, s)
  PROVE  Queues'
<1>1. TypeOK' /\ OnInside'
  BY SemaphoreAssumption DEF Queues, TypeOK, OnInside, Wait
<1>2. \A r \in Sem : Standing("blocked", r)' = Standing("blocked", r)
  BY DEF Queues, TypeOK, Standing, Wait
<1>3. QueuedOnce'
  BY <1>2 DEF Queues, QueuedOnce, Wait
<1> QED BY <1>1, <1>3 DEF Queues

LEMMA QueuesTake ==
  ASSUME Queues, NEW t \in Thread, Take(t)
  PROVE  Queues'
<1> USE SemaphoreAssumption
<1>1. on[t] \in Sem /\ value[on[t]] - 1 \in 0..MaxValue
  BY DEF Queues, TypeOK, OnInside, Take
<1>2. TypeOK' /\ OnInside'
  BY <1>1 DEF Queues, TypeOK, OnInside, Take
<1>3. \A r \in Sem : Standing("blocked", r)' = Standing("blocked", r)
  BY DEF Queues, TypeOK, Standing, Take
<1>4. QueuedOnce'
  BY <1>3 DEF Queues, QueuedOnce, Take
<1> QED BY <1>2, <1>4 DEF Queues

LEMMA QueuesQueue ==
  ASSUME Queues, NEW t \in Thread, Queue(t)
  PROVE  Queues'
<1>1. PICK r \in Sem : r = on[t]
  BY SemaphoreAssumption DEF Queues, TypeOK, OnInside, Queue
<1>2. /\ at[t] = "test" /\ at' = [at EXCEPT ![t] = "blocked"]
      /\ waiters' = [waiters EXCEPT ![r] = Append(waiters[r], t)]
      /\ value' = value /\ on' = on
  BY <1>1 DEF Queue
<1>3. /\ Standing("blocked", r)' = Standing("blocked", r) \cup {t}
      /\ t \notin Standing("blocked", r)
      /\ \A s \in Sem : s # r =>
            Standing("blocked", s)' = Standing("blocked", s)
  BY <1>1, <1>2 DEF Queues, TypeOK, Standing
<1>4. /\ waiters'[r] \in Seq(Thread) /\ Once(waiters'[r])
      /\ Elems(waiters'[r]) = Elems(waiters[r]) \cup {t}
      /\ \A s \in Sem : s # r => waiters'[s] = waiters[s]
  BY <1>2, <1>3, EnqueueOnce DEF Queues, TypeOK, QueuedOnce
<1>5. TypeOK' /\ OnInside'
  BY <1>2, <1>4 DEF Queues, TypeOK, OnInside
<1>6. QueuedOnce'
  BY <1>3, <1>4 DEF Queues, QueuedOnce
<1> QED BY <1>5, <1>6 DEF Queues

\* The waiter that a signal unblocks, if there is one.
LEMMA SignalHead ==
  ASSUME Queues, NEW t \in Thread, NEW s \in Sem, Signal(t, s),
         waiters[s] # <<>>
  PROVE  LET h == Head(waiters[s])
         IN /\ h \in Standing("blocked", s)
            /\ waiters'[s] \in Seq(Thread) /\ Once(waiters'[s])
            /\ Elems(waiters'[s]) = Elems(waiters[s]) \ {h}
            /\ \A r \in Sem : r # s => waiters'[r] = waiters[r]
            /\ at' = [at EXCEPT ![h] = "test"] /\ on' = on
<1>1. /\ waiters' = [waiters EXCEPT ![s] = Tail(waiters[s])]
      /\ at' = [at EXCEPT ![Head(waiters[s])] = "test"] /\ on' = on
  BY DEF Signal
<1> QED BY <1>1, DequeueOnce DEF Queues, TypeOK, QueuedOnce

LEMMA QueuesSignal ==
  ASSUME Queues, NEW t \in Thread, NEW s \in Sem, Signal(t, s)
  PROVE  Queues'
<1>1. value' \in [Sem -> 0..MaxValue]
  <2>1. value[s] + 1 \in 0..MaxValue
    BY SemaphoreAssumption DEF Queues, TypeOK, Signal
  <2> QED BY <2>1 DEF Queues, TypeOK, Signal
<1>2. CASE waiters[s] = <<>>
  <2>1. waiters' = waiters /\ at' = at /\ on' = on
    BY <1>2 DEF Signal
  <2> QED BY <1>1, <2>1 DEF Queues, TypeOK, OnInside, QueuedOnce, Standing
<1>3. CASE waiters[s] # <<>>
  <2> DEFINE h == Head(waiters[s])
  <2>1. /\ h \in Standing("blocked", s)
        /\ waiters'[s] \in Seq(Thread) /\ Once(waiters'[s])
        /\ Elems(waiters'[s]) = Elems(waiters[s]) \ {h}
        /\ \A r \in Sem : r # s => waiters'[r] = waiters[r]
        /\ at' = [at EXCEPT ![h] = "test"] /\ on' = on
    BY <1>3, SignalHead
  <2> HIDE DEF h
  <2>2. \A r \in Sem : Standing("blocked", r)' =
           IF r = s THEN Standing("blocked", r) \ {h} ELSE Standing("blocked", r)
    BY <2>1 DEF Queues, TypeOK, Standing
  <2>3. waiters' \in [Sem -> Seq(Thread)]
    BY <1>3, <2>1 DEF Queues, TypeOK, Signal
  <2>4. TypeOK' /\ OnInside'
    BY <1>1, <2>1, <2>3 DEF Queues, TypeOK, OnInside, Standing
  <2>5. QueuedOnce'
    BY <2>1, <2>2 DEF Queues, QueuedOnce
  <2> QED BY <2>4, <2>5 DEF Queues
<1> QED BY <1>2, <1>3

LEMMA QueuesStep == Queues /\ [Next]_semVars => Queues'
<1>1. Queues /\ UNCHANGED semVars => Queues'
  BY DEF Queues, TypeOK, OnInside, QueuedOnce, Standing, semVars
<1> QED
  BY <1>1, QueuesWait, QueuesTake, QueuesQueue, QueuesSignal DEF Next

\* The variables keep their types, a thread has a semaphore just while it is
\* inside uthread_sem_wait, and the waiter queues hold each blocked thread once
\* and nothing else.
THEOREM QueuesCorrect == Spec => [](TypeOK /\ OnInside /\ QueuedOnce)
<1>1. Queues <=> TypeOK /\ OnInside /\ QueuedOnce
  BY DEF Queues
<1>2. Spec => []Queues
  BY QueuesInit, QueuesStep, PTL DEF Spec
<1> QED BY <1>1, <1>2, PTL

-----------------------------------------------------------------------------
(* No wakeup is lost.                                                      *)

LEMMA StandingFinite ==
  \A s \in Sem : /\ IsFiniteSet(Standing("test", s))
                 /\ Cardinality(Standing("test", s)) \in Nat
<1> TAKE s \in Sem
<1>1. Standing("test", s) \subseteq Thread
  BY DEF Standing
<1> QED BY <1>1, SemaphoreAssumption, FS_Subset, FS_CardinalityType

LEMMA WakeupWait ==
  ASSUME Queues, NoLostWakeup, NEW t \in Thread, NEW r \in Sem, Wait(t, r)
  PROVE  NoLostWakeup'
<1> SUFFICES ASSUME NEW s \in Sem, waiters'[s] # <<>>
             PROVE  value'[s] <= Cardinality(Standing("test", s)')
  BY DEF NoLostWakeup
<1>1. waiters'[s] = waiters[s] /\ value'[s] = value[s] /\ value[s] \in Nat
  BY SemaphoreAssumption DEF Queues, TypeOK, Wait
<1>2. value[s] <= Cardinality(Standing("test", s))
  BY <1>1 DEF NoLostWakeup
<1>3. Standing("test", s) \subseteq Standing("test", s)'
  BY DEF Standing, Queues, TypeOK, Wait
<1>4. IsFiniteSet(Standing("test", s)')
  <2>1. Standing("test", s)' \subseteq Thread
    BY DEF Standing
  <2> QED BY <2>1, SemaphoreAssumption, FS_Subset
<1>5. /\ Cardinality(Standing("test", s)) <= Cardinality(Standing("test", s)')
      /\ Cardinality(Standing("test", s)') \in Nat /\ Cardinality(Standing("test", s)) \in Nat
  BY <1>3, <1>4, StandingFinite, FS_Subset, FS_CardinalityType
<1> QED BY <1>1, <1>2, <1>5

LEMMA WakeupTake ==
  ASSUME Queues, NoLostWakeup, NEW t \in Thread, Take(t)
  PROVE  NoLostWakeup'
<1> SUFFICES ASSUME NEW s \in Sem, waiters'[s] # <<>>
             PROVE  value'[s] <= Cardinality(Standing("test", s)')
  BY DEF NoLostWakeup
<1>1. on[t] \in Sem /\ waiters'[s] = waiters[s] /\ value[s] \in Nat
  BY SemaphoreAssumption DEF Queues, TypeOK, OnInside, Take
<1>2. value[s] <= Cardinality(Standing("test", s)) /\ Cardinality(Standing("test", s)) \in Nat
  BY <1>1, StandingFinite DEF NoLostWakeup
<1>3. CASE on[t] = s
  <2>1. value'[s] = value[s] - 1
    BY <1>1, <1>3 DEF Queues, TypeOK, Take
  <2>2. t \in Standing("test", s) /\ Standing("test", s)' = Standing("test", s) \ {t}
    BY <1>3, <1>1, SemaphoreAssumption DEF Standing, Queues, TypeOK, Take
  <2>3. Cardinality(Standing("test", s)') = Cardinality(Standing("test", s)) - 1
    BY <2>2, StandingFinite, FS_RemoveElement
  <2> QED BY <2>1, <2>3, <1>1, <1>2
<1>4. CASE on[t] # s
  <2>1. value'[s] = value[s]
    BY <1>1, <1>4 DEF Queues, TypeOK, Take
  <2>2. Standing("test", s)' = Standing("test", s)
    BY <1>4, SemaphoreAssumption DEF Standing, Queues, TypeOK, Take
  <2> QED BY <2>1, <2>2, <1>2
<1> QED BY <1>3, <1>4

LEMMA WakeupQueue ==
  ASSUME Queues, NoLostWakeup, NEW t \in Thread, Queue(t)
  PROVE  NoLostWakeup'
<1> SUFFICES ASSUME NEW s \in Sem, waiters'[s] # <<>>
             PROVE  value'[s] <= Cardinality(Standing("test", s)')
  BY DEF NoLostWakeup
<1>1. on[t] \in Sem /\ value'[s] = value[s] /\ value[s] \in Nat
  BY SemaphoreAssumption DEF Queues, TypeOK, OnInside, Queue
<1>2. CASE on[t] = s
  <2>1. value[s] = 0
    BY <1>1, <1>2 DEF Queue
  <2>2. Cardinality(Standing("test", s)') \in Nat
    <3>1. Standing("test", s)' \subseteq Thread
      BY DEF Standing
    <3> QED BY <3>1, SemaphoreAssumption, FS_Subset, FS_CardinalityType
  <2> QED BY <1>1, <2>1, <2>2
<1>3. CASE on[t] # s
  <2>1. waiters'[s] = waiters[s]
    BY <1>1, <1>3 DEF Queues, TypeOK, Queue
  <2>2. Standing("test", s)' = Standing("test", s)
    BY <1>3 DEF Standing, Queues, TypeOK, Queue
  <2> QED BY <1>1, <2>1, <2>2 DEF NoLostWakeup
<1> QED BY <1>2, <1>3

LEMMA WakeupSignal ==
  ASSUME Queues, NoLostWakeup, NEW t \in Thread, NEW r \in Sem, Signal(t, r)
  PROVE  NoLostWakeup'
<1> SUFFICES ASSUME NEW s \in Sem, waiters'[s] # <<>>
             PROVE  value'[s] <= Cardinality(Standing("test", s)')
  BY DEF NoLostWakeup
<1>1. value[s] \in Nat
  BY SemaphoreAssumption DEF Queues, TypeOK
<1>2. CASE waiters[r] = <<>>
  <2>1. s # r /\ waiters'[s] = waiters[s] /\ value'[s] = value[s]
    BY <1>2 DEF Queues, TypeOK, Signal
  <2>2. Standing("test", s)' = Standing("test", s)
    BY <1>2 DEF Standing, Signal
  <2> QED BY <2>1, <2>2 DEF NoLostWakeup
<1>3. CASE waiters[r] # <<>>
  <2> DEFINE h == Head(waiters[r])
  <2>1. h \in Standing("blocked", r) /\ at' = [at EXCEPT ![h] = "test"] /\ on' = on
    BY <1>3, SignalHead
  <2>2. h \in Thread /\ at[h] = "blocked" /\ on[h] = r
    BY <2>1 DEF Standing
  <2>4. CASE s = r
    <3>1. value'[s] = value[s] + 1 /\ waiters[s] # <<>>
      BY <2>4, <1>3 DEF Queues, TypeOK, Signal
    <3>2. h \notin Standing("test", s) /\ Standing("test", s)' = Standing("test", s) \cup {h}
      BY <2>1, <2>2, <2>4 DEF Standing, Queues, TypeOK
    <3>3. Cardinality(Standing("test", s)') = Cardinality(Standing("test", s)) + 1
      BY <3>2, StandingFinite, FS_AddElement
    <3> QED BY <3>1, <3>3, <1>1, StandingFinite DEF NoLostWakeup
  <2>5. CASE s # r
    <3>1. value'[s] = value[s] /\ waiters'[s] = waiters[s]
      BY <2>5 DEF Queues, TypeOK, Signal
    <3>2. Standing("test", s)' = Standing("test", s)
      BY <2>1, <2>2, <2>5 DEF Standing, Queues, TypeOK
    <3> QED BY <3>1, <3>2 DEF NoLostWakeup
  <2> QED BY <2>4, <2>5
<1> QED BY <1>2, <1>3

\* Whenever threads are queued at a semaphore, every permit it has left has a
\* thread on its way to take it.
THEOREM WakeupsCorrect == Spec => []NoLostWakeup
<1>1. Init => NoLostWakeup
  BY DEF Init, NoLostWakeup
<1>2. Queues /\ NoLostWakeup /\ [Next]_semVars => NoLostWakeup'
  <2>1. Queues /\ NoLostWakeup /\ UNCHANGED semVars => NoLostWakeup'
    BY DEF NoLostWakeup, Standing, semVars
  <2> QED BY <2>1, WakeupWait, WakeupTake, WakeupQueue, WakeupSignal DEF Next
<1> QED BY <1>1, <1>2, QueuesInit, QueuesStep, PTL DEF Spec

-----------------------------------------------------------------------------
(* The code implements the abstract semaphore, as far as safety goes.      *)

\* Every step of uthread_sem.c is a call, a return that takes a permit, a
\* signal, or nothing that a client can see.
THEOREM SafelyImplements == Spec => Abstract!SafeSpec
<1>1. Init => Abstract!Init
  BY SemaphoreAssumption DEF Init, Abstract!Init
<1>2. Queues /\ [Next]_semVars => [Abstract!Next]_(Abstract!vars)
  <2> SUFFICES ASSUME Queues, [Next]_semVars
               PROVE  [Abstract!Next]_(Abstract!vars)
    OBVIOUS
  <2> USE SemaphoreAssumption DEF Queues, TypeOK, OnInside
  <2>1. ASSUME NEW t \in Thread, Queue(t) PROVE UNCHANGED Abstract!vars
    BY <2>1 DEF Queue, Abstract!vars
  <2> DEFINE Inside == [s \in Sem |-> {t \in Thread : on[t] = s}]
  <2>2. ASSUME NEW t \in Thread, NEW r \in Sem, r = on[t], Take(t)
        PROVE  Abstract!Pass(t, r)
    <3>1. value[r] > 0 /\ value' = [value EXCEPT ![r] = @ - 1]
      BY <2>2 DEF Take
    <3>2. Inside' = [Inside EXCEPT ![r] = @ \ {t}]
      <4>1. \A s \in Sem : Inside'[s] = IF s = r THEN Inside[s] \ {t}
                                                ELSE Inside[s]
        BY <2>2 DEF Take
      <4> QED BY <4>1
    <3> QED BY <2>2, <3>1, <3>2 DEF Abstract!Pass
  <2>3. ASSUME NEW t \in Thread, NEW s \in Sem, Wait(t, s)
        PROVE  Abstract!Arrive(t, s)
    <3>1. on[t] = NoSem /\ value' = value
      BY <2>3 DEF Wait
    <3>2. Inside' = [Inside EXCEPT ![s] = @ \cup {t}]
      <4>1. \A r \in Sem : Inside'[r] = IF r = s THEN Inside[r] \cup {t}
                                                ELSE Inside[r]
        BY <2>3, <3>1 DEF Wait
      <4> QED BY <4>1
    <3> QED BY <3>1, <3>2 DEF Abstract!Arrive
  <2>4. ASSUME NEW t \in Thread, NEW s \in Sem, Signal(t, s)
        PROVE  Abstract!Signal(t, s)
    BY <2>4 DEF Signal, Abstract!Signal
  <2>5. CASE UNCHANGED semVars
    BY <2>5 DEF semVars, Abstract!vars
  <2>6. CASE \E t \in Thread : Queue(t)
    BY <2>6, <2>1
  <2>7. CASE \E t \in Thread : Take(t)
    <3>1. PICK t \in Thread : Take(t)
      BY <2>7
    <3>2. PICK r \in Sem : r = on[t]
      BY <3>1 DEF Take
    <3> QED BY <3>1, <3>2, <2>2 DEF Abstract!Next
  <2>8. CASE \E t \in Thread, s \in Sem : Wait(t, s) \/ Signal(t, s)
    BY <2>8, <2>3, <2>4 DEF Abstract!Next
  <2> HIDE DEF Queues, TypeOK, OnInside
  <2> QED BY <2>5, <2>6, <2>7, <2>8 DEF Next
<1> QED BY <1>1, <1>2, QueuesInit, QueuesStep, PTL
        DEF Spec, Abstract!SafeSpec

-----------------------------------------------------------------------------
(* Producers and consumers on semaphores.                                  *)

\* Thread t has the lock.
Holds(t) ==
  /\ pc[t] \in {"load", "store", "assert", "record", "signal", "unlock"}
  /\ at[t] = "out"

\* lock is 1 or 0, and 0 while a thread, and only one, has it.
Exclusion ==
  /\ value[lock] \in {0, 1}
  /\ \A t \in Thread : Holds(t) => value[lock] = 0
  /\ \A t, u \in Thread : Holds(t) /\ Holds(u) => t = u

\* A thread that is inside a wait is where its loop makes that call, and what
\* a thread is about to increment is items.
Placed(t) ==
  /\ pc[t] # "aborted"
  /\ at[t] = "out" \/ (pc[t] = "lock" /\ on[t] = Needs(t))
                   \/ (pc[t] = "load" /\ on[t] = lock)
  /\ pc[t] = "store" => reg[t] = items

PCTypes ==
  /\ items \in Int
  /\ pc \in [Thread -> Places]
  /\ reg \in [Thread -> Int]
  /\ histogram \in [0..MAX_ITEMS -> Int]

PCInv ==
  /\ Queues
  /\ PCTypes
  /\ \A t \in Thread : Placed(t)
  /\ Exclusion
  /\ Accounted

-----------------------------------------------------------------------------
(* The semaphores.                                                         *)

LEMMA SemsDiffer ==
  /\ lock \in Sem /\ isNotEmpty \in Sem /\ isNotFull \in Sem
  /\ lock # isNotEmpty /\ lock # isNotFull /\ isNotEmpty # isNotFull
<1> DEFINE S0 == {}
           S1 == S0 \cup {lock}
           S2 == S1 \cup {isNotEmpty}
           S3 == S2 \cup {isNotFull}
<1>1. IsFiniteSet(S1) /\ Cardinality(S1) = 1
  BY FS_EmptySet, FS_AddElement
<1>2. /\ IsFiniteSet(S2)
      /\ Cardinality(S2) = IF isNotEmpty \in S1 THEN 1 ELSE 2
  <2> HIDE DEF S1
  <2> QED BY <1>1, FS_AddElement
<1>3. Cardinality(S3) = IF isNotFull \in S2 THEN Cardinality(S2)
                                            ELSE Cardinality(S2) + 1
  <2> HIDE DEF S2
  <2> QED BY <1>2, FS_AddElement
<1>4. S3 = Sem
  BY PCSemAssumption
<1>5. Cardinality(S3) = 3
  BY <1>4, PCSemAssumption
<1>6. isNotEmpty \notin S1 /\ isNotFull \notin S2
  <2> HIDE DEF S1, S2, S3
  <2> QED BY <1>2, <1>3, <1>5
<1> QED BY <1>6, PCSemAssumption

LEMMA NeedsProvides ==
  ASSUME NEW t \in Thread
  PROVE  /\ Needs(t) \in Sem /\ Provides(t) \in Sem
         /\ Needs(t) # lock /\ Provides(t) # lock
  BY SemsDiffer DEF Needs, Provides

\* Every step of the program is a step of the semaphores or leaves them alone.
LEMMA StepOfSemaphores ==
  ASSUME NEW t \in Thread, Step(t)
  PROVE  [Next]_semVars
<1>1. lock \in Sem /\ Needs(t) \in Sem /\ Provides(t) \in Sem
  BY SemsDiffer, NeedsProvides
<1>2. CASE WaitCount(t) \/ WaitLock(t)
  BY <1>1, <1>2 DEF WaitCount, WaitLock, Call, Next
<1>3. CASE Go(t)
  BY <1>3 DEF Go, Next
<1>4. CASE Load(t) \/ Store(t) \/ CheckItems(t) \/ Record(t)
  BY <1>4 DEF Load, Store, CheckItems, Record
<1>5. CASE Provide(t) \/ Unlock(t)
  BY <1>1, <1>5 DEF Provide, Unlock, Next
<1> QED BY <1>2, <1>3, <1>4, <1>5 DEF Step

\* The program changes the semaphores by their operations only (pc_sem.c never
\* looks into a uthread_sem), so that what is proved of them holds in it.
THEOREM RunsOnSemaphores == PCSpec => Spec
<1>1. PCInit => Init
  BY DEF PCInit
<1>2. [PCNext]_vars => [Next]_semVars
  <2>1. UNCHANGED vars => UNCHANGED semVars
    BY DEF vars
  <2> QED BY <2>1, StepOfSemaphores DEF PCNext
<1> QED BY <1>1, <1>2, PTL DEF PCSpec, Spec

\* A signal moves a waiter, if any, from blocked to test: the threads that are
\* out of any wait stay out, and no other thread gets out.
LEMMA SignalEffect ==
  ASSUME Queues, NEW t \in Thread, NEW s \in Sem, Signal(t, s)
  PROVE  /\ on' = on
         /\ \A u \in Thread : at'[u] = "out" <=> at[u] = "out"
         /\ value[s] \in Int
         /\ value' = [value EXCEPT ![s] = value[s] + 1]
<1>1. /\ on' = on /\ value' = [value EXCEPT ![s] = value[s] + 1]
      /\ value[s] \in Int
  BY SemaphoreAssumption DEF Signal, Queues, TypeOK
<1>2. CASE waiters[s] = <<>>
  BY <1>1, <1>2 DEF Signal
<1>3. CASE waiters[s] # <<>>
  <2>1. /\ Head(waiters[s]) \in Standing("blocked", s)
        /\ at' = [at EXCEPT ![Head(waiters[s])] = "test"]
    BY <1>3, SignalHead
  <2> QED BY <1>1, <2>1 DEF Standing, Queues, TypeOK
<1> QED BY <1>2, <1>3

-----------------------------------------------------------------------------
(* Counting the threads that a step moves.                                 *)

\* Two sets of threads that agree but for t.
LEMMA Recount ==
  ASSUME NEW S \in SUBSET Thread, NEW R \in SUBSET Thread, NEW t \in Thread,
         R \ {t} = S \ {t}
  PROVE  /\ Cardinality(S) \in Nat /\ Cardinality(R) \in Nat
         /\ (t \in R <=> t \in S) => Cardinality(R) = Cardinality(S)
         /\ t \in R /\ t \notin S => Cardinality(R) = Cardinality(S) + 1
         /\ t \notin R /\ t \in S => Cardinality(R) = Cardinality(S) - 1
<1>1. IsFiniteSet(S) /\ IsFiniteSet(R)
  BY SemaphoreAssumption, FS_Subset
<1>2. Cardinality(S) \in Nat /\ Cardinality(R) \in Nat
  BY <1>1, FS_CardinalityType
<1>3. CASE t \in R <=> t \in S
  <2>1. R = S
    BY <1>3
  <2> QED BY <1>2, <1>3, <2>1
<1>4. CASE t \in R /\ t \notin S
  <2>1. R = S \cup {t}
    BY <1>4
  <2> QED BY <1>1, <1>2, <1>4, <2>1, FS_AddElement
<1>5. CASE t \notin R /\ t \in S
  <2>1. R = S \ {t}
    BY <1>5
  <2> QED BY <1>1, <1>2, <1>5, <2>1, FS_RemoveElement
<1> QED BY <1>3, <1>4, <1>5

LEMMA CountsAreNat ==
  ASSUME NEW T \in SUBSET Thread
  PROVE  Cardinality(Reserved(T)) \in Nat /\ Cardinality(Unsaid(T)) \in Nat
<1>1. Reserved(T) \subseteq Thread /\ Unsaid(T) \subseteq Thread
  BY DEF Reserved, Unsaid
<1> QED BY <1>1, SemaphoreAssumption, FS_Subset, FS_CardinalityType

LEMMA FourCounts ==
  /\ Cardinality(Reserved(Producer)) \in Nat
  /\ Cardinality(Reserved(Consumer)) \in Nat
  /\ Cardinality(Unsaid(Producer)) \in Nat
  /\ Cardinality(Unsaid(Consumer)) \in Nat
<1>1. Producer \in SUBSET Thread /\ Consumer \in SUBSET Thread
  BY PCSemAssumption
<1> QED BY <1>1, CountsAreNat

\* No thread but t goes to another place or gets into or out of a wait.
OnlyMoves(t) ==
  \A u \in Thread \ {t} : pc'[u] = pc[u] /\ (at'[u] = "out" <=> at[u] = "out")

\* Such a step changes the counts by what becomes of t alone.
LEMMA CountsOfMove ==
  ASSUME NEW t \in Thread, OnlyMoves(t), NEW T \in SUBSET Thread
  PROVE  /\ (t \in Reserved(T)' <=> t \in Reserved(T)) =>
               Cardinality(Reserved(T)') = Cardinality(Reserved(T))
         /\ t \in Reserved(T)' /\ t \notin Reserved(T) =>
               Cardinality(Reserved(T)') = Cardinality(Reserved(T)) + 1
         /\ t \notin Reserved(T)' /\ t \in Reserved(T) =>
               Cardinality(Reserved(T)') = Cardinality(Reserved(T)) - 1
         /\ (t \in Unsaid(T)' <=> t \in Unsaid(T)) =>
               Cardinality(Unsaid(T)') = Cardinality(Unsaid(T))
         /\ t \in Unsaid(T)' /\ t \notin Unsaid(T) =>
               Cardinality(Unsaid(T)') = Cardinality(Unsaid(T)) + 1
         /\ t \notin Unsaid(T)' /\ t \in Unsaid(T) =>
               Cardinality(Unsaid(T)') = Cardinality(Unsaid(T)) - 1
<1>1. /\ Reserved(T) \in SUBSET Thread /\ Reserved(T)' \in SUBSET Thread
      /\ Unsaid(T) \in SUBSET Thread /\ Unsaid(T)' \in SUBSET Thread
  BY DEF Reserved, Unsaid
<1>2. Reserved(T)' \ {t} = Reserved(T) \ {t}
  BY DEF OnlyMoves, Reserved
<1>3. Unsaid(T)' \ {t} = Unsaid(T) \ {t}
  BY DEF OnlyMoves, Unsaid
<1>4. /\ (t \in Reserved(T)' <=> t \in Reserved(T)) =>
            Cardinality(Reserved(T)') = Cardinality(Reserved(T))
      /\ t \in Reserved(T)' /\ t \notin Reserved(T) =>
            Cardinality(Reserved(T)') = Cardinality(Reserved(T)) + 1
      /\ t \notin Reserved(T)' /\ t \in Reserved(T) =>
            Cardinality(Reserved(T)') = Cardinality(Reserved(T)) - 1
  BY <1>1, <1>2, Recount
<1>5. /\ (t \in Unsaid(T)' <=> t \in Unsaid(T)) =>
            Cardinality(Unsaid(T)') = Cardinality(Unsaid(T))
      /\ t \in Unsaid(T)' /\ t \notin Unsaid(T) =>
            Cardinality(Unsaid(T)') = Cardinality(Unsaid(T)) + 1
      /\ t \notin Unsaid(T)' /\ t \in Unsaid(T) =>
            Cardinality(Unsaid(T)') = Cardinality(Unsaid(T)) - 1
  BY <1>1, <1>3, Recount
<1> QED BY <1>4, <1>5

\* A step that moves t alone, between places where it counts the same, and
\* leaves items and the counting semaphores alone, keeps the account.
LEMMA AccountedQuiet ==
  ASSUME Accounted, NEW t \in Thread, OnlyMoves(t), items' = items,
         value'[isNotEmpty] = value[isNotEmpty],
         value'[isNotFull] = value[isNotFull],
         \A T \in SUBSET Thread : /\ t \in Reserved(T)' <=> t \in Reserved(T)
                                  /\ t \in Unsaid(T)' <=> t \in Unsaid(T)
  PROVE  Accounted'
<1>1. Producer \in SUBSET Thread /\ Consumer \in SUBSET Thread
  BY PCSemAssumption
<1>2. \A T \in {Producer, Consumer} :
         /\ Cardinality(Reserved(T)') = Cardinality(Reserved(T))
         /\ Cardinality(Unsaid(T)') = Cardinality(Unsaid(T))
  BY <1>1, CountsOfMove
<1> QED BY <1>2 DEF Accounted

\* The account bounds items, by counts that are none of them negative.
LEMMA AccountedRange ==
  ASSUME Queues, PCTypes, Accounted
  PROVE  items \in 0..MAX_ITEMS
<1>1. value[isNotEmpty] \in Nat /\ value[isNotFull] \in Nat
  BY SemsDiffer, SemaphoreAssumption DEF Queues, TypeOK
<1>2. PICK e, f, a, b, c, d \in Nat :
        /\ e = value[isNotEmpty] /\ f = value[isNotFull]
        /\ a = Cardinality(Reserved(Consumer)) /\ b = Cardinality(Unsaid(Producer))
        /\ c = Cardinality(Reserved(Producer)) /\ d = Cardinality(Unsaid(Consumer))
  BY <1>1, FourCounts
<1>3. items = e + a + b /\ MAX_ITEMS - items = f + c + d
  BY <1>2 DEF Accounted
<1>4. items \in Int /\ MAX_ITEMS \in Nat
  BY PCSemAssumption DEF PCTypes
<1> QED BY <1>3, <1>4

-----------------------------------------------------------------------------
(* PCInv is inductive.                                                     *)

LEMMA PCInvInit == PCInit => PCInv
<1> SUFFICES ASSUME PCInit PROVE PCInv
  OBVIOUS
<1>1. Queues
  BY QueuesInit DEF PCInit
<1>2. PCTypes
  BY PCSemAssumption DEF PCInit, PCTypes, Places
<1>3. /\ at = [t \in Thread |-> "out"] /\ pc = [t \in Thread |-> "count"]
      /\ value = Initial /\ items = 0
  BY DEF PCInit, Init
<1>4. (\A t \in Thread : Placed(t)) /\ Exclusion
  BY <1>3, PCSemAssumption DEF Placed, Exclusion, Holds
<1>5. \A T \in SUBSET Thread : Reserved(T) = {} /\ Unsaid(T) = {}
  BY <1>3 DEF Reserved, Unsaid
<1>6. /\ Reserved(Producer) = {} /\ Unsaid(Producer) = {}
      /\ Reserved(Consumer) = {} /\ Unsaid(Consumer) = {}
  BY <1>5, PCSemAssumption
<1>7. Accounted
  BY <1>3, <1>6, FS_EmptySet, PCSemAssumption DEF Accounted
<1> QED BY <1>1, <1>2, <1>4, <1>7 DEF PCInv

\* The first wait is called: the thread is in it, with nothing yet.
LEMMA PCInvWaitCount ==
  ASSUME PCInv, NEW t \in Thread, WaitCount(t), Queues'
  PROVE  PCInv'
<1>1. /\ pc[t] = "count" /\ at[t] = "out"
      /\ pc' = [pc EXCEPT ![t] = "lock"]
      /\ at' = [at EXCEPT ![t] = "test"] /\ on' = [on EXCEPT ![t] = Needs(t)]
      /\ value' = value /\ UNCHANGED <<items, histogram, reg>>
  BY DEF WaitCount, Call, In, Wait, Goto
<1>2. /\ pc'[t] = "lock" /\ at'[t] = "test" /\ on'[t] = Needs(t)
      /\ \A u \in Thread \ {t} : pc'[u] = pc[u] /\ at'[u] = at[u] /\ on'[u] = on[u]
  BY <1>1 DEF PCInv, PCTypes, Queues, TypeOK
<1>3. PCTypes'
  BY <1>1 DEF PCInv, PCTypes, Places
<1>4. \A u \in Thread : Placed(u)'
  BY <1>1, <1>2 DEF PCInv, Placed, Needs
<1>5. Exclusion'
  BY <1>1, <1>2 DEF PCInv, Exclusion, Holds
<1>6. Accounted'
  BY <1>1, <1>2, AccountedQuiet DEF PCInv, OnlyMoves, Reserved, Unsaid
<1> QED BY <1>3, <1>4, <1>5, <1>6 DEF PCInv

\* The lock is asked for: the thread keeps the share its first wait gave it.
LEMMA PCInvWaitLock ==
  ASSUME PCInv, NEW t \in Thread, WaitLock(t), Queues'
  PROVE  PCInv'
<1>1. /\ pc[t] = "lock" /\ at[t] = "out"
      /\ pc' = [pc EXCEPT ![t] = "load"]
      /\ at' = [at EXCEPT ![t] = "test"] /\ on' = [on EXCEPT ![t] = lock]
      /\ value' = value /\ UNCHANGED <<items, histogram, reg>>
  BY DEF WaitLock, Call, In, Wait, Goto
<1>2. /\ pc'[t] = "load" /\ at'[t] = "test" /\ on'[t] = lock
      /\ \A u \in Thread \ {t} : pc'[u] = pc[u] /\ at'[u] = at[u] /\ on'[u] = on[u]
  BY <1>1 DEF PCInv, PCTypes, Queues, TypeOK
<1>3. PCTypes'
  BY <1>1 DEF PCInv, PCTypes, Places
<1>4. \A u \in Thread : Placed(u)'
  BY <1>1, <1>2 DEF PCInv, Placed, Needs
<1>5. Exclusion'
  BY <1>1, <1>2 DEF PCInv, Exclusion, Holds
<1>6. Accounted'
  BY <1>1, <1>2, AccountedQuiet DEF PCInv, OnlyMoves, Reserved, Unsaid
<1> QED BY <1>3, <1>4, <1>5, <1>6 DEF PCInv

LEMMA PCInvQueue ==
  ASSUME PCInv, NEW t \in Thread, Queue(t), UNCHANGED appVars, Queues'
  PROVE  PCInv'
<1>1. /\ at[t] = "test" /\ at' = [at EXCEPT ![t] = "blocked"]
      /\ value' = value /\ on' = on
      /\ UNCHANGED <<items, histogram, pc, reg>>
  BY DEF Queue, appVars
<1>2. /\ at'[t] = "blocked"
      /\ \A u \in Thread \ {t} : at'[u] = at[u]
  BY <1>1 DEF PCInv, Queues, TypeOK
<1>3. PCTypes'
  BY <1>1 DEF PCInv, PCTypes
<1>4. \A u \in Thread : Placed(u)'
  BY <1>1, <1>2 DEF PCInv, Placed, Needs
<1>5. Exclusion'
  BY <1>1, <1>2 DEF PCInv, Exclusion, Holds
<1>6. Accounted'
  BY <1>1, <1>2, AccountedQuiet DEF PCInv, OnlyMoves, Reserved, Unsaid
<1> QED BY <1>3, <1>4, <1>5, <1>6 DEF PCInv

\* A wait returns.  The lock's makes the thread the one that has it; the
\* other's turns a permit into a thread that has its share.
LEMMA PCInvTake ==
  ASSUME PCInv, NEW t \in Thread, Take(t), UNCHANGED appVars, Queues'
  PROVE  PCInv'
<1> DEFINE s == on[t]
<1>1. /\ at[t] = "test" /\ at' = [at EXCEPT ![t] = "out"]
      /\ ~(value[s] < 1) /\ value' = [value EXCEPT ![s] = value[s] - 1]
      /\ on' = [on EXCEPT ![t] = NoSem]
      /\ UNCHANGED <<items, histogram, pc, reg>>
  BY DEF Take, appVars
<1>2. /\ at'[t] = "out" /\ on'[t] = NoSem
      /\ \A u \in Thread \ {t} : at'[u] = at[u] /\ on'[u] = on[u]
  BY <1>1 DEF PCInv, Queues, TypeOK
<1>3. \/ pc[t] = "load" /\ s = lock
      \/ pc[t] = "lock" /\ s = Needs(t)
  BY <1>1 DEF PCInv, Placed
<1>4. /\ s \in Sem /\ \A r \in Sem : value[r] \in Int
      /\ \A r \in Sem : value'[r] = IF r = s THEN value[r] - 1 ELSE value[r]
  BY <1>1, <1>3, SemsDiffer, NeedsProvides, SemaphoreAssumption
     DEF PCInv, Queues, TypeOK
<1> HIDE DEF s
<1>5. PCTypes'
  BY <1>1 DEF PCInv, PCTypes
<1>6. \A u \in Thread : Placed(u)'
  BY <1>1, <1>2 DEF PCInv, Placed, Needs
<1>7. OnlyMoves(t)
  BY <1>1, <1>2 DEF OnlyMoves
<1>8. CASE pc[t] = "load" /\ s = lock
  <2>1. value[lock] = 1 /\ value'[lock] = 0
    BY <1>1, <1>4, <1>8 DEF PCInv, Exclusion
  <2>2. \A u \in Thread : ~Holds(u)
    BY <2>1 DEF PCInv, Exclusion
  <2>3. \A u \in Thread \ {t} : ~Holds(u)'
    BY <1>1, <1>2, <2>2 DEF Holds
  <2>4. Exclusion'
    BY <2>1, <2>3 DEF Exclusion
  <2>5. value'[isNotEmpty] = value[isNotEmpty] /\ value'[isNotFull] = value[isNotFull]
    BY <1>4, <1>8, SemsDiffer
  <2>6. Accounted'
    BY <1>1, <1>2, <1>7, <1>8, <2>5, AccountedQuiet DEF PCInv, Reserved, Unsaid
  <2> QED BY <1>5, <1>6, <2>4, <2>6 DEF PCInv
<1>9. CASE pc[t] = "lock" /\ s = Needs(t)
  <2>1. value'[lock] = value[lock]
    BY <1>4, <1>9, SemsDiffer, NeedsProvides
  <2>2. Exclusion'
    BY <1>1, <1>2, <1>9, <2>1 DEF PCInv, Exclusion, Holds
  <2>3. \A T \in SUBSET Thread :
           /\ Cardinality(Unsaid(T)') = Cardinality(Unsaid(T))
           /\ Cardinality(Reserved(T)') = IF t \in T THEN Cardinality(Reserved(T)) + 1
                                                    ELSE Cardinality(Reserved(T))
    <3> TAKE T \in SUBSET Thread
    <3>1. t \notin Unsaid(T) /\ t \notin Unsaid(T)' /\ t \notin Reserved(T)
      BY <1>1, <1>9 DEF Unsaid, Reserved
    <3>2. t \in Reserved(T)' <=> t \in T
      BY <1>1, <1>2, <1>9 DEF Reserved
    <3> QED BY <3>1, <3>2, <1>7, CountsOfMove
  <2>4. items' = items
    BY <1>1
  <2>5. /\ Cardinality(Reserved(Producer)) \in Nat
        /\ Cardinality(Reserved(Consumer)) \in Nat
        /\ Cardinality(Unsaid(Producer)) \in Nat
        /\ Cardinality(Unsaid(Consumer)) \in Nat
    BY FourCounts
  <2>6. /\ Accounted /\ items \in Int /\ MAX_ITEMS \in Int
        /\ value[isNotEmpty] \in Int /\ value[isNotFull] \in Int
    BY <1>4, SemsDiffer, PCSemAssumption DEF PCInv, PCTypes
  <2>7. SUFFICES Accounted'
    BY <1>5, <1>6, <2>2 DEF PCInv
  <2>8. CASE t \in Producer
    <3>1. t \notin Consumer /\ s = isNotFull
      BY <1>9, <2>8, PCSemAssumption DEF Needs
    <3>2. /\ value'[isNotFull] = value[isNotFull] - 1
          /\ value'[isNotEmpty] = value[isNotEmpty]
      BY <1>4, <3>1, SemsDiffer
    <3>3. /\ Cardinality(Reserved(Producer)') = Cardinality(Reserved(Producer)) + 1
          /\ Cardinality(Reserved(Consumer)') = Cardinality(Reserved(Consumer))
          /\ Cardinality(Unsaid(Producer)') = Cardinality(Unsaid(Producer))
          /\ Cardinality(Unsaid(Consumer)') = Cardinality(Unsaid(Consumer))
      BY <2>3, <2>8, <3>1, PCSemAssumption
    <3>4. items' = value'[isNotEmpty] + Cardinality(Reserved(Consumer)')
                     + Cardinality(Unsaid(Producer)')
      BY <2>4, <2>5, <2>6, <3>2, <3>3 DEF Accounted
    <3>5. MAX_ITEMS - items' = value'[isNotFull] + Cardinality(Reserved(Producer)')
                     + Cardinality(Unsaid(Consumer)')
      BY <2>4, <2>5, <2>6, <3>2, <3>3 DEF Accounted
    <3> QED BY <3>4, <3>5 DEF Accounted
  <2>9. CASE t \in Consumer
    <3>1. t \notin Producer /\ s = isNotEmpty
      BY <1>9, <2>9, PCSemAssumption DEF Needs
    <3>2. /\ value'[isNotEmpty] = value[isNotEmpty] - 1
          /\ value'[isNotFull] = value[isNotFull]
      BY <1>4, <3>1, SemsDiffer
    <3>3. /\ Cardinality(Reserved(Consumer)') = Cardinality(Reserved(Consumer)) + 1
          /\ Cardinality(Reserved(Producer)') = Cardinality(Reserved(Producer))
          /\ Cardinality(Unsaid(Consumer)') = Cardinality(Unsaid(Consumer))
          /\ Cardinality(Unsaid(Producer)') = Cardinality(Unsaid(Producer))
      BY <2>3, <2>9, <3>1, PCSemAssumption
    <3>4. items' = value'[isNotEmpty] + Cardinality(Reserved(Consumer)')
                     + Cardinality(Unsaid(Producer)')
      <4>1. items = (value[isNotEmpty] - 1)
                     + (Cardinality(Reserved(Consumer)) + 1)
                     + Cardinality(Unsaid(Producer))
        BY <2>5, <2>6 DEF Accounted
      <4> QED BY <4>1, <2>4, <3>2, <3>3
    <3>5. MAX_ITEMS - items' = value'[isNotFull] + Cardinality(Reserved(Producer)')
                     + Cardinality(Unsaid(Consumer)')
      BY <2>4, <2>5, <2>6, <3>2, <3>3 DEF Accounted
    <3> QED BY <3>4, <3>5 DEF Accounted
  <2> QED BY <2>8, <2>9, PCSemAssumption
<1> QED BY <1>3, <1>8, <1>9

LEMMA PCInvLoad ==
  ASSUME PCInv, NEW t \in Thread, Load(t), Queues'
  PROVE  PCInv'
<1>1. /\ pc[t] = "load" /\ at[t] = "out" /\ pc' = [pc EXCEPT ![t] = "store"]
      /\ reg' = [reg EXCEPT ![t] = items]
      /\ UNCHANGED <<value, at, on, items, histogram>>
  BY DEF Load, In, Goto, semVars
<1>2. /\ pc'[t] = "store" /\ reg'[t] = items
      /\ \A u \in Thread \ {t} : pc'[u] = pc[u] /\ reg'[u] = reg[u]
  BY <1>1 DEF PCInv, PCTypes
<1>3. PCTypes'
  BY <1>1 DEF PCInv, PCTypes, Places
<1>4. \A u \in Thread : Placed(u)'
  BY <1>1, <1>2 DEF PCInv, Placed, Needs
<1>5. Exclusion'
  BY <1>1, <1>2 DEF PCInv, Exclusion, Holds
<1>6. Accounted'
  BY <1>1, <1>2, AccountedQuiet DEF PCInv, OnlyMoves, Reserved, Unsaid
<1> QED BY <1>3, <1>4, <1>5, <1>6 DEF PCInv

\* Nobody else has changed items since it was read: a thread with its share
\* becomes one that has changed items and not said so.
LEMMA PCInvStore ==
  ASSUME PCInv, NEW t \in Thread, Store(t), Queues'
  PROVE  PCInv'
<1>1. /\ pc[t] = "store" /\ at[t] = "out" /\ pc' = [pc EXCEPT ![t] = "assert"]
      /\ items' = IF t \in Producer THEN reg[t] + 1 ELSE reg[t] - 1
      /\ UNCHANGED <<value, at, on, histogram, reg>>
  BY DEF Store, In, Goto, semVars
<1>2. /\ pc'[t] = "assert"
      /\ \A u \in Thread \ {t} : pc'[u] = pc[u]
  BY <1>1 DEF PCInv, PCTypes
<1>3. reg[t] = items /\ items \in Int
  BY <1>1 DEF PCInv, Placed, PCTypes
<1>4. PCTypes'
  BY <1>1, <1>3 DEF PCInv, PCTypes, Places
<1>5. \A u \in Thread \ {t} : pc[u] # "store"
  BY <1>1 DEF PCInv, Exclusion, Holds, Placed
<1>6. \A u \in Thread : Placed(u)'
  BY <1>1, <1>2, <1>5 DEF PCInv, Placed, Needs
<1>7. Exclusion'
  BY <1>1, <1>2 DEF PCInv, Exclusion, Holds
<1>8. \A T \in SUBSET Thread :
         /\ Cardinality(Unsaid(T)') = IF t \in T THEN Cardinality(Unsaid(T)) + 1
                                                ELSE Cardinality(Unsaid(T))
         /\ Cardinality(Reserved(T)') = IF t \in T THEN Cardinality(Reserved(T)) - 1
                                                  ELSE Cardinality(Reserved(T))
  <2> TAKE T \in SUBSET Thread
  <2>1. OnlyMoves(t)
    BY <1>1, <1>2 DEF OnlyMoves
  <2>2. t \notin Unsaid(T) /\ t \notin Reserved(T)'
    BY <1>1, <1>2 DEF Unsaid, Reserved
  <2>3. (t \in Unsaid(T)' <=> t \in T) /\ (t \in Reserved(T) <=> t \in T)
    BY <1>1, <1>2 DEF Unsaid, Reserved
  <2> QED BY <2>1, <2>2, <2>3, CountsOfMove
<1>9. /\ Accounted /\ MAX_ITEMS \in Int
      /\ value[isNotEmpty] \in Int /\ value[isNotFull] \in Int
      /\ value'[isNotEmpty] = value[isNotEmpty]
      /\ value'[isNotFull] = value[isNotFull]
  BY <1>1, SemsDiffer, PCSemAssumption, SemaphoreAssumption
     DEF PCInv, Queues, TypeOK
<1>10. /\ Cardinality(Reserved(Producer)) \in Nat
       /\ Cardinality(Reserved(Consumer)) \in Nat
       /\ Cardinality(Unsaid(Producer)) \in Nat
       /\ Cardinality(Unsaid(Consumer)) \in Nat
  BY FourCounts
<1>11. Accounted'
  <2>1. CASE t \in Producer
    <3>1. t \notin Consumer /\ items' = items + 1
      BY <1>1, <1>3, <2>1, PCSemAssumption
    <3>2. /\ Cardinality(Reserved(Producer)') = Cardinality(Reserved(Producer)) - 1
          /\ Cardinality(Reserved(Consumer)') = Cardinality(Reserved(Consumer))
          /\ Cardinality(Unsaid(Producer)') = Cardinality(Unsaid(Producer)) + 1
          /\ Cardinality(Unsaid(Consumer)') = Cardinality(Unsaid(Consumer))
      BY <1>8, <2>1, <3>1, PCSemAssumption
    <3>3. items' = value'[isNotEmpty] + Cardinality(Reserved(Consumer)')
                     + Cardinality(Unsaid(Producer)')
      BY <1>3, <1>9, <1>10, <3>1, <3>2 DEF Accounted
    <3>4. MAX_ITEMS - items' = value'[isNotFull] + Cardinality(Reserved(Producer)')
                     + Cardinality(Unsaid(Consumer)')
      BY <1>3, <1>9, <1>10, <3>1, <3>2 DEF Accounted
    <3> QED BY <3>3, <3>4 DEF Accounted
  <2>2. CASE t \in Consumer
    <3>1. t \notin Producer /\ items' = items - 1
      BY <1>1, <1>3, <2>2, PCSemAssumption
    <3>2. /\ Cardinality(Reserved(Consumer)') = Cardinality(Reserved(Consumer)) - 1
          /\ Cardinality(Reserved(Producer)') = Cardinality(Reserved(Producer))
          /\ Cardinality(Unsaid(Consumer)') = Cardinality(Unsaid(Consumer)) + 1
          /\ Cardinality(Unsaid(Producer)') = Cardinality(Unsaid(Producer))
      BY <1>8, <2>2, <3>1, PCSemAssumption
    <3>3. items' = value'[isNotEmpty] + Cardinality(Reserved(Consumer)')
                     + Cardinality(Unsaid(Producer)')
      BY <1>3, <1>9, <1>10, <3>1, <3>2 DEF Accounted
    <3>4. MAX_ITEMS - items' = value'[isNotFull] + Cardinality(Reserved(Producer)')
                     + Cardinality(Unsaid(Consumer)')
      BY <1>3, <1>9, <1>10, <3>1, <3>2 DEF Accounted
    <3> QED BY <3>3, <3>4 DEF Accounted
  <2> QED BY <2>1, <2>2, PCSemAssumption
<1> QED BY <1>4, <1>6, <1>7, <1>11 DEF PCInv

\* The account puts items in its range, so the assertion holds.
LEMMA PCInvCheckItems ==
  ASSUME PCInv, NEW t \in Thread, CheckItems(t), Queues'
  PROVE  PCInv'
<1>1. items \in 0..MAX_ITEMS
  BY AccountedRange DEF PCInv
<1>2. /\ pc[t] = "assert" /\ at[t] = "out" /\ pc' = [pc EXCEPT ![t] = "record"]
      /\ reg' = [reg EXCEPT ![t] = histogram[items]]
      /\ UNCHANGED <<value, at, on, items, histogram>>
  BY <1>1, PCSemAssumption DEF CheckItems, In, Goto, semVars
<1>3. /\ pc'[t] = "record"
      /\ \A u \in Thread \ {t} : pc'[u] = pc[u] /\ reg'[u] = reg[u]
  BY <1>2 DEF PCInv, PCTypes
<1>4. PCTypes'
  BY <1>1, <1>2 DEF PCInv, PCTypes, Places
<1>5. \A u \in Thread : Placed(u)'
  BY <1>2, <1>3 DEF PCInv, Placed, Needs
<1>6. Exclusion'
  BY <1>2, <1>3 DEF PCInv, Exclusion, Holds
<1>7. Accounted'
  BY <1>2, <1>3, AccountedQuiet DEF PCInv, OnlyMoves, Reserved, Unsaid
<1> QED BY <1>4, <1>5, <1>6, <1>7 DEF PCInv

LEMMA PCInvRecord ==
  ASSUME PCInv, NEW t \in Thread, Record(t), Queues'
  PROVE  PCInv'
<1>1. /\ pc[t] = "record" /\ at[t] = "out" /\ pc' = [pc EXCEPT ![t] = "signal"]
      /\ histogram' = [histogram EXCEPT ![items] = reg[t] + 1]
      /\ UNCHANGED <<value, at, on, items, reg>>
  BY DEF Record, In, Goto, semVars
<1>2. /\ pc'[t] = "signal"
      /\ \A u \in Thread \ {t} : pc'[u] = pc[u]
  BY <1>1 DEF PCInv, PCTypes
<1>3. PCTypes'
  <2>1. reg[t] + 1 \in Int
    BY DEF PCInv, PCTypes
  <2> QED BY <1>1, <2>1 DEF PCInv, PCTypes, Places
<1>4. \A u \in Thread : Placed(u)'
  BY <1>1, <1>2 DEF PCInv, Placed, Needs
<1>5. Exclusion'
  BY <1>1, <1>2 DEF PCInv, Exclusion, Holds
<1>6. Accounted'
  BY <1>1, <1>2, AccountedQuiet DEF PCInv, OnlyMoves, Reserved, Unsaid
<1> QED BY <1>3, <1>4, <1>5, <1>6 DEF PCInv

\* What the thread has changed is said: it becomes a permit.
LEMMA PCInvProvide ==
  ASSUME PCInv, NEW t \in Thread, Provide(t), Queues'
  PROVE  PCInv'
<1> DEFINE s == Provides(t)
<1>1. /\ pc[t] = "signal" /\ at[t] = "out" /\ pc' = [pc EXCEPT ![t] = "unlock"]
      /\ Signal(t, s)
      /\ UNCHANGED <<items, histogram, reg>>
  BY DEF Provide, In, Goto, Signal
<1>2. /\ s \in Sem /\ s # lock
  BY NeedsProvides
<1> HIDE DEF s
<1>3. /\ on' = on /\ \A u \in Thread : at'[u] = "out" <=> at[u] = "out"
      /\ value' = [value EXCEPT ![s] = value[s] + 1]
  BY <1>1, <1>2, SignalEffect DEF PCInv
<1>4. /\ \A r \in Sem : value[r] \in Int
      /\ \A r \in Sem : value'[r] = IF r = s THEN value[r] + 1 ELSE value[r]
  BY <1>3, SemaphoreAssumption DEF PCInv, Queues, TypeOK
<1>5. /\ pc'[t] = "unlock"
      /\ \A u \in Thread \ {t} : pc'[u] = pc[u]
  BY <1>1 DEF PCInv, PCTypes
<1>6. PCTypes'
  BY <1>1 DEF PCInv, PCTypes, Places
<1>7. \A u \in Thread : Placed(u)'
  BY <1>1, <1>3, <1>5 DEF PCInv, Placed, Needs
<1>8. Exclusion'
  <2>1. value'[lock] = value[lock]
    BY <1>2, <1>4, SemsDiffer
  <2> QED BY <1>1, <1>3, <1>5, <2>1 DEF PCInv, Exclusion, Holds
<1>9. \A T \in SUBSET Thread :
         /\ Cardinality(Reserved(T)') = Cardinality(Reserved(T))
         /\ Cardinality(Unsaid(T)') = IF t \in T THEN Cardinality(Unsaid(T)) - 1
                                                ELSE Cardinality(Unsaid(T))
  <2> TAKE T \in SUBSET Thread
  <2>1. OnlyMoves(t)
    BY <1>3, <1>5 DEF OnlyMoves
  <2>2. t \notin Reserved(T) /\ t \notin Reserved(T)' /\ t \notin Unsaid(T)'
    BY <1>1, <1>5 DEF Unsaid, Reserved
  <2>3. t \in Unsaid(T) <=> t \in T
    BY <1>1 DEF Unsaid
  <2> QED BY <2>1, <2>2, <2>3, CountsOfMove
<1>10. /\ Accounted /\ items \in Int /\ MAX_ITEMS \in Int /\ items' = items
       /\ value[isNotEmpty] \in Int /\ value[isNotFull] \in Int
  BY <1>1, <1>4, SemsDiffer, PCSemAssumption DEF PCInv, PCTypes
<1>11. /\ Cardinality(Reserved(Producer)) \in Nat
       /\ Cardinality(Reserved(Consumer)) \in Nat
       /\ Cardinality(Unsaid(Producer)) \in Nat
       /\ Cardinality(Unsaid(Consumer)) \in Nat
  BY FourCounts
<1>12. Accounted'
  <2>1. CASE t \in Producer
    <3>1. t \notin Consumer /\ s = isNotEmpty
      BY <2>1, PCSemAssumption DEF s, Provides
    <3>2. /\ value'[isNotEmpty] = value[isNotEmpty] + 1
          /\ value'[isNotFull] = value[isNotFull]
      BY <1>4, <3>1, SemsDiffer
    <3>3. /\ Cardinality(Reserved(Producer)') = Cardinality(Reserved(Producer))
          /\ Cardinality(Reserved(Consumer)') = Cardinality(Reserved(Consumer))
          /\ Cardinality(Unsaid(Producer)') = Cardinality(Unsaid(Producer)) - 1
          /\ Cardinality(Unsaid(Consumer)') = Cardinality(Unsaid(Consumer))
      BY <1>9, <2>1, <3>1, PCSemAssumption
    <3>4. items' = value'[isNotEmpty] + Cardinality(Reserved(Consumer)')
                     + Cardinality(Unsaid(Producer)')
      <4>1. items = value[isNotEmpty] + Cardinality(Reserved(Consumer))
                     + Cardinality(Unsaid(Producer))
        BY <1>10 DEF Accounted
      <4>2. items = (value[isNotEmpty] + 1)
                     + Cardinality(Reserved(Consumer))
                     + (Cardinality(Unsaid(Producer)) - 1)
        BY <4>1, <1>10, <1>11
      <4> QED BY <4>2, <1>10, <3>2, <3>3
    <3>5. MAX_ITEMS - items' = value'[isNotFull] + Cardinality(Reserved(Producer)')
                     + Cardinality(Unsaid(Consumer)')
      BY <1>10, <1>11, <3>2, <3>3 DEF Accounted
    <3> QED BY <3>4, <3>5 DEF Accounted
  <2>2. CASE t \in Consumer
    <3>1. t \notin Producer /\ s = isNotFull
      BY <2>2, PCSemAssumption DEF s, Provides
    <3>2. /\ value'[isNotFull] = value[isNotFull] + 1
          /\ value'[isNotEmpty] = value[isNotEmpty]
      BY <1>4, <3>1, SemsDiffer
    <3>3. /\ Cardinality(Reserved(Producer)') = Cardinality(Reserved(Producer))
          /\ Cardinality(Reserved(Consumer)') = Cardinality(Reserved(Consumer))
          /\ Cardinality(Unsaid(Consumer)') = Cardinality(Unsaid(Consumer)) - 1
          /\ Cardinality(Unsaid(Producer)') = Cardinality(Unsaid(Producer))
      BY <1>9, <2>2, <3>1, PCSemAssumption
    <3>4. items' = value'[isNotEmpty] + Cardinality(Reserved(Consumer)')
                     + Cardinality(Unsaid(Producer)')
      BY <1>10, <1>11, <3>2, <3>3 DEF Accounted
    <3>5. MAX_ITEMS - items' = value'[isNotFull] + Cardinality(Reserved(Producer)')
                     + Cardinality(Unsaid(Consumer)')
      <4>1. MAX_ITEMS - items = (value[isNotFull] + 1)
                     + Cardinality(Reserved(Producer))
                     + (Cardinality(Unsaid(Consumer)) - 1)
        BY <1>10, <1>11 DEF Accounted
      <4> QED BY <4>1, <1>10, <3>2, <3>3
    <3> QED BY <3>4, <3>5 DEF Accounted
  <2> QED BY <2>1, <2>2, PCSemAssumption
<1> QED BY <1>6, <1>7, <1>8, <1>12 DEF PCInv

\* The lock is back: lock is 1, and nobody has it.
LEMMA PCInvUnlock ==
  ASSUME PCInv, NEW t \in Thread, Unlock(t), Queues'
  PROVE  PCInv'
<1>1. /\ pc[t] = "unlock" /\ at[t] = "out" /\ Signal(t, lock)
      /\ \E a \in {"done", "count"} : pc' = [pc EXCEPT ![t] = a]
      /\ UNCHANGED <<items, histogram, reg>>
  BY DEF Unlock, In, Goto, Signal
<1>2. /\ on' = on /\ \A u \in Thread : at'[u] = "out" <=> at[u] = "out"
      /\ value' = [value EXCEPT ![lock] = value[lock] + 1]
  BY <1>1, SemsDiffer, SignalEffect DEF PCInv
<1>3. \A r \in Sem : value'[r] = IF r = lock THEN value[r] + 1 ELSE value[r]
  BY <1>2, SemaphoreAssumption DEF PCInv, Queues, TypeOK
<1>4. /\ pc'[t] \in {"done", "count"}
      /\ \A u \in Thread \ {t} : pc'[u] = pc[u]
  BY <1>1 DEF PCInv, PCTypes
<1>5. PCTypes'
  BY <1>1 DEF PCInv, PCTypes, Places
<1>6. \A u \in Thread : Placed(u)'
  BY <1>1, <1>2, <1>4 DEF PCInv, Placed, Needs
<1>7. Exclusion'
  <2>1. Holds(t) /\ ~Holds(t)'
    BY <1>1, <1>4 DEF Holds
  <2>2. value[lock] = 0 /\ \A u \in Thread \ {t} : ~Holds(u)
    BY <2>1 DEF PCInv, Exclusion
  <2>3. value'[lock] = 1
    BY <1>3, <2>2, SemsDiffer
  <2>4. \A u \in Thread : ~Holds(u)'
    BY <1>2, <1>4, <2>1, <2>2 DEF Holds
  <2> QED BY <2>3, <2>4 DEF Exclusion
<1>8. Accounted'
  <2>1. value'[isNotEmpty] = value[isNotEmpty] /\ value'[isNotFull] = value[isNotFull]
    BY <1>3, SemsDiffer
  <2> QED BY <1>1, <1>2, <1>4, <2>1, AccountedQuiet
          DEF PCInv, OnlyMoves, Reserved, Unsaid
<1> QED BY <1>5, <1>6, <1>7, <1>8 DEF PCInv

LEMMA PCInvStep == PCInv /\ [PCNext]_vars => PCInv'
<1> SUFFICES ASSUME PCInv, [PCNext]_vars PROVE PCInv'
  OBVIOUS
<1>1. CASE UNCHANGED vars
  <2>1. /\ UNCHANGED <<value, waiters, at, on>>
        /\ UNCHANGED <<items, histogram, pc, left, reg>>
    BY <1>1 DEF vars, semVars, appVars
  <2>2. Queues'
    BY <2>1, QueuesStep DEF PCInv, semVars
  <2> QED BY <2>1, <2>2 DEF PCInv, PCTypes, Placed, Needs, Exclusion, Holds,
                            Accounted, Reserved, Unsaid
<1>2. CASE PCNext
  <2>1. PICK t \in Thread : Step(t)
    BY <1>2 DEF PCNext
  <2>2. Queues'
    BY <2>1, StepOfSemaphores, QueuesStep DEF PCInv
  <2>3. CASE Go(t)
    BY <2>2, <2>3, PCInvQueue, PCInvTake DEF Go
  <2> QED BY <2>1, <2>2, <2>3, PCInvWaitCount, PCInvWaitLock, PCInvLoad,
             PCInvStore, PCInvCheckItems, PCInvRecord, PCInvProvide,
             PCInvUnlock DEF Step
<1> QED BY <1>1, <1>2

\* The values of the counting semaphores, with the threads that have taken a
\* permit and not used it or changed items and not said so, always add up to
\* items and to the room that is left (pc_sem.c:28-36, 45-53).
THEOREM AccountKept == PCSpec => []Accounted
<1>1. PCInv => Accounted
  BY DEF PCInv
<1> QED BY <1>1, PCInvInit, PCInvStep, PTL DEF PCSpec

\* The assertions of producer and consumer never fail (pc_sem.c:32, 49), and
\* whatever the threads do items is within its range.
THEOREM ItemsStayInRange == PCSpec => [](ItemsInRange /\ items \in 0..MAX_ITEMS)
<1>1. PCInv => ItemsInRange /\ items \in 0..MAX_ITEMS
  BY AccountedRange DEF PCInv, Placed, ItemsInRange
<1> QED BY <1>1, PCInvInit, PCInvStep, PTL DEF PCSpec

-----------------------------------------------------------------------------
(* The histogram.                                                          *)

\* Threads that have recorded an iteration they still have among those left.
Recorded == {t \in Thread : pc[t] \in {"signal", "unlock"}}

\* What is in the histogram and what is left make up all iterations.
Balance ==
  Sum(histogram) + Sum(left)
    = Cardinality(Thread) * NUM_ITERATIONS + Cardinality(Recorded)

HInv ==
  /\ left \in [Thread -> Int]
  /\ \A t \in Thread : /\ pc[t] = "done" => left[t] = 0
                       /\ pc[t] = "record" => reg[t] = histogram[items]
  /\ Balance

LEMMA Totals ==
  ASSUME PCInv, HInv
  PROVE  /\ Sum(histogram) \in Int /\ Sum(left) \in Int
         /\ IsFiniteSet(Thread) /\ IsFiniteSet(Recorded)
         /\ Cardinality(Recorded) \in Int
         /\ Cardinality(Thread) * NUM_ITERATIONS \in Int
<1>1. IsFiniteSet(0..MAX_ITEMS) /\ IsFiniteSet(Thread)
  BY PCSemAssumption, SemaphoreAssumption, FS_Interval
<1>2. IsFiniteSet(Recorded)
  BY <1>1, FS_Subset DEF Recorded
<1>3. Cardinality(Recorded) \in Nat /\ Cardinality(Thread) \in Nat
  BY <1>1, <1>2, FS_CardinalityType
<1>4. Cardinality(Thread) * NUM_ITERATIONS \in Int
  BY <1>3, PCSemAssumption
<1>5. Sum(histogram) \in Int
  <2>1. histogram \in [0..MAX_ITEMS -> Int]
    BY DEF PCInv, PCTypes
  <2> QED BY <1>1, <2>1, SumType, Zenon
<1>6. Sum(left) \in Int
  <2>1. left \in [Thread -> Int]
    BY DEF HInv
  <2> QED BY <1>1, <2>1, SumType, Zenon
<1> QED BY <1>1, <1>2, <1>3, <1>4, <1>5, <1>6

LEMMA HInvInit == PCInit => HInv
<1> SUFFICES ASSUME PCInit PROVE HInv
  OBVIOUS
<1>1. IsFiniteSet(0..MAX_ITEMS) /\ IsFiniteSet(Thread)
  BY PCSemAssumption, SemaphoreAssumption, FS_Interval
<1>2. Cardinality(0..MAX_ITEMS) \in Nat /\ Cardinality(Thread) \in Nat
  BY <1>1, FS_CardinalityType
<1>3. Sum(histogram) = 0
  <2>1. Sum(histogram) = Cardinality(0..MAX_ITEMS) * 0
    <3>1. histogram = [n \in 0..MAX_ITEMS |-> 0] /\ 0 \in Int
      BY DEF PCInit
    <3> QED BY <1>1, <3>1, SumConstant, Zenon
  <2>2. \A n \in Nat : n * 0 = 0
    OBVIOUS
  <2> QED BY <1>2, <2>1, <2>2
<1>4. Sum(left) = Cardinality(Thread) * NUM_ITERATIONS
  <2>1. left = [t \in Thread |-> NUM_ITERATIONS] /\ NUM_ITERATIONS \in Int
    BY PCSemAssumption DEF PCInit
  <2> QED BY <1>1, <2>1, SumConstant, Zenon
<1>5. Cardinality(Recorded) = 0
  <2>1. Recorded = {}
    BY DEF PCInit, Recorded
  <2> QED BY <2>1, FS_EmptySet
<1>6. Cardinality(Thread) * NUM_ITERATIONS \in Int
  BY <1>2, PCSemAssumption
<1>7. Balance
  BY <1>3, <1>4, <1>5, <1>6 DEF Balance
<1> QED BY <1>7, PCSemAssumption DEF PCInit, HInv

\* A step that does not count anything.
LEMMA HInvQuiet ==
  ASSUME HInv, UNCHANGED <<histogram, left>>,
         \A u \in Thread :
           /\ pc'[u] \in {"signal", "unlock"} <=> pc[u] \in {"signal", "unlock"}
           /\ pc'[u] = "done" => pc[u] = "done"
           /\ pc'[u] = "record" => reg'[u] = histogram[items']
  PROVE  HInv'
<1>1. Recorded' = Recorded
  BY DEF Recorded
<1> QED BY <1>1 DEF HInv, Balance

LEMMA HInvRecord ==
  ASSUME PCInv, HInv, NEW t \in Thread, Record(t)
  PROVE  HInv'
<1>1. /\ pc[t] = "record" /\ at[t] = "out"
      /\ pc' = [pc EXCEPT ![t] = "signal"]
      /\ histogram' = [histogram EXCEPT ![items] = histogram[items] + 1]
      /\ UNCHANGED <<items, left, reg>>
      /\ pc \in [Thread -> Places] /\ histogram \in [0..MAX_ITEMS -> Int]
      /\ items \in 0..MAX_ITEMS
  BY AccountedRange DEF Record, In, Goto, HInv, PCInv, PCTypes
<1>2. Sum(histogram') = Sum(histogram) + 1
  <2> DEFINE S == 0..MAX_ITEMS
  <2>1. IsFiniteSet(S) /\ 1 \in Int
    BY PCSemAssumption, FS_Interval
  <2>2. histogram \in [S -> Int] /\ items \in S
    BY <1>1
  <2>3. histogram' = [histogram EXCEPT ![items] = histogram[items] + 1]
    BY <1>1
  <2> HIDE DEF S
  <2> QED BY <2>1, <2>2, <2>3, SumAdd, ZenonT(60)
<1>3. Cardinality(Recorded') = Cardinality(Recorded) + 1
  <2>1. Recorded' = Recorded \cup {t} /\ t \notin Recorded
    BY <1>1 DEF Recorded
  <2> QED BY <2>1, Totals, FS_AddElement
<1>4. Balance'
  <2>1. Sum(left') = Sum(left)
    BY <1>1
  <2> QED BY <1>2, <1>3, <2>1, Totals DEF HInv, Balance
<1>5. \A u \in Thread : u # t => pc[u] # "record"
  BY <1>1 DEF PCInv, Exclusion, Holds, Placed
<1> QED BY <1>1, <1>4, <1>5 DEF HInv

LEMMA HInvUnlock ==
  ASSUME PCInv, HInv, NEW t \in Thread, Unlock(t)
  PROVE  HInv'
<1>1. /\ pc[t] = "unlock"
      /\ pc' = [pc EXCEPT ![t] = IF left[t] = 1 THEN "done" ELSE "count"]
      /\ left' = [left EXCEPT ![t] = left[t] + (-1)]
      /\ UNCHANGED <<items, histogram, reg>>
      /\ pc \in [Thread -> Places] /\ left \in [Thread -> Int]
  BY DEF Unlock, In, Goto, HInv, PCInv, PCTypes
<1>2. Sum(left') = Sum(left) - 1
  <2>1. Sum(left') = Sum(left) + (-1)
    <3>1. IsFiniteSet(Thread) /\ -1 \in Int
      BY SemaphoreAssumption
    <3>2. /\ left \in [Thread -> Int]
          /\ left' = [left EXCEPT ![t] = left[t] + (-1)]
      BY <1>1
    <3> QED BY <3>1, <3>2, SumAdd, ZenonT(60)
  <2> QED BY <2>1, Totals
<1>3. Cardinality(Recorded') = Cardinality(Recorded) - 1
  <2>1. Recorded' = Recorded \ {t} /\ t \in Recorded
    BY <1>1 DEF Recorded
  <2> QED BY <2>1, Totals, FS_RemoveElement
<1>4. Balance'
  BY <1>1, <1>2, <1>3, Totals DEF HInv, Balance
<1> QED BY <1>1, <1>4 DEF HInv

LEMMA HInvStep ==
  ASSUME PCInv, HInv, NEW t \in Thread, Step(t)
  PROVE  HInv'
<1>1. /\ pc \in [Thread -> Places] /\ reg \in [Thread -> Int]
      /\ items \in 0..MAX_ITEMS
  BY AccountedRange DEF PCInv, PCTypes
<1>2. CASE WaitCount(t) \/ WaitLock(t)
  BY <1>1, <1>2, HInvQuiet DEF WaitCount, WaitLock, Call, In, Goto, HInv
<1>3. CASE Go(t)
  BY <1>3, HInvQuiet DEF Go, appVars, HInv
<1>4. CASE Load(t)
  BY <1>1, <1>4, HInvQuiet DEF Load, In, Goto, HInv
<1>5. CASE Store(t)
  <2>1. pc[t] = "store" /\ \A u \in Thread : u # t => pc[u] # "record"
    BY <1>5 DEF Store, In, PCInv, Exclusion, Holds, Placed
  <2> QED BY <1>1, <1>5, <2>1, HInvQuiet DEF Store, Goto
<1>6. CASE CheckItems(t)
  BY <1>1, <1>6, HInvQuiet DEF CheckItems, In, Goto, HInv
<1>7. CASE Provide(t)
  BY <1>1, <1>7, HInvQuiet DEF Provide, In, Goto, HInv
<1> QED BY <1>2, <1>3, <1>4, <1>5, <1>6, <1>7, HInvRecord, HInvUnlock DEF Step

\* For any number of producers and consumers, any capacity and any number of
\* iterations: no assertion fails, and when all threads are done every change
\* of items is in the histogram, each once (pc_sem.c:32-33, 49-50, 85).
THEOREM AssertionsHold == PCSpec => []AssertsHold
<1>1. PCInv /\ HInv /\ [PCNext]_vars => HInv'
  <2>1. ASSUME HInv, UNCHANGED vars PROVE HInv'
    BY <2>1, HInvQuiet DEF vars, appVars, HInv
  <2> QED BY <2>1, HInvStep DEF PCNext
<1>2. ASSUME PCInv, HInv, Done
      PROVE  FoldFunction(+, 0, histogram) = Cardinality(Thread) * NUM_ITERATIONS
  <2>1. Cardinality(Recorded) = 0
    <3>1. Recorded = {}
      BY <1>2 DEF Done, Recorded
    <3> QED BY <3>1, FS_EmptySet
  <2>2. Sum(left) = 0
    <3>1. left = [t \in Thread |-> 0]
      BY <1>2 DEF Done, HInv
    <3>2. Sum(left) = Cardinality(Thread) * 0
      BY <1>2, <3>1, Totals, SumConstant, 0 \in Int, Zenon
    <3>3. Cardinality(Thread) \in Nat /\ \A n \in Nat : n * 0 = 0
      BY SemaphoreAssumption, FS_CardinalityType
    <3> QED BY <3>2, <3>3
  <2>3. Sum(histogram) = Cardinality(Thread) * NUM_ITERATIONS
    BY <1>2, <2>1, <2>2, Totals DEF HInv, Balance
  <2> QED BY <2>3 DEF Sum
<1>3. PCInv /\ HInv => AssertsHold
  BY <1>2 DEF PCInv, Placed, ItemsInRange, AssertsHold
<1> QED
  BY <1>1, <1>3, HInvInit, PCInvInit, PCInvStep, PTL DEF PCSpec
=============================================================================
