-------------------------- MODULE MutexCond_proofs --------------------------
(* Proofs about MutexCond.tla, for any finite set of threads and any set   *)
(* of condition variables.                                                 *)
EXTENDS MutexCond, Lemmas

\* The inductive invariant.  The queues say whom an unlock may wake, so that
\* exclusion and wakeups rest on QueuedOnce.
MInv == MutexTypeOK /\ MutualExclusion /\ QueuedOnce /\ NoLostWakeup

\* What MInv says of the queues of the conditions alone.
CondQueues ==
  /\ cond \in [Cond -> Seq(Thread)]
  /\ \A c \in Cond : Once(cond[c])
  /\ \A c, d \in Cond : c # d => Elems(cond[c]) \cap Elems(cond[d]) = {}
  /\ UNION {Elems(cond[c]) : c \in Cond} = Standing("condBlocked")

\* ... and of everything else.
MutexPart ==
  /\ holder \in Thread \cup {NoThread}
  /\ reader_count \in Nat
  /\ waiters \in Seq(Thread)
  /\ readers \in Seq(Thread)
  /\ th \in [Thread -> Stands]
  /\ Once(waiters) /\ Elems(waiters) = Standing("lockBlocked")
  /\ Once(readers) /\ Elems(readers) = Standing("rlockBlocked")
  /\ MutualExclusion
  /\ NoLostWakeup

LEMMA MInvParts == MInv <=> MutexPart /\ CondQueues
BY DEF MInv, MutexPart, CondQueues, MutexTypeOK, QueuedOnce

LEMMA MInvPartsNext == MutexPart' /\ CondQueues' => MInv'
BY DEF MInv, MutexPart, CondQueues, MutexTypeOK, QueuedOnce

LEMMA StandingFinite ==
  ASSUME NEW s
  PROVE  IsFiniteSet(Standing(s)) /\ Cardinality(Standing(s)) \in Nat
<1>1. Standing(s) \subseteq Thread
  BY DEF Standing
<1> QED BY <1>1, MutexAssumption, FS_Subset, FS_CardinalityType

-----------------------------------------------------------------------------
(* The initial state.                                                      *)

LEMMA MInvInit == MutexInit => MInv
<1> SUFFICES ASSUME MutexInit PROVE MInv
  OBVIOUS
<1>1. \A s \in Stands \ {"out"} : Standing(s) = {}
  BY DEF MutexInit, Standing, Stands
<1>2. MutexTypeOK
  BY DEF MutexInit, MutexTypeOK, Stands
<1>3. MutualExclusion
  BY <1>1, MutexAssumption, FS_EmptySet DEF MutexInit, MutualExclusion, Stands
<1>4. QueuedOnce
  BY <1>1, EmptyQueue DEF MutexInit, QueuedOnce, Stands
<1>5. NoLostWakeup
  BY DEF MutexInit, NoLostWakeup
<1> QED BY <1>2, <1>3, <1>4, <1>5 DEF MInv

-----------------------------------------------------------------------------
(* The calls and the two loops.                                            *)

\* A call only moves a thread that is in no queue to the loop.
LEMMA MInvCall ==
  ASSUME MInv, NEW t \in Thread, LockCall(t) \/ ReadCall(t)
  PROVE  MInv'
<1> PICK x \in {"lock", "rlock"} :
      th' = [th EXCEPT ![t] = x] /\ (x = "lock" \/ ReadCall(t))
  BY DEF LockCall, ReadCall
<1>1. /\ th[t] = "out"
      /\ UNCHANGED <<holder, reader_count, waiters, readers, cond>>
  BY DEF LockCall, ReadCall
<1>2. \A s \in {"lockBlocked", "rlockBlocked", "condBlocked", "reading"} :
         Standing(s)' = Standing(s)
  BY <1>1 DEF Standing, MInv, MutexTypeOK
<1>3. MutexTypeOK'
  BY <1>1 DEF MInv, MutexTypeOK, Stands
<1>4. MutualExclusion'
  BY <1>1, <1>2 DEF MInv, MutexTypeOK, MutualExclusion
<1>5. QueuedOnce'
  BY <1>1, <1>2 DEF MInv, QueuedOnce
<1>6. Locking => Locking'
  BY <1>1 DEF Locking, MInv, MutexTypeOK
<1>7. NoLostWakeup'
  BY <1>1, <1>6 DEF MInv, NoLostWakeup
<1> QED BY <1>3, <1>4, <1>5, <1>7 DEF MInv

LEMMA MInvLockQueue ==
  ASSUME MInv, NEW t \in Thread, LockQueue(t)
  PROVE  MInv'
<1>1. /\ th[t] = "lock" /\ th' = [th EXCEPT ![t] = "lockBlocked"]
      /\ waiters' = Append(waiters, t)
      /\ UNCHANGED <<holder, reader_count, readers, cond>>
  BY DEF LockQueue
<1>2. /\ \A s \in {"rlockBlocked", "condBlocked", "reading"} :
           Standing(s)' = Standing(s)
      /\ Standing("lockBlocked")' = Standing("lockBlocked") \cup {t}
      /\ t \notin Standing("lockBlocked")
  BY <1>1 DEF Standing, MInv, MutexTypeOK
<1>3. /\ waiters' \in Seq(Thread) /\ Once(waiters')
      /\ Elems(waiters') = Elems(waiters) \cup {t}
  BY <1>1, <1>2, EnqueueOnce DEF MInv, MutexTypeOK, QueuedOnce
<1>4. MutexTypeOK'
  BY <1>1, <1>3 DEF MInv, MutexTypeOK, Stands
<1>5. MutualExclusion'
  BY <1>1, <1>2 DEF MInv, MutexTypeOK, MutualExclusion
<1>6. QueuedOnce'
  <2>1. Once(waiters') /\ Elems(waiters') = Standing("lockBlocked")'
    BY <1>2, <1>3 DEF MInv, QueuedOnce
  <2>2. UNCHANGED <<readers, cond, Standing("rlockBlocked"), Standing("condBlocked")>>
    BY <1>1, <1>2
  <2> QED BY <2>1, <2>2 DEF MInv, QueuedOnce
<1>7. NoLostWakeup'
  <2>1. waiters' # <<>>
    BY <1>3, EmptyQueue
  <2>2. holder' # NoThread \/ reader_count' # 0
    BY <1>1 DEF LockQueue, LockTaken
  <2> QED BY <2>1, <2>2 DEF NoLostWakeup
<1> QED BY <1>4, <1>5, <1>6, <1>7 DEF MInv

LEMMA MInvLockTake ==
  ASSUME MInv, NEW t \in Thread, LockTake(t)
  PROVE  MInv'
<1>1. /\ th[t] = "lock" /\ th' = [th EXCEPT ![t] = "writing"]
      /\ holder = NoThread /\ holder' = t
      /\ UNCHANGED <<reader_count, waiters, readers, cond>>
  BY DEF LockTake, LockTaken
<1>2. reader_count = 0
  BY DEF LockTake, LockTaken, MInv, MutexTypeOK
<1>3. \A s \in {"lockBlocked", "rlockBlocked", "condBlocked", "reading"} :
         Standing(s)' = Standing(s)
  BY <1>1 DEF Standing, MInv, MutexTypeOK
<1>4. MutexTypeOK'
  BY <1>1 DEF MInv, MutexTypeOK, Stands
<1>5. MutualExclusion'
  BY <1>1, <1>2, <1>3, MutexAssumption DEF MInv, MutexTypeOK, MutualExclusion
<1>6. QueuedOnce'
  BY <1>1, <1>3 DEF MInv, QueuedOnce
<1>7. NoLostWakeup'
  BY <1>1, MutexAssumption DEF NoLostWakeup
<1> QED BY <1>4, <1>5, <1>6, <1>7 DEF MInv

LEMMA MInvReadQueue ==
  ASSUME MInv, NEW t \in Thread, ReadQueue(t)
  PROVE  MInv'
<1>1. /\ th[t] = "rlock" /\ th' = [th EXCEPT ![t] = "rlockBlocked"]
      /\ readers' = Append(readers, t)
      /\ UNCHANGED <<holder, reader_count, waiters, cond>>
  BY DEF ReadQueue
<1>2. /\ \A s \in {"lockBlocked", "condBlocked", "reading"} :
           Standing(s)' = Standing(s)
      /\ Standing("rlockBlocked")' = Standing("rlockBlocked") \cup {t}
      /\ t \notin Standing("rlockBlocked")
  BY <1>1 DEF Standing, MInv, MutexTypeOK
<1>3. /\ readers' \in Seq(Thread) /\ Once(readers')
      /\ Elems(readers') = Elems(readers) \cup {t}
  BY <1>1, <1>2, EnqueueOnce DEF MInv, MutexTypeOK, QueuedOnce
<1>4. MutexTypeOK'
  BY <1>1, <1>3 DEF MInv, MutexTypeOK, Stands
<1>5. MutualExclusion'
  BY <1>1, <1>2 DEF MInv, MutexTypeOK, MutualExclusion
<1>6. QueuedOnce'
  <2>1. Once(readers') /\ Elems(readers') = Standing("rlockBlocked")'
    BY <1>2, <1>3 DEF MInv, QueuedOnce
  <2>2. UNCHANGED <<waiters, cond, Standing("lockBlocked"), Standing("condBlocked")>>
    BY <1>1, <1>2
  <2> QED BY <2>1, <2>2 DEF MInv, QueuedOnce
<1>7. NoLostWakeup'
  <2>1. Locking => Locking'
    BY <1>1 DEF Locking, MInv, MutexTypeOK
  <2>2. holder # NoThread \/ waiters # <<>>
    BY DEF ReadQueue, ReadTaken
  <2> QED BY <1>1, <2>1, <2>2 DEF MInv, NoLostWakeup
<1> QED BY <1>4, <1>5, <1>6, <1>7 DEF MInv

LEMMA MInvReadTake ==
  ASSUME MInv, NEW t \in Thread, ReadTake(t)
  PROVE  MInv'
<1>1. /\ th[t] = "rlock" /\ th' = [th EXCEPT ![t] = "reading"]
      /\ holder = NoThread /\ waiters = <<>>
      /\ reader_count' = reader_count + 1
      /\ UNCHANGED <<holder, waiters, readers, cond>>
  BY DEF ReadTake, ReadTaken
<1>2. /\ \A s \in {"lockBlocked", "rlockBlocked", "condBlocked"} :
           Standing(s)' = Standing(s)
      /\ Standing("reading")' = Standing("reading") \cup {t}
      /\ t \notin Standing("reading")
  BY <1>1 DEF Standing, MInv, MutexTypeOK
<1>3. MutexTypeOK'
  BY <1>1 DEF MInv, MutexTypeOK, Stands
<1>4. Cardinality(Standing("reading")') = Cardinality(Standing("reading")) + 1
  BY <1>2, StandingFinite, FS_AddElement
<1>5. MutualExclusion'
  BY <1>1, <1>4, MutexAssumption DEF MInv, MutexTypeOK, MutualExclusion
<1>6. QueuedOnce'
  BY <1>1, <1>2 DEF MInv, QueuedOnce
<1>7. NoLostWakeup'
  <2>1. Locking => Locking'
    BY <1>1 DEF Locking, MInv, MutexTypeOK
  <2> QED BY <1>1, <2>1 DEF MInv, NoLostWakeup
<1> QED BY <1>3, <1>5, <1>6, <1>7 DEF MInv
-----------------------------------------------------------------------------
(* Unlocking.                                                              *)

\* What a release leaves of the mutex, whatever the releasing thread goes on
\* to do; no other thread enters or leaves the queues of the conditions.
LEMMA ReleaseCorrect ==
  ASSUME MInv, NEW t \in Thread, NEW s \in {"out", "condBlocked"},
         th[t] \in {"writing", "reading"}, Release(t, s)
  PROVE  /\ MutexPart'
         /\ Standing("condBlocked")' =
              Standing("condBlocked") \cup (IF s = "out" THEN {} ELSE {t})
<1> DEFINE left == IF holder # NoThread THEN reader_count ELSE reader_count - 1
<1>1. /\ th[t] = "writing" => holder = t /\ reader_count = 0 /\ left = 0
      /\ th[t] = "reading" => holder = NoThread /\ reader_count > 0
      /\ left \in Nat
      /\ left = Cardinality(Standing("reading") \ {t})
  <2>1. CASE th[t] = "writing"
    <3>1. holder = t /\ reader_count = 0
      BY <2>1, MutexAssumption DEF MInv, MutexTypeOK, MutualExclusion
    <3>2. Standing("reading") \ {t} = Standing("reading")
      BY <2>1 DEF Standing
    <3> QED BY <2>1, <3>1, <3>2, MutexAssumption DEF MInv, MutualExclusion
  <2>2. CASE th[t] = "reading"
    <3>1. t \in Standing("reading")
      BY <2>2 DEF Standing
    <3>2. /\ Cardinality(Standing("reading") \ {t})
              = Cardinality(Standing("reading")) - 1
          /\ Cardinality(Standing("reading") \ {t}) \in Nat
          /\ Cardinality(Standing("reading")) \in Nat
      BY <3>1, StandingFinite, FS_RemoveElement, FS_CardinalityType
    <3>3. reader_count = Cardinality(Standing("reading"))
      BY DEF MInv, MutualExclusion
    <3>4. reader_count > 0
      BY <3>2, <3>3
    <3>5. holder = NoThread
      BY <3>4 DEF MInv, MutualExclusion
    <3> QED BY <2>2, <3>2, <3>3, <3>4, <3>5
  <2> QED BY <2>1, <2>2
<1>2. holder' = NoThread /\ reader_count' = left
  BY DEF Release, Remaining
<1>3. \A x \in {"lockBlocked", "rlockBlocked", "condBlocked", "lock", "rlock"} :
         t \notin Standing(x)
  BY DEF Standing
<1> HIDE DEF left
\* no thread has the mutex for itself any more
<1>4. ASSUME \A u \in Thread : th'[u] = "writing" => th[u] = "writing" /\ u # t,
             Standing("reading")' = Standing("reading") \ {t}
      PROVE  MutualExclusion'
  <2>1. \A u \in Thread : th'[u] # "writing"
    <3> SUFFICES ASSUME NEW u \in Thread, th'[u] = "writing" PROVE FALSE
      OBVIOUS
    <3>1. holder = u /\ u # t /\ holder # NoThread
      BY <1>4, MutexAssumption DEF MInv, MutualExclusion
    <3> QED BY <3>1, <1>1
  <2> QED BY <2>1, <1>1, <1>2, <1>4, MutexAssumption DEF MutualExclusion
<1>5. CASE left = 0 /\ waiters # <<>>
  <2> DEFINE h == Head(waiters)
  <2>1. /\ waiters' = Tail(waiters) /\ readers' = readers
        /\ th' = [th EXCEPT ![t] = s, ![h] = "lock"]
    BY <1>5 DEF Release, Remaining, left
  <2>2. /\ h \in Thread /\ h \in Elems(waiters) /\ th[h] = "lockBlocked"
        /\ waiters' \in Seq(Thread) /\ Once(waiters')
        /\ Elems(waiters') = Elems(waiters) \ {h}
    BY <1>5, <2>1, DequeueOnce
       DEF MInv, MutexTypeOK, QueuedOnce, Standing
  <2>3. /\ th \in [Thread -> Stands] /\ th' \in [Thread -> Stands]
        /\ t # h /\ th'[t] = s /\ th'[h] = "lock"
        /\ \A u \in Thread : u # t /\ u # h => th'[u] = th[u]
    BY <2>1, <2>2 DEF MInv, MutexTypeOK, Stands
  <2>4. /\ Standing("lockBlocked")' = Standing("lockBlocked") \ {h}
        /\ Standing("rlockBlocked")' = Standing("rlockBlocked")
        /\ Standing("reading")' = Standing("reading") \ {t}
        /\ Standing("condBlocked")' =
              Standing("condBlocked") \cup (IF s = "out" THEN {} ELSE {t})
    BY <2>2, <2>3 DEF Standing
  <2>5. MutualExclusion'
    BY <2>3, <2>4, <1>4
  <2>6. NoLostWakeup'
    BY <2>2, <2>3 DEF NoLostWakeup, Locking
  <2> QED
    BY <1>1, <1>2, <2>1, <2>2, <2>3, <2>4, <2>5, <2>6
       DEF MutexPart, MInv, MutexTypeOK, QueuedOnce
<1>6. CASE left = 0 /\ waiters = <<>>
  <2>1. /\ waiters' = <<>> /\ readers' = <<>>
        /\ th' = [u \in Thread |-> IF u = t THEN s
                                   ELSE IF u \in Elems(readers) THEN "rlock"
                                   ELSE th[u]]
    BY <1>6 DEF Release, Remaining, left
  <2>2. /\ Elems(readers) = Standing("rlockBlocked")
        /\ Elems(waiters) = Standing("lockBlocked")
        /\ th \in [Thread -> Stands]
    BY DEF MInv, MutexTypeOK, QueuedOnce
  <2>3. /\ th' \in [Thread -> Stands]
        /\ \A u \in Thread : th'[u] = "writing" => th[u] = "writing" /\ u # t
    BY <2>1, <2>2 DEF Stands
  <2>4. /\ Standing("lockBlocked")' = Standing("lockBlocked")
        /\ Standing("rlockBlocked")' = {}
        /\ Standing("reading")' = Standing("reading") \ {t}
        /\ Standing("condBlocked")' =
              Standing("condBlocked") \cup (IF s = "out" THEN {} ELSE {t})
    BY <2>1, <2>2, <1>3 DEF Standing
  <2>5. MutualExclusion'
    BY <2>3, <2>4, <1>4
  <2>6. NoLostWakeup'
    BY <2>1 DEF NoLostWakeup
  <2>7. /\ waiters' \in Seq(Thread) /\ Once(waiters')
        /\ Elems(waiters') = Standing("lockBlocked")'
        /\ readers' \in Seq(Thread) /\ Once(readers')
        /\ Elems(readers') = Standing("rlockBlocked")'
    <3>1. Elems(<<>>) = {} /\ Once(<<>>) /\ <<>> \in Seq(Thread)
      BY EmptyQueue
    <3>2. Standing("lockBlocked")' = {}
      BY <2>2, <2>4, <3>1, <1>6
    <3> QED BY <2>1, <2>4, <3>1, <3>2
  <2>8. holder' \in Thread \cup {NoThread} /\ reader_count' \in Nat
    BY <1>1, <1>2
  <2>9. MutexPart'
    BY <2>3, <2>5, <2>6, <2>7, <2>8 DEF MutexPart
  <2> QED BY <2>4, <2>9
<1>7. CASE left # 0
  <2>1. /\ waiters' = waiters /\ readers' = readers
        /\ th' = [th EXCEPT ![t] = s]
    BY <1>7 DEF Release, Remaining, left
  <2>2. /\ th \in [Thread -> Stands] /\ th' \in [Thread -> Stands]
        /\ \A u \in Thread : th'[u] = "writing" => th[u] = "writing" /\ u # t
    BY <2>1 DEF MInv, MutexTypeOK, Stands
  <2>3. /\ Standing("lockBlocked")' = Standing("lockBlocked")
        /\ Standing("rlockBlocked")' = Standing("rlockBlocked")
        /\ Standing("reading")' = Standing("reading") \ {t}
        /\ Standing("condBlocked")' =
              Standing("condBlocked") \cup (IF s = "out" THEN {} ELSE {t})
    BY <2>1, <2>2, <1>3 DEF Standing
  <2>4. MutualExclusion'
    BY <2>2, <2>3, <1>4
  <2>5. NoLostWakeup'
    <3>1. th[t] = "reading" /\ holder = NoThread
      BY <1>1, <1>7
    <3>2. Locking => Locking'
      BY <2>1, <3>1 DEF Locking, MInv, MutexTypeOK
    <3> QED
      BY <1>2, <1>7, <2>1, <3>1, <3>2 DEF MInv, NoLostWakeup
  <2> QED
    BY <1>1, <1>2, <2>1, <2>2, <2>3, <2>4, <2>5
       DEF MutexPart, MInv, MutexTypeOK, QueuedOnce
<1> QED BY <1>5, <1>6, <1>7

LEMMA MInvUnlock ==
  ASSUME MInv, NEW t \in Thread, Unlock(t)
  PROVE  MInv'
<1>1. /\ MutexPart'
      /\ Standing("condBlocked")' = Standing("condBlocked")
      /\ cond' = cond
  BY ReleaseCorrect DEF Unlock
<1>2. CondQueues'
  BY <1>1, MInvParts DEF CondQueues
<1> QED BY <1>1, <1>2, MInvPartsNext

-----------------------------------------------------------------------------
(* Condition variables.                                                    *)

LEMMA MInvCondWait ==
  ASSUME MInv, NEW t \in Thread, NEW c \in Cond, CondWait(t, c)
  PROVE  MInv'
<1>1. /\ MutexPart'
      /\ Standing("condBlocked")' = Standing("condBlocked") \cup {t}
      /\ cond' = [cond EXCEPT ![c] = Append(cond[c], t)]
      /\ t \notin Standing("condBlocked")
  BY ReleaseCorrect DEF CondWait, Standing
<1>2. CondQueues
  BY MInvParts
<1>3. /\ cond'[c] \in Seq(Thread) /\ Once(cond'[c])
      /\ Elems(cond'[c]) = Elems(cond[c]) \cup {t}
      /\ \A d \in Cond : d # c => cond'[d] = cond[d]
      /\ \A d \in Cond : t \notin Elems(cond[d])
  <2>1. \A d \in Cond : t \notin Elems(cond[d])
    BY <1>1, <1>2 DEF CondQueues
  <2> QED BY <1>1, <1>2, <2>1, EnqueueOnce DEF CondQueues
<1>4. CondQueues'
  BY <1>1, <1>2, <1>3 DEF CondQueues
<1> QED BY <1>1, <1>4, MInvPartsNext

\* The threads of W, all in wait, are unblocked by the holder of the mutex.
LEMMA WakeCorrect ==
  ASSUME MInv, NEW t \in Thread, th[t] = "writing",
         NEW W \in SUBSET Standing("condBlocked"),
         th' = [u \in Thread |-> IF u \in W THEN "lock" ELSE th[u]],
         UNCHANGED <<holder, reader_count, waiters, readers>>
  PROVE  MutexPart' /\ Standing("condBlocked")' = Standing("condBlocked") \ W
<1>1. \A u \in W : u \in Thread /\ th[u] = "condBlocked"
  BY DEF Standing
<1>2. th \in [Thread -> Stands] /\ th' \in [Thread -> Stands]
  BY DEF MInv, MutexTypeOK, Stands
<1>3. /\ \A s \in {"lockBlocked", "rlockBlocked", "reading"} :
           Standing(s)' = Standing(s)
      /\ Standing("condBlocked")' = Standing("condBlocked") \ W
  BY <1>1 DEF Standing
<1>4. \A u \in Thread : th'[u] = "writing" <=> th[u] = "writing"
  BY <1>1
<1>5. MutualExclusion'
  BY <1>3, <1>4 DEF MInv, MutualExclusion
<1>6. holder' # NoThread
  BY MutexAssumption DEF MInv, MutualExclusion
<1>7. NoLostWakeup'
  BY <1>6 DEF NoLostWakeup
<1> QED
  BY <1>2, <1>3, <1>5, <1>7 DEF MutexPart, MInv, MutexTypeOK, QueuedOnce

\* When the woken threads all leave the queue of one condition.
LEMMA CondQueuesShrink ==
  ASSUME CondQueues, NEW c \in Cond, NEW W \in SUBSET Elems(cond[c]),
         cond' \in [Cond -> Seq(Thread)],
         Once(cond'[c]), Elems(cond'[c]) = Elems(cond[c]) \ W,
         \A d \in Cond : d # c => cond'[d] = cond[d],
         Standing("condBlocked")' = Standing("condBlocked") \ W
  PROVE  CondQueues'
<1>1. \A d \in Cond : Elems(cond'[d]) = Elems(cond[d]) \ W
  BY DEF CondQueues
<1>2. \A d \in Cond : Once(cond'[d])
  BY DEF CondQueues
<1>3. \A d, e \in Cond : d # e => Elems(cond'[d]) \cap Elems(cond'[e]) = {}
  BY <1>1 DEF CondQueues
<1>4. UNION {Elems(cond'[d]) : d \in Cond}
        = (UNION {Elems(cond[d]) : d \in Cond}) \ W
  BY <1>1
<1> QED BY <1>2, <1>3, <1>4 DEF CondQueues

LEMMA MInvCondSignal ==
  ASSUME MInv, NEW t \in Thread, NEW c \in Cond, CondSignal(t, c)
  PROVE  MInv'
<1>1. CondQueues /\ th \in [Thread -> Stands]
  BY MInvParts DEF MInv, MutexTypeOK
<1>2. CASE cond[c] = <<>>
  <2>1. UNCHANGED mutexVars
    BY <1>2 DEF CondSignal, mutexVars
  <2> QED
    BY <2>1 DEF MInv, mutexVars, MutexTypeOK, MutualExclusion, QueuedOnce,
                NoLostWakeup, Locking, Standing
<1>3. CASE cond[c] # <<>>
  <2> DEFINE h == Head(cond[c])
  <2>1. /\ cond' = [cond EXCEPT ![c] = Tail(cond[c])]
        /\ th' = [th EXCEPT ![h] = "lock"]
    BY <1>3 DEF CondSignal
  <2>2. /\ h \in Elems(cond[c]) /\ h \in Thread
        /\ cond'[c] \in Seq(Thread) /\ Once(cond'[c])
        /\ Elems(cond'[c]) = Elems(cond[c]) \ {h}
        /\ \A d \in Cond : d # c => cond'[d] = cond[d]
    BY <1>1, <1>3, <2>1, DequeueOnce DEF CondQueues
  <2>3. {h} \in SUBSET Standing("condBlocked")
    BY <1>1, <2>2 DEF CondQueues
  <2>4. th' = [u \in Thread |-> IF u \in {h} THEN "lock" ELSE th[u]]
    BY <1>1, <2>1, <2>2
  <2>5. MutexPart' /\ Standing("condBlocked")' = Standing("condBlocked") \ {h}
    BY <2>3, <2>4, WakeCorrect DEF CondSignal
  <2>6. CondQueues'
    <3>1. cond' \in [Cond -> Seq(Thread)]
      BY <1>1, <2>1, <2>2 DEF CondQueues
    <3>2. {h} \in SUBSET Elems(cond[c])
      BY <2>2
    <3> QED BY <1>1, <2>2, <2>5, <3>1, <3>2, CondQueuesShrink
  <2> QED BY <2>5, <2>6, MInvPartsNext
<1> QED BY <1>2, <1>3

LEMMA MInvCondBroadcast ==
  ASSUME MInv, NEW t \in Thread, NEW c \in Cond, CondBroadcast(t, c)
  PROVE  MInv'
<1>1. CondQueues
  BY MInvParts
<1>2. Elems(cond[c]) \in SUBSET Standing("condBlocked")
  BY <1>1 DEF CondQueues
<1>3. /\ MutexPart'
      /\ Standing("condBlocked")' = Standing("condBlocked") \ Elems(cond[c])
  BY <1>2, WakeCorrect DEF CondBroadcast
<1>4. /\ cond' \in [Cond -> Seq(Thread)]
      /\ Once(cond'[c]) /\ Elems(cond'[c]) = {}
      /\ \A d \in Cond : d # c => cond'[d] = cond[d]
  BY <1>1, EmptyQueue DEF CondBroadcast, CondQueues
<1>5. CondQueues'
  BY <1>1, <1>3, <1>4, CondQueuesShrink
<1> QED BY <1>3, <1>5, MInvPartsNext

-----------------------------------------------------------------------------
(* The theorems.                                                           *)

LEMMA MInvStep == MInv /\ [MutexNext]_mutexVars => MInv'
<1>1. MInv /\ UNCHANGED mutexVars => MInv'
  BY DEF MInv, mutexVars, MutexTypeOK, MutualExclusion, QueuedOnce,
         NoLostWakeup, Locking, Standing
<1> QED
  BY <1>1, MInvCall, MInvLockQueue, MInvLockTake, MInvReadQueue, MInvReadTake,
     MInvUnlock, MInvCondWait, MInvCondSignal, MInvCondBroadcast
     DEF MutexNext, Test

LEMMA MInvAlways == MutexSpec => []MInv
BY MInvInit, MInvStep, PTL DEF MutexSpec

\* The variables of the monitor keep their types, and each queue holds the
\* threads that blocked for it, each once, and no other.
THEOREM MutexQueuesCorrect == MutexSpec => [](MutexTypeOK /\ QueuedOnce)
<1>1. MInv => MutexTypeOK /\ QueuedOnce
  BY DEF MInv
<1> QED BY <1>1, MInvAlways, PTL

\* At most one thread has the mutex for itself and then no thread has it
\* read-only; holder and reader_count say which and how many.
THEOREM MutexExcludes == MutexSpec => []MutualExclusion
<1>1. MInv => MutualExclusion
  BY DEF MInv
<1> QED BY <1>1, MInvAlways, PTL

\* A free mutex that queued threads wait for has a thread on its way to it.
THEOREM MutexWakeups == MutexSpec => []NoLostWakeup
<1>1. MInv => NoLostWakeup
  BY DEF MInv
<1> QED BY <1>1, MInvAlways, PTL
-----------------------------------------------------------------------------
(* The code implements the abstract monitor, as far as safety goes.        *)

\* The variables of Monitor, as the refinement mapping gives them.
entering == Standing("lock") \cup Standing("lockBlocked")
joining == Standing("rlock") \cup Standing("rlockBlocked")
awaiting == [c \in Cond |-> Elems(cond[c])]

\* Threads in the queue of a condition stand nowhere else.
LEMMA QueuedBlocked ==
  ASSUME MInv, NEW c \in Cond
  PROVE  Elems(cond[c]) \subseteq Standing("condBlocked")
<1>1. Elems(cond[c]) \in {Elems(cond[d]) : d \in Cond}
  OBVIOUS
<1> QED BY <1>1 DEF MInv, QueuedOnce

\* A thread that stands out can make any call.
LEMMA OutOutside ==
  ASSUME MInv, NEW t \in Thread, th[t] = "out"
  PROVE  Abstract!Outside(t)
<1>1. \A s : s # "out" => t \notin Standing(s)
  BY DEF Standing
<1>2. \A c \in Cond : t \notin Elems(cond[c])
  BY <1>1, QueuedBlocked
<1> QED BY <1>1, <1>2 DEF Abstract!Outside

\* Whom a release wakes goes on asking for what it asked for.
LEMMA ReleaseVisible ==
  ASSUME MInv, NEW t \in Thread, NEW s \in {"out", "condBlocked"},
         th[t] \in {"writing", "reading"}, Release(t, s)
  PROVE  /\ entering' = entering /\ joining' = joining
         /\ Standing("writing")' = Standing("writing") \ {t}
         /\ Standing("reading")' = Standing("reading") \ {t}
<1> DEFINE left == Remaining
<1>1. /\ th \in [Thread -> Stands]
      /\ Elems(waiters) = Standing("lockBlocked")
      /\ Elems(readers) = Standing("rlockBlocked")
  BY DEF MInv, MutexTypeOK, QueuedOnce
<1>2. CASE left = 0 /\ waiters # <<>>
  <2> DEFINE h == Head(waiters)
  <2>1. th' = [th EXCEPT ![t] = s, ![h] = "lock"]
    BY <1>2 DEF Release
  <2>2. h \in Thread /\ th[h] = "lockBlocked"
    BY <1>1, <1>2, DequeueOnce DEF MInv, MutexTypeOK, QueuedOnce, Standing
  <2>3. /\ t # h /\ th'[t] = s /\ th'[h] = "lock"
        /\ \A u \in Thread : u # t /\ u # h => th'[u] = th[u]
    BY <1>1, <2>1, <2>2
  <2> QED BY <2>2, <2>3 DEF entering, joining, Standing
<1>3. CASE left = 0 /\ waiters = <<>>
  <2>1. th' = [u \in Thread |-> IF u = t THEN s
                                ELSE IF u \in Elems(readers) THEN "rlock"
                                ELSE th[u]]
    BY <1>3 DEF Release
  <2>2. \A u \in Thread : u \in Elems(readers) <=> th[u] = "rlockBlocked"
    BY <1>1 DEF Standing
  <2>3. /\ th'[t] = s
        /\ \A u \in Thread : u # t =>
             th'[u] = IF th[u] = "rlockBlocked" THEN "rlock" ELSE th[u]
    BY <2>1, <2>2
  <2> QED BY <2>3 DEF entering, joining, Standing
<1>4. CASE left # 0
  <2>1. th' = [th EXCEPT ![t] = s]
    BY <1>4 DEF Release
  <2>2. th'[t] = s /\ \A u \in Thread : u # t => th'[u] = th[u]
    BY <1>1, <2>1
  <2> QED BY <2>2 DEF entering, joining, Standing
<1> QED BY <1>2, <1>3, <1>4

LEMMA ImplCalls ==
  ASSUME MInv, NEW t \in Thread
  PROVE  /\ LockCall(t) => Abstract!Ask(t)
         /\ ReadCall(t) => Abstract!AskReadonly(t)
         /\ LockQueue(t) \/ ReadQueue(t) => UNCHANGED Abstract!vars
<1>1. th \in [Thread -> Stands]
  BY DEF MInv, MutexTypeOK
<1>2. ASSUME LockCall(t) PROVE Abstract!Ask(t)
  <2>1. th[t] = "out" /\ th' = [th EXCEPT ![t] = "lock"] /\ cond' = cond
    BY <1>2 DEF LockCall
  <2>2. /\ entering' = entering \cup {t} /\ joining' = joining
        /\ Standing("writing")' = Standing("writing")
        /\ Standing("reading")' = Standing("reading")
    BY <1>1, <2>1 DEF entering, joining, Standing
  <2> QED
    BY <2>1, <2>2, OutOutside DEF Abstract!Ask, entering, joining
<1>3. ASSUME ReadCall(t) PROVE Abstract!AskReadonly(t)
  <2>1. th[t] = "out" /\ th' = [th EXCEPT ![t] = "rlock"] /\ cond' = cond
    BY <1>3 DEF ReadCall
  <2>2. /\ entering' = entering /\ joining' = joining \cup {t}
        /\ Standing("writing")' = Standing("writing")
        /\ Standing("reading")' = Standing("reading")
    BY <1>1, <2>1 DEF entering, joining, Standing
  <2> QED
    BY <2>1, <2>2, OutOutside DEF Abstract!AskReadonly, entering, joining
<1>4. ASSUME LockQueue(t) \/ ReadQueue(t) PROVE UNCHANGED Abstract!vars
  <2>1. /\ cond' = cond
        /\ \/ th[t] = "lock" /\ th' = [th EXCEPT ![t] = "lockBlocked"]
           \/ th[t] = "rlock" /\ th' = [th EXCEPT ![t] = "rlockBlocked"]
    BY <1>4 DEF LockQueue, ReadQueue
  <2>2. /\ entering' = entering /\ joining' = joining
        /\ Standing("writing")' = Standing("writing")
        /\ Standing("reading")' = Standing("reading")
    BY <1>1, <2>1 DEF entering, joining, Standing
  <2> QED BY <2>1, <2>2 DEF Abstract!vars, entering, joining
<1> QED BY <1>2, <1>3, <1>4

LEMMA ImplTakes ==
  ASSUME MInv, NEW t \in Thread
  PROVE  /\ LockTake(t) => Abstract!Enter(t)
         /\ ReadTake(t) => Abstract!EnterReadonly(t)
<1>1. th \in [Thread -> Stands]
  BY DEF MInv, MutexTypeOK
<1>2. holder = NoThread => Standing("writing") = {}
  BY MutexAssumption DEF MInv, MutualExclusion, Standing
<1>3. ~(reader_count > 0) => Standing("reading") = {}
  <2>1. reader_count = Cardinality(Standing("reading")) /\ reader_count \in Nat
    BY DEF MInv, MutualExclusion, MutexTypeOK
  <2> QED BY <2>1, StandingFinite, FS_EmptySet
<1>4. ASSUME LockTake(t) PROVE Abstract!Enter(t)
  <2>1. /\ th[t] = "lock" /\ th' = [th EXCEPT ![t] = "writing"]
        /\ cond' = cond /\ holder = NoThread /\ ~(reader_count > 0)
    BY <1>4 DEF LockTake, LockTaken
  <2>2. /\ t \in entering /\ entering' = entering \ {t} /\ joining' = joining
        /\ Standing("writing")' = Standing("writing") \cup {t}
        /\ Standing("reading")' = Standing("reading")
    BY <1>1, <2>1 DEF entering, joining, Standing
  <2> QED BY <1>2, <1>3, <2>1, <2>2 DEF Abstract!Enter, entering, joining
<1>5. ASSUME ReadTake(t) PROVE Abstract!EnterReadonly(t)
  <2>1. /\ th[t] = "rlock" /\ th' = [th EXCEPT ![t] = "reading"]
        /\ cond' = cond /\ holder = NoThread
    BY <1>5 DEF ReadTake, ReadTaken
  <2>2. /\ t \in joining /\ entering' = entering /\ joining' = joining \ {t}
        /\ Standing("writing")' = Standing("writing")
        /\ Standing("reading")' = Standing("reading") \cup {t}
    BY <1>1, <2>1 DEF entering, joining, Standing
  <2> QED BY <1>2, <2>1, <2>2 DEF Abstract!EnterReadonly, entering, joining
<1> QED BY <1>4, <1>5

LEMMA ImplReleases ==
  ASSUME MInv, NEW t \in Thread
  PROVE  /\ Unlock(t) => Abstract!Leave(t)
         /\ \A c \in Cond : CondWait(t, c) => Abstract!Wait(t, c)
<1>1. ASSUME Unlock(t) PROVE Abstract!Leave(t)
  <2>1. /\ th[t] \in {"writing", "reading"} /\ Release(t, "out") /\ cond' = cond
    BY <1>1 DEF Unlock
  <2>2. t \in Standing("writing") \cup Standing("reading")
    BY <2>1 DEF Standing
  <2>3. /\ entering' = entering /\ joining' = joining
        /\ Standing("writing")' = Standing("writing") \ {t}
        /\ Standing("reading")' = Standing("reading") \ {t}
    BY <2>1, ReleaseVisible
  <2> QED BY <2>1, <2>2, <2>3 DEF Abstract!Leave, entering, joining
<1>2. ASSUME NEW c \in Cond, CondWait(t, c) PROVE Abstract!Wait(t, c)
  <2>1. /\ th[t] = "writing" /\ Release(t, "condBlocked")
        /\ cond' = [cond EXCEPT ![c] = Append(cond[c], t)]
    BY <1>2 DEF CondWait
  <2>2. /\ t \in Standing("writing") /\ t \notin Standing("reading")
        /\ t \notin Standing("condBlocked")
    BY <2>1 DEF Standing
  <2>3. /\ entering' = entering /\ joining' = joining
        /\ Standing("writing")' = Standing("writing") \ {t}
        /\ Standing("reading")' = Standing("reading") \ {t}
    BY <2>1, ReleaseVisible
  <2>4. awaiting' = [awaiting EXCEPT ![c] = awaiting[c] \cup {t}]
    <3>1. t \notin Elems(cond[c])
      BY <2>2, QueuedBlocked
    <3>2. cond \in [Cond -> Seq(Thread)] /\ Once(cond[c])
      BY DEF MInv, MutexTypeOK, QueuedOnce
    <3>3. Elems(cond'[c]) = Elems(cond[c]) \cup {t}
      BY <2>1, <3>1, <3>2, EnqueueOnce
    <3>4. \A d \in Cond : d # c => cond'[d] = cond[d]
      BY <2>1, <3>2
    <3>5. \A d \in Cond : Elems(cond'[d]) = IF d = c THEN Elems(cond[c]) \cup {t}
                                                     ELSE Elems(cond[d])
      BY <3>3, <3>4
    <3> QED BY <3>5 DEF awaiting
  <2> QED BY <2>2, <2>3, <2>4 DEF Abstract!Wait, entering, joining, awaiting
<1> QED BY <1>1, <1>2

\* The holder of the mutex unblocks the threads in W, which wait for c.
LEMMA ImplWake ==
  ASSUME MInv, NEW c \in Cond, NEW W \in SUBSET Elems(cond[c]),
         th' = [u \in Thread |-> IF u \in W THEN "lock" ELSE th[u]],
         \A d \in Cond : Elems(cond'[d]) = IF d = c THEN Elems(cond[c]) \ W
                                                    ELSE Elems(cond[d])
  PROVE  Abstract!Wake(c, W)
<1>1. \A u \in W : u \in Thread /\ th[u] = "condBlocked"
  BY QueuedBlocked DEF Standing
<1>2. /\ entering' = entering \cup W /\ joining' = joining
      /\ Standing("writing")' = Standing("writing")
      /\ Standing("reading")' = Standing("reading")
  BY <1>1 DEF entering, joining, Standing
<1>3. awaiting' = [awaiting EXCEPT ![c] = awaiting[c] \ W]
  BY DEF awaiting
<1> QED BY <1>2, <1>3 DEF Abstract!Wake, entering, joining, awaiting

LEMMA ImplSignals ==
  ASSUME MInv, NEW t \in Thread, NEW c \in Cond
  PROVE  /\ CondSignal(t, c) => Abstract!Signal(t, c) \/ UNCHANGED Abstract!vars
         /\ CondBroadcast(t, c) => Abstract!Broadcast(t, c)
<1>1. /\ th \in [Thread -> Stands] /\ cond \in [Cond -> Seq(Thread)]
      /\ Once(cond[c])
  BY DEF MInv, MutexTypeOK, QueuedOnce
<1>2. ASSUME CondSignal(t, c), cond[c] # <<>> PROVE Abstract!Signal(t, c)
  <2> DEFINE h == Head(cond[c])
  <2>1. /\ th[t] = "writing" /\ cond' = [cond EXCEPT ![c] = Tail(cond[c])]
        /\ th' = [th EXCEPT ![h] = "lock"]
    BY <1>2 DEF CondSignal
  <2>2. /\ h \in Elems(cond[c]) /\ h \in Thread
        /\ Elems(cond'[c]) = Elems(cond[c]) \ {h}
        /\ \A d \in Cond : d # c => cond'[d] = cond[d]
    BY <1>1, <1>2, <2>1, DequeueOnce
  <2>3. {h} \in SUBSET Elems(cond[c])
    BY <2>2
  <2>4. th' = [u \in Thread |-> IF u \in {h} THEN "lock" ELSE th[u]]
    BY <1>1, <2>1, <2>2
  <2>5. \A d \in Cond : Elems(cond'[d]) = IF d = c THEN Elems(cond[c]) \ {h}
                                                    ELSE Elems(cond[d])
    BY <2>2
  <2>6. Abstract!Wake(c, {h})
    BY <2>3, <2>4, <2>5, ImplWake
  <2>7. t \in Standing("writing")
    BY <2>1 DEF Standing
  <2>8. awaiting[c] = Elems(cond[c])
    BY DEF awaiting
  <2> QED BY <2>2, <2>6, <2>7, <2>8 DEF Abstract!Signal, awaiting
<1>3. ASSUME CondSignal(t, c), cond[c] = <<>> PROVE UNCHANGED Abstract!vars
  <2>1. th' = th /\ cond' = cond
    BY <1>3 DEF CondSignal
  <2> QED BY <2>1 DEF Abstract!vars, Standing
<1>4. ASSUME CondBroadcast(t, c) PROVE Abstract!Broadcast(t, c)
  <2>1. /\ th[t] = "writing" /\ cond' = [cond EXCEPT ![c] = <<>>]
        /\ th' = [u \in Thread |-> IF u \in Elems(cond[c]) THEN "lock" ELSE th[u]]
    BY <1>4 DEF CondBroadcast
  <2>2. \A d \in Cond :
          Elems(cond'[d]) = IF d = c THEN Elems(cond[c]) \ Elems(cond[c])
                                     ELSE Elems(cond[d])
    BY <1>1, <2>1, EmptyQueue
  <2>3. Abstract!Wake(c, Elems(cond[c]))
    BY <2>1, <2>2, ImplWake
  <2>4. t \in Standing("writing")
    BY <2>1 DEF Standing
  <2> QED BY <2>3, <2>4 DEF Abstract!Broadcast
<1> QED BY <1>2, <1>3, <1>4

\* Every step of uthread_mutex_cond.c is an operation of the abstract monitor
\* or nothing that a client can see.
THEOREM MutexImplements == MutexSpec => Abstract!SafeSpec
<1>1. MutexInit => Abstract!Init
  <2> SUFFICES ASSUME MutexInit PROVE Abstract!Init
    OBVIOUS
  <2>1. \A s : s # "out" => Standing(s) = {}
    BY DEF MutexInit, Standing
  <2>2. [c \in Cond |-> Elems(cond[c])] = [c \in Cond |-> {}]
    BY EmptyQueue DEF MutexInit
  <2> QED BY <2>1, <2>2 DEF Abstract!Init
<1>2. MInv /\ [MutexNext]_mutexVars => [Abstract!Next]_(Abstract!vars)
  <2> SUFFICES ASSUME MInv, [MutexNext]_mutexVars
               PROVE  [Abstract!Next]_(Abstract!vars)
    OBVIOUS
  <2>1. CASE UNCHANGED mutexVars
    BY <2>1 DEF mutexVars, Abstract!vars, Standing
  <2>2. ASSUME NEW t \in Thread,
               LockCall(t) \/ ReadCall(t) \/ Test(t) \/ Unlock(t)
        PROVE  [Abstract!Next]_(Abstract!vars)
    BY <2>2, ImplCalls, ImplTakes, ImplReleases
       DEF Test, Abstract!Next, Abstract!LetIn
  <2>3. ASSUME NEW t \in Thread, NEW c \in Cond,
               CondWait(t, c) \/ CondSignal(t, c) \/ CondBroadcast(t, c)
        PROVE  [Abstract!Next]_(Abstract!vars)
    BY <2>3, ImplReleases, ImplSignals DEF Abstract!Next
  <2> QED BY <2>1, <2>2, <2>3 DEF MutexNext
<1> QED BY <1>1, <1>2, MInvAlways, PTL DEF MutexSpec, Abstract!SafeSpec
=============================================================================
