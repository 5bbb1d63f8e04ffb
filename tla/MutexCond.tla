----------------------------- MODULE MutexCond -----------------------------
(***************************************************************************)
(* The monitors of uthreads/uthread_mutex_cond.c: one mutex, with read-only *)
(* locking, and the condition variables created with it.  Each critical     *)
(* section of mutex->spinlock is one step.  The queues of the conditions    *)
(* are guarded by the mutex itself.  uthread_block and uthread_unblock are  *)
(* taken at their word, also when the unblock comes before the block.       *)
(* Operators whose names end in M are mutants of the definition that        *)
(* follows them (see the README).                                           *)
(***************************************************************************)
EXTENDS ThreadQueue, FiniteSets

CONSTANTS
  Thread,   \* the threads that use the monitor
  Cond,     \* its condition variables
  NoThread  \* holder = 0

ASSUME MutexAssumption == NoThread \notin Thread /\ IsFiniteSet(Thread)

VARIABLES
  holder,       \* mutex->holder
  reader_count, \* mutex->reader_count
  waiters,      \* mutex->waiter_queue
  readers,      \* mutex->reader_waiter_queue
  cond,         \* cond[c]: the waiter_queue of condition c
  th            \* where each thread stands with respect to the monitor

mutexVars == <<holder, reader_count, waiters, readers, cond, th>>

Stands == {"out",                     \* neither has the mutex nor wants it
           "lock", "rlock",           \* about to test the loop of lock(_readonly)
           "lockBlocked", "rlockBlocked", \* queued by that loop
           "condBlocked",             \* in uthread_cond_wait
           "writing", "reading"}      \* has returned from lock(_readonly)

MutexInit ==
  /\ holder = NoThread
  /\ reader_count = 0
  /\ waiters = <<>>
  /\ readers = <<>>
  /\ cond = [c \in Cond |-> <<>>]
  /\ th = [t \in Thread |-> "out"]

\* The threads that stand at s.
Standing(s) == {t \in Thread : th[t] = s}

-----------------------------------------------------------------------------
(* uthread_mutex_lock.                                                     *)

LockCall(t) ==
  /\ th[t] = "out"
  /\ th' = [th EXCEPT ![t] = "lock"]
  /\ UNCHANGED <<holder, reader_count, waiters, readers, cond>>

LockTakenWriterM == holder # NoThread

LockTakenFairM == holder # NoThread \/ reader_count > 0 \/ waiters # <<>>

LockTaken == holder # NoThread \/ reader_count > 0

LockQueue(t) ==
  /\ th[t] = "lock"
  /\ LockTaken
  /\ waiters' = Append(waiters, t)
  /\ th' = [th EXCEPT ![t] = "lockBlocked"]
  /\ UNCHANGED <<holder, reader_count, readers, cond>>

LockTake(t) ==
  /\ th[t] = "lock"
  /\ ~LockTaken
  /\ holder' = t
  /\ th' = [th EXCEPT ![t] = "writing"]
  /\ UNCHANGED <<reader_count, waiters, readers, cond>>

(* uthread_mutex_lock_readonly.  Readers give way to queued writers.       *)

ReadCall(t) ==
  /\ th[t] = "out"
  /\ th' = [th EXCEPT ![t] = "rlock"]
  /\ UNCHANGED <<holder, reader_count, waiters, readers, cond>>

ReadTaken == holder # NoThread \/ waiters # <<>>

ReadQueue(t) ==
  /\ th[t] = "rlock"
  /\ ReadTaken
  /\ readers' = Append(readers, t)
  /\ th' = [th EXCEPT ![t] = "rlockBlocked"]
  /\ UNCHANGED <<holder, reader_count, waiters, cond>>

ReadTake(t) ==
  /\ th[t] = "rlock"
  /\ ~ReadTaken
  /\ reader_count' = reader_count + 1
  /\ th' = [th EXCEPT ![t] = "reading"]
  /\ UNCHANGED <<holder, waiters, readers, cond>>

(* uthread_mutex_unlock.                                                   *)

\* The readers left once the caller is out.
Remaining == IF holder # NoThread THEN reader_count ELSE reader_count - 1

\* The part common to unlock and cond_wait; the caller is to stand at s.
\* Once no one has the mutex, one writer is unblocked or, if there is none,
\* every reader; they will test again, ahead or behind of other callers.
Release(t, s) ==
  LET left == Remaining
  IN /\ holder' = NoThread
     /\ reader_count' = left
     /\ CASE left = 0 /\ waiters # <<>> ->
               /\ waiters' = Tail(waiters)
               /\ th' = [th EXCEPT ![t] = s, ![Head(waiters)] = "lock"]
               /\ UNCHANGED readers
          [] left = 0 /\ waiters = <<>> ->
               /\ readers' = <<>>
               /\ th' = [u \in Thread |-> IF u = t THEN s
                                          ELSE IF u \in Elems(readers) THEN "rlock"
                                          ELSE th[u]]
               /\ UNCHANGED waiters
          [] OTHER ->
               /\ th' = [th EXCEPT ![t] = s]
               /\ UNCHANGED <<waiters, readers>>

Unlock(t) ==
  /\ th[t] \in {"writing", "reading"}
  /\ Release(t, "out")
  /\ UNCHANGED cond

-----------------------------------------------------------------------------
(* Condition variables; the caller holds the mutex, as the code asserts.   *)

\* Join the queue of c, unlock, and block; once signalled, lock again.  No
\* other thread can touch the queue before the unlock.
CondWait(t, c) ==
  /\ th[t] = "writing"
  /\ cond' = [cond EXCEPT ![c] = Append(@, t)]
  /\ Release(t, "condBlocked")

CondSignalPeekM(t, c) ==
  /\ th[t] = "writing"
  /\ th' = IF cond[c] = <<>> THEN th
            ELSE [th EXCEPT ![Head(cond[c])] = "lock"]
  /\ UNCHANGED <<holder, reader_count, waiters, readers, cond>>

\* The signalled thread is unblocked; the mutex stays with the caller.
CondSignal(t, c) ==
  /\ th[t] = "writing"
  /\ IF cond[c] = <<>>
     THEN UNCHANGED <<cond, th>>
     ELSE /\ cond' = [cond EXCEPT ![c] = Tail(@)]
          /\ th' = [th EXCEPT ![Head(cond[c])] = "lock"]
  /\ UNCHANGED <<holder, reader_count, waiters, readers>>

CondBroadcast(t, c) ==
  /\ th[t] = "writing"
  /\ cond' = [cond EXCEPT ![c] = <<>>]
  /\ th' = [u \in Thread |-> IF u \in Elems(cond[c]) THEN "lock" ELSE th[u]]
  /\ UNCHANGED <<holder, reader_count, waiters, readers>>

-----------------------------------------------------------------------------
\* The step a thread in one of the two loops takes when it runs.
Test(t) == LockQueue(t) \/ LockTake(t) \/ ReadQueue(t) \/ ReadTake(t)

MutexNext ==
  \E t \in Thread :
    \/ LockCall(t) \/ ReadCall(t) \/ Test(t) \/ Unlock(t)
    \/ \E c \in Cond : CondWait(t, c) \/ CondSignal(t, c) \/ CondBroadcast(t, c)

MutexSpec == MutexInit /\ [][MutexNext]_mutexVars

\* An unblocked thread runs and reaches its test; nothing is assumed of what
\* the holder of the mutex does.
MutexFairSpec == MutexSpec /\ \A t \in Thread : WF_mutexVars(Test(t))

-----------------------------------------------------------------------------
(* Properties.                                                             *)

MutexTypeOK ==
  /\ holder \in Thread \cup {NoThread}
  /\ reader_count \in Nat
  /\ waiters \in Seq(Thread)
  /\ readers \in Seq(Thread)
  /\ cond \in [Cond -> Seq(Thread)]
  /\ th \in [Thread -> Stands]

\* Writers are alone, readers share; holder and reader_count agree with the
\* threads that think they have the mutex, which is what the assertions at
\* uthread_mutex_cond.c:94, 97, 136, 150 and 163 rely on.
MutualExclusion ==
  /\ \A t \in Thread : th[t] = "writing" <=> holder = t
  /\ reader_count = Cardinality(Standing("reading"))
  /\ holder # NoThread => reader_count = 0

\* Every blocked thread is in just the queue it blocked for, once: TCBs are
\* linked through one next field, and a queue ignores a thread that seems to
\* be queued (uthread.c:140).
QueuedOnce ==
  /\ Once(waiters) /\ Elems(waiters) = Standing("lockBlocked")
  /\ Once(readers) /\ Elems(readers) = Standing("rlockBlocked")
  /\ \A c \in Cond : Once(cond[c])
  /\ \A c, d \in Cond : c # d => Elems(cond[c]) \cap Elems(cond[d]) = {}
  /\ UNION {Elems(cond[c]) : c \in Cond} = Standing("condBlocked")

Locking == \E t \in Thread : th[t] = "lock"

\* No wakeup is lost.  When the mutex is free and writers are queued, and when
\* readers are queued for neither a holder nor a queued writer, some thread is
\* on its way to lock it, and will pass it on when it unlocks; this in spite of
\* the callers that barge in between an unblock and the test it is for
\* (uthread_mutex_cond.c:57-66, 73-81, 100-108).
NoLostWakeup ==
  /\ holder = NoThread /\ reader_count = 0 /\ waiters # <<>> => Locking
  /\ holder = NoThread /\ waiters = <<>> /\ readers # <<>> => Locking

Abstract == INSTANCE Monitor WITH
  entering <- Standing("lock") \cup Standing("lockBlocked"),
  joining  <- Standing("rlock") \cup Standing("rlockBlocked"),
  writers  <- Standing("writing"),
  readers  <- Standing("reading"),
  waiting  <- [c \in Cond |-> Elems(cond[c])]

\* The code implements a monitor: exclusion, signals that are never lost on a
\* thread that waits, and progress whenever the mutex is free.
ImplementsMonitor == Abstract!Spec

=============================================================================
