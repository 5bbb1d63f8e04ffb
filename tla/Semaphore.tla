----------------------------- MODULE Semaphore -----------------------------
(***************************************************************************)
(* The counting semaphores of uthreads/uthread_sem.c.  Each critical       *)
(* section of sem->spinlock is one step; uthread_block and uthread_unblock *)
(* are taken at their word: a thread that is unblocked runs again, also    *)
(* when the unblock comes before the block.  Operators whose names end in  *)
(* M are mutants of the definition that follows them (see the README).     *)
(***************************************************************************)
EXTENDS ThreadQueue, FiniteSets

CONSTANTS
  Thread,   \* the threads that use the semaphores
  Sem,      \* the semaphores
  Initial,  \* Initial[s]: the argument of uthread_sem_create
  MaxValue, \* bound: no semaphore is signalled beyond this value
  NoSem     \* the semaphore a thread outside wait is at

ASSUME SemaphoreAssumption ==
  /\ IsFiniteSet(Thread)
  /\ MaxValue \in Nat
  /\ Initial \in [Sem -> 0..MaxValue]
  /\ NoSem \notin Sem

VARIABLES
  value,   \* sem->value
  waiters, \* sem->waiter_queue
  at,      \* where each thread is in uthread_sem_wait
  on       \* the semaphore it waits for

semVars == <<value, waiters, at, on>>

Init ==
  /\ value = Initial
  /\ waiters = [s \in Sem |-> <<>>]
  /\ at = [t \in Thread |-> "out"]
  /\ on = [t \in Thread |-> NoSem]

\* uthread_sem_wait is called: the thread is at the spinlock, ahead of the
\* test of the loop.
Wait(t, s) ==
  /\ at[t] = "out"
  /\ at' = [at EXCEPT ![t] = "test"]
  /\ on' = [on EXCEPT ![t] = s]
  /\ UNCHANGED <<value, waiters>>

\* The test fails: queue up, release the spinlock and block.
Queue(t) ==
  /\ at[t] = "test"
  /\ value[on[t]] < 1
  /\ waiters' = [waiters EXCEPT ![on[t]] = Append(@, t)]
  /\ at' = [at EXCEPT ![t] = "blocked"]
  /\ UNCHANGED <<value, on>>

\* The test succeeds: take a permit and return.
Take(t) ==
  /\ at[t] = "test"
  /\ ~(value[on[t]] < 1)
  /\ value' = [value EXCEPT ![on[t]] = @ - 1]
  /\ at' = [at EXCEPT ![t] = "out"]
  /\ on' = [on EXCEPT ![t] = NoSem]
  /\ UNCHANGED waiters

SignalFromZeroM(t, s) ==
  /\ at[t] = "out"
  /\ value[s] < MaxValue
  /\ value' = [value EXCEPT ![s] = @ + 1]
  /\ IF waiters[s] = <<>> \/ value[s] > 0
     THEN UNCHANGED <<waiters, at>>
     ELSE /\ waiters' = [waiters EXCEPT ![s] = Tail(@)]
          /\ at' = [at EXCEPT ![Head(waiters[s])] = "test"]
  /\ UNCHANGED on

\* uthread_sem_signal: the first waiter is unblocked and will test again; it
\* is not handed the permit.
Signal(t, s) ==
  /\ at[t] = "out"
  /\ value[s] < MaxValue
  /\ value' = [value EXCEPT ![s] = @ + 1]
  /\ IF waiters[s] = <<>>
     THEN UNCHANGED <<waiters, at>>
     ELSE /\ waiters' = [waiters EXCEPT ![s] = Tail(@)]
          /\ at' = [at EXCEPT ![Head(waiters[s])] = "test"]
  /\ UNCHANGED on

Next == \E t \in Thread :
          \/ Queue(t) \/ Take(t)
          \/ \E s \in Sem : Wait(t, s) \/ Signal(t, s)

Spec == Init /\ [][Next]_semVars

\* A thread that can run reaches its next test.
FairSpec == Spec /\ \A t \in Thread : WF_semVars(Queue(t) \/ Take(t))

-----------------------------------------------------------------------------
(* Properties.                                                             *)

TypeOK ==
  /\ value \in [Sem -> 0..MaxValue]
  /\ waiters \in [Sem -> Seq(Thread)]
  /\ at \in [Thread -> {"out", "test", "blocked"}]
  /\ on \in [Thread -> Sem \cup {NoSem}]

\* A thread has a semaphore just while it is inside wait.
OnInside == \A t \in Thread : at[t] = "out" <=> on[t] = NoSem

\* The threads at place a in a wait for s.
Standing(a, s) == {t \in Thread : at[t] = a /\ on[t] = s}

\* A thread is queued at most once, at the semaphore it blocks for: the single
\* next link of a TCB serves one queue at a time (uthread.c:140, 122).
QueuedOnce ==
  \A s \in Sem : /\ Once(waiters[s])
                 /\ Elems(waiters[s]) = Standing("blocked", s)

\* No wakeup is lost: while threads are queued there is a thread on its way to
\* the test for every permit, so no permit is left with all waiters blocked,
\* whoever barges in between the unblock and the test (uthread_sem.c:52-57,
\* 67-75).
NoLostWakeup ==
  \A s \in Sem : waiters[s] # <<>> => value[s] <= Cardinality(Standing("test", s))

\* The semaphores, threads in any stage of wait being inside.
Abstract == INSTANCE CountingSemaphore WITH
  count  <- value,
  inside <- [s \in Sem |-> {t \in Thread : on[t] = s}]

\* The code implements a counting semaphore, in safety and in progress.
ImplementsSemaphore == Abstract!Spec

=============================================================================
