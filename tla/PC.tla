--------------------------------- MODULE PC ---------------------------------
(***************************************************************************)
(* The producers and consumers of Assignment10/pc.c on the monitor of      *)
(* MutexCond.  items is shared memory: reading it and writing it back are  *)
(* separate steps, as are the two halves of histogram [items] ++, and only *)
(* the mutex keeps them together.  Operators whose names end in M are      *)
(* mutants of the definition that follows them (see the README).           *)
(***************************************************************************)
EXTENDS MutexCond, Integers, Functions

CONSTANTS
  Producer, Consumer, \* the threads, by what they run
  add, rem,           \* the two condition variables
  MAX_ITEMS,
  NUM_ITERATIONS      \* of the loop of each thread

ASSUME PCAssumption ==
  /\ Thread = Producer \cup Consumer
  /\ Producer \cap Consumer = {}
  /\ add \in Cond /\ rem \in Cond /\ add # rem
  /\ MAX_ITEMS \in Nat \ {0}
  /\ NUM_ITERATIONS \in Nat \ {0}

VARIABLES
  items,
  histogram, \* how often items took each value
  pc,        \* where each thread is in its loop
  left,      \* iterations each thread has left
  reg        \* the register that what is incremented goes through

appVars == <<items, histogram, pc, left, reg>>
vars == <<mutexVars, appVars>>

Init ==
  /\ MutexInit
  /\ items = 0
  /\ histogram = [n \in 0..MAX_ITEMS |-> 0]
  /\ pc = [t \in Thread |-> "lock"]
  /\ left = [t \in Thread |-> NUM_ITERATIONS]
  /\ reg = [t \in Thread |-> 0]

-----------------------------------------------------------------------------
Goto(t, a) == pc' = [pc EXCEPT ![t] = a]

\* Thread t has the mutex and is at a.
In(t, a) == pc[t] = a /\ th[t] = "writing"

\* uthread_mutex_lock is called; it returns by a Test of MutexCond.
Lock(t) ==
  /\ pc[t] = "lock"
  /\ LockCall(t)
  /\ Goto(t, "test")
  /\ UNCHANGED <<items, histogram, left, reg>>

Acquire(t) == Test(t) /\ UNCHANGED appVars

\* The condition of the while loop: wait for room, or for an item.
MustWait(t) == IF t \in Producer THEN items >= MAX_ITEMS ELSE items <= 0

WaitsFor(t) == IF t \in Producer THEN rem ELSE add

WaitOnceM(t) ==
  /\ In(t, "test")
  /\ MustWait(t)
  /\ CondWait(t, WaitsFor(t))
  /\ Goto(t, "load")
  /\ UNCHANGED <<items, histogram, left, reg>>

\* cond_wait comes back to the test with the mutex.
Wait(t) ==
  /\ In(t, "test")
  /\ MustWait(t)
  /\ CondWait(t, WaitsFor(t))
  /\ UNCHANGED appVars

Pass(t) ==
  /\ In(t, "test")
  /\ ~MustWait(t)
  /\ Goto(t, "load")
  /\ UNCHANGED <<mutexVars, items, histogram, left, reg>>

Load(t) ==
  /\ In(t, "load")
  /\ reg' = [reg EXCEPT ![t] = items]
  /\ Goto(t, "store")
  /\ UNCHANGED <<mutexVars, items, histogram, left>>

Store(t) ==
  /\ In(t, "store")
  /\ items' = IF t \in Producer THEN reg[t] + 1 ELSE reg[t] - 1
  /\ Goto(t, "assert")
  /\ UNCHANGED <<mutexVars, histogram, left, reg>>

\* The assertion, and the read of histogram [items].
CheckItems(t) ==
  /\ In(t, "assert")
  /\ IF items >= 0 /\ items <= MAX_ITEMS
     THEN /\ reg' = [reg EXCEPT ![t] = histogram[items]]
          /\ Goto(t, "record")
     ELSE /\ Goto(t, "aborted")
          /\ UNCHANGED reg
  /\ UNCHANGED <<mutexVars, items, histogram, left>>

SignalsM(t) == WaitsFor(t)

Signals(t) == IF t \in Producer THEN add ELSE rem

RecordProducedM(t) ==
  /\ In(t, "record")
  /\ histogram' = IF t \in Producer
                  THEN [histogram EXCEPT ![items] = reg[t] + 1] ELSE histogram
  /\ CondSignal(t, Signals(t))
  /\ Goto(t, "unlock")
  /\ UNCHANGED <<items, left, reg>>

\* The write of histogram [items], and the signal.
Record(t) ==
  /\ In(t, "record")
  /\ histogram' = [histogram EXCEPT ![items] = reg[t] + 1]
  /\ CondSignal(t, Signals(t))
  /\ Goto(t, "unlock")
  /\ UNCHANGED <<items, left, reg>>

\* unlock, and the next turn of the loop.
Leave(t) ==
  /\ In(t, "unlock")
  /\ Unlock(t)
  /\ left' = [left EXCEPT ![t] = @ - 1]
  /\ Goto(t, IF left[t] = 1 THEN "done" ELSE "lock")
  /\ UNCHANGED <<items, histogram, reg>>

Step(t) == \/ Lock(t) \/ Acquire(t) \/ Wait(t) \/ Pass(t) \/ Load(t)
           \/ Store(t) \/ CheckItems(t) \/ Record(t) \/ Leave(t)

Next == \E t \in Thread : Step(t)

Spec == Init /\ [][Next]_vars

\* Every thread that can run does: the ready queue is a FIFO and no thread
\* keeps a processor for ever.
FairSpec == Spec /\ \A t \in Thread : WF_vars(Step(t))

-----------------------------------------------------------------------------
(* Properties.                                                             *)

Places == {"lock", "test", "load", "store", "assert", "record", "unlock",
           "done", "aborted"}

TypeOK ==
  /\ MutexTypeOK
  /\ items \in Int
  /\ histogram \in [0..MAX_ITEMS -> Nat]
  /\ pc \in [Thread -> Places]
  /\ left \in [Thread -> 0..NUM_ITERATIONS]
  /\ reg \in [Thread -> Int]

\* The assertions of pc.c:34 and 53 never fail: no two threads are between
\* the test of items and the assertion, so none acts on a stale test.
AssertsHold == \A t \in Thread : pc[t] # "aborted"

Done == \A t \in Thread : pc[t] = "done"

\* pc.c:89: no change of items is left out of the histogram or counted twice.
HistogramComplete ==
  Done => FoldFunction(+, 0, histogram) = Cardinality(Thread) * NUM_ITERATIONS

\* While consumers wait for an item there is one on its way to the test for
\* every item that may be taken, and the same of producers and free places,
\* although a signal hands nothing over and other threads may come in between
\* (pc.c:29-31, 37, 48-50, 56).
OnTheWay(T) == {t \in T : /\ pc[t] \in {"test", "load", "store"}
                           /\ th[t] # "condBlocked"}

AboutToSignal(T) == {t \in T : pc[t] \in {"assert", "record"}}

ItemsOffered ==
  /\ cond[add] # <<>> =>
       items <= Cardinality(OnTheWay(Consumer) \cup AboutToSignal(Producer))
  /\ cond[rem] # <<>> =>
       MAX_ITEMS - items
         <= Cardinality(OnTheWay(Producer) \cup AboutToSignal(Consumer))

\* Every thread gets through its iterations, so that main can join it.
Terminates == <>Done

=============================================================================
