------------------------------- MODULE PCSem -------------------------------
(***************************************************************************)
(* The producers and consumers of Assignment11/pc_sem.c on the semaphores  *)
(* of Semaphore.  As in PC, shared variables are read and written in       *)
(* separate steps.  Operators whose names end in M are mutants of the      *)
(* definition that follows them (see the README).                          *)
(***************************************************************************)
EXTENDS Semaphore, Integers, Functions

CONSTANTS
  Producer, Consumer, \* the threads, by what they run
  lock, isNotEmpty, isNotFull, \* the semaphores
  MAX_ITEMS,
  NUM_ITERATIONS

\* MaxValue only bounds what TLC enumerates: no semaphore gets that far.
ASSUME PCSemAssumption ==
  /\ Thread = Producer \cup Consumer
  /\ Producer \cap Consumer = {}
  /\ Sem = {lock, isNotEmpty, isNotFull}
  /\ Cardinality(Sem) = 3
  /\ MAX_ITEMS \in Nat \ {0}
  /\ NUM_ITERATIONS \in Nat \ {0}
  /\ MaxValue > MAX_ITEMS
  /\ Initial[lock] = 1 /\ Initial[isNotEmpty] = 0
  /\ Initial[isNotFull] = MAX_ITEMS

VARIABLES
  items,
  histogram, \* how often items took each value
  pc,        \* where each thread is in its loop
  left,      \* iterations each thread has left
  reg        \* the register that what is incremented goes through

appVars == <<items, histogram, pc, left, reg>>
vars == <<semVars, appVars>>

PCInit ==
  /\ Init
  /\ items = 0
  /\ histogram = [n \in 0..MAX_ITEMS |-> 0]
  /\ pc = [t \in Thread |-> "count"]
  /\ left = [t \in Thread |-> NUM_ITERATIONS]
  /\ reg = [t \in Thread |-> 0]

-----------------------------------------------------------------------------
Goto(t, a) == pc' = [pc EXCEPT ![t] = a]

\* Thread t is at a, in no wait.
In(t, a) == pc[t] = a /\ at[t] = "out"

\* The semaphore that counts what a thread of this kind needs, and the one
\* that counts what it provides.
Needs(t) == IF t \in Producer THEN isNotFull ELSE isNotEmpty

ProvidesM(t) == Needs(t)

Provides(t) == IF t \in Producer THEN isNotEmpty ELSE isNotFull

\* A wait is called; it returns by a Take of Semaphore.
Call(t, a, s, b) ==
  /\ In(t, a)
  /\ Wait(t, s)
  /\ Goto(t, b)
  /\ UNCHANGED <<items, histogram, left, reg>>

WaitCount(t) == Call(t, "count", Needs(t), "lock")

WaitLockM(t) ==
  /\ In(t, "lock")
  /\ Goto(t, "load")
  /\ UNCHANGED <<semVars, items, histogram, left, reg>>

WaitLock(t) == Call(t, "lock", lock, "load")

Go(t) == (Queue(t) \/ Take(t)) /\ UNCHANGED appVars

Load(t) ==
  /\ In(t, "load")
  /\ reg' = [reg EXCEPT ![t] = items]
  /\ Goto(t, "store")
  /\ UNCHANGED <<semVars, items, histogram, left>>

Store(t) ==
  /\ In(t, "store")
  /\ items' = IF t \in Producer THEN reg[t] + 1 ELSE reg[t] - 1
  /\ Goto(t, "assert")
  /\ UNCHANGED <<semVars, histogram, left, reg>>

\* The assertion, and the read of histogram [items].
CheckItems(t) ==
  /\ In(t, "assert")
  /\ IF items >= 0 /\ items <= MAX_ITEMS
     THEN /\ reg' = [reg EXCEPT ![t] = histogram[items]]
          /\ Goto(t, "record")
     ELSE /\ Goto(t, "aborted")
          /\ UNCHANGED reg
  /\ UNCHANGED <<semVars, items, histogram, left>>

Record(t) ==
  /\ In(t, "record")
  /\ histogram' = [histogram EXCEPT ![items] = reg[t] + 1]
  /\ Goto(t, "signal")
  /\ UNCHANGED <<semVars, items, left, reg>>

Provide(t) ==
  /\ In(t, "signal")
  /\ Signal(t, Provides(t))
  /\ Goto(t, "unlock")
  /\ UNCHANGED <<items, histogram, left, reg>>

\* The lock is released, and the loop takes its next turn.
Unlock(t) ==
  /\ In(t, "unlock")
  /\ Signal(t, lock)
  /\ left' = [left EXCEPT ![t] = @ - 1]
  /\ Goto(t, IF left[t] = 1 THEN "done" ELSE "count")
  /\ UNCHANGED <<items, histogram, reg>>

Step(t) == \/ WaitCount(t) \/ WaitLock(t) \/ Go(t) \/ Load(t) \/ Store(t)
           \/ CheckItems(t) \/ Record(t) \/ Provide(t) \/ Unlock(t)

PCNext == \E t \in Thread : Step(t)

PCSpec == PCInit /\ [][PCNext]_vars

\* Every thread that can run does.
PCFairSpec == PCSpec /\ \A t \in Thread : WF_vars(Step(t))

-----------------------------------------------------------------------------
(* Properties.                                                             *)

Places == {"count", "lock", "load", "store", "assert", "record", "signal",
           "unlock", "done", "aborted"}

PCTypeOK ==
  /\ TypeOK
  /\ items \in Int
  /\ histogram \in [0..MAX_ITEMS -> Nat]
  /\ pc \in [Thread -> Places]
  /\ left \in [Thread -> 0..NUM_ITERATIONS]
  /\ reg \in [Thread -> Int]

Done == \A t \in Thread : pc[t] = "done"

\* The assertions of pc_sem.c:32 and 49 never fail: items stays in its range.
ItemsInRange == \A t \in Thread : pc[t] # "aborted"

\* No assertion fails, main's included (pc_sem.c:85): no change of items is
\* left out of the histogram, nor counted twice.
AssertsHold ==
  /\ ItemsInRange
  /\ Done => FoldFunction(+, 0, histogram) = Cardinality(Thread) * NUM_ITERATIONS

\* Threads that have their share but have not changed items yet, and threads
\* that have changed it and not said so yet.
Reserved(T) == {t \in T : \/ pc[t] = "lock" /\ at[t] = "out"
                          \/ pc[t] \in {"load", "store"}}
Unsaid(T) == {t \in T : pc[t] \in {"assert", "record", "signal"}}

\* The two counting semaphores account for items: what a thread was promised by
\* its first wait is there when it gets the lock (pc_sem.c:28-36, 45-53).
Accounted ==
  /\ items = value[isNotEmpty] + Cardinality(Reserved(Consumer))
               + Cardinality(Unsaid(Producer))
  /\ MAX_ITEMS - items = value[isNotFull] + Cardinality(Reserved(Producer))
               + Cardinality(Unsaid(Consumer))

\* Every thread gets through its iterations, so that main can join it.
Terminates == <>Done
=============================================================================
