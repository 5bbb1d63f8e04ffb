----------------------------- MODULE MCUthread -----------------------------
(* Instances of Uthread for TLC.                                           *)
EXTENDS Uthread, TLC

CONSTANTS main, t1, t2, p0, p1, p2

\* main creates and joins workers, as every program of Assignments 10 and 11.
JoiningOps ==
  [t \in Thread |-> IF t = Main THEN {"create", "join", "detach", "exit"}
                                ELSE {"yield", "exit"}]

\* Threads that only come and go, so that pthreads fall asleep and are woken.
ForkingOps ==
  [t \in Thread |-> IF t = Main THEN {"create", "join", "exit"}
                                ELSE {"create", "exit"}]

\* Threads that yield, block and come back, join and are joined or detached.
SharingOps ==
  [t \in Thread |-> IF t = Main
                    THEN {"create", "yield", "unblock", "join", "detach", "exit"}
                    ELSE {"yield", "block", "unblock", "join", "exit"}]

\* Threads that block, are unblocked and yield.
BlockingOps ==
  [t \in Thread |-> IF t = Main THEN {"create", "yield", "unblock"}
                                ELSE {"yield", "block"}]

\* The workers, and the pthreads but the first, are interchangeable.
Workers == Permutations(Thread \ {Main})
=============================================================================
