---------------------------- MODULE ThreadQueue ----------------------------
(***************************************************************************)
(* What the queues of uthread.c are to the rest of the package: sequences  *)
(* of threads, appended at the tail and taken from the head.               *)
(***************************************************************************)
EXTENDS Naturals, Sequences

\* The threads in queue q.
Elems(q) == {q[i] : i \in DOMAIN q}

\* No thread is in q twice.
Once(q) == \A i, j \in DOMAIN q : q[i] = q[j] => i = j
=============================================================================
