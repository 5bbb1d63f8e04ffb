------------------------------ MODULE Rendezvous ------------------------------
(* The programs q1.c to q4.c of Assignment 10: three threads and main, which     *)
(* joins them, on the monitor of MutexCond (q1.c uses none). What they print is  *)
(* `out`. The threads run on four pthreads, so that any of them may be next.     *)
EXTENDS MutexCond, SequencesExt, Integers, TLC

CONSTANTS t0, t1, t2,                     \* the threads
          barrier, oneCanGo, twoCanGo,    \* cond of q3.c, and the two of q4.c
          N                               \* iterations of a loop of q2.c

ASSUME RendezvousAssumption ==
  /\ Thread = {t0, t1, t2} /\ Cardinality(Thread) = 3
  /\ Cond = {barrier, oneCanGo, twoCanGo} /\ Cardinality(Cond) = 3
  /\ N \in Nat \ {0}

VARIABLES program,          \* "q1" to "q4"
          pc,               \* where each thread is
          out,              \* what has been printed
          joined,           \* threads main has joined, and one more when it has printed
          ended,            \* main has returned, and with it the process
          cnt, reg, k,      \* q2: cnt, its copy in a register, iterations done
          threadsReached,   \* q3
          oneNext, twoNext  \* q4

appVars == <<program, pc, out, joined, ended, cnt, reg, k, threadsReached, oneNext, twoNext>>
vars == <<mutexVars, appVars>>

Init ==
  /\ MutexInit
  /\ program \in {"q1", "q2", "q3", "q4"}
  /\ pc = [t \in Thread |-> "start"]
  /\ out = <<>> /\ joined = 0 /\ ended = FALSE
  /\ cnt = 0 /\ reg = [t \in Thread |-> 0] /\ k = [t \in Thread |-> 0]
  /\ threadsReached = 0 /\ oneNext = FALSE /\ twoNext = FALSE

At(t, q, place) == ~ended /\ program = q /\ pc[t] = place
In(t, q, place) == At(t, q, place) /\ th[t] = "writing"
Goto(t, place) == pc' = [pc EXCEPT ![t] = place]

(* Calls of lock, and of lock or cond_wait when they return. *)
Lock(t, q, from, to) ==
  /\ At(t, q, from) /\ LockCall(t) /\ Goto(t, to)
  /\ UNCHANGED <<program, out, joined, ended, cnt, reg, k, threadsReached, oneNext, twoNext>>
Leave(t, q, from, to) ==
  /\ In(t, q, from) /\ Unlock(t) /\ Goto(t, to)
  /\ UNCHANGED <<program, out, joined, ended, cnt, reg, k, threadsReached, oneNext, twoNext>>
Acquire(t) == ~ended /\ Test(t) /\ UNCHANGED appVars

Say(t, what, to) ==
  /\ out' = Append(out, what) /\ Goto(t, to)
  /\ UNCHANGED <<mutexVars, program, joined, ended, cnt, reg, k, threadsReached, oneNext, twoNext>>

Word(t) == CASE t = t0 -> "zero" [] t = t1 -> "one" [] t = t2 -> "two"

(* q1: each prints its word.                                                    *)
Q1(t) == At(t, "q1", "start") /\ Say(t, Word(t), "done")

(* q2: countUp and countDown; cnt += 1 is a read and a write.                   *)
Count(t, place, d, next) ==
  \/ /\ In(t, "q2", place) /\ k[t] < N
     /\ reg' = [reg EXCEPT ![t] = cnt] /\ Goto(t, next)
     /\ UNCHANGED <<cnt, k>>
  \/ /\ In(t, "q2", next)
     /\ cnt' = reg[t] + d /\ k' = [k EXCEPT ![t] = @ + 1] /\ Goto(t, place)
     /\ UNCHANGED reg
Looping(t) ==
  /\ Count(t, "up", 1, "upStore") \/ Count(t, "down", -1, "downStore")
  /\ UNCHANGED <<mutexVars, program, out, joined, ended, threadsReached, oneNext, twoNext>>
LoopEnds(t, place, to) ==
  /\ In(t, "q2", place) /\ k[t] = N /\ Unlock(t) /\ Goto(t, to)
  /\ k' = [k EXCEPT ![t] = 0]
  /\ UNCHANGED <<program, out, joined, ended, cnt, reg, threadsReached, oneNext, twoNext>>
Q2(t) ==
  \/ Lock(t, "q2", "start", "up")
  \/ Lock(t, "q2", "again", "down")
  \/ Looping(t)
  \/ LoopEnds(t, "up", "again")
  \/ LoopEnds(t, "down", "done")

(* q3: the last of NUM_THREADS to arrive wakes the others, who waited once.     *)
LastToReachM(n) == n = 2
LastToReach(n) == n = 3
Reach(t) ==
  /\ In(t, "q3", "reach")
  /\ threadsReached' = threadsReached + 1
  /\ IF LastToReach(threadsReached + 1) THEN CondBroadcast(t, barrier) ELSE CondWait(t, barrier)
  /\ Goto(t, "leave")
  /\ UNCHANGED <<program, out, joined, ended, cnt, reg, k, oneNext, twoNext>>
Q3(t) ==
  \/ At(t, "q3", "start") /\ Say(t, "a", "lock")
  \/ Lock(t, "q3", "lock", "reach")
  \/ Reach(t)
  \/ Leave(t, "q3", "leave", "b")
  \/ At(t, "q3", "b") /\ Say(t, "b", "done")

(* q4: zero lets one go, and one two; a thread waits if it is not its turn yet. *)
LetOneGoM ==
  /\ In(t0, "q4", "signal")
  /\ CondSignal(t0, oneCanGo) /\ Goto(t0, "leave")
  /\ UNCHANGED <<program, out, joined, ended, cnt, reg, k, threadsReached, oneNext, twoNext>>
LetOneGo ==
  /\ In(t0, "q4", "signal")
  /\ oneNext' = TRUE /\ CondSignal(t0, oneCanGo) /\ Goto(t0, "leave")
  /\ UNCHANGED <<program, out, joined, ended, cnt, reg, k, threadsReached, twoNext>>
LetTwoGo ==
  /\ In(t1, "q4", "signal")
  /\ twoNext' = TRUE /\ CondSignal(t1, twoCanGo) /\ Goto(t1, "leave")
  /\ UNCHANGED <<program, out, joined, ended, cnt, reg, k, threadsReached, oneNext>>
Await(t, turn, c) ==
  /\ In(t, "q4", "await")
  /\ IF turn THEN UNCHANGED mutexVars ELSE CondWait(t, c)
  /\ Goto(t, "go")
  /\ UNCHANGED <<program, out, joined, ended, cnt, reg, k, threadsReached, oneNext, twoNext>>
Q4Zero ==
  \/ At(t0, "q4", "start") /\ Say(t0, "zero", "lock")
  \/ Lock(t0, "q4", "lock", "signal")
  \/ LetOneGo
  \/ Leave(t0, "q4", "leave", "done")
Q4One ==
  \/ Lock(t1, "q4", "start", "await")
  \/ Await(t1, oneNext, oneCanGo)
  \/ In(t1, "q4", "go") /\ Say(t1, "one", "signal")
  \/ LetTwoGo
  \/ Leave(t1, "q4", "leave", "done")
Q4Two ==
  \/ Lock(t2, "q4", "start", "await")
  \/ Await(t2, twoNext, twoCanGo)
  \/ Leave(t2, "q4", "go", "print")
  \/ At(t2, "q4", "print") /\ Say(t2, "two", "done")

(* main joins t2 alone in q1, and all in turn elsewhere, prints and returns.    *)
Joins == IF program = "q1" THEN <<t2>> ELSE <<t0, t1, t2>>
Join ==
  /\ ~ended /\ joined < Len(Joins) /\ pc[Joins[joined + 1]] = "done"
  /\ joined' = joined + 1
  /\ UNCHANGED <<mutexVars, program, pc, out, ended, cnt, reg, k, threadsReached, oneNext, twoNext>>
Finish ==
  /\ ~ended /\ joined = Len(Joins)
  /\ joined' = joined + 1
  /\ out' = CASE program \in {"q1", "q4"} -> Append(out, "three")
              [] program = "q2" -> Append(out, ToString(cnt))
              [] program = "q3" -> Append(out, "------")
  /\ UNCHANGED <<mutexVars, program, pc, ended, cnt, reg, k, threadsReached, oneNext, twoNext>>
Return ==
  /\ ~ended /\ joined > Len(Joins)
  /\ ended' = TRUE
  /\ UNCHANGED <<mutexVars, program, pc, out, joined, cnt, reg, k, threadsReached, oneNext, twoNext>>
Main == Join \/ Finish \/ Return

Step(t) ==
  \/ Acquire(t)
  \/ Q1(t)
  \/ Q2(t)
  \/ Q3(t)
  \/ t = t0 /\ Q4Zero
  \/ t = t1 /\ Q4One
  \/ t = t2 /\ Q4Two

Next == Main \/ \E t \in Thread : Step(t)

Spec == Init /\ [][Next]_vars

(* Threads that can run do, and so does main. *)
FairSpec == Spec /\ WF_vars(Main) /\ \A t \in Thread : WF_vars(Step(t))
---------------------------------------------------------------------------
Before(a, b) == \A i \in DOMAIN out : out[i] = b => \E j \in 1 .. i - 1 : out[j] = a

(* The order of the output: in q1 three comes after two, and q2 counts back to   *)
(* zero; in q3 no b comes before the last a, although the barrier waits in an if *)
(* and does not look again; q4 counts from zero to three.                        *)
OutputRight ==
  CASE program = "q1" -> Before("two", "three")
    [] program = "q2" -> ended => out = <<ToString(0)>>
    [] program = "q3" -> \A i, j \in DOMAIN out : out[i] = "a" /\ out[j] = "b" => i < j
    [] program = "q4" -> IsPrefix(out, <<"zero", "one", "two", "three">>)

(* Every program ends: the barrier opens for all, and no signal of q4 is lost,   *)
(* because what it announces is remembered.                                      *)
AllJoined == <>ended
=============================================================================
