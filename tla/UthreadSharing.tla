--------------------------- MODULE UthreadSharing ---------------------------
(***************************************************************************)
(* Why threads are shared soundly between pthreads: the inductive invariant *)
(* that Uthread_proofs proves of Uthread, named part by named part.         *)
(*                                                                         *)
(* uthread_start may be called while the thread it starts is still on its   *)
(* way into the switch; the pthread that picks it up then waits for it at   *)
(* the spin on state (StillRunning).  The spin covers the way in, up to the *)
(* store of the state, and nothing after it: if the thread stopped by a     *)
(* yield or by its exit, the pthread it left still has the state to read    *)
(* and, after a yield, queues it a second time.  ParkersOnlyPark says where *)
(* that cannot matter.                                                     *)
(***************************************************************************)
EXTENDS Uthread, ThreadQueue

\* The threads that others start: those that block or join.  On one pthread
\* whoever they wait for runs only once they are switched off, and none needs
\* to be singled out.
Parks == IF Proc = {Boot} THEN {}
         ELSE {t \in Thread : Ops[t] \cap {"block", "join"} # {}}

\* A thread that blocks or joins never yields, nor exits unless its end is
\* that of the process.  One pthread meets this with any programs; several
\* meet it where one thread forks and joins the others.
ParkersOnlyPark ==
  \A t \in Parks : /\ "yield" \notin Ops[t]
                   /\ "exit" \in Ops[t] => t = Main

-----------------------------------------------------------------------------
(* What the invariant speaks of.                                           *)

Ended == {"DYING", "DEAD"}
Stopping == {"deq", "switch", "off"}          \* from uthread_stop on
After == {"post", "reap", "post2", "requeue"} \* the far side of the switch

\* at, without the stages of an idle pthread's sleep: a signal changes at
\* and leaves place alone.
place == [t \in TCB |-> IF at[t] \in {"sleep", "asleep", "woken"}
                        THEN "idle" ELSE at[t]]

Queued(t) == t \in Elems(ready)

\* Pthread p has chosen t and is on the way to its stack.
GoesTo(p, t) ==
  \/ cur[p] = NoThread /\ regs[p].to = t
  \/ cur[p] # NoThread /\ place[cur[p]] = "switch" /\ peer[cur[p]] = t

\* Pthread p has left the stack of t and still has its state to look at.
ComesFrom(p, t) ==
  \/ cur[p] = NoThread /\ regs[p].from = t
  \/ cur[p] # NoThread /\ place[cur[p]] \in After /\ peer[cur[p]] = t

Ready(t) == Queued(t) \/ \E p \in Proc : GoesTo(p, t)

\* A thread that has not ended has t for its joiner.
JoinWaits(t) == \E u \in Thread : joiner[u] = t /\ state[u] \notin Ended

\* Someone has yet to start t.
Pending(t) == t \in waiting \/ JoinWaits(t)

\* t holds its turn to be joined or detached, from the test of joiner on.
Claiming(t) == \/ place[t] \in {"join", "joined", "detach"}
               \/ call[t] = "join" /\ place[t] # "user"

-----------------------------------------------------------------------------
(* The invariant.                                                          *)

\* Each thread off its stack is off every pthread, each thread on its stack
\* is on one, and a pthread_base is on none but its own.
Stacks ==
  /\ \A p, q \in Proc : cur[p] # NoThread /\ cur[p] = cur[q] => p = q
  /\ \A p \in Proc : cur[p] # NoThread => place[cur[p]] # "off"
  /\ \A t \in TCB : place[t] # "off" => \E p \in Proc : cur[p] = t
  /\ \A p, q \in Proc : cur[p] = q => p = q

\* A thread stops only by a call its code makes.
CallOK(t) ==
  /\ call[t] = "yield" => t \in Thread /\ "yield" \in Ops[t]
  /\ call[t] = "block" => t \in Proc \/ "block" \in Ops[t]
  /\ call[t] = "join" => t \in Thread /\ "join" \in Ops[t]
  /\ call[t] = "exit" => t \in Thread \ {Main} /\ "exit" \in Ops[t]
  /\ place[t] = "join" => t \in Thread /\ "join" \in Ops[t]

CallsOK == \A t \in TCB : CallOK(t)

\* What a thread's state says of the place of its stack: RUNNING until the
\* switch has saved it, DEAD only afterwards.
StateOK(t) ==
  /\ state[t] \in Ended <=> call[t] = "exit"
  /\ state[t] = "RUNABLE" => call[t] = "yield"
  /\ place[t] \in {"user", "join", "joined", "detach", "idle"}
       => state[t] = "RUNNING"
  /\ place[t] = "idle" => t \in Proc
  /\ place[t] \in {"deq", "switch"} => state[t] = "RUNNING" \/ call[t] = "exit"
  /\ call[t] = "exit" => place[t] \in Stopping
  /\ state[t] = "DEAD" => place[t] = "off"
  /\ place[t] # "off" => heap[t] = "live"
  /\ heap[t] = "freed" => call[t] = "exit"
  /\ heap[t] = "none" => t \in Thread /\ call[t] = "start"

StatesOK == \A t \in TCB : StateOK(t)

\* t may be handed out: nobody is to start it again, it is off its stack or
\* on the way off through a block or a join, and unless that is how it stops,
\* no pthread will requeue or reap it.
Startable(t) ==
  /\ heap[t] = "live" /\ call[t] # "exit"
  /\ ~Pending(t)
  /\ place[t] = "off" \/ (t \in Parks /\ place[t] \in {"deq", "switch"})
  /\ t \in Parks \/ \A q \in Proc : ~ComesFrom(q, t)

\* What is queued, or chosen, is startable and is so in one place only.
QueueOK ==
  /\ Once(ready)
  /\ \A t \in TCB : Queued(t) => t \in Thread /\ Startable(t)

GoesOK ==
  \A p \in Proc, t \in TCB : GoesTo(p, t) =>
    /\ t \in Proc => t = p
    /\ Startable(t)
    /\ ~Queued(t)
    /\ \A q \in Proc : GoesTo(q, t) => q = p

\* The thread a pthread comes from still exists; if it may yield or exit it
\* is off its stack, and only one pthread has its state to look at.
ComesOK ==
  \A p \in Proc, t \in TCB : ComesFrom(p, t) =>
    /\ t \in Proc => t = p
    /\ heap[t] = "live"
    /\ state[t] # "DEAD"
    /\ t \notin Parks => /\ place[t] = "off"
                         /\ \A q \in Proc : ComesFrom(q, t) => q = p

\* Whoever is to be started has at least begun to stop.
WaitsOK ==
  /\ \A t \in waiting :
       call[t] = "block" /\ place[t] \in Stopping /\ heap[t] = "live"
  /\ \A u \in Thread, t \in Thread : joiner[u] = t /\ state[u] \notin Ended =>
       /\ call[t] = "join" /\ arg[t] = u
       /\ place[t] \in Stopping /\ heap[t] = "live"

\* What ReadDying and ReadRunable found is still so when it is acted on.
PhasesOK ==
  \A p \in Proc : cur[p] # NoThread =>
    /\ place[cur[p]] = "reap" => state[peer[cur[p]]] = "DYING"
    /\ place[cur[p]] = "requeue" => state[peer[cur[p]]] = "RUNABLE"

\* The thread a join or a detach is about is its caller's alone to free.
ClaimsOK ==
  /\ \A t \in TCB : Claiming(t) => /\ arg[t] \in claimed
                                   /\ heap[arg[t]] = "live"
                                   /\ joiner[arg[t]] # Detached
  /\ \A t, u \in TCB : Claiming(t) /\ Claiming(u) /\ arg[t] = arg[u] => t = u
  /\ \A u \in Thread \ claimed : joiner[u] = NoThread /\ heap[u] # "freed"

\* A joiner waits for an exit to start it or has been started by one.
ReturnsOK ==
  \A t \in TCB :
    /\ place[t] = "joined" => state[arg[t]] \in Ended
    /\ call[t] = "join" /\ (place[t] \in After \cup {"resume"} \/ Ready(t))
         => state[arg[t]] \in Ended
    /\ call[t] = "join" /\ place[t] \in Stopping => JoinWaits(t) \/ Ready(t)

SInv ==
  /\ Stacks /\ CallsOK /\ StatesOK /\ QueueOK /\ GoesOK /\ ComesOK
  /\ WaitsOK /\ PhasesOK /\ ClaimsOK /\ ReturnsOK
=============================================================================
