------------------------------ MODULE Uthread ------------------------------
(***************************************************************************)
(* The thread package of uthreads/uthread.c: user-level threads multiplexed *)
(* over a fixed set of pthreads ("processors").                            *)
(*                                                                         *)
(* A processor p executes the stack of thread cur[p], or none while it is  *)
(* between two stacks; at[t] is the place the stack of t has reached.  A   *)
(* thread id is either an application thread or a processor: processor p,  *)
(* used as a thread, is its own pthread_base, the thread it runs when it   *)
(* finds nothing else.                                                     *)
(*                                                                         *)
(* Every critical section of ready_queue_spinlock and of a join_spinlock   *)
(* is one step.  pthread_mutex is modelled, because its holder gives       *)
(* ready_queue_spinlock up before it goes to sleep.  The unlocked reads of *)
(* state and joiner, the switch of stacks and the store of the state are   *)
(* steps of their own.                                                     *)
(*                                                                         *)
(* An operator whose name ends in M is a mutant of the definition that     *)
(* follows it, a bug the code might have had: see the README.              *)
(***************************************************************************)
EXTENDS Naturals, Sequences, FiniteSets

CONSTANTS
  Proc,      \* the pthreads (num_processors of them)
  Boot,      \* the pthread that called uthread_init
  Thread,    \* the application threads that may exist
  Main,      \* base_thread, the one that runs main
  Ops,       \* Ops[t]: the package calls the code of thread t makes
  NoThread,  \* the null uthread_t
  Detached,  \* (uthread_t) -1, as a value of joiner
  NoProc     \* nobody: pthread_mutex is free

ASSUME UthreadAssumption ==
  /\ IsFiniteSet(Proc) /\ Boot \in Proc
  /\ Main \in Thread
  /\ Thread \cap Proc = {}
  /\ {NoThread, Detached} \cap (Thread \cup Proc) = {}
  /\ NoThread # Detached
  /\ NoProc \notin Proc
  /\ Ops \in [Thread -> SUBSET {"create", "yield", "block", "unblock",
                                "join", "detach", "exit"}]

TCB == Thread \cup Proc

VARIABLES
  state,    \* TCB.state
  joiner,   \* TCB.joiner
  heap,     \* whether the TCB and its stack are allocated
  ready,    \* the ready queue
  pmutex,   \* the pthread that holds pthread_mutex
  cur,      \* the thread whose stack each pthread is on
  regs,     \* from_thread and to_thread, in registers, between two stacks
  at,       \* where each thread's stack is
  call,     \* the call by which the thread last left the processor
  peer,     \* to_thread before the switch of stacks, from_thread after it
  arg,      \* the thread a join or a detach is about
  waiting,  \* threads some client has queued, to be unblocked once
  claimed,  \* threads on which join or detach has been called
  exited    \* main has returned, and the process with it

vars == <<state, joiner, heap, ready, pmutex, cur, regs, at, call, peer, arg,
          waiting, claimed, exited>>

-----------------------------------------------------------------------------
TS == {"NASCENT", "RUNNING", "RUNABLE", "BLOCKED", "DYING", "DEAD"}

Places ==
  {"off",        \* not executing: saved inside uthread_switch, or not begun
   "user",       \* the thread's own code
   "join", "joined", "detach",        \* about to lock the join_spinlock
   "deq", "sleep", "asleep", "woken", \* in ready_queue_dequeue
   "switch",                          \* uthread_switch, on the old stack
   "post", "reap", "post2", "requeue", "resume"} \* ... on the new stack

\* The state a thread leaves behind, by the call through which it stops.
StopState(c) == CASE c = "yield" -> "RUNABLE"
                  [] c = "exit"  -> "DYING"
                  [] OTHER       -> "BLOCKED"

Contains(q, t) == \E i \in DOMAIN q : q[i] = t

\* pthreads in pthread_cond_wait that no signal has reached.
Asleep == {p \in Proc : at[p] = "asleep"}

\* pthread_num_sleeping: a signalled pthread counts until it has the mutex.
numSleeping == Cardinality({p \in Proc : at[p] \in {"asleep", "woken"}})

TypeOK ==
  /\ state \in [TCB -> TS]
  /\ joiner \in [TCB -> Thread \cup {NoThread, Detached}]
  /\ heap \in [TCB -> {"none", "live", "freed"}]
  /\ ready \in Seq(TCB)
  /\ pmutex \in Proc \cup {NoProc}
  /\ cur \in [Proc -> TCB \cup {NoThread}]
  /\ regs \in [Proc -> [from : TCB \cup {NoThread}, to : TCB \cup {NoThread}]]
  /\ at \in [TCB -> Places]
  /\ call \in [TCB -> {"start", "yield", "block", "join", "exit"}]
  /\ peer \in [TCB -> TCB \cup {NoThread}]
  /\ arg \in [TCB -> Thread \cup {NoThread}]
  /\ waiting \subseteq Thread
  /\ claimed \subseteq Thread
  /\ exited \in BOOLEAN

\* The state uthread_init leaves behind.  The caller is Main; its own
\* pthread's pthread_base has never run, the others' have just begun.
Init ==
  /\ state = [t \in TCB |-> IF t = Main \/ t \in Proc \ {Boot}
                            THEN "RUNNING" ELSE "NASCENT"]
  /\ joiner = [t \in TCB |-> NoThread]
  /\ heap = [t \in TCB |-> IF t \in Thread \ {Main} THEN "none" ELSE "live"]
  /\ ready = <<>>
  /\ pmutex = NoProc
  /\ cur = [p \in Proc |-> IF p = Boot THEN Main ELSE p]
  /\ regs = [p \in Proc |-> [from |-> NoThread, to |-> NoThread]]
  /\ at = [t \in TCB |-> IF t = Main \/ t \in Proc \ {Boot}
                         THEN "user" ELSE "off"]
  /\ call = [t \in TCB |-> "start"]
  /\ peer = [t \in TCB |-> NoThread]
  /\ arg = [t \in TCB |-> NoThread]
  /\ waiting = {}
  /\ claimed = {}
  /\ exited = FALSE

-----------------------------------------------------------------------------
(* The ready queue.                                                        *)

EnqueueFirstM(q, t) == IF Contains(q, t) THEN q ELSE <<t>> \o q

\* uthread_enqueue does nothing with a thread that is already queued.
Enqueue(q, t) == IF Contains(q, t) THEN q ELSE Append(q, t)

\* The effect on the sleepers of pthread_cond_signal(&pthread_wakeup);
\* there is no one to signal when nobody sleeps.
SignalWakeup(at0) ==
  IF numSleeping > 0 /\ Asleep # {}
  THEN \E s \in Asleep : at' = [at0 EXCEPT ![s] = "woken"]
  ELSE at' = at0

ReadyEnqueueUnlockedM(t, at0) ==
  /\ ready' = Enqueue(ready, t)
  /\ SignalWakeup(at0)

\* ready_queue_enqueue(t) by a thread that is then at the places at0.
ReadyEnqueue(t, at0) ==
  /\ pmutex = NoProc
  /\ ready' = Enqueue(ready, t)
  /\ SignalWakeup(at0)

\* p executes a step of the thread it is on, from place a.
On(p, a) == ~exited /\ cur[p] # NoThread /\ at[cur[p]] = a

Goto(p, b) == at' = [at EXCEPT ![cur[p]] = b]

\* The thread on p calls uthread_stop by way of call c.
Stop(p, c) ==
  /\ Goto(p, "deq")
  /\ call' = [call EXCEPT ![cur[p]] = c]

DequeueThread(p) ==
  /\ On(p, "deq")
  /\ ready # <<>>
  /\ ready' = Tail(ready)
  /\ peer' = [peer EXCEPT ![cur[p]] = Head(ready)]
  /\ Goto(p, "switch")
  /\ UNCHANGED <<state, joiner, heap, pmutex, cur, regs, call, arg, waiting,
                 claimed, exited>>

\* The queue is empty: the pthread's own base thread runs next.
DequeueBase(p) ==
  /\ On(p, "deq")
  /\ ready = <<>>
  /\ cur[p] # p
  /\ peer' = [peer EXCEPT ![cur[p]] = p]
  /\ Goto(p, "switch")
  /\ UNCHANGED <<state, joiner, heap, ready, pmutex, cur, regs, call, arg,
                 waiting, claimed, exited>>

\* ... unless it is the one running.  pthread_mutex is taken before
\* ready_queue_spinlock is released.
DequeueNothing(p) ==
  /\ On(p, "deq")
  /\ ready = <<>>
  /\ cur[p] = p
  /\ pmutex = NoProc
  /\ pmutex' = p
  /\ Goto(p, "sleep")
  /\ UNCHANGED <<state, joiner, heap, ready, cur, regs, call, peer, arg,
                 waiting, claimed, exited>>

\* pthread_cond_wait releases pthread_mutex and waits, in one step.
SleepOnWakeup(p) ==
  /\ On(p, "sleep")
  /\ pmutex' = NoProc
  /\ Goto(p, "asleep")
  /\ UNCHANGED <<state, joiner, heap, ready, cur, regs, call, peer, arg,
                 waiting, claimed, exited>>

\* POSIX lets pthread_cond_wait return without a signal.
SpuriousWakeup(p) ==
  /\ On(p, "asleep")
  /\ Goto(p, "woken")
  /\ UNCHANGED <<state, joiner, heap, ready, pmutex, cur, regs, call, peer,
                 arg, waiting, claimed, exited>>

\* pthread_cond_wait returns with pthread_mutex, which is released at once.
WakeUp(p) ==
  /\ On(p, "woken")
  /\ pmutex = NoProc
  /\ Goto(p, "deq")
  /\ UNCHANGED <<state, joiner, heap, ready, pmutex, cur, regs, call, peer,
                 arg, waiting, claimed, exited>>

-----------------------------------------------------------------------------
(* uthread_switch.                                                         *)

\* Save the registers and the stack pointer, then store the state of the
\* thread that leaves.  From here on the pthread uses only its registers.
SetFromState(p) ==
  LET from == cur[p]
  IN /\ On(p, "switch")
     /\ state' = [state EXCEPT ![from] = StopState(call[from])]
     /\ regs' = [regs EXCEPT ![p] = [from |-> from, to |-> peer[from]]]
     /\ cur' = [cur EXCEPT ![p] = NoThread]
     /\ at' = [at EXCEPT ![from] = "off"]
     /\ UNCHANGED <<joiner, heap, ready, pmutex, call, peer, arg, waiting,
                    claimed, exited>>

StillRunningM(t) == FALSE

\* to_thread has not stopped yet: the switch spins.
StillRunning(t) == state[t] = "RUNNING"

\* Wait while to_thread is still running, then go over to its stack, where
\* from_thread becomes the thread this pthread comes from.
SwitchStack(p) ==
  LET to == regs[p].to
  IN /\ ~exited
     /\ cur[p] = NoThread
     /\ ~StillRunning(to)
     /\ cur' = [cur EXCEPT ![p] = to]
     /\ at' = [at EXCEPT ![to] = "post"]
     /\ peer' = [peer EXCEPT ![to] = regs[p].from]
     /\ UNCHANGED <<state, joiner, heap, ready, pmutex, regs, call, arg,
                    waiting, claimed, exited>>

ReadDying(p) ==
  /\ On(p, "post")
  /\ Goto(p, IF state[peer[cur[p]]] = "DYING" THEN "reap" ELSE "post2")
  /\ UNCHANGED <<state, joiner, heap, ready, pmutex, cur, regs, call, peer,
                 arg, waiting, claimed, exited>>

OrphanNeverM(u) == FALSE

\* No one will come for the thread any more.
Orphan(u) == joiner[u] = Detached

\* Under from_thread's join_spinlock: free it, or leave it to its joiner.
Reap(p) ==
  LET from == peer[cur[p]]
  IN /\ On(p, "reap")
     /\ IF Orphan(from)
        THEN /\ heap' = [heap EXCEPT ![from] = "freed"]
             /\ UNCHANGED state
        ELSE /\ state' = [state EXCEPT ![from] = "DEAD"]
             /\ UNCHANGED heap
     /\ Goto(p, "resume")
     /\ UNCHANGED <<joiner, ready, pmutex, cur, regs, call, peer, arg,
                    waiting, claimed, exited>>

StoppedRunableM(t) == state[t] \in {"RUNABLE", "BLOCKED"}

StoppedRunable(t) == state[t] = "RUNABLE"

ReadRunable(p) ==
  /\ On(p, "post2")
  /\ Goto(p, IF StoppedRunable(peer[cur[p]]) THEN "requeue" ELSE "resume")
  /\ UNCHANGED <<state, joiner, heap, ready, pmutex, cur, regs, call, peer,
                 arg, waiting, claimed, exited>>

Requeue(p) ==
  /\ On(p, "requeue")
  /\ ReadyEnqueue(peer[cur[p]], [at EXCEPT ![cur[p]] = "resume"])
  /\ UNCHANGED <<state, joiner, heap, pmutex, cur, regs, call, peer, arg,
                 waiting, claimed, exited>>

\* The thread is RUNNING: it begins its procedure, or returns to the call by
\* which it stopped.
Resume(p) ==
  /\ On(p, "resume")
  /\ state' = [state EXCEPT ![cur[p]] = "RUNNING"]
  /\ Goto(p, IF call[cur[p]] = "join" THEN "joined" ELSE "user")
  /\ UNCHANGED <<joiner, heap, ready, pmutex, cur, regs, call, peer, arg,
                 waiting, claimed, exited>>

\* The loop of pthread_base.
PthreadBase(p) ==
  /\ On(p, "user")
  /\ cur[p] = p
  /\ Stop(p, "block")
  /\ UNCHANGED <<state, joiner, heap, ready, pmutex, cur, regs, peer, arg,
                 waiting, claimed, exited>>

-----------------------------------------------------------------------------
(* The calls an application thread makes.                                  *)

\* The application code of p's thread calls op.
Calls(p, op) == On(p, "user") /\ cur[p] \in Thread /\ op \in Ops[cur[p]]

Create(p, u) ==
  /\ Calls(p, "create")
  /\ heap[u] = "none"
  /\ heap' = [heap EXCEPT ![u] = "live"]
  /\ ReadyEnqueue(u, at)
  /\ UNCHANGED <<state, joiner, pmutex, cur, regs, call, peer, arg, waiting,
                 claimed, exited>>

YieldQueuedM(p) ==
  /\ Calls(p, "yield")
  /\ ReadyEnqueue(cur[p], [at EXCEPT ![cur[p]] = "deq"])
  /\ call' = [call EXCEPT ![cur[p]] = "yield"]
  /\ UNCHANGED <<state, joiner, heap, pmutex, cur, regs, peer, arg, waiting,
                 claimed, exited>>

Yield(p) ==
  /\ Calls(p, "yield")
  /\ Stop(p, "yield")
  /\ UNCHANGED <<state, joiner, heap, ready, pmutex, cur, regs, peer, arg,
                 waiting, claimed, exited>>

\* A client queues the thread where others will find it, then blocks it.
Block(p) ==
  /\ Calls(p, "block")
  /\ waiting' = waiting \cup {cur[p]}
  /\ Stop(p, "block")
  /\ UNCHANGED <<state, joiner, heap, ready, pmutex, cur, regs, peer, arg,
                 claimed, exited>>

\* A client takes a thread from its queue and unblocks it; that thread may
\* not have stopped yet.
Unblock(p, u) ==
  /\ Calls(p, "unblock")
  /\ u \in waiting
  /\ waiting' = waiting \ {u}
  /\ ReadyEnqueue(u, at)
  /\ UNCHANGED <<state, joiner, heap, pmutex, cur, regs, call, peer, arg,
                 claimed, exited>>

\* Clients call join or detach at most once for each thread.  The test of
\* joiner is made without the lock; if it fails the call returns.
Claim(p, u, place) ==
  /\ heap[u] # "none"
  /\ u \notin claimed
  /\ claimed' = claimed \cup {u}
  /\ IF joiner[u] = NoThread
     THEN /\ Goto(p, place)
          /\ arg' = [arg EXCEPT ![cur[p]] = u]
     ELSE UNCHANGED <<at, arg>>

JoinCall(p, u) ==
  /\ Calls(p, "join")
  /\ u # cur[p]
  /\ Claim(p, u, "join")
  /\ UNCHANGED <<state, joiner, heap, ready, pmutex, cur, regs, call, peer,
                 waiting, exited>>

\* The thread to be joined has not returned yet.
MustWait(u) == state[u] \notin {"DYING", "DEAD"}

\* Under the join_spinlock: become the joiner and stop, or go straight on.
Join(p) ==
  LET u == arg[cur[p]]
  IN /\ On(p, "join")
     /\ IF MustWait(u)
        THEN /\ joiner' = [joiner EXCEPT ![u] = cur[p]]
             /\ Stop(p, "join")
        ELSE /\ Goto(p, "joined")
             /\ UNCHANGED <<joiner, call>>
     /\ UNCHANGED <<state, heap, ready, pmutex, cur, regs, peer, arg,
                    waiting, claimed, exited>>

SwitchedOffM(u) == state[u] \in {"DYING", "DEAD"}

\* The switch away from the thread is over, so its stack is not in use.
SwitchedOff(u) == state[u] = "DEAD"

\* Take the return value, then free the thread or leave that to Reap.
Joined(p) ==
  LET u == arg[cur[p]]
  IN /\ On(p, "joined")
     /\ IF SwitchedOff(u)
        THEN /\ heap' = [heap EXCEPT ![u] = "freed"]
             /\ UNCHANGED joiner
        ELSE /\ joiner' = [joiner EXCEPT ![u] = Detached]
             /\ UNCHANGED heap
     /\ Goto(p, "user")
     /\ UNCHANGED <<state, ready, pmutex, cur, regs, call, peer, arg,
                    waiting, claimed, exited>>

DetachCall(p, u) ==
  /\ Calls(p, "detach")
  /\ Claim(p, u, "detach")
  /\ UNCHANGED <<state, joiner, heap, ready, pmutex, cur, regs, call, peer,
                 waiting, exited>>

Detach(p) ==
  LET u == arg[cur[p]]
  IN /\ On(p, "detach")
     /\ IF ~SwitchedOff(u)
        THEN /\ joiner' = [joiner EXCEPT ![u] = Detached]
             /\ UNCHANGED heap
        ELSE /\ heap' = [heap EXCEPT ![u] = "freed"]
             /\ UNCHANGED joiner
     /\ Goto(p, "user")
     /\ UNCHANGED <<state, ready, pmutex, cur, regs, call, peer, arg,
                    waiting, claimed, exited>>

HasJoinerNeverM(u) == FALSE

HasJoiner(u) == joiner[u] \notin {NoThread, Detached}

\* start_proc returns.  Under its own join_spinlock the thread becomes
\* DYING and starts its joiner; then it stops for good.
Exit(p) ==
  /\ Calls(p, "exit")
  /\ cur[p] # Main
  /\ state' = [state EXCEPT ![cur[p]] = "DYING"]
  /\ call' = [call EXCEPT ![cur[p]] = "exit"]
  /\ IF HasJoiner(cur[p])
     THEN ReadyEnqueue(joiner[cur[p]], [at EXCEPT ![cur[p]] = "deq"])
     ELSE Goto(p, "deq") /\ UNCHANGED ready
  /\ UNCHANGED <<joiner, heap, pmutex, cur, regs, peer, arg, waiting, claimed,
                 exited>>

\* main returns, and the whole process ends.
MainReturn(p) ==
  /\ Calls(p, "exit")
  /\ cur[p] = Main
  /\ exited' = TRUE
  /\ UNCHANGED <<state, joiner, heap, ready, pmutex, cur, regs, at, call,
                 peer, arg, waiting, claimed>>

-----------------------------------------------------------------------------
\* A step pthread p takes of its own accord, all but SpuriousWakeup.
Step(p) ==
  \/ DequeueThread(p) \/ DequeueBase(p) \/ DequeueNothing(p)
  \/ SleepOnWakeup(p) \/ WakeUp(p)
  \/ SetFromState(p) \/ SwitchStack(p)
  \/ ReadDying(p) \/ Reap(p) \/ ReadRunable(p) \/ Requeue(p) \/ Resume(p)
  \/ PthreadBase(p)
  \/ Yield(p) \/ Block(p) \/ Join(p) \/ Joined(p) \/ Detach(p)
  \/ Exit(p) \/ MainReturn(p)
  \/ \E u \in Thread : \/ Create(p, u) \/ Unblock(p, u)
                       \/ JoinCall(p, u) \/ DetachCall(p, u)

Next == \E p \in Proc : Step(p) \/ SpuriousWakeup(p)

Spec == Init /\ [][Next]_vars

\* The operating system runs every pthread, and a pthread that keeps finding
\* a spinlock or pthread_mutex free gets it in the end, hence strong fairness;
\* a thread that has something left to call eventually calls it.
FairSpec == Spec /\ \A p \in Proc : SF_vars(Step(p))

-----------------------------------------------------------------------------
(* Properties.                                                             *)

\* The thread pthread p has chosen and is about to switch to, if any.
Chosen(p) ==
  IF cur[p] = NoThread THEN {regs[p].to}
  ELSE {t \in {peer[cur[p]]} : at[cur[p]] = "switch"}

\* The thread on p executes its own code, or the package's on its behalf.
Executes(p) == cur[p] # NoThread /\ at[cur[p]] \in {"user", "joined"}

\* uthread_start relies on the switch to "wait for it to stop before
\* re-starting it" (uthread.c:583-586): no two pthreads are ever on one stack.
OneProcessorPerStack ==
  \A p, q \in Proc : p # q /\ cur[p] # NoThread => cur[p] # cur[q]

\* A thread is handed out once for each time it was made ready: it is never
\* queued and chosen at once, nor chosen by two pthreads, nor either of them
\* while it executes its own code; and no pthread_base is ever queued.
DispatchedOnce ==
  /\ \A p \in Proc : ~Contains(ready, p)
  /\ \A p, q \in Proc : p # q => Chosen(p) \cap Chosen(q) = {}
  /\ \A p \in Proc : \A t \in Chosen(p) : ~Contains(ready, t)
  /\ \A p, q \in Proc : Executes(q) =>
       cur[q] \notin Chosen(p) /\ ~Contains(ready, cur[q])

\* The TCBs a step of the thread on p may read or write through a pointer.
Touches(p) ==
  IF cur[p] = NoThread THEN {regs[p].to}
  ELSE {cur[p]} \cup
       CASE at[cur[p]] \in {"switch", "post", "reap", "post2", "requeue"}
              -> {peer[cur[p]]}
         [] at[cur[p]] \in {"join", "joined", "detach"} -> {arg[cur[p]]}
         [] OTHER -> {}

\* No pthread is on a freed stack, and none is about to use a freed TCB, its
\* own, one that is queued, or one it holds a pointer to; so nothing is freed
\* twice (uthread.c:549-551, 598-602, 661-662, 682-683).
NoUseAfterFree ==
  /\ \A p \in Proc : \A t \in Touches(p) : heap[t] # "freed"
  /\ \A i \in DOMAIN ready : heap[ready[i]] # "freed"

\* While a pthread sleeps unsignalled there is a pthread awake and idle for
\* each ready thread: no wakeup is lost between the test of the queue and
\* pthread_cond_wait (uthread.c:217-228, 194-205).
NoLostWakeup ==
  Asleep # {} =>
    Len(ready) <= Cardinality({p \in Proc : /\ cur[p] = p
                                            /\ at[p] \in {"woken", "deq"}})

\* A thread that stopped in uthread_join has a thread that will start it, or
\* has been started: the exit of the joined thread is not missed between the
\* unlocked test, the lock and the stop (uthread.c:652-659, 560-564).
JoinerNotLost ==
  \A t \in Thread :
    call[t] = "join" /\ at[t] \in {"deq", "switch", "off"} =>
      \/ joiner[arg[t]] = t /\ state[arg[t]] \notin {"DYING", "DEAD"}
      \/ Contains(ready, t)
      \/ \E p \in Proc : t \in Chosen(p)

\* uthread_join takes return_val only after the joined thread has stored it,
\* that is once start_proc has returned (uthread.c:660-661, 559-561).
JoinAfterReturn ==
  \A t \in Thread : at[t] = "joined" => state[arg[t]] \in {"DYING", "DEAD"}

\* The join protocol as a whole: exits and joins, which meet through state and
\* joiner, lose no joiner, hand no value over early and free nothing in use.
JoinsSound == NoUseAfterFree /\ JoinerNotLost /\ JoinAfterReturn

\* On one pthread, blocking included, every thread is handed out once for each
\* time it was made ready, and the join protocol is sound.
SoundSharing == DispatchedOnce /\ JoinsSound

\* A ready thread is run, unless main returns first: the package is fair to
\* threads that all keep yielding, blocking or exiting.
ReadyRuns ==
  \A t \in Thread : Contains(ready, t) ~> (exited \/ \E p \in Proc : cur[p] = t)

\* The exit of a thread lets its joiner go on.
JoinReturns ==
  \A t \in Thread :
    (call[t] = "join" /\ at[t] = "off" /\ state[arg[t]] = "DYING")
      ~> (exited \/ at[t] = "user")

\* A thread that has exited and was joined or detached is freed in the end,
\* by the switch or by whoever called join or detach, whoever comes last.
Reclaimed ==
  \A u \in Thread :
    (u \in claimed /\ state[u] \in {"DYING", "DEAD"})
      ~> (exited \/ heap[u] = "freed")

=============================================================================
