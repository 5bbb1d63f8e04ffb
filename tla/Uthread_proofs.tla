--------------------------- MODULE Uthread_proofs ---------------------------
(***************************************************************************)
(* Proofs about Uthread, for any processors, threads and programs: first   *)
(* that the variables keep their types, then that UthreadSharing's         *)
(* invariant holds, for any number of pthreads, and what follows from it.  *)
(***************************************************************************)
EXTENDS UthreadSharing, Lemmas

Switching == {"switch", "post", "reap", "post2", "requeue"}

\* A pthread_base never calls join, detach or exit, and a switch has a thread
\* to leave and one to go to.
PlacesOK(at0, peer0) ==
  /\ \A p \in Proc : at0[p] \notin {"join", "joined", "detach"}
  /\ \A t \in TCB : at0[t] \in Switching => peer0[t] \in TCB

TInv ==
  /\ TypeOK
  /\ PlacesOK(at, peer)
  /\ \A p \in Proc : call[p] # "join"
  /\ \A p \in Proc : cur[p] = NoThread => regs[p].from \in TCB /\ regs[p].to \in TCB

-----------------------------------------------------------------------------
LEMMA EnqueueType ==
  ASSUME NEW q \in Seq(TCB), NEW t \in TCB
  PROVE  Enqueue(q, t) \in Seq(TCB)
BY DEF Enqueue

\* A wakeup moves one sleeper, which is a processor.
LEMMA SignalType ==
  ASSUME NEW at0 \in [TCB -> Places], SignalWakeup(at0)
  PROVE  /\ at' \in [TCB -> Places]
         /\ \A t \in TCB : at'[t] = at0[t] \/ at'[t] = "woken"
<1>1. CASE at' = at0
  BY <1>1
<1>2. ASSUME NEW s \in Asleep, at' = [at0 EXCEPT ![s] = "woken"]
      PROVE  /\ at' \in [TCB -> Places]
             /\ \A t \in TCB : at'[t] = at0[t] \/ at'[t] = "woken"
  BY <1>2 DEF Places
<1> QED BY <1>1, <1>2 DEF SignalWakeup

LEMMA ReadyEnqueueType ==
  ASSUME TInv, NEW t \in TCB, NEW at0 \in [TCB -> Places], ReadyEnqueue(t, at0),
         PlacesOK(at0, peer)
  PROVE  ready' \in Seq(TCB) /\ at' \in [TCB -> Places] /\ PlacesOK(at', peer)
<1>1. /\ at' \in [TCB -> Places]
      /\ \A u \in TCB : at'[u] = at0[u] \/ at'[u] = "woken"
  BY SignalType DEF ReadyEnqueue
<1>2. ready' \in Seq(TCB)
  BY EnqueueType DEF ReadyEnqueue, TInv, TypeOK
<1> QED BY <1>1, <1>2 DEF TCB, PlacesOK, Switching

\* A thread moves on to place b.
LEMMA GotoType ==
  ASSUME TInv, NEW p \in Proc, NEW b \in Places, Goto(p, b),
         b \in {"join", "joined", "detach"} => cur[p] \notin Proc,
         b \in Switching => peer[cur[p]] \in TCB
  PROVE  at' \in [TCB -> Places] /\ PlacesOK(at', peer)
BY DEF Goto, TInv, TypeOK, PlacesOK, TCB

-----------------------------------------------------------------------------
LEMMA TInvInit == Init => TInv
<1> SUFFICES ASSUME Init PROVE TInv
  OBVIOUS
<1> USE UthreadAssumption
<1>1. state \in [TCB -> TS] /\ joiner \in [TCB -> Thread \cup {NoThread, Detached}]
  BY DEF Init, TS
<1>2. heap \in [TCB -> {"none", "live", "freed"}] /\ ready \in Seq(TCB)
  BY DEF Init
<1>3. /\ pmutex \in Proc \cup {NoProc}
      /\ cur \in [Proc -> TCB \cup {NoThread}]
      /\ regs \in [Proc -> [from : TCB \cup {NoThread}, to : TCB \cup {NoThread}]]
  BY DEF Init, TCB
<1>4. at \in [TCB -> Places] /\ PlacesOK(at, peer)
  BY DEF Init, Places, PlacesOK, Switching, TCB
<1>5. /\ call \in [TCB -> {"start", "yield", "block", "join", "exit"}]
      /\ peer \in [TCB -> TCB \cup {NoThread}]
      /\ arg \in [TCB -> Thread \cup {NoThread}]
      /\ waiting \subseteq Thread /\ claimed \subseteq Thread /\ exited \in BOOLEAN
  BY DEF Init
<1>6. \A p \in Proc : call[p] # "join" /\ cur[p] # NoThread
  BY DEF Init, TCB
<1> QED BY <1>1, <1>2, <1>3, <1>4, <1>5, <1>6 DEF TInv, TypeOK

\* ready_queue_dequeue and the sleep of an idle pthread.
LEMMA TInvDequeue ==
  ASSUME TInv, NEW p \in Proc,
         \/ DequeueThread(p) \/ DequeueBase(p) \/ DequeueNothing(p)
         \/ SleepOnWakeup(p) \/ SpuriousWakeup(p) \/ WakeUp(p)
  PROVE  TInv'
<1> USE UthreadAssumption DEF Places
<1>1. ASSUME DequeueThread(p) \/ DequeueBase(p) PROVE TInv'
  <2>1. PICK to \in TCB : /\ peer' = [peer EXCEPT ![cur[p]] = to]
                          /\ ready' \in Seq(TCB)
    <3>1. CASE DequeueThread(p)
      <4>1. Head(ready) \in TCB /\ Tail(ready) \in Seq(TCB)
        BY <3>1, EmptySeq, HeadTailProperties DEF DequeueThread, TInv, TypeOK
      <4> QED BY <3>1, <4>1 DEF DequeueThread
    <3>2. CASE DequeueBase(p)
      BY <3>2 DEF DequeueBase, TInv, TypeOK, TCB
    <3> QED BY <1>1, <3>1, <3>2
  <2>2. at' = [at EXCEPT ![cur[p]] = "switch"]
    BY <1>1 DEF DequeueThread, DequeueBase, Goto
  <2>3. /\ peer' \in [TCB -> TCB \cup {NoThread}] /\ at' \in [TCB -> Places]
        /\ PlacesOK(at', peer')
    BY <2>1, <2>2 DEF TInv, TypeOK, PlacesOK, TCB
  <2> QED
    BY <1>1, <2>1, <2>3 DEF DequeueThread, DequeueBase, TInv, TypeOK, PlacesOK
<1>2. ASSUME NEW b \in {"sleep", "asleep", "woken", "deq"}, Goto(p, b),
             pmutex' \in Proc \cup {NoProc},
             UNCHANGED <<state, joiner, heap, ready, cur, regs, call, peer, arg,
                         waiting, claimed, exited>>
      PROVE  TInv'
  <2>1. at' \in [TCB -> Places] /\ PlacesOK(at', peer)
    BY <1>2, GotoType DEF Switching
  <2> QED BY <1>2, <2>1 DEF TInv, TypeOK, PlacesOK
<1>3. pmutex \in Proc \cup {NoProc}
  BY DEF TInv, TypeOK
<1>4. CASE DequeueNothing(p)
  BY <1>2, <1>4 DEF DequeueNothing
<1>5. CASE SleepOnWakeup(p)
  BY <1>2, <1>5 DEF SleepOnWakeup
<1>6. CASE SpuriousWakeup(p)
  BY <1>2, <1>3, <1>6 DEF SpuriousWakeup
<1>7. CASE WakeUp(p)
  BY <1>2, <1>3, <1>7 DEF WakeUp
<1> QED BY <1>1, <1>4, <1>5, <1>6, <1>7

\* uthread_switch.
LEMMA TInvSwitch ==
  ASSUME TInv, NEW p \in Proc,
         \/ SetFromState(p) \/ SwitchStack(p) \/ ReadDying(p) \/ Reap(p)
         \/ ReadRunable(p) \/ Resume(p)
  PROVE  TInv'
<1> USE UthreadAssumption DEF Places
<1>1. CASE SetFromState(p)
  <2>1. cur[p] \in TCB /\ peer[cur[p]] \in TCB
    BY <1>1 DEF SetFromState, On, TInv, TypeOK, PlacesOK, Switching
  <2>2. /\ StopState(call[cur[p]]) \in TS
        /\ state' = [state EXCEPT ![cur[p]] = StopState(call[cur[p]])]
    BY <1>1 DEF SetFromState, StopState, TS
  <2>3. state' \in [TCB -> TS]
    BY <2>2 DEF TInv, TypeOK
  <2>4. regs' = [regs EXCEPT ![p] = [from |-> cur[p], to |-> peer[cur[p]]]]
    BY <1>1 DEF SetFromState
  <2>5. /\ regs' \in [Proc -> [from : TCB \cup {NoThread}, to : TCB \cup {NoThread}]]
        /\ regs'[p].from \in TCB /\ regs'[p].to \in TCB
        /\ \A q \in Proc : q # p => regs'[q] = regs[q]
    BY <2>1, <2>4 DEF TInv, TypeOK
  <2>6. /\ cur' \in [Proc -> TCB \cup {NoThread}]
        /\ \A q \in Proc : q # p => cur'[q] = cur[q]
    BY <1>1 DEF SetFromState, TInv, TypeOK
  <2>7. at' \in [TCB -> Places] /\ PlacesOK(at', peer)
    BY <1>1 DEF SetFromState, TInv, TypeOK, PlacesOK, Switching, TCB
  <2>8. TypeOK'
    BY <1>1, <2>3, <2>5, <2>6, <2>7 DEF SetFromState, TInv, TypeOK
  <2>9. \A q \in Proc : cur'[q] = NoThread => regs'[q].from \in TCB /\ regs'[q].to \in TCB
    BY <2>5, <2>6 DEF TInv
  <2> QED BY <1>1, <2>7, <2>8, <2>9 DEF SetFromState, TInv, PlacesOK
<1>2. CASE SwitchStack(p)
  <2>1. regs[p].to \in TCB /\ regs[p].from \in TCB
    BY <1>2 DEF SwitchStack, TInv
  <2>2. cur' \in [Proc -> TCB \cup {NoThread}]
        /\ \A q \in Proc : cur'[q] = NoThread => cur[q] = NoThread
    BY <1>2, <2>1 DEF SwitchStack, TInv, TypeOK
  <2>3. /\ at' \in [TCB -> Places] /\ peer' \in [TCB -> TCB \cup {NoThread}]
        /\ PlacesOK(at', peer')
    BY <1>2, <2>1 DEF SwitchStack, TInv, TypeOK, PlacesOK, TCB
  <2>4. TypeOK'
    BY <1>2, <2>2, <2>3 DEF SwitchStack, TInv, TypeOK
  <2> QED BY <1>2, <2>2, <2>3, <2>4 DEF SwitchStack, TInv, PlacesOK
<1>3. ASSUME NEW b \in {"reap", "post2", "requeue", "resume", "user", "joined"},
             Goto(p, b), On(p, "post") \/ On(p, "reap") \/ On(p, "post2")
                         \/ b \notin Switching,
             b = "joined" => cur[p] \notin Proc,
             state' \in [TCB -> TS], heap' \in [TCB -> {"none", "live", "freed"}],
             UNCHANGED <<joiner, ready, pmutex, cur, regs, call, peer, arg,
                         waiting, claimed, exited>>
      PROVE  TInv'
  <2>1. b \in Switching => peer[cur[p]] \in TCB
    BY <1>3 DEF On, TInv, TypeOK, PlacesOK, Switching
  <2>2. at' \in [TCB -> Places] /\ PlacesOK(at', peer)
    BY <1>3, <2>1, GotoType
  <2> QED BY <1>3, <2>2 DEF TInv, TypeOK, PlacesOK
<1>4. state \in [TCB -> TS] /\ heap \in [TCB -> {"none", "live", "freed"}]
  BY DEF TInv, TypeOK
<1>5. CASE ReadDying(p)
  BY <1>3, <1>4, <1>5 DEF ReadDying
<1>6. CASE Reap(p)
  <2>1. /\ heap' \in [TCB -> {"none", "live", "freed"}]
        /\ state' \in [TCB -> TS]
    BY <1>4, <1>6 DEF Reap, TS
  <2> QED BY <1>3, <1>6, <2>1 DEF Reap
<1>7. CASE ReadRunable(p)
  BY <1>3, <1>4, <1>7 DEF ReadRunable
<1>8. CASE Resume(p)
  <2>1. state' \in [TCB -> TS]
    BY <1>4, <1>8 DEF Resume, TS
  <2>2. cur[p] \in Proc => call[cur[p]] # "join"
    BY DEF TInv
  <2> QED BY <1>3, <1>4, <1>8, <2>1, <2>2 DEF Resume, Switching
<1> QED BY <1>1, <1>2, <1>5, <1>6, <1>7, <1>8

\* The steps that may make a thread ready.
LEMMA TInvReady ==
  ASSUME TInv, NEW p \in Proc,
         \/ Requeue(p) \/ Exit(p)
         \/ \E u \in Thread : Create(p, u) \/ Unblock(p, u)
  PROVE  TInv'
<1> USE UthreadAssumption DEF Places
<1>1. at \in [TCB -> Places] /\ PlacesOK(at, peer)
  BY DEF TInv, TypeOK
<1>2. \A b \in {"resume", "deq"} :
        LET at0 == [at EXCEPT ![cur[p]] = b]
        IN at0 \in [TCB -> Places] /\ PlacesOK(at0, peer)
  BY <1>1 DEF PlacesOK, Switching, TCB
<1>3. CASE Requeue(p)
  <2> DEFINE at0 == [at EXCEPT ![cur[p]] = "resume"]
  <2>1. peer[cur[p]] \in TCB
    BY <1>3 DEF Requeue, On, TInv, TypeOK, PlacesOK, Switching
  <2>2. ReadyEnqueue(peer[cur[p]], at0)
    BY <1>3 DEF Requeue
  <2>3. ready' \in Seq(TCB) /\ at' \in [TCB -> Places] /\ PlacesOK(at', peer)
    <3>1. at0 \in [TCB -> Places] /\ PlacesOK(at0, peer)
      BY <1>2
    <3> HIDE DEF at0
    <3> QED BY <2>1, <2>2, <3>1, ReadyEnqueueType
  <2> QED BY <1>3, <2>3 DEF Requeue, TInv, TypeOK, PlacesOK
<1>4. CASE Exit(p)
  <2> DEFINE at0 == [at EXCEPT ![cur[p]] = "deq"]
             j == joiner[cur[p]]
  <2>1. at0 \in [TCB -> Places] /\ PlacesOK(at0, peer)
    BY <1>2
  <2>2. cur[p] \in Thread
    BY <1>4 DEF Exit, Calls
  <2>3. ready' \in Seq(TCB) /\ at' \in [TCB -> Places] /\ PlacesOK(at', peer)
    <3>1. CASE HasJoiner(cur[p])
      <4>1. j \in TCB
        BY <2>2, <3>1 DEF HasJoiner, TInv, TypeOK, TCB
      <4>2. ReadyEnqueue(j, at0)
        BY <1>4, <3>1 DEF Exit
      <4> HIDE DEF at0, j
      <4> QED BY <2>1, <4>1, <4>2, ReadyEnqueueType
    <3>2. CASE ~HasJoiner(cur[p])
      <4>1. at' = at0 /\ ready' = ready
        BY <1>4, <3>2 DEF Exit, Goto
      <4> HIDE DEF at0
      <4> QED BY <2>1, <4>1 DEF TInv, TypeOK
    <3> QED BY <3>1, <3>2
  <2>4. state' \in [TCB -> TS]
    BY <1>4 DEF Exit, TInv, TypeOK, TS
  <2>5. /\ call' \in [TCB -> {"start", "yield", "block", "join", "exit"}]
        /\ \A q \in Proc : call'[q] # "join"
    BY <1>4 DEF Exit, TInv, TypeOK, TCB
  <2> QED BY <1>4, <2>3, <2>4, <2>5 DEF Exit, TInv, TypeOK, PlacesOK
<1>5. ASSUME NEW u \in Thread, Create(p, u) PROVE TInv'
  <2>1. ready' \in Seq(TCB) /\ at' \in [TCB -> Places] /\ PlacesOK(at', peer)
    BY <1>1, <1>5, ReadyEnqueueType DEF Create, TCB
  <2>2. heap' \in [TCB -> {"none", "live", "freed"}]
    BY <1>5 DEF Create, TInv, TypeOK
  <2> QED BY <1>5, <2>1, <2>2 DEF Create, TInv, TypeOK, PlacesOK
<1>6. ASSUME NEW u \in Thread, Unblock(p, u) PROVE TInv'
  <2>1. ready' \in Seq(TCB) /\ at' \in [TCB -> Places] /\ PlacesOK(at', peer)
    BY <1>1, <1>6, ReadyEnqueueType DEF Unblock, TCB
  <2> QED BY <1>6, <2>1 DEF Unblock, TInv, TypeOK, PlacesOK
<1> QED BY <1>3, <1>4, <1>5, <1>6

\* The calls by which a thread stops.
LEMMA TInvStops ==
  ASSUME TInv, NEW p \in Proc,
         PthreadBase(p) \/ Yield(p) \/ Block(p)
  PROVE  TInv'
<1>1. PICK c \in {"yield", "block"} : Stop(p, c)
  BY DEF PthreadBase, Yield, Block
<1>2. at' \in [TCB -> Places] /\ PlacesOK(at', peer)
  BY <1>1, GotoType DEF Stop, Places, Switching
<1>3. /\ call' \in [TCB -> {"start", "yield", "block", "join", "exit"}]
      /\ \A q \in Proc : call'[q] # "join"
  <2>1. call' = [call EXCEPT ![cur[p]] = c]
    BY <1>1 DEF Stop
  <2> QED BY <2>1 DEF TInv, TypeOK, TCB
<1>4. waiting' \subseteq Thread
  BY DEF PthreadBase, Yield, Block, Calls, TInv, TypeOK
<1> QED BY <1>2, <1>3, <1>4 DEF PthreadBase, Yield, Block, TInv, TypeOK, PlacesOK

\* uthread_join, uthread_detach and the end of main.
LEMMA TInvJoin ==
  ASSUME TInv, NEW p \in Proc,
         \/ Join(p) \/ Joined(p) \/ Detach(p) \/ MainReturn(p)
         \/ \E u \in Thread : JoinCall(p, u) \/ DetachCall(p, u)
  PROVE  TInv'
<1> USE UthreadAssumption DEF Places
<1>1. ASSUME NEW u \in Thread, JoinCall(p, u) \/ DetachCall(p, u) PROVE TInv'
  <2>1. /\ cur[p] \in Thread /\ claimed' \subseteq Thread
        /\ \E b \in {"join", "detach"} : Claim(p, u, b)
    BY <1>1 DEF JoinCall, DetachCall, Calls, Claim, TInv, TypeOK
  <2>2. PICK b \in {"join", "detach"} : Claim(p, u, b)
    BY <2>1
  <2>3. /\ at' \in [TCB -> Places] /\ PlacesOK(at', peer)
        /\ arg' \in [TCB -> Thread \cup {NoThread}]
    <3>1. CASE joiner[u] = NoThread
      <4>1. Goto(p, b) /\ arg' = [arg EXCEPT ![cur[p]] = u]
        BY <2>2, <3>1 DEF Claim
      <4>2. at' \in [TCB -> Places] /\ PlacesOK(at', peer)
        BY <2>1, <4>1, GotoType DEF Switching
      <4> QED BY <4>1, <4>2 DEF TInv, TypeOK
    <3>2. CASE joiner[u] # NoThread
      BY <2>2, <3>2 DEF Claim, TInv, TypeOK
    <3> QED BY <3>1, <3>2
  <2> QED
    BY <1>1, <2>1, <2>3 DEF JoinCall, DetachCall, TInv, TypeOK, PlacesOK
<1>2. CASE Join(p)
  <2>1. cur[p] \in Thread
    BY <1>2 DEF Join, On, TInv, TypeOK, PlacesOK, TCB
  <2>2. joiner' \in [TCB -> Thread \cup {NoThread, Detached}]
    BY <1>2, <2>1 DEF Join, TInv, TypeOK
  <2>3. /\ call' \in [TCB -> {"start", "yield", "block", "join", "exit"}]
        /\ \A q \in Proc : call'[q] # "join"
    <3>1. call' = call \/ call' = [call EXCEPT ![cur[p]] = "join"]
      BY <1>2 DEF Join, Stop
    <3>2. \A q \in Proc : q # cur[p]
      BY <2>1
    <3> QED BY <3>1, <3>2 DEF TInv, TypeOK, TCB
  <2>4. at' \in [TCB -> Places] /\ PlacesOK(at', peer)
    <3>1. PICK b \in {"deq", "joined"} : Goto(p, b)
      BY <1>2 DEF Join, Stop
    <3> QED BY <2>1, <3>1, GotoType DEF Switching
  <2> QED BY <1>2, <2>2, <2>3, <2>4 DEF Join, TInv, TypeOK, PlacesOK
<1>3. ASSUME Joined(p) \/ Detach(p) PROVE TInv'
  <2>1. /\ joiner' \in [TCB -> Thread \cup {NoThread, Detached}]
        /\ heap' \in [TCB -> {"none", "live", "freed"}]
    BY <1>3 DEF Joined, Detach, TInv, TypeOK
  <2>2. at' \in [TCB -> Places] /\ PlacesOK(at', peer)
    BY <1>3, GotoType DEF Joined, Detach, Switching
  <2> QED BY <1>3, <2>1, <2>2 DEF Joined, Detach, TInv, TypeOK, PlacesOK
<1>4. CASE MainReturn(p)
  BY <1>4 DEF MainReturn, TInv, TypeOK, PlacesOK
<1> QED BY <1>1, <1>2, <1>3, <1>4

\* Every step of every processor keeps the types.
LEMMA TInvStep == TInv /\ [Next]_vars => TInv'
<1> SUFFICES ASSUME TInv, [Next]_vars PROVE TInv'
  OBVIOUS
<1>1. CASE UNCHANGED vars
  BY <1>1 DEF vars, TInv, TypeOK, PlacesOK
<1> QED
  BY <1>1, TInvDequeue, TInvSwitch, TInvReady, TInvStops, TInvJoin
     DEF Next, Step

\* The variables of the package keep their types, whatever the threads call:
\* in particular what is queued, switched to and freed is always a thread.
THEOREM TypesCorrect == Spec => []TypeOK
<1>1. TInv => TypeOK
  BY DEF TInv
<1> QED BY <1>1, TInvInit, TInvStep, PTL DEF Spec

-----------------------------------------------------------------------------
(* Sharing threads between pthreads.                                       *)

Kinds == (Places \ {"sleep", "asleep", "woken"}) \cup {"idle"}

\* What the proofs below use of the types.
Typed ==
  /\ state \in [TCB -> TS]
  /\ joiner \in [TCB -> Thread \cup {NoThread, Detached}]
  /\ heap \in [TCB -> {"none", "live", "freed"}]
  /\ ready \in Seq(TCB)
  /\ cur \in [Proc -> TCB \cup {NoThread}]
  /\ regs \in [Proc -> [from : TCB \cup {NoThread}, to : TCB \cup {NoThread}]]
  /\ place \in [TCB -> Kinds]
  /\ call \in [TCB -> {"start", "yield", "block", "join", "exit"}]
  /\ peer \in [TCB -> TCB \cup {NoThread}]
  /\ arg \in [TCB -> Thread \cup {NoThread}]
  /\ waiting \subseteq Thread
  /\ claimed \subseteq Thread
  /\ \A p \in Proc : place[p] \notin {"join", "joined", "detach"}
  /\ \A t \in TCB : place[t] \in Switching => peer[t] \in TCB
  /\ \A p \in Proc : cur[p] = NoThread => regs[p].from \in TCB /\ regs[p].to \in TCB

\* The types, as TInv gives them.
LEMMA TypedFromTInv == (TInv => Typed) /\ (TInv' => Typed')
BY DEF TInv, TypeOK, PlacesOK, Typed, place, Kinds, Places, Switching, TCB

\* Threads, pthreads and the two null values are apart.
LEMMA NamesDistinct ==
  /\ Thread \subseteq TCB /\ Proc \subseteq TCB
  /\ NoThread \notin TCB /\ Detached \notin TCB /\ NoThread # Detached
  /\ \A t \in TCB : t \in Thread <=> t \notin Proc
  /\ Parks \subseteq Thread
BY UthreadAssumption DEF TCB, Parks

\* What Goto, Enqueue and a signal do to place and to the queue.
LEMMA GotoPlace ==
  ASSUME TInv, NEW p \in Proc, NEW b \in Places, Goto(p, b)
  PROVE  place' = [place EXCEPT ![cur[p]] =
                     IF b \in {"sleep", "asleep", "woken"} THEN "idle" ELSE b]
BY DEF TInv, TypeOK, Goto, place

LEMMA EnqueueElems ==
  ASSUME TInv, Once(ready), NEW t \in TCB, ready' = Enqueue(ready, t)
  PROVE  Elems(ready') = Elems(ready) \cup {t} /\ Once(ready')
<1>1. ready \in Seq(TCB)
  BY DEF TInv, TypeOK
<1>2. CASE t \in Elems(ready)
  BY <1>2 DEF Enqueue, Contains, Elems
<1>3. CASE t \notin Elems(ready)
  <2>1. ready' = Append(ready, t)
    BY <1>3 DEF Enqueue, Contains, Elems
  <2> QED BY <1>1, <1>3, <2>1, EnqueueOnce
<1> QED BY <1>2, <1>3

LEMMA SignalPlace ==
  ASSUME TInv, NEW at0 \in [TCB -> Places], SignalWakeup(at0),
         \A s \in Asleep : at0[s] = "asleep"
  PROVE  place' = [t \in TCB |-> IF at0[t] \in {"sleep", "asleep", "woken"}
                                  THEN "idle" ELSE at0[t]]
BY DEF SignalWakeup, Asleep, TInv, TypeOK, place, Places, TCB

-----------------------------------------------------------------------------
(* Every step of a pthread keeps the invariant, one lemma for each kind.    *)

\* Whoever claims a thread has one; what is ready has begun to stop.
LEMMA ArgOfClaim ==
  ASSUME Typed, SInv
  PROVE  /\ \A t \in TCB : Claiming(t) => arg[t] \in Thread
         /\ \A t \in TCB : Ready(t) => place[t] \in Stopping
<1>1. \A t \in TCB : Claiming(t) => arg[t] \in Thread
  BY DEF SInv, ClaimsOK, Typed
<1>2. \A t \in TCB : Ready(t) => place[t] \in Stopping
  BY DEF Ready, SInv, QueueOK, GoesOK, Startable, Stopping
<1> QED BY <1>1, <1>2

\* ready_queue_enqueue by a thread that moves on to b, and by one that stays.
LEMMA ReadyEnqueueKeeps ==
  ASSUME TInv, Once(ready), NEW t \in TCB, NEW u \in TCB, NEW b \in {"resume", "deq"},
         at[u] \notin {"sleep", "asleep", "woken"},
         ReadyEnqueue(t, [at EXCEPT ![u] = b])
  PROVE  /\ place' = [place EXCEPT ![u] = b]
         /\ Elems(ready') = Elems(ready) \cup {t} /\ Once(ready')
<1> DEFINE at0 == [at EXCEPT ![u] = b]
<1>1. at0 \in [TCB -> Places] /\ \A s \in Asleep : at0[s] = "asleep"
  BY DEF TInv, TypeOK, Places, Asleep, TCB
<1>2. place' = [s \in TCB |-> IF at0[s] \in {"sleep", "asleep", "woken"}
                              THEN "idle" ELSE at0[s]]
  <2> HIDE DEF at0
  <2> QED BY <1>1, SignalPlace DEF ReadyEnqueue, at0
<1>3. place' = [place EXCEPT ![u] = b]
  BY <1>2 DEF place, TInv, TypeOK
<1> QED BY <1>3, EnqueueElems DEF ReadyEnqueue

LEMMA ReadyWakes ==
  ASSUME TInv, Once(ready), NEW t \in TCB, ReadyEnqueue(t, at)
  PROVE  /\ place' = place
         /\ Elems(ready') = Elems(ready) \cup {t} /\ Once(ready')
<1>1. at \in [TCB -> Places] /\ \A s \in Asleep : at[s] = "asleep"
  BY DEF TInv, TypeOK, Asleep
<1>2. place' = place
  BY <1>1, SignalPlace DEF ReadyEnqueue, place
<1> QED BY <1>2, EnqueueElems DEF ReadyEnqueue

\* A step that only moves a sleeper, or ends the process.
LEMMA StandKeeps ==
  ASSUME SInv, UNCHANGED <<place, state, joiner, heap, ready, cur, regs, call, peer,
                           arg, waiting, claimed>>
  PROVE  SInv'
<1>1. \A p \in Proc, t \in TCB : GoesTo(p, t)' <=> GoesTo(p, t)
  BY DEF GoesTo
<1>2. \A p \in Proc, t \in TCB : ComesFrom(p, t)' <=> ComesFrom(p, t)
  BY DEF ComesFrom
<1>3. \A t \in TCB : /\ Queued(t)' <=> Queued(t)
                     /\ JoinWaits(t)' <=> JoinWaits(t)
                     /\ Pending(t)' <=> Pending(t)
  BY DEF Queued, JoinWaits, Pending
<1>4. \A t \in TCB : /\ Startable(t)' <=> Startable(t)
                     /\ Ready(t)' <=> Ready(t)
  BY <1>1, <1>2, <1>3 DEF Startable, Ready
<1>5. Stacks'
  BY DEF SInv, Stacks
<1>6. CallsOK'
  BY DEF SInv, CallsOK, CallOK
<1>7. StatesOK'
  BY DEF SInv, StatesOK, StateOK
<1>8. QueueOK'
  BY <1>3, <1>4 DEF SInv, QueueOK
<1>9. GoesOK'
  BY <1>1, <1>3, <1>4 DEF SInv, GoesOK
<1>10. ComesOK'
  BY <1>2 DEF SInv, ComesOK
<1>11. WaitsOK'
  BY DEF SInv, WaitsOK
<1>12. PhasesOK'
  BY DEF SInv, PhasesOK
<1>13. ClaimsOK'
  BY DEF SInv, ClaimsOK, Claiming
<1>14. ReturnsOK'
  BY <1>3, <1>4 DEF SInv, ReturnsOK
<1> QED
  BY <1>5, <1>6, <1>7, <1>8, <1>9, <1>10, <1>11, <1>12, <1>13, <1>14 DEF SInv

\* An idle pthread's test of the queue and its wakeup; the unlocked reads of
\* the state of from_thread.
LEMMA MoveKeeps ==
  ASSUME Typed, Typed', SInv, NEW p \in Proc,
         NEW b, cur[p] # NoThread,
         place' = [place EXCEPT ![cur[p]] = b],
         \/ cur[p] \in Proc /\ place[cur[p]] = "deq" /\ b = "idle"
         \/ place[cur[p]] = "idle" /\ b = "deq"
         \/ place[cur[p]] = "post" /\ b \in {"reap", "post2"}
         \/ place[cur[p]] = "post2" /\ b \in {"requeue", "resume"},
         b = "reap" => state[peer[cur[p]]] = "DYING",
         b = "requeue" => state[peer[cur[p]]] = "RUNABLE",
         UNCHANGED <<state, joiner, heap, ready, cur, regs, call, peer, arg,
                     waiting, claimed>>
  PROVE  SInv'
<1> USE NamesDistinct
<1> DEFINE me == cur[p]
<1>1. /\ me \in TCB
      /\ \A q \in Proc : cur[q] = me => q = p
  BY DEF Typed, SInv, Stacks
<1>2. \A t \in TCB : place'[t] = IF t = me THEN b ELSE place[t]
  BY <1>1 DEF Typed
<1>3. \A q \in Proc, t \in TCB : GoesTo(q, t)' <=> GoesTo(q, t)
  BY <1>1, <1>2 DEF GoesTo, Typed
<1>4. \A q \in Proc, t \in TCB :
        ComesFrom(q, t)' <=> ComesFrom(q, t) /\ ~(q = p /\ b = "resume")
  BY <1>1, <1>2 DEF ComesFrom, After, Typed
<1>5. \A t \in TCB : /\ Queued(t)' <=> Queued(t)
                     /\ JoinWaits(t)' <=> JoinWaits(t)
                     /\ Pending(t)' <=> Pending(t)
  BY DEF Queued, JoinWaits, Pending
<1>6. \A t \in TCB : Startable(t) => Startable(t)'
  BY <1>1, <1>2, <1>4, <1>5 DEF Startable
<1> HIDE DEF me
<1>7. Stacks'
  BY <1>1, <1>2 DEF SInv, Stacks, Typed, me
<1>8. CallsOK'
  BY <1>1, <1>2 DEF SInv, CallsOK, CallOK
<1>9. StatesOK'
  <2> SUFFICES ASSUME NEW t \in TCB PROVE StateOK(t)'
    BY DEF StatesOK
  <2>1. StateOK(t) /\ CallOK(t)
    BY DEF SInv, StatesOK, CallsOK
  <2>2. CASE t # me
    BY <1>1, <1>2, <2>1, <2>2 DEF StateOK
  <2>3. CASE t = me
    BY <1>1, <1>2, <2>1, <2>3 DEF StateOK, CallOK, Stopping, Ended, me
  <2> QED BY <2>2, <2>3
<1>10. QueueOK'
  BY <1>5, <1>6 DEF SInv, QueueOK
<1>11. GoesOK'
  BY <1>3, <1>5, <1>6 DEF SInv, GoesOK
<1>12. ComesOK'
  BY <1>2, <1>4 DEF SInv, ComesOK, StatesOK, StateOK, me
<1>13. WaitsOK'
  BY <1>2 DEF SInv, WaitsOK, Stopping, StatesOK, StateOK, me, Typed
<1>14. PhasesOK'
  BY <1>1, <1>2 DEF SInv, PhasesOK, me, Typed
<1>15. ClaimsOK'
  BY <1>2 DEF SInv, ClaimsOK, Claiming, me, StatesOK, StateOK
<1>16. ReturnsOK'
  BY <1>2, <1>3, <1>5
    DEF SInv, ReturnsOK, Ready, After, Stopping, StatesOK, StateOK, me, CallsOK, CallOK
<1> QED
  BY <1>7, <1>8, <1>9, <1>10, <1>11, <1>12, <1>13, <1>14, <1>15, <1>16 DEF SInv

\* ready_queue_dequeue: the head of the queue is chosen, or the pthread_base.
LEMMA DispatchKeeps ==
  ASSUME Typed, Typed', SInv, NEW p \in Proc,
         NEW to \in TCB, cur[p] # NoThread, place[cur[p]] = "deq",
         place' = [place EXCEPT ![cur[p]] = "switch"],
         peer' = [peer EXCEPT ![cur[p]] = to],
         \/ to \in Elems(ready) /\ Elems(ready') = Elems(ready) \ {to}
         \/ to = p /\ cur[p] # p /\ ready' = ready,
         Once(ready'),
         UNCHANGED <<state, joiner, heap, cur, regs, call, arg, waiting, claimed>>
  PROVE  SInv'
<1> USE NamesDistinct
<1> DEFINE me == cur[p]
<1>1. /\ me \in TCB
      /\ \A q \in Proc : cur[q] = me => q = p
  BY DEF Typed, SInv, Stacks
<1>2. \A t \in TCB : place'[t] = IF t = me THEN "switch" ELSE place[t]
  BY <1>1 DEF Typed
<1>3. \A t \in TCB : peer'[t] = IF t = me THEN to ELSE peer[t]
  BY <1>1 DEF Typed
<1>4. \A q \in Proc, t \in TCB :
        /\ GoesTo(q, t)' <=> GoesTo(q, t) \/ (q = p /\ t = to)
        /\ ComesFrom(q, t)' <=> ComesFrom(q, t)
        /\ ~GoesTo(p, t) /\ ~ComesFrom(p, t)
  BY <1>1, <1>2, <1>3 DEF GoesTo, ComesFrom, After, Typed
<1>5. \A t \in TCB : /\ Queued(t)' <=> Queued(t) /\ t # to
                     /\ JoinWaits(t)' <=> JoinWaits(t)
                     /\ Pending(t)' <=> Pending(t)
  BY DEF Queued, JoinWaits, Pending, SInv, QueueOK
<1>6. \A t \in TCB : Startable(t) => Startable(t)'
  BY <1>1, <1>2, <1>4, <1>5 DEF Startable
<1>7. /\ Startable(to) /\ (to \in Proc => to = p)
      /\ \A q \in Proc : ~GoesTo(q, to)
  <2>1. CASE to \in Elems(ready)
    BY <2>1 DEF SInv, QueueOK, GoesOK, Queued
  <2>2. CASE to = p /\ cur[p] # p
    <3>1. heap[p] = "live" /\ call[p] # "exit"
      BY DEF SInv, StatesOK, StateOK, CallsOK, CallOK, Typed
    <3>2. ~Pending(p)
      BY DEF Pending, JoinWaits, SInv, WaitsOK, CallsOK, CallOK, Typed
    <3>3. place[p] = "off"
      BY <2>2 DEF SInv, Stacks
    <3> QED BY <1>4, <2>2, <3>1, <3>2, <3>3 DEF Startable, SInv, ComesOK, GoesOK
  <2> QED BY <2>1, <2>2
<1> HIDE DEF me
<1>8. Stacks'
  BY <1>1, <1>2 DEF SInv, Stacks, Typed, me
<1>9. CallsOK'
  BY <1>1, <1>2 DEF SInv, CallsOK, CallOK
<1>10. StatesOK'
  <2> SUFFICES ASSUME NEW t \in TCB PROVE StateOK(t)'
    BY DEF StatesOK
  <2>1. StateOK(t) /\ CallOK(t)
    BY DEF SInv, StatesOK, CallsOK
  <2>2. CASE t # me
    BY <1>1, <1>2, <2>1, <2>2 DEF StateOK
  <2>3. CASE t = me
    BY <1>1, <1>2, <2>1, <2>3 DEF StateOK, CallOK, Stopping, Ended, me
  <2> QED BY <2>2, <2>3
<1>11. QueueOK'
  BY <1>5, <1>6 DEF SInv, QueueOK
<1>12. GoesOK'
  BY <1>4, <1>5, <1>6, <1>7 DEF SInv, GoesOK
<1>13. ComesOK'
  BY <1>2, <1>4 DEF SInv, ComesOK, StatesOK, StateOK, me
<1>14. WaitsOK'
  BY <1>2 DEF SInv, WaitsOK, Stopping, StatesOK, StateOK, me, Typed
<1>15. PhasesOK'
  BY <1>1, <1>2, <1>3 DEF SInv, PhasesOK, me, Typed
<1>16. ClaimsOK'
  BY <1>2 DEF SInv, ClaimsOK, Claiming, me, StatesOK, StateOK
<1>17. ReturnsOK'
  <2>1. \A t \in TCB : call[t] = "join" => (Ready(t)' <=> Ready(t))
    BY <1>4, <1>5 DEF Ready, SInv, CallsOK, CallOK, Queued
  <2> QED BY <1>2, <1>5, <2>1 DEF SInv, ReturnsOK, After, Stopping, me
<1> QED
  BY <1>8, <1>9, <1>10, <1>11, <1>12, <1>13, <1>14, <1>15, <1>16, <1>17 DEF SInv

\* The store of the state: the stack of the old thread is saved from here on.
LEMMA LeaveKeeps ==
  ASSUME Typed, Typed', SInv, ParkersOnlyPark, NEW p \in Proc,
         cur[p] # NoThread, place[cur[p]] = "switch",
         state' = [state EXCEPT ![cur[p]] = StopState(call[cur[p]])],
         regs' = [regs EXCEPT ![p] = [from |-> cur[p], to |-> peer[cur[p]]]],
         cur' = [cur EXCEPT ![p] = NoThread],
         place' = [place EXCEPT ![cur[p]] = "off"],
         UNCHANGED <<joiner, heap, ready, call, peer, arg, waiting, claimed>>
  PROVE  SInv'
<1> USE NamesDistinct
<1> DEFINE me == cur[p]
<1>1. /\ me \in TCB
      /\ \A q \in Proc : cur[q] = me => q = p
  BY DEF Typed, SInv, Stacks
<1>2. \A t \in TCB : place'[t] = IF t = me THEN "off" ELSE place[t]
  BY <1>1 DEF Typed
<1>3. /\ \A q \in Proc : cur'[q] = IF q = p THEN NoThread ELSE cur[q]
      /\ \A q \in Proc : q # p => regs'[q] = regs[q]
      /\ regs'[p].from = me /\ regs'[p].to = peer[me]
  BY <1>1 DEF Typed
<1>4. \A q \in Proc, t \in TCB : GoesTo(q, t)' <=> GoesTo(q, t)
  BY <1>1, <1>2, <1>3 DEF GoesTo, Typed
<1>5. \A q \in Proc, t \in TCB :
        ComesFrom(q, t)' <=> ComesFrom(q, t) \/ (q = p /\ t = me)
  BY <1>1, <1>2, <1>3 DEF ComesFrom, After, Typed
<1>6. /\ \A t \in TCB : t # me => state'[t] = state[t]
      /\ call[me] = "exit" => state[me] = "DYING" /\ state'[me] = "DYING"
      /\ call[me] = "yield" => state'[me] = "RUNABLE"
      /\ call[me] \notin {"exit", "yield"} => state'[me] = "BLOCKED"
      /\ call[me] # "exit" => state[me] = "RUNNING"
  BY <1>1 DEF Typed, StopState, SInv, StatesOK, StateOK, Ended
<1>7. \A t \in TCB : state'[t] \in Ended <=> state[t] \in Ended
  BY <1>6 DEF Ended
<1>8. \A t \in TCB : /\ Queued(t)' <=> Queued(t)
                     /\ JoinWaits(t)' <=> JoinWaits(t)
                     /\ Pending(t)' <=> Pending(t)
  BY <1>7 DEF Queued, JoinWaits, Pending
<1>9. \A t \in TCB : Startable(t) => Startable(t)'
  BY <1>1, <1>2, <1>5, <1>8 DEF Startable
<1> HIDE DEF me
<1>10. Stacks'
  BY <1>1, <1>2, <1>3 DEF SInv, Stacks, Typed, me
<1>11. CallsOK'
  BY <1>1, <1>2 DEF SInv, CallsOK, CallOK
<1>12. StatesOK'
  <2> SUFFICES ASSUME NEW t \in TCB PROVE StateOK(t)'
    BY DEF StatesOK
  <2>1. StateOK(t) /\ CallOK(t)
    BY DEF SInv, StatesOK, CallsOK
  <2>2. CASE t # me
    BY <1>1, <1>2, <1>6, <2>1, <2>2 DEF StateOK
  <2>3. CASE t = me
    BY <1>1, <1>2, <1>6, <2>1, <2>3 DEF StateOK, CallOK, Stopping, Ended, me
  <2> QED BY <2>2, <2>3
<1>13. QueueOK'
  BY <1>8, <1>9 DEF SInv, QueueOK
<1>14. GoesOK'
  BY <1>4, <1>8, <1>9 DEF SInv, GoesOK
<1>15. ComesOK'
  BY <1>1, <1>2, <1>5, <1>6 DEF SInv, ComesOK, StatesOK, StateOK, Stacks, me
<1>16. WaitsOK'
  BY <1>2, <1>7 DEF SInv, WaitsOK, Stopping
<1>17. PhasesOK'
  <2>1. ASSUME NEW q \in Proc, cur[q] # NoThread, cur[q] # me, peer[cur[q]] = me
        PROVE  place[cur[q]] # "requeue"
    <3> SUFFICES ASSUME place[cur[q]] = "requeue" PROVE FALSE
      OBVIOUS
    <3>1. ComesFrom(q, me) /\ state[me] = "RUNABLE"
      BY <2>1 DEF ComesFrom, After, SInv, PhasesOK
    <3> QED BY <1>1, <1>6, <3>1 DEF Typed
  <2> QED
    BY <1>1, <1>2, <1>3, <1>6, <2>1
      DEF SInv, PhasesOK, me, Typed, StatesOK, StateOK
<1>18. ClaimsOK'
  BY <1>2 DEF SInv, ClaimsOK, Claiming, me
<1>19. ReturnsOK'
  <2>1. \A t \in TCB : Ready(t)' <=> Ready(t)
    BY <1>4, <1>8 DEF Ready
  <2> QED
    BY <1>2, <1>7, <1>8, <2>1, ArgOfClaim
      DEF SInv, ReturnsOK, Claiming, After, Stopping, me
<1> QED
  BY <1>10, <1>11, <1>12, <1>13, <1>14, <1>15, <1>16, <1>17, <1>18, <1>19
    DEF SInv

\* The new stack: the thread was startable and not RUNNING, hence off its own.
LEMMA ArriveKeeps ==
  ASSUME Typed, Typed', SInv, NEW p \in Proc,
         NEW to \in TCB, to = regs[p].to, cur[p] = NoThread, state[to] # "RUNNING",
         cur' = [cur EXCEPT ![p] = to],
         place' = [place EXCEPT ![to] = "post"],
         peer' = [peer EXCEPT ![to] = regs[p].from],
         UNCHANGED <<state, joiner, heap, ready, regs, call, arg, waiting, claimed>>
  PROVE  SInv'
<1> USE NamesDistinct
<1>1. GoesTo(p, to)
  BY DEF GoesTo
<1>2. /\ Startable(to) /\ ~Queued(to) /\ (to \in Proc => to = p)
      /\ \A q \in Proc : GoesTo(q, to) => q = p
  BY <1>1 DEF SInv, GoesOK
<1>3. place[to] = "off" /\ \A q \in Proc : cur[q] # to
  BY <1>2 DEF Startable, SInv, StatesOK, StateOK, Stacks
<1>4. \A t \in TCB : place'[t] = IF t = to THEN "post" ELSE place[t]
  BY DEF Typed
<1>5. /\ \A q \in Proc : cur'[q] = IF q = p THEN to ELSE cur[q]
      /\ \A t \in TCB : peer'[t] = IF t = to THEN regs[p].from ELSE peer[t]
  BY DEF Typed
<1>6. \A q \in Proc, t \in TCB : GoesTo(q, t)' <=> GoesTo(q, t) /\ q # p
  BY <1>3, <1>4, <1>5 DEF GoesTo, Typed
<1>7. \A q \in Proc, t \in TCB : ComesFrom(q, t)' <=> ComesFrom(q, t)
  BY <1>3, <1>4, <1>5 DEF ComesFrom, After, Typed
<1>8. \A t \in TCB : /\ Queued(t)' <=> Queued(t)
                     /\ JoinWaits(t)' <=> JoinWaits(t)
                     /\ Pending(t)' <=> Pending(t)
  BY DEF Queued, JoinWaits, Pending
<1>9. \A t \in TCB : t # to /\ Startable(t) => Startable(t)'
  BY <1>4, <1>7, <1>8 DEF Startable
<1>10. Stacks'
  BY <1>2, <1>3, <1>4, <1>5 DEF SInv, Stacks, Typed
<1>11. CallsOK'
  BY <1>4 DEF SInv, CallsOK, CallOK
<1>12. StatesOK'
  BY <1>2, <1>4 DEF SInv, StatesOK, StateOK, Startable, Stopping, Ended
<1>13. QueueOK'
  BY <1>2, <1>8, <1>9 DEF SInv, QueueOK
<1>14. GoesOK'
  BY <1>1, <1>2, <1>6, <1>8, <1>9 DEF SInv, GoesOK
<1>15. ComesOK'
  BY <1>2, <1>4, <1>7 DEF SInv, ComesOK, Startable
<1>16. WaitsOK'
  BY <1>2, <1>4 DEF SInv, WaitsOK, Startable, Pending, JoinWaits
<1>17. PhasesOK'
  BY <1>3, <1>4, <1>5 DEF SInv, PhasesOK, Typed
<1>18. ClaimsOK'
  BY <1>3, <1>4 DEF SInv, ClaimsOK, Claiming
<1>19. ReturnsOK'
  <2>1. \A t \in TCB : Ready(t)' => Ready(t)
    BY <1>6, <1>8 DEF Ready
  <2>2. \A t \in TCB : t # to => (Ready(t) => Ready(t)')
    BY <1>1, <1>6, <1>8 DEF Ready, GoesTo
  <2>3. Ready(to)
    BY <1>1 DEF Ready
  <2> QED
    BY <1>3, <1>4, <1>8, <2>1, <2>2, <2>3 DEF SInv, ReturnsOK, After, Stopping
<1> QED
  BY <1>10, <1>11, <1>12, <1>13, <1>14, <1>15, <1>16, <1>17, <1>18, <1>19
    DEF SInv

\* from_thread is DYING, so it neither blocks nor joins: this pthread is the
\* last that comes from it, and no joiner holds it once it is detached.
LEMMA ReapKeeps ==
  ASSUME Typed, Typed', SInv, ParkersOnlyPark, NEW p \in Proc,
         NEW from \in TCB, from = peer[cur[p]],
         cur[p] # NoThread, place[cur[p]] = "reap",
         place' = [place EXCEPT ![cur[p]] = "resume"],
         IF joiner[from] = Detached
         THEN heap' = [heap EXCEPT ![from] = "freed"] /\ state' = state
         ELSE state' = [state EXCEPT ![from] = "DEAD"] /\ heap' = heap,
         UNCHANGED <<joiner, ready, cur, regs, call, peer, arg, waiting, claimed>>
  PROVE  SInv'
<1> USE NamesDistinct
<1> DEFINE me == cur[p]
<1>1. /\ me \in TCB
      /\ \A q \in Proc : cur[q] = me => q = p
  BY DEF Typed, SInv, Stacks
<1>2. \A t \in TCB : place'[t] = IF t = me THEN "resume" ELSE place[t]
  BY <1>1 DEF Typed
<1>3. ComesFrom(p, from) /\ state[from] = "DYING" /\ call[from] = "exit"
  BY DEF ComesFrom, After, SInv, PhasesOK, StatesOK, StateOK, Ended
<1>4. from \notin Parks /\ from \in Thread
  BY <1>3 DEF ParkersOnlyPark, SInv, CallsOK, CallOK
<1>5. /\ place[from] = "off" /\ from # me
      /\ \A q \in Proc : ComesFrom(q, from) => q = p
  BY <1>3, <1>4 DEF SInv, ComesOK
<1>6. \A q \in Proc, t \in TCB : GoesTo(q, t)' <=> GoesTo(q, t)
  BY <1>1, <1>2 DEF GoesTo, Typed
<1>7. \A q \in Proc, t \in TCB : ComesFrom(q, t)' <=> ComesFrom(q, t) /\ q # p
  BY <1>1, <1>2 DEF ComesFrom, After, Typed
<1>8. /\ \A t \in TCB : t # from => state'[t] = state[t] /\ heap'[t] = heap[t]
      /\ \/ heap'[from] = "freed" /\ joiner[from] = Detached /\ state'[from] = "DYING"
         \/ heap'[from] = heap[from] /\ state'[from] = "DEAD"
      /\ \A t \in TCB : state'[t] \in Ended <=> state[t] \in Ended
  BY <1>3 DEF Typed, Ended
<1>9. \A t \in TCB : /\ Queued(t)' <=> Queued(t)
                     /\ JoinWaits(t)' <=> JoinWaits(t)
                     /\ Pending(t)' <=> Pending(t)
  BY <1>8 DEF Queued, JoinWaits, Pending
<1>10. \A t \in TCB : Startable(t) => Startable(t)'
  BY <1>1, <1>2, <1>3, <1>7, <1>8, <1>9 DEF Startable
<1> HIDE DEF me
<1>11. Stacks'
  BY <1>1, <1>2 DEF SInv, Stacks, Typed, me
<1>12. CallsOK'
  BY <1>1, <1>2 DEF SInv, CallsOK, CallOK
<1>13. StatesOK'
  <2> SUFFICES ASSUME NEW t \in TCB PROVE StateOK(t)'
    BY DEF StatesOK
  <2>1. StateOK(t) /\ CallOK(t)
    BY DEF SInv, StatesOK, CallsOK
  <2>2. CASE t # me /\ t # from
    BY <1>2, <1>8, <2>1, <2>2 DEF StateOK
  <2>3. CASE t = me
    BY <1>1, <1>2, <1>5, <1>8, <2>1, <2>3
      DEF StateOK, CallOK, Stopping, Ended, me
  <2>4. CASE t = from
    BY <1>2, <1>3, <1>5, <1>8, <2>1, <2>4 DEF StateOK, Stopping, Ended, Typed
  <2> QED BY <2>2, <2>3, <2>4
<1>14. QueueOK'
  BY <1>9, <1>10 DEF SInv, QueueOK
<1>15. GoesOK'
  BY <1>6, <1>9, <1>10 DEF SInv, GoesOK
<1>16. ComesOK'
  BY <1>2, <1>5, <1>7, <1>8 DEF SInv, ComesOK, me
<1>17. WaitsOK'
  <2>1. \A t \in TCB : place[t] \in Stopping /\ call[t] # "exit" =>
          place'[t] = place[t] /\ heap'[t] = heap[t]
    BY <1>2, <1>3, <1>8 DEF me, Stopping
  <2> QED BY <1>8, <2>1 DEF SInv, WaitsOK, Typed
<1>18. PhasesOK'
  <2>1. ASSUME NEW q \in Proc, cur[q] # NoThread, q # p,
               place[cur[q]] \in {"reap", "requeue"}
        PROVE  peer[cur[q]] # from
    BY <1>5, <2>1 DEF ComesFrom, After
  <2> QED BY <1>1, <1>2, <1>8, <2>1 DEF SInv, PhasesOK, me, Typed, Switching
<1>19. ClaimsOK'
  BY <1>2, <1>3, <1>5, <1>8
    DEF SInv, ClaimsOK, Claiming, me, Typed, StatesOK, StateOK
<1>20. ReturnsOK'
  <2>1. \A t \in TCB : Ready(t)' <=> Ready(t)
    BY <1>6, <1>9 DEF Ready
  <2> QED
    BY <1>2, <1>8, <1>9, <2>1, ArgOfClaim
      DEF SInv, ReturnsOK, Claiming, After, Stopping, me
<1> QED
  BY <1>11, <1>12, <1>13, <1>14, <1>15, <1>16, <1>17, <1>18, <1>19, <1>20
    DEF SInv

\* from_thread is RUNABLE, so it yielded and neither blocks nor joins: it is
\* off its stack and nobody else has it.
LEMMA RequeueKeeps ==
  ASSUME Typed, Typed', SInv, ParkersOnlyPark, NEW p \in Proc,
         NEW from \in TCB, from = peer[cur[p]],
         cur[p] # NoThread, place[cur[p]] = "requeue",
         place' = [place EXCEPT ![cur[p]] = "resume"],
         Elems(ready') = Elems(ready) \cup {from}, Once(ready'),
         UNCHANGED <<state, joiner, heap, cur, regs, call, peer, arg, waiting,
                     claimed>>
  PROVE  SInv'
<1> USE NamesDistinct
<1> DEFINE me == cur[p]
<1>1. /\ me \in TCB
      /\ \A q \in Proc : cur[q] = me => q = p
  BY DEF Typed, SInv, Stacks
<1>2. \A t \in TCB : place'[t] = IF t = me THEN "resume" ELSE place[t]
  BY <1>1 DEF Typed
<1>3. ComesFrom(p, from) /\ call[from] = "yield"
  BY DEF ComesFrom, After, SInv, PhasesOK, StatesOK, StateOK
<1>4. from \notin Parks /\ from \in Thread
  BY <1>3 DEF ParkersOnlyPark, SInv, CallsOK, CallOK
<1>5. /\ heap[from] = "live" /\ place[from] = "off" /\ from # me
      /\ \A q \in Proc : ComesFrom(q, from) => q = p
  BY <1>3, <1>4 DEF SInv, ComesOK
<1>6. \A q \in Proc, t \in TCB : GoesTo(q, t)' <=> GoesTo(q, t)
  BY <1>1, <1>2 DEF GoesTo, Typed
<1>7. \A q \in Proc, t \in TCB : ComesFrom(q, t)' <=> ComesFrom(q, t) /\ q # p
  BY <1>1, <1>2 DEF ComesFrom, After, Typed
<1>8. \A t \in TCB : /\ Queued(t)' <=> Queued(t) \/ t = from
                     /\ JoinWaits(t)' <=> JoinWaits(t)
                     /\ Pending(t)' <=> Pending(t)
  BY DEF Queued, JoinWaits, Pending
<1>9. \A t \in TCB : Startable(t) => Startable(t)'
  BY <1>1, <1>2, <1>7, <1>8 DEF Startable
<1>10. Startable(from)'
  <2>1. ~Pending(from)
    BY <1>3, <1>4 DEF Pending, JoinWaits, SInv, WaitsOK
  <2> QED BY <1>2, <1>3, <1>5, <1>7, <1>8, <2>1 DEF Startable
<1>11. \A q \in Proc : ~GoesTo(q, from)
  BY <1>3, <1>4 DEF SInv, GoesOK, Startable
<1> HIDE DEF me
<1>12. Stacks'
  BY <1>1, <1>2 DEF SInv, Stacks, Typed, me
<1>13. CallsOK'
  BY <1>1, <1>2 DEF SInv, CallsOK, CallOK
<1>14. StatesOK'
  <2> SUFFICES ASSUME NEW t \in TCB PROVE StateOK(t)'
    BY DEF StatesOK
  <2>1. StateOK(t) /\ CallOK(t)
    BY DEF SInv, StatesOK, CallsOK
  <2>2. CASE t # me
    BY <1>1, <1>2, <2>1, <2>2 DEF StateOK
  <2>3. CASE t = me
    BY <1>1, <1>2, <2>1, <2>3 DEF StateOK, CallOK, Stopping, Ended, me
  <2> QED BY <2>2, <2>3
<1>15. QueueOK'
  BY <1>4, <1>8, <1>9, <1>10 DEF SInv, QueueOK
<1>16. GoesOK'
  BY <1>6, <1>8, <1>9, <1>11 DEF SInv, GoesOK
<1>17. ComesOK'
  BY <1>2, <1>7 DEF SInv, ComesOK, StatesOK, StateOK, me
<1>18. WaitsOK'
  BY <1>2 DEF SInv, WaitsOK, Stopping, me
<1>19. PhasesOK'
  BY <1>1, <1>2 DEF SInv, PhasesOK, me, Typed
<1>20. ClaimsOK'
  BY <1>2 DEF SInv, ClaimsOK, Claiming, me
<1>21. ReturnsOK'
  <2>1. \A t \in TCB : call[t] = "join" => (Ready(t)' <=> Ready(t))
    BY <1>3, <1>6, <1>8 DEF Ready
  <2> QED BY <1>2, <1>8, <2>1 DEF SInv, ReturnsOK, After, Stopping, me
<1> QED
  BY <1>12, <1>13, <1>14, <1>15, <1>16, <1>17, <1>18, <1>19, <1>20, <1>21
    DEF SInv

\* The thread is RUNNING again, and back in its own code or in uthread_join.
LEMMA ResumeKeeps ==
  ASSUME Typed, Typed', SInv, ParkersOnlyPark, NEW p \in Proc,
         NEW b, b = IF call[cur[p]] = "join" THEN "joined" ELSE "user",
         cur[p] # NoThread, place[cur[p]] = "resume",
         place' = [place EXCEPT ![cur[p]] = b],
         state' = [state EXCEPT ![cur[p]] = "RUNNING"],
         UNCHANGED <<joiner, heap, ready, cur, regs, call, peer, arg, waiting,
                     claimed>>
  PROVE  SInv'
<1> USE NamesDistinct
<1> DEFINE me == cur[p]
<1>1. /\ me \in TCB
      /\ \A q \in Proc : cur[q] = me => q = p
  BY DEF Typed, SInv, Stacks
<1>2. \A t \in TCB : place'[t] = IF t = me THEN b ELSE place[t]
  BY <1>1 DEF Typed
<1>3. /\ \A t \in TCB : state'[t] = IF t = me THEN "RUNNING" ELSE state[t]
      /\ state[me] \notin Ended /\ call[me] # "exit"
  BY <1>1 DEF Typed, SInv, StatesOK, StateOK, Stopping
<1>4. \A t \in TCB : state'[t] \in Ended <=> state[t] \in Ended
  BY <1>3 DEF Ended
<1>5. \A q \in Proc, t \in TCB : GoesTo(q, t)' <=> GoesTo(q, t)
  BY <1>1, <1>2 DEF GoesTo, Typed
<1>6. \A q \in Proc, t \in TCB : ComesFrom(q, t)' <=> ComesFrom(q, t)
  BY <1>1, <1>2 DEF ComesFrom, After, Typed
<1>7. \A t \in TCB : /\ Queued(t)' <=> Queued(t)
                     /\ JoinWaits(t)' <=> JoinWaits(t)
                     /\ Pending(t)' <=> Pending(t)
  BY <1>4 DEF Queued, JoinWaits, Pending
<1>8. \A t \in TCB : Startable(t) => Startable(t)'
  BY <1>1, <1>2, <1>6, <1>7 DEF Startable
<1> HIDE DEF me
<1>9. Stacks'
  BY <1>1, <1>2 DEF SInv, Stacks, Typed, me
<1>10. CallsOK'
  BY <1>1, <1>2 DEF SInv, CallsOK, CallOK
<1>11. StatesOK'
  <2> SUFFICES ASSUME NEW t \in TCB PROVE StateOK(t)'
    BY DEF StatesOK
  <2>1. StateOK(t) /\ CallOK(t)
    BY DEF SInv, StatesOK, CallsOK
  <2>2. CASE t # me
    BY <1>1, <1>2, <1>3, <2>1, <2>2 DEF StateOK
  <2>3. CASE t = me
    BY <1>1, <1>2, <1>3, <2>1, <2>3 DEF StateOK, CallOK, Stopping, Ended, me
  <2> QED BY <2>2, <2>3
<1>12. QueueOK'
  BY <1>7, <1>8 DEF SInv, QueueOK
<1>13. GoesOK'
  BY <1>5, <1>7, <1>8 DEF SInv, GoesOK
<1>14. ComesOK'
  BY <1>2, <1>3, <1>6 DEF SInv, ComesOK, me
<1>15. WaitsOK'
  BY <1>2, <1>4 DEF SInv, WaitsOK, Stopping, me
<1>16. PhasesOK'
  <2>1. ASSUME NEW q \in Proc, cur[q] # NoThread, peer[cur[q]] = me
        PROVE  place[cur[q]] \notin {"reap", "requeue"}
    <3>1. place[cur[q]] # "reap"
      BY <1>3, <2>1 DEF SInv, PhasesOK, Ended
    <3>2. ASSUME place[cur[q]] = "requeue" PROVE FALSE
      <4>1. ComesFrom(q, me) /\ call[me] = "yield"
        BY <1>1, <2>1, <3>2
          DEF ComesFrom, After, SInv, PhasesOK, StatesOK, StateOK
      <4> QED
        BY <1>1, <4>1 DEF SInv, ComesOK, CallsOK, CallOK, ParkersOnlyPark, me
    <3> QED BY <3>1, <3>2
  <2> QED BY <1>1, <1>2, <1>3, <2>1 DEF SInv, PhasesOK, me, Typed, Switching
<1>17. ClaimsOK'
  BY <1>2 DEF SInv, ClaimsOK, Claiming, me
<1>18. ReturnsOK'
  <2>1. \A t \in TCB : Ready(t)' <=> Ready(t)
    BY <1>5, <1>7 DEF Ready
  <2> QED
    BY <1>2, <1>4, <1>7, <2>1, ArgOfClaim
      DEF SInv, ReturnsOK, Claiming, After, Stopping, me
<1> QED
  BY <1>9, <1>10, <1>11, <1>12, <1>13, <1>14, <1>15, <1>16, <1>17, <1>18
    DEF SInv

\* A thread yields or blocks, a pthread_base blocks.
LEMMA StopKeeps ==
  ASSUME Typed, Typed', SInv, NEW p \in Proc,
         NEW c, cur[p] # NoThread, place[cur[p]] = "user",
         \/ c = "yield" /\ cur[p] \in Thread /\ "yield" \in Ops[cur[p]]
            /\ waiting' = waiting
         \/ c = "block" /\ cur[p] \in Thread /\ "block" \in Ops[cur[p]]
            /\ waiting' = waiting \cup {cur[p]}
         \/ c = "block" /\ cur[p] \in Proc /\ waiting' = waiting,
         place' = [place EXCEPT ![cur[p]] = "deq"],
         call' = [call EXCEPT ![cur[p]] = c],
         UNCHANGED <<state, joiner, heap, ready, cur, regs, peer, arg, claimed>>
  PROVE  SInv'
<1> USE NamesDistinct
<1> DEFINE me == cur[p]
<1>1. /\ me \in TCB
      /\ \A q \in Proc : cur[q] = me => q = p
  BY DEF Typed, SInv, Stacks
<1>2. \A t \in TCB : place'[t] = IF t = me THEN "deq" ELSE place[t]
  BY <1>1 DEF Typed
<1>3. \A t \in TCB : call'[t] = IF t = me THEN c ELSE call[t]
  BY <1>1 DEF Typed
<1>4. \A q \in Proc, t \in TCB : GoesTo(q, t)' <=> GoesTo(q, t)
  BY <1>1, <1>2 DEF GoesTo, Typed
<1>5. \A q \in Proc, t \in TCB : ComesFrom(q, t)' <=> ComesFrom(q, t)
  BY <1>1, <1>2 DEF ComesFrom, After, Typed
<1>6. \A t \in TCB : /\ Queued(t)' <=> Queued(t)
                     /\ JoinWaits(t)' <=> JoinWaits(t)
                     /\ t # me => (Pending(t)' <=> Pending(t))
  BY DEF Queued, JoinWaits, Pending
<1>7. ~Startable(me)
  BY DEF Startable
<1>8. \A t \in TCB : Startable(t) => Startable(t)'
  BY <1>2, <1>3, <1>5, <1>6, <1>7 DEF Startable
<1>9. state[me] = "RUNNING" /\ call[me] # "exit" /\ heap[me] = "live"
  BY <1>1 DEF SInv, StatesOK, StateOK, Stopping
<1> HIDE DEF me
<1>10. Stacks'
  BY <1>1, <1>2 DEF SInv, Stacks, Typed, me
<1>11. CallsOK'
  BY <1>1, <1>2, <1>3 DEF SInv, CallsOK, CallOK, me
<1>12. StatesOK'
  <2> SUFFICES ASSUME NEW t \in TCB PROVE StateOK(t)'
    BY DEF StatesOK
  <2>1. StateOK(t) /\ CallOK(t)
    BY DEF SInv, StatesOK, CallsOK
  <2>2. CASE t # me
    BY <1>1, <1>2, <1>3, <1>9, <2>1, <2>2 DEF StateOK
  <2>3. CASE t = me
    BY <1>1, <1>2, <1>3, <1>9, <2>1, <2>3
      DEF StateOK, CallOK, Stopping, Ended, me
  <2> QED BY <2>2, <2>3
<1>13. QueueOK'
  BY <1>6, <1>8 DEF SInv, QueueOK
<1>14. GoesOK'
  BY <1>4, <1>6, <1>8 DEF SInv, GoesOK
<1>15. ComesOK'
  BY <1>2, <1>5 DEF SInv, ComesOK, me
<1>16. WaitsOK'
  BY <1>1, <1>2, <1>3, <1>9 DEF SInv, WaitsOK, Stopping, me
<1>17. PhasesOK'
  BY <1>1, <1>2 DEF SInv, PhasesOK, me, Typed
<1>18. ClaimsOK'
  BY <1>2, <1>3 DEF SInv, ClaimsOK, Claiming, me
<1>19. ReturnsOK'
  <2>1. \A t \in TCB : Ready(t)' <=> Ready(t)
    BY <1>4, <1>6 DEF Ready
  <2> QED BY <1>2, <1>3, <1>6, <2>1 DEF SInv, ReturnsOK, After, Stopping, me
<1> QED
  BY <1>10, <1>11, <1>12, <1>13, <1>14, <1>15, <1>16, <1>17, <1>18, <1>19
    DEF SInv

\* A new thread is ready; nothing spoke of it before.
LEMMA CreateKeeps ==
  ASSUME Typed, Typed', SInv, NEW u \in Thread, heap[u] = "none",
         heap' = [heap EXCEPT ![u] = "live"],
         Elems(ready') = Elems(ready) \cup {u}, Once(ready'),
         UNCHANGED <<place, state, joiner, cur, regs, call, peer, arg, waiting,
                     claimed>>
  PROVE  SInv'
<1> USE NamesDistinct
<1>1. \A t \in TCB : heap'[t] = IF t = u THEN "live" ELSE heap[t]
  BY DEF Typed
<1>2. place[u] = "off" /\ call[u] = "start"
  BY DEF SInv, StatesOK, StateOK
<1>3. \A q \in Proc, t \in TCB : GoesTo(q, t)' <=> GoesTo(q, t)
  BY DEF GoesTo
<1>4. \A q \in Proc, t \in TCB : ComesFrom(q, t)' <=> ComesFrom(q, t)
  BY DEF ComesFrom
<1>5. \A t \in TCB : /\ Queued(t)' <=> Queued(t) \/ t = u
                     /\ JoinWaits(t)' <=> JoinWaits(t)
                     /\ Pending(t)' <=> Pending(t)
  BY DEF Queued, JoinWaits, Pending
<1>6. \A t \in TCB : Startable(t) => Startable(t)'
  BY <1>1, <1>4, <1>5 DEF Startable
<1>7. Startable(u)'
  <2>1. ~Pending(u)
    BY DEF Pending, JoinWaits, SInv, WaitsOK
  <2>2. \A q \in Proc : ~ComesFrom(q, u)
    BY DEF SInv, ComesOK
  <2> QED BY <1>1, <1>2, <1>4, <1>5, <2>1, <2>2 DEF Startable
<1>8. \A q \in Proc : ~GoesTo(q, u)
  BY DEF SInv, GoesOK, Startable
<1>9. Stacks'
  BY DEF SInv, Stacks
<1>10. CallsOK'
  BY DEF SInv, CallsOK, CallOK
<1>11. StatesOK'
  BY <1>1, <1>2 DEF SInv, StatesOK, StateOK
<1>12. QueueOK'
  BY <1>5, <1>6, <1>7 DEF SInv, QueueOK
<1>13. GoesOK'
  BY <1>3, <1>5, <1>6, <1>8 DEF SInv, GoesOK
<1>14. ComesOK'
  BY <1>1, <1>4 DEF SInv, ComesOK
<1>15. WaitsOK'
  BY <1>1 DEF SInv, WaitsOK
<1>16. PhasesOK'
  BY DEF SInv, PhasesOK
<1>17. ClaimsOK'
  BY <1>1, ArgOfClaim DEF SInv, ClaimsOK, Claiming
<1>18. ReturnsOK'
  <2>1. \A t \in TCB : call[t] = "join" => (Ready(t)' <=> Ready(t))
    BY <1>2, <1>3, <1>5 DEF Ready
  <2> QED BY <1>5, <2>1 DEF SInv, ReturnsOK
<1> QED
  BY <1>9, <1>10, <1>11, <1>12, <1>13, <1>14, <1>15, <1>16, <1>17, <1>18
    DEF SInv

\* The heart of the argument: a thread that blocked or joins and is about to
\* be started by the running thread can be queued.  On one pthread it is off
\* its stack, as the starter is on the processor; on several it only parks.
LEMMA ParkedStartable ==
  ASSUME Typed, SInv, NEW p \in Proc, cur[p] # NoThread, place[cur[p]] = "user",
         NEW u \in Thread, Pending(u)
  PROVE  /\ heap[u] = "live" /\ call[u] \in {"block", "join"} /\ u # cur[p]
         /\ place[u] = "off" \/ (u \in Parks /\ place[u] \in {"deq", "switch"})
         /\ u \in Parks \/ \A q \in Proc : ~ComesFrom(q, u)
         /\ ~Queued(u) /\ \A q \in Proc : ~GoesTo(q, u)
<1> USE NamesDistinct
<1>1. /\ heap[u] = "live" /\ place[u] \in Stopping
      /\ \/ call[u] = "block" /\ "block" \in Ops[u]
         \/ call[u] = "join" /\ "join" \in Ops[u]
  <2>1. CallOK(u)
    BY DEF SInv, CallsOK
  <2>2. CASE u \in waiting
    <3>1. heap[u] = "live" /\ place[u] \in Stopping /\ call[u] = "block"
      BY <2>2 DEF SInv, WaitsOK
    <3> QED BY <2>1, <3>1 DEF CallOK
  <2>3. CASE JoinWaits(u)
    BY <2>1, <2>3 DEF JoinWaits, SInv, WaitsOK, CallOK
  <2> QED BY <2>2, <2>3 DEF Pending
<1>2. u # cur[p]
  BY <1>1 DEF Stopping
<1>3. CASE u \in Parks
  BY <1>1, <1>2, <1>3 DEF Stopping, SInv, QueueOK, GoesOK, Startable
<1>4. CASE u \notin Parks
  <2>1. Proc = {Boot}
    BY <1>1, <1>4 DEF Parks
  <2>2. \A q \in Proc : q = p
    BY <2>1
  <2>3. place[u] = "off"
    BY <1>2, <2>2 DEF SInv, Stacks
  <2>4. \A q \in Proc : ~ComesFrom(q, u)
    BY <2>2 DEF ComesFrom, After
  <2> QED BY <1>1, <1>2, <2>3, <2>4 DEF SInv, QueueOK, GoesOK, Startable
<1> QED BY <1>3, <1>4

\* A client starts a thread it had queued.
LEMMA UnblockKeeps ==
  ASSUME Typed, Typed', SInv, NEW p \in Proc, cur[p] # NoThread, place[cur[p]] = "user",
         NEW u \in waiting, waiting' = waiting \ {u},
         Elems(ready') = Elems(ready) \cup {u}, Once(ready'),
         UNCHANGED <<place, state, joiner, heap, cur, regs, call, peer, arg, claimed>>
  PROVE  SInv'
<1> USE NamesDistinct
<1>1. u \in Thread /\ u \in TCB /\ Pending(u)
  BY DEF Typed, Pending
<1>2. call[u] = "block"
  BY DEF SInv, WaitsOK
<1>3. \A q \in Proc, t \in TCB : GoesTo(q, t)' <=> GoesTo(q, t)
  BY DEF GoesTo
<1>4. \A q \in Proc, t \in TCB : ComesFrom(q, t)' <=> ComesFrom(q, t)
  BY DEF ComesFrom
<1>5. \A t \in TCB : /\ Queued(t)' <=> Queued(t) \/ t = u
                     /\ JoinWaits(t)' <=> JoinWaits(t)
                     /\ t # u => (Pending(t)' <=> Pending(t))
  BY DEF Queued, JoinWaits, Pending
<1>6. \A t \in TCB : Startable(t) => Startable(t)'
  BY <1>1, <1>4, <1>5 DEF Startable
<1>7. Startable(u)'
  <2>1. ~Pending(u)'
    BY <1>1, <1>2, <1>5 DEF Pending, JoinWaits, SInv, WaitsOK
  <2> QED BY <1>1, <1>4, <2>1, ParkedStartable DEF Startable
<1>8. \A q \in Proc : ~GoesTo(q, u)
  BY <1>1, ParkedStartable
<1>9. Stacks'
  BY DEF SInv, Stacks
<1>10. CallsOK'
  BY DEF SInv, CallsOK, CallOK
<1>11. StatesOK'
  BY DEF SInv, StatesOK, StateOK
<1>12. QueueOK'
  BY <1>1, <1>5, <1>6, <1>7 DEF SInv, QueueOK
<1>13. GoesOK'
  BY <1>3, <1>5, <1>6, <1>8 DEF SInv, GoesOK
<1>14. ComesOK'
  BY <1>4 DEF SInv, ComesOK
<1>15. WaitsOK'
  BY DEF SInv, WaitsOK
<1>16. PhasesOK'
  BY DEF SInv, PhasesOK
<1>17. ClaimsOK'
  BY DEF SInv, ClaimsOK, Claiming
<1>18. ReturnsOK'
  <2>1. \A t \in TCB : call[t] = "join" => (Ready(t)' <=> Ready(t))
    BY <1>2, <1>3, <1>5 DEF Ready
  <2> QED BY <1>5, <2>1 DEF SInv, ReturnsOK
<1> QED
  BY <1>9, <1>10, <1>11, <1>12, <1>13, <1>14, <1>15, <1>16, <1>17, <1>18
    DEF SInv

\* The unlocked test of joiner, by join and by detach.
LEMMA ClaimKeeps ==
  ASSUME Typed, Typed', SInv, NEW p \in Proc, cur[p] \in Thread, place[cur[p]] = "user",
         NEW b \in {"join", "detach"}, b = "join" => "join" \in Ops[cur[p]],
         NEW u \in Thread, heap[u] # "none", u \notin claimed,
         claimed' = claimed \cup {u},
         \/ /\ joiner[u] = NoThread
            /\ place' = [place EXCEPT ![cur[p]] = b]
            /\ arg' = [arg EXCEPT ![cur[p]] = u]
         \/ UNCHANGED <<place, arg>>,
         UNCHANGED <<state, joiner, heap, ready, cur, regs, call, peer, waiting>>
  PROVE  SInv'
<1> USE NamesDistinct
<1> DEFINE me == cur[p]
<1>1. /\ me \in TCB
      /\ \A q \in Proc : cur[q] = me => q = p
  BY DEF Typed, SInv, Stacks
<1>2. \A t \in TCB : /\ t # me => place'[t] = place[t] /\ arg'[t] = arg[t]
                     /\ \/ place'[me] = b /\ arg'[me] = u /\ joiner[u] = NoThread
                        \/ place'[me] = "user" /\ arg'[me] = arg[me]
  BY <1>1 DEF Typed
<1>3. heap[u] = "live"
  BY DEF SInv, ClaimsOK, Typed
<1>4. \A q \in Proc, t \in TCB : GoesTo(q, t)' <=> GoesTo(q, t)
  BY <1>1, <1>2 DEF GoesTo, Typed
<1>5. \A q \in Proc, t \in TCB : ComesFrom(q, t)' <=> ComesFrom(q, t)
  BY <1>1, <1>2 DEF ComesFrom, After, Typed
<1>6. \A t \in TCB : /\ Queued(t)' <=> Queued(t)
                     /\ JoinWaits(t)' <=> JoinWaits(t)
                     /\ Pending(t)' <=> Pending(t)
  BY DEF Queued, JoinWaits, Pending
<1>7. ~Startable(me)
  BY DEF Startable
<1>8. \A t \in TCB : Startable(t) => Startable(t)'
  BY <1>2, <1>5, <1>6, <1>7 DEF Startable
<1> HIDE DEF me
<1>9. Stacks'
  BY <1>1, <1>2 DEF SInv, Stacks, Typed, me
<1>10. CallsOK'
  BY <1>1, <1>2 DEF SInv, CallsOK, CallOK, me
<1>11. StatesOK'
  <2> SUFFICES ASSUME NEW t \in TCB PROVE StateOK(t)'
    BY DEF StatesOK
  <2>1. StateOK(t) /\ CallOK(t)
    BY DEF SInv, StatesOK, CallsOK
  <2>2. CASE t # me
    BY <1>1, <1>2, <2>1, <2>2 DEF StateOK
  <2>3. CASE t = me
    BY <1>1, <1>2, <2>1, <2>3 DEF StateOK, CallOK, Stopping, Ended, me
  <2> QED BY <2>2, <2>3
<1>12. QueueOK'
  BY <1>6, <1>8 DEF SInv, QueueOK
<1>13. GoesOK'
  BY <1>4, <1>6, <1>8 DEF SInv, GoesOK
<1>14. ComesOK'
  BY <1>2, <1>5 DEF SInv, ComesOK, me
<1>15. WaitsOK'
  <2>1. \A t \in TCB : place[t] \in Stopping => place'[t] = place[t] /\ arg'[t] = arg[t]
    BY <1>2 DEF Stopping, me
  <2>2. waiting \subseteq TCB
    BY DEF Typed
  <2> QED BY <2>1, <2>2 DEF SInv, WaitsOK
<1>16. PhasesOK'
  BY <1>1, <1>2 DEF SInv, PhasesOK, me, Typed
<1>17. ClaimsOK'
  BY <1>1, <1>2, <1>3 DEF SInv, ClaimsOK, Claiming, me
<1>18. ReturnsOK'
  <2>1. \A t \in TCB : Ready(t)' <=> Ready(t)
    BY <1>4, <1>6 DEF Ready
  <2> QED
    BY <1>2, <1>6, <1>7, <2>1, ArgOfClaim
      DEF SInv, ReturnsOK, After, Stopping, me
<1> QED
  BY <1>9, <1>10, <1>11, <1>12, <1>13, <1>14, <1>15, <1>16, <1>17, <1>18
    DEF SInv

\* Under the join_spinlock a thread becomes the joiner and stops.
LEMMA JoinKeeps ==
  ASSUME Typed, Typed', SInv, NEW p \in Proc, cur[p] # NoThread, place[cur[p]] = "join",
         NEW u \in Thread, u = arg[cur[p]], state[u] \notin Ended,
         joiner' = [joiner EXCEPT ![u] = cur[p]],
         place' = [place EXCEPT ![cur[p]] = "deq"],
         call' = [call EXCEPT ![cur[p]] = "join"],
         UNCHANGED <<state, heap, ready, cur, regs, peer, arg, waiting, claimed>>
  PROVE  SInv'
<1> USE NamesDistinct
<1> DEFINE me == cur[p]
<1>1. /\ me \in TCB
      /\ \A q \in Proc : cur[q] = me => q = p
  BY DEF Typed, SInv, Stacks
<1>2. \A t \in TCB : place'[t] = IF t = me THEN "deq" ELSE place[t]
  BY <1>1 DEF Typed
<1>3. /\ \A t \in TCB : call'[t] = IF t = me THEN "join" ELSE call[t]
      /\ \A t \in TCB : joiner'[t] = IF t = u THEN me ELSE joiner[t]
  BY <1>1 DEF Typed
<1>4. /\ me \in Thread /\ "join" \in Ops[me] /\ heap[me] = "live"
      /\ state[me] = "RUNNING" /\ u \in claimed
  BY <1>1 DEF SInv, CallsOK, CallOK, StatesOK, StateOK, ClaimsOK, Claiming
<1>5. \A t \in TCB : Claiming(t) /\ arg[t] = u => t = me
  BY <1>1 DEF SInv, ClaimsOK, Claiming
<1>6. ~JoinWaits(me) /\ ~Startable(me)
  <2>1. place[me] \notin Stopping
    BY DEF Stopping
  <2> QED BY <1>4, <2>1 DEF JoinWaits, SInv, WaitsOK, Startable, Stopping
<1>7. \A t \in TCB : t # me => ~(joiner[u] = t)
  <2> SUFFICES ASSUME NEW t \in TCB, t # me, joiner[u] = t PROVE FALSE
    OBVIOUS
  <2>1. t \in Thread
    BY DEF Typed
  <2>2. call[t] = "join" /\ arg[t] = u /\ place[t] \in Stopping
    BY <2>1 DEF SInv, WaitsOK
  <2> QED BY <1>5, <2>2 DEF Claiming, Stopping
<1>8. \A q \in Proc, t \in TCB : GoesTo(q, t)' <=> GoesTo(q, t)
  BY <1>1, <1>2 DEF GoesTo, Typed
<1>9. \A q \in Proc, t \in TCB : ComesFrom(q, t)' <=> ComesFrom(q, t)
  BY <1>1, <1>2 DEF ComesFrom, After, Typed
<1>10. \A t \in TCB : /\ Queued(t)' <=> Queued(t)
                      /\ JoinWaits(t)' <=> JoinWaits(t) \/ t = me
                      /\ t # me => (Pending(t)' <=> Pending(t))
  BY <1>3, <1>7 DEF Queued, JoinWaits, Pending
<1>11. \A t \in TCB : Startable(t) => Startable(t)'
  BY <1>2, <1>3, <1>6, <1>9, <1>10 DEF Startable
<1> HIDE DEF me
<1>12. Stacks'
  BY <1>1, <1>2 DEF SInv, Stacks, Typed, me
<1>13. CallsOK'
  BY <1>2, <1>3, <1>4 DEF SInv, CallsOK, CallOK
<1>14. StatesOK'
  <2> SUFFICES ASSUME NEW t \in TCB PROVE StateOK(t)'
    BY DEF StatesOK
  <2>1. StateOK(t) /\ CallOK(t)
    BY DEF SInv, StatesOK, CallsOK
  <2>2. CASE t # me
    BY <1>1, <1>2, <1>3, <1>4, <2>1, <2>2 DEF StateOK
  <2>3. CASE t = me
    BY <1>1, <1>2, <1>3, <1>4, <2>1, <2>3
      DEF StateOK, CallOK, Stopping, Ended, me
  <2> QED BY <2>2, <2>3
<1>15. QueueOK'
  BY <1>10, <1>11 DEF SInv, QueueOK
<1>16. GoesOK'
  BY <1>8, <1>10, <1>11 DEF SInv, GoesOK
<1>17. ComesOK'
  BY <1>2, <1>9 DEF SInv, ComesOK, me
<1>18. WaitsOK'
  BY <1>2, <1>3, <1>4, <1>6, <1>7 DEF SInv, WaitsOK, JoinWaits, Stopping, me
<1>19. PhasesOK'
  BY <1>1, <1>2 DEF SInv, PhasesOK, me, Typed
<1>20. ClaimsOK'
  BY <1>2, <1>3, <1>4 DEF SInv, ClaimsOK, Claiming, me
<1>21. ReturnsOK'
  <2>1. \A t \in TCB : Ready(t)' <=> Ready(t)
    BY <1>8, <1>10 DEF Ready
  <2>2. ~Ready(me)
    BY <1>1, <1>6 DEF Ready, SInv, QueueOK, GoesOK
  <2> QED
    BY <1>2, <1>3, <1>10, <2>1, <2>2 DEF SInv, ReturnsOK, After, Stopping, me
<1> QED
  BY <1>12, <1>13, <1>14, <1>15, <1>16, <1>17, <1>18, <1>19, <1>20, <1>21
    DEF SInv

\* ... or finds the thread to have returned, and goes straight on.
LEMMA SkipJoinKeeps ==
  ASSUME Typed, Typed', SInv, NEW p \in Proc, cur[p] # NoThread, place[cur[p]] = "join",
         state[arg[cur[p]]] \in Ended,
         place' = [place EXCEPT ![cur[p]] = "joined"],
         UNCHANGED <<state, joiner, heap, ready, cur, regs, call, peer, arg, waiting,
                     claimed>>
  PROVE  SInv'
<1> USE NamesDistinct
<1> DEFINE me == cur[p]
<1>1. /\ me \in TCB
      /\ \A q \in Proc : cur[q] = me => q = p
  BY DEF Typed, SInv, Stacks
<1>2. \A t \in TCB : place'[t] = IF t = me THEN "joined" ELSE place[t]
  BY <1>1 DEF Typed
<1>3. \A q \in Proc, t \in TCB : GoesTo(q, t)' <=> GoesTo(q, t)
  BY <1>1, <1>2 DEF GoesTo, Typed
<1>4. \A q \in Proc, t \in TCB : ComesFrom(q, t)' <=> ComesFrom(q, t)
  BY <1>1, <1>2 DEF ComesFrom, After, Typed
<1>5. \A t \in TCB : /\ Queued(t)' <=> Queued(t)
                     /\ JoinWaits(t)' <=> JoinWaits(t)
                     /\ Pending(t)' <=> Pending(t)
  BY DEF Queued, JoinWaits, Pending
<1>6. \A t \in TCB : Startable(t) => Startable(t)'
  BY <1>1, <1>2, <1>4, <1>5 DEF Startable
<1> HIDE DEF me
<1>7. Stacks'
  BY <1>1, <1>2 DEF SInv, Stacks, Typed, me
<1>8. CallsOK'
  BY <1>1, <1>2 DEF SInv, CallsOK, CallOK
<1>9. StatesOK'
  <2> SUFFICES ASSUME NEW t \in TCB PROVE StateOK(t)'
    BY DEF StatesOK
  <2>1. StateOK(t) /\ CallOK(t)
    BY DEF SInv, StatesOK, CallsOK
  <2>2. CASE t # me
    BY <1>1, <1>2, <2>1, <2>2 DEF StateOK
  <2>3. CASE t = me
    BY <1>1, <1>2, <2>1, <2>3 DEF StateOK, CallOK, Stopping, Ended, me
  <2> QED BY <2>2, <2>3
<1>10. QueueOK'
  BY <1>5, <1>6 DEF SInv, QueueOK
<1>11. GoesOK'
  BY <1>3, <1>5, <1>6 DEF SInv, GoesOK
<1>12. ComesOK'
  BY <1>2, <1>4 DEF SInv, ComesOK, me
<1>13. WaitsOK'
  BY <1>2 DEF SInv, WaitsOK, Stopping, me, Typed
<1>14. PhasesOK'
  BY <1>1, <1>2 DEF SInv, PhasesOK, me, Typed
<1>15. ClaimsOK'
  BY <1>2 DEF SInv, ClaimsOK, Claiming, me
<1>16. ReturnsOK'
  <2>1. \A t \in TCB : Ready(t)' <=> Ready(t)
    BY <1>3, <1>5 DEF Ready
  <2> QED BY <1>2, <1>5, <2>1 DEF SInv, ReturnsOK, After, Stopping, me
<1> QED
  BY <1>7, <1>8, <1>9, <1>10, <1>11, <1>12, <1>13, <1>14, <1>15, <1>16 DEF SInv

\* Joined and Detach: free the thread that is DEAD, or leave that to Reap.
LEMMA SettleKeeps ==
  ASSUME Typed, Typed', SInv, NEW p \in Proc, cur[p] # NoThread,
         place[cur[p]] \in {"joined", "detach"},
         NEW u \in Thread, u = arg[cur[p]],
         \/ /\ state[u] = "DEAD" /\ heap' = [heap EXCEPT ![u] = "freed"]
            /\ joiner' = joiner
         \/ /\ joiner' = [joiner EXCEPT ![u] = Detached] /\ heap' = heap,
         place' = [place EXCEPT ![cur[p]] = "user"],
         UNCHANGED <<state, ready, cur, regs, call, peer, arg, waiting, claimed>>
  PROVE  SInv'
<1> USE NamesDistinct
<1> DEFINE me == cur[p]
<1>1. /\ me \in TCB
      /\ \A q \in Proc : cur[q] = me => q = p
  BY DEF Typed, SInv, Stacks
<1>2. \A t \in TCB : place'[t] = IF t = me THEN "user" ELSE place[t]
  BY <1>1 DEF Typed
<1>3. /\ \A t \in TCB : t # u => heap'[t] = heap[t] /\ joiner'[t] = joiner[t]
      /\ \/ state[u] = "DEAD" /\ call[u] = "exit" /\ heap'[u] = "freed"
            /\ joiner'[u] = joiner[u]
         \/ heap'[u] = heap[u] /\ joiner'[u] = Detached
  BY DEF Typed, SInv, StatesOK, StateOK, Ended
<1>4. u \in claimed /\ \A t \in TCB : Claiming(t) /\ arg[t] = u => t = me
  BY <1>1 DEF SInv, ClaimsOK, Claiming
<1>5. ~(joiner[u] \in Thread /\ state[u] \notin Ended)
  <2> SUFFICES ASSUME joiner[u] \in Thread, state[u] \notin Ended PROVE FALSE
    OBVIOUS
  <2> DEFINE t == joiner[u]
  <2>1. call[t] = "join" /\ arg[t] = u /\ place[t] \in Stopping
    BY DEF SInv, WaitsOK
  <2>2. t = me
    BY <1>4, <2>1 DEF Claiming, Stopping
  <2> QED BY <2>1, <2>2 DEF Stopping
<1>6. \A q \in Proc, t \in TCB : GoesTo(q, t)' <=> GoesTo(q, t)
  BY <1>1, <1>2 DEF GoesTo, Typed
<1>7. \A q \in Proc, t \in TCB : ComesFrom(q, t)' <=> ComesFrom(q, t)
  BY <1>1, <1>2 DEF ComesFrom, After, Typed
<1>8. \A t \in Thread, v \in Thread :
        joiner'[v] = t /\ state[v] \notin Ended <=> joiner[v] = t /\ state[v] \notin Ended
  BY <1>3, <1>5
<1>9. \A t \in TCB : /\ Queued(t)' <=> Queued(t)
                     /\ JoinWaits(t)' <=> JoinWaits(t)
                     /\ Pending(t)' <=> Pending(t)
  <2>1. \A t \in Thread : JoinWaits(t)' <=> JoinWaits(t)
    BY <1>8 DEF JoinWaits
  <2>2. \A t \in TCB : (JoinWaits(t) => t \in Thread) /\ (JoinWaits(t)' => t \in Thread)
    BY DEF JoinWaits, Typed
  <2> QED BY <2>1, <2>2 DEF Queued, Pending
<1>10. \A t \in TCB : Startable(t) => Startable(t)'
  BY <1>1, <1>2, <1>3, <1>7, <1>9 DEF Startable
<1>11. \A t \in TCB : call[t] # "exit" => heap'[t] = heap[t]
  BY <1>3
<1> HIDE DEF me
<1>12. Stacks'
  BY <1>1, <1>2 DEF SInv, Stacks, Typed, me
<1>13. CallsOK'
  BY <1>1, <1>2 DEF SInv, CallsOK, CallOK
<1>14. StatesOK'
  <2> SUFFICES ASSUME NEW t \in TCB PROVE StateOK(t)'
    BY DEF StatesOK
  <2>1. StateOK(t) /\ CallOK(t)
    BY DEF SInv, StatesOK, CallsOK
  <2>2. heap'[t] = heap[t] \/ (heap'[t] = "freed" /\ state[t] = "DEAD" /\ call[t] = "exit")
    BY <1>3
  <2>3. CASE t # me
    BY <1>2, <2>1, <2>2, <2>3 DEF StateOK
  <2>4. CASE t = me
    BY <1>1, <1>2, <2>1, <2>2, <2>4 DEF StateOK, CallOK, Stopping, Ended, me
  <2> QED BY <2>3, <2>4
<1>15. QueueOK'
  BY <1>9, <1>10 DEF SInv, QueueOK
<1>16. GoesOK'
  BY <1>6, <1>9, <1>10 DEF SInv, GoesOK
<1>17. ComesOK'
  BY <1>2, <1>3, <1>7 DEF SInv, ComesOK, me
<1>18. WaitsOK'
  <2>1. \A t \in TCB : place[t] \in Stopping /\ call[t] # "exit" =>
          place'[t] = place[t] /\ heap'[t] = heap[t]
    BY <1>2, <1>11 DEF me, Stopping
  <2>2. \A t \in waiting : t \in TCB
    BY DEF Typed
  <2> QED BY <1>8, <2>1, <2>2 DEF SInv, WaitsOK
<1>19. PhasesOK'
  BY <1>1, <1>2 DEF SInv, PhasesOK, me, Typed
<1>20. ClaimsOK'
  <2>1. \A t \in TCB : Claiming(t)' => Claiming(t) /\ t # me
    BY <1>2 DEF Claiming
  <2>2. \A t \in TCB : Claiming(t)' => arg[t] \in Thread /\ arg[t] # u
    BY <1>4, <2>1, ArgOfClaim
  <2> QED BY <1>3, <1>4, <2>1, <2>2 DEF SInv, ClaimsOK
<1>21. ReturnsOK'
  <2>1. \A t \in TCB : Ready(t)' <=> Ready(t)
    BY <1>6, <1>9 DEF Ready
  <2> QED BY <1>2, <1>9, <2>1 DEF SInv, ReturnsOK, After, Stopping, me
<1> QED
  BY <1>12, <1>13, <1>14, <1>15, <1>16, <1>17, <1>18, <1>19, <1>20, <1>21
    DEF SInv

\* start_proc returns: the thread is DYING and its joiner, if any, is started.
LEMMA ExitKeeps ==
  ASSUME Typed, Typed', SInv, ParkersOnlyPark, NEW p \in Proc,
         cur[p] \in Thread \ {Main}, "exit" \in Ops[cur[p]], place[cur[p]] = "user",
         state' = [state EXCEPT ![cur[p]] = "DYING"],
         call' = [call EXCEPT ![cur[p]] = "exit"],
         place' = [place EXCEPT ![cur[p]] = "deq"],
         IF joiner[cur[p]] \in Thread
         THEN Elems(ready') = Elems(ready) \cup {joiner[cur[p]]} /\ Once(ready')
         ELSE ready' = ready,
         UNCHANGED <<joiner, heap, cur, regs, peer, arg, waiting, claimed>>
  PROVE  SInv'
<1> USE NamesDistinct
<1> DEFINE me == cur[p]
<1>1. /\ me \in TCB
      /\ \A q \in Proc : cur[q] = me => q = p
  BY DEF Typed, SInv, Stacks
<1>2. \A t \in TCB : /\ place'[t] = IF t = me THEN "deq" ELSE place[t]
                     /\ state'[t] = IF t = me THEN "DYING" ELSE state[t]
                     /\ call'[t] = IF t = me THEN "exit" ELSE call[t]
  BY <1>1 DEF Typed
<1>3. state[me] = "RUNNING" /\ call[me] # "exit" /\ heap[me] = "live"
  BY <1>1 DEF SInv, StatesOK, StateOK, Stopping
<1>4. /\ \A t \in TCB : state'[t] \in Ended <=> state[t] \in Ended \/ t = me
      /\ me \notin Parks
  BY <1>2 DEF Ended, ParkersOnlyPark
<1>5. \A q \in Proc, t \in TCB : GoesTo(q, t)' <=> GoesTo(q, t)
  BY <1>1, <1>2 DEF GoesTo, Typed
<1>6. \A q \in Proc, t \in TCB : ComesFrom(q, t)' <=> ComesFrom(q, t)
  BY <1>1, <1>2 DEF ComesFrom, After, Typed
<1>7. /\ ~Startable(me) /\ \A q \in Proc : ~ComesFrom(q, me)
      /\ me \notin waiting /\ ~JoinWaits(me)
  BY <1>1, <1>4 DEF Startable, SInv, ComesOK, WaitsOK, JoinWaits, Stopping
<1>8. \A t \in TCB : joiner[me] = t /\ t \in Thread =>
        JoinWaits(t) /\ call[t] = "join" /\ arg[t] = me
  BY <1>1, <1>3 DEF JoinWaits, SInv, WaitsOK, Ended
<1>9. \A t \in TCB : JoinWaits(t)' <=> JoinWaits(t) /\ joiner[me] # t
  <2> TAKE t \in TCB
  <2>1. CASE t \notin Thread
    BY <2>1 DEF JoinWaits, Typed
  <2>2. CASE t \in Thread /\ joiner[me] # t
    BY <1>4, <2>2 DEF JoinWaits
  <2>3. CASE t \in Thread /\ joiner[me] = t
    BY <1>4, <1>8, <2>3 DEF JoinWaits, SInv, WaitsOK
  <2> QED BY <2>1, <2>2, <2>3
<1>10. \A t \in TCB : Queued(t)' <=> Queued(t) \/ (t \in Thread /\ t = joiner[me])
  BY DEF Queued
<1>11. \A t \in TCB : Startable(t) => Startable(t)'
  BY <1>2, <1>6, <1>7, <1>9 DEF Startable, Pending
<1>12. ASSUME NEW t \in Thread, t = joiner[me]
       PROVE  Startable(t)' /\ \A q \in Proc : ~GoesTo(q, t)
  <2>1. JoinWaits(t) /\ call[t] = "join" /\ Pending(t)
    BY <1>8, <1>12 DEF Pending
  <2>2. ~Pending(t)'
    BY <1>9, <1>12, <2>1 DEF Pending, SInv, WaitsOK
  <2>3. /\ heap[t] = "live" /\ t # me
        /\ place[t] = "off" \/ (t \in Parks /\ place[t] \in {"deq", "switch"})
        /\ t \in Parks \/ \A q \in Proc : ~ComesFrom(q, t)
        /\ \A q \in Proc : ~GoesTo(q, t)
    BY <2>1, ParkedStartable
  <2> QED BY <1>2, <1>6, <2>1, <2>2, <2>3 DEF Startable
<1> HIDE DEF me
<1>13. Stacks'
  BY <1>1, <1>2 DEF SInv, Stacks, Typed, me
<1>14. CallsOK'
  BY <1>1, <1>2 DEF SInv, CallsOK, CallOK, me
<1>15. StatesOK'
  <2> SUFFICES ASSUME NEW t \in TCB PROVE StateOK(t)'
    BY DEF StatesOK
  <2>1. StateOK(t) /\ CallOK(t)
    BY DEF SInv, StatesOK, CallsOK
  <2>2. CASE t # me
    BY <1>1, <1>2, <1>3, <2>1, <2>2 DEF StateOK
  <2>3. CASE t = me
    BY <1>1, <1>2, <1>3, <2>1, <2>3 DEF StateOK, CallOK, Stopping, Ended, me
  <2> QED BY <2>2, <2>3
<1>16. QueueOK'
  BY <1>10, <1>11, <1>12 DEF SInv, QueueOK
<1>17. GoesOK'
  BY <1>5, <1>10, <1>11, <1>12 DEF SInv, GoesOK
<1>18. ComesOK'
  BY <1>1, <1>2, <1>6, <1>7 DEF SInv, ComesOK
<1>19. WaitsOK'
  BY <1>2, <1>4, <1>7 DEF SInv, WaitsOK, JoinWaits, me
<1>20. PhasesOK'
  <2>1. ASSUME NEW q \in Proc, cur[q] # NoThread, peer[cur[q]] = me
        PROVE  place[cur[q]] \notin {"reap", "requeue"}
    BY <1>3, <2>1 DEF SInv, PhasesOK
  <2> QED BY <1>1, <1>2, <2>1 DEF SInv, PhasesOK, me, Typed, Switching
<1>21. ClaimsOK'
  BY <1>2 DEF SInv, ClaimsOK, Claiming, me
<1>22. ReturnsOK'
  <2>1. \A t \in TCB : Ready(t)' <=> Ready(t) \/ (t \in Thread /\ t = joiner[me])
    BY <1>5, <1>10 DEF Ready
  <2>2. ~Ready(me)
    BY <1>1, <1>7 DEF Ready, SInv, QueueOK, GoesOK
  <2> SUFFICES ASSUME NEW t \in TCB, t # me
               PROVE  /\ place[t] = "joined" => state'[arg[t]] \in Ended
                      /\ call[t] = "join" /\ (place[t] \in After \cup {"resume"} \/ Ready(t)')
                           => state'[arg[t]] \in Ended
                      /\ call[t] = "join" /\ place[t] \in Stopping => JoinWaits(t)' \/ Ready(t)'
    BY <1>2 DEF ReturnsOK, After
  <2>3. Claiming(t) => (state[arg[t]] \in Ended => state'[arg[t]] \in Ended)
    BY <1>4, ArgOfClaim
  <2>4. CASE t \in Thread /\ t = joiner[me]
    <3>1. arg[t] = me /\ Ready(t)'
      BY <1>8, <2>1, <2>4
    <3> QED BY <1>1, <1>4, <3>1
  <2>5. CASE ~(t \in Thread /\ t = joiner[me])
    <3>1. Ready(t)' <=> Ready(t)
      BY <2>1, <2>5
    <3>2. JoinWaits(t) => t \in Thread
      BY DEF JoinWaits, Typed
    <3> QED
      BY <1>9, <2>3, <2>5, <3>1, <3>2, ArgOfClaim
        DEF SInv, ReturnsOK, Claiming, After, Stopping
  <2> QED BY <2>4, <2>5
<1> QED
  BY <1>13, <1>14, <1>15, <1>16, <1>17, <1>18, <1>19, <1>20, <1>21, <1>22
    DEF SInv

-----------------------------------------------------------------------------
(* The initial states satisfy it, and each action is one of those steps.   *)

\* Where the stack is of the thread that takes a step.
LEMMA PlaceOn ==
  ASSUME TInv, NEW p \in Proc, NEW a, On(p, a)
  PROVE  /\ cur[p] # NoThread /\ cur[p] \in TCB
         /\ place[cur[p]] = IF a \in {"sleep", "asleep", "woken"} THEN "idle" ELSE a
BY DEF On, TInv, TypeOK, place

\* uthread_init establishes the invariant.
LEMMA SInvInit == Init => SInv
<1> SUFFICES ASSUME Init PROVE SInv
  OBVIOUS
<1> USE NamesDistinct
<1>1. Typed
  BY TInvInit, TypedFromTInv
<1>2. \A t \in TCB :
        /\ place[t] = IF t = Main \/ t \in Proc \ {Boot} THEN "user" ELSE "off"
        /\ state[t] = IF t = Main \/ t \in Proc \ {Boot} THEN "RUNNING" ELSE "NASCENT"
        /\ heap[t] = IF t \in Thread \ {Main} THEN "none" ELSE "live"
        /\ call[t] = "start" /\ joiner[t] = NoThread
  BY DEF Init, place
<1>3. \A p \in Proc : cur[p] = IF p = Boot THEN Main ELSE p
  BY DEF Init
<1>4. Boot \in Proc /\ Main \in Thread
  BY UthreadAssumption
<1>5. \A t \in TCB : ~Queued(t) /\ ~JoinWaits(t)
  BY <1>2, EmptyQueue DEF Init, Queued, JoinWaits
<1>6. \A q \in Proc, t \in TCB : ~GoesTo(q, t)
  BY <1>2, <1>3, <1>4 DEF GoesTo
<1>7. \A q \in Proc, t \in TCB : ~ComesFrom(q, t)
  BY <1>2, <1>3, <1>4 DEF ComesFrom, After
<1>8. waiting = {} /\ claimed = {} /\ Once(ready)
  BY EmptyQueue DEF Init
<1>9. Stacks
  BY <1>2, <1>3, <1>4 DEF Stacks
<1>10. CallsOK
  BY <1>2 DEF CallsOK, CallOK
<1>11. StatesOK
  BY <1>2, <1>4 DEF StatesOK, StateOK, Ended, Stopping
<1>12. QueueOK
  BY <1>5, <1>8 DEF QueueOK
<1>13. GoesOK
  BY <1>6 DEF GoesOK
<1>14. ComesOK
  BY <1>7 DEF ComesOK
<1>15. WaitsOK
  BY <1>2, <1>8 DEF WaitsOK
<1>16. PhasesOK
  BY <1>2, <1>3, <1>4 DEF PhasesOK
<1>17. ClaimsOK
  BY <1>2, <1>8 DEF ClaimsOK, Claiming
<1>18. ReturnsOK
  BY <1>2 DEF ReturnsOK
<1> QED
  BY <1>9, <1>10, <1>11, <1>12, <1>13, <1>14, <1>15, <1>16, <1>17, <1>18
    DEF SInv

\* Each action is one of the steps above: ready_queue_dequeue, ...
LEMMA SInvDequeue ==
  ASSUME TInv, TInv', SInv, ParkersOnlyPark, NEW p \in Proc,
         \/ DequeueThread(p) \/ DequeueBase(p) \/ DequeueNothing(p)
         \/ SleepOnWakeup(p) \/ SpuriousWakeup(p) \/ WakeUp(p)
  PROVE  SInv'
<1> USE TypedFromTInv DEF Places
<1>1. CASE DequeueThread(p)
  <2>1. cur[p] # NoThread /\ place[cur[p]] = "deq"
    BY <1>1, PlaceOn DEF DequeueThread
  <2>2. place' = [place EXCEPT ![cur[p]] = "switch"]
    BY <1>1, GotoPlace DEF DequeueThread
  <2>3. /\ Head(ready) \in Elems(ready) /\ Head(ready) \in TCB
        /\ Elems(ready') = Elems(ready) \ {Head(ready)} /\ Once(ready')
    BY <1>1, DequeueOnce DEF DequeueThread, SInv, QueueOK, Typed
  <2> QED BY <1>1, <2>1, <2>2, <2>3, DispatchKeeps DEF DequeueThread
<1>2. CASE DequeueBase(p)
  <2>1. cur[p] # NoThread /\ place[cur[p]] = "deq"
    BY <1>2, PlaceOn DEF DequeueBase
  <2>2. place' = [place EXCEPT ![cur[p]] = "switch"]
    BY <1>2, GotoPlace DEF DequeueBase
  <2>3. p \in TCB /\ Once(ready')
    BY <1>2, NamesDistinct DEF DequeueBase, SInv, QueueOK
  <2> QED BY <1>2, <2>1, <2>2, <2>3, DispatchKeeps DEF DequeueBase
<1>3. CASE DequeueNothing(p)
  <2>1. cur[p] # NoThread /\ place[cur[p]] = "deq"
    BY <1>3, PlaceOn DEF DequeueNothing
  <2>2. place' = [place EXCEPT ![cur[p]] = "idle"]
    BY <1>3, GotoPlace DEF DequeueNothing
  <2> QED BY <1>3, <2>1, <2>2, MoveKeeps DEF DequeueNothing
<1>4. CASE SleepOnWakeup(p) \/ SpuriousWakeup(p)
  <2>1. place[cur[p]] = "idle" /\ cur[p] \in TCB
    BY <1>4, PlaceOn DEF SleepOnWakeup, SpuriousWakeup
  <2>2. place' = [place EXCEPT ![cur[p]] = "idle"]
    BY <1>4, GotoPlace DEF SleepOnWakeup, SpuriousWakeup
  <2>3. place' = place
    BY <2>1, <2>2 DEF Typed
  <2> QED BY <1>4, <2>3, StandKeeps DEF SleepOnWakeup, SpuriousWakeup
<1>5. CASE WakeUp(p)
  <2>1. cur[p] # NoThread /\ place[cur[p]] = "idle"
    BY <1>5, PlaceOn DEF WakeUp
  <2>2. place' = [place EXCEPT ![cur[p]] = "deq"]
    BY <1>5, GotoPlace DEF WakeUp
  <2> QED BY <1>5, <2>1, <2>2, MoveKeeps DEF WakeUp
<1> QED BY <1>1, <1>2, <1>3, <1>4, <1>5

\* ... uthread_switch, ...
LEMMA SInvSwitch ==
  ASSUME TInv, TInv', SInv, ParkersOnlyPark, NEW p \in Proc,
         \/ SetFromState(p) \/ SwitchStack(p) \/ ReadDying(p) \/ Reap(p)
         \/ ReadRunable(p) \/ Requeue(p) \/ Resume(p)
  PROVE  SInv'
<1> USE TypedFromTInv DEF Places
<1>1. CASE SetFromState(p)
  <2>1. cur[p] # NoThread /\ cur[p] \in TCB /\ place[cur[p]] = "switch"
    BY <1>1, PlaceOn DEF SetFromState
  <2>2. place' = [place EXCEPT ![cur[p]] = "off"]
    BY <1>1, <2>1 DEF SetFromState, place, TInv, TypeOK
  <2> QED BY <1>1, <2>1, <2>2, LeaveKeeps DEF SetFromState
<1>2. CASE SwitchStack(p)
  <2>1. regs[p].to \in TCB
    BY <1>2 DEF SwitchStack, Typed
  <2>2. place' = [place EXCEPT ![regs[p].to] = "post"]
    BY <1>2, <2>1 DEF SwitchStack, place, TInv, TypeOK
  <2> QED BY <1>2, <2>1, <2>2, ArriveKeeps DEF SwitchStack, StillRunning
<1>3. CASE ReadDying(p)
  <2> DEFINE b == IF state[peer[cur[p]]] = "DYING" THEN "reap" ELSE "post2"
  <2>1. cur[p] # NoThread /\ place[cur[p]] = "post"
    BY <1>3, PlaceOn DEF ReadDying
  <2>2. place' = [place EXCEPT ![cur[p]] = b]
    BY <1>3, GotoPlace DEF ReadDying
  <2>3. b \in {"reap", "post2"} /\ (b = "reap" => state[peer[cur[p]]] = "DYING")
    OBVIOUS
  <2> HIDE DEF b
  <2> QED BY <1>3, <2>1, <2>2, <2>3, MoveKeeps DEF ReadDying
<1>4. CASE Reap(p)
  <2>1. cur[p] # NoThread /\ cur[p] \in TCB /\ place[cur[p]] = "reap"
    BY <1>4, PlaceOn DEF Reap
  <2>2. place' = [place EXCEPT ![cur[p]] = "resume"]
    BY <1>4, GotoPlace DEF Reap
  <2>3. peer[cur[p]] \in TCB
    BY <2>1 DEF Typed, Switching
  <2> QED BY <1>4, <2>1, <2>2, <2>3, ReapKeeps DEF Reap, Orphan
<1>5. CASE ReadRunable(p)
  <2> DEFINE b == IF StoppedRunable(peer[cur[p]]) THEN "requeue" ELSE "resume"
  <2>1. cur[p] # NoThread /\ place[cur[p]] = "post2"
    BY <1>5, PlaceOn DEF ReadRunable
  <2>2. place' = [place EXCEPT ![cur[p]] = b]
    BY <1>5, GotoPlace DEF ReadRunable
  <2>3. b \in {"requeue", "resume"} /\ (b = "requeue" => state[peer[cur[p]]] = "RUNABLE")
    BY DEF StoppedRunable
  <2> HIDE DEF b
  <2> QED BY <1>5, <2>1, <2>2, <2>3, MoveKeeps DEF ReadRunable
<1>6. CASE Requeue(p)
  <2>1. cur[p] # NoThread /\ cur[p] \in TCB /\ place[cur[p]] = "requeue"
    BY <1>6, PlaceOn DEF Requeue
  <2>2. peer[cur[p]] \in TCB
    BY <2>1 DEF Typed, Switching
  <2>3. /\ place' = [place EXCEPT ![cur[p]] = "resume"]
        /\ Elems(ready') = Elems(ready) \cup {peer[cur[p]]} /\ Once(ready')
    BY <1>6, <2>1, <2>2, ReadyEnqueueKeeps DEF Requeue, On, SInv, QueueOK
  <2> QED BY <1>6, <2>1, <2>2, <2>3, RequeueKeeps DEF Requeue
<1>7. CASE Resume(p)
  <2> DEFINE b == IF call[cur[p]] = "join" THEN "joined" ELSE "user"
  <2>1. cur[p] # NoThread /\ place[cur[p]] = "resume"
    BY <1>7, PlaceOn DEF Resume
  <2>2. place' = [place EXCEPT ![cur[p]] = b]
    BY <1>7, GotoPlace DEF Resume
  <2> QED BY <1>7, <2>1, <2>2, ResumeKeeps DEF Resume
<1> QED BY <1>1, <1>2, <1>3, <1>4, <1>5, <1>6, <1>7

\* ... the calls that stop or start threads, ...
LEMMA SInvCalls ==
  ASSUME TInv, TInv', SInv, ParkersOnlyPark, NEW p \in Proc,
         \/ PthreadBase(p) \/ Yield(p) \/ Block(p) \/ Exit(p) \/ MainReturn(p)
         \/ \E u \in Thread : Create(p, u) \/ Unblock(p, u)
  PROVE  SInv'
<1> USE TypedFromTInv
<1>1. ASSUME On(p, "user")
      PROVE  cur[p] # NoThread /\ cur[p] \in TCB /\ place[cur[p]] = "user"
  BY <1>1, PlaceOn
<1>2. ASSUME NEW c, Stop(p, c)
      PROVE  /\ place' = [place EXCEPT ![cur[p]] = "deq"]
             /\ call' = [call EXCEPT ![cur[p]] = c]
  BY <1>2, GotoPlace DEF Stop, Places
<1>3. CASE PthreadBase(p)
  BY <1>1, <1>2, <1>3, StopKeeps DEF PthreadBase
<1>4. CASE Yield(p)
  BY <1>1, <1>2, <1>4, StopKeeps DEF Yield, Calls
<1>5. CASE Block(p)
  BY <1>1, <1>2, <1>5, StopKeeps DEF Block, Calls
<1>6. CASE Exit(p)
  <2>1. /\ On(p, "user") /\ cur[p] \in Thread \ {Main} /\ "exit" \in Ops[cur[p]]
        /\ at[cur[p]] = "user"
    BY <1>6 DEF Exit, Calls, On
  <2>2. HasJoiner(cur[p]) <=> joiner[cur[p]] \in Thread
    BY <2>1, NamesDistinct DEF HasJoiner, Typed
  <2>3. CASE joiner[cur[p]] \in Thread
    <3>1. /\ place' = [place EXCEPT ![cur[p]] = "deq"]
          /\ Elems(ready') = Elems(ready) \cup {joiner[cur[p]]} /\ Once(ready')
      BY <1>6, <2>1, <2>2, <2>3, NamesDistinct, ReadyEnqueueKeeps
        DEF Exit, SInv, QueueOK
    <3> QED BY <1>1, <1>6, <2>1, <2>3, <3>1, ExitKeeps DEF Exit
  <2>4. CASE joiner[cur[p]] \notin Thread
    <3>1. place' = [place EXCEPT ![cur[p]] = "deq"] /\ ready' = ready
      BY <1>6, <2>2, <2>4, GotoPlace DEF Exit, Places
    <3> QED BY <1>1, <1>6, <2>1, <2>4, <3>1, ExitKeeps DEF Exit
  <2> QED BY <2>3, <2>4
<1>7. CASE MainReturn(p)
  BY <1>7, StandKeeps DEF MainReturn, place
<1>8. ASSUME NEW u \in Thread, Create(p, u) PROVE SInv'
  <2>1. place' = place /\ Elems(ready') = Elems(ready) \cup {u} /\ Once(ready')
    BY <1>8, NamesDistinct, ReadyWakes DEF Create, SInv, QueueOK
  <2> QED BY <1>8, <2>1, CreateKeeps DEF Create
<1>9. ASSUME NEW u \in Thread, Unblock(p, u) PROVE SInv'
  <2>1. place' = place /\ Elems(ready') = Elems(ready) \cup {u} /\ Once(ready')
    BY <1>9, NamesDistinct, ReadyWakes DEF Unblock, SInv, QueueOK
  <2> QED BY <1>1, <1>9, <2>1, UnblockKeeps DEF Unblock, Calls
<1> QED BY <1>3, <1>4, <1>5, <1>6, <1>7, <1>8, <1>9

\* ... and uthread_join and uthread_detach.
LEMMA SInvJoin ==
  ASSUME TInv, TInv', SInv, NEW p \in Proc,
         \/ Join(p) \/ Joined(p) \/ Detach(p)
         \/ \E u \in Thread : JoinCall(p, u) \/ DetachCall(p, u)
  PROVE  SInv'
<1> USE TypedFromTInv, NamesDistinct
<1>1. ASSUME NEW a \in {"join", "joined", "detach"}, On(p, a)
      PROVE  /\ cur[p] # NoThread /\ cur[p] \in TCB /\ place[cur[p]] = a
             /\ arg[cur[p]] \in Thread
  <2>1. cur[p] # NoThread /\ cur[p] \in TCB /\ place[cur[p]] = a
    BY <1>1, PlaceOn
  <2> QED BY <2>1, ArgOfClaim DEF Claiming
<1>2. ASSUME NEW u \in Thread, JoinCall(p, u) \/ DetachCall(p, u) PROVE SInv'
  <2>1. PICK b \in {"join", "detach"} :
          Claim(p, u, b) /\ (b = "join" => "join" \in Ops[cur[p]])
    BY <1>2 DEF JoinCall, DetachCall, Calls
  <2>2. On(p, "user") /\ cur[p] \in Thread
    BY <1>2 DEF JoinCall, DetachCall, Calls
  <2>3. place[cur[p]] = "user"
    BY <2>2, PlaceOn
  <2>4. \/ /\ joiner[u] = NoThread
           /\ place' = [place EXCEPT ![cur[p]] = b]
           /\ arg' = [arg EXCEPT ![cur[p]] = u]
        \/ UNCHANGED <<place, arg>>
    <3>1. CASE joiner[u] = NoThread
      BY <2>1, <3>1, GotoPlace DEF Claim, Places
    <3>2. CASE joiner[u] # NoThread
      BY <2>1, <3>2 DEF Claim, place
    <3> QED BY <3>1, <3>2
  <2> QED
    BY <1>2, <2>1, <2>2, <2>3, <2>4, ClaimKeeps DEF Claim, JoinCall, DetachCall
<1>3. CASE Join(p)
  <2> DEFINE u == arg[cur[p]]
  <2>1. cur[p] # NoThread /\ place[cur[p]] = "join" /\ u \in Thread
    BY <1>1, <1>3 DEF Join
  <2>2. CASE MustWait(u)
    <3>1. /\ joiner' = [joiner EXCEPT ![u] = cur[p]]
          /\ place' = [place EXCEPT ![cur[p]] = "deq"]
          /\ call' = [call EXCEPT ![cur[p]] = "join"]
      BY <1>3, <2>2, GotoPlace DEF Join, Stop, Places
    <3> QED BY <1>3, <2>1, <2>2, <3>1, JoinKeeps DEF Join, MustWait, Ended
  <2>3. CASE ~MustWait(u)
    <3>1. place' = [place EXCEPT ![cur[p]] = "joined"] /\ UNCHANGED <<joiner, call>>
      BY <1>3, <2>3, GotoPlace DEF Join, Places
    <3> QED BY <1>3, <2>1, <2>3, <3>1, SkipJoinKeeps DEF Join, MustWait, Ended
  <2> QED BY <2>2, <2>3
<1>4. CASE Joined(p) \/ Detach(p)
  <2> DEFINE u == arg[cur[p]]
  <2>1. cur[p] # NoThread /\ place[cur[p]] \in {"joined", "detach"} /\ u \in Thread
    BY <1>1, <1>4 DEF Joined, Detach
  <2>2. place' = [place EXCEPT ![cur[p]] = "user"]
    BY <1>4, GotoPlace DEF Joined, Detach, Places
  <2>3. \/ /\ state[u] = "DEAD" /\ heap' = [heap EXCEPT ![u] = "freed"]
           /\ joiner' = joiner
        \/ /\ joiner' = [joiner EXCEPT ![u] = Detached] /\ heap' = heap
    BY <1>4 DEF Joined, Detach, SwitchedOff
  <2> HIDE DEF u
  <2> QED BY <1>4, <2>1, <2>2, <2>3, SettleKeeps DEF Joined, Detach, u
<1> QED BY <1>2, <1>3, <1>4

\* Every step of every pthread keeps the invariant.
LEMMA SInvStep ==
  ASSUME TInv, TInv', SInv, ParkersOnlyPark, [Next]_vars
  PROVE  SInv'
<1>1. CASE UNCHANGED vars
  BY <1>1, StandKeeps DEF vars, place
<1> QED
  BY <1>1, SInvDequeue, SInvSwitch, SInvCalls, SInvJoin DEF Next, Step

-----------------------------------------------------------------------------
(* What follows from it.                                                  *)

\* The invariant holds of every behaviour of such programs.
LEMMA SharingInvariant ==
  ASSUME ParkersOnlyPark
  PROVE  Spec => [](TInv /\ SInv)
<1>1. TInv /\ SInv /\ [Next]_vars => TInv' /\ SInv'
  BY TInvStep, SInvStep
<1> QED BY <1>1, TInvInit, SInvInit, PTL DEF Spec

\* at and place differ only where a pthread is idle.
LEMMA PlaceIs ==
  \A t \in TCB : \A a \in Places \ {"sleep", "asleep", "woken"} :
    at[t] = a <=> place[t] = a
BY DEF place, Places

\* Chosen, as the invariant has it.
LEMMA ChosenIs ==
  ASSUME TInv, NEW p \in Proc
  PROVE  Chosen(p) = {t \in TCB : GoesTo(p, t)}
<1> USE TypedFromTInv
<1>1. CASE cur[p] = NoThread
  <2>1. regs[p].to \in TCB /\ Chosen(p) = {regs[p].to}
    BY <1>1 DEF Typed, Chosen
  <2> QED BY <1>1, <2>1 DEF GoesTo
<1>2. CASE cur[p] # NoThread
  <2>1. cur[p] \in TCB /\ (at[cur[p]] = "switch" <=> place[cur[p]] = "switch")
    BY <1>2, PlaceIs DEF Typed, Places
  <2>2. CASE place[cur[p]] = "switch"
    <3>1. peer[cur[p]] \in TCB /\ Chosen(p) = {peer[cur[p]]}
      BY <1>2, <2>1, <2>2 DEF Typed, Switching, Chosen
    <3> QED BY <1>2, <2>2, <3>1 DEF GoesTo
  <2>3. CASE place[cur[p]] # "switch"
    BY <1>2, <2>1, <2>3 DEF Chosen, GoesTo
  <2> QED BY <2>2, <2>3
<1> QED BY <1>1, <1>2

\* Threads that only park may be started while they still run: no two pthreads
\* are ever on one stack, however many pthreads, threads and joins there are
\* (the spin of uthread_switch, uthread.c:466-470 and 583-586).
THEOREM StacksExclusive ==
  ASSUME ParkersOnlyPark
  PROVE  Spec => []OneProcessorPerStack
<1>1. TInv /\ SInv => OneProcessorPerStack
  BY DEF SInv, Stacks, OneProcessorPerStack
<1> QED BY <1>1, SharingInvariant, PTL

\* What the invariant says of the queue and of the choices.
LEMMA DispatchedOnceHolds == TInv /\ SInv => DispatchedOnce
<1> SUFFICES ASSUME TInv, SInv PROVE DispatchedOnce
  OBVIOUS
<1> USE NamesDistinct
<1>1. \A t \in TCB : Contains(ready, t) <=> Queued(t)
  BY DEF Contains, Queued, Elems
<1>2. \A p \in Proc : Chosen(p) \subseteq TCB
  BY ChosenIs
<1>3. \A p \in Proc : \A t \in Chosen(p) : GoesTo(p, t)
  BY ChosenIs
<1>4. \A p \in Proc : Executes(p) => cur[p] \in TCB /\ place[cur[p]] \in {"user", "joined"}
  BY PlaceIs DEF Executes, TInv, TypeOK, Places
<1>5. \A t \in TCB : place[t] \in {"user", "joined"} => ~Startable(t)
  BY DEF Startable
<1>6. \A p \in Proc : ~Contains(ready, p)
  BY <1>1 DEF SInv, QueueOK
<1>7. \A p, q \in Proc : p # q => Chosen(p) \cap Chosen(q) = {}
  BY <1>2, <1>3 DEF SInv, GoesOK
<1>8. \A p \in Proc : \A t \in Chosen(p) : ~Contains(ready, t)
  BY <1>1, <1>2, <1>3 DEF SInv, GoesOK
<1>9. \A p, q \in Proc : Executes(q) =>
        cur[q] \notin Chosen(p) /\ ~Contains(ready, cur[q])
  BY <1>1, <1>3, <1>4, <1>5 DEF SInv, GoesOK, QueueOK
<1> QED BY <1>6, <1>7, <1>8, <1>9 DEF DispatchedOnce

\* For such programs a thread is handed out once for each time it was made
\* ready: by ready_queue_dequeue to one pthread, never while it is queued
\* again or executes its own code.
THEOREM DispatchesOnce ==
  ASSUME ParkersOnlyPark
  PROVE  Spec => []DispatchedOnce
BY DispatchedOnceHolds, SharingInvariant, PTL

\* What it says of the join protocol.
LEMMA JoinsSoundHolds == TInv /\ SInv => JoinsSound
<1> SUFFICES ASSUME TInv, SInv PROVE JoinsSound
  OBVIOUS
<1> USE NamesDistinct, TypedFromTInv
<1>1. \A t \in TCB : Contains(ready, t) <=> Queued(t)
  BY DEF Contains, Queued, Elems
<1>2. NoUseAfterFree
  <2>1. \A p \in Proc : cur[p] = NoThread => GoesTo(p, regs[p].to)
    BY DEF GoesTo
  <2>2. \A p \in Proc : cur[p] = NoThread => heap[regs[p].to] = "live"
    BY <2>1 DEF Typed, SInv, GoesOK, Startable
  <2>3. ASSUME NEW p \in Proc, cur[p] # NoThread
        PROVE  \A t \in Touches(p) : heap[t] # "freed"
    <3> DEFINE me == cur[p]
    <3>1. me \in TCB /\ heap[me] = "live"
      BY <2>3 DEF Typed, SInv, Stacks, StatesOK, StateOK
    <3>2. CASE place[me] = "switch"
      <4>1. peer[me] \in TCB /\ GoesTo(p, peer[me])
        BY <2>3, <3>1, <3>2 DEF GoesTo, Typed, Switching
      <4>2. heap[peer[me]] = "live"
        BY <4>1 DEF SInv, GoesOK, Startable
      <4>3. at[me] = "switch"
        BY <3>1, <3>2, PlaceIs DEF Places
      <4> QED BY <2>3, <3>1, <4>2, <4>3 DEF Touches
    <3>3. CASE place[me] \in After
      <4>1. peer[me] \in TCB /\ ComesFrom(p, peer[me])
        BY <2>3, <3>1, <3>3 DEF ComesFrom, Typed, Switching, After
      <4>2. heap[peer[me]] = "live"
        BY <4>1 DEF SInv, ComesOK
      <4>3. at[me] \in After
        BY <3>1, <3>3, PlaceIs DEF Places, After
      <4> QED BY <2>3, <3>1, <4>2, <4>3 DEF Touches, After
    <3>4. CASE place[me] \in {"join", "joined", "detach"}
      <4>1. heap[arg[me]] = "live"
        BY <3>1, <3>4 DEF SInv, ClaimsOK, Claiming
      <4>2. at[me] \in {"join", "joined", "detach"}
        BY <3>1, <3>4, PlaceIs DEF Places
      <4> QED BY <2>3, <3>1, <4>1, <4>2 DEF Touches
    <3>5. CASE place[me] \notin {"switch", "join", "joined", "detach"} \cup After
      <4>1. at[me] \notin {"switch", "join", "joined", "detach"} \cup After
        BY <3>1, <3>5, PlaceIs DEF Places, After
      <4> QED BY <2>3, <3>1, <4>1 DEF Touches, After
    <3> QED BY <3>2, <3>3, <3>4, <3>5
  <2>4. \A i \in DOMAIN ready : heap[ready[i]] = "live"
    BY DEF Typed, SInv, QueueOK, Queued, Elems, Startable
  <2> QED BY <2>2, <2>3, <2>4 DEF NoUseAfterFree, Touches
<1>3. JoinerNotLost
  <2> SUFFICES ASSUME NEW t \in Thread, call[t] = "join", at[t] \in {"deq", "switch", "off"}
               PROVE  \/ joiner[arg[t]] = t /\ state[arg[t]] \notin {"DYING", "DEAD"}
                      \/ Contains(ready, t)
                      \/ \E p \in Proc : t \in Chosen(p)
    BY DEF JoinerNotLost
  <2>1. place[t] \in Stopping
    BY PlaceIs DEF Places, Stopping
  <2>2. JoinWaits(t) \/ Ready(t)
    BY <2>1 DEF SInv, ReturnsOK
  <2>3. CASE Ready(t)
    BY <1>1, <2>3, ChosenIs DEF Ready
  <2>4. CASE JoinWaits(t)
    BY <2>4 DEF JoinWaits, SInv, WaitsOK, Ended
  <2> QED BY <2>2, <2>3, <2>4
<1>4. JoinAfterReturn
  BY PlaceIs DEF JoinAfterReturn, SInv, ReturnsOK, Ended, Places
<1> QED BY <1>2, <1>3, <1>4 DEF JoinsSound

\* For such programs uthread_join and the end of start_proc, which meet through
\* state and joiner, lose no joiner, return no value early and free nothing
\* that a pthread may still use.
THEOREM JoinProtocolSound ==
  ASSUME ParkersOnlyPark
  PROVE  Spec => []JoinsSound
BY JoinsSoundHolds, SharingInvariant, PTL

\* On one pthread all this holds of any programs, blocking, yielding and
\* exiting as they like (uthread_init (1)).
THEOREM OnePthreadSound ==
  ASSUME Proc = {Boot}
  PROVE  Spec => []SoundSharing
<1>1. ParkersOnlyPark
  BY DEF ParkersOnlyPark, Parks
<1>2. TInv /\ SInv => SoundSharing
  BY DispatchedOnceHolds, JoinsSoundHolds DEF SoundSharing
<1> QED BY <1>1, <1>2, SharingInvariant, PTL
-----------------------------------------------------------------------------
(* No wakeup is lost.                                                      *)

\* The pthreads that are about to look at the queue on their own account.
Looking == {p \in Proc : cur[p] = p /\ at[p] \in {"woken", "deq"}}

\* A pthread in "sleep" has pthread_mutex, so that nothing is queued before
\* it waits.
WakeInv ==
  /\ \A t \in TCB : at[t] = "sleep" => pmutex = t
  /\ pmutex # NoProc => ready = <<>>
  /\ NoLostWakeup

\* A sleeper is a pthread on its own base thread.
LEMMA SleeperIsBase ==
  ASSUME TInv, SInv, NEW t \in TCB, at[t] \in {"sleep", "asleep", "woken"}
  PROVE  t \in Proc /\ cur[t] = t
<1>1. place[t] = "idle"
  BY DEF place
<1> QED BY <1>1, NamesDistinct DEF SInv, StatesOK, StateOK, Stacks

LEMMA LookingCount ==
  /\ IsFiniteSet(Looking) /\ Cardinality(Looking) \in Nat
  /\ IsFiniteSet(Looking') /\ Cardinality(Looking') \in Nat
  /\ Looking \subseteq Looking' => Cardinality(Looking) <= Cardinality(Looking')
  /\ \A p \in Proc : Looking \ {p} \subseteq Looking' =>
       Cardinality(Looking) <= Cardinality(Looking') + 1
  /\ \A s \in Proc \ Looking : Looking \cup {s} \subseteq Looking' =>
       Cardinality(Looking) + 1 <= Cardinality(Looking')
<1>1. IsFiniteSet(Looking) /\ IsFiniteSet(Looking')
  BY UthreadAssumption, FS_Subset DEF Looking
<1>2. Cardinality(Looking) \in Nat /\ Cardinality(Looking') \in Nat
  BY <1>1, FS_CardinalityType
<1>3. Looking \subseteq Looking' => Cardinality(Looking) <= Cardinality(Looking')
  BY <1>1, FS_Subset
<1>4. ASSUME NEW p \in Proc, Looking \ {p} \subseteq Looking'
      PROVE  Cardinality(Looking) <= Cardinality(Looking') + 1
  <2>1. /\ IsFiniteSet(Looking \ {p})
        /\ Cardinality(Looking \ {p}) \in {Cardinality(Looking) - 1, Cardinality(Looking)}
    BY <1>1, FS_RemoveElement
  <2>2. Cardinality(Looking \ {p}) <= Cardinality(Looking')
    BY <1>1, <1>4, FS_Subset
  <2> QED BY <1>2, <2>1, <2>2
<1>5. ASSUME NEW s \in Proc \ Looking, Looking \cup {s} \subseteq Looking'
      PROVE  Cardinality(Looking) + 1 <= Cardinality(Looking')
  <2>1. Cardinality(Looking \cup {s}) = Cardinality(Looking) + 1
    BY <1>1, FS_AddElement
  <2>2. Cardinality(Looking \cup {s}) <= Cardinality(Looking')
    BY <1>1, <1>5, FS_Subset
  <2> QED BY <2>1, <2>2
<1> QED BY <1>1, <1>2, <1>3, <1>4, <1>5

\* A step by which no pthread falls asleep, stops looking or queues anything.
LEMMA QuietWakes ==
  ASSUME TInv, TInv', SInv, WakeInv, NEW x \in TCB,
         NEW b \in Places \ {"sleep", "asleep"},
         at' = [at EXCEPT ![x] = b],
         at[x] \in {"woken", "deq"} => b \in {"woken", "deq"},
         \A q \in Looking : cur'[q] = q,
         UNCHANGED <<ready, pmutex>>
  PROVE  WakeInv'
<1>1. \A t \in TCB : at'[t] = IF t = x THEN b ELSE at[t]
  BY DEF TInv, TypeOK
<1>2. Looking \subseteq Looking'
  BY <1>1, NamesDistinct DEF Looking
<1>3. Asleep' \subseteq Asleep
  BY <1>1, NamesDistinct DEF Asleep
<1>4. NoLostWakeup'
  <2>1. Len(ready) \in Nat
    BY DEF TInv, TypeOK
  <2> QED BY <1>2, <1>3, <2>1, LookingCount DEF WakeInv, NoLostWakeup, Looking
<1> QED BY <1>1, <1>4 DEF WakeInv

\* Queueing a thread wakes one sleeper, if there is any.
LEMMA ReadyWakesOne ==
  ASSUME TInv, TInv', SInv, WakeInv, NEW t \in TCB, NEW x \in TCB,
         NEW b \in {"resume", "deq", at[x]},
         at[x] \in {"sleep", "asleep", "woken", "deq"} => b = at[x],
         ReadyEnqueue(t, [at EXCEPT ![x] = b]),
         UNCHANGED <<cur, pmutex>>
  PROVE  WakeInv'
<1> DEFINE at0 == [at EXCEPT ![x] = b]
<1>1. /\ \A u \in TCB : at0[u] = IF u = x THEN b ELSE at[u]
      /\ at0 \in [TCB -> Places]
  BY DEF TInv, TypeOK, Places
<1>2. /\ \A u \in TCB : at[u] # "sleep"
      /\ \A u \in TCB : at0[u] # "sleep"
  <2>1. \A u \in TCB : at[u] = "sleep" => u \in Proc /\ pmutex = u
    BY SleeperIsBase DEF WakeInv
  <2>2. \A u \in TCB : at[u] # "sleep"
    BY <2>1, UthreadAssumption DEF ReadyEnqueue
  <2> QED BY <1>1, <2>2
<1>3. /\ Len(ready) \in Nat /\ Len(ready') \in Nat
      /\ Len(ready') <= Len(ready) + 1
  BY DEF ReadyEnqueue, Enqueue, TInv, TypeOK
<1> HIDE DEF at0
<1>4. CASE Asleep = {}
  <2>1. at' = at0
    BY <1>4 DEF ReadyEnqueue, SignalWakeup, at0
  <2>2. Asleep' = {}
    BY <1>1, <1>4, <2>1, NamesDistinct DEF Asleep
  <2> QED BY <1>2, <2>1, <2>2 DEF WakeInv, NoLostWakeup, ReadyEnqueue
<1>5. CASE Asleep # {}
  <2>1. numSleeping > 0
    <3> DEFINE S == {p \in Proc : at[p] \in {"asleep", "woken"}}
    <3>1. IsFiniteSet(S) /\ S # {}
      BY <1>5, UthreadAssumption, FS_Subset DEF Asleep
    <3>2. Cardinality(S) \in Nat /\ Cardinality(S) # 0
      BY <3>1, FS_CardinalityType, FS_EmptySet
    <3> QED BY <3>2 DEF numSleeping
  <2>2. PICK s \in Asleep : at' = [at0 EXCEPT ![s] = "woken"]
    BY <1>5, <2>1 DEF ReadyEnqueue, SignalWakeup, at0
  <2>3. s \in Proc /\ s \in TCB /\ at[s] = "asleep" /\ cur[s] = s
    BY NamesDistinct, SleeperIsBase DEF Asleep
  <2>4. \A u \in TCB : at'[u] = IF u = s THEN "woken" ELSE at0[u]
    BY <1>1, <2>2
  <2>5. s \notin Looking /\ Looking \cup {s} \subseteq Looking'
    BY <1>1, <2>3, <2>4, NamesDistinct DEF Looking
  <2>6. Cardinality(Looking) + 1 <= Cardinality(Looking')
    BY <2>3, <2>5, LookingCount
  <2>7. Len(ready) <= Cardinality(Looking)
    BY <1>5 DEF WakeInv, NoLostWakeup, Looking
  <2>8. Len(ready') <= Cardinality(Looking')
    BY <1>3, <2>6, <2>7, LookingCount
  <2> QED BY <1>2, <2>4, <2>8 DEF WakeInv, NoLostWakeup, Looking, ReadyEnqueue
<1> QED BY <1>4, <1>5

LEMMA WakeDequeue ==
  ASSUME TInv, TInv', SInv, WakeInv, NEW p \in Proc,
         \/ DequeueThread(p) \/ DequeueBase(p) \/ DequeueNothing(p)
         \/ SleepOnWakeup(p) \/ SpuriousWakeup(p) \/ WakeUp(p)
  PROVE  WakeInv'
<1> USE NamesDistinct
<1>1. ASSUME NEW a, On(p, a)
      PROVE  cur[p] \in TCB /\ at[cur[p]] = a
  BY <1>1, PlaceOn DEF On
<1>2. CASE DequeueThread(p)
  <2>1. cur[p] \in TCB /\ at[cur[p]] = "deq"
    BY <1>1, <1>2 DEF DequeueThread
  <2>2. \A t \in TCB : at'[t] = IF t = cur[p] THEN "switch" ELSE at[t]
    BY <1>2, <2>1 DEF DequeueThread, Goto, TInv, TypeOK
  <2>3. Len(ready) \in Nat /\ Len(ready') = Len(ready) - 1
    BY <1>2, EmptySeq, HeadTailProperties DEF DequeueThread, TInv, TypeOK
  <2>4. pmutex = NoProc
    BY <1>2 DEF DequeueThread, WakeInv
  <2>5. Looking \ {p} \subseteq Looking'
    BY <1>2, <2>1, <2>2 DEF Looking, DequeueThread, SInv, Stacks
  <2>6. Cardinality(Looking) <= Cardinality(Looking') + 1
    BY <2>5, LookingCount
  <2>7. Asleep' = Asleep
    BY <2>1, <2>2 DEF Asleep
  <2>8. NoLostWakeup'
    BY <2>3, <2>6, <2>7, LookingCount DEF WakeInv, NoLostWakeup, Looking
  <2> QED BY <1>2, <2>2, <2>4, <2>8 DEF WakeInv, DequeueThread
<1>3. CASE DequeueBase(p) \/ DequeueNothing(p) \/ SleepOnWakeup(p)
  <2>1. PICK b \in {"switch", "sleep", "asleep"} :
          /\ at' = [at EXCEPT ![cur[p]] = b]
          /\ b = "sleep" => cur[p] = p /\ pmutex = NoProc /\ pmutex' = p
          /\ b = "asleep" => at[cur[p]] = "sleep" /\ pmutex' = NoProc
          /\ b = "switch" => pmutex' = pmutex
    BY <1>1, <1>3 DEF DequeueBase, DequeueNothing, SleepOnWakeup, Goto
  <2>2. cur[p] \in TCB
    BY <1>1, <1>3 DEF DequeueBase, DequeueNothing, SleepOnWakeup
  <2>3. \A t \in TCB : at'[t] = IF t = cur[p] THEN b ELSE at[t]
    BY <2>1, <2>2 DEF TInv, TypeOK
  <2>4. ready = <<>> /\ ready' = <<>>
    <3>1. CASE DequeueBase(p) \/ DequeueNothing(p)
      BY <3>1 DEF DequeueBase, DequeueNothing
    <3>2. CASE SleepOnWakeup(p)
      <4>1. at[cur[p]] = "sleep"
        BY <1>1, <3>2 DEF SleepOnWakeup
      <4>2. pmutex = cur[p] /\ cur[p] \in Proc
        BY <2>2, <4>1, SleeperIsBase DEF WakeInv
      <4> QED BY <3>2, <4>2, UthreadAssumption DEF WakeInv, SleepOnWakeup
    <3> QED BY <1>3, <3>1, <3>2
  <2>5. \A t \in TCB : at'[t] = "sleep" => pmutex' = t
    <3>1. \A t \in TCB : at[t] = "sleep" => t \in Proc /\ pmutex = t
      BY SleeperIsBase DEF WakeInv
    <3>2. \A t \in TCB : at[t] = "sleep" => pmutex # NoProc
      BY <3>1, UthreadAssumption
    <3> QED BY <2>1, <2>2, <2>3, <3>1, <3>2
  <2>6. NoLostWakeup'
    BY <2>4, LookingCount DEF NoLostWakeup, Looking
  <2> QED BY <2>4, <2>5, <2>6 DEF WakeInv
<1>4. CASE SpuriousWakeup(p) \/ WakeUp(p)
  <2>1. PICK b \in {"woken", "deq"} : at' = [at EXCEPT ![cur[p]] = b]
    BY <1>4 DEF SpuriousWakeup, WakeUp, Goto
  <2> QED BY <1>1, <1>4, <2>1, QuietWakes DEF SpuriousWakeup, WakeUp, Places, Looking
<1> QED BY <1>2, <1>3, <1>4

LEMMA WakeQuiet ==
  ASSUME TInv, TInv', SInv, WakeInv, NEW p \in Proc,
         \/ SetFromState(p) \/ SwitchStack(p) \/ ReadDying(p) \/ Reap(p)
         \/ ReadRunable(p) \/ Resume(p) \/ PthreadBase(p) \/ Yield(p) \/ Block(p)
         \/ Join(p) \/ Joined(p) \/ Detach(p) \/ MainReturn(p)
         \/ \E u \in Thread : JoinCall(p, u) \/ DetachCall(p, u)
  PROVE  WakeInv'
<1> USE NamesDistinct DEF Places
<1>1. ASSUME NEW a \in Places \ {"woken", "deq"}, NEW b \in Places \ {"sleep", "asleep"},
             On(p, a), Goto(p, b), UNCHANGED <<ready, pmutex, cur>>
      PROVE  WakeInv'
  <2>1. cur[p] \in TCB /\ at[cur[p]] = a
    BY <1>1, PlaceOn DEF On
  <2> QED BY <1>1, <2>1, QuietWakes DEF Goto, Looking
<1>2. CASE SetFromState(p)
  <2>1. cur[p] \in TCB /\ at[cur[p]] = "switch"
    BY <1>2, PlaceOn DEF SetFromState, On
  <2>2. \A q \in Looking : cur'[q] = q
    BY <1>2, <2>1 DEF SetFromState, Looking, TInv, TypeOK
  <2> QED BY <1>2, <2>1, <2>2, QuietWakes DEF SetFromState
<1>3. CASE SwitchStack(p)
  <2>1. regs[p].to \in TCB /\ GoesTo(p, regs[p].to)
    BY <1>3 DEF SwitchStack, TInv, GoesTo
  <2>2. place[regs[p].to] = "off"
    BY <1>3, <2>1 DEF SwitchStack, StillRunning, SInv, GoesOK, Startable, StatesOK, StateOK
  <2>3. at[regs[p].to] = "off"
    BY <2>1, <2>2, PlaceIs
  <2>4. \A q \in Looking : cur'[q] = q
    BY <1>3 DEF SwitchStack, Looking, TInv, TypeOK
  <2> QED BY <1>3, <2>1, <2>3, <2>4, QuietWakes DEF SwitchStack
<1>4. CASE ReadDying(p) \/ Reap(p) \/ ReadRunable(p) \/ Resume(p)
  BY <1>1, <1>4 DEF ReadDying, Reap, ReadRunable, Resume
<1>5. CASE PthreadBase(p) \/ Yield(p) \/ Block(p)
  BY <1>1, <1>5 DEF PthreadBase, Yield, Block, Calls, Stop
<1>6. CASE Join(p) \/ Joined(p) \/ Detach(p)
  BY <1>1, <1>6 DEF Join, Joined, Detach, Stop
<1>7. CASE MainReturn(p)
  BY <1>7 DEF MainReturn, WakeInv, NoLostWakeup, Asleep
<1>8. ASSUME NEW u \in Thread, JoinCall(p, u) \/ DetachCall(p, u) PROVE WakeInv'
  <2>1. On(p, "user") /\ UNCHANGED <<ready, pmutex, cur>>
    BY <1>8 DEF JoinCall, DetachCall, Calls
  <2>2. at' = at \/ \E b \in {"join", "detach"} : Goto(p, b)
    BY <1>8 DEF JoinCall, DetachCall, Claim
  <2>3. CASE at' = at
    BY <2>1, <2>3 DEF WakeInv, NoLostWakeup, Asleep
  <2> QED BY <1>1, <2>1, <2>2, <2>3
<1> QED BY <1>2, <1>3, <1>4, <1>5, <1>6, <1>7, <1>8

LEMMA WakeReady ==
  ASSUME TInv, TInv', SInv, WakeInv, NEW p \in Proc,
         \/ Requeue(p) \/ Exit(p)
         \/ \E u \in Thread : Create(p, u) \/ Unblock(p, u)
  PROVE  WakeInv'
<1> USE NamesDistinct DEF Places
<1>1. ASSUME NEW a, On(p, a)
      PROVE  cur[p] \in TCB /\ at[cur[p]] = a
  BY <1>1, PlaceOn DEF On
<1>2. CASE Requeue(p)
  <2>1. cur[p] \in TCB /\ at[cur[p]] = "requeue"
    BY <1>1, <1>2 DEF Requeue
  <2>2. peer[cur[p]] \in TCB
    BY <2>1 DEF TInv, PlacesOK, Switching
  <2> QED BY <1>2, <2>1, <2>2, ReadyWakesOne DEF Requeue
<1>3. CASE Exit(p)
  <2>1. cur[p] \in TCB /\ at[cur[p]] = "user" /\ cur[p] \in Thread
    BY <1>1, <1>3 DEF Exit, Calls
  <2>2. CASE HasJoiner(cur[p])
    <3>1. joiner[cur[p]] \in TCB
      BY <2>1, <2>2 DEF HasJoiner, TInv, TypeOK
    <3> QED BY <1>3, <2>1, <2>2, <3>1, ReadyWakesOne DEF Exit
  <2>3. CASE ~HasJoiner(cur[p])
    BY <1>3, <2>1, <2>3, QuietWakes DEF Exit, Goto, Looking
  <2> QED BY <2>2, <2>3
<1>4. ASSUME NEW u \in Thread, Create(p, u) \/ Unblock(p, u) PROVE WakeInv'
  <2>1. cur[p] \in TCB /\ at[cur[p]] = "user"
    BY <1>1, <1>4 DEF Create, Unblock, Calls
  <2>2. at = [at EXCEPT ![cur[p]] = at[cur[p]]]
    BY <2>1 DEF TInv, TypeOK
  <2>3. ReadyEnqueue(u, [at EXCEPT ![cur[p]] = at[cur[p]]])
    BY <1>4, <2>2 DEF Create, Unblock
  <2> QED BY <1>4, <2>1, <2>3, ReadyWakesOne DEF Create, Unblock
<1> QED BY <1>2, <1>3, <1>4

\* While a pthread sleeps unsignalled there is a pthread awake and idle for
\* each ready thread, whatever their numbers and however the steps of
\* ready_queue_dequeue, pthread_cond_wait and ready_queue_enqueue interleave
\* (uthread.c:217-228, 194-205).
THEOREM WakeupsKept ==
  ASSUME ParkersOnlyPark
  PROVE  Spec => []NoLostWakeup
<1>1. Init => WakeInv
  BY LookingCount DEF Init, WakeInv, NoLostWakeup, Asleep, Looking
<1>2. TInv /\ TInv' /\ SInv /\ WakeInv /\ [Next]_vars => WakeInv'
  <2> SUFFICES ASSUME TInv, TInv', SInv, WakeInv, [Next]_vars PROVE WakeInv'
    OBVIOUS
  <2>1. CASE UNCHANGED vars
    BY <2>1 DEF vars, WakeInv, NoLostWakeup, Asleep
  <2> QED BY <2>1, WakeDequeue, WakeQuiet, WakeReady DEF Next, Step
<1>3. WakeInv => NoLostWakeup
  BY DEF WakeInv
<1> QED BY <1>1, <1>2, <1>3, SharingInvariant, PTL DEF Spec
=============================================================================
