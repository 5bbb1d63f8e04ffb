------------------------------- MODULE Smoke -------------------------------
(***************************************************************************)
(* The cigarette smokers of Assignment11/smoke.c on the monitor of         *)
(* MutexCond.  A resource names itself, the condition the agent signals    *)
(* for it, and the type of the smoker that has it; smokers are identified  *)
(* with their type.  Operators whose names end in M are mutants of the     *)
(* definition that follows them (see the README).                          *)
(***************************************************************************)
EXTENDS MutexCond, Integers

CONSTANTS
  match, paper, tobacco, \* the resources
  smoke,          \* the condition the agent waits for
  agent,          \* the thread of the agent
  NUM_ITERATIONS  \* bound: rounds of the agent

Resource == {match, paper, tobacco}

ASSUME SmokeAssumption ==
  /\ Cardinality(Resource) = 3
  /\ Cond = Resource \cup {smoke} /\ smoke \notin Resource
  /\ Thread = Resource \cup {agent} /\ agent \notin Resource
  /\ NUM_ITERATIONS \in Nat \ {0}

VARIABLES
  table,   \* SmokerGroup: how many of each resource are available
  signal_count, smoke_count, \* by type of smoker
  pc,      \* where each thread is
  pending, \* the resources the agent has still to signal in this round
  rounds   \* rounds the agent has begun

appVars == <<table, signal_count, smoke_count, pc, pending, rounds>>
vars == <<mutexVars, appVars>>

Zero == [r \in Resource |-> 0]

Init ==
  /\ MutexInit
  /\ table = Zero
  /\ signal_count = Zero
  /\ smoke_count = Zero
  /\ pc = [t \in Thread |-> "lock"]
  /\ pending = {}
  /\ rounds = 0

-----------------------------------------------------------------------------
Goto(t, a) == pc' = [pc EXCEPT ![t] = a]

\* Thread t has the mutex and is at a.
In(t, a) == pc[t] = a /\ th[t] = "writing"

Lock(t) ==
  /\ pc[t] = "lock"
  /\ LockCall(t)
  /\ Goto(t, IF t = agent THEN "choose" ELSE "wait")
  /\ UNCHANGED <<table, signal_count, smoke_count, pending, rounds>>

\* A call of lock returns, or that of cond_wait.
Acquire(t) == Test(t) /\ UNCHANGED appVars

(* smoker.                                                                 *)

Wait(r) ==
  /\ In(r, "wait")
  /\ CondWait(r, r)
  /\ Goto(r, "woken")
  /\ UNCHANGED <<table, signal_count, smoke_count, pending, rounds>>

\* What a smoker needs besides its own resource.
Others(r) == Resource \ {r}

Available(r) == table[r] > 0

SmokeEagerM(r) ==
  /\ In(r, "woken")
  /\ \E o \in Others(r) : Available(o)
  /\ table' = [o \in Resource |-> IF o # r /\ table[o] > 0 THEN table[o] - 1
                                                        ELSE table[o]]
  /\ smoke_count' = [smoke_count EXCEPT ![r] = @ + 1]
  /\ CondSignal(r, smoke)
  /\ Goto(r, "chain")
  /\ UNCHANGED <<signal_count, pending, rounds>>

\* Both others are there: use them up and tell the agent.
SmokeNow(r) ==
  /\ In(r, "woken")
  /\ \A o \in Others(r) : Available(o)
  /\ table' = [o \in Resource |-> IF o = r THEN table[o] ELSE table[o] - 1]
  /\ smoke_count' = [smoke_count EXCEPT ![r] = @ + 1]
  /\ CondSignal(r, smoke)
  /\ Goto(r, "chain")
  /\ UNCHANGED <<signal_count, pending, rounds>>

\* Otherwise the wakeup means that the own resource is available.
PutDown(r) ==
  /\ In(r, "woken")
  /\ ~\A o \in Others(r) : Available(o)
  /\ table' = [table EXCEPT ![r] = @ + 1]
  /\ Goto(r, "chain")
  /\ UNCHANGED <<mutexVars, signal_count, smoke_count, pending, rounds>>

ChainableM(o) == FALSE

\* The smoker to be woken now that the two others are available.
Chainable(o) == \A q \in Others(o) : Available(q)

\* The first member of S in the order in which the code tests them.
FirstOf(order, S) ==
  order[CHOOSE i \in DOMAIN order : /\ order[i] \in S
                                    /\ \A j \in 1..(i - 1) : order[j] \notin S]

Chain(r) ==
  LET ready == {o \in Resource : Chainable(o)}
  IN /\ In(r, "chain")
     /\ IF ready = {}
        THEN UNCHANGED mutexVars
        ELSE CondSignal(r, FirstOf(<<match, tobacco, paper>>, ready))
     /\ Goto(r, "wait")
     /\ UNCHANGED <<table, signal_count, smoke_count, pending, rounds>>

(* agent.                                                                  *)

\* Two resources are chosen, that is the smoker who has the third.
Choose(r) ==
  /\ In(agent, "choose")
  /\ rounds < NUM_ITERATIONS
  /\ signal_count' = [signal_count EXCEPT ![r] = @ + 1]
  /\ pending' = Others(r)
  /\ rounds' = rounds + 1
  /\ Goto(agent, "signal")
  /\ UNCHANGED <<mutexVars, table, smoke_count>>

\* The conditions of both are signalled, in the order of the code.
Offer ==
  LET o == FirstOf(<<match, paper, tobacco>>, pending)
  IN /\ In(agent, "signal")
     /\ pending # {}
     /\ CondSignal(agent, o)
     /\ pending' = pending \ {o}
     /\ UNCHANGED <<table, signal_count, smoke_count, pc, rounds>>

AwaitSmoke ==
  /\ In(agent, "signal")
  /\ pending = {}
  /\ CondWait(agent, smoke)
  /\ Goto(agent, "choose")
  /\ UNCHANGED <<table, signal_count, smoke_count, pending, rounds>>

Finish ==
  /\ In(agent, "choose")
  /\ rounds = NUM_ITERATIONS
  /\ Unlock(agent)
  /\ Goto(agent, "done")
  /\ UNCHANGED <<table, signal_count, smoke_count, pending, rounds>>

Step(t) ==
  \/ Lock(t) \/ Acquire(t)
  \/ t \in Resource /\ (Wait(t) \/ SmokeNow(t) \/ PutDown(t) \/ Chain(t))
  \/ t = agent /\ (Offer \/ AwaitSmoke \/ Finish \/ \E r \in Resource : Choose(r))

Next == \E t \in Thread : Step(t)

Spec == Init /\ [][Next]_vars

\* Every thread that can run does.
FairSpec == Spec /\ \A t \in Thread : WF_vars(Step(t))

-----------------------------------------------------------------------------
(* Properties.                                                             *)

TypeOK ==
  /\ MutexTypeOK
  /\ table \in [Resource -> Nat]
  /\ signal_count \in [Resource -> 0..NUM_ITERATIONS]
  /\ smoke_count \in [Resource -> Nat]
  /\ pc \in [Thread -> {"lock", "wait", "woken", "chain", "choose", "signal",
                        "done"}]
  /\ pending \subseteq Resource
  /\ rounds \in 0..NUM_ITERATIONS

BetweenRounds == In(agent, "choose") \/ pc[agent] = "done"

\* The assertions of main (smoke.c:163-166), which hold after every round:
\* whenever the agent goes on, just the smokers whose turn it was have smoked.
RightOneSmoked == BetweenRounds => smoke_count = signal_count

\* A round leaves no resource behind that could let a smoker smoke out of turn
\* in a later one (smoke.c:78-81, 88-91, 98-101).
TableCleared == BetweenRounds => table = Zero

\* A round ends with just the right smoker served and nothing on the table,
\* whatever the order in which the smokers woke (smoke.c:78-115, 163-166).
RoundsEndRight == RightOneSmoked /\ TableCleared

\* After it has signalled two resources the agent goes on, because a smoker
\* smokes (smoke.c:120-125).
AgentServed ==
  pc[agent] = "choose" /\ th[agent] = "condBlocked" ~> In(agent, "choose")

\* When all smokers are waiting as the agent begins, it always goes on: no
\* signal of the agent or of a smoker (smoke.c:109-115) is lost later.
AgentServedOnceSeated ==
  [](In(agent, "choose") /\ rounds = 0 => \A r \in Resource : cond[r] = <<r>>)
    => AgentServed

=============================================================================
