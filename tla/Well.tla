--------------------------------- MODULE Well ---------------------------------
(* The drinking well of Assignment11/well.c. uthread_init (1) makes one          *)
(* processor, threads run until they yield, block or return, and nothing         *)
(* interrupts them: the mutex is free whenever a thread asks for it, and a step  *)
(* is what one thread does between two switches. The order in which they run is  *)
(* that of the ready queue.                                                      *)
EXTENDS Naturals, Sequences, SequencesExt, FiniteSets

CONSTANTS NUM_PEOPLE, NUM_ITERATIONS, MAX_OCCUPANCY

\* FAIR_WAITING_COUNT is not used; the occupancyHistogram has room for
\* MAX_OCCUPANCY people, and three are signalled, whatever it is.
WellAssumption ==
  /\ NUM_PEOPLE \in Nat \ {0} /\ NUM_ITERATIONS \in Nat \ {0}
  /\ MAX_OCCUPANCY \in Nat \ {0}

People == 1 .. NUM_PEOPLE
Kinds == {"LITTLE", "BIG"}
OppositeM(g) == g
Opposite(g) == IF g = "LITTLE" THEN "BIG" ELSE "LITTLE"

VARIABLES
  kind,                       \* the endianness a person draws
  count, entered, endianness, \* of the well
  waiting,                    \* the queues of the conditions little and big
  ready,                      \* the ready queue; its head is running
  at,                         \* "enter", "woken", "inside", "outside", "done"
  yields,                     \* left of the loop a person is in
  rounds,                     \* iterations a person has finished
  ent,                        \* entered, when the person began to wait
  waitingHistogram, occupancyHistogram

statistics == <<ent, waitingHistogram, occupancyHistogram>>
vars == <<kind, count, entered, endianness, waiting, ready, at, yields, rounds,
          statistics>>

Init ==
  /\ kind \in [People -> Kinds]
  /\ count = 0 /\ entered = 0 /\ endianness = "LITTLE"
  /\ waiting = [g \in Kinds |-> <<>>]
  /\ ready = [p \in People |-> p]
  /\ at = [p \in People |-> "enter"]
  /\ yields = [p \in People |-> 0]
  /\ rounds = [p \in People |-> 0]
  /\ ent = [p \in People |-> 0]
  /\ waitingHistogram = [n \in 0 .. NUM_PEOPLE * NUM_ITERATIONS - 1 |-> 0]
  /\ occupancyHistogram = [g \in Kinds |-> [n \in 0 .. MAX_OCCUPANCY |-> 0]]

Running(p, place) == ready # <<>> /\ Head(ready) = p /\ at[p] = place

Record(g, n) ==
  occupancyHistogram' = [occupancyHistogram EXCEPT ![g] = [@ EXCEPT ![n] = @ + 1]]

(* The person switches out, with a first yield of NUM_PEOPLE, and `others` made   *)
(* ready before that.                                                             *)
YieldAfter(p, place, others) ==
  /\ ready' = Tail(ready) \o others \o <<p>>
  /\ at' = [at EXCEPT ![p] = place]
  /\ yields' = [yields EXCEPT ![p] = NUM_PEOPLE - 1]

(* The end of enterWell.                                                          *)
GoIn(p) ==
  /\ entered' = entered + 1
  /\ count' = count + 1
  /\ Record(kind[p], count + 1)
  /\ YieldAfter(p, "inside", <<>>)
  /\ UNCHANGED <<kind, waiting, rounds>>

(* An empty well takes the kind of who comes; else one waits, whichever is inside. *)
Enter(p) ==
  /\ Running(p, "enter")
  /\ IF count = 0
     THEN endianness' = kind[p] /\ GoIn(p) /\ UNCHANGED <<ent, waitingHistogram>>
     ELSE /\ ent' = [ent EXCEPT ![p] = entered] /\ waiting' = [waiting EXCEPT ![kind[p]] = Append(@, p)]
          /\ ready' = Tail(ready)
          /\ at' = [at EXCEPT ![p] = "woken"]
          /\ UNCHANGED <<kind, count, entered, endianness, yields, rounds,
                         waitingHistogram, occupancyHistogram>>

(* A woken person goes in without another look at the well.                       *)
EnterWoken(p) ==
  /\ Running(p, "woken")
  /\ waitingHistogram' = [waitingHistogram EXCEPT ![entered - ent[p]] = @ + 1]
  /\ GoIn(p)
  /\ UNCHANGED <<endianness, ent>>

Yield(p) ==
  /\ Running(p, "inside") \/ Running(p, "outside")
  /\ yields[p] > 0
  /\ yields' = [yields EXCEPT ![p] = @ - 1]
  /\ ready' = Append(Tail(ready), p)
  /\ UNCHANGED <<kind, count, entered, endianness, waiting, at, rounds, statistics>>

SignalledM == 4
(* How many the last to leave signals. *)
Signalled == 3

LastOutM == count = 0
(* count is tested after it has been decremented. *)
LastOut == count = 1

(* The last to leave turns the well over to the other kind and signals three.      *)
Leave(p) ==
  /\ Running(p, "inside") /\ yields[p] = 0
  /\ count' = count - 1
  /\ Record(endianness, count - 1)
  /\ LET other == Opposite(endianness)
         n == IF Len(waiting[other]) < Signalled THEN Len(waiting[other]) ELSE Signalled
     IN  IF LastOut
         THEN /\ endianness' = other
              /\ waiting' = [waiting EXCEPT ![other] = SubSeq(@, n + 1, Len(@))]
              /\ YieldAfter(p, "outside", SubSeq(waiting[other], 1, n))
         ELSE YieldAfter(p, "outside", <<>>) /\ UNCHANGED <<endianness, waiting>>
  /\ UNCHANGED <<kind, entered, rounds, ent, waitingHistogram>>

(* The end of an iteration: the next begins at once, or the thread returns.        *)
Again(p) ==
  /\ Running(p, "outside") /\ yields[p] = 0
  /\ rounds' = [rounds EXCEPT ![p] = @ + 1]
  /\ IF rounds[p] + 1 < NUM_ITERATIONS
     THEN at' = [at EXCEPT ![p] = "enter"] /\ UNCHANGED ready
     ELSE at' = [at EXCEPT ![p] = "done"] /\ ready' = Tail(ready)
  /\ UNCHANGED <<kind, count, entered, endianness, waiting, yields, statistics>>

Next == \E p \in People : Enter(p) \/ EnterWoken(p) \/ Yield(p) \/ Leave(p) \/ Again(p)

Spec == Init /\ [][Next]_vars

(* The processor runs. *)
FairSpec == Spec /\ WF_vars(Next)
---------------------------------------------------------------------------
Inside == {p \in People : at[p] = "inside"}

(* Although nobody tests the well again after a wait, it never holds more people   *)
(* than the statistics have room for, and all of one kind, its own: the three who  *)
(* were signalled run before anyone who could find the well empty. This rests on   *)
(* the FIFO ready queue and on a stay of more than one yield.                      *)
WellSafe ==
  /\ count = Cardinality(Inside) /\ count <= MAX_OCCUPANCY
  /\ \A p \in Inside : kind[p] = endianness

(* Signals to a kind that nobody waits for are lost, so that people can be left  *)
(* waiting at an empty well for ever. When that happens they are all of one kind,   *)
(* and the other kind has finished.                                                 *)
StuckOnOneKind ==
  ready = <<>> => /\ count = 0
                  /\ \E g \in Kinds : \A p \in People : at[p] # "done" =>
                                        at[p] = "woken" /\ kind[p] = g

Even == \E S \in SUBSET People : /\ 2 * Cardinality(S) = NUM_PEOPLE
                                 /\ \A p \in People : kind[p] = "BIG" <=> p \in S
AllDone == \A p \in People : at[p] = "done"

(* With as many people of one kind as of the other, every last one to leave finds    *)
(* some of the other kind to signal, and all return.                                 *)
EvenCrowdFinishes == Even ~> AllDone
=============================================================================
