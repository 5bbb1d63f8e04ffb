------------------------- MODULE CountingSemaphore -------------------------
(***************************************************************************)
(* What a semaphore promises: a count of permits that signal increases and *)
(* wait decreases, wait returning only by taking a permit that is there.   *)
(* There is no order among the threads that wait.                          *)
(***************************************************************************)
EXTENDS Naturals

CONSTANTS Thread, Sem

VARIABLES
  count,  \* permits left
  inside  \* threads that have called wait and not returned

vars == <<count, inside>>

Init == /\ count \in [Sem -> Nat]
        /\ inside = [s \in Sem |-> {}]

\* t calls wait.
Arrive(t, s) == /\ \A r \in Sem : t \notin inside[r]
                /\ inside' = [inside EXCEPT ![s] = @ \cup {t}]
                /\ UNCHANGED count

\* A wait of t takes a permit and returns.
Pass(t, s) == /\ t \in inside[s]
              /\ count[s] > 0
              /\ count' = [count EXCEPT ![s] = @ - 1]
              /\ inside' = [inside EXCEPT ![s] = @ \ {t}]

\* A thread that is not waiting signals.
Signal(t, s) == /\ \A r \in Sem : t \notin inside[r]
                /\ count' = [count EXCEPT ![s] = @ + 1]
                /\ UNCHANGED inside

Next == \E t \in Thread, s \in Sem : Arrive(t, s) \/ Pass(t, s) \/ Signal(t, s)

SafeSpec == Init /\ [][Next]_vars

\* While there are permits and threads that wait, one of them gets through.
Spec == SafeSpec /\ \A s \in Sem : WF_vars(\E t \in Thread : Pass(t, s))
=============================================================================
