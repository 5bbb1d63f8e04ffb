------------------------------ MODULE Monitor ------------------------------
(***************************************************************************)
(* What a mutex with read-only locking and its condition variables promise: *)
(* writers alone, readers together, signals that reach a thread that waits  *)
(* if there is one, and someone let in whenever the monitor is free.  There *)
(* is no order among the threads that enter or wait.                        *)
(***************************************************************************)
CONSTANTS Thread, Cond

VARIABLES
  entering, \* threads that want the mutex for themselves
  joining,  \* threads that want it read-only
  writers, readers, \* threads that have it
  waiting   \* waiting[c]: threads in wait for condition c

vars == <<entering, joining, writers, readers, waiting>>

Init == /\ entering = {} /\ joining = {}
        /\ writers = {} /\ readers = {}
        /\ waiting = [c \in Cond |-> {}]

Outside(t) == /\ t \notin entering \cup joining \cup writers \cup readers
              /\ \A c \in Cond : t \notin waiting[c]

Ask(t) == /\ Outside(t)
          /\ entering' = entering \cup {t}
          /\ UNCHANGED <<joining, writers, readers, waiting>>

AskReadonly(t) == /\ Outside(t)
                  /\ joining' = joining \cup {t}
                  /\ UNCHANGED <<entering, writers, readers, waiting>>

Enter(t) == /\ t \in entering
            /\ writers = {} /\ readers = {}
            /\ entering' = entering \ {t}
            /\ writers' = {t}
            /\ UNCHANGED <<joining, readers, waiting>>

EnterReadonly(t) == /\ t \in joining
                    /\ writers = {}
                    /\ joining' = joining \ {t}
                    /\ readers' = readers \cup {t}
                    /\ UNCHANGED <<entering, writers, waiting>>

Leave(t) == /\ t \in writers \cup readers
            /\ writers' = writers \ {t}
            /\ readers' = readers \ {t}
            /\ UNCHANGED <<entering, joining, waiting>>

Wait(t, c) == /\ t \in writers
              /\ writers' = writers \ {t}
              /\ waiting' = [waiting EXCEPT ![c] = @ \cup {t}]
              /\ UNCHANGED <<entering, joining, readers>>

\* The threads in W stop waiting for c and ask for the mutex again.
Wake(c, W) == /\ waiting' = [waiting EXCEPT ![c] = @ \ W]
              /\ entering' = entering \cup W
              /\ UNCHANGED <<joining, writers, readers>>

Signal(t, c) == /\ t \in writers
                /\ waiting[c] # {}
                /\ \E w \in waiting[c] : Wake(c, {w})

Broadcast(t, c) == t \in writers /\ Wake(c, waiting[c])

LetIn == \E t \in Thread : Enter(t) \/ EnterReadonly(t)

Next == \/ LetIn
        \/ \E t \in Thread : Ask(t) \/ AskReadonly(t) \/ Leave(t)
        \/ \E t \in Thread, c \in Cond :
             Wait(t, c) \/ Signal(t, c) \/ Broadcast(t, c)

SafeSpec == Init /\ [][Next]_vars

\* A free monitor that someone wants does not stay free.
Spec == SafeSpec /\ WF_vars(LetIn /\ writers = {} /\ readers = {})
=============================================================================
