--------------------------------- MODULE Disk ---------------------------------
(* Assignment 9: the simulated disk of disk.c and the four programs that read   *)
(* from it, on one pthread. A timer signal runs handleTimerInterrupt on the     *)
(* stack of whatever executes. Its critical sections are not masked in the same *)
(* way everywhere: spinlock_lock blocks the signal and spinlock_unlock unblocks *)
(* it, except that neither does while isInterrupt is set. So the handler, which *)
(* starts with the signal blocked, lets it through once it has unlocked its     *)
(* queue, and handlers nest.                                                    *)
(*                                                                              *)
(* `frames` are the handlers under way, the innermost last, on the stack of     *)
(* thread `cur`. A critical section of a thread is one step, since the signal is*)
(* blocked in it; the lock and the unlock of one in a handler are two.           *)
EXTENDS Integers, SequencesExt

CONSTANTS Programs,   \* which of "sRead", "aRead", "tRead", "treasureHunt"
          NumBlocks,  \* num_blocks
          Story,      \* the contents of the disk, a sequence
          Garbage,    \* what memory holds before anything is stored there
          MaxDepth    \* bound on the handlers that nest

\* Story has the values of story[], which a hunt takes for numbers of blocks; Garbage is
\* told apart from them.
DiskAssumption == /\ NumBlocks \in Nat \ {0} /\ MaxDepth \in Nat
                  /\ Story \in Seq(Nat) /\ Story # <<>>
                  /\ Garbage \in Int /\ \A n \in DOMAIN Story : Story[n] # Garbage
                  /\ Programs \subseteq {"sRead", "aRead", "tRead", "treasureHunt"}

Readers == 0 .. NumBlocks - 1   \* threads of tRead; also the buffers
Main == NumBlocks
Idle == NumBlocks + 1           \* pthread_base
Threads == Readers \cup {Main, Idle}

VARIABLES
  program, start,          \* the program, and the block a hunt starts at
  prompt,                  \* whether the processor always waits before it is
                           \* interrupted again (see Quiet)
  prq, due,                \* the pending reads, oldest first; how many have
                           \* reached their completeTime
  queue,                   \* pending_read_queue
  held,                    \* the locks taken: "prq", "queue", "ready", "pthread"
  masked,                  \* SIGALRM is blocked
  isInterrupt,             \* of the current thread
  frames,                  \* the handlers under way, [pc, entry, reg]
  data,                    \* the buffers
  sum, flag, count,        \* sum; is_read_pending or finished; *count
  i,                       \* main's loop
  cur, at, ready, done,    \* the threads: current, places, ready queue, DEAD
  ended                    \* "no", "exit" or "crash"

disk == <<prq, due>>
locks == <<held, masked, isInterrupt>>
app == <<data, sum, flag, count, i>>
sched == <<cur, at, ready, done>>
fixed == <<program, start, prompt>>
vars == <<fixed, disk, queue, locks, frames, app, sched, ended>>

Block(b) == Story[1 + (b % Len(Story))]

Init ==
  /\ program \in Programs
  /\ start \in IF program = "treasureHunt" THEN 0 .. Len(Story) - 1 ELSE {0}
  /\ prompt \in BOOLEAN
  /\ prq = <<>> /\ due = 0 /\ queue = <<>>
  /\ held = {} /\ masked = FALSE /\ isInterrupt = FALSE /\ frames = <<>>
  /\ data = [b \in Readers |-> Garbage]
  /\ sum = 0 /\ flag = FALSE /\ count = 0 /\ i = 0
  /\ cur = Main
  /\ at = [t \in Threads |-> IF t = Main THEN "next"
                             ELSE IF t = Idle THEN "dequeue" ELSE "none"]
  /\ ready = <<>> /\ done = {}
  /\ ended = "no"
---------------------------------------------------------------------------
(* Threads. They run when no handler does.                                   *)

On(t, place) == ended = "no" /\ frames = <<>> /\ cur = t /\ at[t] = place

Go(place) == at' = [at EXCEPT ![cur] = place]

(* A critical section of a thread: spinlock_unlock unblocks the signal.       *)
Section(lock) == lock \notin held /\ masked' = FALSE /\ UNCHANGED <<held, isInterrupt>>

(* prq_enqueue of a thread, and queue_enqueue.                                *)
Schedule(buf, block) ==
  /\ Section("prq")
  /\ prq' = Append(prq, [buf |-> buf, block |-> block])
  /\ UNCHANGED due
Queue(val, callback) ==
  /\ Section("queue")
  /\ queue' = Append(queue, [val |-> val, callback |-> callback])

(* uthread_stop: the next thread runs, pthread_base if no other can. The       *)
(* state of the one that stops is stored by its callers.                       *)
Stop(place) ==
  /\ Section("ready")
  /\ cur' = IF ready # <<>> THEN Head(ready) ELSE Idle
  /\ ready' = IF ready # <<>> THEN Tail(ready) ELSE ready
  /\ at' = [at EXCEPT ![cur] = place]

Exit(how) == ended' = how

(* sRead: set the flag, schedule, spin until the handler has cleared it.       *)
SPending ==
  /\ program = "sRead" /\ On(Main, "next") /\ i < NumBlocks
  /\ flag' = TRUE /\ Go("sched")
  /\ UNCHANGED <<fixed, disk, queue, locks, frames, data, sum, count, i, cur, ready, done, ended>>
SSchedule ==
  /\ program = "sRead" /\ On(Main, "sched")
  /\ Schedule(0, i) /\ Go("spin")
  /\ UNCHANGED <<fixed, queue, frames, app, cur, ready, done, ended>>
SSpun(pending) ==
  /\ program = "sRead" /\ On(Main, "spin") /\ ~pending
  /\ sum' = sum + data[0] /\ i' = i + 1 /\ Go("next")
  /\ UNCHANGED <<fixed, disk, queue, locks, frames, data, flag, count, cur, ready, done, ended>>
SRead == \/ SPending \/ SSchedule \/ SSpun(flag)
         \/ /\ program = "sRead" /\ On(Main, "next") /\ i = NumBlocks
            /\ Exit("exit")
            /\ UNCHANGED <<fixed, disk, queue, locks, frames, app, sched>>

(* aRead: for each block a callback and a read, then wait for the last          *)
(* callback to exit.                                                            *)
ASchedulesM ==
  /\ program = "aRead" /\ i < NumBlocks
  /\ \/ /\ On(Main, "next") /\ Schedule(i, i) /\ Go("sched")
        /\ UNCHANGED <<queue, i>>
     \/ /\ On(Main, "sched")
        /\ Queue(i, IF i = NumBlocks - 1 THEN "read_and_exit" ELSE "read")
        /\ Go("next") /\ i' = i + 1
        /\ UNCHANGED disk
  /\ UNCHANGED <<fixed, frames, data, sum, flag, count, cur, ready, done, ended>>
ASchedules ==
  /\ program = "aRead" /\ i < NumBlocks
  /\ \/ /\ On(Main, "next")
        /\ Queue(i, IF i = NumBlocks - 1 THEN "read_and_exit" ELSE "read")
        /\ Go("sched")
        /\ UNCHANGED <<disk, i>>
     \/ /\ On(Main, "sched") /\ Schedule(i, i) /\ Go("next") /\ i' = i + 1
        /\ UNCHANGED queue
  /\ UNCHANGED <<fixed, frames, data, sum, flag, count, cur, ready, done, ended>>

(* treasureHunt: the first read and its callback, then wait for finished.       *)
HStart ==
  /\ program = "treasureHunt"
  /\ \/ On(Main, "next") /\ Queue(0, "first") /\ Go("sched") /\ UNCHANGED disk
     \/ On(Main, "sched") /\ Schedule(0, start) /\ Go("spin") /\ UNCHANGED queue
  /\ UNCHANGED <<fixed, frames, app, cur, ready, done, ended>>
HFinish ==
  /\ program = "treasureHunt" /\ On(Main, "spin") /\ flag
  /\ Exit("exit")
  /\ UNCHANGED <<fixed, disk, queue, locks, frames, app, sched>>

(* tRead: main creates the readers and joins them in turn. A join of a thread    *)
(* that is DEAD frees it, and does not unlock: the signal remains blocked.       *)
TCreate ==
  /\ program = "tRead" /\ On(Main, "next") /\ i < NumBlocks
  /\ Section("ready")
  /\ ready' = Append(ready, i)
  /\ at' = [at EXCEPT ![i] = "schedule"]
  /\ i' = i + 1
  /\ UNCHANGED <<fixed, disk, queue, frames, data, sum, flag, count, cur, done, ended>>
TJoin ==
  /\ program = "tRead" /\ On(Main, "next") /\ i \in NumBlocks .. 2 * NumBlocks - 1
  /\ IF i - NumBlocks \in done
     THEN /\ masked' = TRUE
          /\ i' = i + 1
          /\ UNCHANGED <<held, isInterrupt, sched>>
     ELSE Stop("joining") /\ UNCHANGED <<i, done>>
  /\ UNCHANGED <<fixed, disk, queue, frames, data, sum, flag, count, ended>>
TJoined ==
  /\ program = "tRead" /\ On(Main, "joining")
  /\ Go("next") /\ masked' = TRUE /\ i' = i + 1
  /\ UNCHANGED <<fixed, disk, queue, held, isInterrupt, frames, data, sum, flag, count, cur,
                 ready, done, ended>>
TExit ==
  /\ program = "tRead" /\ On(Main, "next") /\ i = 2 * NumBlocks
  /\ Exit("exit")
  /\ UNCHANGED <<fixed, disk, queue, locks, frames, app, sched>>

(* read_block: schedule, queue oneself, block, add.                              *)
TSchedule(r) ==
  /\ On(r, "schedule") /\ Schedule(r, r) /\ Go("enqueue")
  /\ UNCHANGED <<fixed, queue, frames, app, cur, ready, done, ended>>
TEnqueue(r) ==
  /\ On(r, "enqueue") /\ Queue(r, "unblock") /\ Go("block")
  /\ UNCHANGED <<fixed, disk, frames, app, cur, ready, done, ended>>
TBlock(r) ==
  /\ On(r, "block") /\ Stop("add")
  /\ UNCHANGED <<fixed, disk, queue, frames, app, done, ended>>
TAdd(r) ==
  /\ On(r, "add") /\ sum' = sum + data[r] /\ Go("return")
  /\ UNCHANGED <<fixed, disk, queue, locks, frames, data, flag, count, i, cur, ready, done, ended>>
(* The end of a thread: its joiner is made ready; the next thread runs and       *)
(* finds it DYING, which makes it DEAD.                                          *)
TReturn(r) ==
  /\ On(r, "return") /\ Section("ready")
  /\ LET joined == at[Main] = "joining" /\ i - NumBlocks = r
         queued == IF joined THEN Append(ready, Main) ELSE ready
     IN  /\ cur' = IF queued # <<>> THEN Head(queued) ELSE Idle
         /\ ready' = IF queued # <<>> THEN Tail(queued) ELSE queued
  /\ Go("dead")
  /\ done' = done \cup {r}
  /\ UNCHANGED <<fixed, disk, queue, frames, app, ended>>

(* pthread_base. It holds pthread_mutex with the signal unblocked from its        *)
(* spinlock_unlock to the wait, and again when it has been woken.                 *)
IdleDequeue ==
  /\ On(Idle, "dequeue")
  /\ IF ready # <<>> THEN Stop("dequeue")
     ELSE /\ "pthread" \notin held
          /\ held' = held \cup {"pthread"} /\ masked' = FALSE
          /\ Go("sleep")
          /\ UNCHANGED <<isInterrupt, cur, ready>>
  /\ UNCHANGED <<fixed, disk, queue, frames, app, done, ended>>
IdleSleep ==
  /\ On(Idle, "sleep")
  /\ held' = held \ {"pthread"} /\ Go("asleep")
  /\ UNCHANGED <<fixed, disk, queue, masked, isInterrupt, frames, app, cur, ready, done, ended>>
IdleWake ==
  /\ \/ On(Idle, "woken") /\ "pthread" \notin held
        /\ held' = held \cup {"pthread"} /\ Go("awake")
     \/ On(Idle, "awake") /\ held' = held \ {"pthread"} /\ Go("dequeue")
  /\ UNCHANGED <<fixed, disk, queue, masked, isInterrupt, frames, app, cur, ready, done, ended>>

ThreadStep == \/ SRead \/ ASchedules \/ HStart \/ HFinish
              \/ TCreate \/ TJoin \/ TJoined \/ TExit
              \/ \E r \in Readers : TSchedule(r) \/ TEnqueue(r) \/ TBlock(r) \/ TAdd(r) \/ TReturn(r)
              \/ IdleDequeue \/ IdleSleep \/ IdleWake
---------------------------------------------------------------------------
(* Time and the signal.                                                       *)

(* Nothing is left to do but to wait for the disk. *)
Quiet == /\ frames = <<>>
         /\ \/ cur = Main /\ at[Main] = "spin"
            \/ cur = Main /\ program = "aRead" /\ i = NumBlocks
            \/ cur = Idle /\ at[Idle] = "asleep"

(* A pending read reaches its completeTime; they do so in order.               *)
Time ==
  /\ ended = "no" /\ (prompt => Quiet) /\ due < Len(prq)
  /\ due' = due + 1
  /\ UNCHANGED <<fixed, prq, queue, locks, frames, app, sched, ended>>

(* The kernel blocks the signal while its handler runs, to begin with. A tick    *)
(* with nothing due only locks and unlocks, which matters when it cannot.        *)
Tick ==
  /\ ended = "no" /\ (prompt => Quiet) /\ ~masked /\ Len(frames) < MaxDepth
  /\ due > 0 \/ "prq" \in held
  /\ frames' = Append(frames, [pc |-> "scan", entry |-> <<>>, reg |-> 0])
  /\ masked' = TRUE
  /\ UNCHANGED <<fixed, disk, queue, held, isInterrupt, app, sched, ended>>

(* The innermost handler, and how it goes on. *)
Top == frames[Len(frames)]
In(pc) == ended = "no" /\ frames # <<>> /\ Top.pc = pc
To(pc) == frames' = [frames EXCEPT ![Len(frames)].pc = pc]

Lock(lock) ==
  /\ lock \notin held /\ held' = held \cup {lock}
  /\ masked' = (masked \/ ~isInterrupt)
  /\ UNCHANGED isInterrupt
Unlock(lock) ==
  /\ held' = held \ {lock}
  /\ masked' = (masked /\ isInterrupt)
  /\ UNCHANGED isInterrupt

(* The loop of handleTimerInterrupt with its queue locked; the signal is blocked  *)
(* for that long. The data are in place before the interrupt is delivered.        *)
Scan ==
  /\ In("scan") /\ "prq" \notin held
  /\ IF due > 0
     THEN /\ data' = [data EXCEPT ![Head(prq).buf] = Block(Head(prq).block)]
          /\ prq' = Tail(prq) /\ due' = due - 1
          /\ masked' = isInterrupt
          /\ To("deliver")
     ELSE /\ frames' = Front(frames)
          /\ masked' = FALSE
          /\ UNCHANGED <<disk, data>>
  /\ UNCHANGED <<fixed, queue, held, isInterrupt, sum, flag, count, i, sched, ended>>

SetInterruptM ==
  /\ \/ In("deliver") /\ isInterrupt' = TRUE /\ To("isr")
     \/ In("end") /\ UNCHANGED isInterrupt /\ To("scan")
  /\ UNCHANGED <<fixed, disk, queue, held, masked, app, sched, ended>>
SetInterrupt ==
  /\ \/ In("deliver") /\ isInterrupt' = TRUE /\ To("isr")
     \/ In("end") /\ isInterrupt' = FALSE /\ To("scan")
  /\ UNCHANGED <<fixed, disk, queue, held, masked, app, sched, ended>>

(* The service routine of sRead.                                              *)
SInterrupt ==
  /\ program = "sRead" /\ In("isr")
  /\ flag' = FALSE /\ To("end")
  /\ UNCHANGED <<fixed, disk, queue, locks, data, sum, count, i, sched, ended>>

(* That of the others: queue_dequeue, then the callback or uthread_unblock, of   *)
(* nothing if the queue is empty.                                                *)
InterruptLocks ==
  /\ program # "sRead" /\ In("isr") /\ Lock("queue") /\ To("dequeue")
  /\ UNCHANGED <<fixed, disk, queue, app, sched, ended>>
InterruptDequeues ==
  /\ In("dequeue") /\ Unlock("queue")
  /\ IF queue = <<>> THEN Exit("crash") /\ UNCHANGED <<frames, queue>>
     ELSE /\ frames' = [frames EXCEPT ![Len(frames)].pc = Head(queue).callback,
                                      ![Len(frames)].entry = <<Head(queue).val>>]
          /\ queue' = Tail(queue)
          /\ UNCHANGED ended
  /\ UNCHANGED <<fixed, disk, app, sched>>

(* handle_read, interrupted between its read of sum and its store.               *)
HandleRead ==
  /\ In("read") \/ In("read_and_exit")
  /\ frames' = [frames EXCEPT ![Len(frames)].pc = IF Top.pc = "read" THEN "store" ELSE "exit",
                              ![Len(frames)].reg = sum + data[Top.entry[1]]]
  /\ UNCHANGED <<fixed, disk, queue, locks, app, sched, ended>>
HandleStore ==
  /\ In("store") \/ In("exit")
  /\ sum' = Top.reg
  /\ IF Top.pc = "exit" THEN Exit("exit") ELSE UNCHANGED ended
  /\ To("end")
  /\ UNCHANGED <<fixed, disk, queue, locks, data, flag, count, i, sched>>

(* uthread_unblock: the signal for pthread_base is given under pthread_mutex.     *)
UnblockM ==
  /\ \/ In("unblock") /\ Lock("ready") /\ To("ready") /\ UNCHANGED ready
     \/ /\ In("ready") /\ "pthread" \notin held /\ Unlock("ready")
        /\ ready' = Append(ready, Top.entry[1])
        /\ To("end")
  /\ UNCHANGED <<fixed, disk, queue, app, cur, at, done, ended>>
Unblock ==
  /\ \/ In("unblock") /\ Lock("ready") /\ To("ready") /\ UNCHANGED <<ready, at>>
     \/ /\ In("ready") /\ "pthread" \notin held /\ Unlock("ready")
        /\ ready' = Append(ready, Top.entry[1])
        /\ at' = [at EXCEPT ![Idle] = IF @ = "asleep" THEN "woken" ELSE @]
        /\ To("end")
  /\ UNCHANGED <<fixed, disk, queue, app, cur, done, ended>>

(* handleFirstRead, handleOtherReads, and nextRead, which both end with.          *)
HandleHunt ==
  /\ In("first") \/ In("other")
  /\ count' = IF Top.pc = "first" THEN data[Top.entry[1]] ELSE count - 1
  /\ To("next")
  /\ UNCHANGED <<fixed, disk, queue, locks, data, sum, flag, i, sched, ended>>
NextReadM ==
  /\ \/ In("next") /\ count <= 1 /\ flag' = TRUE /\ To("end") /\ UNCHANGED <<locks, disk, queue>>
     \/ /\ In("next") /\ count > 1 /\ Lock("queue") /\ To("enqueue")
        /\ UNCHANGED <<flag, disk, queue>>
     \/ /\ In("enqueue") /\ Unlock("queue") /\ To("schedule")
        /\ queue' = Append(queue, [val |-> Top.entry[1], callback |-> "other"])
        /\ UNCHANGED <<flag, disk>>
     \/ In("schedule") /\ Lock("prq") /\ To("append") /\ UNCHANGED <<flag, disk, queue>>
     \/ /\ In("append") /\ Unlock("prq") /\ To("end")
        /\ prq' = Append(prq, [buf |-> Top.entry[1], block |-> data[Top.entry[1]]])
        /\ UNCHANGED <<flag, due, queue>>
  /\ UNCHANGED <<fixed, data, sum, count, i, sched, ended>>
NextRead ==
  /\ \/ In("next") /\ count = 0 /\ flag' = TRUE /\ To("end") /\ UNCHANGED <<locks, disk, queue>>
     \/ /\ In("next") /\ count # 0 /\ Lock("queue") /\ To("enqueue")
        /\ UNCHANGED <<flag, disk, queue>>
     \/ /\ In("enqueue") /\ Unlock("queue") /\ To("schedule")
        /\ queue' = Append(queue, [val |-> Top.entry[1], callback |-> "other"])
        /\ UNCHANGED <<flag, disk>>
     \/ In("schedule") /\ Lock("prq") /\ To("append") /\ UNCHANGED <<flag, disk, queue>>
     \/ /\ In("append") /\ Unlock("prq") /\ To("end")
        /\ prq' = Append(prq, [buf |-> Top.entry[1], block |-> data[Top.entry[1]]])
        /\ UNCHANGED <<flag, due, queue>>
  /\ UNCHANGED <<fixed, data, sum, count, i, sched, ended>>

HandlerStep == \/ Scan \/ SetInterrupt \/ SInterrupt \/ InterruptLocks \/ InterruptDequeues
               \/ HandleRead \/ HandleStore \/ Unblock \/ HandleHunt \/ NextRead

Next == ThreadStep \/ Time \/ Tick \/ HandlerStep

Spec == Init /\ [][Next]_vars

(* Time passes, a tick comes every tenth of a read, and handlers are so short      *)
(* that what they interrupt goes on between two of them.                           *)
FairSpec == /\ Spec
            /\ SF_vars(ThreadStep) /\ SF_vars(Time) /\ SF_vars(Tick) /\ WF_vars(HandlerStep)
---------------------------------------------------------------------------
(* What a program is to print: the sum of the first blocks, or the block where a   *)
(* hunt ends, which goes on for as many blocks as the first one says.              *)
Total == FoldLeft(LAMBDA s, b : s + Block(b), 0, [k \in 1..NumBlocks |-> k - 1])
Treasure == FoldLeft(LAMBDA b, k : Block(b), Block(start), [k \in 1..Block(start) |-> k])

Answer == IF program = "treasureHunt" THEN data[0] = Treasure ELSE sum = Total

(* A program that ends prints the right answer, wherever it is interrupted. Of      *)
(* aRead this holds only if handlers do not nest: handle_read adds to the sum in a  *)
(* handler, the next read may complete in the middle of that, and the last one      *)
(* exits.                                                                           *)
RightAnswer == ended = "exit" /\ (prompt \/ program # "aRead") => Answer

(* Whoever an interrupt takes from the queue, a callback or a reader, finds its     *)
(* data in place and its read no longer pending, also if handlers nest, when the    *)
(* inner one serves the outer one's reader. Only tRead, which schedules before it   *)
(* queues, can find the queue empty, if it is interrupted in between.               *)
DataBeforeReader ==
  /\ \A f \in Range(frames) :
       f.pc \in {"read", "read_and_exit", "ready", "unblock", "first", "other"} =>
         data[f.entry[1]] # Garbage /\ \A k \in DOMAIN prq : prq[k].buf # f.entry[1]
  /\ ended = "crash" => program = "tRead" /\ ~prompt

(* Whenever there is nothing to do but to wait for the disk, the signal can come    *)
(* in and its handler can take every lock: nothing a nested handler did to the mask *)
(* or a join to the lock it kept outlasts the code that did it.                     *)
OpenToInterrupts == Quiet => ~masked /\ held = {} /\ ~isInterrupt

(* Each program ends, if it is waiting by the time the next tick comes. (If not, a   *)
(* handler may spin on a lock of the code below it.)                                 *)
Finishes == prompt ~> ended # "no"
=============================================================================
