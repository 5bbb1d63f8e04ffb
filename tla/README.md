# Verification of the CPSC 213 assignments

The repository holds the eleven assignments of a course on computer systems:
programs for a simulated processor, small C and Java programs, and, in
Assignments 9 to 11, a user-level thread package with the concurrent programs
that run on it. The thread package is where steps interleave, memory is freed by
whoever comes last and wakeups can be lost; it is what
this project models in most detail, with all the programs that use it. The processors,
memory, lists, trees, sorts and reference counts are modelled as well.

Paths below are relative to `src/`. `uthread.c`, `uthread_mutex_cond.c` and
`uthread_sem.c` stand for the files in `Assignment10/uthreads/`. Assignment 11 has
the same three files, and the same `uthread.c` is in Assignment 9.

## The system

| Part | State | Operations | Depends on |
|---|---|---|---|
| Thread package, `uthread.c` | TCBs (state, joiner, saved stack), ready queue, sleeping pthreads | init, create, self, yield, block, unblock, join, detach, the exit of a thread | pthreads, spinlocks |
| Mutexes and conditions, `uthread_mutex_cond.c` | holder, reader count, two queues of waiters; a queue for each condition | lock, lock_readonly, unlock, wait, signal, broadcast | block and unblock |
| Semaphores, `uthread_sem.c` | value, queue of waiters | create, wait, signal | block and unblock |
| Producers and consumers, `Assignment10/pc.c`, `Assignment11/pc_sem.c` | items, histogram | two loops | a monitor, three semaphores |
| Cigarette smokers, `Assignment11/smoke.c` | resources on the table, counts | agent, three smokers | a monitor with four conditions |
| Drinking well, `Assignment11/well.c` | count, entered, endianness, histograms | enter, leave | a monitor, the order of one processor |
| Rendezvous, `Assignment10/q1.c` to `q4.c` | a counter, a barrier, two flags | threads that count, meet, go in turn | monitor, join |
| Simulated disk, `Assignment9/disk.c` and the readers | pending requests, a timer, a queue of readers | schedule, completion interrupt, read synchronously, asynchronously, with threads | SIGALRM, block and unblock |
| SM213, `Assignment2,6,7/CPU.java`, `Assignment8/q3/sm.c`, `sm-jt.c`, `Assignment1/MainMemory.java` | registers, memory | fetch, execute, read, write | none |
| Data structures and reference counts, Assignments 3, 4, 5, 7, 8 | lists, trees, stacks, sets, counts | insert, traverse, map, fold, filter, sort, keep and free references | none |

The parts interact in two ways. Within the package, pthreads share the TCBs and the
ready queue; some of the accesses are under spinlocks and some are not. Above it,
the synchronisation modules call `uthread_block` after queueing the caller and
`uthread_unblock` on what they dequeue, and the programs use the synchronisation
modules.

What is hard here:

* a thread is made ready before it has left its stack, another pthread may pick it
  up, and the switch reads the thread it left without a lock after that;
* an exiting thread, the pthread that runs its last switch and the thread that
  joins or detaches it decide among themselves who frees it;
* an idle pthread gives up the queue's spinlock before it sleeps;
* no signal hands anything over: a woken thread tests again, and others come in
  between;
* signals to a condition with no waiters are lost;
* woken threads act on shared data that they, or others, tested earlier;
* the disk's interrupt handler runs on the stack of any thread and of another handler, and
  the flag and the mask that are to keep it out are reset by whoever finishes first;
* sharing by reference count, where each pointer stored, moved or dropped is a count.

`PROJECT.json` lists these hazards at their lines, each with the properties that
would notice it going wrong.

What makes each part correct:

* thread package: one pthread to a stack, one dispatch for each time a thread is made
  ready, no use of freed memory, joins that end and take the value after it is
  stored, no pthread asleep while it is needed, exited threads freed;
* mutexes: writers alone and readers together; semaphores: never below zero; both:
  queues that hold just the blocked threads, and no lost wakeups;
* programs: their assertions, and that they finish;
* disk: the right answer, data in place before whoever waits for them goes on, the signal
  never left blocked and no lock left taken when all that remains is to wait;
* well: never too many, never two kinds, and who is left waiting is left by design;
* processors: the three agree and a refused access changes nothing; data structures:
  they compute what their comments say, but for what two of `list.c` say of maps (see the
  findings), and free every element once.

## The modules

    Uthread     CountingSemaphore     Monitor                SequenceList
                      ^ implements       ^ implements             ^ implements
    ThreadQueue --> Semaphore         MutexCond                GenericList
                      |              /    |    \                    |
                    PCSem          PC  Smoke  Rendezvous       ListOps -- Trunc

    Well     Disk     Words -- SM213     Tree -- RefCount, Ordered     IntegerSet

`MCx` gives module `x` the definitions TLC needs and `x_proofs` holds the theorems
about it; those about Semaphore are in `PCSem_proofs`, those about Rendezvous, Well
and Disk in `MCPrograms_proofs`, and those about GenericList and IntegerSet in
`ListsAndSets_proofs`, by way of `ListsAndSets`, where `MCSequential` finds the two. `ThreadQueue` has the vocabulary of queues that the synchronisation
modules share. `UthreadSharing` is the inductive invariant that `Uthread_proofs`
proves of `Uthread`. `Lemmas` has what several proofs need: facts on queues, their order, sums and folds.

**Uthread** models `uthread.c` with its own granularity: every critical section of
`ready_queue_spinlock` or of a `join_spinlock` is a step, and every access that is
not in one is a step of its own. A pthread `p` is on the stack of thread `cur[p]`,
or on none between the store of the leaving thread's state and the switch of stack
pointers, when it works from registers (`regs`) alone. `at[t]` is the place the
stack of `t` has reached: `deq`, `sleep`, `asleep`, `woken` are inside
`ready_queue_dequeue`, `switch` is the first part of `uthread_switch`, and `post`,
`reap`, `post2`, `requeue`, `resume` the second, executed on the stack of the
thread switched to. `peer[t]` is the local variable of `uthread_switch` in the frame of `t`:
the thread to go to, and, after the switch, the one that was left. `DYING`, `RUNABLE`
and the rest are the code's states. `pthread_mutex` is modelled because
`ready_queue_dequeue` keeps it when it releases the spinlock. The processor ids are
also the ids of the `pthread_base` threads. Applications are a constant, `Ops`: the
calls the code of each thread may make, in any order. Two things are assumed of
them, which all programs of the repository obey: join and detach are called at most
once for each thread, and unblock only once for each time a thread has been queued to be
woken (`waiting`).

**MutexCond** and **Semaphore** model the two synchronisation modules, a critical
section of the spinlock a step. `uthread_block` and `uthread_unblock` are taken at
their word: an unblocked thread runs again, also when the unblock precedes the
block. `th[t]` (in Semaphore, `at[t]`) is where a thread stands: about to test the loop,
blocked in it, or past it. Clients are arbitrary, except that they unlock what they
hold and wait, signal and broadcast with the mutex for writing, as the code
asserts. **Monitor** and **CountingSemaphore** are what a client may rely on; they
have no queues and no order.

**PC** and **PCSem** put the two producer/consumer programs on top of them. Reads and
writes of `items` and of `histogram` are separate steps, so that exclusion is
something the locks have to provide. A failed assertion is the place `aborted`.

**Smoke** models the agent and the smokers; a smoker is named by its resource.
The smokers never end, so a run of the program is over when the agent's thread is.

**Rendezvous** has `q1.c` to `q4.c`, chosen by `program`, with what they print in `out`.
`pc` is where each thread is; `cnt += 1` is a read and a write.

**Well** is the well under `uthread_init(1)`. Nothing interrupts a thread on one
processor, so a step is all it does up to the next yield or block, and the mutex is free
whenever it is asked for. What matters is the order of the ready queue, which `ready`
keeps, its head running. That order, and not any test in `enterWell`, is what makes the
well safe. The kind a person draws is chosen in `Init`.

**Disk** is `disk.c`, `queue.c`, the scheduling of one pthread (`ready`, `cur`, the idle
loop, join, exit) and the four clients. `frames` is the stack of handlers on top of
thread `cur`. A critical section of a thread is one step, since the signal is blocked in
it, and two in a handler, where it is not if a nested handler has cleared `isInterrupt`.
`masked` is the signal mask; it follows `spinlock_lock` and `spinlock_unlock`, the entry
of a handler and the two places that leave it set (the return of a handler restores it).
Times are reduced to `due`, the number of reads that have completed. `prompt` tells apart
the behaviours in which the processor always reaches its wait before the next interrupt,
which is what 1 ms between ticks means in practice, from those in which an interrupt may
come anywhere: safety is stated of both, except where the comment of the property says
otherwise, and termination of the first.

**SM213** runs one program on three machines in lockstep: `sm` (the switch of `sm.c`),
`jt` (the jump tables of `sm-jt.c`) and `cpu` (the Java classes, `version` 2, 6 or 7,
over `MainMemory.java`). Words are of 32 bits, from **Words**, bytes are signed in Java
and unsigned in C. An access that C does not check and that leaves an array makes the
machine `undefined`, after which nothing is said of it.

**ListOps** has the operations of `list.c` on an array of cells with a length and a size;
cells that were never written are `Uninitialized`. **GenericList** is a client that
calls them in any order on several lists, and **SequenceList** what it may rely on.
**Trunc** is the pipeline of `trunc.c` over the same operations.

**RefCount** keeps the count of every element and value, the links of the list and the
tree, and whether freed memory was used. `includeElement` is any choice. **IntegerSet**
does the same for the set and the stack of Assignment 5 q3. **Tree** has the insertion
and traversals that RefCount and **Ordered** use; Ordered has the programs that print
their arguments in order: two bubble sorts and five trees. `Tree`, `RefCount` and
`MCSequential` have recursive operators and no theorems.

**MCPrograms** and **MCSequential** check programs that share nothing in one run each: the
variable `part` selects one, and the others keep one initial state.

### Mutants

An operator with a name in `M` (`StillRunningM`, `WaitOnceM`) is a copy of the definition after
it with a bug that one might have written: a guard dropped, a test with the wrong
bound, a reset forgotten, `if` for `while`. No specification uses them. For every
property of every run, `PROJECT.json` names a mutant that makes the property fail,
so that the property is known to depend on that line of the code.

## The runs

| Run | Instance | Shows |
|---|---|---|
| `uthread_joining` | 2 pthreads, main and 2 workers that block only in join | `OneProcessorPerStack`, `DispatchedOnce`, and `JoinsSound`: nothing freed is used, no joiner is forgotten, and none goes on before the value is there |
| `uthread_sleepers` | 3 pthreads, 3 threads that come and go | `NoLostWakeup` between the queue and `pthread_cond_wait` |
| `uthread_one` | 1 pthread, 3 threads that also block and join one another | `SoundSharing`, what fails on two pthreads once threads block; ready threads run, joins return, exited threads are freed |
| `uthread_start_okay` | 2 pthreads, main and a worker that blocks | `OneProcessorPerStack` is violated, see below |
| `mutex` | 4 threads, 2 conditions | exclusion, queues, wakeups; implements `Monitor` |
| `pc` | 2 producers, 2 consumers, 1 place, 3 iterations | the assertions, `HistogramComplete`, `ItemsOffered`; all threads finish |
| `pc_sem` | the same with 2 places, 2 iterations | the assertions, `Accounted`; all threads finish; the semaphores implement `CountingSemaphore` |
| `smoke` | 3 rounds | when a round ends the right smoker has smoked and nothing is left behind; rounds end if the smokers wait first |
| `smoke_served` | 1 round | `AgentServed` without that condition is violated, see below |
| `programs` | q1 to q4 with 3 threads, 2 iterations of q2; a well for 3 of 6 people, 3 iterations, any kinds; 4 clients of the disk, 3 blocks, handlers up to 3 deep | `OutputRight`, `ProgramEnds`; `WellSafe`, `StuckOnOneKind`, `EvenCrowdFinishes`; `RightAnswer`, `DataBeforeReader`, `OpenToInterrupts`, `Finishes` |
| `sm213` | 30 bytes of memory, up to 3 instructions, every opcode with operands at their boundaries, 2 register files | `TablesAgree`, `JavaAgrees`, `ConversionsInverse`, `FaultsChangeNothing` |
| `sequential` | lists of up to 3, 1 and 1 elements; up to 5 arguments of trunc; 4 elements; 4 integers in 3 slots; 4 keys | `ListsAreSequences`, `TruncRight`, `CountsRight`, `SetOutlivesStack`, `OutputSorted` |

**Bounds.** Two pthreads are what it takes for a thread to be in two places, three
for one pthread to be signalled while another sleeps and a third runs. Each thread
can be created once, and joined by another that is itself joined; loops of the
threads are not bounded. Four threads on a mutex give a holder, two queued threads
of a kind and one that comes in between. `MaxValue` bounds the permits of a semaphore; in
`pc_sem` the programs themselves stay below it.
`NUM_ITERATIONS` is 200 in `pc.c` and 2 or 3 here, and 10 places become 1 or 2: the
threads must find the buffer both full and empty with two waiters at once, for which
one place is best, except that with semaphores one place would make the lock
superfluous. Three rounds of the agent let what a round leaves on the table meet the
next two. Six people are twice the occupancy of the well, so that more wait than can be
signalled, and with three iterations each they come back to a well that has changed sides.
Three blocks give one read before, in and after a nested handler; the partial
sums of what they hold differ. The blocks a hunt visits and the callbacks it queues are
not bounded. Two or three instructions show what one leaves for the next: a register for
an address, a jump for a fetch; the register files hold the least and greatest words, the
ends of memory and misaligned addresses. Lists start with one cell and double
(`INITIAL_SIZE` is 10 and `GROWTH_FACTOR` 5, which the theorem covers too), so that
growth happens at once; four elements have a first, a last and two in between, where deletion of neighbours meets; four integers in three slots must
collide; four keys are a tree with a full node below another. `STATIC`, 4 in the code, is 3.
Deadlock is not checked: the programs end, sleepers wait for work, and the
clients of a mutex need never call it again.

**Fairness.** `Uthread!FairSpec` has strong fairness for each pthread: the operating
system runs it, and a spinlock or mutex that is free again and again is obtained in
the end. (`SpuriousWakeup` is outside of it.) A thread with calls to make makes one. In the
synchronisation modules only the test of the loop is fair: a thread that was
unblocked gets to run (`ReadyRuns`), and nothing is assumed of when clients
unlock or signal. The programs have weak fairness for each thread, whose steps
cannot be disabled by others except by holding the mutex; what the code gives them
is a FIFO ready queue and no loop that keeps a processor for ever. The well has the
fairness of one processor. The disk has strong fairness of threads, of time and of the
tick, which nested handlers and the mask interrupt but do not end, and weak fairness of the
handler on top, which nothing but a held lock stops.

**Findings.**

1. `uthread_start_okay`. `uthread_switch` reads the state of the thread it has left
   twice, after the switch and without a lock (`uthread.c:544`, `553`). A thread that
   stopped in `uthread_block` may have been unblocked before it stopped, as the
   comment at 583-587 allows. Another pthread spins on its state, goes over to its
   stack, and the thread soon yields; the first pthread only now reads its state,
   finds `RUNABLE` and queues it, and the other does the same. The thread is handed
   out twice and two pthreads run on one stack. It takes a thread that blocks, two
   pthreads and an unlucky delay; `uthread_one` and `uthread_joining` show that
   one pthread, or threads that block in join alone, exclude it.
2. `smoke_served`. The agent locks the mutex as soon as it is created and signals
   conditions on which no smoker may be waiting yet. Those signals are lost, no
   smoker smokes, and the agent and `main`, which joins it, wait for ever.
   `AgentServedOnceSeated` shows that this is the only way.

Behaviour worth knowing that no document of the repository contradicts, each stated in
the comment of the property that meets it:

* Without an even crowd the last people at the well may wait for ever (`StuckOnOneKind`):
  signals to a side nobody waits on are lost, and the own side is not signalled.
* If an interrupt comes between lines 26 and 27 of `tRead.c`, and the read completes in it,
  the queue is empty and the handler crashes (`DataBeforeReader`). A read takes ten
  ticks, so it needs a thread that is kept from running for that long.
* If handlers nest, `aRead` can lose an addition (`RightAnswer`).
* A handler that unblocks a thread while the idle loop holds `pthread_mutex` spins for ever;
  this is why `Finishes` is stated of `prompt` behaviours.
* In Java the offset of `0xc` is an unsigned byte and the jumps through memory of
  Assignment 7 do nothing (`JavaAgrees` excuses both by name, `DoneApart`).
* `trunc` keeps a negative number as a word.

Two comments say other than the code, which no run has as a finding. `list_map1` and
`list_map2` place their results in `out_list` "(by appending)" (`list.c:113`, `134`), but
both set its length to 0 first (`123`, `147`), so that what it held is lost. The comment of
`list_map2` contradicts itself: three lines on, `out_list` is as long as the shorter of the inputs, which
is what the code does. The programs of the repository map into new lists only, where both
readings agree. The client of GenericList maps into lists that are not empty, and `SequenceList` follows the code:
`ListsAreSequences` shows that a map replaces the list, hence that it does not append.

The modules over the package take block and unblock at their word, that is, they
describe the code as it is on one processor or where the first finding does not bite.

## The proofs

All are for any values of the constants that satisfy the named assumption of their module.

| Theorem | Statement | Argument |
|---|---|---|
| `QueuesCorrect` | `Semaphore!Spec => [](TypeOK /\ OnInside /\ QueuedOnce)` | `Queues`, the conjunction itself, is inductive: that an unblocked thread was blocked follows from the queue it is taken from |
| `WakeupsCorrect` | `Semaphore!Spec => []NoLostWakeup` | inductive relative to `Queues`; a signal adds one permit and one thread on its way, a take removes one of each |
| `SafelyImplements` | `Semaphore!Spec => Abstract!SafeSpec` | each action maps to one of `CountingSemaphore`, queueing to a stutter |
| `MutexQueuesCorrect`, `MutexExcludes`, `MutexWakeups` | the invariants of `mutex` | one invariant `MInv` of types, exclusion, queues and wakeups. The queue of the conditions and the rest are proved apart (`CondQueues`, `MutexPart`), since most steps touch one of them |
| `MutexImplements` | `MutexSpec => Abstract!SafeSpec` | step by step, from `MInv` |
| `RunsOnMonitor` | `PC!Spec => MutexSpec` | every step of a producer or consumer is an operation of the monitor or leaves it alone |
| `PCAsserts` | `PC!Spec => []AssertsHold` | `PInv`: a thread between the test and the unlock holds the mutex, and knows that the test still holds and that its register has `items`. With `MutexExcludes` no other thread can spoil that |
| `SignalsSuffice` | `PC!Spec => []ItemsOffered` | `OInv`: `PInv`, the monitor's `MInv`, who waits where (`WaitersPlaced`) and the property. Told of both conditions at once (`Due`, `Offers`): a store takes one thread off the way to one condition and one unit off what it is owed, and announces one at the other; a signal passes an announcement on to the waiter it wakes; a thread starts to wait only when nothing is due |
| `HistogramAddsUp` | `PC!Spec => []HistogramComplete` | `HInv`: what is in the histogram and what is `left` of the iterations add up to all of them and one for each thread that has recorded its turn and not left it (`Balance`); what a thread is about to write back is still in the histogram, because it holds the mutex. With `SumAdd` each step changes both sides by the same |
| `RunsOnSemaphores` | `PCSpec => Semaphore!Spec` | every step of `pc_sem.c` is an operation of a semaphore or leaves them alone |
| `AccountKept`, `ItemsStayInRange` | `PCSpec => []Accounted`, `PCSpec => [](ItemsInRange /\ items \in 0..MAX_ITEMS)` | `PCInv`: `Queues`, what a thread inside a wait waits for, `lock` as 1 less the one thread that has it, and the account itself. A step moves one thread, so that each count changes by at most one (`Recount`, `CountsOfMove`), and what a count loses a value or another count gains. The range follows because no count is negative |
| `AssertionsHold` | `PCSpec => []AssertsHold` | as above, over `PCInv`; the lock that excludes is the semaphore `lock` |
| `SumAdd` | adding `d` to one value of a function on a finite set adds `d` to its `Sum` | see below |
| `SmokersUseMonitor` | `Smoke!Spec => MutexSpec` | every step of the agent or a smoker is an operation of the monitor or leaves it alone |
| `RoundsSound` | `Smoke!Spec => []RoundsEndRight` | `SmokeInv`, see below |
| `ExercisesUseMonitor` | `Rendezvous!Spec => MutexSpec` | every step of a thread is an operation of the monitor or leaves it alone |
| `OutputInOrder` | `Rendezvous!Spec => []OutputRight` | `RInv`: one invariant for each program. `Inv2`: `cnt` is the sum of what each thread has contributed (`Share`), and what a thread is about to write is from the current `cnt`, as it holds the mutex. `Inv3`: `threadsReached` counts the threads that arrived, and whoever is past the barrier, or woken at it, came there when it was 3, so that no thread is left that prints an `a`. `Inv4`: a flag is set by who has printed, and who goes on has seen the flag or was signalled by who set it (only `t1` waits for `oneCanGo`, only `t2` for `twoCanGo`) |
| `TypesCorrect` | `Uthread!Spec => []TypeOK` | `TInv` adds that no `pthread_base` is in join, detach or exit, and that a switch has a thread to go to and one it came from |
| `StacksExclusive`, `DispatchesOnce`, `JoinProtocolSound` | `ParkersOnlyPark` proves `Uthread!Spec => []` of `OneProcessorPerStack`, `DispatchedOnce`, `JoinsSound` | `SInv`, see below |
| `OnePthreadSound` | with `Proc = {Boot}`, `Uthread!Spec => []SoundSharing` | `SInv`, whose condition then holds of all programs |
| `WakeupsKept` | `ParkersOnlyPark` proves `Uthread!Spec => []NoLostWakeup` | `WakeInv`, see below |
| `WellIsSafe`, `WellStuckOnOneKind` | `Well!Spec => []WellSafe`, `Well!Spec => []StuckOnOneKind` | `WellInv`, see below |
| `DiskOpen` | `Disk!Spec => []OpenToInterrupts` | `Locked`: for every lock, for `isInterrupt` and for the mask, which handler or thread must be at work, and where, for it to be taken or set. In a quiet state nobody is |
| `DiskReaders` | `Disk!Spec => []DataBeforeReader` | `Paired` and `Stages`, see below |
| `DiskAnswer` | `Disk!Spec => []RightAnswer` | the same, with `OneAtATime` for `aRead` and `Threaded` for `tRead`, see below |
| `ProgramsApart` | `MCSpec => Well!Spec /\ Disk!Spec` | the run's specification takes the steps of one program at a time, so that the five theorems above hold of the run |
| `ListsImplement` | `GenericList!Spec => ListsAreSequences` | `ListInv`: every list is one that the calls build (`GoodLists`), and holds integers. Each call is right of any such list, see below |
| `SetOutlives` | `IntegerSet!Spec => []SetOutlivesStack` | `SetInv`: a slot has the first integer offered that belongs there (`SlotsRight`), the stack has what was created, last first, and the count of an integer is one for `main` while it makes it, one for its slot and one for its place on the stack (`CountsRight`) |

`Lemmas` has what they share: what appending and taking do to the elements of a queue, to
its being free of duplicates and to the order of its elements (`Precedes`), and the sums and
folds below.

**Sharing threads between pthreads.** What the three theorems on `Uthread` say follows from one
inductive invariant, `SInv`, the conjunction that `UthreadSharing` defines. Its parts are about
stacks and pthreads (`Stacks`: every stack that is not put off is run by one pthread), about a
thread's state, stack and last call (`CallsOK`, `StatesOK`), about what is queued or chosen
(`QueueOK`, `GoesOK`), about what a pthread has left and still looks at (`ComesOK`,
`PhasesOK`), about what is to be started (`WaitsOK`) and about joins (`ClaimsOK`, `ReturnsOK`).
None of the three properties is inductive alone: that a thread is chosen once rests on who may
still start it (`Pending`: it waits to be unblocked, or it joins a thread that has not ended),
on which pthread may still requeue it (`ComesFrom`), and on the place its stack has reached;
`Startable` is what these must amount to whenever a thread is made ready. The proof has a
lemma for each kind of step (a call, a stop, a dequeue, a switch, what follows a switch).

`ParkersOnlyPark` is the condition, on the constants, under which this holds: a thread that
calls block or join calls neither yield nor exit, save `main`, whose exit ends the process. It
is not a precaution of the proof. A thread that blocks may be
started while it is on its way into the switch; the pthread that starts it waits for its state
to be stored and then takes it over, while the pthread it left has yet to look at that state. If
the thread goes on to yield or to exit it is then requeued or freed twice, which is
the first finding, and run `uthread_start_okay` has the behaviour. The condition holds

* on one pthread of any program, since nobody can be started before it has stopped (`Parks` is
  then empty): of `sRead`, `aRead`, `tRead`, `treasureHunt` and `well`, which call
  `uthread_init (1)`. This is what `OnePthreadSound` states;
* on several pthreads if one thread creates, joins or blocks and the others create, detach, yield,
  unblock and exit, as in runs `uthread_joining` and `uthread_sleepers`.

It does not hold of `q1` to `q4`, `pc`, `pc_sem` and `smoke`, which call `uthread_init` with 4 or
more and whose threads both block and exit. For them, nothing is proved of Uthread beyond its
types, and the first finding says why. Apart from this the theorems are for any finite set of pthreads,
any threads and any calls.

**Pthreads that sleep.** `WakeInv` says of each thread in the ready queue that a pthread is on
its way to look for it, as long as some pthread is asleep with no signal: at most as many threads are queued as pthreads
look (`Looking`). `QuietWakes`, `ReadyWakesOne` and `WakeDequeue` are the three ways of changing
either count. `SleeperIsBase` (only a `pthread_base` sleeps) is from `SInv`: a signal that woke
a thread which is not one would wake nobody who looks.

**A round of the smokers.** `SmokeInv` says that the program is either at rest, with nothing on
the table and nobody on the way to it, or in a round for one smoker `w` (`Phase`). In a round
each of the other two resources is still to be signalled, or its smoker is awake and on the way
to put it down, or it lies on the table, or its signal found nobody and is lost: one of the
four, which is why no resource is put down twice. The smoker `w` is signalled only when both lie
there, so `w` alone smokes, and the table is clear when it does. The smoker that finds the table
complete is the last one awake, hence no order of waking matters. `Seats` says who can
be in which queue of the monitor; a lost signal ends the round for good (the
agent waits), which safety permits and run `smoke_served` shows.

**The well.** The loop of `enterWell` tests nothing that keeps a person out who was
signalled; that the well is safe follows from the order of the ready queue alone. `WellInv` describes
it for any number of people and of iterations. Everybody yields as often as there are
people, so who is `Sooner` done follows from the yields that are left and, if they are equal, from
who precedes whom. Those who have been signalled go in before anybody else moves to or
fro (`WokenFirst`): nobody is at the entrance, who is outside still has to yield, and
who is inside has only just begun. Those inside came in one after the other and are
the last to be done with yielding (`InsideLast`), with one exception: whoever has just left and
begins to yield is `JustBehind` one who is about to leave. So the others leave
before the first of them is back, and the sides change only when the well is empty. `TurnedInVain` is what `StuckOnOneKind` needs besides:
the well is turned to a side where nobody waits only if nobody is left inside or called to
it. How many are signalled at once is at most `MAX_OCCUPANCY`, which bounds who is inside or
on the way there.

**The disk.** All is for any number of blocks, whatever they hold, any delay of reads, and
handlers that nest to any depth and interrupt threads and handlers wherever the signal is
not blocked. The assumption on the constants is that blocks hold natural
numbers, which `treasureHunt` takes them for, and that `Garbage`, what a buffer holds at
first, is told apart from them.

Which read an interrupt belongs to is nowhere recorded: `disk.c` completes reads in
order, and the handler takes whatever entry is first in `queue.c`. `Paired` is why that
is right for `aRead` and `tRead`. The entries of the queue are as many as the pending reads and the handlers
that have delivered data and have yet to find out for whom (`Served`) together, and
`Matched` says in which order: the first are for handlers that have delivered, so their data are
in place, and the others are for the pending reads one by one. A program between its read and its entry is
ahead by one of either (`ReadAhead`, `EntryAhead`); it is `ReadAhead` of `tRead` that
can find the queue empty, when its data come at once, and `Waits` shows that a prompt
client has then left the processor. Since handlers nest, the one that delivered first may take
its entry last. The numbers still agree: which handler takes an entry does not matter, only
that as many have been taken as were delivered.

`sRead` and `treasureHunt` have one read under way at a time, and at most one handler at
work (`Alone`): any other finds nothing due. `OneRead` and `OneHunt` say how far it is, from
the pending read to the answer, and what the buffer then holds: the block just read, or the one that the hunt was
sent to (`Hunted`) after as many steps as `hops` has counted. `OneAtATime` says of `aRead` that the
queue has the blocks in turn (`InTurn`) and, if handlers do not nest, that `sum` or the register of the
handler has the blocks taken so far (`AddStage`). `Threaded` says of `tRead` that the
threads in the ready queue have been created, that those which have queued themselves have their data
(`LinedUp`), and that `main`, when it is woken from a join, is so by the end of the
reader it waits for (`Joinings`). The sum is what the readers have `Added` that are past their
addition; when all are dead it is the answer.

**The lists.** `ListInv` says that a list has `len` integers in an array of `size` cells,
`len <= size`; of the other cells it says nothing, so they may be uninitialized or left
over, and that no call returns one is part of what is proved. For every function
of `list.h` there is a lemma of any such list (`AppendRight`, `InsertRight`, `Map2Right` and so on): the result
is such a list again, and its contents are those of the operator on sequences that SequenceList has for the call.
The elements are integers, as the functions that the client maps and folds with require
(`ElementsAssumption`). An array is expanded when it is full, and a factor of at least 2 makes room (`Grown`).
The refinement is then one case for each call.

**Sums.** `Sum` is `FoldFunction (+, 0, f)`, as the runs compute it. The rules of
induction of the library take an operator as a parameter, which no installed prover can
instantiate. `Lemmas` reaches the same by a counterexample with the fewest elements: `BySubsets`
takes the subsets of a finite set that have the property as a set, and `LeastNat` takes the least of the
sizes of the others, from the well-foundedness of `<` (`WFMin`). `FoldExists` proves that the
recursive function which `CHOOSE` stands for in the community module exists; that done,
`SumType`, `SumAdd` and `SumConstant` are one induction each. `D!Total` and `D!Treasure` are
folds of a sequence from its first element on, which the community modules compute over the set of
places from the last place down. `LeftFoldExists` is `FoldExists` for these; from it `Totals` and
`Hunts` have that the fold takes its elements one by one, and `list_foldl` and `list_filter`
that their loops compute the folds of SequenceList.

**What TLC alone checks.** Liveness (`ReadyRuns`, `JoinReturns`, `Reclaimed`, `Terminates`,
`AgentServedOnceSeated`, `ProgramEnds`, `EvenCrowdFinishes`, `Finishes`, the progress part of
the two refinements), which TLAPS cannot prove under fairness; what is
computed by recursive definitions or over data: `trunc` (`TruncRight`), the
trees, the elements that q4 shares, and the sorts (`CountsRight`, `OutputSorted`), which run on
recursive operators that TLAPS cannot see or need induction over them; and the processors
(`TablesAgree`, `JavaAgrees`, `ConversionsInverse`, `FaultsChangeNothing`), whose words use the
bitwise operators, recursive as well. Every other invariant that a run checks is a theorem.

## Not modelled

`PROJECT.json` lists every part with its status. Within the modelled parts these
are left out: the intrusive links of the queues (queues are sequences; `QueuedOnce` is
what makes that right); `uthread_self`'s search of stacks; the build without idle
sleep; in Uthread, the interrupt flag of the build with `SIG_PROTECTED` (Disk has it);
failures of `malloc`; `destroy`, which is `free`; `uthread_cond_naked_signal` of Assignment 9,
which no program calls; `element_set_value`, which no program calls and which would
count a string it does not own; arguments that are not checked and index outside of an array
(a negative key of the set, a position outside of a list). `element_create` copies a
string without its terminator (`element.c:19`): strings are values here, so this is noted
and not modelled.

`well_sem.c` is a stub, `promise.c` is used by nothing, `q2stack.c` has one fixed input, and
the assembly exercises are separate straight-line programs.

## Plan

Done: the package, its synchronisation modules with two refinements, all concurrent
programs, the disk, the processors, and the data structures; proofs of the safety of
all concurrent programs, of the disk, of the lists and of the sets. What remains worth doing:

1. The queues of `uthread.c` as links and tails, implementing sequences as
   long as a thread is in one queue at a time.
2. Some of the assembly exercises as images for `sm213`, against the C they translate.
