# The thread virtual machine in TLA+

The program is a user-space thread package in C++ (a course project, "Project
2" of ECS 150).  A virtual machine loads an application from a shared object,
runs its threads preemptively inside one Unix process and offers it threads,
sleeping, mutexes and asynchronous files.  This directory holds a model of it,
the configurations that check the model with TLC, and theorems about it with
proofs for TLAPS.  `src/Project02.pdf` is the specification the authors worked
from; where the code and that text disagree the model follows the code.

## 1. Inventory of the system

| Part | Where | State | Operations | In the model |
|---|---|---|---|---|
| TCB | `UtilityFunctions.cpp` 125-274 | state, priority, ticks to sleep, I/O flag, deleted flag, list of mutex entries | setters, `addMutex`, `removeMutex`, `releaseMutexes` | `ThreadStore.tla` |
| ThreadStore, the scheduler | same, 284-668 | four ready lists, wait list, dead list, current thread, counters | `schedule`, `switchToNewThread`, `sleepCurrentThread`, `waitCurrentThreadOnIO`, early wake-ups, find, activate, delete, terminate, `timerEvent` | `ThreadStore.tla`, loops in `VirtualMachine.tla` |
| Mutex | same, 9-109 | owner, deleted flag, one queue for each priority | `lock`, `release`, `deleteFromVM` | `Mutexes.tla` |
| Calls | `VirtualMachine.cpp` | none of their own, but a saved signal mask on the stack of each caller | `VMThread*`, `VMMutex*`, `VMFile*` | `VirtualMachine.tla` |
| Timer, file callback | `UtilityFunctions.cpp` 492-532, 695-708 | none | `timerInterrupt`, `machineFileIOCallback` | `VirtualMachine.tla` |
| Thread entry and exit | same, 676-693 | none | `safeEntry`, `idle` | entry in `VirtualMachine.tla`, exit in `ThreadExit.tla` |
| VMStart | `VirtualMachine.cpp` 409-438 | none | start, run VMMain, shut down | `Init`; `MachineTerminate` in `MachineIO.tla` |
| Machine, signals and alarm | `Machine.cpp` 408-447 | signal mask of the process | suspend, resume, enable, alarm | the variable `masked`; pending bits in `MachineIO.tla` |
| Machine, file requests (parent) | `Machine.cpp` 187-228, 386-406, 449-539 | table of callbacks, request counter, two message queues | five requests, the handler of SIGUSR2, termination | `MachineIO.tla` |
| Machine, child process | `Machine.cpp` 253-377 | pending reads, poll set, one message buffer | the loop over requests | `MachineIO.tla` |
| Machine, contexts | `Machine.cpp` 80-166 | jump buffers, stacks | create, switch | by their effect |
| Modules, printing, main | `VirtualMachineUtils.c`, `main.c` | none | - | not modelled |

### How the parts interact

The application calls the virtual machine.  A call blocks all signals, works on
the ThreadStore singleton and the mutexes, and may reach
`switchToNewThread`, which saves the caller's context and continues another
thread *at the place where that thread was switched out*.  The call ends when
its own thread is switched in again and restores the signal mask it found.  The
alarm signal runs `timerEvent`, which walks the wait list and calls the
scheduler, so the interrupted thread too is switched out in the middle of its
handler.  A file call sends a message to a child process, kicks it with SIGUSR2 and
waits; the child does the system call, queues a reply and kicks the parent.  The
handler of SIGUSR2 runs on whatever thread is current, takes replies until the queue is
empty and runs the callback of each, which clears
the I/O flag of the thread that asked; the next tick moves that thread to a ready list.  When the timer finds the idle thread
running over empty lists it shuts the machine down.

### What is hard

* **Interleaving inside a call.** Everything a call reads before
  `switchToNewThread` may have changed when it goes on.  `VMMutexAcquire`
  decides about success there.
* **Two places for one fact.** A waiter is in the wait list, in a queue of the
  mutex and in its own list of entries, with a flag; four pieces of code update
  parts of them.
* **Timeouts.** A wait that times out is taken out of the wait list and of
  nothing else, so the mutex may be granted to a thread that gave up long ago.
* **Termination from outside.** `terminate` works on the running thread and is
  also called for others.
* **Handlers that are preempted.** The alarm can switch threads in the middle of the
  handler of SIGUSR2, which then goes on when that thread is scheduled again.
* **Two processes.** Both block their signals while they send, both queues are
  bounded, and signals coalesce.  The child has a single message buffer for the
  requests it receives and the replies it makes.
* **The way out.** A parent that terminates no longer drains replies; one that is killed
  leaves the child to notice.
* **The mask.** One saved mask for each call and interrupt, restored in
  another order than saved.
* **Liveness.** Nobody checks that a waiter is woken: that follows, or not,
  from who puts whom in which list.

`PROJECT.json` lists 39 such hazards at their lines, each with the properties that
would catch it or with the reason why none does.

### What makes each part correct

* Scheduler: every thread is in exactly the list its state names; the idle
  thread never leaves its list; a switch takes the highest ready thread; a high
  thread that is ready is run; the dead stay dead.
* Mutex: no two threads believe they hold it; a free mutex has no waiters; an
  endless sleeper is in the queue of an owned mutex; an acquire without a timeout
  returns only with the mutex; a waiter is served.
* Calls: application code always runs with the signals enabled; a file call
  returns with its own result; a sleep lasts as long as it was asked to.
* Timer: a finite sleep ends; a machine with nothing left stops.
* Machine layer: every request is answered once, to the thread that made it and with
  its data; no message lies in a queue unannounced; parent and child never wait
  for each other; the child ends when the parent does.

## 2. The modules

    ThreadStore <- Mutexes <- VirtualMachine <- VMCorrectness <- MCVirtualMachine
                                                             <- ThreadExit
    MachineIO <- IOCorrectness <- MCMachineIO
    FileService      an abstract specification, instantiated by VMCorrectness and IOCorrectness
    Lock             an abstract specification, instantiated by VMCorrectness

    SequenceFacts <- ThreadStore_proofs <- Mutexes_proofs <- VirtualMachine_proofs
                                             VirtualMachine_proofs <- Scheduling_proofs <- Sleeping_proofs
    SequenceFacts <- MachineIO_proofs <- IORequests_proofs

`A <- B` means that B extends A.  Every proof module also extends the module it is about.

**ThreadStore.tla** The singleton is a record `Store`; each method of `TCB` and
`ThreadStore` is an operator from the store it finds to the store it leaves.  The
C++ methods call each other and so do the operators: `SleepCurrentThread` is
`Schedule` after `Sleep`, `Schedule` is `SwitchToNewThread` after `PopReady`.
What schedule does *after* the switch is nothing, so a composition that ends
with a switch is complete.

**Mutexes.tla** `MutexLock`, `MutexRelease` and `DeleteFromVM` in the same style.
`InsertMutex` takes the initial value of the flag `deleted` as a parameter: the
constructor never sets it, so it is whatever the memory held.

**VirtualMachine.tla** The state machine.

| Variable | In the code |
|---|---|
| `store` | `ThreadStore::DUniqueInstance` and all it points to |
| `frame[t]` | where the context of thread t will go on: the call or handler it is in, the mask saved on its stack, the local that is still needed |
| `masked` | the signal mask of the process |
| `up` | false after `MachineTerminate()` was called by the timer |
| `pending[t]` | file requests of t whose reply has not been taken from the queue |
| `reply[u]` | the thread whose reply the handler of SIGUSR2, running on thread u, has taken and not yet applied |
| `held`, `owed` | history, read by properties only: what the application learnt from the return values of acquire and release; how many ticks a sleep still has to last |

A call is a step into the kernel (`VMThreadSleep`, `VMMutexAcquire`, ...: the
whole call up to where the context may change) and a step out of it (`Return`,
`AcquireReturn`: what the call does when its thread runs again).  One step can
stand for that much code because signals are blocked all the while and there
is only one processor.  The two loops that can be interrupted by a context switch
or whose iterations matter are taken one iteration at a time: `releaseMutexes`
(`KillRelease`, `KillFinish`) and `timerEvent` (`TimerKeep`, `TimerCountdown`,
`TimerWake`, `TimerDone`).  Interrupts come only when `Interruptible`: the
mask is open and the current thread is in application code or in the idle loop.
The handler of SIGUSR2 is two steps, `MachineReplySignalHandler` (take a reply
from the queue) and `MachineFileIOCallback`; it leaves the alarm open, so
`TimerInterrupt` may come between them and switch threads.

The application is any sequence of the calls in the constant `Calls`.  A
configuration restricts that set where a property needs a disciplined
application: the comment over each property in `VMCorrectness.tla` says which.
The history variable `held` is why mutual exclusion is not a restatement of
"owner has one value": it says that what two application threads *concluded*
from their return values is compatible.

**VMCorrectness.tla** The properties.  **MCVirtualMachine.tla** The specifications of the
two runs that assume a different fairness.

**ThreadExit.tla** The one path on which the ThreadStore is changed with the signals
*open*: a thread whose entry function returns goes through `terminateCurrentThread()` as a
plain function.  The module adds to the state machine a variable `exit[t]`, the step of that path
thread t has reached, and takes the path apart into the steps between which the timer may switch
threads (pop an entry, look for waiters, clear the owner or hand over, mark
dead, push to the dead list, pop the next thread, switch).  An interrupt *inside* a list operation, where
the list itself would be torn, and one inside the hand-over are left out.  So the module can show
what goes wrong and is not used to show that anything goes right.

**Lock.tla** What the mutexes promise to an application that terminates nobody and gives up no acquire: an
owner, one queue in the order of service (priority first, then arrival), and a set of blocked threads, for each
mutex and thread what a programmer would draw.  `ImplementsLock` maps the three lists of a mutex to
that queue and the threads that sleep for ever to the blocked ones, so it says that the wait list, the ready
lists, the entries in the TCBs and the queues of the mutexes tell one story through every step.

**FileService.tla** What the machine layer and the virtual machine promise each other, in
three actions over three variables: `Request(t)` (t's I/O flag is set and one more
reply is to come), `Take(u, t)` (a handler on u's stack takes a reply for t), `Callback(u)` (the flag of
that thread is cleared).

**MachineIO.tla** The machine layer: the parent, reduced to threads that make requests and
are switched by the alarm, and the child.

| Variable | In the code |
|---|---|
| `parent` | the process of the virtual machine: up, closed by `MachineTerminate()`, or dead |
| `cur`, `call[t]` | the thread that runs; whether t is in application code, in `msgsnd`, about to `kill`, waiting for its callback, or in `wait()` |
| `handler[t]` | the instance of `MachineReplySignalHandler` on t's stack: none, at `msgrcv`, or with a reply taken and not yet applied |
| `outbox` | the request being sent |
| `requestID`, `table`, `dest` | `MachineRequestID` and, for each id, the entry of `MachinePendingCallbacks`: whom to call back, whether there is a destination for data |
| `requests`, `replies` | the message queues |
| `usr2` | SIGUSR2 pending, one bit for each process |
| `child`, `reads`, `ready`, `isRead`, `answer`, `back`, `terminated` | the child: where it is in its loop, `PendingReads`, `revents`, the `DType` left in its buffer, the reply it sends and where it goes on then |

One step is what happens between two points at which the other process or the alarm can be noticed:
`msgsnd`, `kill`, `msgrcv` and the callback are steps of their own.  A file to be read becomes readable when the
environment wants (`ChildPoll`); the other four requests are answered at once.
The handler may be interrupted by the alarm between any two of its steps and go on much later, while
another instance of it runs on another thread's stack.

**IOCorrectness.tla** The properties of the machine layer, the refinement of
`FileService` and the fairness.  **MCMachineIO.tla** The symmetry of the callers.

The two state machines meet in `FileService`.  `ImplementsFileService` says that
every step of the machine layer is a step of that service or changes nothing it sees: the flag
of a thread is what `call[t] = "wait"` says, a reply is to come while the thread waits and no handler holds its
reply.  `UsesFileService` says the same of the virtual machine, whose
variables `pending` and `reply` and whose flag `waitingOnIO` *are* the service's.  So what the virtual
machine assumes about files (one callback for each request, for its caller, possibly long after the reply
was taken and on any stack) is what the machine layer does.

Definitions named as a mutant in their comment are deliberate faults, defined
beside the original and used nowhere.  Each property of each passing run was shown
to fail when one of them takes the place of the original.

### Abstractions

* Stacks, entry functions, names, buffers and results of file calls are left out;
  the five file calls differ only in those and are one action.
* Calls that return an error before they change anything, and the three queries,
  are stutters and are not listed.  The one exception, `VMMutexReleaseUnowned`, changes the mask.
* `deadList` is a set: it is only searched, never erased from, so neither order nor duplicates can be seen.
* After `waitList->erase(i)` the code reads the freed node (`i--`,
  `UtilityFunctions.cpp` 519; at 197, 313 and 330 the result is not used).  The
  model takes the outcome of an allocator that leaves the node's back pointer
  intact: the loop goes on with the successor.
* The alarm does not interrupt its own handler.  In the code it may, for an instant, at
  the start and at the end of `timerInterrupt`; such a tick has the effect of one that
  comes just before or just after.

## 3. The runs

In the runs over `MCVirtualMachine.tla` and `ThreadExit.tla` thread 0 is the main
thread (priority normal), 1 the idle thread; the others are created by the application.

| Run | Module | Question | Result |
|---|---|---|---|
| `sched` | MCVirtualMachine | threads of three priorities, sleep, files, no mutexes; the file service is used as specified | passes |
| `mutex` | MCVirtualMachine | two mutexes, waits without a timeout; the mutexes implement `Lock` | passes |
| `timeouts` | MCVirtualMachine | waits that time out, releases by strangers, acquiring what one owns | passes |
| `kill` | MCVirtualMachine | threads terminate themselves and each other; junk in new mutexes | passes |
| `live` | MCVirtualMachine | liveness of sleeping, files, priorities, shutdown | passes |
| `served` | MCVirtualMachine | liveness of waiting for a mutex | passes |
| `fileio` | MCMachineIO | two processes, one parent that may terminate or be killed: messages, refinement, liveness | passes |
| `queues` | MCMachineIO | do parent and child ever wait for each other? | passes |
| `hostage` | MCVirtualMachine | is every thread that waits for a file woken? | violated |
| `staledata` | MCMachineIO | does a read that is answered get its data? | violated |
| `exitrace` | ThreadExit | has a free mutex no waiters, when threads return from their functions? | violated |
| `killwaiter` | MCVirtualMachine | mutual exclusion when waiters are terminated | violated |

What the violated ones show, in short (the quotes are in `PROJECT.json`):

* `hostage`: thread 0 waits for a file, the idle thread runs and receives the reply;
  before its handler has called the callback the alarm switches to thread 2.  Threads 2 and
  3 keep each other busy, the idle thread never runs again, thread 0 waits for ever.
* `staledata`: a thread reads a file that is not readable yet.  Another thread writes.  The child answers the
  write, then the file becomes readable and it answers the read, in the same
  buffer, of which it sets the id and the result and not the type
  (`Machine.cpp` 348).  The parent sees the answer to a write, copies nothing and reports success.
* `exitrace`: the owner of a mutex returns from its function; `release()` finds no waiters; the timer
  switches to a thread that queues for the mutex and sleeps; the exiting thread goes on and clears the owner.
* `killwaiter`: terminating a waiter releases the mutex it waits for, whoever owns it.

The same properties hold in a passing run whose application does not use the
feature concerned, so each pair delimits what breaks the guarantee.  `NoCopyToNull` in
`fileio` is the harmless half of `staledata`: the wrong type makes the parent copy too little, never too
much.  `ChildExits` in `fileio` names
what it cannot exclude: a child whose parent has died or waits for it in `MachineTerminate()` exits, unless it has
more replies to send than the queue has room for and is stuck in `msgsnd` for ever
(`Machine.cpp` 226, 402).  For `hostage` there are two counterparts: `RequestAnswered` (in `fileio`: a request is
answered unless some handler is preempted) and `AnsweredFileCallerWakes` (in `live`: a
thread whose callback has run is woken).

Other ways in which the code falls short of what its application would expect are stated
as what *does* hold, with the exception spelt out:

* `InfiniteAcquireUnlessStale` (`timeouts`): thread A times out on mutex 0, then waits
  for mutex 1 without a timeout.  The owner of mutex 0 releases it; A is still in its
  queue, becomes owner of mutex 0 and is woken, and its acquire of mutex 1
  returns a failure.  The property says that this is the only way.
* `SleepCutOnlyByMutex` (`timeouts`): A waits for a mutex and is woken early by the release.
  Its newest entry still says it waits.  When A sleeps, the next tick sees a waiter
  whose mutex is its own and ends the sleep.  Nothing else ends one early.
* `UnlistedDeadStayDead` (`kill`): `terminate` of another thread leaves it in the ready or the
  wait list, from where it may run again.  A dead thread that is in no list stays dead.
* `OwnerLosesOnlyByRelease` (`kill`): a thread loses a mutex by its own release or by the
  termination of a thread with an entry for that mutex.
* `ApplicationIsPreemptible` (`sched`, and the theorem): `VMMutexRelease` on somebody else's
  mutex returns at line 133 without restoring the mask, and its caller can never be
  preempted again.  This is the only call that does that.

### Bounds and why they are enough

`MaxThread` and `MaxMutex` bound the ids.  Three threads besides idle in `sched`,
`mutex`, `live`, `served` and `exitrace` (one runs, one is ready, one waits, and two can
compete for what the third holds); two in `timeouts` and `kill`, whose state
spaces are larger because a thread has several stale positions; `kill` has one
mutex, for which a thread may have several entries.  Two mutexes
in `mutex` and `timeouts` let a thread hold one and wait for the other, which
is where the flag of the newest entry matters.  `MaxEntries` (entries of one
thread before another acquire), `MaxWaiters` (queue length before another
acquire), `MaxListed` (threads listed before another activate) and `MaxPending`
keep what the application can pile up finite; they are guards of calls
only, never of what the kernel does with what is there.  Timeouts of one and two ticks tell
apart "expired", "expires at this tick" and "later".

In `fileio` two callers and the idle thread, so that a handler can be preempted on either
caller's stack or on the idle one while another instance runs; queues of two, so that a signal can announce two
messages; three ids, so that they wrap (`NotOvertaken`: an id is not reused while its first user
waits, which in the code takes 2^32 requests: what the overwritten entry of line 220 would do then is not
covered); one file that has to be waited for, which all
callers may read at once.  `queues` asks for a full queue on both sides, so it has three callers and queues of
one message: two callers fill both, and the third is the one that could close the
circle.  The code meets the limit of `NeverBothBlocked` (2 * `QueueBound` + 1 callers) only with
very many threads: a queue takes 16 kB on Linux and the shortest message is a few bytes.

All passing runs explore their whole state space: between 11 thousand (`served`) and 3.5 million
(`kill`) states.  Deadlock is checked in the runs of the virtual machine (when the machine has
stopped the idle loop still spins, `IdleSpin`) and in `queues`.  In `fileio` the system really
may stop: a parent that waits for the exit of a child that waits for room in the reply queue
(see `ChildExits`).

### Fairness

*Virtual machine.*  `TimerFairness`: code that runs with the signals blocked runs on (weak fairness of
`Kernel`), and the periodic alarm (`ualarm(2 * usec, usec)`) is strongly fair: a tick that
finds the mask closed stays pending and is delivered when the mask opens.
Nothing is assumed of the application: a thread may compute for ever.  Nothing
is assumed of files either: `AnsweredFileCallerWakes` starts where the callback has run.
The application of `live` has no mutexes, so it releases none that it does not own (whose error return closes
the mask for ever and with it the timer), and terminates no other thread (a dead thread left in
a list by `terminate` may be switched to again or keep `waitList` from being empty); `SleeperWakes` is checked for
sleeps and, through them, for the timer, not for waits for a mutex with a timeout.
`served` adds `ReleasingApplication`: a thread that again and again is able to release a
mutex does so.  `hostage` adds that the child answers every request, that its signal is delivered and
that each handler by itself gets to its callback whenever its thread has the processor often enough, so
that its counterexample is not one in which something merely dawdles.

*Machine layer.*  `ProcessFairness`: the operating system runs both processes; a
`msgsnd` that has room and a `kill` happen; a pending SIGUSR2 whose mask opens again and again is delivered
(strong, as for the alarm), and handlers go on while their thread keeps the
processor (strong, because the alarm interrupts them; of all handlers together, which is why
`RequestAnswered` excepts preempted ones).  `FilesReadable`: a file that is polled for ever becomes
readable, without which no read need ever end.  Whether the parent terminates or dies is left open.

## 4. What is proved

Theorems are about the `Spec` of their state machine for every value of the constants under the named
assumptions.  A theorem about an application that does without some call says so in its hypothesis, in the
same terms in which the run that checks the property restricts `Calls`.

| Theorem | Property | Hypothesis on the application | Module |
|---|---|---|---|
| `TypeCorrect` | `TypeOK` | none | VirtualMachine_proofs |
| `NoWaiterLeftBehind` | `FreeMutexHasNoWaiters` | none | VirtualMachine_proofs |
| `MutualExclusionHolds` | `MutualExclusion` | terminates nobody | VirtualMachine_proofs |
| `AlwaysPreemptible` | `ApplicationIsPreemptible` | releases no mutex it does not own | VirtualMachine_proofs |
| `SwitchesPickHighest` | `SwitchPicksHighest` | none | Scheduling_proofs |
| `UnlistedDeadStay` | `UnlistedDeadStayDead` | none | Scheduling_proofs |
| `UsesTheFileService` | `UsesFileService` | none | Scheduling_proofs |
| `EntriesHaveOwners` | `EntryHasOwner` | none | Scheduling_proofs |
| `OwnersLoseOnlyByRelease` | `OwnerLosesOnlyByRelease` | none | Scheduling_proofs |
| `ThreadsArePlaced` | `ThreadsPlaced` | no thread terminates another | Scheduling_proofs |
| `DeadStayDead` | `DeadUntilActivated` | no thread terminates another | Scheduling_proofs |
| `FileResultsHaveArrived` | `FileResultHasArrived` | no thread terminates another | Scheduling_proofs |
| `ForeverSleepersAreQueued` | `ForeverSleeperIsQueued` | no thread terminates another | Sleeping_proofs |
| `SleepsCutOnlyByMutex` | `SleepCutOnlyByMutex` | terminates nobody | Sleeping_proofs |
| `SleepsAreNotCutShort` | `SleepIsNotCutShort` | terminates no other, creates no mutex | Sleeping_proofs |
| `InfiniteAcquiresUnlessStale` | `InfiniteAcquireUnlessStale` | terminates nobody | Sleeping_proofs |
| `InfiniteAcquiresSucceed` | `InfiniteAcquireSucceeds` | terminates nobody, gives no acquire a timeout (but zero), acquires no mutex it owns | Sleeping_proofs |
| `IOTypeCorrect` | `TypeOK` | - | MachineIO_proofs |
| `NoReplyIsForgotten` | `NoReplyForgotten` | - | MachineIO_proofs |
| `NoRequestIsForgotten` | `NoRequestForgotten` | - | MachineIO_proofs |
| `RequestsInOnePlace` | `EachRequestInOnePlace` | - | IORequests_proofs |
| `NothingCopiedToNull` | `NoCopyToNull` | - | IORequests_proofs |
| `MachineIOImplementsFileService` | `ImplementsFileService` | - | IORequests_proofs |
| `NeverBothWaitForRoom` | `NeverBothBlocked` | at most 2 * `QueueBound` + 1 threads besides idle | IORequests_proofs |

### The virtual machine

The assumptions are `IdsAssumption` (at least the main and the idle thread exist) and the
typing of the sets of calls, priorities, timeouts, flags and bounds.

*Types* (`TypeCorrect`).  More than types: the list of level 0 holds
the idle thread alone and the other lists never hold it, so `schedule` always finds a
thread (`NextLevelExists`) and its loop never runs past level 0; the wait list
and the queues of mutexes never hold the idle thread.  The invariant is inductive as
it stands.  The proof has a lemma for every operator of the store ("a well-formed
store stays well-formed") and one for each group of actions.

*Mutexes.*  `FreeMutexHasNoWaiters` is inductive together with `TypeOK`;
the lemmas `MutexReleaseEffect` and `MutexLockEffect` say what a release and a lock do to
owner and queues, and the rest of the kernel leaves the mutexes alone.
`MutualExclusion` is not inductive alone (and `killwaiter` shows that its hypothesis is needed).
The invariant adds that
nobody is being killed (no frame is at "kill"), that mutexes not yet created
have no owner (so a creation takes nothing from anybody), and that every
believer is the owner.  The acquire that returns checks the owner in the same step in which the
application comes to believe it, and only the owner's own release changes the owner.

*The mask.*
The mask a call restores was saved many switches earlier, so the invariant `MaskInv`
speaks of all stacks: only the current thread is in application code, with an open
mask, and every saved mask is open.

*The scheduler, whatever the application does.*  `Sched` is `Tidy` (a thread that is
in a ready list is in the list of its own priority; ids that are not yet given out are in no list),
`Alive` (the current thread is not dead) and `KillTargetsExist` (whoever is being terminated was created).  It is inductive with the types, though
terminations leave dead threads on the lists.  Each operation of the store is shown to be `Tame`:
it keeps that invariant, moves threads only between lists, passes over no ready thread, and
takes no thread that waits for a file off the wait list; the few steps for which that is not so
(`SpecialStep`: create, activate, yield, file call, callback and the end of `terminate`) are treated one by one.
`SwitchPicksHighest`, `UnlistedDeadStayDead` and the refinement of
`FileService` follow step by step.

*Lists and states.*  When no thread terminates another, `AllPlaced` is inductive with `SelfKill` (whoever is
at "kill" kills himself, so the thread that `terminate` marks dead is the current one, in no list): each
thread occurs once in the list its state names and nowhere else.  `DeadUntilActivated` follows, and with `FilesOK`
(at most one request of a thread is outstanding, as a reply to come or in one handler; then its
flag is set; and whoever has the flag set is on the wait list) so does `FileResultHasArrived`.

*Entries and owners.*  `EntryHasOwner` is not inductive: nothing in it prevents the release of a mutex for which an
entry is left.  The invariant that is counts.  `Covered`: a thread never has more
entries for a mutex than places in its queues plus one if it owns it.  An acquire adds to both sides; a
release takes an entry from the owner with the ownership, and the hand-over turns a place in a queue
into the ownership.  A mutex without an owner has empty queues (`NoWaiterLeftBehind`), so an entry for it would
have no cover.  This covers applications that terminate waiters, owners and each other.

*Sleepers.*  Every operation but the timer's is shown to let every thread sleep on (`SleepsOn`: whoever waited
waits on with the ticks it had), the exceptions being the caller that starts a wait and the
thread a mutex was just granted to (`HandsOn`), whose ticks become 0.  `ForeverQueued` (whoever sleeps for ever is in the queue of an owned mutex) is
preserved because only the hand-over takes a thread out of a queue.  For the two properties about sleeps that
return early the invariant `SleepersOK` says that a thread inside `VMThreadSleep` is owed nothing, owns a mutex, or waits with at least the
ticks it is still owed, and one more while the loop of `timerEvent` has not come to it (`Unvisited`).  For that the loop must visit every thread on the
wait list exactly once although it erases from the list as it goes, which
needs `AllPlaced` and that only the current thread is in that loop (`TimerIsCurrent`).

*Waits for a mutex without a timeout.*  `setWaitingOnMutex` and the timer look at the newest entry in the list of a thread only, so
what a sleeper waits for is the mutex of that entry (`NewestFor`), and nobody but the thread itself adds one.
`AskersOK` says that a thread inside such an acquire is the owner, or sleeps for ever with that mutex as its newest entry, or has been made
the owner of a mutex it does not believe it holds; it is inductive with `BelieversOwn`, and a thread
that runs does not sleep.  The third case is a stale place in a queue.  Without timed acquires, and without
second acquires of one's own mutex, there is none: `QueuersAsk` says that whoever is in a queue is there once, inside the acquire of
that very mutex, and not its owner.  It needs `AskersServed` (`AskersOK` without the third case) to know that the caller of a
new acquire is in no queue, and `AskersServed` needs it to know that a release makes a sleeper the owner of nothing else; the two are inductive
together.  The second hypothesis is not for convenience: a thread that waits for a mutex it owns is woken as
its owner by the next tick, and its place in the queue stays behind.

### The machine layer

The assumptions say only that the main and the idle thread
are different threads of a finite set, that the marks for "no entry" and "NULL callback" are no threads, that requests are operations, and
that a queue holds at least one message and there is at least one id.

*Types* (`IOTypeCorrect`).  Besides the types: the calls block the alarm, so only the current thread is in the middle of
one (`OneCaller`), which is what lets the parent keep one message in hand and one counter of ids; and every file
whose `revents` the child has still to look at has a pending read, though it removes reads as it
goes, so the search of `PendingReads` finds one.  A step that changes threads is shown to start in
application code or at the end of a call (`CallerStep`); the removal of one read is shown to
leave those of the other files (`PolledStep`).

*Signals.*  `NoReplyForgotten` is inductive with the types.
A reply enters the queue while its signal is still to be sent (`child = "kick"`); the step that sends
it sets the pending bit; the step that clears the bit enters a handler; a handler leaves only when
the queue is empty.  No step of that chain depends on how many replies a signal stands for.
`NoRequestForgotten` is the same for the other direction, where the child's loop
takes the place of the handler and a reply in the middle of the drain (`back = "drain"`) must lead back to it.

*Requests.*  `EachRequestInOnePlace` counts the places of a request: the parent's hand, two queues, the child's list of
reads, the child's hand, the handlers.  The lemma `PlacesCounted` makes the sum of cardinalities a sum of
occurrences, to which each step adds one and from which it takes one.  `IOInv` then adds who can be where
(`Orderly`: a table entry names a thread that waits or is about to, and no two name the same one; the idle thread
sends only the last message) and where data go (`Destined`: whatever carries the type of a read belongs to an entry with a
destination).  `NoCopyToNull` and the refinement of `FileService` follow.  For `NeverBothBlocked`, two full
queues, a message in the hand of the parent and a reply in that of the child are 2 * `QueueBound` + 2 requests of as many
different threads.

### The common ground

`SequenceFacts` counts the occurrences of the members of a set in a sequence (`Occ`), and says what `Append`, `Tail` and the
removal of a position do to that number and to the elements; both families use it.  The library's
induction theorems take an operator as a parameter, which the provers cannot instantiate, but that every
non-empty set of naturals has a least element can be had from the well-founded ordering of Nat (`FirstPosition`); this is what
the operators that search a list for the first position with a property need.

### Only model-checked

* The refinement of `Lock`.  No proof has been completed.
* All liveness properties, which are out of the prover's reach because of fairness and ENABLED.
* The properties of `ThreadExit` and the other runs that expect a violation: those do not hold.

## 5. Plan

Order: what the application depends on most came first.

1. *Done*: `ThreadStore`, `Mutexes`, `VirtualMachine`, `VMCorrectness`.
2. *Done*: `ThreadExit`, the exit with the signals open.
3. *Done*: `FileService`, `MachineIO`, `IOCorrectness`, with the refinement on both sides; `Lock`.
4. *Done*: proofs of the types of both state machines, of the two properties about forgotten
   messages, of mutual exclusion, of the queues of free mutexes and of preemptibility.
5. *Done*: both refinements of `FileService`, the places of requests, the scheduler (lists, switches, the dead),
   entries and owners, and the sleepers.
6. *Done*: waits for a mutex without a timeout.
7. A proof still worth having: `ImplementsLock`, step by step, from `QueuersAsk` and `AskersServed`, for which the
   order of the three queues must be related to the one of `Lock`.

## 6. Not modelled

* An interrupt in the middle of one operation on a standard container, which may happen on the
  exit of a thread and in the table of callbacks, and a call on the ThreadStore that
  `VMStart` has deleted: undefined behaviour whose outcomes have no bound.
* The rest of the way out of `VMStart`, and the destructors: memory only.
* The depth to which alarms nest on one stack.
* Contents and sizes of buffers and messages, file names and flags, results of system calls.  A read is
  told from the rest because it waits and because its reply carries data.
* Termination of a thread that waits for a file, in the machine layer (`VirtualMachine` has it).
* `MachineContextCreate`/`Switch` (jump buffers and signal stacks), module
  loading, printing, the command line, and the example applications, which
  are instances of the arbitrary application.

## 7. Running

    tlc -config sched.cfg MCVirtualMachine.tla
    tlc -config fileio.cfg MCMachineIO.tla
    tlc -config exitrace.cfg ThreadExit.tla
    tlapm Sleeping_proofs.tla
    tlapm IORequests_proofs.tla

`tlapm` checks one module and takes the theorems of the modules it extends as proved, so each
module whose name ends in `_proofs`, and `SequenceFacts`, has a run of its own.
