--------------------------- MODULE VirtualMachine ---------------------------
(***************************************************************************)
(* The virtual machine as its application sees it: the calls of            *)
(* VirtualMachine.cpp, the timer interrupt and the file callback, over the *)
(* Store of ThreadStore.tla and Mutexes.tla.                               *)
(*                                                                         *)
(* All threads share one process and one signal mask.  A call blocks the   *)
(* signals, works on the Store, may switch to another thread in the        *)
(* middle, and restores the mask it found when its own thread is switched  *)
(* in again.  So a call is a first step that ends where the context may    *)
(* change, and a last step, taken when the thread is current again; the    *)
(* frame of a thread says which last step it owes.  While the current      *)
(* thread owes one, nothing else can happen.                               *)
(***************************************************************************)
EXTENDS Mutexes, FiniteSets

CONSTANTS
  Calls,        \* the calls the application makes (its discipline)
  Priorities,   \* the priorities it gives its threads
  Timeouts,     \* the finite timeouts it sleeps and waits for
  FreshFlags,   \* what the memory of a new Mutex's flag deleted may hold
  MaxEntries,   \* bound: mutexes a thread holds or waits for, before a new acquire
  MaxWaiters,   \* bound: waiters of one priority in a mutex's queue, before an acquire
  MaxListed,    \* bound: ready or waiting threads, before an activate
  MaxPending    \* bound: file requests outstanding for one thread

CallName == {"Create", "Activate", "Delete", "TerminateSelf", "TerminateOther",
             "Sleep", "Yield", "File", "MutexCreate", "MutexDelete",
             "AcquireForever", "AcquireTimed", "AcquireNow", "Reacquire",
             "Release", "ReleaseUnowned"}

ASSUME CallsAssumption == Calls \subseteq CallName
ASSUME PrioritiesAssumption == Priorities \subseteq Priority
ASSUME TimeoutsAssumption == Timeouts \subseteq Nat \ {0}
ASSUME FreshFlagsAssumption == FreshFlags \subseteq BOOLEAN
ASSUME BoundsAssumption == {MaxEntries, MaxWaiters, MaxListed, MaxPending} \subseteq Nat

VARIABLES
  store,      \* the ThreadStore singleton
  frame,      \* what each thread does next, once it is current
  masked,     \* are the signals of the process blocked?
  up,         \* FALSE once the timer has called MachineTerminate
  pending,    \* file requests whose reply is still to come, per thread
  reply,      \* whose reply the handler of SIGUSR2 that runs on a thread is applying
  held,       \* history: the mutexes the application believes each thread holds
  owed        \* history: the ticks of its last VMThreadSleep still to pass

vars == <<store, frame, masked, up, pending, reply, held, owed>>

\* Where a thread is: before safeEntry, in application code (or in idle's loop),
\* or in the kernel after a possible switch.  sig is the mask its last step
\* restores; arg is a mutex, a thread or a position in the wait list.
Frame == [at  : {"start", "app", "ret", "sleep", "io", "lock", "trylock",
                 "kill", "timer"},
          sig : BOOLEAN,
          arg : Nat]

AtStart == [at |-> "start", sig |-> TRUE, arg |-> 0]
InApp   == [at |-> "app", sig |-> FALSE, arg |-> 0]

\* A thread to terminate is never the idle one, and a lock names a mutex.
TypeOK ==
  /\ WellFormed(store)
  /\ frame \in [Thread -> Frame]
  /\ \A t \in Thread :
       /\ frame[t].at = "kill" => frame[t].arg \in User
       /\ frame[t].at \in {"lock", "trylock"} => frame[t].arg \in Mutex
  /\ masked \in BOOLEAN
  /\ up \in BOOLEAN
  /\ pending \in [Thread -> Nat]
  /\ reply \in [Thread -> Thread \union {None}]
  /\ held \in [Thread -> SUBSET Mutex]
  /\ owed \in [Thread -> Nat]

cur == store.current

\* VMStart has created the main and the idle thread and requested the alarm;
\* VMMain is about to run its first instruction.
InitStore ==
  [tcb |-> [t \in Thread |->
              IF t = Main THEN NewTCB("RUNNING", Normal)
              ELSE IF t = Idle THEN NewTCB("READY", 0)
              ELSE NewTCB("DEAD", Low)],
   ready      |-> [p \in 0..High |-> IF p = 0 THEN <<Idle>> ELSE <<>>],
   waitList   |-> <<>>,
   deadList   |-> {},
   current    |-> Main,
   numThreads |-> 2,
   mutex      |-> [m \in Mutex |-> [owner |-> None, deleted |-> FALSE,
                                    queue |-> [p \in Priority |-> <<>>]]],
   numMutexes |-> 0]

Init ==
  /\ store = InitStore
  /\ frame = [t \in Thread |-> IF t = Main THEN InApp ELSE AtStart]
  /\ masked = FALSE
  /\ up = TRUE
  /\ pending = [t \in Thread |-> 0]
  /\ reply = [t \in Thread |-> None]
  /\ held = [t \in Thread |-> {}]
  /\ owed = [t \in Thread |-> 0]

-----------------------------------------------------------------------------
\* The application calls the virtual machine.

Calling(c) ==
  /\ c \in Calls
  /\ up
  /\ cur # Idle
  /\ frame[cur].at = "app" /\ reply[cur] = None

\* A call that never reaches the scheduler is over in one step.
Finish(s) == store' = s /\ UNCHANGED <<frame, masked, up, pending, reply, held, owed>>

\* A call that may switch threads: its frame remembers the mask it found.
Enter(at, arg, s) ==
  /\ store' = s
  /\ frame' = [frame EXCEPT ![cur] = [at |-> at, sig |-> masked, arg |-> arg]]
  /\ masked' = TRUE
  /\ up' = up

VMThreadCreate ==
  /\ Calling("Create")
  /\ store.numThreads \in Thread
  /\ \E prio \in Priorities : Finish(InsertThread(store, prio))

Listed == Len(store.waitList) + Len(store.ready[Low]) + Len(store.ready[Normal])
            + Len(store.ready[High])

VMThreadActivate(t) ==
  /\ Calling("Activate")
  /\ Listed < MaxListed
  /\ Found(store, t) /\ store.tcb[t].state = "DEAD"
  /\ Enter("ret", 0, ActivateDeadThread(store, t))
  /\ UNCHANGED <<pending, reply, held, owed>>

VMThreadDelete(t) ==
  /\ Calling("Delete")
  /\ Found(store, t) /\ store.tcb[t].state = "DEAD"
  /\ Enter("ret", 0, DeleteDeadThread(store, t))
  /\ UNCHANGED <<pending, reply, held, owed>>

\* terminate() begins with the loop of releaseMutexes(), see KillRelease.
VMThreadTerminate(t) ==
  /\ Calling(IF t = cur THEN "TerminateSelf" ELSE "TerminateOther")
  /\ Found(store, t) /\ store.tcb[t].state # "DEAD"
  /\ Enter("kill", t, store)
  /\ UNCHANGED <<pending, reply, held, owed>>

VMThreadSleep(n) ==
  /\ Calling("Sleep")
  /\ Enter("sleep", 0, SleepCurrentThread(store, n))
  /\ owed' = [owed EXCEPT ![cur] = n]
  /\ UNCHANGED <<pending, reply, held>>

\* VMThreadSleep(VM_TIMEOUT_IMMEDIATE)
VMThreadYield ==
  /\ Calling("Yield")
  /\ Enter("sleep", 0, SleepCurrentThread(store, 0))
  /\ owed' = [owed EXCEPT ![cur] = 0]
  /\ UNCHANGED <<pending, reply, held>>

\* VMFileOpen, Read, Write, Seek and Close: send the request, wait on I/O.
VMFile ==
  /\ Calling("File")
  /\ pending[cur] < MaxPending
  /\ Enter("io", 0, WaitCurrentThreadOnIO(store))
  /\ pending' = [pending EXCEPT ![cur] = @ + 1]
  /\ UNCHANGED <<reply, held, owed>>

VMMutexCreate ==
  /\ Calling("MutexCreate")
  /\ store.numMutexes \in Mutex
  /\ \E junk \in FreshFlags : Finish(InsertMutex(store, junk))

FoundMutex(m) == m < store.numMutexes

VMMutexDelete(m) ==
  /\ Calling("MutexDelete")
  /\ FoundMutex(m) /\ ~ store.mutex[m].deleted
  /\ store.mutex[m].owner = None
  /\ Finish(DeleteFromVM(store, m))

\* An application that never acquires a mutex it already owns has no Reacquire
\* among its calls.
Acquire(m, timeout, at) ==
  /\ FoundMutex(m) /\ ~ store.mutex[m].deleted
  /\ store.mutex[m].owner = cur => "Reacquire" \in Calls
  /\ Len(store.tcb[cur].entries) < MaxEntries
  /\ Len(store.mutex[m].queue[store.tcb[cur].prio]) < MaxWaiters
  /\ Enter(at, m, MutexLock(store, m, timeout))
  /\ UNCHANGED <<pending, reply, held, owed>>

VMMutexAcquire(m) ==
  \/ Calling("AcquireForever") /\ Acquire(m, InfiniteTimeout, "lock")
  \/ Calling("AcquireNow") /\ Acquire(m, ImmediateTimeout, "trylock")
  \/ Calling("AcquireTimed") /\ \E n \in Timeouts : Acquire(m, n, "trylock")

\* Mutant of VMMutexRelease: anybody may release a mutex that has an owner.
ReleaseByAnybody(m) ==
  /\ Calling("Release")
  /\ FoundMutex(m)
  /\ store.mutex[m].owner # None
  /\ Enter("ret", 0, MutexRelease(store, m))
  /\ held' = [held EXCEPT ![cur] = @ \ {m}]
  /\ UNCHANGED <<pending, reply, owed>>

VMMutexRelease(m) ==
  /\ Calling("Release")
  /\ FoundMutex(m)
  /\ store.mutex[m].owner = cur
  /\ Enter("ret", 0, MutexRelease(store, m))
  /\ held' = [held EXCEPT ![cur] = @ \ {m}]
  /\ UNCHANGED <<pending, reply, owed>>

\* The error return for a mutex of another thread comes before the signals
\* are resumed: they stay blocked in the application.
VMMutexReleaseUnowned(m) ==
  /\ Calling("ReleaseUnowned")
  /\ FoundMutex(m)
  /\ store.mutex[m].owner # cur
  /\ masked' = TRUE
  /\ UNCHANGED <<store, frame, up, pending, reply, held, owed>>

-----------------------------------------------------------------------------
\* The current thread takes the step it owes.

Owes(where) == up /\ frame[cur].at \in where

\* Back to the application, with the mask the call or the interrupt found.
Resume ==
  /\ masked' = frame[cur].sig
  /\ frame' = [frame EXCEPT ![cur] = InApp]
  /\ UNCHANGED <<store, up, pending, reply, owed>>

\* Mutant of SafeEntry: the signals stay blocked.
SafeEntryMasked ==
  /\ Owes({"start"})
  /\ frame' = [frame EXCEPT ![cur] = InApp]
  /\ UNCHANGED <<store, masked, up, pending, reply, held, owed>>

\* A thread runs for the first time: safeEntry() or idle() enables the signals.
SafeEntry ==
  /\ Owes({"start"})
  /\ masked' = FALSE
  /\ frame' = [frame EXCEPT ![cur] = InApp]
  /\ UNCHANGED <<store, up, pending, reply, held, owed>>

Return ==
  /\ Owes({"ret", "sleep", "io"})
  /\ Resume
  /\ UNCHANGED held

\* Mutant of AcquireReturn: every acquire that returns has succeeded.
AcquireAlwaysSucceeds ==
  /\ Owes({"lock", "trylock"})
  /\ held' = [held EXCEPT ![cur] = @ \union {frame[cur].arg}]
  /\ Resume

\* The acquire succeeds if the caller is the owner when it runs again.
AcquireReturn ==
  /\ Owes({"lock", "trylock"})
  /\ LET m == frame[cur].arg
     IN  held' = [held EXCEPT ![cur] = IF store.mutex[m].owner = cur
                                       THEN @ \union {m} ELSE @]
  /\ Resume

\* releaseMutexes(): pop the first entry and release its mutex, whoever owns it.
KillRelease ==
  /\ Owes({"kill"})
  /\ LET t == frame[cur].arg
         q == store.tcb[t].entries
     IN  /\ q # <<>>
         /\ store' = MutexRelease([store EXCEPT !.tcb[t].entries = Tail(@)], Head(q).mutex)
         /\ held' = [held EXCEPT ![t] = @ \ {Head(q).mutex}]
  /\ UNCHANGED <<frame, masked, up, pending, reply, owed>>

KillFinish ==
  /\ Owes({"kill"})
  /\ LET t == frame[cur].arg
     IN  /\ store.tcb[t].entries = <<>>
         /\ store' = MarkDead(store, t)
         /\ frame' = [frame EXCEPT ![cur].at = "ret"]
  /\ UNCHANGED <<masked, up, pending, reply, held, owed>>

-----------------------------------------------------------------------------
\* Interrupts.  They come only while the signals are enabled, which is while a
\* thread or the idle loop runs outside the kernel.

Interruptible == up /\ ~ masked /\ frame[cur].at = "app"

\* The child process has replied: the handler of SIGUSR2 runs on the current
\* thread and takes the reply out of the queue.  It blocks SIGUSR2 and nothing
\* else, so the timer may interrupt it there.
MachineReplySignalHandler(t) ==
  /\ Interruptible
  /\ reply[cur] = None
  /\ pending[t] > 0
  /\ pending' = [pending EXCEPT ![t] = @ - 1]
  /\ reply' = [reply EXCEPT ![cur] = t]
  /\ UNCHANGED <<store, frame, masked, up, held, owed>>

\* Mutant of MachineFileIOCallback: the flag is not cleared.
CallbackForgetsFlag ==
  /\ Interruptible
  /\ reply[cur] # None
  /\ reply' = [reply EXCEPT ![cur] = None]
  /\ UNCHANGED <<store, frame, masked, up, pending, held, owed>>

\* The handler calls the callback.
MachineFileIOCallback ==
  /\ Interruptible
  /\ reply[cur] # None
  /\ store' = [store EXCEPT !.tcb[reply[cur]].io = FALSE]
  /\ reply' = [reply EXCEPT ![cur] = None]
  /\ UNCHANGED <<frame, masked, up, pending, held, owed>>

TimerInterrupt ==
  /\ Interruptible
  /\ frame' = [frame EXCEPT ![cur] = [at |-> "timer", sig |-> FALSE, arg |-> 1]]
  /\ masked' = TRUE
  /\ owed' = [t \in Thread |-> IF owed[t] > 0 THEN owed[t] - 1 ELSE 0]
  /\ UNCHANGED <<store, up, pending, reply, held>>

\* The loop of timerEvent() over the wait list, one thread at a time.

Visiting ==
  /\ Owes({"timer"})
  /\ frame[cur].arg \in 1..Len(store.waitList)

Visited == store.waitList[frame[cur].arg]

\* A thread that has become the owner of the mutex it waits for has no ticks
\* left to sleep.
Settle(s, t) ==
  IF IsWaitingOnMutex(s, t) /\ s.mutex[WaitingMutex(s, t)].owner = t
  THEN Sleep(SetWaitingOnMutex(s, t, FALSE), t, 0)
  ELSE s

NextInWaitList == frame' = [frame EXCEPT ![cur].arg = @ + 1]

TimerKeep ==
  /\ Visiting
  /\ LET s == Settle(store, Visited)
     IN  /\ s.tcb[Visited].io \/ s.tcb[Visited].ticks = Forever
         /\ store' = s
  /\ NextInWaitList
  /\ UNCHANGED <<masked, up, pending, reply, held, owed>>

\* Mutant of TimerCountdown: the ticks stay what they are.
CountdownStuck ==
  /\ Visiting
  /\ LET s == Settle(store, Visited)
     IN  ~ s.tcb[Visited].io /\ s.tcb[Visited].ticks > 0 /\ store' = s
  /\ NextInWaitList
  /\ UNCHANGED <<masked, up, pending, reply, held, owed>>

TimerCountdown ==
  /\ Visiting
  /\ LET s == Settle(store, Visited)
     IN  /\ ~ s.tcb[Visited].io /\ s.tcb[Visited].ticks > 0
         /\ store' = [s EXCEPT !.tcb[Visited].ticks = @ - 1]
  /\ NextInWaitList
  /\ UNCHANGED <<masked, up, pending, reply, held, owed>>

\* The element is erased, so its successor is now at the same position.
TimerWake ==
  /\ Visiting
  /\ LET s == Settle(store, Visited)
     IN  /\ ~ s.tcb[Visited].io /\ s.tcb[Visited].ticks = 0
         /\ store' = [PushReady(SetState(s, Visited, "READY"), Visited)
                        EXCEPT !.waitList = RemoveAt(@, frame[cur].arg)]
  /\ UNCHANGED <<frame, masked, up, pending, reply, held, owed>>

\* Mutant of NothingLeft: the test for the idle thread is the wrong way round.
NothingLeftElsewhere == NothingReady(store) /\ store.waitList = <<>> /\ cur # Idle

\* After the loop the machine stops if nothing is left to run; otherwise the
\* interrupted thread gives way.
NothingLeft == NothingReady(store) /\ store.waitList = <<>> /\ cur = Idle

\* Mutants of TimerDone: the interrupted thread goes on unless it is the idle
\* one; the threads of normal priority come first.
TimerDoneGoesOn ==
  /\ Owes({"timer"})
  /\ frame[cur].arg > Len(store.waitList)
  /\ IF NothingLeft
     THEN up' = FALSE /\ UNCHANGED store
     ELSE store' = (IF cur = Idle THEN Schedule(store, High) ELSE store) /\ UNCHANGED up
  /\ frame' = [frame EXCEPT ![cur].at = "ret"]
  /\ UNCHANGED <<masked, pending, reply, held, owed>>

TimerDoneNormalFirst ==
  /\ Owes({"timer"})
  /\ frame[cur].arg > Len(store.waitList)
  /\ store' = Schedule(store, Normal)
  /\ frame' = [frame EXCEPT ![cur].at = "ret"]
  /\ UNCHANGED <<masked, up, pending, reply, held, owed>>

TimerDone ==
  /\ Owes({"timer"})
  /\ frame[cur].arg > Len(store.waitList)
  /\ IF NothingLeft
     THEN up' = FALSE /\ UNCHANGED store
     ELSE store' = Schedule(store, High) /\ UNCHANGED up
  /\ frame' = [frame EXCEPT ![cur].at = "ret"]
  /\ UNCHANGED <<masked, pending, reply, held, owed>>

\* The child has exited and the alarm is off; the idle loop spins for ever.
IdleSpin == ~ up /\ UNCHANGED vars

-----------------------------------------------------------------------------
Call ==
  \/ VMThreadCreate \/ VMThreadYield \/ VMFile \/ VMMutexCreate
  \/ \E t \in Thread : VMThreadActivate(t) \/ VMThreadDelete(t) \/ VMThreadTerminate(t)
  \/ \E n \in Timeouts : VMThreadSleep(n)
  \/ \E m \in Mutex : \/ VMMutexDelete(m) \/ VMMutexAcquire(m)
                      \/ VMMutexRelease(m) \/ VMMutexReleaseUnowned(m)

Kernel ==
  \/ SafeEntry \/ Return \/ AcquireReturn \/ KillRelease \/ KillFinish
  \/ TimerKeep \/ TimerCountdown \/ TimerWake \/ TimerDone

Next ==
  \/ Call
  \/ Kernel
  \/ TimerInterrupt
  \/ \E t \in Thread : MachineReplySignalHandler(t)
  \/ MachineFileIOCallback
  \/ IdleSpin

Spec == Init /\ [][Next]_vars

=============================================================================
