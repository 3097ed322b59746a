--------------------------- MODULE VMCorrectness ----------------------------
(***************************************************************************)
(* What makes the virtual machine correct: invariants, action properties   *)
(* and liveness properties of VirtualMachine.tla.  Some hold whatever the  *)
(* application does; others hold only for an application that stays within *)
(* a set of Calls, and the comment of each says which.                     *)
(***************************************************************************)
EXTENDS VirtualMachine

Count(q, t) == Cardinality({i \in 1..Len(q) : q[i] = t})

State(t) == store.tcb[t].state

\* Whatever the application does: a free mutex has nobody in its queues.  A
\* waiter left behind by Mutex::release() would sleep until somebody else
\* acquired and released the mutex again.
FreeMutexHasNoWaiters ==
  \A m \in Mutex : store.mutex[m].owner = None => NoWaiters(store, m)

\* Whatever the application does: every mutex in a thread's list has an owner,
\* so the loop of releaseMutexes() never calls release() on a mutex whose owner
\* is NULL.
EntryHasOwner ==
  \A t \in Thread : \A i \in 1..Len(store.tcb[t].entries) :
    store.mutex[store.tcb[t].entries[i].mutex].owner # None

\* Without TerminateOther: every thread is where its state says, once and
\* nowhere else, so no thread is lost and none is run twice.
ThreadsPlaced ==
  \A t \in User :
    /\ State(t) = "RUNNING" <=> cur = t
    /\ Count(store.waitList, t) = (IF State(t) = "WAITING" THEN 1 ELSE 0)
    /\ \A p \in Priority :
         Count(store.ready[p], t) =
           (IF State(t) = "READY" /\ store.tcb[t].prio = p THEN 1 ELSE 0)
    /\ State(t) = "DEAD" => (t \in store.deadList <=> t < store.numThreads)

\* Without terminations: the application never believes two threads hold the
\* same mutex, and the owner is the thread it believes in.
MutualExclusion ==
  /\ \A t, u \in Thread : t # u => held[t] \intersect held[u] = {}
  /\ \A t \in Thread : \A m \in held[t] : store.mutex[m].owner = t

\* Without terminations: a thread that sleeps for ever is in the queue of a
\* mutex that somebody else, or the thread itself, owns; a release will find
\* it, or the next tick will.
ForeverSleeperIsQueued ==
  \A t \in User :
    (State(t) = "WAITING" /\ store.tcb[t].ticks = Forever /\ ~ store.tcb[t].io) =>
      \E m \in Mutex : /\ store.mutex[m].owner # None
                       /\ \E p \in Priority : Contains(store.mutex[m].queue[p], t)

\* Without terminations and timed acquires, when nobody acquires a mutex it
\* already owns: a thread that waits without a timeout runs again only as the
\* owner.
InfiniteAcquireSucceeds ==
  frame[cur].at = "lock" => store.mutex[frame[cur].arg].owner = cur

\* Without terminations: a call on a file goes on only once its callback has
\* run, so the result it reads is its own.
FileResultHasArrived ==
  frame[cur].at = "io" =>
    pending[cur] = 0 /\ cur \notin {reply[u] : u \in Thread} /\ ~ store.tcb[cur].io

\* Without mutexes: VMThreadSleep(n) returns no sooner than n ticks later.
SleepIsNotCutShort ==
  frame[cur].at = "sleep" => owed[cur] = 0

\* Without terminations: a wait for a mutex without a timeout ends in vain only
\* for a thread that a release has made the owner of another mutex, one it has
\* queued for earlier and given up.
InfiniteAcquireUnlessStale ==
  frame[cur].at = "lock" /\ store.mutex[frame[cur].arg].owner # cur =>
    \E m \in Mutex \ {frame[cur].arg} : store.mutex[m].owner = cur /\ m \notin held[cur]

\* Without terminations: only a mutex can cut a sleep short, and only for the
\* thread that owns it.
SleepCutOnlyByMutex ==
  frame[cur].at = "sleep" /\ owed[cur] > 0 => \E m \in Mutex : store.mutex[m].owner = cur

\* Without ReleaseUnowned: application code runs with the signals enabled, so
\* the timer can preempt it.
ApplicationIsPreemptible ==
  frame[cur].at = "app" => ~ masked

\* Whatever the application does: unless a thread yields, a switch never
\* passes over a ready thread of a higher priority, except the one switched out.
SwitchPicksHighest ==
  [][ cur' # cur /\ ~ (frame'[cur].at = "sleep" /\ owed'[cur] = 0) =>
        \A p \in Priority : p > store.tcb[cur'].prio =>
           ToSet(store'.ready[p]) \subseteq {cur} ]_vars

\* Without TerminateOther: a thread that has terminated stays dead until
\* somebody activates it.
DeadUntilActivated ==
  [][ \A t \in User :
        (State(t) = "DEAD" \/ (KillFinish /\ frame[cur].arg = t)) =>
          State(t)' = "DEAD" \/ VMThreadActivate(t) ]_vars

\* Also with TerminateOther: a thread that is dead and in no ready or wait list
\* stays dead until somebody activates it.
UnlistedDeadStayDead ==
  [][ \A t \in User :
        /\ State(t) = "DEAD"
        /\ Count(store.waitList, t) = 0
        /\ \A p \in Priority : Count(store.ready[p], t) = 0
        => State(t)' = "DEAD" \/ VMThreadActivate(t) ]_vars

\* Whatever the application does: a thread loses a mutex it holds by its own
\* release, or when a thread is terminated that has queued for the mutex, and
\* in no other way.
OwnerLosesOnlyByRelease ==
  [][ \A t \in User, m \in Mutex :
        m \in held[t] /\ store.mutex[m].owner = t /\ store'.mutex[m].owner # t =>
          \/ cur = t /\ VMMutexRelease(m)
          \/ KillRelease /\ Head(store.tcb[frame[cur].arg].entries).mutex = m ]_vars

\* Whatever the application does: the calls, the handler of SIGUSR2 and the
\* callback use the machine layer as FileService.tla describes it, and no other
\* step touches a thread's flag waitingOnIO.
Service == INSTANCE FileService WITH
  io <- [t \in Thread |-> store.tcb[t].io]

UsesFileService == Service!Spec

\* Without terminations and timed acquires: the mutexes implement Lock.tla.  The
\* threads that sleep for ever are those in the queues, each wakes as an owner, and
\* a release serves the highest priority first and in it whoever came first.
Locks == INSTANCE Lock WITH
  owner   <- [m \in Mutex |-> store.mutex[m].owner],
  waiters <- [m \in Mutex |-> store.mutex[m].queue[High] \o store.mutex[m].queue[Normal]
                                \o store.mutex[m].queue[Low]],
  blocked <- {t \in User : State(t) = "WAITING" /\ store.tcb[t].ticks = Forever /\ ~ store.tcb[t].io},
  prio    <- [t \in Thread |-> store.tcb[t].prio]

ImplementsLock == Locks!Spec

-----------------------------------------------------------------------------
\* Liveness.  The kernel runs to completion, with the signals blocked.  The
\* timer never stops, and a tick that finds the mask closed is delivered when it
\* opens.  Nothing makes the application call the virtual machine.
TimerFairness == WF_vars(Kernel) /\ SF_vars(TimerInterrupt)

FairSpec == Spec /\ TimerFairness

\* An application that does not keep a mutex for ever.
ReleasingApplication ==
  \A t \in User, m \in Mutex : SF_vars(cur = t /\ VMMutexRelease(m))

\* Without ReleaseUnowned: a thread that sleeps or waits for a finite time wakes up.
SleeperWakes ==
  \A t \in User :
    (State(t) = "WAITING" /\ ~ store.tcb[t].io /\ store.tcb[t].ticks # Forever)
      ~> State(t) # "WAITING"

AwaitsFile(t) == State(t) = "WAITING" /\ frame[t].at = "io"

\* Without terminations: a thread that waits for a file is woken.
FileCallerWakes == \A t \in User : AwaitsFile(t) ~> ~ AwaitsFile(t)

\* Without ReleaseUnowned and terminations of others: once the callback has run,
\* the thread that waits for a file is woken, whatever it waited for before.  That
\* the callback does run is RequestAnswered in IOCorrectness.tla.
AnsweredFileCallerWakes ==
  \A t \in User : (AwaitsFile(t) /\ ~ store.tcb[t].io) ~> ~ AwaitsFile(t)

\* Without ReleaseUnowned: a ready thread of the highest priority is run, even
\* if no application thread ever calls the virtual machine.
HighThreadRuns ==
  \A t \in User : (State(t) = "READY" /\ store.tcb[t].prio = High) ~> cur = t

\* Without ReleaseUnowned and terminations of others, which leave the dead in the
\* ready and wait lists: once every thread has terminated, the timer shuts the
\* machine down.
MachineStops == (\A t \in User : State(t) = "DEAD") ~> ~ up

\* Threads of one priority, an application that releases what it acquires and
\* no terminations: whoever waits for a mutex without a timeout becomes its owner.
WaiterIsServed ==
  \A t \in User, m \in Mutex :
    (frame[t].at = "lock" /\ frame[t].arg = m) ~> store.mutex[m].owner = t

=============================================================================
