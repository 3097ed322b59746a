------------------------------ MODULE Mutexes ------------------------------
(***************************************************************************)
(* Class Mutex of UtilityFunctions.cpp, over the Store of ThreadStore.tla. *)
(* A release may hand the mutex to a waiter and may run the scheduler; a   *)
(* lock may put the caller to sleep.                                       *)
(***************************************************************************)
EXTENDS ThreadStore

\* The two special values of a TVMTick timeout.
InfiniteTimeout  == 0
ImmediateTimeout == -1

NoWaiters(s, m) == \A p \in Priority : s.mutex[m].queue[p] = <<>>

\* Mutant of WaitingLevel: the lists are searched from the lowest up.
WaitingLevelUpwards(s, m) ==
  CHOOSE p \in Priority :
    /\ s.mutex[m].queue[p] # <<>>
    /\ \A l \in Low..(p - 1) : s.mutex[m].queue[l] = <<>>

\* The level release() takes the next owner from.
WaitingLevel(s, m) ==
  CHOOSE p \in Priority :
    /\ s.mutex[m].queue[p] # <<>>
    /\ \A h \in (p + 1)..High : s.mutex[m].queue[h] = <<>>

\* insert(Mutex): the constructor sets the owner and the three empty lists;
\* junk is what the memory of the flag deleted, which it leaves alone, held.
InsertMutex(s, junk) ==
  [s EXCEPT !.mutex[s.numMutexes] =
               [owner |-> None, deleted |-> junk, queue |-> [p \in Priority |-> <<>>]],
            !.numMutexes = @ + 1]

\* Mutants of GrantTo: the waiter is woken but not made the owner; the other
\* waiters of its level are thrown away.
GrantToNobody(s, m, t, p) ==
  [s EXCEPT !.mutex[m].owner = None, !.mutex[m].queue[p] = Tail(@), !.tcb[t].ticks = 0]

GrantToDropsWaiters(s, m, t, p) ==
  [s EXCEPT !.mutex[m].owner = t, !.mutex[m].queue[p] = <<>>, !.tcb[t].ticks = 0]

\* The owner's next sleep is over: its ticks are 0, whatever it sleeps for.
GrantTo(s, m, t, p) ==
  [s EXCEPT !.mutex[m].owner = t,
            !.mutex[m].queue[p] = Tail(@),
            !.tcb[t].ticks = 0]

\* Mutants of MutexRelease: the mutex becomes free whoever waits, or whoever
\* waits below the highest level.
MutexReleaseFrees(s, m) ==
  [RemoveMutex(s, s.mutex[m].owner, m) EXCEPT !.mutex[m].owner = None]

MutexReleaseOnlyToHigh(s, m) ==
  LET old   == s.mutex[m].owner
      freed == RemoveMutex(s, old, m)
      q     == s.mutex[m].queue[High]
  IN  IF q = <<>> THEN [freed EXCEPT !.mutex[m].owner = None]
      ELSE ScheduleThreadEarly(GrantTo(freed, m, Head(q), High), Head(q))

MutexRelease(s, m) ==
  LET old   == s.mutex[m].owner
      freed == RemoveMutex(s, old, m)
  IN  IF NoWaiters(s, m)
      THEN [freed EXCEPT !.mutex[m].owner = None]
      ELSE LET p       == WaitingLevel(s, m)
               new     == Head(s.mutex[m].queue[p])
               granted == GrantTo(freed, m, new, p)
           IN  IF s.tcb[new].prio > s.tcb[old].prio
               THEN ScheduleThreadEarly(granted, new)
               ELSE RemoveFromWaitlistEarly(granted, new)

\* Mutants of EnqueueCurrent: the caller is not queued, or jumps the queue.
EnqueueNowhere(s, m) ==
  AddMutex(SetWaitingOnMutex(s, s.current, TRUE), s.current, m, TRUE)

EnqueueInFront(s, m) ==
  [EnqueueNowhere(s, m) EXCEPT !.mutex[m].queue[s.tcb[s.current].prio] = <<s.current>> \o @]

\* The caller is marked as waiting twice: on the entry it added last before
\* this one, and on the new entry.
EnqueueCurrent(s, m) ==
  LET t == s.current
  IN  [AddMutex(SetWaitingOnMutex(s, t, TRUE), t, m, TRUE)
         EXCEPT !.mutex[m].queue[s.tcb[t].prio] = Append(@, t)]

MutexLock(s, m, timeout) ==
  IF s.mutex[m].owner = None
  THEN [AddMutex(s, s.current, m, FALSE) EXCEPT !.mutex[m].owner = s.current]
  ELSE IF timeout = ImmediateTimeout THEN s
  ELSE SleepCurrentThread(EnqueueCurrent(s, m),
                          IF timeout = InfiniteTimeout THEN Forever ELSE timeout)

\* deleteFromVM() empties the queues, forgets the owner and sets the flag.  Its
\* only caller has found the mutex free, so its queues are empty already
\* (FreeMutexHasNoWaiters) and no thread loses an entry.
DeleteFromVM(s, m) ==
  [s EXCEPT !.mutex[m] = [owner |-> None, deleted |-> TRUE,
                          queue |-> [p \in Priority |-> <<>>]]]

=============================================================================
