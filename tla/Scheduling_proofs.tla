------------------------- MODULE Scheduling_proofs -------------------------
(***************************************************************************)
(* The steps of VirtualMachine.tla and the scheduler: who runs next, who   *)
(* stays dead, which entries, owners and queues belong together, for any   *)
(* number of threads and mutexes.                                          *)
(***************************************************************************)
EXTENDS VirtualMachine_proofs

-----------------------------------------------------------------------------
\* The operations of class Mutex, as the scheduler sees them.

\* No thread is new, and none changes its priority or its flag waitingOnIO.
SameKind(s, u) ==
  /\ u.numThreads = s.numThreads
  /\ \A v \in Thread : u.tcb[v].prio = s.tcb[v].prio /\ u.tcb[v].io = s.tcb[v].io

\* A thread that waits for a file, and is not the current one, stays on the wait
\* list.
KeepsWaiters(s, u) ==
  \A t \in User \ {s.current} : s.tcb[t].io /\ Waits(s, t) # 0 => Waits(u, t) # 0

\* schedule() takes nobody off the wait list.
LEMMA ScheduleKeeps ==
  ASSUME NEW a, WellFormed(a), NEW p \in Priority,
         NEW t \in User \ {a.current}, Waits(a, t) # 0
  PROVE  Waits(Schedule(a, p), t) # 0
<1> DEFINE u == Schedule(a, p)
<1>1. CASE u = a
  BY <1>1
<1>2. ASSUME NEW l \in 0..High, NEW n \in Thread, Switched(a, u, l, n)
      PROVE  Waits(u, t) # 0
  <2>1. OnlyMoves(a, u, {n, a.current}) /\ (n \in User /\ n # a.current => Waits(u, n) = Waits(a, n))
    BY <1>2 DEF Switched
  <2> HIDE DEF u
  <2>2. QED
    BY <2>1 DEF OnlyMoves, SamePlace
<1> HIDE DEF u
<1>3. QED
  BY <1>1, <1>2, ScheduleCases DEF u

\* sleepCurrentThread() neither.
LEMMA SleepKeeps ==
  ASSUME NEW s, WellFormed(s), s.current # Idle, NEW n \in Nat \union {Forever}
  PROVE  KeepsWaiters(s, SleepCurrentThread(s, n))
<1> DEFINE t == s.current
           a == Sleep(s, t, n)
           p == IF n = 0 THEN s.tcb[t].prio ELSE High
<1>1. t \in User /\ t \in Thread
  BY DEF WellFormed, Store, User
<1>2. p \in Priority
  BY <1>1 DEF WellFormed, Priority, Low, High
<1>3. WellFormed(a) /\ SameButTCBs(s, a)
  BY <1>1, SleepWF
<1>4. SleepCurrentThread(s, n) = Schedule(a, p)
  BY DEF SleepCurrentThread
<1> HIDE DEF a, p
<1>5. QED
  BY <1>2, <1>3, <1>4, ScheduleKeeps DEF SameButTCBs, KeepsWaiters, Waits

\* removeFromWaitlistEarly() leaves a thread alone that waits for a file.
LEMMA RemoveFromWaitlistEarlyKeeps ==
  ASSUME NEW s, WellFormed(s), NEW t \in User
  PROVE  LET u == RemoveFromWaitlistEarly(s, t)
         IN  \A v \in User : s.tcb[v].io => Waits(u, v) = Waits(s, v)
<1> DEFINE u == RemoveFromWaitlistEarly(s, t)
           i == CHOOSE i \in 1..Len(s.waitList) : IsFirstAt(s.waitList, t, i)
           a == Sleep(s, t, 0)
           b == SetState(a, t, "READY")
           d == PushReady(b, t)
           w == [s EXCEPT !.waitList = RemoveAt(@, i)]
<1>1. CASE ~ OnWaitList(s, t)
  BY <1>1 DEF RemoveFromWaitlistEarly
<1>2. CASE OnWaitList(s, t)
  <2>1. /\ i \in 1..Len(s.waitList) /\ t = s.waitList[i] /\ ~ s.tcb[t].io
        /\ u = [d EXCEPT !.waitList = RemoveAt(s.waitList, i)]
    BY <1>2 DEF OnWaitList, IsFirstAt, RemoveFromWaitlistEarly
  <2> HIDE DEF i, d
  <2>2. WellFormed(d)
    <3>1. t \in Thread /\ "READY" \in ThreadState
      BY Ids DEF ThreadState
    <3>2. WellFormed(a)
      BY <3>1, SleepWF
    <3> HIDE DEF a
    <3>3. WellFormed(b)
      BY <3>1, <3>2, SetStateWF
    <3> HIDE DEF b
    <3>4. QED
      BY <3>3, PushReadyWF DEF d
  <2>3. u.waitList = RemoveAt(s.waitList, i) /\ w.waitList = RemoveAt(s.waitList, i)
    BY <2>1, <2>2 DEF WellFormed, Store
  <2>4. OnlyMoves(s, w, {t})
    <3> DEFINE x == s.waitList[i]
    <3>1. OnlyMoves(s, w, {x})
      BY <2>1, RemoveWaitPlace
    <3>2. QED
      BY <2>1, <3>1
  <2> HIDE DEF u, w
  <2>5. QED
    BY <2>1, <2>3, <2>4 DEF OnlyMoves, SamePlace, Waits, u
<1>3. QED
  BY <1>1, <1>2

\* So does a call of the scheduler after it.
LEMMA WakeOwnerKeeps ==
  ASSUME NEW s, WellFormed(s), Tidy(s), Alive(s), NEW t \in User
  PROVE  /\ KeepsWaiters(s, RemoveFromWaitlistEarly(s, t))
         /\ KeepsWaiters(s, ScheduleThreadEarly(s, t))
<1> DEFINE a == RemoveFromWaitlistEarly(s, t)
           u == ScheduleThreadEarly(s, t)
<1>1. /\ WellFormed(a) /\ a.current = s.current
      /\ \A v \in User : s.tcb[v].io => Waits(a, v) = Waits(s, v)
  <2>1. \A v \in User : s.tcb[v].io => Waits(a, v) = Waits(s, v)
    BY RemoveFromWaitlistEarlyKeeps
  <2>2. WellFormed(a) /\ a.current = s.current
    BY RemoveFromWaitlistEarlyWF, RemoveFromWaitlistEarlySteady
  <2>3. QED
    BY <2>1, <2>2
<1>2. u \in {s, Schedule(a, High)}
  BY DEF ScheduleThreadEarly
<1> HIDE DEF a, u
<1>3. CASE u = s
  BY <1>1, <1>3 DEF KeepsWaiters, a, u
<1>4. CASE u = Schedule(a, High)
  BY <1>1, <1>4, HighIsAPriority, ScheduleKeeps DEF KeepsWaiters, a, u
<1>5. QED
  BY <1>2, <1>3, <1>4 DEF a, u

\* Nor does any other operation that ends in schedule().
LEMMA LifeKeeps ==
  ASSUME NEW s, WellFormed(s), NEW t \in User
  PROVE  /\ KeepsWaiters(s, DeleteDeadThread(s, t))
         /\ KeepsWaiters(s, ActivateDeadThread(s, t))
         /\ KeepsWaiters(s, MarkDead(s, t))
<1>1. ASSUME NEW a, WellFormed(a), a.waitList = s.waitList, a.current = s.current
      PROVE  KeepsWaiters(s, a) /\ KeepsWaiters(s, Schedule(a, High))
  BY <1>1, HighIsAPriority, ScheduleKeeps DEF KeepsWaiters, Waits
<1>2. t \in Thread /\ "READY" \in ThreadState /\ "DEAD" \in ThreadState
  BY Ids DEF ThreadState
<1>3. KeepsWaiters(s, DeleteDeadThread(s, t))
  <2> DEFINE b == [s EXCEPT !.tcb[t].deleted = TRUE]
             r == [s.tcb[t] EXCEPT !.deleted = TRUE]
             a == IF t \in s.deadList THEN b ELSE s
  <2>1. r \in TCB /\ r.prio = s.tcb[t].prio
    BY <1>2, TCBOfThread DEF TCB
  <2>2. b = [s EXCEPT !.tcb = [s.tcb EXCEPT ![t] = r]]
    BY DEF WellFormed, Store
  <2>3. DeleteDeadThread(s, t) = Schedule(a, High)
    BY DEF DeleteDeadThread
  <2>4. b.waitList = s.waitList /\ b.current = s.current
    BY DEF WellFormed, Store
  <2> HIDE DEF r, b
  <2>5. WellFormed(b)
    BY <1>2, <2>1, <2>2, UpdateTCB
  <2>6. WellFormed(a) /\ a.waitList = s.waitList /\ a.current = s.current
    BY <2>4, <2>5
  <2> HIDE DEF a
  <2>7. QED
    BY <1>1, <2>3, <2>6
<1>4. KeepsWaiters(s, ActivateDeadThread(s, t))
  <2> DEFINE b == SetState(s, t, "READY")
             a == PushReady(b, t)
  <2>1. ActivateDeadThread(s, t) \in {s, a, Schedule(a, High)}
    BY DEF ActivateDeadThread
  <2>2. WellFormed(b) /\ SameButTCBs(s, b)
    BY <1>2, SetStateWF
  <2> HIDE DEF b
  <2>3. WellFormed(a) /\ a.current = b.current /\ a.waitList = b.waitList
    BY <1>2, <2>2, PushReadyWF
  <2> HIDE DEF a
  <2>4. QED
    BY <1>1, <2>1, <2>2, <2>3 DEF SameButTCBs
<1>5. KeepsWaiters(s, MarkDead(s, t))
  <2> DEFINE b == SetState(s, t, "DEAD")
             a == [b EXCEPT !.deadList = b.deadList \union {t}]
  <2>1. MarkDead(s, t) = Schedule(a, High)
    BY DEF MarkDead
  <2>2. WellFormed(b) /\ SameButTCBs(s, b)
    BY <1>2, SetStateWF
  <2> HIDE DEF b
  <2>3. WellFormed(a)
    <3>1. b.deadList \union {t} \in SUBSET User
      BY <2>2 DEF WellFormed, Store
    <3>2. QED
      BY <2>2, <3>1, DeadListWF
  <2>4. a.waitList = s.waitList /\ a.current = s.current
    BY <2>2 DEF SameButTCBs, WellFormed, Store
  <2> HIDE DEF a
  <2>5. QED
    BY <1>1, <2>1, <2>3, <2>4
<1>6. QED
  BY <1>3, <1>4, <1>5

\* waitCurrentThreadOnIO() puts a caller that is on no list on the wait list.
LEMMA WaitOnIOKeeps ==
  ASSUME NEW s, WellFormed(s), AllPlaced(s), s.current # Idle
  PROVE  LET u == WaitCurrentThreadOnIO(s)
         IN  KeepsWaiters(s, u) /\ Waits(u, s.current) # 0
<1> DEFINE t == s.current
           b == SetState(s, t, "WAITING")
           a == [b EXCEPT !.tcb[t].io = TRUE]
           u == WaitCurrentThreadOnIO(s)
<1>1. t \in User /\ t \in Thread /\ "WAITING" \in ThreadState
  BY DEF WellFormed, Store, User, ThreadState
<1>2. WellFormed(b) /\ SameButTCBs(s, b)
  BY <1>1, SetStateWF
<1>3. WellFormed(a)
  <2> HIDE DEF b
  <2> QED
    BY <1>1, <1>2, IOFlagWF
<1>4. u = Schedule(a, High)
  BY DEF WaitCurrentThreadOnIO
<1>5. /\ a.tcb[t].state = "WAITING" /\ a.ready = s.ready
      /\ a.waitList = s.waitList /\ a.current = s.current
  BY DEF SetState, WellFormed, Store, TCB
<1> HIDE DEF a, b, u
<1>6. KeepsWaiters(s, u)
  BY <1>3, <1>4, <1>5, HighIsAPriority, ScheduleKeeps DEF KeepsWaiters, Waits
<1>7. Waits(a, t) = 0 /\ \A p \in Priority : Readies(a, t, p) = 0
  BY <1>1, <1>5 DEF AllPlaced, OthersPlaced, Waits, Readies
<1>8. ASSUME NEW l \in 0..High, NEW n \in Thread, Switched(a, u, l, n)
      PROVE  Waits(u, t) # 0
  <2>1. /\ n \in User <=> l # 0
        /\ n \in User => Readies(a, n, l) > 0
        /\ n # t => Waits(u, t) = Waits(a, t) + 1
    BY <1>1, <1>5, <1>8 DEF Switched
  <2>2. n # t
    <3>1. n = t => l \in Priority
      BY <1>1, <2>1 DEF Priority, Low, High
    <3>2. QED
      BY <1>1, <1>7, <2>1, <3>1
  <2>3. QED
    BY <1>7, <2>1, <2>2
<1>9. Waits(u, t) # 0
  BY <1>3, <1>4, <1>5, <1>8, HighIsAPriority, ScheduleCases
<1>10. QED
  BY <1>6, <1>9 DEF u

\* A step that keeps what the scheduler keeps, passes over no thread and takes
\* none off the wait list that waits for a file.
Tame(s, u) ==
  Steady(s, u) /\ SameKind(s, u) /\ PicksHighest(s, u) /\ KeepsWaiters(s, u)

\* A step in which the scheduler sees no change is one.
LEMMA StillTame ==
  ASSUME NEW s, WellFormed(s), Tidy(s), Alive(s), NEW u, Still(s, u)
  PROVE  Tame(s, u)
<1>1. Steady(s, u)
  BY StillSteady
<1>2. QED
  BY <1>1 DEF Still, SameKind, PicksHighest, KeepsWaiters, Waits, Tame

\* So is one that follows such a step.
LEMMA StillThenTame ==
  ASSUME NEW s, WellFormed(s), Tidy(s), Alive(s),
         NEW a, Still(s, a), NEW u, u.current \in Thread, Tame(a, u)
  PROVE  Tame(s, u)
<1>1. Steady(s, a)
  BY StillSteady
<1>2. Steady(s, u)
  BY <1>1, SteadyTransitive DEF Tame
<1>3. SameKind(s, u) /\ PicksHighest(s, u) /\ KeepsWaiters(s, u)
  BY Ids DEF Still, SameKind, PicksHighest, KeepsWaiters, Waits, Tame
<1>4. QED
  BY <1>2, <1>3 DEF Tame

\* A thread's list of mutexes is nothing the scheduler looks at.
LEMMA EntriesStill ==
  ASSUME NEW s, WellFormed(s), NEW t \in Thread, NEW q
  PROVE  Still(s, [s EXCEPT !.tcb[t].entries = q])
BY DEF Still, WellFormed, Store, TCB

\* A new entry in a TCB moves no thread.
LEMMA AddMutexStill ==
  ASSUME NEW s, WellFormed(s), NEW t \in Thread, NEW m, NEW w
  PROVE  Still(s, AddMutex(s, t, m, w))
<1> DEFINE q == Append(s.tcb[t].entries, [mutex |-> m, waiting |-> w])
<1>1. AddMutex(s, t, m, w) = [s EXCEPT !.tcb[t].entries = q]
  BY DEF AddMutex
<1> HIDE DEF q
<1>2. QED
  BY <1>1, EntriesStill

\* Removing an entry from a TCB moves no thread.
LEMMA RemoveMutexStill ==
  ASSUME NEW s, WellFormed(s), NEW t \in Thread, NEW m
  PROVE  Still(s, RemoveMutex(s, t, m))
<1> DEFINE q == s.tcb[t].entries
           r == RemoveAt(q, CHOOSE i \in 1..Len(q) : IsFirstEntry(q, m, i))
<1>1. RemoveMutex(s, t, m) \in {s, [s EXCEPT !.tcb[t].entries = r]}
  BY DEF RemoveMutex
<1> HIDE DEF r
<1>2. Still(s, s)
  BY DEF Still
<1>3. QED
  BY <1>1, <1>2, EntriesStill

\* Marking the last entry of a TCB moves no thread.
LEMMA SetWaitingOnMutexStill ==
  ASSUME NEW s, WellFormed(s), NEW t \in Thread, NEW w
  PROVE  Still(s, SetWaitingOnMutex(s, t, w))
<1> DEFINE n == Len(s.tcb[t].entries)
           r == [s.tcb[t].entries EXCEPT ![n].waiting = w]
           e == [s EXCEPT !.tcb[t].entries = r]
<1>1. SetWaitingOnMutex(s, t, w) \in {s, [s EXCEPT !.tcb[t].entries[n].waiting = w]}
  BY DEF SetWaitingOnMutex
<1>2. [s EXCEPT !.tcb[t].entries[n].waiting = w] = e
  OBVIOUS
<1>3. Still(s, e)
  BY EntriesStill
<1> HIDE DEF e
<1>4. Still(s, s)
  BY DEF Still
<1>5. QED
  BY <1>1, <1>2, <1>3, <1>4

\* Nor is a mutex.
LEMMA WithMutexStill ==
  ASSUME NEW s, WellFormed(s), NEW m, NEW r
  PROVE  Still(s, WithMutex(s, m, r))
BY DEF Still, WithMutex, WellFormed, Store

\* Nor are a thread's ticks.
LEMMA GrantToStill ==
  ASSUME NEW s, WellFormed(s), NEW m, NEW t \in Thread, NEW p
  PROVE  Still(s, GrantTo(s, m, t, p))
<1> DEFINE u == GrantTo(s, m, t, p)
<1>1. /\ u.ready = s.ready /\ u.waitList = s.waitList /\ u.deadList = s.deadList
      /\ u.current = s.current /\ u.numThreads = s.numThreads
      /\ u.tcb = [s.tcb EXCEPT ![t].ticks = 0]
  BY DEF GrantTo, WellFormed, Store
<1> HIDE DEF u
<1>2. Still(s, u)
  BY <1>1 DEF Still, WellFormed, Store, TCB
<1>3. QED
  BY <1>2 DEF u

\* The Store is well formed in between.
LEMMA GrantToWF ==
  ASSUME NEW s, WellFormed(s), NEW m \in Mutex, NEW t \in User, NEW p \in Priority,
         Tail(s.mutex[m].queue[p]) \in Seq(User)
  PROVE  WellFormed(GrantTo(s, m, t, p))
<1> DEFINE f == [s.mutex[m].queue EXCEPT ![p] = Tail(s.mutex[m].queue[p])]
           r == [s.mutex[m] EXCEPT !.owner = t, !.queue = f]
           a == WithMutex(s, m, r)
           g == GrantTo(s, m, t, p)
<1>1. s.mutex[m] \in MutexRecord
  BY DEF WellFormed, Store
<1>2. f \in [Priority -> Seq(User)]
  BY <1>1 DEF MutexRecord
<1>3. r \in MutexRecord
  <2> HIDE DEF f
  <2> QED
    BY <1>1, <1>2 DEF MutexRecord
<1>4. g = [a EXCEPT !.tcb[t].ticks = 0]
  BY <1>1 DEF GrantTo, WellFormed, Store, MutexRecord, WithMutex
<1> HIDE DEF r, g
<1>5. WellFormed(a)
  BY <1>3, UpdateMutex
<1> HIDE DEF a
<1>6. WellFormed(g)
  BY <1>4, <1>5, Ids, TicksWF
<1>7. QED
  BY <1>6 DEF g

\* release(): the new owner may run at once.
LEMMA MutexReleaseTame ==
  ASSUME NEW s, WellFormed(s), Tidy(s), Alive(s), NEW m \in Mutex
  PROVE  Tame(s, MutexRelease(s, m))
<1> DEFINE old   == s.mutex[m].owner
           freed == RemoveMutex(s, old, m)
           u     == MutexRelease(s, m)
<1>1. WellFormed(u) /\ u.current \in Thread
  <2>1. WellFormed(u)
    BY MutexReleaseEffect
  <2> HIDE DEF u
  <2>2. QED
    BY <2>1 DEF WellFormed, Store
<1>2. s.mutex[m] \in MutexRecord
  BY DEF WellFormed, Store
<1>3. WellFormed(freed) /\ freed.mutex = s.mutex /\ Still(s, freed)
  <2>1. CASE old = None
    BY <2>1, RemoveMutexFromNobody DEF Still
  <2>2. CASE old \in Thread
    BY <2>2, RemoveMutexWF, RemoveMutexStill DEF SameButTCBs
  <2>3. QED
    BY <1>2, <2>1, <2>2, Ids DEF MutexRecord
<1>4. CASE NoWaiters(s, m)
  <2> DEFINE r == [s.mutex[m] EXCEPT !.owner = None]
  <2>1. u = [freed EXCEPT !.mutex[m].owner = None]
    BY <1>4 DEF MutexRelease
  <2> HIDE DEF freed, u
  <2>2. u = WithMutex(freed, m, r)
    BY <1>3, <2>1 DEF WellFormed, Store, WithMutex
  <2> HIDE DEF r
  <2>3. Still(freed, u)
    BY <1>3, <2>2, WithMutexStill
  <2>4. Still(s, u)
    BY <1>3, <2>3, StillTransitive
  <2>5. QED
    BY <2>4, StillTame DEF u
<1>5. CASE ~ NoWaiters(s, m)
  <2> DEFINE p   == WaitingLevel(s, m)
             q   == s.mutex[m].queue[p]
             new == Head(q)
             g   == GrantTo(freed, m, new, p)
  <2>1. p \in Priority /\ q # <<>>
    BY <1>5, WaitingLevelExists
  <2>2. q \in Seq(User)
    BY <1>2, <2>1 DEF MutexRecord
  <2>3. new \in User /\ new \in Thread
    BY <2>1, <2>2, HeadTailProperties, Ids
  <2>4. u \in {ScheduleThreadEarly(g, new), RemoveFromWaitlistEarly(g, new)}
    BY <1>5 DEF MutexRelease
  <2>5. WellFormed(g)
    <3> HIDE DEF freed, new, p, q
    <3>1. m \in Mutex /\ p \in Priority /\ new \in User /\ Tail(q) \in Seq(User)
      BY <2>1, <2>2, <2>3, HeadTailProperties
    <3>2. QED
      BY <1>3, <3>1, GrantToWF DEF q
  <2>6. Still(s, g)
    <3> HIDE DEF freed, new, p
    <3>1. Still(freed, g)
      BY <1>3, <2>3, GrantToStill
    <3> HIDE DEF g
    <3>2. QED
      BY <1>3, <3>1, StillTransitive
  <2> HIDE DEF g, new, u
  <2>7. Tidy(g) /\ Alive(g)
    BY <2>6, StillSteady DEF Steady
  <2>8. Tame(g, u)
    <3>1. CASE u = ScheduleThreadEarly(g, new)
      <4>1. /\ Steady(g, u) /\ SameData(g, u) /\ PicksHighest(g, u) /\ SameMutexes(g, u)
            /\ KeepsWaiters(g, u)
        BY <2>3, <2>5, <2>7, <3>1, ScheduleThreadEarlySteady, ScheduleThreadEarlyWF,
           WakeOwnerKeeps
      <4>2. QED
        BY <4>1 DEF Tame, SameData, SameKind, SameMutexes
    <3>2. CASE u = RemoveFromWaitlistEarly(g, new)
      <4>1. /\ Steady(g, u) /\ SameData(g, u) /\ u.current = g.current /\ SameMutexes(g, u)
            /\ KeepsWaiters(g, u)
        BY <2>3, <2>5, <2>7, <3>2, RemoveFromWaitlistEarlySteady, RemoveFromWaitlistEarlyWF,
           WakeOwnerKeeps
      <4>2. QED
        BY <4>1 DEF Tame, SameData, SameKind, SameMutexes, PicksHighest
    <3>3. QED
      BY <2>4, <3>1, <3>2
  <2>9. QED
    BY <1>1, <2>6, <2>8, StillThenTame DEF u
<1>6. QED
  BY <1>4, <1>5

\* A thread that queues for a mutex is still running.
LEMMA EnqueueCurrentStill ==
  ASSUME NEW s, WellFormed(s), s.current # Idle, NEW m \in Mutex
  PROVE  Still(s, EnqueueCurrent(s, m))
<1> DEFINE t == s.current
           b == SetWaitingOnMutex(s, t, TRUE)
           a == AddMutex(b, t, m, TRUE)
           p == s.tcb[t].prio
           r == [s.mutex[m] EXCEPT !.queue[p] = Append(@, t)]
           u == EnqueueCurrent(s, m)
<1>1. t \in Thread
  BY DEF WellFormed, Store
<1>2. WellFormed(b) /\ SameButTCBs(s, b) /\ Still(s, b)
  BY <1>1, SetWaitingOnMutexWF, SetWaitingOnMutexStill
<1>3. WellFormed(a) /\ SameButTCBs(s, a) /\ Still(s, a)
  <2> HIDE DEF b
  <2>1. WellFormed(a) /\ SameButTCBs(b, a)
    BY <1>1, <1>2, AddMutexWF
  <2>2. Still(b, a)
    BY <1>1, <1>2, AddMutexStill
  <2> HIDE DEF a
  <2>3. Still(s, a)
    BY <1>2, <2>2, StillTransitive
  <2>4. QED
    BY <1>2, <2>1, <2>3 DEF SameButTCBs
<1>4. u = [a EXCEPT !.mutex[m].queue[p] = Append(@, t)]
  BY DEF EnqueueCurrent
<1> HIDE DEF a, u, p, t
<1>5. u = WithMutex(a, m, r)
  BY <1>3, <1>4 DEF WellFormed, Store, WithMutex, SameButTCBs
<1> HIDE DEF r
<1>6. Still(a, u)
  BY <1>3, <1>5, WithMutexStill
<1>7. QED
  BY <1>3, <1>6, StillTransitive DEF u

\* lock(): a caller that has to wait gives way to the highest priority.
LEMMA MutexLockTame ==
  ASSUME NEW s, WellFormed(s), Tidy(s), Alive(s), s.current # Idle, NEW m \in Mutex,
         NEW n \in Nat \union {ImmediateTimeout}
  PROVE  Tame(s, MutexLock(s, m, n))
<1> DEFINE u == MutexLock(s, m, n)
<1>1. s.current \in Thread
  BY DEF WellFormed, Store
<1>2. CASE s.mutex[m].owner = None
  <2> DEFINE a == AddMutex(s, s.current, m, FALSE)
             r == [s.mutex[m] EXCEPT !.owner = s.current]
  <2>1. WellFormed(a) /\ SameButTCBs(s, a) /\ Still(s, a)
    BY <1>1, AddMutexWF, AddMutexStill
  <2>2. u = [a EXCEPT !.mutex[m].owner = s.current]
    BY <1>2 DEF MutexLock
  <2> HIDE DEF a, u
  <2>3. u = WithMutex(a, m, r)
    BY <2>1, <2>2 DEF WellFormed, Store, WithMutex, SameButTCBs
  <2> HIDE DEF r
  <2>4. Still(a, u)
    BY <2>1, <2>3, WithMutexStill
  <2>5. Still(s, u)
    BY <2>1, <2>4, StillTransitive
  <2>6. QED
    BY <2>5, StillTame DEF u
<1>3. CASE s.mutex[m].owner # None /\ n = ImmediateTimeout
  <2>1. u = s
    BY <1>3 DEF MutexLock
  <2>2. Still(s, u)
    BY <2>1 DEF Still
  <2> HIDE DEF u
  <2>3. QED
    BY <2>2, StillTame DEF u
<1>4. CASE s.mutex[m].owner # None /\ n # ImmediateTimeout
  <2> DEFINE e == EnqueueCurrent(s, m)
             k == IF n = InfiniteTimeout THEN Forever ELSE n
  <2>1. WellFormed(e) /\ e.current = s.current /\ Still(s, e)
    BY EnqueueCurrentEffect, EnqueueCurrentStill
  <2>2. k \in Nat \union {Forever} /\ k # 0
    BY <1>4 DEF InfiniteTimeout, Forever
  <2>3. u = SleepCurrentThread(e, k)
    BY <1>4 DEF MutexLock
  <2> HIDE DEF e, k, u
  <2>4. Tidy(e) /\ Alive(e)
    BY <2>1, StillSteady DEF Steady
  <2>5. /\ Steady(e, u) /\ SameData(e, u) /\ PicksHighest(e, u)
        /\ WellFormed(u) /\ SameMutexes(e, u) /\ KeepsWaiters(e, u)
    BY <2>1, <2>2, <2>3, <2>4, SleepCurrentThreadSteady, SleepCurrentThreadWF, SleepKeeps
  <2>6. u.current \in Thread
    BY <2>5 DEF WellFormed, Store
  <2>7. Tame(e, u)
    BY <2>5 DEF Tame, SameData, SameKind, SameMutexes
  <2>8. QED
    BY <2>1, <2>6, <2>7, StillThenTame DEF u
<1>5. QED
  BY <1>2, <1>3, <1>4

\* deleteFromVM() and insert(Mutex).
LEMMA DeleteFromVMTame ==
  ASSUME NEW s, WellFormed(s), Tidy(s), Alive(s), NEW m \in Mutex
  PROVE  Tame(s, DeleteFromVM(s, m))
<1>1. Still(s, DeleteFromVM(s, m))
  BY DEF Still, DeleteFromVM, WellFormed, Store
<1>2. QED
  BY <1>1, StillTame

\* A new mutex moves no thread.
LEMMA InsertMutexTame ==
  ASSUME NEW s, WellFormed(s), Tidy(s), Alive(s), NEW junk
  PROVE  Tame(s, InsertMutex(s, junk))
<1>1. Still(s, InsertMutex(s, junk))
  BY DEF Still, InsertMutex, WellFormed, Store
<1>2. QED
  BY <1>1, StillTame

-----------------------------------------------------------------------------
\* The loop of timerEvent(), as the scheduler sees it.

\* The ticks of a thread are nothing the scheduler looks at.
LEMMA TicksStill ==
  ASSUME NEW s, WellFormed(s), NEW t \in Thread, NEW n
  PROVE  Still(s, [s EXCEPT !.tcb[t].ticks = n])
BY DEF Still, WellFormed, Store, TCB

\* What the loop does first may set the state of the visited thread, which is on
\* the wait list, to waiting.
LEMMA SettleCases ==
  ASSUME NEW s, WellFormed(s), NEW t \in User
  PROVE  LET u == Settle(s, t)
         IN  /\ SameKind(s, u)
             /\ \A v \in Thread \ {t} : u.tcb[v].state = s.tcb[v].state
             /\ u.tcb[t].state \in {s.tcb[t].state, "WAITING"}
<1> DEFINE a == SetWaitingOnMutex(s, t, FALSE)
           b == Sleep(a, t, 0)
           u == Settle(s, t)
<1>1. t \in Thread
  BY Ids
<1>2. WellFormed(a) /\ Still(s, a)
  BY <1>1, SetWaitingOnMutexWF, SetWaitingOnMutexStill
<1>3. u \in {s, b}
  BY DEF Settle
<1> HIDE DEF a
<1>4. /\ SameKind(a, b) /\ b.tcb[t].state = "WAITING"
      /\ \A v \in Thread \ {t} : b.tcb[v].state = a.tcb[v].state
  <2> DEFINE r == [a.tcb[t] EXCEPT !.state = "WAITING", !.ticks = 0]
  <2>1. a.tcb[t] \in TCB /\ a.tcb \in [Thread -> TCB]
    BY <1>1, <1>2 DEF WellFormed, Store
  <2>2. r.prio = a.tcb[t].prio /\ r.io = a.tcb[t].io /\ r.state = "WAITING"
    BY <2>1 DEF TCB
  <2>3. b.tcb = [a.tcb EXCEPT ![t] = r] /\ b.numThreads = a.numThreads
    BY <1>1, <1>2, <2>1 DEF Sleep, WellFormed, Store
  <2> HIDE DEF b, r
  <2>4. QED
    BY <1>1, <2>1, <2>2, <2>3 DEF SameKind
<1> HIDE DEF b, u
<1>5. CASE u = s
  BY <1>5 DEF u, SameKind
<1>6. CASE u = b
  BY <1>2, <1>4, <1>6 DEF u, SameKind, Still
<1>7. QED
  BY <1>3, <1>5, <1>6

\* What the timer does with a thread it visits keeps the lists in order.
LEMMA SettleSteady ==
  ASSUME NEW s, WellFormed(s), Tidy(s), Alive(s), NEW t \in User, Waits(s, t) > 0
  PROVE  Steady(s, Settle(s, t)) /\ SameKind(s, Settle(s, t))
<1> DEFINE u == Settle(s, t)
<1>1. /\ SameButTCBs(s, u) /\ SameKind(s, u)
      /\ \A v \in Thread \ {t} : u.tcb[v].state = s.tcb[v].state
      /\ u.tcb[t].state \in {s.tcb[t].state, "WAITING"}
  BY SettleWF, SettleCases
<1> HIDE DEF u
<1>2. \A v \in User : /\ v \in Thread /\ Waits(u, v) = Waits(s, v)
                      /\ \A p : Readies(u, v, p) = Readies(s, v, p)
  BY <1>1, Ids DEF SameButTCBs, Waits, Readies
<1>3. ASSUME NEW v \in User, Gone(s, v)
      PROVE  Gone(u, v) /\ v # t
  <2>1. v # t
    BY <1>3 DEF Gone
  <2>2. QED
    BY <1>1, <1>2, <1>3, <2>1 DEF Gone
<1>4. Tidy(u)
  <2>1. \A v \in User, p \in Priority : Readies(u, v, p) # 0 => u.tcb[v].prio = p
    BY <1>1, <1>2 DEF Tidy, SameKind
  <2>2. \A v \in User : v >= u.numThreads =>
          Gone(u, v) /\ v \notin u.deadList /\ v # u.current /\ ~ u.tcb[v].io
    BY <1>1, <1>2, <1>3 DEF Tidy, SameKind, SameButTCBs
  <2>3. QED
    BY <2>1, <2>2 DEF Tidy
<1>5. Alive(u)
  <2>1. u.current = s.current
    BY <1>1 DEF SameButTCBs
  <2>2. ASSUME u.current \in User PROVE u.tcb[u.current].state # "DEAD"
    <3>1. CASE u.current = t
      BY <1>1, <2>1, <2>2, <3>1 DEF Alive
    <3>2. CASE u.current # t
      BY <1>1, <1>2, <2>1, <2>2, <3>2 DEF Alive
    <3>3. QED
      BY <3>1, <3>2
  <2>3. QED
    BY <2>2 DEF Alive
<1>6. ASSUME AllPlaced(s) PROVE AllPlaced(u)
  <2>1. s.tcb[t].state = "WAITING"
    BY <1>6 DEF AllPlaced, OthersPlaced
  <2>2. \A v \in Thread : u.tcb[v].state = s.tcb[v].state
    BY <1>1, <2>1
  <2>3. Still(s, u)
    BY <1>1, <2>2 DEF Still, SameButTCBs, SameKind
  <2>4. QED
    BY <1>6, <2>3, StillSteady DEF Steady
<1>7. QED
  BY <1>1, <1>3, <1>4, <1>5, <1>6 DEF u, Steady

\* The thread the loop visits.
LEMMA VisitedWaits ==
  ASSUME TypeOK, Visiting
  PROVE  /\ Visited \in User /\ Visited \in Thread
         /\ frame[cur].arg \in 1..Len(store.waitList)
         /\ Waits(store, Visited) > 0
<1>1. store.waitList \in Seq(User)
  BY DEF TypeOK, WellFormed, Store
<1>2. frame[cur].arg \in 1..Len(store.waitList)
  BY DEF Visiting
<1>3. Visited \in User
  BY <1>1, <1>2, ElementOfSeq DEF Visited
<1>4. frame[cur].arg \in DOMAIN store.waitList
  BY <1>1, <1>2, LenProperties
<1>5. Occ(store.waitList, {Visited}) \in Nat /\ Occ(store.waitList, {Visited}) # 0
  <2>1. store.waitList[frame[cur].arg] \in {Visited}
    BY DEF Visited
  <2> HIDE DEF Visited
  <2>2. QED
    BY <1>1, <1>4, <2>1, OccNat
<1>6. QED
  BY <1>2, <1>3, <1>5, Ids DEF Waits

\* One turn of the loop.
LEMMA TimerTurnSteady ==
  ASSUME TypeOK, Tidy(store), Alive(store), TimerKeep \/ TimerCountdown \/ TimerWake
  PROVE  /\ Steady(store, store') /\ SameKind(store, store')
         /\ store'.current = store.current /\ KeepsWaiters(store, store')
<1> DEFINE t == Visited
           a == Settle(store, t)
           i == frame[cur].arg
<1>1. Visiting /\ WellFormed(store)
  BY DEF TimerKeep, TimerCountdown, TimerWake, TypeOK
<1>2. t \in User /\ t \in Thread /\ i \in 1..Len(store.waitList) /\ Waits(store, t) > 0
  BY <1>1, VisitedWaits
<1>3. t = store.waitList[i]
  BY DEF Visited
<1> HIDE DEF t
<1>4. /\ WellFormed(a) /\ SameButTCBs(store, a)
      /\ Steady(store, a) /\ SameKind(store, a)
  BY <1>1, <1>2, SettleWF, SettleSteady
<1>5. CASE TimerKeep
  BY <1>4, <1>5 DEF TimerKeep, SameButTCBs, KeepsWaiters, Waits, t
<1>6. CASE TimerCountdown
  <2> DEFINE n == a.tcb[t].ticks - 1
  <2>1. store' = [a EXCEPT !.tcb[t].ticks = n]
    BY <1>6 DEF TimerCountdown, t
  <2> HIDE DEF n, a
  <2>2. Still(a, store')
    BY <1>2, <1>4, <2>1, TicksStill
  <2>3. Tidy(a) /\ Alive(a)
    BY <1>4 DEF Steady
  <2>4. Steady(a, store')
    BY <1>4, <2>2, <2>3, StillSteady
  <2>5. QED
    BY <1>4, <2>2, <2>4, SteadyTransitive DEF Still, SameKind, SameButTCBs, KeepsWaiters, Waits
<1>7. CASE TimerWake
  <2>1. store' = [PushReady(SetState(a, t, "READY"), t) EXCEPT !.waitList = RemoveAt(@, i)]
    BY <1>7 DEF TimerWake, t
  <2> HIDE DEF a, i
  <2>2. i \in 1..Len(a.waitList) /\ t = a.waitList[i]
    BY <1>2, <1>3, <1>4 DEF SameButTCBs
  <2>3. SameButTCBs(a, a) /\ SameData(a, a)
    BY DEF SameButTCBs, SameData
  <2>4. Woken(a, store', t)
    BY <1>2, <1>4, <2>1, <2>2, <2>3, WakeUp
  <2>5. Tidy(a) /\ Alive(a)
    BY <1>4 DEF Steady
  <2>6. Steady(a, store')
    BY <1>2, <1>4, <2>4, <2>5, WokenSteady
  <2>7. /\ SameData(a, store') /\ store'.current = a.current
        /\ store'.numThreads = a.numThreads
    BY <2>4 DEF Woken
  <2>8. KeepsWaiters(store, store')
    <3>1. ~ store.tcb[t].io
      BY <1>2, <1>4, <1>7 DEF TimerWake, SameKind, t, a
    <3>2. QED
      BY <1>4, <2>4, <3>1 DEF Woken, OnlyMoves, SamePlace, SameButTCBs, KeepsWaiters, Waits
  <2>9. QED
    BY <1>4, <2>6, <2>7, <2>8, SteadyTransitive DEF SameKind, SameData, SameButTCBs
<1>8. QED
  BY <1>5, <1>6, <1>7

-----------------------------------------------------------------------------
\* The steps of the virtual machine, as the scheduler sees them.

\* The steps that start or end a thread, that yield, or that touch a flag
\* waitingOnIO.
SpecialStep ==
  \/ VMThreadCreate \/ VMThreadYield \/ VMFile \/ KillFinish \/ MachineFileIOCallback
  \/ \E t \in Thread : VMThreadActivate(t)

\* Every other step keeps what the scheduler keeps.
LEMMA PlainStepTame ==
  ASSUME TypeOK, Tidy(store), Alive(store), [Next]_vars, ~ SpecialStep
  PROVE  Tame(store, store')
<1>1. WellFormed(store) /\ cur \in Thread /\ User \subseteq Thread
  BY Ranges, Ids DEF TypeOK
<1>2. ASSUME store' = store PROVE Tame(store, store')
  <2>1. Still(store, store')
    BY <1>2 DEF Still
  <2>2. QED
    BY <1>1, <2>1, StillTame
<1>3. ASSUME NEW t \in Thread, VMThreadDelete(t)
      PROVE  Tame(store, store')
  <2>1. store' = DeleteDeadThread(store, t)
    BY <1>3 DEF VMThreadDelete, Enter
  <2>2. /\ Steady(store, store') /\ SameData(store, store') /\ PicksHighest(store, store')
        /\ SameMutexes(store, store') /\ KeepsWaiters(store, store')
    <3>1. t \in User
      BY <1>1, <1>3, FoundIsUser DEF VMThreadDelete, Calling, TypeOK, cur
    <3>2. QED
      BY <1>1, <2>1, <3>1, DeleteDeadThreadSteady, DeleteDeadThreadWF, LifeKeeps
  <2>3. QED
    BY <2>2 DEF Tame, SameData, SameKind, SameMutexes
<1>4. ASSUME NEW n \in Timeouts, VMThreadSleep(n)
      PROVE  Tame(store, store')
  <2>1. store' = SleepCurrentThread(store, n) /\ store.current # Idle
    BY <1>4 DEF VMThreadSleep, Enter, Calling, cur
  <2>2. n \in Nat \union {Forever} /\ n # 0
    BY TimeoutsAssumption
  <2>3. /\ Steady(store, store') /\ SameData(store, store') /\ PicksHighest(store, store')
        /\ SameMutexes(store, store') /\ KeepsWaiters(store, store')
    BY <1>1, <2>1, <2>2, SleepCurrentThreadSteady, SleepCurrentThreadWF, SleepKeeps
  <2>4. QED
    BY <2>3 DEF Tame, SameData, SameKind, SameMutexes
<1>5. CASE VMMutexCreate
  <2>1. PICK junk \in FreshFlags : store' = InsertMutex(store, junk)
    BY <1>5 DEF VMMutexCreate, Finish
  <2>2. QED
    BY <1>1, <2>1, InsertMutexTame
<1>6. ASSUME NEW m \in Mutex, VMMutexDelete(m)
      PROVE  Tame(store, store')
  <2>1. store' = DeleteFromVM(store, m)
    BY <1>6 DEF VMMutexDelete, Finish
  <2>2. QED
    BY <1>1, <2>1, DeleteFromVMTame
<1>7. ASSUME NEW m \in Mutex, VMMutexAcquire(m)
      PROVE  Tame(store, store')
  <2>1. PICK n \in Nat \union {ImmediateTimeout}, at \in {"lock", "trylock"} : Acquire(m, n, at)
    BY <1>7, AcquireTimeout DEF VMMutexAcquire
  <2>2. store' = MutexLock(store, m, n) /\ store.current # Idle
    BY <1>7, <2>1 DEF VMMutexAcquire, Acquire, Enter, Calling, cur
  <2>3. QED
    BY <1>1, <2>2, MutexLockTame
<1>8. ASSUME NEW m \in Mutex, VMMutexRelease(m)
      PROVE  Tame(store, store')
  <2>1. store' = MutexRelease(store, m)
    BY <1>8 DEF VMMutexRelease, Enter
  <2>2. QED
    BY <1>1, <2>1, MutexReleaseTame
<1>9. CASE KillRelease
  <2> DEFINE t == frame[cur].arg
             q == store.tcb[t].entries
             s == [store EXCEPT !.tcb[t].entries = Tail(q)]
             m == Head(q).mutex
  <2>1. q # <<>> /\ store' = MutexRelease(s, m) /\ frame[cur].at = "kill"
    BY <1>9 DEF KillRelease, Owes
  <2>2. t \in Thread
    BY <1>1, <2>1 DEF TypeOK
  <2>3. q \in Seq(Entry)
    BY <1>1, <2>2 DEF WellFormed, Store, TCB
  <2>4. Head(q) \in Entry /\ Tail(q) \in Seq(Entry)
    BY <2>1, <2>3, HeadTailProperties
  <2>5. m \in Mutex
    BY <2>4 DEF Entry
  <2>6. WellFormed(s) /\ Still(store, s)
    BY <1>1, <2>2, <2>4, EntriesWF, EntriesStill
  <2> HIDE DEF s, m
  <2>7. Tidy(s) /\ Alive(s)
    BY <1>1, <2>6, StillSteady DEF Steady
  <2>8. Tame(s, store') /\ WellFormed(store')
    BY <2>1, <2>5, <2>6, <2>7, MutexReleaseTame, MutexReleaseEffect
  <2>9. store'.current \in Thread
    BY <2>8 DEF WellFormed, Store
  <2>10. QED
    BY <1>1, <2>6, <2>8, <2>9, StillThenTame
<1>10. CASE TimerKeep \/ TimerCountdown \/ TimerWake
  <2>1. /\ Steady(store, store') /\ SameKind(store, store')
        /\ store'.current = store.current /\ KeepsWaiters(store, store')
    BY <1>10, TimerTurnSteady
  <2>2. QED
    BY <2>1 DEF Tame, PicksHighest
<1>11. CASE TimerDone
  <2>1. store' \in {store, Schedule(store, High)}
    BY <1>11 DEF TimerDone
  <2>2. CASE store' = Schedule(store, High)
    <3>1. /\ Steady(store, store') /\ SameData(store, store')
          /\ PicksHighest(store, store') /\ SameMutexes(store, store')
      BY <1>1, <2>2, HighIsAPriority, ScheduleSteady, ScheduleTidy, SchedulePicksHighest,
         ScheduleWF
    <3>2. KeepsWaiters(store, store')
      BY <1>1, <2>2, HighIsAPriority, ScheduleKeeps DEF KeepsWaiters
    <3>3. QED
      BY <3>1, <3>2 DEF Tame, SameData, SameKind, SameMutexes
  <2>3. QED
    BY <1>2, <2>1, <2>2
<1>12. CASE SafeEntry \/ Return \/ AcquireReturn
  BY <1>2, <1>12 DEF SafeEntry, Return, AcquireReturn, Resume
<1>13. CASE \/ TimerInterrupt \/ \E t \in Thread : MachineReplySignalHandler(t)
            \/ IdleSpin \/ UNCHANGED vars
  BY <1>2, <1>13 DEF TimerInterrupt, MachineReplySignalHandler, IdleSpin, vars
<1>14. CASE \/ \E t \in Thread : VMThreadTerminate(t)
            \/ \E m \in Mutex : VMMutexReleaseUnowned(m)
  BY <1>2, <1>14 DEF VMThreadTerminate, VMMutexReleaseUnowned, Enter
<1>15. QED
  BY <1>3, <1>4, <1>5, <1>6, <1>7, <1>8, <1>9, <1>10, <1>11, <1>12, <1>13, <1>14
  DEF Next, Call, Kernel, SpecialStep

\* The step of a file call, which also sets the caller's flag.
LEMMA FileStep ==
  ASSUME TypeOK, Tidy(store), Alive(store), VMFile
  PROVE  /\ Steady(store, store') /\ PicksHighest(store, store')
         /\ store'.numThreads = store.numThreads
         /\ \A v \in Thread : store'.tcb[v].io = IF v = cur THEN TRUE ELSE store.tcb[v].io
<1>1. store' = WaitCurrentThreadOnIO(store) /\ store.current # Idle
  BY DEF VMFile, Enter, Calling, cur
<1>2. QED
  BY <1>1, WaitCurrentThreadOnIOSteady, WaitCurrentThreadOnIOWF DEF TypeOK, cur, SameMutexes

\* The callback clears a flag, and moves no thread.
LEMMA ClearFlagSteady ==
  ASSUME NEW s, WellFormed(s), Tidy(s), Alive(s), NEW t \in Thread
  PROVE  LET u == [s EXCEPT !.tcb[t].io = FALSE]
         IN  /\ Steady(s, u) /\ u.current = s.current /\ u.numThreads = s.numThreads
             /\ \A v \in Thread : u.tcb[v].io = IF v = t THEN FALSE ELSE s.tcb[v].io
<1> DEFINE u == [s EXCEPT !.tcb[t].io = FALSE]
<1>1. /\ \A v \in Thread : /\ u.tcb[v].state = s.tcb[v].state
                          /\ u.tcb[v].prio = s.tcb[v].prio
                          /\ u.tcb[v].io = IF v = t THEN FALSE ELSE s.tcb[v].io
      /\ u.ready = s.ready /\ u.waitList = s.waitList
      /\ u.deadList = s.deadList /\ u.current = s.current /\ u.numThreads = s.numThreads
  BY DEF WellFormed, Store, TCB
<1> HIDE DEF u
<1>2. \A v \in User : /\ v \in Thread /\ Waits(u, v) = Waits(s, v)
                      /\ \A p : Readies(u, v, p) = Readies(s, v, p)
                      /\ u.tcb[v].state = s.tcb[v].state /\ u.tcb[v].prio = s.tcb[v].prio
                      /\ u.tcb[v].io => s.tcb[v].io
  BY <1>1, Ids DEF Waits, Readies
<1>3. \A v \in User : Gone(s, v) => Gone(u, v)
  BY <1>2 DEF Gone
<1>4. Tidy(u)
  <2>1. \A v \in User, p \in Priority : Readies(u, v, p) # 0 => u.tcb[v].prio = p
    BY <1>2 DEF Tidy
  <2>2. \A v \in User : v >= u.numThreads =>
          Gone(u, v) /\ v \notin u.deadList /\ v # u.current /\ ~ u.tcb[v].io
    BY <1>1, <1>2, <1>3 DEF Tidy
  <2>3. QED
    BY <2>1, <2>2 DEF Tidy
<1>5. Alive(u)
  BY <1>1, <1>2 DEF Alive
<1>6. ASSUME AllPlaced(s) PROVE AllPlaced(u)
  <2>1. u.current \in User => u.tcb[u.current].state = "RUNNING"
    BY <1>1, <1>2, <1>6 DEF AllPlaced
  <2>2. ASSUME NEW v \in User PROVE
        LET y == u.tcb[v].state
        IN  /\ y = "RUNNING" => v = u.current
            /\ Waits(u, v) = (IF y = "WAITING" /\ v # u.current THEN 1 ELSE 0)
            /\ \A q \in Priority :
                 Readies(u, v, q) = (IF y = "READY" /\ q = u.tcb[v].prio /\ v # u.current THEN 1 ELSE 0)
            /\ y = "DEAD" /\ v < u.numThreads => v \in u.deadList
    BY <1>1, <1>2, <1>6 DEF AllPlaced, OthersPlaced
  <2>3. QED
    BY <2>1, <2>2 DEF AllPlaced, OthersPlaced
<1>7. QED
  BY <1>1, <1>3, <1>4, <1>5, <1>6 DEF Steady, u

\* The callback clears the flag of one thread and moves none.
LEMMA CallbackStep ==
  ASSUME TypeOK, Tidy(store), Alive(store), MachineFileIOCallback
  PROVE  /\ Steady(store, store') /\ store'.current = store.current
         /\ reply[cur] \in Thread /\ store'.numThreads = store.numThreads
         /\ \A v \in Thread :
              store'.tcb[v].io = IF v = reply[cur] THEN FALSE ELSE store.tcb[v].io
<1>1. /\ reply[cur] \in Thread /\ WellFormed(store)
      /\ store' = [store EXCEPT !.tcb[reply[cur]].io = FALSE]
  BY TypeParts, Ranges DEF MachineFileIOCallback
<1>2. QED
  BY <1>1, ClearFlagSteady

\* A yield is the one call that asks for its own level first.
LEMMA YieldStep ==
  ASSUME TypeOK, Tidy(store), Alive(store), VMThreadYield
  PROVE  Steady(store, store') /\ SameKind(store, store')
<1>1. store' = SleepCurrentThread(store, 0) /\ store.current # Idle
  BY DEF VMThreadYield, Enter, Calling, cur
<1>2. Steady(store, store') /\ SameData(store, store') /\ SameMutexes(store, store')
  BY <1>1, SleepCurrentThreadSteady, SleepCurrentThreadWF DEF TypeOK
<1>3. QED
  BY <1>2 DEF SameData, SameKind, SameMutexes

\* A new thread's flag is not set, as its id's was not.
LEMMA CreateStep ==
  ASSUME TypeOK, Tidy(store), Alive(store), VMThreadCreate
  PROVE  /\ Steady(store, store') /\ store'.current = store.current
         /\ store'.numThreads = store.numThreads + 1
         /\ \A v \in Thread : store'.tcb[v].io = store.tcb[v].io
<1>1. PICK p \in Priorities : store' = InsertThread(store, p)
  BY DEF VMThreadCreate, Finish
<1>2. store.numThreads \in Thread /\ p \in Priority /\ WellFormed(store)
  BY PrioritiesAssumption DEF VMThreadCreate, TypeOK
<1> DEFINE n == store.numThreads
<1>3. /\ Steady(store, store') /\ store'.current = store.current
      /\ \A v \in Thread \ {n} : store'.tcb[v] = store.tcb[v]
      /\ store'.tcb[n] = NewTCB("DEAD", p) /\ ~ store.tcb[n].io
  BY <1>1, <1>2, InsertThreadSteady
<1>4. store.tcb[n].io = FALSE /\ store'.tcb[n].io = FALSE
  BY <1>2, <1>3 DEF NewTCB, WellFormed, Store, TCB
<1>5. store'.numThreads = store.numThreads + 1
  BY <1>1, <1>2 DEF InsertThread, WellFormed, Store
<1>6. QED
  BY <1>3, <1>4, <1>5

\* An activation starts a thread that is dead.
LEMMA ActivateStep ==
  ASSUME TypeOK, Tidy(store), Alive(store), NEW t \in Thread, VMThreadActivate(t)
  PROVE  /\ Tidy(store') /\ Alive(store') /\ SameKind(store, store')
         /\ PicksHighest(store, store')
         /\ \A v \in User \ {t} : Gone(store, v) => Gone(store', v)
         /\ AllPlaced(store) => AllPlaced(store')
<1>1. store' = ActivateDeadThread(store, t) /\ store.tcb[t].state = "DEAD"
  BY DEF VMThreadActivate, Enter
<1>2. /\ Tidy(store') /\ Alive(store') /\ SameData(store, store')
      /\ PicksHighest(store, store')
      /\ \A v \in User \ {t} : Gone(store, v) => Gone(store', v)
      /\ AllPlaced(store) => AllPlaced(store')
      /\ SameMutexes(store, store')
  BY <1>1, ActivateDeadThreadSteady, ActivateDeadThreadWF DEF TypeOK
<1>3. QED
  BY <1>2 DEF SameData, SameKind, SameMutexes

\* Whoever is terminated exists.
KillTargetsExist ==
  \A t \in Thread : frame[t].at = "kill" => frame[t].arg < store.numThreads

\* The end of terminate().
LEMMA KillFinishStep ==
  ASSUME TypeOK, Tidy(store), Alive(store), KillTargetsExist, KillFinish
  PROVE  /\ Tidy(store') /\ Alive(store') /\ SameKind(store, store')
         /\ PicksHighest(store, store')
         /\ \A v \in User : Gone(store, v) => Gone(store', v)
         /\ AllPlaced(store) /\ frame[cur].arg = cur =>
              AllPlaced(store') /\ Gone(store', cur)
<1> DEFINE t == frame[cur].arg
<1>1. store' = MarkDead(store, t) /\ frame[cur].at = "kill" /\ cur \in Thread
  BY Ranges DEF KillFinish, Owes
<1>2. t \in User /\ t < store.numThreads /\ WellFormed(store)
  BY <1>1 DEF TypeOK, KillTargetsExist
<1> HIDE DEF t
<1>3. /\ Tidy(store') /\ Alive(store') /\ SameData(store, store')
      /\ PicksHighest(store, store')
      /\ \A v \in User : Gone(store, v) => Gone(store', v)
      /\ AllPlaced(store) /\ t = store.current => AllPlaced(store') /\ Gone(store', t)
      /\ SameMutexes(store, store')
  BY <1>1, <1>2, MarkDeadSteady, MarkDeadWF
<1>4. QED
  BY <1>3 DEF SameData, SameKind, SameMutexes, cur, t

-----------------------------------------------------------------------------
\* The frames.

\* A thread's frame changes only while it is current, and the step that enters
\* the kernel says what the frame is.
FrameRule ==
  /\ \A t \in Thread \ {cur} : frame'[t] = frame[t]
  /\ \/ frame'[cur] = frame[cur]
     \/ frame'[cur].at \in {"app", "ret"}
     \/ frame'[cur].at = "timer" /\ (TimerInterrupt \/ frame[cur].at = "timer")
     \/ frame'[cur].at = "kill" /\ VMThreadTerminate(frame'[cur].arg)
     \/ frame'[cur].at = "io" /\ VMFile
     \/ frame'[cur].at = "sleep" /\ (VMThreadYield \/ \E n \in Timeouts : VMThreadSleep(n))
     \/ frame'[cur].at \in {"lock", "trylock"} /\ VMMutexAcquire(frame'[cur].arg)

\* Only the current thread's frame changes, and each kind of frame has its caller.
LEMMA FrameStep ==
  ASSUME TypeOK, [Next]_vars
  PROVE  FrameRule
<1>1. frame \in [Thread -> Frame] /\ cur \in Thread
  BY Ranges DEF TypeOK
<1>2. ASSUME NEW at, NEW arg, NEW s, Enter(at, arg, s)
      PROVE  /\ \A t \in Thread \ {cur} : frame'[t] = frame[t]
             /\ frame'[cur].at = at /\ frame'[cur].arg = arg
  BY <1>1, <1>2 DEF Enter
<1>3. ASSUME UNCHANGED frame
      PROVE  FrameRule
  BY <1>3 DEF FrameRule
<1>4. ASSUME frame' = [frame EXCEPT ![cur] = InApp]
      PROVE  FrameRule
  <2>1. frame'[cur] = InApp /\ \A t \in Thread \ {cur} : frame'[t] = frame[t]
    BY <1>1, <1>4
  <2>2. InApp.at = "app"
    BY DEF InApp
  <2>3. QED
    BY <2>1, <2>2 DEF FrameRule
<1>5. ASSUME frame' = [frame EXCEPT ![cur].at = "ret"]
      PROVE  FrameRule
  <2>1. /\ frame'[cur].at = "ret"
        /\ \A t \in Thread \ {cur} : frame'[t] = frame[t]
    BY <1>1, <1>5 DEF Frame
  <2>2. QED
    BY <2>1 DEF FrameRule
<1>6. ASSUME frame[cur].at = "timer", NEW n, frame' = [frame EXCEPT ![cur].arg = n]
      PROVE  FrameRule
  <2>1. frame'[cur].at = "timer" /\ \A t \in Thread \ {cur} : frame'[t] = frame[t]
    BY <1>1, <1>6 DEF Frame
  <2>2. QED
    BY <1>6, <2>1 DEF FrameRule
<1>7. CASE VMThreadCreate \/ VMMutexCreate \/ IdleSpin \/ UNCHANGED vars \/ KillRelease
           \/ TimerWake
  BY <1>3, <1>7 DEF VMThreadCreate, VMMutexCreate, Finish, IdleSpin, vars, KillRelease, TimerWake
<1>8. CASE VMThreadYield \/ VMFile
  <2>1. CASE VMThreadYield
    <3>1. Enter("sleep", 0, SleepCurrentThread(store, 0))
      BY <2>1 DEF VMThreadYield
    <3>2. QED
      BY <1>2, <2>1, <3>1 DEF FrameRule
  <2>2. CASE VMFile
    <3>1. Enter("io", 0, WaitCurrentThreadOnIO(store))
      BY <2>2 DEF VMFile
    <3>2. QED
      BY <1>2, <2>2, <3>1 DEF FrameRule
  <2>3. QED
    BY <1>8, <2>1, <2>2
<1>9. ASSUME NEW t \in Thread,
             VMThreadActivate(t) \/ VMThreadDelete(t) \/ VMThreadTerminate(t)
      PROVE  FrameRule
  <2>1. CASE VMThreadActivate(t) \/ VMThreadDelete(t)
    <3>1. Enter("ret", 0, ActivateDeadThread(store, t)) \/ Enter("ret", 0, DeleteDeadThread(store, t))
      BY <2>1 DEF VMThreadActivate, VMThreadDelete
    <3>2. QED
      BY <1>2, <3>1 DEF FrameRule
  <2>2. CASE VMThreadTerminate(t)
    <3>1. Enter("kill", t, store)
      BY <2>2 DEF VMThreadTerminate
    <3>2. /\ \A u \in Thread \ {cur} : frame'[u] = frame[u]
          /\ frame'[cur].at = "kill" /\ frame'[cur].arg = t
      BY <1>2, <3>1
    <3>3. QED
      BY <2>2, <3>2 DEF FrameRule
  <2>3. QED
    BY <1>9, <2>1, <2>2
<1>10. ASSUME NEW n \in Timeouts, VMThreadSleep(n)
       PROVE  FrameRule
  <2>1. Enter("sleep", 0, SleepCurrentThread(store, n))
    BY <1>10 DEF VMThreadSleep
  <2>2. QED
    BY <1>2, <1>10, <2>1 DEF FrameRule
<1>11. ASSUME NEW m \in Mutex, VMMutexAcquire(m)
       PROVE  FrameRule
  <2>1. PICK n \in Nat \union {ImmediateTimeout}, at \in {"lock", "trylock"} :
          Acquire(m, n, at)
    BY <1>11, AcquireTimeout DEF VMMutexAcquire
  <2>2. Enter(at, m, MutexLock(store, m, n))
    BY <2>1 DEF Acquire
  <2>3. /\ \A u \in Thread \ {cur} : frame'[u] = frame[u]
        /\ frame'[cur].at \in {"lock", "trylock"} /\ frame'[cur].arg = m
    BY <1>2, <2>2
  <2>4. QED
    BY <1>11, <2>3 DEF FrameRule
<1>12. ASSUME NEW m \in Mutex, VMMutexRelease(m)
       PROVE  FrameRule
  <2>1. Enter("ret", 0, MutexRelease(store, m))
    BY <1>12 DEF VMMutexRelease
  <2>2. QED
    BY <1>2, <2>1 DEF FrameRule
<1>13. ASSUME NEW m \in Mutex, VMMutexDelete(m) \/ VMMutexReleaseUnowned(m)
       PROVE  FrameRule
  BY <1>3, <1>13 DEF VMMutexDelete, Finish, VMMutexReleaseUnowned
<1>14. CASE SafeEntry \/ Return \/ AcquireReturn
  BY <1>4, <1>14 DEF SafeEntry, Return, AcquireReturn, Resume
<1>15. CASE TimerDone \/ KillFinish \/ TimerInterrupt
  <2>1. CASE TimerDone \/ KillFinish
    BY <1>5, <2>1 DEF TimerDone, KillFinish
  <2>2. CASE TimerInterrupt
    <3>1. frame' = [frame EXCEPT ![cur] = [at |-> "timer", sig |-> FALSE, arg |-> 1]]
      BY <2>2 DEF TimerInterrupt
    <3>2. frame'[cur].at = "timer" /\ \A t \in Thread \ {cur} : frame'[t] = frame[t]
      BY <1>1, <3>1
    <3>3. QED
      BY <2>2, <3>2 DEF FrameRule
  <2>3. QED
    BY <1>15, <2>1, <2>2
<1>16. CASE TimerKeep \/ TimerCountdown
  BY <1>6, <1>16 DEF TimerKeep, TimerCountdown, Visiting, Owes, NextInWaitList
<1>17. CASE MachineFileIOCallback \/ \E t \in Thread : MachineReplySignalHandler(t)
  BY <1>3, <1>17 DEF MachineFileIOCallback, MachineReplySignalHandler
<1>18. QED
  BY <1>7, <1>8, <1>9, <1>10, <1>11, <1>12, <1>13, <1>14, <1>15, <1>16, <1>17
  DEF Next, Call, Kernel

-----------------------------------------------------------------------------
\* Invariants of the scheduler that hold whatever the application does.
Sched == Tidy(store) /\ Alive(store) /\ KillTargetsExist

\* findThreadByID() finds only threads that exist.
LEMMA FoundExists ==
  ASSUME TypeOK, Tidy(store), store.current # Idle, NEW t \in Thread, Found(store, t)
  PROVE  t < store.numThreads
<1>1. t \in User /\ t \in Int /\ store.numThreads \in Int
  BY FoundIsUser, Numbers DEF TypeOK
<1>2. ASSUME t >= store.numThreads PROVE FALSE
  <2>1. /\ Waits(store, t) = 0 /\ \A p \in Priority : Readies(store, t, p) = 0
        /\ t \notin store.deadList /\ t # store.current
    BY <1>1, <1>2 DEF Tidy, Gone
  <2>2. store.waitList \in Seq(User) /\ \A p \in Priority : store.ready[p] \in Seq(User)
    BY DEF TypeOK, WellFormed, Store
  <2>3. ~ Contains(store.waitList, t) /\ \A p \in Priority : ~ Contains(store.ready[p], t)
    <3>1. \A q \in Seq(User) : Contains(q, t) => Occ(q, {t}) # 0
      <4> SUFFICES ASSUME NEW q \in Seq(User), NEW i \in 1..Len(q), q[i] = t
                   PROVE  Occ(q, {t}) # 0
        BY DEF Contains
      <4>1. i \in DOMAIN q /\ q[i] \in {t}
        BY LenProperties
      <4>2. QED
        BY <4>1, OccNat
    <3>2. QED
      BY <2>1, <2>2, <3>1 DEF Waits, Readies
  <2>4. QED
    BY <2>1, <2>3 DEF Found
<1>3. QED
  BY <1>1, <1>2

\* Every step keeps them.
LEMMA SchedStep ==
  ASSUME TypeOK, Sched, [Next]_vars
  PROVE  /\ Sched'
         /\ VMThreadYield \/ PicksHighest(store, store')
         /\ \A v \in User : Gone(store, v) => Gone(store', v) \/ VMThreadActivate(v)
<1>1. Tidy(store) /\ Alive(store) /\ KillTargetsExist /\ WellFormed(store)
  BY DEF Sched, TypeOK
<1>2. /\ Tidy(store') /\ Alive(store')
      /\ store'.numThreads \in {store.numThreads, store.numThreads + 1}
      /\ VMThreadYield \/ PicksHighest(store, store')
      /\ \A v \in User : Gone(store, v) => Gone(store', v) \/ VMThreadActivate(v)
  <2>1. CASE VMThreadCreate
    BY <1>1, <2>1, CreateStep DEF Steady, PicksHighest
  <2>2. CASE VMThreadYield
    BY <1>1, <2>2, YieldStep DEF Steady, SameKind
  <2>3. CASE VMFile
    BY <1>1, <2>3, FileStep DEF Steady
  <2>4. CASE KillFinish
    BY <1>1, <2>4, KillFinishStep DEF SameKind
  <2>5. CASE MachineFileIOCallback
    BY <1>1, <2>5, CallbackStep DEF Steady, PicksHighest
  <2>6. ASSUME NEW t \in Thread, VMThreadActivate(t)
        PROVE  /\ Tidy(store') /\ Alive(store')
               /\ store'.numThreads \in {store.numThreads, store.numThreads + 1}
               /\ PicksHighest(store, store')
               /\ \A v \in User : Gone(store, v) => Gone(store', v) \/ VMThreadActivate(v)
    BY <1>1, <2>6, ActivateStep DEF SameKind
  <2>7. CASE ~ SpecialStep
    BY <1>1, <2>7, PlainStepTame DEF Tame, Steady, SameKind
  <2>8. QED
    BY <2>1, <2>2, <2>3, <2>4, <2>5, <2>6, <2>7 DEF SpecialStep
<1>3. KillTargetsExist'
  <2> SUFFICES ASSUME NEW t \in Thread, frame'[t].at = "kill"
               PROVE  frame'[t].arg < store'.numThreads
    BY DEF KillTargetsExist
  <2>1. frame'[t].arg < store.numThreads
    <3>1. FrameRule
      BY FrameStep
    <3>2. CASE frame'[t] = frame[t]
      BY <1>1, <3>2 DEF KillTargetsExist
    <3>3. CASE t = cur /\ VMThreadTerminate(frame'[t].arg)
      <4> DEFINE k == frame'[t].arg
      <4>1. Found(store, k) /\ store.current # Idle
        BY <3>3 DEF VMThreadTerminate, Calling, cur
      <4>2. k \in User
        BY NextType, TypeParts DEF TypeOK
      <4>3. QED
        BY <1>1, <4>1, <4>2, FoundExists, Ids
    <3>4. QED
      BY <3>1, <3>2, <3>3 DEF FrameRule
  <2>2. frame'[t].arg \in Int /\ store.numThreads \in Int
    <3>1. frame'[t].arg \in User
      BY NextType DEF TypeOK
    <3>2. QED
      BY <1>1, <3>1, Numbers
  <2>3. QED
    BY <1>2, <2>1, <2>2
<1>4. QED
  BY <1>2, <1>3 DEF Sched

\* VMStart leaves one thread that runs, and lists that are empty.
LEMMA InitSched == Init => Sched /\ AllPlaced(store)
<1> SUFFICES ASSUME Init PROVE Sched /\ AllPlaced(store)
  OBVIOUS
<1>1. /\ store.current = Main /\ store.numThreads = 2
      /\ store.waitList = <<>> /\ store.deadList = {}
      /\ \A p \in Priority : store.ready[p] = <<>>
  BY DEF Init, InitStore, Priority, Low, High
<1>2. \A t \in User : store.tcb[t] = IF t = Main THEN NewTCB("RUNNING", Normal)
                                                 ELSE NewTCB("DEAD", Low)
  BY Ids DEF Init, InitStore, User
<1>3. \A t \in User : /\ store.tcb[t].state = IF t = Main THEN "RUNNING" ELSE "DEAD"
                      /\ ~ store.tcb[t].io
  BY <1>2 DEF NewTCB
<1>4. \A t : Waits(store, t) = 0 /\ \A p \in Priority : Readies(store, t, p) = 0
  BY <1>1, OccEmpty DEF Waits, Readies
<1>5. \A t \in User : t \in Int /\ (t < 2 => t = Main) /\ (t >= 2 => t # Main)
  BY DEF User, Thread, Main, Idle
<1>6. Tidy(store)
  <2>1. \A t \in User : t >= store.numThreads =>
          Gone(store, t) /\ t \notin store.deadList /\ t # store.current /\ ~ store.tcb[t].io
    BY <1>1, <1>3, <1>4, <1>5 DEF Gone
  <2>2. QED
    BY <1>4, <2>1 DEF Tidy
<1>7. Alive(store)
  BY <1>1, <1>3 DEF Alive
<1>8. KillTargetsExist
  BY DEF Init, KillTargetsExist, InApp, AtStart
<1>9. AllPlaced(store)
  <2>1. store.current \in User => store.tcb[store.current].state = "RUNNING"
    BY <1>1, <1>3
  <2>2. ASSUME NEW t \in User PROVE
        LET x == store.tcb[t].state
        IN  /\ x = "RUNNING" => t = store.current
            /\ Waits(store, t) = (IF x = "WAITING" /\ t # store.current THEN 1 ELSE 0)
            /\ \A p \in Priority :
                 Readies(store, t, p) =
                   (IF x = "READY" /\ p = store.tcb[t].prio /\ t # store.current THEN 1 ELSE 0)
            /\ x = "DEAD" /\ t < store.numThreads => t \in store.deadList
    BY <1>1, <1>3, <1>4, <1>5
  <2>3. QED
    BY <2>1, <2>2 DEF AllPlaced, OthersPlaced
<1>10. QED
  BY <1>6, <1>7, <1>8, <1>9 DEF Sched

\* Sched is an invariant.
LEMMA SchedInvariant == Spec => [](TypeOK /\ Sched)
<1>1. Init => TypeOK /\ Sched
  BY InitType, InitSched
<1>2. TypeOK /\ Sched /\ [Next]_vars => (TypeOK /\ Sched)'
  BY NextType, SchedStep
<1>3. QED
  BY <1>1, <1>2, PTL DEF Spec

\* How the properties count is how the proofs do.
LEMMA CountIsOcc ==
  ASSUME NEW A, NEW q \in Seq(A), NEW t
  PROVE  Count(q, t) = Occ(q, {t})
<1>1. {i \in 1..Len(q) : q[i] = t} = {i \in DOMAIN q : q[i] \in {t}}
  BY LenProperties
<1>2. QED
  BY <1>1 DEF Count, Occ

\* A list that does not hold t has no element t.
LEMMA NotListed ==
  ASSUME NEW A, NEW q \in Seq(A), NEW c, \A t \in A \ {c} : Occ(q, {t}) = 0
  PROVE  ToSet(q) \subseteq {c}
<1> SUFFICES ASSUME NEW i \in DOMAIN q, q[i] # c PROVE FALSE
  BY DEF ToSet
<1>1. q[i] \in A /\ q[i] \in {q[i]}
  BY LenProperties, ElementOfSeq
<1>2. Occ(q, {q[i]}) # 0
  <2> DEFINE S == {q[i]}
  <2>1. q[i] \in S
    OBVIOUS
  <2> HIDE DEF S
  <2>2. Occ(q, S) # 0
    BY <2>1, OccNat
  <2>3. QED
    BY <2>2 DEF S
<1>3. QED
  BY <1>1, <1>2

\* Whatever the application does, and whoever is terminated: a switch that is not
\* asked for by a yield takes the ready thread of the highest priority, both in
\* a call and at the end of the timer's interrupt.
THEOREM SwitchesPickHighest == Spec => SwitchPicksHighest
<1> DEFINE A == cur' # cur /\ ~ (frame'[cur].at = "sleep" /\ owed'[cur] = 0) =>
                  \A p \in Priority : p > store.tcb[cur'].prio =>
                     ToSet(store'.ready[p]) \subseteq {cur}
<1>1. TypeOK /\ Sched /\ [Next]_vars => A
  <2> SUFFICES ASSUME TypeOK, Sched, [Next]_vars,
                      cur' # cur, ~ (frame'[cur].at = "sleep" /\ owed'[cur] = 0),
                      NEW p \in Priority, p > store.tcb[cur'].prio
               PROVE  ToSet(store'.ready[p]) \subseteq {cur}
    OBVIOUS
  <2>1. ~ VMThreadYield
    <3>1. cur \in Thread /\ frame \in [Thread -> Frame] /\ owed \in [Thread -> Nat]
      BY Ranges DEF TypeOK
    <3>2. QED
      BY <3>1 DEF VMThreadYield, Enter
  <2>2. PicksHighest(store, store')
    BY <2>1, SchedStep
  <2>3. \A t \in User \ {cur} : Readies(store', t, p) = 0
    BY <2>2 DEF PicksHighest, cur
  <2>4. store'.ready[p] \in Seq(User)
    BY NextType DEF TypeOK, WellFormed
  <2> DEFINE q == store'.ready[p]
  <2>5. q \in Seq(User) /\ \A t \in User \ {cur} : Occ(q, {t}) = 0
    BY <2>3, <2>4 DEF Readies
  <2> HIDE DEF q, A
  <2>6. ToSet(q) \subseteq {cur}
    BY ONLY <2>5, NotListed
  <2>7. QED
    BY <2>6 DEF q
<1>2. QED
  BY <1>1, SchedInvariant, PTL DEF Spec, SwitchPicksHighest

\* Whatever the application does: a thread that has ended and is in no list of
\* the scheduler comes back only through VMThreadActivate.
THEOREM UnlistedDeadStay == Spec => UnlistedDeadStayDead
<1> DEFINE A == \A t \in User :
                  /\ State(t) = "DEAD"
                  /\ Count(store.waitList, t) = 0
                  /\ \A p \in Priority : Count(store.ready[p], t) = 0
                  => State(t)' = "DEAD" \/ VMThreadActivate(t)
<1>1. TypeOK /\ Sched /\ [Next]_vars => A
  <2> SUFFICES ASSUME TypeOK, Sched, [Next]_vars, NEW t \in User,
                      State(t) = "DEAD", Count(store.waitList, t) = 0,
                      \A p \in Priority : Count(store.ready[p], t) = 0
               PROVE  State(t)' = "DEAD" \/ VMThreadActivate(t)
    OBVIOUS
  <2>1. store.waitList \in Seq(User) /\ \A p \in Priority : store.ready[p] \in Seq(User)
    BY DEF TypeOK, WellFormed, Store
  <2>2. Gone(store, t)
    BY <2>1, CountIsOcc DEF Gone, Waits, Readies, State
  <2>3. QED
    BY <2>2, SchedStep DEF Gone, State
<1>2. QED
  BY <1>1, SchedInvariant, PTL DEF Spec, UnlistedDeadStayDead

-----------------------------------------------------------------------------
\* The file service.

\* Only three steps send a request, take a reply or apply one.
LEMMA OtherStepsLeaveFilesAlone ==
  ASSUME [Next]_vars, ~ VMFile, ~ MachineFileIOCallback,
         ~ \E t \in Thread : MachineReplySignalHandler(t)
  PROVE  pending' = pending /\ reply' = reply
<1>1. CASE VMThreadCreate \/ VMThreadYield \/ VMMutexCreate
  BY <1>1 DEF VMThreadCreate, VMThreadYield, VMMutexCreate, Finish
<1>2. CASE \E t \in Thread : VMThreadActivate(t) \/ VMThreadDelete(t) \/ VMThreadTerminate(t)
  BY <1>2 DEF VMThreadActivate, VMThreadDelete, VMThreadTerminate
<1>3. CASE \E n \in Timeouts : VMThreadSleep(n)
  BY <1>3 DEF VMThreadSleep
<1>4. CASE \E m \in Mutex : \/ VMMutexDelete(m) \/ VMMutexAcquire(m)
                            \/ VMMutexRelease(m) \/ VMMutexReleaseUnowned(m)
  BY <1>4 DEF VMMutexDelete, VMMutexAcquire, Acquire, VMMutexRelease, VMMutexReleaseUnowned,
              Finish
<1>5. CASE SafeEntry \/ Return \/ AcquireReturn \/ KillRelease \/ KillFinish
  BY <1>5 DEF SafeEntry, Return, AcquireReturn, Resume, KillRelease, KillFinish
<1>6. CASE TimerKeep \/ TimerCountdown \/ TimerWake \/ TimerDone
  BY <1>6 DEF TimerKeep, TimerCountdown, TimerWake, TimerDone
<1>7. CASE TimerInterrupt \/ IdleSpin \/ UNCHANGED vars
  BY <1>7 DEF TimerInterrupt, IdleSpin, vars
<1>8. QED
  BY <1>1, <1>2, <1>3, <1>4, <1>5, <1>6, <1>7 DEF Next, Call, Kernel

\* So do they alone touch a flag.
LEMMA OtherStepsLeaveFlagsAlone ==
  ASSUME TypeOK, Sched, [Next]_vars, ~ VMFile, ~ MachineFileIOCallback
  PROVE  \A t \in Thread : store'.tcb[t].io = store.tcb[t].io
<1>1. Tidy(store) /\ Alive(store) /\ KillTargetsExist
  BY DEF Sched
<1>2. CASE ~ SpecialStep
  BY <1>1, <1>2, PlainStepTame DEF Tame, SameKind
<1>3. QED
  BY <1>1, <1>2, CreateStep, YieldStep, KillFinishStep, ActivateStep DEF SpecialStep, SameKind

\* Whatever the application does: the flags, the requests and the replies of the
\* virtual machine follow FileService.tla, which the machine layer implements.
THEOREM UsesTheFileService == Spec => UsesFileService
<1> DEFINE io == [t \in Thread |-> store.tcb[t].io]
<1>1. Init => Service!Init
  <2> SUFFICES ASSUME Init PROVE Service!Init
    OBVIOUS
  <2>1. \A t \in Thread : store.tcb[t] = IF t = Main THEN NewTCB("RUNNING", Normal)
                                         ELSE IF t = Idle THEN NewTCB("READY", 0)
                                         ELSE NewTCB("DEAD", Low)
    BY DEF Init, InitStore
  <2>2. \A t \in Thread : store.tcb[t].io = FALSE
    BY <2>1 DEF NewTCB
  <2>3. QED
    BY <2>2 DEF Init, Service!Init
<1>2. TypeOK /\ Sched /\ [Next]_vars => [Service!Next]_(Service!fsvars)
  <2> SUFFICES ASSUME TypeOK, Sched, [Next]_vars
               PROVE  [Service!Next]_(Service!fsvars)
    OBVIOUS
  <2>1. /\ cur \in Thread /\ pending \in [Thread -> Nat]
        /\ reply \in [Thread -> Thread \union {None}]
        /\ Tidy(store) /\ Alive(store)
    BY Ranges DEF TypeOK, Sched
  <2> PICK c \in Thread : c = cur
    BY <2>1
  <2>2. CASE VMFile
    <3>1. \A v \in Thread : store'.tcb[v].io = IF v = cur THEN TRUE ELSE store.tcb[v].io
      BY <2>1, <2>2, FileStep
    <3>2. io' = [io EXCEPT ![c] = TRUE]
      BY <2>1, <3>1
    <3>3. Service!Request(c)
      BY <2>2, <3>2 DEF Service!Request, VMFile
    <3>4. QED
      BY <3>3 DEF Service!Next
  <2>3. ASSUME NEW t \in Thread, MachineReplySignalHandler(t)
        PROVE  [Service!Next]_(Service!fsvars)
    <3>1. io' = io
      BY <2>3 DEF MachineReplySignalHandler
    <3>2. Service!Take(cur, t)
      BY <2>3, <3>1 DEF Service!Take, MachineReplySignalHandler
    <3>3. QED
      BY <2>1, <3>2 DEF Service!Next
  <2>4. CASE MachineFileIOCallback
    <3>1. /\ reply[cur] \in Thread
          /\ \A v \in Thread :
               store'.tcb[v].io = IF v = reply[cur] THEN FALSE ELSE store.tcb[v].io
      BY <2>1, <2>4, CallbackStep
    <3>2. io' = [io EXCEPT ![reply[cur]] = FALSE]
      BY <3>1
    <3>3. Service!Callback(c)
      BY <2>4, <3>2 DEF Service!Callback, MachineFileIOCallback
    <3>4. QED
      BY <3>3 DEF Service!Next
  <2>5. CASE ~ VMFile /\ ~ MachineFileIOCallback
             /\ ~ \E t \in Thread : MachineReplySignalHandler(t)
    <3>1. pending' = pending /\ reply' = reply
      BY <2>5, OtherStepsLeaveFilesAlone
    <3>2. io' = io
      BY <2>5, OtherStepsLeaveFlagsAlone
    <3>3. QED
      BY <3>1, <3>2 DEF Service!fsvars
  <2>6. QED
    BY <2>2, <2>3, <2>4, <2>5
<1>3. QED
  BY <1>1, <1>2, SchedInvariant, PTL DEF Spec, Service!Spec, UsesFileService

-----------------------------------------------------------------------------
\* An application that never terminates another thread.

\* Nobody terminates anybody but himself.
SelfKill == \A t \in Thread : frame[t].at = "kill" => frame[t].arg = t

\* Then every thread is where its state says: only the end of terminate(), run
\* on a thread that is on a list, could leave it there.
Placed == AllPlaced(store) /\ SelfKill

\* Every step leaves every thread where its state says.
LEMMA PlacedStep ==
  ASSUME "TerminateOther" \notin Calls, TypeOK, Sched, Placed, [Next]_vars
  PROVE  Placed'
<1>1. /\ Tidy(store) /\ Alive(store) /\ KillTargetsExist /\ WellFormed(store)
      /\ AllPlaced(store) /\ SelfKill
  BY DEF Sched, TypeOK, Placed
<1>2. AllPlaced(store')
  <2>1. CASE VMThreadCreate
    BY <1>1, <2>1, CreateStep DEF Steady
  <2>2. CASE VMThreadYield
    BY <1>1, <2>2, YieldStep DEF Steady
  <2>3. CASE VMFile
    BY <1>1, <2>3, FileStep DEF Steady
  <2>4. CASE KillFinish
    <3>1. frame[cur].at = "kill" /\ cur \in Thread
      BY <2>4, Ranges DEF KillFinish, Owes
    <3>2. frame[cur].arg = cur
      BY <1>1, <3>1 DEF SelfKill
    <3>3. QED
      BY <1>1, <2>4, <3>2, KillFinishStep
  <2>5. CASE MachineFileIOCallback
    BY <1>1, <2>5, CallbackStep DEF Steady
  <2>6. ASSUME NEW t \in Thread, VMThreadActivate(t)
        PROVE  AllPlaced(store')
    BY <1>1, <2>6, ActivateStep
  <2>7. CASE ~ SpecialStep
    BY <1>1, <2>7, PlainStepTame DEF Tame, Steady
  <2>8. QED
    BY <2>1, <2>2, <2>3, <2>4, <2>5, <2>6, <2>7 DEF SpecialStep
<1>3. SelfKill'
  <2> SUFFICES ASSUME NEW t \in Thread, frame'[t].at = "kill"
               PROVE  frame'[t].arg = t
    BY DEF SelfKill
  <2>1. FrameRule
    BY FrameStep
  <2>2. CASE frame'[t] = frame[t]
    BY <1>1, <2>2 DEF SelfKill
  <2>3. CASE t = cur /\ VMThreadTerminate(frame'[t].arg)
    BY <2>3 DEF VMThreadTerminate, Calling
  <2>4. QED
    BY <2>1, <2>2, <2>3 DEF FrameRule
<1>4. QED
  BY <1>2, <1>3 DEF Placed

\* So every thread is there in every state.
LEMMA PlacedInvariant ==
  ASSUME "TerminateOther" \notin Calls
  PROVE  Spec => [](TypeOK /\ Sched /\ Placed)
<1>1. Init => TypeOK /\ Sched /\ Placed
  <2>1. Init => SelfKill
    BY DEF Init, SelfKill, InApp, AtStart
  <2>2. QED
    BY <2>1, InitType, InitSched DEF Placed
<1>2. TypeOK /\ Sched /\ Placed /\ [Next]_vars => (TypeOK /\ Sched /\ Placed)'
  BY NextType, SchedStep, PlacedStep
<1>3. QED
  BY <1>1, <1>2, PTL DEF Spec

\* Without terminations of others: no thread is lost and none is run twice.  A
\* waiting thread is on the wait list once, a ready one in the list of its
\* priority once, and no thread is anywhere else.
THEOREM ThreadsArePlaced ==
  ASSUME "TerminateOther" \notin Calls
  PROVE  Spec => []ThreadsPlaced
<1>1. TypeOK /\ Sched /\ Placed => ThreadsPlaced
  <2> SUFFICES ASSUME TypeOK, Tidy(store), AllPlaced(store), NEW t \in User
               PROVE  /\ State(t) = "RUNNING" <=> cur = t
                      /\ Count(store.waitList, t) = (IF State(t) = "WAITING" THEN 1 ELSE 0)
                      /\ \A p \in Priority :
                           Count(store.ready[p], t) =
                             (IF State(t) = "READY" /\ store.tcb[t].prio = p THEN 1 ELSE 0)
                      /\ State(t) = "DEAD" => (t \in store.deadList <=> t < store.numThreads)
    BY DEF Sched, Placed, ThreadsPlaced
  <2>1. store.waitList \in Seq(User) /\ \A p \in Priority : store.ready[p] \in Seq(User)
    BY DEF TypeOK, WellFormed, Store
  <2>2. /\ Count(store.waitList, t) = Waits(store, t)
        /\ \A p \in Priority : Count(store.ready[p], t) = Readies(store, t, p)
    BY <2>1, CountIsOcc DEF Waits, Readies
  <2>3. State(t) = "RUNNING" <=> cur = t
    BY DEF AllPlaced, OthersPlaced, State, cur
  <2>4. /\ Waits(store, t) = (IF State(t) = "WAITING" THEN 1 ELSE 0)
        /\ \A p \in Priority :
             Readies(store, t, p) = (IF State(t) = "READY" /\ store.tcb[t].prio = p THEN 1 ELSE 0)
    BY <2>3 DEF AllPlaced, OthersPlaced, State, cur
  <2>5. State(t) = "DEAD" => (t \in store.deadList <=> t < store.numThreads)
    <3>1. t \in Int /\ store.numThreads \in Int
      BY Numbers DEF TypeOK
    <3>2. t >= store.numThreads => t \notin store.deadList
      BY DEF Tidy
    <3>3. QED
      BY <3>1, <3>2 DEF AllPlaced, OthersPlaced, State
  <2>6. QED
    BY <2>2, <2>3, <2>4, <2>5
<1>2. QED
  BY <1>1, PlacedInvariant, PTL

\* Without terminations of others: a thread that has ended, by terminating itself
\* or by returning from its entry, runs again only if somebody activates it.
THEOREM DeadStayDead ==
  ASSUME "TerminateOther" \notin Calls
  PROVE  Spec => DeadUntilActivated
<1> DEFINE A == \A t \in User :
                  (State(t) = "DEAD" \/ (KillFinish /\ frame[cur].arg = t)) =>
                    State(t)' = "DEAD" \/ VMThreadActivate(t)
<1>1. TypeOK /\ Sched /\ Placed /\ [Next]_vars => A
  <2> SUFFICES ASSUME TypeOK, Sched, Placed, [Next]_vars, NEW t \in User,
                      State(t) = "DEAD" \/ (KillFinish /\ frame[cur].arg = t)
               PROVE  State(t)' = "DEAD" \/ VMThreadActivate(t)
    OBVIOUS
  <2>1. CASE State(t) = "DEAD"
    <3>1. t # store.current
      BY <2>1 DEF Placed, AllPlaced, State
    <3>2. Gone(store, t)
      BY <2>1, <3>1 DEF Placed, AllPlaced, OthersPlaced, Gone, State
    <3>3. QED
      BY <3>2, SchedStep DEF Gone, State
  <2>2. CASE KillFinish /\ frame[cur].arg = t
    <3>1. frame[cur].at = "kill" /\ cur \in Thread
      BY <2>2, Ranges DEF KillFinish, Owes, TypeOK
    <3>2. frame[cur].arg = cur
      BY <3>1 DEF Placed, SelfKill
    <3>3. Gone(store', cur)
      BY <2>2, <3>2, KillFinishStep DEF Sched, Placed
    <3>4. QED
      BY <2>2, <3>2, <3>3 DEF Gone, State
  <2>3. QED
    BY <2>1, <2>2
<1>2. QED
  BY <1>1, PlacedInvariant, PTL DEF Spec, DeadUntilActivated

\* Nobody but the timer and a release takes a thread off the wait list, and they
\* pass over one that waits for a file.
LEMMA FileWaiterStays ==
  ASSUME TypeOK, Sched, [Next]_vars
  PROVE  KeepsWaiters(store, store')
<1>1. /\ WellFormed(store) /\ Tidy(store) /\ Alive(store)
      /\ \A s : s.waitList = store.waitList => KeepsWaiters(store, s)
  BY DEF Sched, TypeOK, KeepsWaiters, Waits
<1>2. CASE VMThreadCreate
  <2>1. PICK p \in Priorities : store' = InsertThread(store, p)
    BY <1>2 DEF VMThreadCreate, Finish
  <2>2. store'.waitList = store.waitList
    BY <1>1, <2>1 DEF InsertThread, WellFormed, Store
  <2>3. QED
    BY <1>1, <2>2
<1>3. CASE VMThreadYield
  <2>1. store' = SleepCurrentThread(store, 0) /\ store.current # Idle
    BY <1>3 DEF VMThreadYield, Enter, Calling, cur
  <2>2. QED
    BY <1>1, <2>1, SleepKeeps
<1>4. CASE VMFile
  <2> DEFINE t == store.current
             b == SetState(store, t, "WAITING")
             a == [b EXCEPT !.tcb[t].io = TRUE]
  <2>1. t \in Thread /\ "WAITING" \in ThreadState
    BY <1>1 DEF WellFormed, Store, ThreadState
  <2>2. store' = Schedule(a, High)
    BY <1>4 DEF VMFile, Enter, WaitCurrentThreadOnIO
  <2>3. WellFormed(b)
    BY <1>1, <2>1, SetStateWF
  <2>4. a.waitList = store.waitList /\ a.current = store.current
    BY <1>1 DEF SetState, WellFormed, Store
  <2> HIDE DEF b
  <2>5. WellFormed(a)
    BY <2>1, <2>3, IOFlagWF
  <2> HIDE DEF a
  <2>6. QED
    BY <2>2, <2>4, <2>5, HighIsAPriority, ScheduleKeeps DEF KeepsWaiters, Waits
<1>5. CASE KillFinish
  <2> DEFINE t == frame[cur].arg
  <2>1. store' = MarkDead(store, t) /\ t \in User
    BY <1>5, Ranges DEF KillFinish, Owes, TypeOK
  <2> HIDE DEF t
  <2>2. QED
    BY <1>1, <2>1, LifeKeeps
<1>6. CASE MachineFileIOCallback
  <2>1. store'.waitList = store.waitList
    BY <1>1, <1>6 DEF MachineFileIOCallback, WellFormed, Store
  <2>2. QED
    BY <1>1, <2>1
<1>7. ASSUME NEW t \in Thread, VMThreadActivate(t)
      PROVE  KeepsWaiters(store, store')
  <2>1. t \in User
    BY <1>1, <1>7, FoundIsUser DEF VMThreadActivate, Calling, cur
  <2>2. store' = ActivateDeadThread(store, t)
    BY <1>7 DEF VMThreadActivate, Enter
  <2>3. QED
    BY <1>1, <2>1, <2>2, LifeKeeps
<1>8. CASE ~ SpecialStep
  BY <1>1, <1>8, PlainStepTame DEF Tame
<1>9. QED
  BY <1>2, <1>3, <1>4, <1>5, <1>6, <1>7, <1>8 DEF SpecialStep

\* A thread has at most one request outstanding, sent and not yet taken or taken
\* and not yet applied; then its flag is set and it is on the wait list.
Replied(t) == \E u \in Thread : reply[u] = t

FilesOK ==
  /\ pending[Idle] = 0 /\ ~ Replied(Idle) /\ ~ store.tcb[Idle].io
  /\ \A t \in User :
       /\ pending[t] <= 1
       /\ \A u, v \in Thread : reply[u] = t /\ reply[v] = t => u = v
       /\ pending[t] = 1 => ~ Replied(t)
       /\ pending[t] = 1 \/ Replied(t) => store.tcb[t].io
       /\ store.tcb[t].io => Waits(store, t) # 0

\* Every step keeps what the flags and the requests say of each other.
LEMMA FilesStep ==
  ASSUME TypeOK, Sched, Placed, FilesOK, [Next]_vars
  PROVE  FilesOK'
<1>1. /\ WellFormed(store) /\ Tidy(store) /\ Alive(store) /\ AllPlaced(store)
      /\ cur \in Thread /\ pending \in [Thread -> Nat]
      /\ reply \in [Thread -> Thread \union {None}]
  BY Ranges DEF Sched, TypeOK, Placed
<1>2. \A t \in User : t \in Thread /\ t # Idle
  BY Ids DEF User
<1>3. \A t \in User : store.tcb[t].io => t # cur /\ Waits(store', t) # 0
  <2>1. KeepsWaiters(store, store')
    BY FileWaiterStays
  <2>2. \A t \in User : Waits(store, t) # 0 => t # cur
    BY <1>1 DEF AllPlaced, OthersPlaced, cur
  <2>3. QED
    BY <2>1, <2>2 DEF KeepsWaiters, FilesOK, cur
<1>4. CASE VMFile
  <2>1. /\ store' = WaitCurrentThreadOnIO(store) /\ cur # Idle
        /\ pending' = [pending EXCEPT ![cur] = pending[cur] + 1] /\ reply' = reply
    BY <1>4 DEF VMFile, Enter, Calling
  <2>2. \A v \in Thread : store'.tcb[v].io = IF v = cur THEN TRUE ELSE store.tcb[v].io
    BY <1>1, <1>4, FileStep
  <2>3. Waits(store', cur) # 0
    BY <1>1, <2>1, WaitOnIOKeeps DEF cur
  <2>4. cur \in User
    BY <1>1, <2>1 DEF User
  <2>5. pending[cur] = 0 /\ ~ Replied(cur)
    BY <1>1, <1>3, <2>4 DEF FilesOK
  <2>6. pending'[cur] = 1 /\ \A t \in Thread \ {cur} : pending'[t] = pending[t]
    BY <1>1, <2>1, <2>5
  <2>7. \A t : Replied(t)' <=> Replied(t)
    BY <2>1 DEF Replied
  <2>8. pending'[Idle] = 0 /\ ~ Replied(Idle)' /\ ~ store'.tcb[Idle].io
    BY <2>1, <2>2, <2>6, <2>7, Ids DEF FilesOK
  <2> PICK c \in User : c = cur
    BY <2>4
  <2>9. ASSUME NEW t \in User
        PROVE  /\ pending'[t] <= 1
               /\ pending'[t] = 1 => ~ Replied(t)'
               /\ pending'[t] = 1 \/ Replied(t)' => store'.tcb[t].io
               /\ store'.tcb[t].io => Waits(store', t) # 0
    <3>1. CASE t = c
      <4>1. pending'[t] = 1 /\ store'.tcb[t].io /\ Waits(store', t) # 0
        BY <1>2, <2>2, <2>3, <2>6, <3>1
      <4>2. ~ Replied(t)
        BY <2>5, <3>1 DEF Replied
      <4>3. QED
        BY <2>7, <4>1, <4>2
    <3>2. CASE t # c
      BY <1>2, <1>3, <2>2, <2>6, <2>7, <3>2 DEF FilesOK
    <3>3. QED
      BY <3>1, <3>2
  <2>10. QED
    BY <2>1, <2>8, <2>9 DEF FilesOK
<1>5. ASSUME NEW t \in Thread, MachineReplySignalHandler(t)
      PROVE  FilesOK'
  <2>1. /\ reply[cur] = None /\ pending[t] > 0 /\ store' = store
        /\ pending' = [pending EXCEPT ![t] = pending[t] - 1]
        /\ reply' = [reply EXCEPT ![cur] = t]
    BY <1>5 DEF MachineReplySignalHandler
  <2>2. t # Idle /\ t \in User
    BY <2>1 DEF FilesOK, User
  <2>3. pending[t] = 1 /\ ~ Replied(t)
    BY <1>1, <2>1, <2>2 DEF FilesOK
  <2>4. pending'[t] = 0 /\ \A v \in Thread \ {t} : pending'[v] = pending[v]
    BY <1>1, <2>1, <2>3
  <2>5. reply'[cur] = t /\ \A v \in Thread \ {cur} : reply'[v] = reply[v]
    BY <1>1, <2>1
  <2>6. \A v \in Thread : v # None
    BY Ids
  <2>7. \A v \in Thread \ {t} : Replied(v)' <=> Replied(v)
    BY <1>1, <2>1, <2>5, <2>6 DEF Replied
  <2>8. \A v \in User : \A x, y \in Thread : reply'[x] = v /\ reply'[y] = v => x = y
    BY <2>3, <2>5 DEF FilesOK, Replied
  <2>9. pending'[Idle] = 0 /\ ~ Replied(Idle)' /\ ~ store'.tcb[Idle].io
    BY <2>1, <2>2, <2>4, <2>7, Ids DEF FilesOK
  <2>10. ASSUME NEW v \in User
         PROVE  /\ pending'[v] <= 1
                /\ pending'[v] = 1 => ~ Replied(v)'
                /\ pending'[v] = 1 \/ Replied(v)' => store'.tcb[v].io
                /\ store'.tcb[v].io => Waits(store', v) # 0
    <3>1. CASE v = t
      BY <1>2, <2>1, <2>3, <2>4, <3>1 DEF FilesOK
    <3>2. CASE v # t
      BY <1>2, <2>1, <2>4, <2>7, <3>2 DEF FilesOK
    <3>3. QED
      BY <3>1, <3>2
  <2>11. QED
    BY <2>8, <2>9, <2>10 DEF FilesOK
<1>6. CASE MachineFileIOCallback
  <2>1. /\ reply' = [reply EXCEPT ![cur] = None] /\ pending' = pending
        /\ reply[cur] \in Thread
        /\ \A v \in Thread :
              store'.tcb[v].io = IF v = reply[cur] THEN FALSE ELSE store.tcb[v].io
    BY <1>1, <1>6, CallbackStep DEF MachineFileIOCallback
  <2>2. reply'[cur] = None /\ \A v \in Thread \ {cur} : reply'[v] = reply[v]
    BY <1>1, <2>1
  <2>3. \A v \in Thread : v # None
    BY Ids
  <2>4. \A v \in Thread : Replied(v)' => Replied(v)
    BY <2>2, <2>3 DEF Replied
  <2> PICK r \in Thread : r = reply[cur]
    BY <2>1
  <2>5. r \in User /\ pending[r] # 1 /\ ~ Replied(r)'
    <3>1. Replied(r)
      BY <1>1 DEF Replied
    <3>2. r \in User
      BY <2>1, <3>1 DEF FilesOK, User
    <3>3. pending[r] # 1
      BY <3>1, <3>2 DEF FilesOK
    <3>4. ~ \E u \in Thread : reply'[u] = r
      BY <1>1, <2>1, <2>2, <2>3, <3>2 DEF FilesOK
    <3>5. QED
      BY <3>2, <3>3, <3>4 DEF Replied
  <2>6. \A v \in User : \A x, y \in Thread : reply'[x] = v /\ reply'[y] = v => x = y
    BY <1>2, <2>2, <2>3 DEF FilesOK
  <2>7. pending'[Idle] = 0 /\ ~ Replied(Idle)' /\ ~ store'.tcb[Idle].io
    BY <2>1, <2>4, Ids DEF FilesOK
  <2>8. ASSUME NEW v \in User
        PROVE  /\ pending'[v] <= 1
               /\ pending'[v] = 1 => ~ Replied(v)'
               /\ pending'[v] = 1 \/ Replied(v)' => store'.tcb[v].io
               /\ store'.tcb[v].io => Waits(store', v) # 0
    <3>1. CASE v = r
      BY <1>1, <1>2, <2>1, <2>5, <3>1 DEF FilesOK
    <3>2. CASE v # r
      <4>1. store'.tcb[v].io = store.tcb[v].io /\ v \in Thread
        BY <1>2, <2>1, <3>2
      <4>2. QED
        BY <1>2, <1>3, <2>1, <2>4, <4>1 DEF FilesOK
    <3>3. QED
      BY <3>1, <3>2
  <2>9. QED
    BY <2>6, <2>7, <2>8 DEF FilesOK
<1>7. CASE ~ VMFile /\ ~ MachineFileIOCallback
           /\ ~ \E t \in Thread : MachineReplySignalHandler(t)
  <2>1. pending' = pending /\ reply' = reply
    BY <1>7, OtherStepsLeaveFilesAlone
  <2>2. \A t \in Thread : store'.tcb[t].io = store.tcb[t].io
    BY <1>7, OtherStepsLeaveFlagsAlone
  <2>3. \A t : Replied(t)' <=> Replied(t)
    BY <2>1 DEF Replied
  <2>4. ~ store'.tcb[Idle].io /\ \A t \in User : store'.tcb[t].io = store.tcb[t].io
    BY <1>2, <2>2, Ids DEF FilesOK
  <2>5. QED
    BY <1>3, <2>1, <2>3, <2>4 DEF FilesOK
<1>8. QED
  BY <1>4, <1>5, <1>6, <1>7

\* Without terminations of others: a file call goes on only once its own reply
\* has been applied: the result it reads is not that of an earlier call.
THEOREM FileResultsHaveArrived ==
  ASSUME "TerminateOther" \notin Calls
  PROVE  Spec => []FileResultHasArrived
<1>1. Init => FilesOK
  <2> SUFFICES ASSUME Init PROVE FilesOK
    OBVIOUS
  <2>1. \A t \in Thread : store.tcb[t] = IF t = Main THEN NewTCB("RUNNING", Normal)
                                         ELSE IF t = Idle THEN NewTCB("READY", 0)
                                         ELSE NewTCB("DEAD", Low)
    BY DEF Init, InitStore
  <2>2. \A t \in Thread : ~ store.tcb[t].io
    BY <2>1 DEF NewTCB
  <2>3. \A t \in Thread : pending[t] = 0 /\ reply[t] = None /\ t # None
    BY Ids DEF Init
  <2>4. QED
    BY <2>2, <2>3, Ids DEF FilesOK, Replied
<1>2. TypeOK /\ Sched /\ Placed /\ FilesOK /\ [Next]_vars => FilesOK'
  BY FilesStep
<1>3. TypeOK /\ Sched /\ Placed /\ FilesOK => FileResultHasArrived
  <2> SUFFICES ASSUME TypeOK, AllPlaced(store), FilesOK, frame[cur].at = "io"
               PROVE  pending[cur] = 0 /\ cur \notin {reply[u] : u \in Thread}
                      /\ ~ store.tcb[cur].io
    BY DEF Placed, FileResultHasArrived
  <2>1. cur \in Thread /\ pending \in [Thread -> Nat]
    BY Ranges DEF TypeOK
  <2>2. CASE cur \in User
    <3>1. Waits(store, cur) = 0
      BY <2>2 DEF AllPlaced, OthersPlaced, cur
    <3>2. QED
      BY <2>1, <2>2, <3>1 DEF FilesOK, Replied
  <2>3. CASE cur = Idle
    BY <2>3 DEF FilesOK, Replied
  <2>4. QED
    BY <2>1, <2>2, <2>3 DEF User
<1>4. QED
  BY <1>1, <1>2, <1>3, PlacedInvariant, PTL DEF Spec

-----------------------------------------------------------------------------
\* The entries of a thread, and the owners and queues of the mutexes.

EntriesFor(m) == {e \in Entry : e.mutex = m}

\* How many entries a thread has for a mutex, how often it is in one queue of the
\* mutex and in all three, and whether it is the owner.
Entries(s, t, m)   == Occ(s.tcb[t].entries, EntriesFor(m))
Queued(s, t, m, p) == Occ(s.mutex[m].queue[p], {t})
InQueues(s, t, m)  == Queued(s, t, m, Low) + Queued(s, t, m, Normal) + Queued(s, t, m, High)
Owns(s, t, m)      == IF s.mutex[m].owner = t THEN 1 ELSE 0

\* A thread has no more entries for a mutex than places with it: an entry is made
\* when it becomes the owner or joins a queue, and one goes when it releases.
CoveredIn(s, t, m) == Entries(s, t, m) <= InQueues(s, t, m) + Owns(s, t, m)

Covered(s) == \A t \in Thread, m \in Mutex : CoveredIn(s, t, m)

\* All of these are natural numbers.
LEMMA CountsAreNat ==
  ASSUME NEW s, WellFormed(s), NEW t \in Thread, NEW m \in Mutex
  PROVE  /\ Entries(s, t, m) \in Nat /\ Owns(s, t, m) \in Nat
         /\ \A p \in Priority : Queued(s, t, m, p) \in Nat
         /\ Low \in Priority /\ Normal \in Priority /\ High \in Priority
<1>1. /\ s.tcb[t].entries \in Seq(Entry)
      /\ \A p \in Priority : s.mutex[m].queue[p] \in Seq(User)
  BY DEF WellFormed, Store, TCB, MutexRecord
<1>2. Low \in Priority /\ Normal \in Priority /\ High \in Priority
  BY DEF Priority, Low, Normal, High
<1>3. Entries(s, t, m) \in Nat /\ \A p \in Priority : Queued(s, t, m, p) \in Nat
  <2>1. \A A : \A q \in Seq(A) : \A S : Occ(q, S) \in Nat
    BY OccNat
  <2>2. QED
    BY <1>1, <2>1 DEF Entries, Queued
<1>4. QED
  BY <1>2, <1>3 DEF Owns

\* A mutex that is free, and has nobody in its queues, is in no thread's list.
LEMMA FreeMutexHasNoEntries ==
  ASSUME NEW s, WellFormed(s), Covered(s), NEW m \in Mutex,
         s.mutex[m].owner = None, NoWaiters(s, m), NEW t \in Thread
  PROVE  Entries(s, t, m) = 0
<1>1. \A p \in Priority : Queued(s, t, m, p) = 0
  BY OccEmpty DEF NoWaiters, Queued
<1>2. Owns(s, t, m) = 0
  BY Ids DEF Owns
<1>3. Entries(s, t, m) <= 0 + 0 + 0 + 0
  BY <1>1, <1>2, CountsAreNat DEF Covered, CoveredIn, InQueues
<1>4. Entries(s, t, m) \in Nat
  BY CountsAreNat
<1>5. QED
  BY <1>3, <1>4

\* A mutex whose owner and queues are what they were covers no more entries.
LEMMA MutexStillCovers ==
  ASSUME NEW s, NEW u, WellFormed(s), WellFormed(u), Covered(s), NEW m \in Mutex,
         u.mutex[m] = s.mutex[m], NEW t \in Thread,
         Entries(u, t, m) <= Entries(s, t, m)
  PROVE  CoveredIn(u, t, m)
<1>1. Owns(u, t, m) = Owns(s, t, m) /\ \A p : Queued(u, t, m, p) = Queued(s, t, m, p)
  BY DEF Owns, Queued
<1> DEFINE n == InQueues(s, t, m) + Owns(s, t, m)
<1>2. n \in Nat
  BY CountsAreNat DEF InQueues
<1>3. Entries(s, t, m) <= n
  BY DEF Covered, CoveredIn
<1> HIDE DEF n
<1>4. Entries(u, t, m) <= n
  BY <1>2, <1>3, CountsAreNat
<1>5. QED
  BY <1>1, <1>4 DEF n, CoveredIn, InQueues

\* AddMutex() makes one entry.
LEMMA AddMutexEntries ==
  ASSUME NEW s, WellFormed(s), NEW t \in Thread, NEW m \in Mutex, NEW w \in BOOLEAN,
         NEW v \in Thread, NEW k \in Mutex
  PROVE  Entries(AddMutex(s, t, m, w), v, k) =
           Entries(s, v, k) + (IF v = t /\ k = m THEN 1 ELSE 0)
<1> DEFINE e == [mutex |-> m, waiting |-> w]
           q == s.tcb[t].entries
           u == AddMutex(s, t, m, w)
<1>1. e \in Entry /\ (e \in EntriesFor(k) <=> k = m)
  BY DEF Entry, EntriesFor
<1>2. q \in Seq(Entry)
  BY DEF WellFormed, Store, TCB
<1>3. u.tcb[v].entries = IF v = t THEN Append(q, e) ELSE s.tcb[v].entries
  BY DEF AddMutex, WellFormed, Store, TCB
<1> HIDE DEF u, e
<1>4. Occ(Append(q, e), EntriesFor(k)) = Occ(q, EntriesFor(k)) + (IF k = m THEN 1 ELSE 0)
  BY <1>1, <1>2, OccAppend
<1>5. Entries(s, v, k) \in Nat
  BY CountsAreNat
<1>6. QED
  BY <1>3, <1>4, <1>5 DEF Entries, u

\* setWaitingOnMutex() makes none and takes none.
LEMMA SetWaitingEntries ==
  ASSUME NEW s, WellFormed(s), NEW t \in Thread, NEW w \in BOOLEAN,
         NEW v \in Thread, NEW k \in Mutex
  PROVE  Entries(SetWaitingOnMutex(s, t, w), v, k) = Entries(s, v, k)
<1> DEFINE q == s.tcb[t].entries
           n == Len(q)
           r == [q EXCEPT ![n].waiting = w]
           u == SetWaitingOnMutex(s, t, w)
<1>1. q \in Seq(Entry) /\ \A i \in DOMAIN q : q[i] \in Entry
  <2>1. q \in Seq(Entry)
    BY DEF WellFormed, Store, TCB
  <2>2. QED
    BY <2>1, LenProperties, ElementOfSeq
<1>2. DOMAIN r = DOMAIN q /\ \A i \in DOMAIN q : r[i] \in EntriesFor(k) <=> q[i] \in EntriesFor(k)
  BY <1>1 DEF EntriesFor, Entry
<1>3. u.tcb[v].entries = IF v = t /\ n # 0 THEN r ELSE s.tcb[v].entries
  BY DEF SetWaitingOnMutex, WellFormed, Store, TCB
<1> HIDE DEF u, r
<1>4. Occ(r, EntriesFor(k)) = Occ(q, EntriesFor(k))
  BY <1>2, OccSame
<1>5. QED
  BY <1>3, <1>4 DEF Entries, u

\* removeMutex() takes one, if there is one.
LEMMA RemoveMutexEntries ==
  ASSUME NEW s, WellFormed(s), NEW t \in Thread, NEW m \in Mutex,
         NEW v \in Thread, NEW k \in Mutex
  PROVE  LET u == RemoveMutex(s, t, m)
         IN  /\ Entries(u, v, k) <= Entries(s, v, k)
             /\ v = t /\ k = m => Entries(u, v, k) = 0 \/ Entries(u, v, k) = Entries(s, v, k) - 1
<1> DEFINE q == s.tcb[t].entries
           i == CHOOSE i \in 1..Len(q) : IsFirstEntry(q, m, i)
           r == RemoveAt(q, i)
           u == RemoveMutex(s, t, m)
           P == {j \in 1..Len(q) : q[j].mutex = m}
<1>1. /\ q \in Seq(Entry) /\ Len(q) \in Nat /\ DOMAIN q = 1..Len(q)
      /\ \A j \in 1..Len(q) : q[j] \in Entry
  <2>1. q \in Seq(Entry)
    BY DEF WellFormed, Store, TCB
  <2>2. QED
    BY <2>1, LenProperties, ElementOfSeq
<1>2. Entries(s, v, k) \in Nat
  BY CountsAreNat
<1>3. CASE P = {}
  <2>1. u = s
    BY <1>3 DEF RemoveMutex, IsFirstEntry
  <2>2. \A j \in DOMAIN q : q[j] \notin EntriesFor(m)
    BY <1>1, <1>3 DEF EntriesFor
  <2>3. Occ(q, EntriesFor(m)) = 0
    <3>1. \A A : \A f \in Seq(A) : \A S : (\A j \in DOMAIN f : f[j] \notin S) => Occ(f, S) = 0
      BY OccNat
    <3> HIDE DEF q
    <3>2. QED
      BY <1>1, <2>2, <3>1
  <2> HIDE DEF u, P
  <2>4. QED
    BY <1>2, <2>1, <2>3 DEF u, Entries
<1>4. CASE P # {}
  <2>1. \E j \in 1..Len(q) : IsFirstEntry(q, m, j)
    <3>1. P \in SUBSET Nat
      BY <1>1
    <3>2. PICK x \in P : \A y \in P : x <= y
      BY <1>4, <3>1, FirstPosition
    <3>3. IsFirstEntry(q, m, x)
      <4> SUFFICES ASSUME NEW j \in 1..(x - 1) PROVE q[j].mutex # m
        BY DEF IsFirstEntry
      <4>1. j \in 1..Len(q) /\ ~ (x <= j)
        BY <1>1
      <4>2. QED
        BY <3>2, <4>1
    <3>4. QED
      BY <3>3
  <2>2. i \in 1..Len(q) /\ q[i].mutex = m
    BY <2>1 DEF IsFirstEntry
  <2>3. u = [s EXCEPT !.tcb[t].entries = r]
    BY <2>1 DEF RemoveMutex
  <2> HIDE DEF r, i, P, u
  <2>4. u.tcb[v].entries = IF v = t THEN r ELSE s.tcb[v].entries
    BY <2>3 DEF WellFormed, Store, TCB
  <2>5. q[i] \in EntriesFor(k) <=> k = m
    BY <1>1, <2>2 DEF EntriesFor
  <2>6. Occ(r, EntriesFor(k)) = Occ(q, EntriesFor(k)) - (IF k = m THEN 1 ELSE 0)
    BY <1>1, <2>2, <2>5, OccRemoveAt DEF r
  <2>7. QED
    BY <1>2, <2>4, <2>6 DEF u, Entries
<1>5. QED
  BY <1>3, <1>4

\* release() hands the mutex to the first thread of a queue, or leaves it free, and
\* no entry changes after removeMutex().
LEMMA MutexReleaseHandsOn ==
  ASSUME NEW s, WellFormed(s), Tidy(s), Alive(s), NEW m \in Mutex
  PROVE  LET u == MutexRelease(s, m)
             f == RemoveMutex(s, s.mutex[m].owner, m)
             q == s.mutex[m].queue
         IN  /\ \A v \in Thread : u.tcb[v].entries = f.tcb[v].entries
             /\ NoWaiters(s, m) => u.mutex[m].owner = None /\ u.mutex[m].queue = q
             /\ ~ NoWaiters(s, m) =>
                  \E p \in Priority :
                    /\ q[p] # <<>> /\ u.mutex[m].owner = Head(q[p])
                    /\ u.mutex[m].queue = [q EXCEPT ![p] = Tail(q[p])]
<1> DEFINE old   == s.mutex[m].owner
           freed == RemoveMutex(s, old, m)
           u     == MutexRelease(s, m)
           q     == s.mutex[m].queue
<1>1. s.mutex[m] \in MutexRecord /\ q \in [Priority -> Seq(User)]
  BY DEF WellFormed, Store, MutexRecord
<1>2. WellFormed(freed) /\ freed.mutex = s.mutex /\ Still(s, freed)
  <2>1. CASE old = None
    BY <2>1, RemoveMutexFromNobody DEF Still
  <2>2. CASE old \in Thread
    BY <2>2, RemoveMutexWF, RemoveMutexStill DEF SameButTCBs
  <2>3. QED
    BY <1>1, <2>1, <2>2, Ids DEF MutexRecord
<1>3. CASE NoWaiters(s, m)
  <2>1. u = [freed EXCEPT !.mutex[m].owner = None]
    BY <1>3 DEF MutexRelease
  <2> HIDE DEF freed, u, q
  <2>2. u.mutex[m].owner = None /\ u.mutex[m].queue = q /\ u.tcb = freed.tcb
    BY <1>1, <1>2, <2>1 DEF WellFormed, Store, MutexRecord, q
  <2>3. QED
    BY <1>3, <2>2 DEF freed, u, q
<1>4. CASE ~ NoWaiters(s, m)
  <2> DEFINE p   == WaitingLevel(s, m)
             new == Head(q[p])
             g   == GrantTo(freed, m, new, p)
  <2>1. p \in Priority /\ q[p] # <<>>
    BY <1>4, WaitingLevelExists
  <2>2. q[p] \in Seq(User)
    BY <1>1, <2>1
  <2>3. new \in User /\ new \in Thread /\ Tail(q[p]) \in Seq(User)
    BY <2>1, <2>2, HeadTailProperties, Ids
  <2>4. u \in {ScheduleThreadEarly(g, new), RemoveFromWaitlistEarly(g, new)}
    BY <1>4 DEF MutexRelease
  <2> HIDE DEF freed, new, p, u, q
  <2>5. WellFormed(g) /\ Still(s, g)
    <3>1. freed.mutex[m].queue[p] = q[p]
      BY <1>2 DEF q
    <3>2. WellFormed(g)
      BY <1>2, <2>1, <2>3, <3>1, GrantToWF
    <3>3. Still(freed, g)
      BY <1>2, <2>3, GrantToStill
    <3> HIDE DEF g
    <3>4. QED
      BY <1>2, <3>2, <3>3, StillTransitive
  <2>6. /\ g.mutex[m].owner = new /\ g.mutex[m].queue = [q EXCEPT ![p] = Tail(q[p])]
        /\ \A v \in Thread : g.tcb[v].entries = freed.tcb[v].entries
    <3>1. g.mutex = [freed.mutex EXCEPT ![m] = [freed.mutex[m] EXCEPT
                       !.owner = new, !.queue = [q EXCEPT ![p] = Tail(q[p])]]]
      BY <1>1, <1>2, <2>1 DEF GrantTo, WellFormed, Store, MutexRecord, q
    <3>2. g.tcb = [freed.tcb EXCEPT ![new].ticks = 0]
      BY <1>2 DEF GrantTo, WellFormed, Store
    <3> HIDE DEF g
    <3>3. g.mutex[m].owner = new /\ g.mutex[m].queue = [q EXCEPT ![p] = Tail(q[p])]
      BY <1>1, <1>2, <3>1 DEF WellFormed, Store, MutexRecord
    <3>4. \A v \in Thread : g.tcb[v].entries = freed.tcb[v].entries
      BY <1>2, <3>2 DEF WellFormed, Store, TCB
    <3>5. QED
      BY <3>3, <3>4
  <2>7. Tidy(g) /\ Alive(g)
    BY <2>5, StillSteady DEF Steady
  <2> HIDE DEF g
  <2>8. SameData(g, u) /\ SameMutexes(g, u)
    BY <2>3, <2>4, <2>5, <2>7, ScheduleThreadEarlySteady, ScheduleThreadEarlyWF,
       RemoveFromWaitlistEarlySteady, RemoveFromWaitlistEarlyWF
  <2>9. /\ u.mutex[m].owner = new /\ u.mutex[m].queue = [q EXCEPT ![p] = Tail(q[p])]
        /\ \A v \in Thread : u.tcb[v].entries = freed.tcb[v].entries
    BY <2>6, <2>8 DEF SameData, SameMutexes
  <2>10. QED
    BY <1>4, <2>1, <2>9 DEF freed, new, u, q
<1>5. QED
  BY <1>3, <1>4

\* A thread that joins one queue of a mutex, or leaves one, is in the queues once
\* more, or once less.
LEMMA OneQueueChanges ==
  ASSUME NEW s, WellFormed(s), NEW u, WellFormed(u), NEW t \in Thread, NEW m \in Mutex,
         NEW p \in Priority, NEW d \in Int,
         Queued(u, t, m, p) = Queued(s, t, m, p) + d,
         \A r \in Priority \ {p} : Queued(u, t, m, r) = Queued(s, t, m, r)
  PROVE  /\ InQueues(s, t, m) \in Nat /\ InQueues(u, t, m) \in Nat
         /\ InQueues(u, t, m) = InQueues(s, t, m) + d
<1> DEFINE a(r) == Queued(s, t, m, r)
           b(r) == Queued(u, t, m, r)
<1>1. \A r \in Priority : a(r) \in Nat /\ b(r) \in Nat
  BY CountsAreNat
<1>2. b(p) = a(p) + d /\ \A r \in Priority \ {p} : b(r) = a(r)
  OBVIOUS
<1>3. InQueues(s, t, m) = a(Low) + a(Normal) + a(High)
  BY DEF InQueues
<1>4. InQueues(u, t, m) = b(Low) + b(Normal) + b(High)
  BY DEF InQueues
<1> HIDE DEF a, b
<1>5. p = 1 \/ p = 2 \/ p = 3
  BY DEF Priority, Low, High
<1>6. /\ a(1) \in Nat /\ a(2) \in Nat /\ a(3) \in Nat
      /\ b(1) \in Nat /\ b(2) \in Nat /\ b(3) \in Nat
  BY <1>1 DEF Priority, Low, High
<1>7. /\ InQueues(s, t, m) = a(1) + a(2) + a(3)
      /\ InQueues(u, t, m) = b(1) + b(2) + b(3)
  BY <1>3, <1>4 DEF Low, Normal, High
<1>8. CASE p = 1
  BY <1>2, <1>6, <1>7, <1>8 DEF Priority, Low, High
<1>9. CASE p = 2
  BY <1>2, <1>6, <1>7, <1>9 DEF Priority, Low, High
<1>10. CASE p = 3
  BY <1>2, <1>6, <1>7, <1>10 DEF Priority, Low, High
<1>11. QED
  BY <1>5, <1>8, <1>9, <1>10

\* release() takes nobody out of the queues but the new owner, once.
LEMMA ReleaseInQueues ==
  ASSUME NEW s, WellFormed(s), Tidy(s), Alive(s), NEW m \in Mutex, NEW v \in Thread
  PROVE  LET u == MutexRelease(s, m)
         IN  /\ InQueues(s, v, m) \in Nat /\ InQueues(u, v, m) \in Nat
             /\ InQueues(u, v, m) = InQueues(s, v, m) - Owns(u, v, m)
<1> DEFINE u == MutexRelease(s, m)
           q == s.mutex[m].queue
<1>1. WellFormed(u)
  BY MutexReleaseEffect
<1>2. /\ NoWaiters(s, m) => u.mutex[m].owner = None /\ u.mutex[m].queue = q
      /\ ~ NoWaiters(s, m) =>
           \E p \in Priority :
             /\ q[p] # <<>> /\ u.mutex[m].owner = Head(q[p])
             /\ u.mutex[m].queue = [q EXCEPT ![p] = Tail(q[p])]
  BY MutexReleaseHandsOn
<1>3. q \in [Priority -> Seq(User)]
  BY DEF WellFormed, Store, MutexRecord
<1> HIDE DEF u
<1>4. CASE NoWaiters(s, m)
  <2>1. \A p \in Priority : Queued(s, v, m, p) = 0 /\ Queued(u, v, m, p) = 0
    BY <1>2, <1>4, OccEmpty DEF NoWaiters, Queued
  <2>2. InQueues(s, v, m) = 0 /\ InQueues(u, v, m) = 0
    BY <2>1, CountsAreNat DEF InQueues
  <2>3. Owns(u, v, m) = 0
    BY <1>2, <1>4, Ids DEF Owns
  <2>4. QED
    BY <2>2, <2>3 DEF u
<1>5. CASE ~ NoWaiters(s, m)
  <2>1. PICK p \in Priority : /\ q[p] # <<>> /\ u.mutex[m].owner = Head(q[p])
                              /\ u.mutex[m].queue = [q EXCEPT ![p] = Tail(q[p])]
    BY <1>2, <1>5
  <2> DEFINE d == IF v = Head(q[p]) THEN 1 ELSE 0
  <2>2. Queued(u, v, m, p) = Queued(s, v, m, p) - d
    <3> DEFINE x == q[p]
    <3>1. x \in Seq(User) /\ x # <<>>
      BY <1>3, <2>1
    <3>2. Queued(u, v, m, p) = Occ(Tail(x), {v}) /\ Queued(s, v, m, p) = Occ(x, {v})
      BY <1>3, <2>1 DEF Queued
    <3> HIDE DEF x, q
    <3>3. Occ(Tail(x), {v}) = Occ(x, {v}) - (IF Head(x) \in {v} THEN 1 ELSE 0)
      BY <3>1, OccTail
    <3>4. QED
      BY <3>2, <3>3 DEF x
  <2>3. \A r \in Priority \ {p} : Queued(u, v, m, r) = Queued(s, v, m, r)
    BY <1>3, <2>1 DEF Queued
  <2>4. d \in {0, 1} /\ Owns(u, v, m) = d
    BY <2>1 DEF Owns
  <2> HIDE DEF d, q
  <2>5. -d \in Int /\ Queued(u, v, m, p) = Queued(s, v, m, p) + (-d)
    BY <1>1, <2>2, <2>4, CountsAreNat
  <2>6. /\ InQueues(s, v, m) \in Nat /\ InQueues(u, v, m) \in Nat
        /\ InQueues(u, v, m) = InQueues(s, v, m) + (-d)
    BY <1>1, <2>3, <2>5, OneQueueChanges
  <2>7. QED
    BY <2>4, <2>6 DEF u
<1>6. QED
  BY <1>4, <1>5

\* release() takes an entry from the old owner with its ownership, and makes the
\* new owner's place in a queue its ownership.
LEMMA ReleaseCovers ==
  ASSUME NEW s, WellFormed(s), Tidy(s), Alive(s), Covered(s), NEW m \in Mutex
  PROVE  Covered(MutexRelease(s, m))
<1> DEFINE old == s.mutex[m].owner
           f   == RemoveMutex(s, old, m)
           u   == MutexRelease(s, m)
<1>1. /\ WellFormed(u) /\ \A k \in Mutex \ {m} : u.mutex[k] = s.mutex[k]
  BY MutexReleaseEffect DEF SameOtherMutexes
<1>2. old \in Thread \/ (old = None /\ f = s)
  <2>1. old \in User \union {None}
    BY DEF WellFormed, Store, MutexRecord
  <2>2. QED
    BY <2>1, Ids, RemoveMutexFromNobody
<1>3. \A v \in Thread : u.tcb[v].entries = f.tcb[v].entries
  BY MutexReleaseHandsOn
<1> SUFFICES ASSUME NEW v \in Thread, NEW k \in Mutex PROVE CoveredIn(u, v, k)
  BY DEF Covered
<1>4. /\ Entries(u, v, k) <= Entries(s, v, k)
      /\ v = old /\ k = m => Entries(u, v, k) = 0 \/ Entries(u, v, k) = Entries(s, v, k) - 1
  <2>1. Entries(u, v, k) = Entries(f, v, k)
    BY <1>3 DEF Entries
  <2> HIDE DEF f, u, old
  <2>2. CASE old \in Thread
    BY <2>1, <2>2, RemoveMutexEntries DEF f
  <2>3. CASE old = None /\ f = s
    BY <2>1, <2>3, CountsAreNat, Ids
  <2>4. QED
    BY <1>2, <2>2, <2>3
<1> HIDE DEF f, u
<1>5. CASE k # m
  BY <1>1, <1>4, <1>5, MutexStillCovers
<1>6. CASE k = m
  <2>1. /\ Entries(s, v, m) \in Nat /\ Entries(u, v, m) \in Nat
        /\ Entries(s, v, m) <= InQueues(s, v, m) + Owns(s, v, m)
        /\ Owns(s, v, m) = (IF v = old THEN 1 ELSE 0)
    BY <1>1, CountsAreNat DEF Covered, CoveredIn, Owns
  <2>2. /\ InQueues(s, v, m) \in Nat /\ InQueues(u, v, m) \in Nat
        /\ InQueues(u, v, m) = InQueues(s, v, m) - Owns(u, v, m)
    BY ReleaseInQueues DEF u
  <2>3. Owns(u, v, m) \in Nat
    BY <1>1, CountsAreNat
  <2> HIDE DEF old
  <2>4. Entries(u, v, m) <= InQueues(s, v, m)
    BY <1>4, <1>6, <2>1, <2>2
  <2>5. QED
    BY <1>6, <2>1, <2>2, <2>3, <2>4 DEF CoveredIn
<1>7. QED
  BY <1>5, <1>6

\* What a thread that queues for a mutex adds: one entry, and one place.
LEMMA EnqueueCurrentEntries ==
  ASSUME NEW s, WellFormed(s), s.current # Idle, NEW m \in Mutex
  PROVE  LET u == EnqueueCurrent(s, m)
             t == s.current
             q == s.mutex[m].queue
             p == s.tcb[t].prio
         IN  /\ \A v \in Thread, k \in Mutex :
                  Entries(u, v, k) = Entries(s, v, k) + (IF v = t /\ k = m THEN 1 ELSE 0)
             /\ u.mutex[m].queue = [q EXCEPT ![p] = Append(q[p], t)]
             /\ t \in User /\ p \in Priority
<1> DEFINE t == s.current
           p == s.tcb[t].prio
           q == s.mutex[m].queue
           b == SetWaitingOnMutex(s, t, TRUE)
           a == AddMutex(b, t, m, TRUE)
           u == EnqueueCurrent(s, m)
<1>1. t \in User /\ t \in Thread /\ p \in Priority
  BY DEF WellFormed, Store, User
<1>2. WellFormed(b) /\ SameButTCBs(s, b)
  BY <1>1, SetWaitingOnMutexWF
<1>3. \A v \in Thread, k \in Mutex : Entries(b, v, k) = Entries(s, v, k)
  <2>1. PICK w \in BOOLEAN : w = TRUE
    OBVIOUS
  <2>2. b = SetWaitingOnMutex(s, t, w)
    BY <2>1
  <2> HIDE DEF b, t
  <2>3. QED
    BY <1>1, <2>2, SetWaitingEntries
<1>4. u = [a EXCEPT !.mutex[m].queue[p] = Append(@, t)]
  BY DEF EnqueueCurrent
<1> HIDE DEF b
<1>5. WellFormed(a) /\ SameButTCBs(b, a)
  BY <1>1, <1>2, AddMutexWF
<1>6. \A v \in Thread, k \in Mutex :
        Entries(a, v, k) = Entries(b, v, k) + (IF v = t /\ k = m THEN 1 ELSE 0)
  <2>1. PICK w \in BOOLEAN : w = TRUE
    OBVIOUS
  <2>2. a = AddMutex(b, t, m, w)
    BY <2>1
  <2> HIDE DEF a, t
  <2>3. QED
    BY <1>1, <1>2, <2>2, AddMutexEntries
<1> HIDE DEF a, u, p, t
<1>7. u.tcb = a.tcb /\ u.mutex[m].queue = [a.mutex[m].queue EXCEPT ![p] = Append(@, t)]
  <2> DEFINE x == a.mutex[m].queue
             r == [a.mutex[m] EXCEPT !.queue = [x EXCEPT ![p] = Append(x[p], t)]]
  <2>1. a.mutex \in [Mutex -> MutexRecord] /\ a.mutex[m] \in MutexRecord
    BY <1>5 DEF WellFormed, Store
  <2>2. r.queue = [x EXCEPT ![p] = Append(x[p], t)]
    BY <2>1 DEF MutexRecord
  <2>3. u.tcb = a.tcb /\ u.mutex = [a.mutex EXCEPT ![m] = r]
    BY <1>4, <1>5 DEF WellFormed, Store
  <2> HIDE DEF r
  <2>4. u.mutex[m] = r
    BY <2>1, <2>3
  <2>5. QED
    BY <2>2, <2>3, <2>4
<1>8. a.mutex[m].queue = q
  BY <1>2, <1>5 DEF SameButTCBs
<1>9. \A v \in Thread, k \in Mutex : Entries(u, v, k) = Entries(a, v, k)
  BY <1>7 DEF Entries
<1>10. \A v \in Thread, k \in Mutex :
         Entries(u, v, k) = Entries(s, v, k) + (IF v = t /\ k = m THEN 1 ELSE 0)
  BY <1>3, <1>6, <1>9
<1>11. u.mutex[m].queue = [q EXCEPT ![p] = Append(q[p], t)]
  BY <1>7, <1>8
<1>12. QED
  BY <1>1, <1>10, <1>11 DEF u, p, t

\* lock() queues nobody but the caller, once, when it finds the mutex taken and may wait.
LEMMA LockInQueues ==
  ASSUME NEW s, WellFormed(s), s.current # Idle, NEW m \in Mutex,
         NEW n \in Nat \union {ImmediateTimeout}, NEW v \in Thread
  PROVE  LET u == MutexLock(s, m, n)
             queues == v = s.current /\ s.mutex[m].owner # None /\ n # ImmediateTimeout
         IN  /\ InQueues(s, v, m) \in Nat /\ InQueues(u, v, m) \in Nat
             /\ InQueues(u, v, m) = InQueues(s, v, m) + (IF queues THEN 1 ELSE 0)
<1> DEFINE u == MutexLock(s, m, n)
           t == s.current
           q == s.mutex[m].queue
<1>1. t \in User /\ t \in Thread
  BY DEF WellFormed, Store, User
<1>2. WellFormed(u)
  BY MutexLockEffect
<1>3. ASSUME u.mutex[m].queue = q
      PROVE  /\ InQueues(s, v, m) \in Nat /\ InQueues(u, v, m) \in Nat
             /\ InQueues(u, v, m) = InQueues(s, v, m)
  <2>1. \A p : Queued(u, v, m, p) = Queued(s, v, m, p)
    BY <1>3 DEF Queued
  <2>2. QED
    BY <2>1, CountsAreNat DEF InQueues
<1>4. CASE s.mutex[m].owner = None
  <2> DEFINE a == AddMutex(s, t, m, FALSE)
  <2>1. u = [a EXCEPT !.mutex[m].owner = t]
    BY <1>4 DEF MutexLock
  <2>2. WellFormed(a) /\ SameButTCBs(s, a)
    BY <1>1, AddMutexWF
  <2> HIDE DEF a, u, t
  <2>3. u.mutex[m].queue = a.mutex[m].queue
    BY <2>1, <2>2 DEF WellFormed, Store, MutexRecord
  <2>4. u.mutex[m].queue = q
    BY <2>2, <2>3 DEF SameButTCBs
  <2> HIDE DEF q
  <2>5. QED
    BY <1>3, <1>4, <2>4 DEF u
<1>5. CASE s.mutex[m].owner # None /\ n = ImmediateTimeout
  <2>1. u = s
    BY <1>5 DEF MutexLock
  <2> HIDE DEF q, u
  <2>2. QED
    BY <1>3, <1>5, <2>1 DEF u, q
<1>6. CASE s.mutex[m].owner # None /\ n # ImmediateTimeout
  <2> DEFINE e == EnqueueCurrent(s, m)
             p == s.tcb[t].prio
             w == IF n = InfiniteTimeout THEN Forever ELSE n
             d == IF v = t THEN 1 ELSE 0
  <2>1. WellFormed(e) /\ e.current = s.current
    BY EnqueueCurrentEffect
  <2>2. e.mutex[m].queue = [q EXCEPT ![p] = Append(q[p], t)] /\ p \in Priority
    BY EnqueueCurrentEntries
  <2>3. w \in Nat \union {Forever} /\ u = SleepCurrentThread(e, w)
    BY <1>6 DEF MutexLock
  <2>4. q \in [Priority -> Seq(User)]
    BY DEF WellFormed, Store, MutexRecord
  <2> HIDE DEF e, w, u, q, p, t
  <2>5. u.mutex[m] = e.mutex[m]
    BY <2>1, <2>3, SleepCurrentThreadWF DEF SameMutexes
  <2>6. Queued(u, v, m, p) = Queued(s, v, m, p) + d
    <3> DEFINE x == q[p]
    <3>1. x \in Seq(User)
      BY <2>2, <2>4
    <3>2. Queued(u, v, m, p) = Occ(Append(x, t), {v}) /\ Queued(s, v, m, p) = Occ(x, {v})
      BY <2>2, <2>4, <2>5 DEF Queued, q
    <3> HIDE DEF x
    <3>3. Occ(Append(x, t), {v}) = Occ(x, {v}) + (IF t \in {v} THEN 1 ELSE 0)
      BY <1>1, <3>1, OccAppend
    <3>4. QED
      BY <3>2, <3>3
  <2>7. \A r \in Priority \ {p} : Queued(u, v, m, r) = Queued(s, v, m, r)
    BY <2>2, <2>4, <2>5 DEF Queued, q
  <2>8. d \in Int
    OBVIOUS
  <2>9. d = IF v = s.current /\ s.mutex[m].owner # None /\ n # ImmediateTimeout THEN 1 ELSE 0
    BY <1>6 DEF t
  <2> HIDE DEF d
  <2>10. /\ InQueues(s, v, m) \in Nat /\ InQueues(u, v, m) \in Nat
         /\ InQueues(u, v, m) = InQueues(s, v, m) + d
    BY <1>2, <2>2, <2>6, <2>7, <2>8, OneQueueChanges DEF u
  <2>11. QED
    BY <2>9, <2>10 DEF u
<1>7. QED
  BY <1>4, <1>5, <1>6

\* lock() adds an entry with the ownership, or with a place in a queue.
LEMMA LockCovers ==
  ASSUME NEW s, WellFormed(s), Tidy(s), Alive(s), Covered(s), s.current # Idle,
         NEW m \in Mutex, NEW n \in Nat \union {ImmediateTimeout}
  PROVE  Covered(MutexLock(s, m, n))
<1> DEFINE u == MutexLock(s, m, n)
           t == s.current
<1>1. t \in User /\ t \in Thread
  BY DEF WellFormed, Store, User
<1>2. WellFormed(u) /\ \A k \in Mutex \ {m} : u.mutex[k] = s.mutex[k]
  BY MutexLockEffect DEF SameOtherMutexes
<1>3. CASE s.mutex[m].owner = None
  <2> DEFINE a == AddMutex(s, t, m, FALSE)
  <2>1. u = [a EXCEPT !.mutex[m].owner = t]
    BY <1>3 DEF MutexLock
  <2>2. WellFormed(a) /\ SameButTCBs(s, a)
    BY <1>1, AddMutexWF
  <2>3. \A v \in Thread, k \in Mutex :
          Entries(a, v, k) = Entries(s, v, k) + (IF v = t /\ k = m THEN 1 ELSE 0)
    <3>1. PICK w \in BOOLEAN : w = FALSE
      OBVIOUS
    <3>2. a = AddMutex(s, t, m, w)
      BY <3>1
    <3> HIDE DEF a, t
    <3>3. QED
      BY <1>1, <3>2, AddMutexEntries
  <2> HIDE DEF a, u, t
  <2>4. u.tcb = a.tcb /\ u.mutex[m].owner = t
    BY <2>1, <2>2 DEF WellFormed, Store, MutexRecord
  <2> SUFFICES ASSUME NEW v \in Thread, NEW k \in Mutex PROVE CoveredIn(u, v, k)
    BY DEF Covered, u
  <2>5. Entries(u, v, k) = Entries(s, v, k) + (IF v = t /\ k = m THEN 1 ELSE 0)
    BY <2>3, <2>4 DEF Entries
  <2>6. CASE k # m
    BY <1>2, <2>5, <2>6, CountsAreNat, MutexStillCovers
  <2>7. CASE k = m
    <3>1. InQueues(u, v, m) = InQueues(s, v, m) /\ InQueues(s, v, m) \in Nat
      BY <1>3, LockInQueues DEF u
    <3>2. Owns(s, v, m) = 0 /\ Owns(u, v, m) = (IF v = t THEN 1 ELSE 0)
      BY <1>3, <2>4, Ids DEF Owns
    <3>3. Entries(s, v, m) \in Nat /\ Entries(s, v, m) <= InQueues(s, v, m) + Owns(s, v, m)
      BY CountsAreNat DEF Covered, CoveredIn
    <3>4. QED
      BY <2>5, <2>7, <3>1, <3>2, <3>3 DEF CoveredIn
  <2>8. QED
    BY <2>6, <2>7
<1>4. CASE s.mutex[m].owner # None /\ n = ImmediateTimeout
  BY <1>4 DEF MutexLock
<1>5. CASE s.mutex[m].owner # None /\ n # ImmediateTimeout
  <2> DEFINE e == EnqueueCurrent(s, m)
             w == IF n = InfiniteTimeout THEN Forever ELSE n
  <2>1. /\ WellFormed(e) /\ SameOtherMutexes(s, e, m) /\ Tidy(e) /\ Alive(e)
        /\ e.mutex[m].owner = s.mutex[m].owner /\ e.current = s.current
    BY EnqueueCurrentEffect, EnqueueCurrentStill, StillSteady DEF Steady
  <2>2. \A v \in Thread, k \in Mutex :
          Entries(e, v, k) = Entries(s, v, k) + (IF v = t /\ k = m THEN 1 ELSE 0)
    BY EnqueueCurrentEntries
  <2>3. w \in Nat \union {Forever} /\ u = SleepCurrentThread(e, w)
    BY <1>5 DEF MutexLock
  <2> HIDE DEF e, w, u, t
  <2>4. SameData(e, u) /\ SameMutexes(e, u)
    BY <2>1, <2>3, SleepCurrentThreadSteady, SleepCurrentThreadWF
  <2> SUFFICES ASSUME NEW v \in Thread, NEW k \in Mutex PROVE CoveredIn(u, v, k)
    BY DEF Covered, u
  <2>5. Entries(u, v, k) = Entries(s, v, k) + (IF v = t /\ k = m THEN 1 ELSE 0)
    <3>1. Entries(u, v, k) = Entries(e, v, k)
      BY <2>4 DEF Entries, SameData
    <3>2. QED
      BY <2>2, <3>1
  <2>6. CASE k # m
    BY <1>2, <2>5, <2>6, CountsAreNat, MutexStillCovers DEF u
  <2>7. CASE k = m
    <3> DEFINE d == IF v = t THEN 1 ELSE 0
    <3>1. u.mutex[m] = e.mutex[m]
      BY <2>4 DEF SameMutexes
    <3>2. Owns(u, v, m) = Owns(s, v, m)
      BY <2>1, <3>1 DEF Owns
    <3>3. d \in Int
      OBVIOUS
    <3>4. Entries(u, v, m) = Entries(s, v, m) + d
      BY <2>5, <2>7
    <3>5. /\ InQueues(s, v, m) \in Nat /\ InQueues(u, v, m) \in Nat
          /\ InQueues(u, v, m) = InQueues(s, v, m) + d
      BY <1>5, LockInQueues DEF u, t
    <3> HIDE DEF d
    <3>6. Entries(s, v, m) \in Nat /\ Owns(s, v, m) \in Nat
          /\ Entries(s, v, m) <= InQueues(s, v, m) + Owns(s, v, m)
      BY CountsAreNat DEF Covered, CoveredIn
    <3>7. QED
      BY <2>7, <3>2, <3>3, <3>4, <3>5, <3>6 DEF CoveredIn
  <2>8. QED
    BY <2>6, <2>7
<1>6. QED
  BY <1>3, <1>4, <1>5

\* Settling a sleeping owner unmarks its last entry, and leaves the others' lists alone.
LEMMA SettleLists ==
  ASSUME NEW s, WellFormed(s), NEW t \in User, NEW v \in Thread
  PROVE  Settle(s, t).tcb[v].entries \in
           {s.tcb[v].entries, SetWaitingOnMutex(s, t, FALSE).tcb[v].entries}
<1> DEFINE a == SetWaitingOnMutex(s, t, FALSE)
           b == Sleep(a, t, 0)
           u == Settle(s, t)
<1>1. t \in Thread
  BY Ids
<1>2. WellFormed(a)
  BY <1>1, SetWaitingOnMutexWF
<1>3. u \in {s, b}
  BY DEF Settle
<1> HIDE DEF a, u
<1>4. b.tcb[v].entries = a.tcb[v].entries
  <2> DEFINE r == [a.tcb[t] EXCEPT !.state = "WAITING", !.ticks = 0]
  <2>1. a.tcb[t] \in TCB /\ a.tcb \in [Thread -> TCB]
    BY <1>1, <1>2 DEF WellFormed, Store
  <2>2. r.entries = a.tcb[t].entries
    BY <2>1 DEF TCB
  <2>3. b.tcb = [a.tcb EXCEPT ![t] = r]
    BY <1>1, <1>2, <2>1 DEF Sleep, WellFormed, Store
  <2> HIDE DEF b, r
  <2>4. QED
    BY <1>1, <2>1, <2>2, <2>3
<1> HIDE DEF b
<1>5. QED
  BY <1>3, <1>4 DEF a, u

\* So it makes no entry and takes none.
LEMMA SettleEntries ==
  ASSUME NEW s, WellFormed(s), NEW t \in User, NEW v \in Thread, NEW k \in Mutex
  PROVE  Entries(Settle(s, t), v, k) = Entries(s, v, k)
<1> DEFINE a == SetWaitingOnMutex(s, t, FALSE)
<1>1. t \in Thread
  BY Ids
<1>2. Entries(a, v, k) = Entries(s, v, k)
  <2>1. PICK w \in BOOLEAN : w = FALSE
    OBVIOUS
  <2>2. a = SetWaitingOnMutex(s, t, w)
    BY <2>1
  <2> HIDE DEF a
  <2>3. QED
    BY <1>1, <2>2, SetWaitingEntries
<1>3. Settle(s, t).tcb[v].entries \in {s.tcb[v].entries, a.tcb[v].entries}
  BY SettleLists
<1> HIDE DEF a
<1>4. QED
  BY <1>2, <1>3 DEF Entries

\* The loop of timerEvent() changes the lists of entries by settling alone.
LEMMA TimerLists ==
  ASSUME TypeOK, TimerKeep \/ TimerCountdown \/ TimerWake
  PROVE  /\ Visited \in User
         /\ \A v \in Thread : store'.tcb[v].entries = Settle(store, Visited).tcb[v].entries
<1> DEFINE t == Visited
           a == Settle(store, t)
           i == frame[cur].arg
<1>1. Visiting /\ WellFormed(store)
  BY DEF TimerKeep, TimerCountdown, TimerWake, TypeOK
<1>2. t \in User /\ t \in Thread /\ i \in 1..Len(store.waitList)
  BY <1>1, VisitedWaits
<1>3. t = store.waitList[i]
  BY DEF Visited
<1> HIDE DEF t
<1>4. WellFormed(a) /\ SameButTCBs(store, a)
  BY <1>1, <1>2, SettleWF
<1>5. CASE TimerKeep
  BY <1>2, <1>5 DEF TimerKeep, t
<1>6. CASE TimerCountdown
  <2> DEFINE n == a.tcb[t].ticks - 1
  <2>1. store' = [a EXCEPT !.tcb[t].ticks = n]
    BY <1>6 DEF TimerCountdown, t
  <2> HIDE DEF n, a
  <2>2. \A v \in Thread : store'.tcb[v].entries = a.tcb[v].entries
    BY <1>2, <1>4, <2>1 DEF WellFormed, Store, TCB
  <2>3. QED
    BY <1>2, <2>2 DEF a, t
<1>7. CASE TimerWake
  <2>1. store' = [PushReady(SetState(a, t, "READY"), t) EXCEPT !.waitList = RemoveAt(@, i)]
    BY <1>7 DEF TimerWake, t
  <2> HIDE DEF a, i
  <2>2. i \in 1..Len(a.waitList) /\ t = a.waitList[i]
    BY <1>2, <1>3, <1>4 DEF SameButTCBs
  <2>3. SameButTCBs(a, a) /\ SameData(a, a)
    BY DEF SameButTCBs, SameData
  <2>4. Woken(a, store', t)
    BY <1>2, <1>4, <2>1, <2>2, <2>3, WakeUp
  <2>5. \A v \in Thread : store'.tcb[v].entries = a.tcb[v].entries
    BY <2>4 DEF Woken, SameData
  <2>6. QED
    BY <1>2, <2>5 DEF a, t
<1>8. QED
  BY <1>5, <1>6, <1>7

\* A step makes no entry.
NoNewEntries ==
  \A v \in Thread, k \in Mutex : Entries(store', v, k) <= Entries(store, v, k)

\* Neither does the loop of timerEvent().
LEMMA TimerAddsNoEntries ==
  ASSUME TypeOK, TimerKeep \/ TimerCountdown \/ TimerWake
  PROVE  NoNewEntries
<1>1. WellFormed(store)
  BY DEF TypeOK
<1>2. ASSUME NEW v \in Thread, NEW k \in Mutex
      PROVE  Entries(store', v, k) <= Entries(store, v, k)
  <2>1. Entries(store', v, k) = Entries(Settle(store, Visited), v, k)
    BY TimerLists DEF Entries
  <2>2. Entries(Settle(store, Visited), v, k) = Entries(store, v, k)
    BY <1>1, TimerLists, SettleEntries
  <2>3. Entries(store, v, k) \in Nat
    BY <1>1, CountsAreNat
  <2>4. QED
    BY <2>1, <2>2, <2>3
<1>3. QED
  BY <1>2 DEF NoNewEntries

\* Only an operation on a mutex changes the entries in the list of a thread, except
\* that the timer marks them and that a new thread has none.
LEMMA OtherStepsKeepEntries ==
  ASSUME TypeOK, Sched, [Next]_vars, ~ MutexStep, ~ (TimerKeep \/ TimerCountdown \/ TimerWake)
  PROVE  \A v \in Thread :
           \/ store'.tcb[v].entries = store.tcb[v].entries
           \/ VMThreadCreate /\ v = store.numThreads /\ store'.tcb[v].entries = <<>>
<1> DEFINE Kept == \A v \in Thread :
             \/ store'.tcb[v].entries = store.tcb[v].entries
             \/ VMThreadCreate /\ v = store.numThreads /\ store'.tcb[v].entries = <<>>
<1>1. /\ WellFormed(store) /\ cur \in Thread /\ User \subseteq Thread
      /\ Tidy(store) /\ Alive(store) /\ KillTargetsExist
  BY Ranges, Ids DEF TypeOK, Sched
<1>2. ASSUME \A v \in Thread : store'.tcb[v].entries = store.tcb[v].entries
      PROVE  Kept
  BY <1>2
<1>3. ASSUME store' = store PROVE Kept
  BY <1>2, <1>3
<1>4. ASSUME SameData(store, store') PROVE Kept
  BY <1>2, <1>4 DEF SameData
<1>5. CASE VMThreadCreate
  <2>1. PICK p \in Priorities : store' = InsertThread(store, p)
    BY <1>5 DEF VMThreadCreate, Finish
  <2> DEFINE n == store.numThreads
  <2>2. n \in Thread /\ p \in Priority
    BY <1>5, PrioritiesAssumption DEF VMThreadCreate
  <2>3. /\ \A v \in Thread \ {n} : store'.tcb[v] = store.tcb[v]
        /\ store'.tcb[n] = NewTCB("DEAD", p)
    BY <1>1, <2>1, <2>2, InsertThreadSteady
  <2>4. store'.tcb[n].entries = <<>>
    BY <2>3 DEF NewTCB
  <2>5. QED
    BY <1>5, <2>3, <2>4 DEF Kept
<1>6. CASE VMThreadYield
  <2>1. store' = SleepCurrentThread(store, 0) /\ store.current # Idle
    BY <1>6 DEF VMThreadYield, Enter, Calling, cur
  <2>2. QED
    BY <1>1, <1>4, <2>1, SleepCurrentThreadSteady
<1>7. ASSUME NEW n \in Timeouts, VMThreadSleep(n) PROVE Kept
  <2>1. store' = SleepCurrentThread(store, n) /\ store.current # Idle
    BY <1>7 DEF VMThreadSleep, Enter, Calling, cur
  <2>2. n \in Nat \union {Forever}
    BY TimeoutsAssumption
  <2>3. QED
    BY <1>1, <1>4, <2>1, <2>2, SleepCurrentThreadSteady
<1>8. CASE VMFile
  <2>1. store' = WaitCurrentThreadOnIO(store) /\ store.current # Idle
    BY <1>8 DEF VMFile, Enter, Calling, cur
  <2>2. QED
    BY <1>1, <1>2, <2>1, WaitCurrentThreadOnIOSteady
<1>9. ASSUME NEW t \in Thread, VMThreadActivate(t) PROVE Kept
  <2>1. store' = ActivateDeadThread(store, t) /\ store.tcb[t].state = "DEAD"
    BY <1>9 DEF VMThreadActivate, Enter
  <2>2. QED
    BY <1>1, <1>4, <2>1, ActivateDeadThreadSteady
<1>10. ASSUME NEW t \in Thread, VMThreadDelete(t) PROVE Kept
  <2>1. store' = DeleteDeadThread(store, t)
    BY <1>10 DEF VMThreadDelete, Enter
  <2>2. QED
    BY <1>1, <1>4, <2>1, DeleteDeadThreadSteady
<1>11. CASE \/ \E t \in Thread : VMThreadTerminate(t)
            \/ \E m \in Mutex : VMMutexReleaseUnowned(m)
  BY <1>3, <1>11 DEF VMThreadTerminate, VMMutexReleaseUnowned, Enter
<1>12. CASE KillFinish
  <2> DEFINE t == frame[cur].arg
  <2>1. store' = MarkDead(store, t) /\ frame[cur].at = "kill"
    BY <1>12 DEF KillFinish, Owes
  <2>2. t \in User /\ t < store.numThreads
    BY <1>1, <2>1 DEF TypeOK, KillTargetsExist
  <2> HIDE DEF t
  <2>3. QED
    BY <1>1, <1>4, <2>1, <2>2, MarkDeadSteady
<1>13. CASE TimerDone
  <2>1. store' \in {store, Schedule(store, High)}
    BY <1>13 DEF TimerDone
  <2>2. SameData(store, Schedule(store, High))
    BY <1>1, HighIsAPriority, ScheduleTidy
  <2>3. QED
    BY <1>3, <1>4, <2>1, <2>2
<1>14. CASE MachineFileIOCallback
  <2>1. /\ store' = [store EXCEPT !.tcb[reply[cur]].io = FALSE]
        /\ reply[cur] \in Thread
    BY <1>14, TypeParts, Ranges DEF MachineFileIOCallback
  <2>2. PICK t \in Thread : t = reply[cur]
    BY <2>1
  <2>3. store' = [store EXCEPT !.tcb[t].io = FALSE]
    BY <2>1, <2>2
  <2>4. QED
    BY <1>1, <1>2, <2>3 DEF WellFormed, Store, TCB
<1>15. CASE SafeEntry \/ Return \/ AcquireReturn
  BY <1>3, <1>15 DEF SafeEntry, Return, AcquireReturn, Resume
<1>16. CASE \/ TimerInterrupt \/ \E t \in Thread : MachineReplySignalHandler(t)
            \/ IdleSpin \/ UNCHANGED vars
  BY <1>3, <1>16 DEF TimerInterrupt, MachineReplySignalHandler, IdleSpin, vars
<1>17. QED
  BY <1>5, <1>6, <1>7, <1>8, <1>9, <1>10, <1>11, <1>12, <1>13, <1>14, <1>15, <1>16
  DEF Next, Call, Kernel, MutexStep

\* Only an acquire adds to a thread's list.
LEMMA OtherStepsAddNoEntries ==
  ASSUME TypeOK, Sched, [Next]_vars, ~ MutexStep
  PROVE  NoNewEntries
<1>1. WellFormed(store)
  BY DEF TypeOK
<1>2. CASE TimerKeep \/ TimerCountdown \/ TimerWake
  BY <1>2, TimerAddsNoEntries
<1>3. CASE ~ (TimerKeep \/ TimerCountdown \/ TimerWake)
  <2>1. ASSUME NEW v \in Thread, NEW k \in Mutex
        PROVE  Entries(store', v, k) <= Entries(store, v, k)
    <3>1. Entries(store, v, k) \in Nat
      BY <1>1, CountsAreNat
    <3>2. CASE store'.tcb[v].entries = store.tcb[v].entries
      <4>1. Entries(store', v, k) = Entries(store, v, k)
        BY <3>2 DEF Entries
      <4>2. QED
        BY <3>1, <4>1
    <3>3. CASE store'.tcb[v].entries = <<>>
      <4>1. Entries(store', v, k) = 0
        BY <3>3, OccEmpty DEF Entries
      <4>2. QED
        BY <3>1, <4>1
    <3>4. QED
      BY <1>3, <3>2, <3>3, OtherStepsKeepEntries
  <2>2. QED
    BY <2>1 DEF NoNewEntries
<1>4. QED
  BY <1>2, <1>3

\* Mutex ids are integers, and so is the next one.
LEMMA MutexNumbers ==
  ASSUME NEW s, WellFormed(s)
  PROVE  s.numMutexes \in Int /\ Mutex \subseteq Int
<1>1. Mutex \subseteq Int /\ MaxMutex + 1 \in Int
  BY IdsAssumption DEF Mutex
<1>2. s.numMutexes \in Mutex \union {MaxMutex + 1}
  BY DEF WellFormed, Store
<1>3. QED
  BY <1>1, <1>2

\* What the entries' owners depend on.
EntriesOK == /\ TypeOK /\ Sched /\ FreeMutexHasNoWaiters /\ UncreatedAreFree
             /\ Covered(store)

\* A mutex in a list has an owner, so it is one that was created.
LEMMA EntryMeansOwner ==
  ASSUME EntriesOK, NEW t \in Thread, NEW e \in Entry, NEW i \in DOMAIN store.tcb[t].entries,
         e = store.tcb[t].entries[i]
  PROVE  store.mutex[e.mutex].owner # None /\ e.mutex < store.numMutexes
<1> DEFINE m == e.mutex
           q == store.tcb[t].entries
<1>1. m \in Mutex /\ e \in EntriesFor(m) /\ WellFormed(store)
  BY DEF Entry, EntriesFor, EntriesOK, TypeOK
<1>2. q \in Seq(Entry)
  BY <1>1 DEF WellFormed, Store, TCB
<1>3. Entries(store, t, m) # 0
  <2>1. i \in DOMAIN q /\ q[i] \in EntriesFor(m)
    BY <1>1
  <2> HIDE DEF m, q
  <2>2. \A A : \A r \in Seq(A) : \A S : \A j \in DOMAIN r : r[j] \in S => Occ(r, S) # 0
    BY OccNat
  <2>3. Occ(q, EntriesFor(m)) # 0
    BY ONLY <1>2, <2>1, <2>2
  <2>4. QED
    BY <2>3 DEF Entries, q
<1> HIDE DEF m, q
<1>4. store.mutex[m].owner # None
  BY <1>1, <1>3, FreeMutexHasNoEntries DEF EntriesOK, FreeMutexHasNoWaiters
<1>5. m \in Int /\ store.numMutexes \in Int
  BY <1>1, MutexNumbers
<1>6. m < store.numMutexes
  <2>1. m >= store.numMutexes => store.mutex[m].owner = None
    BY <1>1 DEF EntriesOK, UncreatedAreFree
  <2>2. QED
    BY <1>4, <1>5, <2>1
<1>7. QED
  BY <1>4, <1>6 DEF m

\* The steps on a mutex keep the entries covered.
LEMMA MutexStepCovers ==
  ASSUME EntriesOK, MutexStep
  PROVE  Covered(store')
<1>1. /\ WellFormed(store) /\ cur \in Thread /\ User \subseteq Thread
      /\ Tidy(store) /\ Alive(store) /\ Covered(store)
  BY Ranges, Ids DEF TypeOK, Sched, EntriesOK
<1>2. ASSUME NEW m \in Mutex, store.mutex[m].owner = None, WellFormed(store'),
             store'.tcb = store.tcb,
             \A k \in Mutex \ {m} : store'.mutex[k] = store.mutex[k]
      PROVE  Covered(store')
  <2>1. SUFFICES ASSUME NEW v \in Thread, NEW k \in Mutex PROVE CoveredIn(store', v, k)
    BY DEF Covered
  <2>2. Entries(store', v, k) = Entries(store, v, k) /\ Entries(store, v, k) \in Nat
    BY <1>1, <1>2, CountsAreNat DEF Entries
  <2>3. CASE k # m
    BY <1>1, <1>2, <2>2, <2>3, MutexStillCovers
  <2>4. CASE k = m
    <3>1. NoWaiters(store, m)
      BY <1>2 DEF EntriesOK, FreeMutexHasNoWaiters
    <3>2. Entries(store', v, k) = 0
      BY <1>1, <1>2, <2>2, <2>4, <3>1, FreeMutexHasNoEntries
    <3>3. QED
      BY <1>2, <3>2, CountsAreNat DEF CoveredIn, InQueues
  <2>5. QED
    BY <2>3, <2>4
<1>3. CASE VMMutexCreate
  <2>1. PICK junk \in FreshFlags : store' = InsertMutex(store, junk)
    BY <1>3 DEF VMMutexCreate, Finish
  <2> DEFINE m == store.numMutexes
  <2>2. m \in Mutex /\ junk \in BOOLEAN
    BY <1>3, FreshFlagsAssumption DEF VMMutexCreate
  <2>3. WellFormed(store') /\ \A k \in Mutex \ {m} : store'.mutex[k] = store.mutex[k]
    BY <1>1, <2>1, <2>2, InsertMutexEffect
  <2>4. store'.tcb = store.tcb
    BY <1>1, <2>1 DEF InsertMutex, WellFormed, Store
  <2>5. store.mutex[m].owner = None
    <3>1. m \in Int
      BY <2>2, IdsAssumption DEF Mutex
    <3>2. QED
      BY <2>2, <3>1 DEF EntriesOK, UncreatedAreFree
  <2>6. QED
    BY <1>2, <2>2, <2>3, <2>4, <2>5
<1>4. ASSUME NEW m \in Mutex, VMMutexDelete(m)
      PROVE  Covered(store')
  <2>1. store' = DeleteFromVM(store, m) /\ store.mutex[m].owner = None
    BY <1>4 DEF VMMutexDelete, Finish
  <2>2. WellFormed(store') /\ \A k \in Mutex \ {m} : store'.mutex[k] = store.mutex[k]
    BY <1>1, <2>1, DeleteFromVMEffect DEF SameOtherMutexes
  <2>3. store'.tcb = store.tcb
    BY <1>1, <2>1 DEF DeleteFromVM, WellFormed, Store
  <2>4. QED
    BY <1>2, <2>1, <2>2, <2>3
<1>5. ASSUME NEW m \in Mutex, VMMutexAcquire(m)
      PROVE  Covered(store')
  <2>1. PICK n \in Nat \union {ImmediateTimeout}, at \in {"lock", "trylock"} : Acquire(m, n, at)
    BY <1>5, AcquireTimeout DEF VMMutexAcquire
  <2>2. store' = MutexLock(store, m, n) /\ store.current # Idle
    BY <1>5, <2>1 DEF VMMutexAcquire, Acquire, Enter, Calling, cur
  <2>3. QED
    BY <1>1, <2>2, LockCovers
<1>6. ASSUME NEW m \in Mutex, VMMutexRelease(m)
      PROVE  Covered(store')
  <2>1. store' = MutexRelease(store, m)
    BY <1>6 DEF VMMutexRelease, Enter
  <2>2. QED
    BY <1>1, <2>1, ReleaseCovers
<1>7. CASE KillRelease
  <2> DEFINE t == frame[cur].arg
             q == store.tcb[t].entries
             s == [store EXCEPT !.tcb[t].entries = Tail(q)]
             m == Head(q).mutex
  <2>1. q # <<>> /\ store' = MutexRelease(s, m) /\ frame[cur].at = "kill"
    BY <1>7 DEF KillRelease, Owes
  <2>2. t \in Thread
    BY <1>1, <2>1 DEF TypeOK, EntriesOK
  <2>3. q \in Seq(Entry)
    BY <1>1, <2>2 DEF WellFormed, Store, TCB
  <2>4. Head(q) \in Entry /\ Tail(q) \in Seq(Entry)
    BY <2>1, <2>3, HeadTailProperties
  <2>5. m \in Mutex
    BY <2>4 DEF Entry
  <2>6. WellFormed(s) /\ Still(store, s) /\ SameButTCBs(store, s)
    BY <1>1, <2>2, <2>4, EntriesWF, EntriesStill
  <2>7. \A v \in Thread : s.tcb[v].entries = IF v = t THEN Tail(q) ELSE store.tcb[v].entries
    BY <1>1, <2>2 DEF WellFormed, Store, TCB
  <2> HIDE DEF s, m, t
  <2>8. Tidy(s) /\ Alive(s)
    BY <1>1, <2>6, StillSteady DEF Steady
  <2>9. ASSUME NEW v \in Thread, NEW k \in Mutex
        PROVE  Entries(s, v, k) <= Entries(store, v, k)
    <3>1. Entries(store, v, k) \in Nat
      BY <1>1, CountsAreNat
    <3>2. CASE v # t
      <4>1. Entries(s, v, k) = Entries(store, v, k)
        BY <2>7, <3>2 DEF Entries
      <4>2. QED
        BY <3>1, <4>1
    <3>3. CASE v = t
      <4>1. Entries(s, v, k) = Occ(Tail(q), EntriesFor(k))
            /\ Entries(store, v, k) = Occ(q, EntriesFor(k))
        BY <2>7, <3>3 DEF Entries
      <4> HIDE DEF q
      <4>2. Occ(Tail(q), EntriesFor(k)) =
              Occ(q, EntriesFor(k)) - (IF Head(q) \in EntriesFor(k) THEN 1 ELSE 0)
        BY <2>1, <2>3, OccTail
      <4>3. QED
        BY <3>1, <4>1, <4>2
    <3>4. QED
      BY <3>2, <3>3
  <2>10. Covered(s)
    <3>1. \A k \in Mutex : s.mutex[k] = store.mutex[k]
      BY <2>6 DEF SameButTCBs
    <3>2. \A v \in Thread, k \in Mutex : CoveredIn(s, v, k)
      BY <1>1, <2>6, <2>9, <3>1, MutexStillCovers
    <3>3. QED
      BY <3>2 DEF Covered
  <2>11. QED
    BY <2>1, <2>5, <2>6, <2>8, <2>10, ReleaseCovers
<1>8. QED
  BY <1>3, <1>4, <1>5, <1>6, <1>7 DEF MutexStep

\* Only ids that were handed out are acquired, and the entries of a thread that is
\* terminated are of those.
LEMMA UncreatedStayFree ==
  ASSUME EntriesOK, [Next]_vars
  PROVE  UncreatedAreFree'
<1>1. /\ WellFormed(store) /\ cur \in Thread /\ User \subseteq Thread
      /\ store.numMutexes \in Int /\ Mutex \subseteq Int
  <2>1. WellFormed(store) /\ cur \in Thread /\ User \subseteq Thread
    BY Ranges, Ids DEF TypeOK, EntriesOK
  <2>2. QED
    BY <2>1, MutexNumbers
<1>2. ASSUME NEW m \in Mutex, m < store.numMutexes, SameOtherMutexes(store, store', m)
      PROVE  UncreatedAreFree'
  BY <1>1, <1>2 DEF SameOtherMutexes, UncreatedAreFree, EntriesOK
<1>3. CASE VMMutexCreate
  <2>1. PICK junk \in FreshFlags : store' = InsertMutex(store, junk)
    BY <1>3 DEF VMMutexCreate, Finish
  <2> DEFINE m == store.numMutexes
  <2>2. m \in Mutex /\ junk \in BOOLEAN
    BY <1>3, FreshFlagsAssumption DEF VMMutexCreate
  <2>3. /\ \A k \in Mutex \ {m} : store'.mutex[k] = store.mutex[k]
        /\ store'.mutex[m].owner = None /\ store'.numMutexes = m + 1
    BY <1>1, <2>1, <2>2, InsertMutexEffect
  <2> SUFFICES ASSUME NEW k \in Mutex, k >= store'.numMutexes
               PROVE  store'.mutex[k].owner = None
    BY DEF UncreatedAreFree
  <2>4. k >= m /\ k # m
    BY <1>1, <2>3
  <2>5. QED
    BY <2>3, <2>4 DEF UncreatedAreFree, EntriesOK
<1>4. ASSUME NEW m \in Mutex, VMMutexDelete(m)
      PROVE  UncreatedAreFree'
  BY <1>1, <1>2, <1>4, DeleteFromVMEffect DEF VMMutexDelete, Finish, FoundMutex
<1>5. ASSUME NEW m \in Mutex, VMMutexAcquire(m)
      PROVE  UncreatedAreFree'
  BY <1>2, <1>5, AcquireEffect DEF EntriesOK
<1>6. ASSUME NEW m \in Mutex, VMMutexRelease(m)
      PROVE  UncreatedAreFree'
  BY <1>1, <1>2, <1>6, MutexReleaseEffect DEF VMMutexRelease, Enter, FoundMutex
<1>7. CASE KillRelease
  <2> DEFINE t == frame[cur].arg
             q == store.tcb[t].entries
             s == [store EXCEPT !.tcb[t].entries = Tail(q)]
             m == Head(q).mutex
  <2>1. q # <<>> /\ store' = MutexRelease(s, m) /\ frame[cur].at = "kill"
    BY <1>7 DEF KillRelease, Owes
  <2>2. t \in Thread
    BY <1>1, <2>1 DEF TypeOK, EntriesOK
  <2>3. q \in Seq(Entry)
    BY <1>1, <2>2 DEF WellFormed, Store, TCB
  <2>4. /\ Head(q) \in Entry /\ Tail(q) \in Seq(Entry)
        /\ 1 \in DOMAIN q /\ Head(q) = q[1]
    <3>1. q # <<>>
      BY <2>1
    <3> HIDE DEF q
    <3>2. Head(q) \in Entry /\ Tail(q) \in Seq(Entry)
      BY <2>3, <3>1, HeadTailProperties
    <3>3. Len(q) \in Nat /\ Len(q) # 0 /\ DOMAIN q = 1..Len(q)
      BY <2>3, <3>1, EmptySeq, LenProperties
    <3>4. Head(q) = q[1]
      BY <2>3, <3>3
    <3>5. QED
      BY <3>2, <3>3, <3>4
  <2>5. m \in Mutex
    BY <2>4 DEF Entry
  <2>6. WellFormed(s) /\ SameButTCBs(store, s)
    BY <1>1, <2>2, <2>4, EntriesWF
  <2>7. m < store.numMutexes
    <3> HIDE DEF t
    <3>1. \A e \in Entry, i \in DOMAIN q : e = q[i] => e.mutex < store.numMutexes
      BY <2>2, EntryMeansOwner
    <3>2. QED
      BY <2>4, <3>1
  <2> HIDE DEF s, m
  <2>8. SameOtherMutexes(s, store', m)
    BY <2>1, <2>5, <2>6, MutexReleaseEffect
  <2>9. SameOtherMutexes(store, store', m)
    BY <2>6, <2>8 DEF SameOtherMutexes, SameButTCBs
  <2>10. QED
    BY <1>2, <2>5, <2>7, <2>9
<1>8. CASE ~ MutexStep
  <2>1. MutexesAlone
    BY <1>8, OtherStepsLeaveMutexesAlone DEF EntriesOK
  <2>2. QED
    BY <2>1 DEF MutexesAlone, UncreatedAreFree, EntriesOK
<1>9. QED
  BY <1>3, <1>4, <1>5, <1>6, <1>7, <1>8 DEF MutexStep

\* The entries stay covered.
LEMMA EntriesStayCovered ==
  ASSUME EntriesOK, TypeOK', [Next]_vars
  PROVE  Covered(store')
<1>1. CASE MutexStep
  BY <1>1, MutexStepCovers
<1>2. CASE ~ MutexStep
  <2>1. MutexesAlone /\ NoNewEntries
    BY <1>2, OtherStepsLeaveMutexesAlone, OtherStepsAddNoEntries DEF EntriesOK
  <2>2. WellFormed(store) /\ WellFormed(store') /\ Covered(store)
    BY DEF EntriesOK, TypeOK
  <2>3. \A v \in Thread, k \in Mutex : CoveredIn(store', v, k)
    BY <2>1, <2>2, MutexStillCovers DEF MutexesAlone, NoNewEntries
  <2>4. QED
    BY <2>3 DEF Covered
<1>3. QED
  BY <1>1, <1>2

\* No thread has an entry in the beginning.
LEMMA InitCovered == Init => UncreatedAreFree /\ Covered(store)
<1> SUFFICES ASSUME Init PROVE UncreatedAreFree /\ Covered(store)
  OBVIOUS
<1>1. WellFormed(store)
  BY InitType DEF TypeOK
<1>2. UncreatedAreFree
  BY DEF Init, InitStore, UncreatedAreFree
<1>3. ASSUME NEW v \in Thread, NEW k \in Mutex PROVE CoveredIn(store, v, k)
  <2>1. store.tcb[v].entries = <<>>
    BY DEF Init, InitStore, NewTCB
  <2>2. Entries(store, v, k) = 0
    BY <2>1, OccEmpty DEF Entries
  <2>3. QED
    BY <1>1, <2>2, CountsAreNat DEF CoveredIn, InQueues
<1>4. QED
  BY <1>2, <1>3 DEF Covered

\* So it is in every state.
LEMMA EntriesInvariant == Spec => []EntriesOK
<1> DEFINE Base == TypeOK /\ Sched /\ FreeMutexHasNoWaiters
           Inv  == UncreatedAreFree /\ Covered(store)
<1>1. Base /\ Base' /\ Inv /\ [Next]_vars => Inv'
  BY UncreatedStayFree, EntriesStayCovered DEF EntriesOK
<1>2. Base /\ Inv => EntriesOK
  BY DEF EntriesOK
<1>3. Init => Inv
  BY InitCovered
<1>4. QED
  <2>1. Spec => []Base
    BY SchedInvariant, NoWaiterLeftBehind, PTL
  <2> HIDE DEF Base, Inv
  <2>2. QED
    BY <1>1, <1>2, <1>3, <2>1, PTL DEF Spec

\* Whatever the application does: every mutex in a thread's list has an owner. Each
\* of the thread's entries is matched by its ownership or by a place in a queue of
\* the mutex, and a mutex with a waiter is never free.
THEOREM EntriesHaveOwners == Spec => []EntryHasOwner
<1>1. EntriesOK => EntryHasOwner
  <2> SUFFICES ASSUME EntriesOK, NEW t \in Thread, NEW i \in 1..Len(store.tcb[t].entries)
               PROVE  store.mutex[store.tcb[t].entries[i].mutex].owner # None
    BY DEF EntryHasOwner
  <2> DEFINE q == store.tcb[t].entries
  <2>1. q \in Seq(Entry)
    BY DEF EntriesOK, TypeOK, WellFormed, Store, TCB
  <2>2. i \in DOMAIN q /\ q[i] \in Entry
    BY <2>1, LenProperties, ElementOfSeq
  <2>3. QED
    BY <2>2, EntryMeansOwner
<1>2. QED
  BY <1>1, EntriesInvariant, PTL

\* A thread loses a mutex by its own release or when somebody is terminated who has
\* an entry for it; a creation never takes the id of a mutex that is owned.
LEMMA OwnerLost ==
  ASSUME EntriesOK, [Next]_vars, NEW t \in User, NEW m \in Mutex,
         store.mutex[m].owner = t, store'.mutex[m].owner # t
  PROVE  \/ cur = t /\ VMMutexRelease(m)
         \/ KillRelease /\ Head(store.tcb[frame[cur].arg].entries).mutex = m
<1>1. /\ WellFormed(store) /\ cur \in Thread /\ User \subseteq Thread
      /\ t # None /\ TypeOK
  BY Ranges, Ids DEF TypeOK, EntriesOK
<1>2. MutexStep
  BY <1>1, OtherStepsLeaveMutexesAlone DEF MutexesAlone
<1>3. ~ VMMutexCreate
  <2> SUFFICES ASSUME VMMutexCreate PROVE FALSE
    OBVIOUS
  <2>1. PICK junk \in FreshFlags : store' = InsertMutex(store, junk)
    BY DEF VMMutexCreate, Finish
  <2> DEFINE n == store.numMutexes
  <2>2. n \in Mutex /\ junk \in BOOLEAN
    BY FreshFlagsAssumption DEF VMMutexCreate
  <2>3. \A k \in Mutex \ {n} : store'.mutex[k] = store.mutex[k]
    BY <1>1, <2>1, <2>2, InsertMutexEffect
  <2>4. m = n
    BY <2>3
  <2>5. n \in Int
    BY <2>2, IdsAssumption DEF Mutex
  <2>6. store.mutex[n].owner = None
    BY <2>2, <2>5 DEF EntriesOK, UncreatedAreFree
  <2>7. QED
    BY <1>1, <2>4, <2>6
<1>4. \A k \in Mutex : ~ VMMutexDelete(k)
  <2> SUFFICES ASSUME NEW k \in Mutex, VMMutexDelete(k) PROVE FALSE
    OBVIOUS
  <2>1. store' = DeleteFromVM(store, k) /\ store.mutex[k].owner = None
    BY DEF VMMutexDelete, Finish
  <2>2. SameOtherMutexes(store, store', k)
    BY <1>1, <2>1, DeleteFromVMEffect
  <2>3. QED
    BY <1>1, <2>1, <2>2 DEF SameOtherMutexes
<1>5. \A k \in Mutex : ~ VMMutexAcquire(k)
  <2> SUFFICES ASSUME NEW k \in Mutex, VMMutexAcquire(k) PROVE FALSE
    OBVIOUS
  <2>1. /\ SameOtherMutexes(store, store', k)
        /\ store.mutex[k].owner # None => store'.mutex[k].owner = store.mutex[k].owner
    BY <1>1, AcquireEffect
  <2>2. QED
    BY <1>1, <2>1 DEF SameOtherMutexes
<1>6. ASSUME NEW k \in Mutex, VMMutexRelease(k)
      PROVE  cur = t /\ VMMutexRelease(m)
  <2>1. store' = MutexRelease(store, k) /\ store.mutex[k].owner = cur
    BY <1>6 DEF VMMutexRelease, Enter
  <2>2. SameOtherMutexes(store, store', k)
    BY <1>1, <2>1, MutexReleaseEffect
  <2>3. m = k
    BY <2>2 DEF SameOtherMutexes
  <2>4. QED
    BY <1>6, <2>1, <2>3
<1>7. CASE KillRelease
  <2> DEFINE v == frame[cur].arg
             q == store.tcb[v].entries
             s == [store EXCEPT !.tcb[v].entries = Tail(q)]
             k == Head(q).mutex
  <2>1. q # <<>> /\ store' = MutexRelease(s, k) /\ frame[cur].at = "kill"
    BY <1>7 DEF KillRelease, Owes
  <2>2. v \in Thread
    BY <1>1, <2>1 DEF TypeOK
  <2>3. q \in Seq(Entry)
    BY <1>1, <2>2 DEF WellFormed, Store, TCB
  <2>4. Head(q) \in Entry /\ Tail(q) \in Seq(Entry)
    BY <2>1, <2>3, HeadTailProperties
  <2>5. k \in Mutex
    BY <2>4 DEF Entry
  <2>6. WellFormed(s) /\ SameButTCBs(store, s)
    BY <1>1, <2>2, <2>4, EntriesWF
  <2> HIDE DEF s, k
  <2>7. SameOtherMutexes(s, store', k)
    BY <2>1, <2>5, <2>6, MutexReleaseEffect
  <2>8. m = k
    BY <2>6, <2>7 DEF SameOtherMutexes, SameButTCBs
  <2>9. QED
    BY <1>7, <2>8 DEF k
<1>8. QED
  BY <1>2, <1>3, <1>4, <1>5, <1>6, <1>7 DEF MutexStep

\* Whatever the application does: a thread loses a mutex it holds by its own
\* release, or when a thread is terminated that has an entry for the mutex, and in
\* no other way; a creation never takes the id of a mutex that is owned.
THEOREM OwnersLoseOnlyByRelease == Spec => OwnerLosesOnlyByRelease
<1>1. EntriesOK /\ [Next]_vars =>
        [ \A t \in User, m \in Mutex :
            m \in held[t] /\ store.mutex[m].owner = t /\ store'.mutex[m].owner # t =>
              \/ cur = t /\ VMMutexRelease(m)
              \/ KillRelease /\ Head(store.tcb[frame[cur].arg].entries).mutex = m ]_vars
  BY OwnerLost
<1>2. QED
  BY <1>1, EntriesInvariant, PTL DEF Spec, OwnerLosesOnlyByRelease

=============================================================================
