------------------------ MODULE ThreadStore_proofs -------------------------
(***************************************************************************)
(* Every operation of ThreadStore.tla leaves a well-formed Store and does  *)
(* not touch the mutexes, for any number of threads and mutexes.  It keeps *)
(* the lists tidy, puts every thread where its state says, and passes over *)
(* no ready thread of a higher priority.                                   *)
(***************************************************************************)
EXTENDS ThreadStore, SequenceFacts, TLAPS

\* The idle thread is a thread, and NULL is none.
LEMMA Ids ==
  /\ Thread \subseteq Int /\ Mutex \subseteq Int
  /\ User \subseteq Thread /\ Idle \in Thread /\ Main \in User
  /\ None \notin Thread
BY IdsAssumption DEF Thread, Mutex, User, Idle, Main, None

\* Two Stores that differ at most in their TCBs.
SameButTCBs(s, u) ==
  /\ u.ready = s.ready
  /\ u.waitList = s.waitList
  /\ u.deadList = s.deadList
  /\ u.current = s.current
  /\ u.numThreads = s.numThreads
  /\ u.mutex = s.mutex
  /\ u.numMutexes = s.numMutexes

\* Every thread of a well-formed store has a TCB.
LEMMA TCBOfThread ==
  ASSUME NEW s, WellFormed(s), NEW t \in Thread
  PROVE  s.tcb[t] \in TCB
BY DEF WellFormed, Store

\* A Store stays well formed when one TCB changes and keeps its priority.
LEMMA UpdateTCB ==
  ASSUME NEW s, WellFormed(s), NEW t \in Thread, NEW r \in TCB,
         r.prio = s.tcb[t].prio,
         NEW u, u = [s EXCEPT !.tcb = [s.tcb EXCEPT ![t] = r]]
  PROVE  WellFormed(u) /\ SameButTCBs(s, u) /\ u.tcb = [s.tcb EXCEPT ![t] = r]
<1> DEFINE f == [s.tcb EXCEPT ![t] = r]
<1>1. f \in [Thread -> TCB] /\ \A v \in User : f[v].prio = s.tcb[v].prio
  BY Ids DEF WellFormed, Store
<1> HIDE DEF f
<1>2. u = [s EXCEPT !.tcb = f]
  BY DEF f
<1>3. u \in Store /\ u.tcb = f /\ SameButTCBs(s, u)
  BY <1>1, <1>2 DEF WellFormed, Store, SameButTCBs
<1>4. WellFormed(u)
  BY <1>1, <1>3 DEF WellFormed, SameButTCBs
<1>5. QED
  BY <1>3, <1>4 DEF f

\* A thread's state changes, and nothing else of the Store.
LEMMA SetStateWF ==
  ASSUME NEW s, WellFormed(s), NEW t \in Thread, NEW x \in ThreadState
  PROVE  WellFormed(SetState(s, t, x)) /\ SameButTCBs(s, SetState(s, t, x))
<1> DEFINE r == [s.tcb[t] EXCEPT !.state = x]
           u == SetState(s, t, x)
<1>1. r \in TCB /\ r.prio = s.tcb[t].prio
  BY TCBOfThread DEF TCB
<1>2. u = [s EXCEPT !.tcb = [s.tcb EXCEPT ![t] = r]]
  BY DEF SetState, WellFormed, Store
<1> HIDE DEF r, u
<1>3. WellFormed(u) /\ SameButTCBs(s, u)
  BY <1>1, <1>2, UpdateTCB
<1>4. QED
  BY <1>3 DEF u

\* Putting a thread to sleep changes its TCB only.
LEMMA SleepWF ==
  ASSUME NEW s, WellFormed(s), NEW t \in Thread, NEW n \in Nat \union {Forever}
  PROVE  WellFormed(Sleep(s, t, n)) /\ SameButTCBs(s, Sleep(s, t, n))
<1> DEFINE w == [s.tcb[t] EXCEPT !.state = "WAITING"]
           r == [w EXCEPT !.ticks = n]
           u == Sleep(s, t, n)
<1>1. w \in TCB /\ w.prio = s.tcb[t].prio
  <2>1. "WAITING" \in ThreadState
    BY DEF ThreadState
  <2>2. QED
    BY <2>1, TCBOfThread DEF TCB
<1>2. r \in TCB /\ r.prio = w.prio
  <2> HIDE DEF w
  <2> QED
    BY <1>1 DEF TCB, Forever
<1>3. u = [s EXCEPT !.tcb = [s.tcb EXCEPT ![t] = r]]
  BY DEF Sleep, WellFormed, Store
<1> HIDE DEF w, r, u
<1>4. WellFormed(u) /\ SameButTCBs(s, u)
  BY <1>1, <1>2, <1>3, UpdateTCB
<1>5. QED
  BY <1>4 DEF u

\* Replacing the list of mutexes of one thread.
LEMMA EntriesWF ==
  ASSUME NEW s, WellFormed(s), NEW t \in Thread, NEW q \in Seq(Entry)
  PROVE  LET u == [s EXCEPT !.tcb[t].entries = q]
         IN  WellFormed(u) /\ SameButTCBs(s, u)
<1> DEFINE r == [s.tcb[t] EXCEPT !.entries = q]
           u == [s EXCEPT !.tcb[t].entries = q]
<1>1. r \in TCB /\ r.prio = s.tcb[t].prio
  BY TCBOfThread DEF TCB
<1>2. u = [s EXCEPT !.tcb = [s.tcb EXCEPT ![t] = r]]
  BY DEF WellFormed, Store
<1> HIDE DEF r, u
<1>3. WellFormed(u) /\ SameButTCBs(s, u)
  BY <1>1, <1>2, UpdateTCB
<1>4. QED
  BY <1>3 DEF u

\* Setting the flag of the last entry of a list of mutexes.
LEMMA SetWaitingOnMutexWF ==
  ASSUME NEW s, WellFormed(s), NEW t \in Thread, NEW w \in BOOLEAN
  PROVE  /\ WellFormed(SetWaitingOnMutex(s, t, w))
         /\ SameButTCBs(s, SetWaitingOnMutex(s, t, w))
<1> DEFINE q == s.tcb[t].entries
           n == Len(q)
<1>1. q \in Seq(Entry) /\ s.tcb[t] \in TCB
  BY DEF WellFormed, Store, TCB
<1>2. CASE n = 0
  BY <1>2 DEF SetWaitingOnMutex, SameButTCBs
<1>3. CASE n # 0
  <2> DEFINE e == [q[n] EXCEPT !.waiting = w]
             p == [q EXCEPT ![n] = e]
  <2>1. n \in 1..Len(q)
    BY <1>1, <1>3, LenProperties
  <2>2. q[n] \in Entry
    BY <1>1, <2>1, ElementOfSeq
  <2>3. e \in Entry
    BY <2>2 DEF Entry
  <2>4. p \in Seq(Entry)
    <3> HIDE DEF e
    <3> QED
      BY <1>1, <2>1, <2>3, ExceptSeq
  <2>5. SetWaitingOnMutex(s, t, w) = [s EXCEPT !.tcb[t].entries = p]
    BY <1>1, <1>3 DEF SetWaitingOnMutex, WellFormed, Store, TCB
  <2> HIDE DEF p
  <2>6. QED
    BY <2>4, <2>5, EntriesWF
<1>4. QED
  BY <1>2, <1>3

\* A mutex more in a thread's list changes its TCB only.
LEMMA AddMutexWF ==
  ASSUME NEW s, WellFormed(s), NEW t \in Thread, NEW m \in Mutex, NEW w \in BOOLEAN
  PROVE  /\ WellFormed(AddMutex(s, t, m, w))
         /\ SameButTCBs(s, AddMutex(s, t, m, w))
<1> DEFINE e == [mutex |-> m, waiting |-> w]
           q == Append(s.tcb[t].entries, e)
<1>1. e \in Entry /\ s.tcb[t].entries \in Seq(Entry)
  BY DEF Entry, WellFormed, Store, TCB
<1>2. q \in Seq(Entry)
  BY <1>1, AppendProperties
<1>3. AddMutex(s, t, m, w) = [s EXCEPT !.tcb[t].entries = q]
  BY DEF AddMutex, WellFormed, Store, TCB
<1> HIDE DEF q
<1>4. QED
  BY <1>2, <1>3, EntriesWF

\* A mutex less in a thread's list changes its TCB only.
LEMMA RemoveMutexWF ==
  ASSUME NEW s, WellFormed(s), NEW t \in Thread, NEW m \in Mutex
  PROVE  /\ WellFormed(RemoveMutex(s, t, m))
         /\ SameButTCBs(s, RemoveMutex(s, t, m))
<1> DEFINE q == s.tcb[t].entries
           i == CHOOSE i \in 1..Len(q) : IsFirstEntry(q, m, i)
           p == RemoveAt(q, i)
<1>1. CASE ~ \E j \in 1..Len(q) : IsFirstEntry(q, m, j)
  BY <1>1 DEF RemoveMutex, SameButTCBs
<1>2. CASE \E j \in 1..Len(q) : IsFirstEntry(q, m, j)
  <2>1. i \in 1..Len(q)
    BY <1>2
  <2>2. q \in Seq(Entry)
    BY DEF WellFormed, Store, TCB
  <2>3. p \in Seq(Entry)
    BY <2>1, <2>2, RemoveAtType
  <2>4. RemoveMutex(s, t, m) = [s EXCEPT !.tcb[t].entries = p]
    BY <1>2 DEF RemoveMutex
  <2> HIDE DEF p
  <2>5. QED
    BY <2>3, <2>4, EntriesWF
<1>3. QED
  BY <1>1, <1>2

-----------------------------------------------------------------------------
\* The lists of the scheduler.

\* Two Stores with the same mutexes and the same idea of who exists.
SameMutexes(s, u) ==
  /\ u.mutex = s.mutex
  /\ u.numMutexes = s.numMutexes
  /\ u.numThreads = s.numThreads

\* A thread joins the ready list of its priority, and nothing else changes.
LEMMA PushReadyWF ==
  ASSUME NEW s, WellFormed(s), NEW t \in User
  PROVE  /\ WellFormed(PushReady(s, t))
         /\ SameMutexes(s, PushReady(s, t))
         /\ PushReady(s, t).current = s.current
         /\ PushReady(s, t).waitList = s.waitList
         /\ PushReady(s, t).deadList = s.deadList
         /\ PushReady(s, t).tcb = s.tcb
<1> DEFINE p == s.tcb[t].prio
           q == Append(s.ready[p], t)
           r == [s.ready EXCEPT ![p] = q]
           u == PushReady(s, t)
<1>1. p \in Priority /\ p # 0 /\ p \in 0..High
  BY DEF WellFormed, Priority, Low, High
<1>2. q \in Seq(User) /\ q \in Seq(Thread)
  BY <1>1, Ids, AppendProperties, SeqMonotonic DEF WellFormed
<1>3. u = [s EXCEPT !.ready = r]
  BY DEF PushReady, WellFormed, Store
<1> HIDE DEF p, q, u
<1>4. /\ r \in [0..High -> Seq(Thread)]
      /\ r[0] = <<Idle>>
      /\ \A l \in Priority : r[l] \in Seq(User)
  BY <1>1, <1>2 DEF WellFormed, Store, Priority, Low, High
<1> HIDE DEF r
<1>5. /\ u \in Store /\ u.ready = r /\ SameMutexes(s, u) /\ u.current = s.current
      /\ u.waitList = s.waitList /\ u.deadList = s.deadList /\ u.tcb = s.tcb
  BY <1>3, <1>4 DEF WellFormed, Store, SameMutexes
<1>6. WellFormed(u)
  BY <1>4, <1>5 DEF WellFormed, SameMutexes
<1>7. QED
  BY <1>5, <1>6 DEF u

\* The priority level whose head runs next exists, because the idle thread is
\* always there: the local newThread of schedule() is never used uninitialised.
LEMMA NextLevelExists ==
  ASSUME NEW s, WellFormed(s), NEW p \in Priority
  PROVE  NextLevel(s, p) \in 0..High /\ s.ready[NextLevel(s, p)] # <<>>
<1> DEFINE top(l) == /\ s.ready[l] # <<>>
                     /\ \A h \in (l + 1)..High : s.ready[h] = <<>>
<1>1. s.ready[0] # <<>>
  BY DEF WellFormed
<1>2. \E l \in 0..High : top(l)
  <2>1. CASE s.ready[3] # <<>>
    BY <2>1 DEF High
  <2>2. CASE s.ready[3] = <<>> /\ s.ready[2] # <<>>
    BY <2>2 DEF High
  <2>3. CASE s.ready[3] = <<>> /\ s.ready[2] = <<>> /\ s.ready[1] # <<>>
    <3>1. top(1)
      BY <2>3 DEF High
    <3>2. QED
      BY <3>1 DEF High
  <2>4. CASE s.ready[3] = <<>> /\ s.ready[2] = <<>> /\ s.ready[1] = <<>>
    <3>1. top(0)
      BY <2>4, <1>1 DEF High
    <3>2. QED
      BY <3>1 DEF High
  <2>5. QED
    BY <2>1, <2>2, <2>3, <2>4
<1>3. CASE s.ready[p] # <<>>
  BY <1>3 DEF NextLevel, Priority, Low, High
<1>4. CASE s.ready[p] = <<>>
  BY <1>2, <1>4 DEF NextLevel
<1>5. QED
  BY <1>3, <1>4

\* Taking the head of a list that is not empty leaves the idle list alone.
LEMMA PopReadyWF ==
  ASSUME NEW s, WellFormed(s), NEW l \in 0..High, s.ready[l] # <<>>
  PROVE  /\ WellFormed(PopReady(s, l))
         /\ SameMutexes(s, PopReady(s, l))
         /\ PopReady(s, l).current = s.current
         /\ PopReady(s, l).tcb = s.tcb
         /\ Head(s.ready[l]) \in Thread
<1>1. Head(s.ready[l]) \in Thread
  BY HeadTailProperties DEF WellFormed, Store
<1>2. CASE l = 0
  BY <1>1, <1>2 DEF PopReady, SameMutexes
<1>3. CASE l # 0
  <2> DEFINE q == Tail(s.ready[l])
             r == [s.ready EXCEPT ![l] = q]
             u == PopReady(s, l)
  <2>1. l \in Priority
    BY <1>3 DEF Priority, Low, High
  <2>2. q \in Seq(User) /\ q \in Seq(Thread)
    BY <2>1, Ids, HeadTailProperties, SeqMonotonic DEF WellFormed
  <2>3. u = [s EXCEPT !.ready = r]
    BY <1>3 DEF PopReady, WellFormed, Store
  <2> HIDE DEF q, u
  <2>4. /\ r \in [0..High -> Seq(Thread)]
        /\ r[0] = <<Idle>>
        /\ \A k \in Priority : r[k] \in Seq(User)
    BY <1>3, <2>1, <2>2 DEF WellFormed, Store, Priority, Low, High
  <2> HIDE DEF r
  <2>5. /\ u \in Store /\ u.ready = r /\ SameMutexes(s, u)
        /\ u.current = s.current /\ u.tcb = s.tcb
    BY <2>3, <2>4 DEF WellFormed, Store, SameMutexes
  <2>6. WellFormed(u)
    BY <2>4, <2>5 DEF WellFormed, SameMutexes
  <2>7. QED
    BY <1>1, <2>5, <2>6 DEF u
<1>4. QED
  BY <1>2, <1>3

-----------------------------------------------------------------------------
\* The scheduler.

\* Two steps that leave the mutexes alone leave them alone together.
LEMMA SameMutexesTransitive ==
  ASSUME NEW r, NEW s, NEW u, SameMutexes(r, s), SameMutexes(s, u)
  PROVE  SameMutexes(r, u)
BY DEF SameMutexes

\* A change of the TCBs leaves the mutexes, the current thread and the wait list alone.
LEMMA SameButTCBsSameMutexes ==
  ASSUME NEW s, NEW u, SameButTCBs(s, u)
  PROVE  SameMutexes(s, u) /\ u.current = s.current /\ u.waitList = s.waitList
BY DEF SameMutexes, SameButTCBs

\* Replacing the wait list.
LEMMA WaitListWF ==
  ASSUME NEW s, WellFormed(s), NEW q \in Seq(User)
  PROVE  LET u == [s EXCEPT !.waitList = q] IN WellFormed(u) /\ SameMutexes(s, u)
<1> DEFINE u == [s EXCEPT !.waitList = q]
<1>1. /\ u \in Store /\ SameMutexes(s, u) /\ u.ready = s.ready /\ u.tcb = s.tcb
  BY DEF WellFormed, Store, SameMutexes
<1> HIDE DEF u
<1>2. WellFormed(u) /\ SameMutexes(s, u)
  BY <1>1 DEF WellFormed, SameMutexes
<1>3. QED
  BY <1>2 DEF u

\* Replacing the dead list.
LEMMA DeadListWF ==
  ASSUME NEW s, WellFormed(s), NEW d \in SUBSET User
  PROVE  LET u == [s EXCEPT !.deadList = d] IN WellFormed(u) /\ SameMutexes(s, u)
<1> DEFINE u == [s EXCEPT !.deadList = d]
<1>1. /\ u \in Store /\ SameMutexes(s, u) /\ u.ready = s.ready /\ u.tcb = s.tcb
  BY DEF WellFormed, Store, SameMutexes
<1> HIDE DEF u
<1>2. WellFormed(u) /\ SameMutexes(s, u)
  BY <1>1 DEF WellFormed, SameMutexes
<1>3. QED
  BY <1>2 DEF u

\* The thread that is switched out goes to a list that may hold it.
LEMMA PutAwayWF ==
  ASSUME NEW s, WellFormed(s)
  PROVE  WellFormed(PutAway(s)) /\ SameMutexes(s, PutAway(s))
<1> DEFINE t == s.current
<1>1. t \in Thread /\ s.waitList \in Seq(User)
  BY DEF WellFormed, Store
<1>2. CASE t = Idle \/ s.tcb[t].state = "DEAD"
  BY <1>2 DEF PutAway, SameMutexes
<1>3. CASE ~ (t = Idle \/ s.tcb[t].state = "DEAD")
  <2>1. t \in User
    BY <1>1, <1>3 DEF User
  <2>2. CASE s.tcb[t].state = "WAITING"
    <3>1. Append(s.waitList, t) \in Seq(User)
      BY <1>1, <2>1, AppendProperties
    <3>2. PutAway(s) = [s EXCEPT !.waitList = Append(s.waitList, t)]
      BY <1>3, <2>2 DEF PutAway
    <3>3. QED
      BY <3>1, <3>2, WaitListWF
  <2>3. CASE s.tcb[t].state # "WAITING"
    <3> DEFINE r == SetState(s, t, "READY")
    <3>1. WellFormed(r) /\ SameMutexes(s, r)
      BY <1>1, SetStateWF, SameButTCBsSameMutexes DEF ThreadState
    <3>2. PutAway(s) = PushReady(r, t)
      BY <1>3, <2>3 DEF PutAway
    <3> HIDE DEF r
    <3>3. WellFormed(PushReady(r, t)) /\ SameMutexes(r, PushReady(r, t))
      BY <2>1, <3>1, PushReadyWF
    <3>4. QED
      BY <3>1, <3>2, <3>3, SameMutexesTransitive
  <2>4. QED
    BY <2>2, <2>3
<1>4. QED
  BY <1>2, <1>3

\* A switch makes the next thread current and keeps every list well formed.
LEMMA SwitchToNewThreadWF ==
  ASSUME NEW s, WellFormed(s), NEW n \in Thread
  PROVE  /\ WellFormed(SwitchToNewThread(s, n))
         /\ SameMutexes(s, SwitchToNewThread(s, n))
         /\ SwitchToNewThread(s, n).current = n
<1> DEFINE r == SetState(s, n, "RUNNING")
           a == PutAway(r)
           u == [a EXCEPT !.current = n]
<1>1. WellFormed(r) /\ SameMutexes(s, r)
  BY SetStateWF, SameButTCBsSameMutexes DEF ThreadState
<1>2. WellFormed(a) /\ SameMutexes(s, a)
  BY <1>1, PutAwayWF, SameMutexesTransitive
<1>3. u = SwitchToNewThread(s, n)
  BY DEF SwitchToNewThread
<1> HIDE DEF a, r
<1>4. /\ u \in Store /\ SameMutexes(a, u) /\ u.ready = a.ready /\ u.tcb = a.tcb
      /\ u.current = n
  BY <1>2 DEF WellFormed, Store, SameMutexes
<1> HIDE DEF u
<1>5. WellFormed(u)
  BY <1>2, <1>4 DEF WellFormed, SameMutexes
<1>6. QED
  BY <1>2, <1>3, <1>4, <1>5, SameMutexesTransitive

\* schedule() leaves a well-formed Store and does not touch the mutexes.
LEMMA ScheduleWF ==
  ASSUME NEW s, WellFormed(s), NEW p \in Priority
  PROVE  WellFormed(Schedule(s, p)) /\ SameMutexes(s, Schedule(s, p))
<1> DEFINE l == NextLevel(s, p)
           a == PopReady(s, l)
           n == Head(s.ready[l])
<1>1. l \in 0..High /\ s.ready[l] # <<>>
  BY NextLevelExists
<1>2. WellFormed(a) /\ SameMutexes(s, a) /\ n \in Thread
  BY <1>1, PopReadyWF
<1>3. Schedule(s, p) \in {s, SwitchToNewThread(a, n)}
  BY DEF Schedule
<1> HIDE DEF a, n
<1>4. /\ WellFormed(SwitchToNewThread(a, n))
      /\ SameMutexes(s, SwitchToNewThread(a, n))
  BY <1>2, SwitchToNewThreadWF, SameMutexesTransitive
<1>5. SameMutexes(s, s)
  BY DEF SameMutexes
<1>6. QED
  BY <1>3, <1>4, <1>5

\* sleepCurrentThread() is called by a thread other than the idle one.
LEMMA SleepCurrentThreadWF ==
  ASSUME NEW s, WellFormed(s), s.current # Idle, NEW n \in Nat \union {Forever}
  PROVE  /\ WellFormed(SleepCurrentThread(s, n))
         /\ SameMutexes(s, SleepCurrentThread(s, n))
<1> DEFINE t == s.current
           a == Sleep(s, t, n)
           p == IF n = 0 THEN s.tcb[t].prio ELSE High
<1>1. t \in User /\ t \in Thread
  BY DEF WellFormed, Store, User
<1>2. p \in Priority
  BY <1>1 DEF WellFormed, Priority, Low, High
<1>3. WellFormed(a) /\ SameMutexes(s, a)
  BY <1>1, SleepWF, SameButTCBsSameMutexes
<1>4. SleepCurrentThread(s, n) = Schedule(a, p)
  BY DEF SleepCurrentThread
<1> HIDE DEF a, p
<1>5. QED
  BY <1>2, <1>3, <1>4, ScheduleWF, SameMutexesTransitive

\* The flag waitingOnIO of one thread changes.
LEMMA IOFlagWF ==
  ASSUME NEW s, WellFormed(s), NEW t \in Thread, NEW b \in BOOLEAN
  PROVE  LET u == [s EXCEPT !.tcb[t].io = b] IN WellFormed(u) /\ SameMutexes(s, u)
<1> DEFINE r == [s.tcb[t] EXCEPT !.io = b]
           u == [s EXCEPT !.tcb[t].io = b]
<1>1. r \in TCB /\ r.prio = s.tcb[t].prio
  BY TCBOfThread DEF TCB
<1>2. u = [s EXCEPT !.tcb = [s.tcb EXCEPT ![t] = r]]
  BY DEF WellFormed, Store
<1> HIDE DEF r, u
<1>3. WellFormed(u) /\ SameMutexes(s, u)
  BY <1>1, <1>2, UpdateTCB, SameButTCBsSameMutexes
<1>4. QED
  BY <1>3 DEF u

\* The number of ticks to sleep of one thread changes.
LEMMA TicksWF ==
  ASSUME NEW s, WellFormed(s), NEW t \in Thread, NEW n \in Nat \union {Forever}
  PROVE  LET u == [s EXCEPT !.tcb[t].ticks = n] IN WellFormed(u) /\ SameMutexes(s, u)
<1> DEFINE r == [s.tcb[t] EXCEPT !.ticks = n]
           u == [s EXCEPT !.tcb[t].ticks = n]
<1>1. r \in TCB /\ r.prio = s.tcb[t].prio
  BY TCBOfThread DEF TCB, Forever
<1>2. u = [s EXCEPT !.tcb = [s.tcb EXCEPT ![t] = r]]
  BY DEF WellFormed, Store
<1> HIDE DEF r, u
<1>3. WellFormed(u) /\ SameMutexes(s, u)
  BY <1>1, <1>2, UpdateTCB, SameButTCBsSameMutexes
<1>4. QED
  BY <1>3 DEF u

\* waitCurrentThreadOnIO() keeps the Store well formed.
LEMMA WaitCurrentThreadOnIOWF ==
  ASSUME NEW s, WellFormed(s)
  PROVE  /\ WellFormed(WaitCurrentThreadOnIO(s))
         /\ SameMutexes(s, WaitCurrentThreadOnIO(s))
<1> DEFINE t == s.current
           a == SetState(s, t, "WAITING")
           b == [a EXCEPT !.tcb[t].io = TRUE]
<1>1. t \in Thread /\ "WAITING" \in ThreadState
  BY DEF WellFormed, Store, ThreadState
<1>2. WellFormed(a) /\ SameMutexes(s, a)
  BY <1>1, SetStateWF, SameButTCBsSameMutexes
<1>3. WaitCurrentThreadOnIO(s) = Schedule(b, High)
  BY DEF WaitCurrentThreadOnIO
<1> HIDE DEF a
<1>4. WellFormed(b) /\ SameMutexes(s, b)
  BY <1>1, <1>2, IOFlagWF, SameMutexesTransitive
<1> HIDE DEF b
<1>5. High \in Priority
  BY DEF Priority, Low, High
<1>6. QED
  BY <1>3, <1>4, <1>5, ScheduleWF, SameMutexesTransitive

-----------------------------------------------------------------------------
\* Waking a thread early, and the life of a thread.

\* A thread wakes: ready, with no ticks left to sleep, off the wait list.
LEMMA WakeWF ==
  ASSUME NEW s, WellFormed(s), NEW t \in User, NEW q \in Seq(User),
         NEW a, WellFormed(a), SameMutexes(s, a)
  PROVE  LET u == [PushReady(SetState(a, t, "READY"), t) EXCEPT !.waitList = q]
         IN  WellFormed(u) /\ SameMutexes(s, u)
<1> DEFINE b == SetState(a, t, "READY")
           c == PushReady(b, t)
<1>1. "READY" \in ThreadState /\ t \in Thread
  BY Ids DEF ThreadState
<1>2. WellFormed(b) /\ SameMutexes(s, b)
  BY <1>1, SetStateWF, SameButTCBsSameMutexes, SameMutexesTransitive
<1> HIDE DEF b
<1>3. WellFormed(c) /\ SameMutexes(s, c)
  BY <1>2, PushReadyWF, SameMutexesTransitive
<1> HIDE DEF c
<1>4. LET u == [c EXCEPT !.waitList = q] IN WellFormed(u) /\ SameMutexes(s, u)
  BY <1>3, WaitListWF, SameMutexesTransitive
<1>5. QED
  BY <1>4 DEF b, c

\* removeFromWaitlistEarly() keeps the Store well formed.
LEMMA RemoveFromWaitlistEarlyWF ==
  ASSUME NEW s, WellFormed(s), NEW t \in User
  PROVE  /\ WellFormed(RemoveFromWaitlistEarly(s, t))
         /\ SameMutexes(s, RemoveFromWaitlistEarly(s, t))
<1>1. CASE ~ OnWaitList(s, t)
  BY <1>1 DEF RemoveFromWaitlistEarly, SameMutexes
<1>2. CASE OnWaitList(s, t)
  <2> DEFINE i == CHOOSE i \in 1..Len(s.waitList) : IsFirstAt(s.waitList, t, i)
             q == RemoveAt(s.waitList, i)
             a == Sleep(s, t, 0)
  <2>1. i \in 1..Len(s.waitList)
    BY <1>2 DEF OnWaitList
  <2>2. q \in Seq(User)
    BY <2>1, RemoveAtType DEF WellFormed, Store
  <2>3. WellFormed(a) /\ SameMutexes(s, a)
    BY Ids, SleepWF, SameButTCBsSameMutexes
  <2>4. RemoveFromWaitlistEarly(s, t) =
          [PushReady(SetState(a, t, "READY"), t) EXCEPT !.waitList = q]
    BY <1>2 DEF RemoveFromWaitlistEarly
  <2> HIDE DEF q, a
  <2>5. QED
    BY <2>2, <2>3, <2>4, WakeWF
<1>3. QED
  BY <1>1, <1>2

\* The priority that schedule() is called with nearly everywhere.
LEMMA HighIsAPriority == High \in Priority
BY DEF Priority, Low, High

\* scheduleThreadEarly() keeps the Store well formed.
LEMMA ScheduleThreadEarlyWF ==
  ASSUME NEW s, WellFormed(s), NEW t \in User
  PROVE  /\ WellFormed(ScheduleThreadEarly(s, t))
         /\ SameMutexes(s, ScheduleThreadEarly(s, t))
<1> DEFINE a == RemoveFromWaitlistEarly(s, t)
<1>1. WellFormed(a) /\ SameMutexes(s, a)
  BY RemoveFromWaitlistEarlyWF
<1>2. ScheduleThreadEarly(s, t) \in {s, Schedule(a, High)}
  BY DEF ScheduleThreadEarly
<1> HIDE DEF a
<1>3. WellFormed(Schedule(a, High)) /\ SameMutexes(s, Schedule(a, High))
  BY <1>1, HighIsAPriority, ScheduleWF, SameMutexesTransitive
<1>4. QED
  BY <1>2, <1>3 DEF SameMutexes

\* A new thread takes the next id; the ids of the others do not change.
LEMMA InsertThreadWF ==
  ASSUME NEW s, WellFormed(s), s.numThreads \in Thread, NEW p \in Priority
  PROVE  /\ WellFormed(InsertThread(s, p))
         /\ InsertThread(s, p).mutex = s.mutex
<1> DEFINE n == s.numThreads
           r == NewTCB("DEAD", p)
           f == [s.tcb EXCEPT ![n] = r]
           d == s.deadList \union {n}
           u == InsertThread(s, p)
<1>1. n \in User /\ n + 1 \in Thread \union {MaxThread + 1} /\ n + 1 > Idle
  BY IdsAssumption DEF WellFormed, User, Idle, Thread
<1>2. r \in TCB /\ r.prio \in Priority
  <2>1. "DEAD" \in ThreadState /\ p \in 0..High /\ <<>> \in Seq(Entry)
    BY EmptySeq DEF ThreadState, Priority, Low, High
  <2>2. QED
    BY <2>1 DEF NewTCB, TCB
<1>3. f \in [Thread -> TCB] /\ \A t \in User : f[t].prio \in Priority
  <2> HIDE DEF r
  <2> QED
    BY <1>1, <1>2, Ids DEF WellFormed, Store
<1>4. d \in SUBSET User
  BY <1>1 DEF WellFormed, Store
<1>5. u = [s EXCEPT !.tcb = f, !.deadList = d, !.numThreads = n + 1]
  BY DEF InsertThread, WellFormed, Store
<1> HIDE DEF n, r, f, d, u
<1>6. /\ u \in Store /\ u.ready = s.ready /\ u.tcb = f /\ u.numThreads = n + 1
      /\ u.mutex = s.mutex
  BY <1>1, <1>3, <1>4, <1>5 DEF WellFormed, Store
<1>7. WellFormed(u)
  BY <1>1, <1>3, <1>6 DEF WellFormed
<1>8. QED
  BY <1>6, <1>7 DEF u

\* activateDeadThread() keeps the Store well formed: dead threads are never idle.
LEMMA ActivateDeadThreadWF ==
  ASSUME NEW s, WellFormed(s), NEW t \in Thread
  PROVE  /\ WellFormed(ActivateDeadThread(s, t))
         /\ SameMutexes(s, ActivateDeadThread(s, t))
<1>1. CASE t \notin s.deadList
  BY <1>1 DEF ActivateDeadThread, SameMutexes
<1>2. CASE t \in s.deadList
  <2> DEFINE b == SetState(s, t, "READY")
             a == PushReady(b, t)
  <2>1. t \in User /\ "READY" \in ThreadState
    BY <1>2 DEF WellFormed, Store, ThreadState
  <2>2. WellFormed(b) /\ SameMutexes(s, b)
    BY <2>1, SetStateWF, SameButTCBsSameMutexes
  <2>3. ActivateDeadThread(s, t) \in {a, Schedule(a, High)}
    BY <1>2 DEF ActivateDeadThread
  <2> HIDE DEF b
  <2>4. WellFormed(a) /\ SameMutexes(s, a)
    BY <2>1, <2>2, PushReadyWF, SameMutexesTransitive
  <2> HIDE DEF a
  <2>5. WellFormed(Schedule(a, High)) /\ SameMutexes(s, Schedule(a, High))
    BY <2>4, HighIsAPriority, ScheduleWF, SameMutexesTransitive
  <2>6. QED
    BY <2>3, <2>4, <2>5
<1>3. QED
  BY <1>1, <1>2

\* deleteDeadThread() keeps the Store well formed.
LEMMA DeleteDeadThreadWF ==
  ASSUME NEW s, WellFormed(s), NEW t \in Thread
  PROVE  /\ WellFormed(DeleteDeadThread(s, t))
         /\ SameMutexes(s, DeleteDeadThread(s, t))
<1> DEFINE r == [s.tcb[t] EXCEPT !.deleted = TRUE]
           u == [s EXCEPT !.tcb[t].deleted = TRUE]
           a == IF t \in s.deadList THEN u ELSE s
<1>1. r \in TCB /\ r.prio = s.tcb[t].prio
  BY TCBOfThread DEF TCB
<1>2. u = [s EXCEPT !.tcb = [s.tcb EXCEPT ![t] = r]]
  BY DEF WellFormed, Store
<1>3. DeleteDeadThread(s, t) = Schedule(a, High)
  BY DEF DeleteDeadThread
<1> HIDE DEF r, u
<1>4. WellFormed(u) /\ SameMutexes(s, u)
  BY <1>1, <1>2, UpdateTCB, SameButTCBsSameMutexes
<1>5. WellFormed(a) /\ SameMutexes(s, a)
  BY <1>4 DEF SameMutexes
<1> HIDE DEF a
<1>6. QED
  BY <1>3, <1>5, HighIsAPriority, ScheduleWF, SameMutexesTransitive

\* The end of terminate() keeps the Store well formed.
LEMMA MarkDeadWF ==
  ASSUME NEW s, WellFormed(s), NEW t \in User
  PROVE  WellFormed(MarkDead(s, t)) /\ SameMutexes(s, MarkDead(s, t))
<1> DEFINE b == SetState(s, t, "DEAD")
           a == [b EXCEPT !.deadList = b.deadList \union {t}]
<1>1. "DEAD" \in ThreadState /\ t \in Thread
  BY Ids DEF ThreadState
<1>2. WellFormed(b) /\ SameMutexes(s, b)
  BY <1>1, SetStateWF, SameButTCBsSameMutexes
<1>3. MarkDead(s, t) = Schedule(a, High)
  BY DEF MarkDead
<1> HIDE DEF b
<1>4. b.deadList \union {t} \in SUBSET User
  BY <1>2 DEF WellFormed, Store
<1>5. WellFormed(a) /\ SameMutexes(s, a)
  BY <1>2, <1>4, DeadListWF, SameMutexesTransitive
<1> HIDE DEF a
<1>6. QED
  BY <1>3, <1>5, HighIsAPriority, ScheduleWF, SameMutexesTransitive

-----------------------------------------------------------------------------
\* Where the threads are

\* How often the wait list, and the ready list of level p, hold a thread.
Waits(s, t) == Occ(s.waitList, {t})
Readies(s, t, p) == Occ(s.ready[p], {t})

\* A thread is in two Stores in the same state and in the same lists.
SamePlace(s, u, t) ==
  /\ u.tcb[t].state = s.tcb[t].state
  /\ Waits(u, t) = Waits(s, t)
  /\ \A p \in Priority : Readies(u, t, p) = Readies(s, t, p)
  /\ t \in u.deadList <=> t \in s.deadList
  /\ t = u.current <=> t = s.current

\* No thread but those in T changes its state or its lists.
OnlyMoves(s, u, T) == \A v \in User \ T : SamePlace(s, u, v)

\* What a thread is, beside its state and its ticks, is the same in two Stores.
SameData(s, u) ==
  \A v \in Thread : /\ u.tcb[v].prio = s.tcb[v].prio
                    /\ u.tcb[v].io = s.tcb[v].io
                    /\ u.tcb[v].entries = s.tcb[v].entries

\* Two steps compose.
LEMMA MovesCompose ==
  ASSUME NEW r, NEW s, NEW u, NEW T, NEW V,
         OnlyMoves(r, s, T), OnlyMoves(s, u, V)
  PROVE  OnlyMoves(r, u, T \union V)
<1> SUFFICES ASSUME NEW v \in User \ (T \union V) PROVE SamePlace(r, u, v)
  BY DEF OnlyMoves
<1>1. SamePlace(r, s, v) /\ SamePlace(s, u, v)
  BY DEF OnlyMoves
<1>2. QED
  BY <1>1 DEF SamePlace

\* So do two steps that keep what threads are.
LEMMA SameDataTransitive ==
  ASSUME NEW r, NEW s, NEW u, SameData(r, s), SameData(s, u)
  PROVE  SameData(r, u)
BY DEF SameData

\* The numbers of occurrences are natural numbers.
LEMMA PlacesAreNat ==
  ASSUME NEW s, WellFormed(s), NEW t
  PROVE  Waits(s, t) \in Nat /\ \A p \in Priority : Readies(s, t, p) \in Nat
<1>1. s.waitList \in Seq(User) /\ \A p \in Priority : s.ready[p] \in Seq(User)
  BY DEF WellFormed, Store
<1>2. QED
  BY <1>1, OccNat DEF Waits, Readies

\* A thread's state changes: it keeps its lists, and the others keep everything.
LEMMA SetStatePlace ==
  ASSUME NEW s, WellFormed(s), NEW t \in Thread, NEW x \in ThreadState
  PROVE  LET u == SetState(s, t, x)
         IN  /\ OnlyMoves(s, u, {t}) /\ SameData(s, u) /\ u.tcb[t].state = x
             /\ \A v \in User : /\ Waits(u, v) = Waits(s, v)
                                /\ \A p \in Priority : Readies(u, v, p) = Readies(s, v, p)
             /\ u.deadList = s.deadList /\ u.current = s.current
<1> DEFINE u == SetState(s, t, x)
<1>1. SameButTCBs(s, u)
  BY SetStateWF
<1>2. /\ \A v \in Thread \ {t} : u.tcb[v] = s.tcb[v]
      /\ u.tcb[t].state = x
      /\ u.tcb[t].prio = s.tcb[t].prio /\ u.tcb[t].io = s.tcb[t].io
      /\ u.tcb[t].entries = s.tcb[t].entries
  BY DEF SetState, WellFormed, Store, TCB
<1> HIDE DEF u
<1>3. /\ \A v \in User : /\ Waits(u, v) = Waits(s, v)
                         /\ \A p \in Priority : Readies(u, v, p) = Readies(s, v, p)
      /\ u.deadList = s.deadList /\ u.current = s.current
  BY <1>1 DEF SameButTCBs, Waits, Readies
<1>4. OnlyMoves(s, u, {t})
  BY <1>2, <1>3, Ids DEF OnlyMoves, SamePlace
<1>5. SameData(s, u)
  BY <1>2 DEF SameData
<1>6. QED
  BY <1>2, <1>3, <1>4, <1>5 DEF u

\* The other changes of a TCB move nobody.
LEMMA NothingMoves ==
  ASSUME NEW s, NEW u, SameButTCBs(s, u),
         \A v \in Thread : u.tcb[v].state = s.tcb[v].state
  PROVE  OnlyMoves(s, u, {})
BY Ids DEF SameButTCBs, OnlyMoves, SamePlace, Waits, Readies

\* A thread joins the ready list of its priority once more.
LEMMA PushReadyPlace ==
  ASSUME NEW s, WellFormed(s), NEW t \in User
  PROVE  LET u == PushReady(s, t)
         IN  /\ OnlyMoves(s, u, {t}) /\ SameData(s, u)
             /\ u.tcb[t].state = s.tcb[t].state
             /\ Waits(u, t) = Waits(s, t)
             /\ \A p \in Priority :
                  Readies(u, t, p) = Readies(s, t, p) + (IF p = s.tcb[t].prio THEN 1 ELSE 0)
             /\ u.deadList = s.deadList /\ u.current = s.current
<1> DEFINE u == PushReady(s, t)
           k == s.tcb[t].prio
<1>1. /\ u.current = s.current /\ u.waitList = s.waitList /\ u.deadList = s.deadList
      /\ u.tcb = s.tcb
  BY PushReadyWF
<1>2. k \in Priority /\ \A p \in Priority : s.ready[p] \in Seq(User)
  BY DEF WellFormed
<1>3. /\ u.ready[k] = Append(s.ready[k], t)
      /\ \A p \in Priority \ {k} : u.ready[p] = s.ready[p]
  BY <1>2 DEF PushReady, WellFormed, Store, Priority, Low, High
<1> HIDE DEF u, k
<1>4. \A v \in User, p \in Priority :
        Readies(u, v, p) = Readies(s, v, p) + (IF p = k /\ v = t THEN 1 ELSE 0)
  <2> SUFFICES ASSUME NEW v \in User, NEW p \in Priority
               PROVE  Readies(u, v, p) = Readies(s, v, p) + (IF p = k /\ v = t THEN 1 ELSE 0)
    OBVIOUS
  <2>1. Readies(s, v, p) \in Nat
    BY PlacesAreNat
  <2>2. CASE p # k
    BY <1>3, <2>1, <2>2 DEF Readies
  <2>3. CASE p = k
    <3>1. Occ(Append(s.ready[k], t), {v}) = Occ(s.ready[k], {v}) + (IF t \in {v} THEN 1 ELSE 0)
      BY <1>2, OccAppend
    <3>2. QED
      BY <1>3, <2>3, <3>1 DEF Readies
  <2>4. QED
    BY <2>2, <2>3
<1>5. \A v \in User, p \in Priority : v # t => Readies(u, v, p) = Readies(s, v, p)
  BY <1>4, PlacesAreNat
<1>6. \A v \in User : Waits(u, v) = Waits(s, v)
  BY <1>1 DEF Waits
<1>7. OnlyMoves(s, u, {t}) /\ SameData(s, u)
  BY <1>1, <1>5, <1>6 DEF OnlyMoves, SamePlace, SameData
<1>8. \A p \in Priority : Readies(u, t, p) = Readies(s, t, p) + (IF p = k THEN 1 ELSE 0)
  BY <1>4
<1>9. QED
  BY <1>1, <1>6, <1>7, <1>8 DEF u, k

\* The first thread of a level leaves it.
LEMMA PopReadyPlace ==
  ASSUME NEW s, WellFormed(s), NEW l \in Priority, s.ready[l] # <<>>
  PROVE  LET u == PopReady(s, l)
             n == Head(s.ready[l])
         IN  /\ n \in User
             /\ OnlyMoves(s, u, {n}) /\ SameData(s, u)
             /\ u.tcb[n].state = s.tcb[n].state
             /\ Waits(u, n) = Waits(s, n)
             /\ \A p \in Priority :
                  Readies(u, n, p) = Readies(s, n, p) - (IF p = l THEN 1 ELSE 0)
             /\ Readies(s, n, l) > 0
             /\ u.deadList = s.deadList /\ u.current = s.current
<1> DEFINE u == PopReady(s, l)
           n == Head(s.ready[l])
<1>1. l # 0 /\ \A p \in Priority : s.ready[p] \in Seq(User)
  BY DEF WellFormed, Priority, Low
<1>2. n \in User
  BY <1>1, HeadTailProperties
<1>3. /\ u.current = s.current /\ u.waitList = s.waitList /\ u.deadList = s.deadList
      /\ u.tcb = s.tcb
      /\ u.ready[l] = Tail(s.ready[l])
      /\ \A p \in Priority \ {l} : u.ready[p] = s.ready[p]
  BY <1>1 DEF PopReady, WellFormed, Store, Priority, Low, High
<1> HIDE DEF u
<1>4. \A v \in User, p \in Priority :
        Readies(u, v, p) = Readies(s, v, p) - (IF p = l /\ v = n THEN 1 ELSE 0)
  <2> SUFFICES ASSUME NEW v \in User, NEW p \in Priority
               PROVE  Readies(u, v, p) = Readies(s, v, p) - (IF p = l /\ v = n THEN 1 ELSE 0)
    OBVIOUS
  <2>1. Readies(s, v, p) \in Nat
    BY PlacesAreNat
  <2>2. CASE p # l
    BY <1>3, <2>1, <2>2 DEF Readies
  <2>3. CASE p = l
    <3>1. Occ(Tail(s.ready[l]), {v}) = Occ(s.ready[l], {v}) - (IF n \in {v} THEN 1 ELSE 0)
      BY <1>1, OccTail
    <3>2. QED
      BY <1>3, <2>3, <3>1 DEF Readies
  <2>4. QED
    BY <2>2, <2>3
<1> HIDE DEF n
<1>5. \A v \in User, p \in Priority : v # n => Readies(u, v, p) = Readies(s, v, p)
  <2>1. \A v \in User, p \in Priority : Readies(s, v, p) \in Nat
    BY PlacesAreNat
  <2>2. \A v \in User, p \in Priority : v # n => Readies(u, v, p) = Readies(s, v, p) - 0
    BY <1>4
  <2>3. QED
    BY <2>1, <2>2
<1>6. \A v \in User : Waits(u, v) = Waits(s, v)
  BY <1>3 DEF Waits
<1>7. OnlyMoves(s, u, {n}) /\ SameData(s, u)
  BY <1>3, <1>5, <1>6 DEF OnlyMoves, SamePlace, SameData
<1>8. \A p \in Priority : Readies(u, n, p) = Readies(s, n, p) - (IF p = l THEN 1 ELSE 0)
  BY <1>2, <1>4
<1>9. Readies(s, n, l) > 0
  <2>1. Readies(s, n, l) \in Nat /\ Readies(s, n, l) # 0
    <3>1. s.ready[l] \in Seq(User)
      BY <1>1
    <3>2. 1 \in DOMAIN s.ready[l] /\ s.ready[l][1] \in {n}
      BY <3>1, LenProperties, EmptySeq DEF n
    <3>3. QED
      BY <3>1, <3>2, OccNat DEF Readies
  <2>2. QED
    BY <2>1
<1>10. QED
  BY <1>2, <1>3, <1>6, <1>7, <1>8, <1>9 DEF u, n

\* A thread joins the wait list once more.
LEMMA AppendWaitPlace ==
  ASSUME NEW s, WellFormed(s), NEW t \in User
  PROVE  LET u == [s EXCEPT !.waitList = Append(@, t)]
         IN  /\ OnlyMoves(s, u, {t}) /\ SameData(s, u)
             /\ u.tcb[t].state = s.tcb[t].state
             /\ Waits(u, t) = Waits(s, t) + 1
             /\ \A p \in Priority : Readies(u, t, p) = Readies(s, t, p)
             /\ u.deadList = s.deadList /\ u.current = s.current
<1> DEFINE u == [s EXCEPT !.waitList = Append(@, t)]
<1>1. /\ u.current = s.current /\ u.waitList = Append(s.waitList, t)
      /\ u.deadList = s.deadList /\ u.tcb = s.tcb /\ u.ready = s.ready
  BY DEF WellFormed, Store
<1>2. s.waitList \in Seq(User)
  BY DEF WellFormed, Store
<1> HIDE DEF u
<1>3. \A v \in User : Waits(u, v) = Waits(s, v) + (IF v = t THEN 1 ELSE 0)
  <2> SUFFICES ASSUME NEW v \in User
               PROVE  Waits(u, v) = Waits(s, v) + (IF v = t THEN 1 ELSE 0)
    OBVIOUS
  <2>1. Occ(Append(s.waitList, t), {v}) = Occ(s.waitList, {v}) + (IF t \in {v} THEN 1 ELSE 0)
    BY <1>2, OccAppend
  <2>2. QED
    BY <1>1, <2>1 DEF Waits
<1>4. \A v \in User : v # t => Waits(u, v) = Waits(s, v)
  BY <1>3, PlacesAreNat
<1>5. \A v \in User, p \in Priority : Readies(u, v, p) = Readies(s, v, p)
  BY <1>1 DEF Readies
<1>6. OnlyMoves(s, u, {t}) /\ SameData(s, u)
  BY <1>1, <1>4, <1>5 DEF OnlyMoves, SamePlace, SameData
<1>7. QED
  BY <1>1, <1>3, <1>5, <1>6 DEF u

\* The thread at a position of the wait list leaves it.
LEMMA RemoveWaitPlace ==
  ASSUME NEW s, WellFormed(s), NEW i \in 1..Len(s.waitList)
  PROVE  LET u == [s EXCEPT !.waitList = RemoveAt(@, i)]
             t == s.waitList[i]
         IN  /\ t \in User
             /\ OnlyMoves(s, u, {t}) /\ SameData(s, u)
             /\ u.tcb[t].state = s.tcb[t].state
             /\ Waits(u, t) = Waits(s, t) - 1 /\ Waits(s, t) > 0
             /\ \A p \in Priority : Readies(u, t, p) = Readies(s, t, p)
             /\ u.deadList = s.deadList /\ u.current = s.current
<1> DEFINE u == [s EXCEPT !.waitList = RemoveAt(@, i)]
           t == s.waitList[i]
<1>1. /\ u.current = s.current /\ u.waitList = RemoveAt(s.waitList, i)
      /\ u.deadList = s.deadList /\ u.tcb = s.tcb /\ u.ready = s.ready
  BY DEF WellFormed, Store
<1>2. s.waitList \in Seq(User)
  BY DEF WellFormed, Store
<1>3. t \in User
  BY <1>2, ElementOfSeq
<1> HIDE DEF u
<1>4. \A v \in User : Waits(u, v) = Waits(s, v) - (IF v = t THEN 1 ELSE 0)
  <2> SUFFICES ASSUME NEW v \in User
               PROVE  Waits(u, v) = Waits(s, v) - (IF v = t THEN 1 ELSE 0)
    OBVIOUS
  <2>1. Occ(RemoveAt(s.waitList, i), {v})
          = Occ(s.waitList, {v}) - (IF s.waitList[i] \in {v} THEN 1 ELSE 0)
    BY <1>2, OccRemoveAt
  <2>2. QED
    BY <1>1, <2>1 DEF Waits
<1> HIDE DEF t
<1>5. \A v \in User : v # t => Waits(u, v) = Waits(s, v)
  BY <1>4, PlacesAreNat
<1>6. \A v \in User, p \in Priority : Readies(u, v, p) = Readies(s, v, p)
  BY <1>1 DEF Readies
<1>7. OnlyMoves(s, u, {t}) /\ SameData(s, u)
  BY <1>1, <1>5, <1>6 DEF OnlyMoves, SamePlace, SameData
<1>8. Waits(s, t) > 0
  <2>1. i \in DOMAIN s.waitList /\ s.waitList[i] \in {t}
    BY <1>2, LenProperties DEF t
  <2>2. Waits(s, t) \in Nat /\ Waits(s, t) # 0
    BY <1>2, <2>1, OccNat DEF Waits
  <2>3. QED
    BY <2>2
<1>9. QED
  BY <1>1, <1>3, <1>4, <1>6, <1>7, <1>8 DEF u, t

\* The thread that is switched out goes where its state says, and nobody else moves.
LEMMA PutAwayPlace ==
  ASSUME NEW s, WellFormed(s)
  PROVE  LET u == PutAway(s)
             c == s.current
             x == s.tcb[c].state
         IN  /\ OnlyMoves(s, u, {c}) /\ SameData(s, u)
             /\ u.deadList = s.deadList /\ u.current = c
             /\ c \in User =>
                  /\ u.tcb[c].state = (IF x \in {"DEAD", "WAITING"} THEN x ELSE "READY")
                  /\ Waits(u, c) = Waits(s, c) + (IF x = "WAITING" THEN 1 ELSE 0)
                  /\ \A p \in Priority :
                       Readies(u, c, p) = Readies(s, c, p) +
                         (IF x \notin {"DEAD", "WAITING"} /\ p = s.tcb[c].prio THEN 1 ELSE 0)
<1> DEFINE u == PutAway(s)
           c == s.current
           x == s.tcb[c].state
<1>0. Waits(s, c) \in Nat /\ \A p \in Priority : Readies(s, c, p) \in Nat
  BY PlacesAreNat
<1>1. c \in Thread /\ (c # Idle => c \in User)
  BY DEF WellFormed, Store, User
<1>2. CASE c = Idle \/ x = "DEAD"
  <2>1. u = s /\ (c \in User => x = "DEAD")
    BY <1>2, Ids DEF PutAway, User
  <2> HIDE DEF u
  <2>2. OnlyMoves(s, u, {c}) /\ SameData(s, u)
    BY <2>1 DEF OnlyMoves, SamePlace, SameData
  <2>3. QED
    BY <1>0, <2>1, <2>2 DEF u
<1>3. CASE c \in User /\ x = "WAITING"
  <2>1. u = [s EXCEPT !.waitList = Append(@, c)]
    BY <1>3 DEF PutAway, User
  <2> HIDE DEF u
  <2>2. /\ OnlyMoves(s, u, {c}) /\ SameData(s, u)
        /\ u.tcb[c].state = s.tcb[c].state
        /\ Waits(u, c) = Waits(s, c) + 1
        /\ \A p \in Priority : Readies(u, c, p) = Readies(s, c, p)
        /\ u.deadList = s.deadList /\ u.current = s.current
    <3>1. c \in User
      BY <1>3
    <3> HIDE DEF c
    <3>2. QED
      BY <2>1, <3>1, AppendWaitPlace
  <2>3. \A p \in Priority : Readies(u, c, p) = Readies(s, c, p) + 0
    BY <1>0, <2>2
  <2>4. u.tcb[c].state = "WAITING" /\ x = "WAITING"
    BY <1>3, <2>2
  <2> HIDE DEF x
  <2>5. QED
    BY <1>3, <2>2, <2>3, <2>4 DEF u, x
<1>4. CASE c \in User /\ x \notin {"DEAD", "WAITING"}
  <2> DEFINE r == SetState(s, c, "READY")
  <2>1. u = PushReady(r, c)
    BY <1>4 DEF PutAway, User
  <2>0. "READY" \in ThreadState
    BY DEF ThreadState
  <2>2. /\ WellFormed(r) /\ OnlyMoves(s, r, {c}) /\ SameData(s, r) /\ r.tcb[c].state = "READY"
        /\ Waits(r, c) = Waits(s, c)
        /\ \A p \in Priority : Readies(r, c, p) = Readies(s, c, p)
        /\ r.deadList = s.deadList /\ r.current = s.current
    <3>1. c \in User
      BY <1>4
    <3> HIDE DEF c
    <3>2. WellFormed(r)
      BY <1>1, <2>0, SetStateWF
    <3>3. QED
      BY <1>1, <2>0, <3>1, <3>2, SetStatePlace
  <2> HIDE DEF r, u
  <2>3. /\ OnlyMoves(r, u, {c}) /\ SameData(r, u)
        /\ u.tcb[c].state = r.tcb[c].state
        /\ Waits(u, c) = Waits(r, c)
        /\ \A p \in Priority :
             Readies(u, c, p) = Readies(r, c, p) + (IF p = r.tcb[c].prio THEN 1 ELSE 0)
        /\ u.deadList = r.deadList /\ u.current = r.current
    BY <1>4, <2>1, <2>2, PushReadyPlace
  <2>4. OnlyMoves(s, u, {c})
    <3>1. OnlyMoves(s, u, {c} \union {c})
      BY <2>2, <2>3, MovesCompose
    <3>2. {c} \union {c} = {c}
      OBVIOUS
    <3>3. QED
      BY <3>1, <3>2
  <2>5. SameData(s, u) /\ r.tcb[c].prio = s.tcb[c].prio
    BY <1>1, <2>2, <2>3, SameDataTransitive DEF SameData
  <2>6. \A p \in Priority :
          Readies(u, c, p) = Readies(s, c, p) + (IF p = s.tcb[c].prio THEN 1 ELSE 0)
    BY <2>2, <2>3, <2>5
  <2>7. u.tcb[c].state = "READY" /\ Waits(u, c) = Waits(s, c) + 0
    BY <1>0, <2>2, <2>3
  <2>8. u.deadList = s.deadList /\ u.current = c
    BY <2>2, <2>3
  <2> HIDE DEF x
  <2>9. QED
    BY <1>4, <2>4, <2>5, <2>6, <2>7, <2>8 DEF u, x
<1>5. QED
  BY <1>1, <1>2, <1>3, <1>4

\* What a switch does: thread n was the first of level l and is current now; the
\* thread that was current is where its state says.
Switched(s, u, l, n) ==
  LET c == s.current
      x == s.tcb[c].state
  IN  /\ OnlyMoves(s, u, {n, c}) /\ SameData(s, u)
      /\ u.deadList = s.deadList /\ u.current = n
      /\ n \in User <=> l # 0
      /\ n \in User => Readies(s, n, l) > 0
      /\ n \in User /\ n # c =>
           /\ u.tcb[n].state = "RUNNING"
           /\ Waits(u, n) = Waits(s, n)
           /\ \A p \in Priority :
                Readies(u, n, p) = Readies(s, n, p) - (IF p = l THEN 1 ELSE 0)
      /\ c \in User /\ n # c =>
           /\ u.tcb[c].state = (IF x \in {"DEAD", "WAITING"} THEN x ELSE "READY")
           /\ Waits(u, c) = Waits(s, c) + (IF x = "WAITING" THEN 1 ELSE 0)
           /\ \A p \in Priority :
                Readies(u, c, p) = Readies(s, c, p) +
                  (IF x \notin {"DEAD", "WAITING"} /\ p = s.tcb[c].prio THEN 1 ELSE 0)
      /\ n \in User /\ n = c =>
           /\ u.tcb[n].state = "READY"
           /\ \A p \in Priority :
                Readies(u, n, p) = Readies(s, n, p) - (IF p = l THEN 1 ELSE 0)
                                     + (IF p = s.tcb[n].prio THEN 1 ELSE 0)

\* The switch of schedule().
LEMMA SwitchPlace ==
  ASSUME NEW s, WellFormed(s), NEW l \in 0..High, s.ready[l] # <<>>
  PROVE  LET n == Head(s.ready[l])
         IN  Switched(s, SwitchToNewThread(PopReady(s, l), n), l, n)
<1> DEFINE n == Head(s.ready[l])
           a == PopReady(s, l)
           b == SetState(a, n, "RUNNING")
           d == PutAway(b)
           u == SwitchToNewThread(a, n)
           c == s.current
           x == s.tcb[c].state
<1>1. /\ WellFormed(a) /\ a.current = c /\ a.tcb = s.tcb /\ n \in Thread
  BY PopReadyWF
<1>2. c \in Thread
  BY DEF WellFormed, Store
<1>3. n \in User <=> l # 0
  <2>1. l = 0 => n = Idle
    BY DEF WellFormed
  <2>2. l # 0 => l \in Priority
    BY DEF Priority, Low, High
  <2>3. QED
    BY <2>1, <2>2, PopReadyPlace DEF User
<1>4. /\ OnlyMoves(s, a, {n}) /\ a.deadList = s.deadList /\ SameData(s, a)
      /\ n \in User => /\ Readies(s, n, l) > 0
                       /\ Waits(a, n) = Waits(s, n)
                       /\ \A p \in Priority :
                            Readies(a, n, p) = Readies(s, n, p) - (IF p = l THEN 1 ELSE 0)
  <2>1. CASE l = 0
    <3>1. a = s /\ n \notin User
      BY <1>3, <2>1 DEF PopReady
    <3> HIDE DEF n, a
    <3>2. QED
      BY <3>1 DEF OnlyMoves, SamePlace, SameData
  <2>2. CASE l # 0
    <3>1. l \in Priority
      BY <2>2 DEF Priority, Low, High
    <3>2. QED
      BY <3>1, PopReadyPlace
  <2>3. QED
    BY <2>1, <2>2
<1> HIDE DEF a, n
<1>5. /\ WellFormed(b) /\ OnlyMoves(a, b, {n}) /\ SameData(a, b) /\ b.tcb[n].state = "RUNNING"
      /\ \A v \in User : /\ Waits(b, v) = Waits(a, v)
                         /\ \A p \in Priority : Readies(b, v, p) = Readies(a, v, p)
      /\ b.deadList = a.deadList /\ b.current = a.current
  <2>1. "RUNNING" \in ThreadState
    BY DEF ThreadState
  <2>2. QED
    BY <1>1, <2>1, SetStateWF, SetStatePlace
<1> HIDE DEF b
<1>6. WellFormed(d) /\ OnlyMoves(b, d, {c}) /\ SameData(b, d) /\ d.deadList = b.deadList
  BY <1>1, <1>5, PutAwayWF, PutAwayPlace
<1>7. c \in User =>
        /\ d.tcb[c].state = (IF b.tcb[c].state \in {"DEAD", "WAITING"} THEN b.tcb[c].state ELSE "READY")
        /\ Waits(d, c) = Waits(b, c) + (IF b.tcb[c].state = "WAITING" THEN 1 ELSE 0)
        /\ \A p \in Priority :
             Readies(d, c, p) = Readies(b, c, p) +
               (IF b.tcb[c].state \notin {"DEAD", "WAITING"} /\ p = b.tcb[c].prio THEN 1 ELSE 0)
  <2>1. b.current = c
    BY <1>1, <1>5
  <2>2. b.current \in User =>
        /\ d.tcb[b.current].state = (IF b.tcb[b.current].state \in {"DEAD", "WAITING"}
                                     THEN b.tcb[b.current].state ELSE "READY")
        /\ Waits(d, b.current) = Waits(b, b.current)
                                   + (IF b.tcb[b.current].state = "WAITING" THEN 1 ELSE 0)
        /\ \A p \in Priority :
             Readies(d, b.current, p) = Readies(b, b.current, p) +
               (IF b.tcb[b.current].state \notin {"DEAD", "WAITING"} /\ p = b.tcb[b.current].prio
                THEN 1 ELSE 0)
    BY <1>5, PutAwayPlace
  <2> HIDE DEF c, d
  <2>3. QED
    BY <2>1, <2>2
<1> HIDE DEF d
<1>8. /\ u.tcb = d.tcb /\ u.deadList = d.deadList /\ u.waitList = d.waitList
      /\ u.ready = d.ready /\ u.current = n
  BY <1>6 DEF SwitchToNewThread, WellFormed, Store, d, b
<1> HIDE DEF u
<1>9. \A v : /\ Waits(u, v) = Waits(d, v)
             /\ \A p : Readies(u, v, p) = Readies(d, v, p)
  BY <1>8 DEF Waits, Readies
<1>10. SameData(s, u)
  <2>1. SameData(s, b)
    BY <1>4, <1>5, SameDataTransitive
  <2>2. SameData(s, d)
    BY <2>1, <1>6, SameDataTransitive
  <2>3. QED
    BY <2>2, <1>8 DEF SameData
<1>11. OnlyMoves(s, u, {n, c})
  <2>1. OnlyMoves(s, d, ({n} \union {n}) \union {c})
    BY <1>4, <1>5, <1>6, MovesCompose
  <2>2. ({n} \union {n}) \union {c} = {n, c}
    OBVIOUS
  <2>3. \A v \in User \ {n, c} : SamePlace(d, u, v) \/ d.current # c
    BY <1>8, <1>9 DEF SamePlace
  <2>4. d.current = c
    BY <1>1, <1>5, PutAwayPlace DEF d
  <2>5. \A v \in User \ {n, c} : SamePlace(s, d, v) /\ SamePlace(d, u, v)
    BY <2>1, <2>2, <2>3, <2>4 DEF OnlyMoves
  <2>6. QED
    BY <2>5 DEF SamePlace, OnlyMoves
<1>12. ASSUME n \in User, n # c
       PROVE  /\ u.tcb[n].state = "RUNNING"
              /\ Waits(u, n) = Waits(s, n)
              /\ \A p \in Priority :
                   Readies(u, n, p) = Readies(s, n, p) - (IF p = l THEN 1 ELSE 0)
  <2>1. SamePlace(b, d, n)
    BY <1>6, <1>12 DEF OnlyMoves
  <2>2. /\ d.tcb[n].state = "RUNNING" /\ Waits(d, n) = Waits(s, n)
        /\ \A p \in Priority :
              Readies(d, n, p) = Readies(s, n, p) - (IF p = l THEN 1 ELSE 0)
    BY <1>4, <1>5, <1>12, <2>1 DEF SamePlace
  <2>3. QED
    BY <2>2, <1>8, <1>9
<1>13. ASSUME c \in User, n # c
       PROVE  /\ u.tcb[c].state = (IF x \in {"DEAD", "WAITING"} THEN x ELSE "READY")
              /\ Waits(u, c) = Waits(s, c) + (IF x = "WAITING" THEN 1 ELSE 0)
              /\ \A p \in Priority :
                   Readies(u, c, p) = Readies(s, c, p) +
                     (IF x \notin {"DEAD", "WAITING"} /\ p = s.tcb[c].prio THEN 1 ELSE 0)
  <2>1. SamePlace(s, a, c) /\ SamePlace(a, b, c)
    BY <1>4, <1>5, <1>13 DEF OnlyMoves
  <2>2. /\ b.tcb[c].state = x /\ Waits(b, c) = Waits(s, c) /\ b.tcb[c].prio = s.tcb[c].prio
        /\ \A p \in Priority : Readies(b, c, p) = Readies(s, c, p)
    BY <1>1, <1>2, <1>5, <2>1 DEF SamePlace, SameData
  <2>3. QED
    BY <1>7, <1>8, <1>9, <1>13, <2>2
<1>14. ASSUME n \in User, n = c
       PROVE  /\ u.tcb[n].state = "READY"
              /\ \A p \in Priority :
                   Readies(u, n, p) = Readies(s, n, p) - (IF p = l THEN 1 ELSE 0)
                                        + (IF p = s.tcb[n].prio THEN 1 ELSE 0)
  <2>1. /\ b.tcb[c].state = "RUNNING" /\ b.tcb[c].prio = s.tcb[c].prio
        /\ \A p \in Priority : Readies(b, c, p) = Readies(s, c, p) - (IF p = l THEN 1 ELSE 0)
    BY <1>1, <1>2, <1>4, <1>5, <1>14 DEF SameData
  <2>2. QED
    BY <1>7, <1>8, <1>9, <1>14, <2>1
<1>15. Switched(s, u, l, n)
  BY <1>3, <1>4, <1>6, <1>5, <1>8, <1>10, <1>11, <1>12, <1>13, <1>14 DEF Switched
<1>16. QED
  BY <1>15 DEF u, a, n

-----------------------------------------------------------------------------
\* schedule()

\* A thread that is dead and in no list of the scheduler.
Gone(s, t) ==
  /\ s.tcb[t].state = "DEAD"
  /\ Waits(s, t) = 0
  /\ \A p \in Priority : Readies(s, t, p) = 0

\* A ready list holds threads of its priority, and an id that no thread has yet
\* is nowhere.
Tidy(s) ==
  /\ \A t \in User, p \in Priority : Readies(s, t, p) # 0 => s.tcb[t].prio = p
  /\ \A t \in User : t >= s.numThreads =>
       Gone(s, t) /\ t \notin s.deadList /\ t # s.current /\ ~ s.tcb[t].io

\* The current thread is not dead.
Alive(s) == s.current \in User => s.tcb[s.current].state # "DEAD"

\* Every thread but the current one is where its state says, once.
OthersPlaced(s) ==
  \A t \in User :
    LET x == s.tcb[t].state
    IN  /\ x = "RUNNING" => t = s.current
        /\ Waits(s, t) = (IF x = "WAITING" /\ t # s.current THEN 1 ELSE 0)
        /\ \A p \in Priority :
             Readies(s, t, p) = (IF x = "READY" /\ p = s.tcb[t].prio /\ t # s.current THEN 1 ELSE 0)
        /\ x = "DEAD" /\ t < s.numThreads => t \in s.deadList

\* The current one is in no list, and running.
AllPlaced(s) ==
  /\ OthersPlaced(s)
  /\ s.current \in User => s.tcb[s.current].state = "RUNNING"

\* A switch passes over no ready thread of a higher priority than the new one's.
PicksHighest(s, u) ==
  u.current # s.current =>
    \A t \in User \ {s.current}, p \in Priority :
      p > s.tcb[u.current].prio => Readies(u, t, p) = 0

\* What schedule() does when it switches, or does not.
LEMMA ScheduleCases ==
  ASSUME NEW s, WellFormed(s), NEW p \in Priority, NEW u, u = Schedule(s, p)
  PROVE  \/ u = s /\ s.tcb[s.current].state = "RUNNING"
         \/ \E l \in 0..High, n \in Thread : l = NextLevel(s, p) /\ Switched(s, u, l, n)
<1> DEFINE l == NextLevel(s, p)
           n == Head(s.ready[l])
<1>1. l \in 0..High /\ s.ready[l] # <<>>
  BY NextLevelExists
<1>2. n \in Thread
  BY <1>1, PopReadyWF
<1>3. CASE u = SwitchToNewThread(PopReady(s, l), n)
  BY <1>1, <1>2, <1>3, SwitchPlace
<1>4. CASE u # SwitchToNewThread(PopReady(s, l), n)
  BY <1>4 DEF Schedule
<1>5. QED
  BY <1>3, <1>4

\* A thread that is gone stays gone, whoever is scheduled.
LEMMA ScheduleGone ==
  ASSUME NEW s, WellFormed(s), NEW p \in Priority, NEW t \in User, Gone(s, t)
  PROVE  Gone(Schedule(s, p), t)
<1> DEFINE u == Schedule(s, p)
<1>1. CASE u = s
  BY <1>1
<1>2. ASSUME NEW l \in 0..High, NEW n \in Thread, Switched(s, u, l, n)
      PROVE  Gone(u, t)
  <2> DEFINE c == s.current
  <2>1. /\ OnlyMoves(s, u, {n, c})
        /\ n \in User <=> l # 0
        /\ n \in User => Readies(s, n, l) > 0
    BY <1>2 DEF Switched
  <2>2. c = t /\ n # c =>
                  /\ u.tcb[c].state = "DEAD"
                  /\ Waits(u, c) = Waits(s, c) + 0
                  /\ \A q \in Priority : Readies(u, c, q) = Readies(s, c, q) + 0
    BY <1>2 DEF Switched, Gone
  <2> HIDE DEF c, u
  <2>3. n # t
    <3>1. n = t => l \in Priority
      BY <2>1 DEF Priority, Low, High
    <3>2. QED
      BY <2>1, <3>1 DEF Gone
  <2>4. CASE t = c
    BY <2>2, <2>3, <2>4 DEF Gone
  <2>5. CASE t # c
    BY <2>1, <2>3, <2>5 DEF OnlyMoves, SamePlace, Gone
  <2>6. QED
    BY <2>4, <2>5
<1> HIDE DEF u
<1>3. QED
  BY <1>1, <1>2, ScheduleCases DEF u

\* After schedule() the lists are tidy and the current thread is alive.
LEMMA ScheduleTidy ==
  ASSUME NEW s, WellFormed(s), Tidy(s), NEW p \in Priority
  PROVE  Tidy(Schedule(s, p)) /\ Alive(Schedule(s, p)) /\ SameData(s, Schedule(s, p))
<1> DEFINE u == Schedule(s, p)
           c == s.current
<1>1. CASE u = s /\ s.tcb[c].state = "RUNNING"
  BY <1>1 DEF Alive, SameData
<1>2. ASSUME NEW l \in 0..High, NEW n \in Thread, Switched(s, u, l, n)
      PROVE  Tidy(u) /\ Alive(u) /\ SameData(s, u)
  <2> DEFINE x == s.tcb[c].state
  <2>1. /\ OnlyMoves(s, u, {n, c}) /\ SameData(s, u)
        /\ u.deadList = s.deadList /\ u.current = n
        /\ n \in User <=> l # 0
        /\ n \in User => Readies(s, n, l) > 0
        /\ n \in User /\ n # c =>
             /\ u.tcb[n].state = "RUNNING"
             /\ \A q \in Priority :
                  Readies(u, n, q) = Readies(s, n, q) - (IF q = l THEN 1 ELSE 0)
        /\ c \in User /\ n # c =>
             \A q \in Priority :
                 Readies(u, c, q) = Readies(s, c, q) +
                    (IF x \notin {"DEAD", "WAITING"} /\ q = s.tcb[c].prio THEN 1 ELSE 0)
        /\ n \in User /\ n = c =>
             /\ u.tcb[n].state = "READY"
             /\ \A q \in Priority :
                  Readies(u, n, q) = Readies(s, n, q) - (IF q = l THEN 1 ELSE 0)
                                       + (IF q = s.tcb[n].prio THEN 1 ELSE 0)
    BY <1>2 DEF Switched
  <2>2. \A v \in User, q \in Priority : Readies(s, v, q) \in Nat /\ Readies(u, v, q) \in Nat
    BY PlacesAreNat, ScheduleWF
  <2>3. u.numThreads = s.numThreads
    BY ScheduleWF DEF SameMutexes
  <2> HIDE DEF c, u, x
  <2>4. Alive(u)
    BY <2>1 DEF Alive
  <2>5. \A v \in User, q \in Priority : Readies(u, v, q) # 0 => u.tcb[v].prio = q
    <3> SUFFICES ASSUME NEW v \in User, NEW q \in Priority, Readies(u, v, q) # 0
                 PROVE  s.tcb[v].prio = q
      BY <2>1, Ids DEF SameData
    <3>1. CASE v \notin {n, c}
      BY <2>1, <3>1 DEF OnlyMoves, SamePlace, Tidy
    <3>2. CASE v = n /\ n # c
      <4>1. Readies(s, v, q) # 0
        BY <2>1, <2>2, <3>2
      <4>2. QED
        BY <4>1 DEF Tidy
    <3>3. CASE v = c /\ n # c
      <4>1. q = s.tcb[v].prio \/ Readies(s, v, q) # 0
        BY <2>1, <2>2, <3>3
      <4>2. QED
        BY <4>1 DEF Tidy
    <3>4. CASE v = n /\ n = c
      <4>1. q = s.tcb[v].prio \/ Readies(s, v, q) # 0
        BY <2>1, <2>2, <3>4
      <4>2. QED
        BY <4>1 DEF Tidy
    <3>5. QED
      BY <3>1, <3>2, <3>3, <3>4
  <2>6. ASSUME NEW v \in User, v >= u.numThreads
        PROVE  Gone(u, v) /\ v \notin u.deadList /\ v # u.current /\ ~ u.tcb[v].io
    <3>1. Gone(s, v) /\ v \notin s.deadList /\ ~ s.tcb[v].io
      BY <2>3, <2>6 DEF Tidy
    <3>2. Gone(u, v)
      BY <3>1, ScheduleGone DEF u
    <3>3. v # n
      <4>1. n = v => l \in Priority
        BY <2>1 DEF Priority, Low, High
      <4>2. QED
        BY <2>1, <3>1, <4>1 DEF Gone
    <3>4. QED
      BY <2>1, <3>1, <3>2, <3>3, Ids DEF SameData
  <2>7. QED
    BY <2>1, <2>4, <2>5, <2>6 DEF Tidy
<1>3. QED
  BY <1>1, <1>2, ScheduleCases

\* After schedule() every thread is where its state says, the new one running.
LEMMA SchedulePlaces ==
  ASSUME NEW s, WellFormed(s), OthersPlaced(s), NEW p \in Priority
  PROVE  AllPlaced(Schedule(s, p))
<1> DEFINE u == Schedule(s, p)
           c == s.current
<1>1. CASE u = s /\ s.tcb[c].state = "RUNNING"
  BY <1>1 DEF AllPlaced
<1>2. ASSUME NEW l \in 0..High, NEW n \in Thread, Switched(s, u, l, n)
      PROVE  AllPlaced(u)
  <2> DEFINE x == s.tcb[c].state
  <2>1. /\ OnlyMoves(s, u, {n, c}) /\ SameData(s, u)
        /\ u.deadList = s.deadList /\ u.current = n
        /\ n \in User <=> l # 0
        /\ n \in User => Readies(s, n, l) > 0
        /\ n \in User /\ n # c =>
             /\ u.tcb[n].state = "RUNNING"
             /\ Waits(u, n) = Waits(s, n)
             /\ \A q \in Priority :
                  Readies(u, n, q) = Readies(s, n, q) - (IF q = l THEN 1 ELSE 0)
        /\ c \in User /\ n # c =>
             /\ u.tcb[c].state = (IF x \in {"DEAD", "WAITING"} THEN x ELSE "READY")
             /\ Waits(u, c) = Waits(s, c) + (IF x = "WAITING" THEN 1 ELSE 0)
             /\ \A q \in Priority :
                 Readies(u, c, q) = Readies(s, c, q) +
                    (IF x \notin {"DEAD", "WAITING"} /\ q = s.tcb[c].prio THEN 1 ELSE 0)
    BY <1>2 DEF Switched
  <2>3. u.numThreads = s.numThreads
    BY ScheduleWF DEF SameMutexes
  <2>9. l # 0 => l \in Priority
    BY DEF Priority, Low, High
  <2>10. x = s.tcb[c].state
    OBVIOUS
  <2> HIDE DEF c, u, x
  <2>4. n \in User => s.tcb[n].state = "READY" /\ s.tcb[n].prio = l /\ n # c
    BY <2>1, <2>9 DEF OthersPlaced, c
  <2>5. \A v \in Thread : u.tcb[v].prio = s.tcb[v].prio
    BY <2>1 DEF SameData
  <2> DEFINE Right(v) ==
        LET y == u.tcb[v].state
        IN  /\ y = "RUNNING" => v = u.current
            /\ Waits(u, v) = (IF y = "WAITING" /\ v # u.current THEN 1 ELSE 0)
            /\ \A q \in Priority :
                 Readies(u, v, q) = (IF y = "READY" /\ q = u.tcb[v].prio /\ v # u.current THEN 1 ELSE 0)
            /\ y = "DEAD" /\ v < u.numThreads => v \in u.deadList
  <2>6. ASSUME NEW v \in User PROVE Right(v)
    <3>0. v \in Thread
      BY Ids
    <3>1. CASE v \notin {n, c}
      <4>1. SamePlace(s, u, v)
        BY <2>1, <3>1 DEF OnlyMoves
      <4>2. v # s.current /\ v # u.current
        BY <2>1, <3>1 DEF c
      <4>3. QED
        BY <2>1, <2>3, <2>5, <3>0, <4>1, <4>2 DEF SamePlace, OthersPlaced
    <3>2. CASE v = n
      <4>1. /\ Waits(s, v) = 0
            /\ \A q \in Priority : Readies(s, v, q) = IF q = l THEN 1 ELSE 0
        BY <2>4, <3>2 DEF OthersPlaced, c
      <4>2. /\ Waits(u, v) = 0 /\ u.tcb[v].state = "RUNNING"
            /\ \A q \in Priority : Readies(u, v, q) = 0
        BY <2>1, <2>4, <3>2, <4>1
      <4>3. QED
        BY <2>1, <3>2, <4>2
    <3>3. CASE v = c /\ v # n
      <4>1. /\ Waits(s, v) = 0
            /\ \A q \in Priority : Readies(s, v, q) = 0
            /\ x = "DEAD" /\ v < s.numThreads => v \in s.deadList
        BY <2>10, <3>3 DEF OthersPlaced, c
      <4>2. /\ Waits(u, v) = (IF x = "WAITING" THEN 1 ELSE 0)
            /\ u.tcb[v].state = (IF x \in {"DEAD", "WAITING"} THEN x ELSE "READY")
            /\ \A q \in Priority : Readies(u, v, q) =
                 (IF x \notin {"DEAD", "WAITING"} /\ q = s.tcb[v].prio THEN 1 ELSE 0)
        BY <2>1, <3>3, <4>1
      <4>3. CASE x = "DEAD"
        BY <2>1, <2>3, <3>3, <4>1, <4>2, <4>3
      <4>4. CASE x = "WAITING"
        BY <2>1, <3>3, <4>2, <4>4
      <4>5. CASE x \notin {"DEAD", "WAITING"}
        BY <2>1, <2>5, <3>0, <3>3, <4>2, <4>5
      <4>6. QED
        BY <4>3, <4>4, <4>5
    <3>4. QED
      BY <3>1, <3>2, <3>3
  <2>7. u.current \in User => u.tcb[u.current].state = "RUNNING"
    BY <2>1, <2>4
  <2>8. QED
    BY <2>6, <2>7 DEF AllPlaced, OthersPlaced
<1>3. QED
  BY <1>1, <1>2, ScheduleCases

\* schedule(high) passes over nobody.
LEMMA SchedulePicksHighest ==
  ASSUME NEW s, WellFormed(s), Tidy(s)
  PROVE  PicksHighest(s, Schedule(s, High))
<1> DEFINE u == Schedule(s, High)
           c == s.current
<1>1. CASE u = s
  BY <1>1 DEF PicksHighest
<1>2. ASSUME NEW l \in 0..High, NEW n \in Thread, l = NextLevel(s, High),
             Switched(s, u, l, n)
      PROVE  PicksHighest(s, u)
  <2>1. /\ OnlyMoves(s, u, {n, c})
        /\ u.current = n
        /\ n \in User <=> l # 0
        /\ n \in User => Readies(s, n, l) > 0
        /\ n \in User /\ n # c =>
             \A q \in Priority :
                  Readies(u, n, q) = Readies(s, n, q) - (IF q = l THEN 1 ELSE 0)
    BY <1>2 DEF Switched
  <2>2. \A h \in Priority : h > l => s.ready[h] = <<>>
    <3>1. CASE s.ready[High] # <<>>
      BY <1>2, <3>1 DEF NextLevel, Priority
    <3>2. CASE s.ready[High] = <<>>
      <4>1. \E k \in 0..High : s.ready[k] # <<>> /\ \A h \in (k + 1)..High : s.ready[h] = <<>>
        <5>1. s.ready[0] # <<>>
          BY DEF WellFormed
        <5>2. CASE s.ready[2] # <<>>
          BY <3>2, <5>2 DEF High
        <5>3. CASE s.ready[2] = <<>> /\ s.ready[1] # <<>>
          <6>1. 1 \in 0..High /\ \A h \in (1 + 1)..High : s.ready[h] = <<>>
            BY <3>2, <5>3 DEF High
          <6>2. QED
            BY <5>3, <6>1
        <5>4. CASE s.ready[2] = <<>> /\ s.ready[1] = <<>>
          <6>1. 0 \in 0..High /\ \A h \in (0 + 1)..High : s.ready[h] = <<>>
            BY <3>2, <5>4 DEF High
          <6>2. QED
            BY <5>1, <6>1
        <5>5. QED
          BY <5>2, <5>3, <5>4
      <4>2. l \in 0..High /\ \A h \in (l + 1)..High : s.ready[h] = <<>>
        BY <1>2, <3>2, <4>1 DEF NextLevel
      <4>3. QED
        BY <4>2 DEF Priority, Low, High
    <3>3. QED
      BY <3>1, <3>2
  <2>3. \A v, h \in Priority : h > l => Readies(s, v, h) = 0
    BY <2>2, OccEmpty DEF Readies
  <2> HIDE DEF c, u
  <2>4. ASSUME NEW v \in User \ {c}, NEW h \in Priority, h > s.tcb[n].prio, n # c
        PROVE  Readies(u, v, h) = 0
    <3>1. h > l
      <4>1. CASE l = 0
        BY <4>1 DEF Priority, Low, High
      <4>2. CASE l # 0
        <5>1. l \in Priority /\ n \in User /\ Readies(s, n, l) # 0
          BY <2>1, <4>2 DEF Priority, Low, High
        <5>2. s.tcb[n].prio = l
          BY <5>1 DEF Tidy
        <5>3. QED
          BY <2>4, <5>2
      <4>3. QED
        BY <4>1, <4>2
    <3>2. \A w : Readies(s, w, h) = 0
      BY <2>2, <3>1, OccEmpty DEF Readies
    <3>3. CASE v = n
      <4>1. h # l
        BY <3>1 DEF Priority, Low, High
      <4>2. QED
        BY <2>1, <2>4, <3>2, <3>3, <4>1
    <3>4. CASE v # n
      BY <2>1, <2>4, <3>2, <3>4 DEF OnlyMoves, SamePlace
    <3>5. QED
      BY <3>3, <3>4
  <2>5. QED
    BY <2>1, <2>4 DEF PicksHighest, c
<1>3. QED
  BY <1>1, <1>2, ScheduleCases, HighIsAPriority

-----------------------------------------------------------------------------
\* Sleeping and waking

\* What every operation of the scheduler keeps: the lists are tidy, the current
\* thread is alive, the dead that are in no list stay so, and threads that were
\* where their states say still are.
Steady(s, u) ==
  /\ Tidy(u) /\ Alive(u)
  /\ \A t \in User : Gone(s, t) => Gone(u, t)
  /\ AllPlaced(s) => AllPlaced(u)

\* Two such operations compose.
LEMMA SteadyTransitive ==
  ASSUME NEW r, NEW s, NEW u, Steady(r, s), Steady(s, u)
  PROVE  Steady(r, u)
BY DEF Steady

\* Nothing that the scheduler looks at changes.
Still(s, u) ==
  /\ u.ready = s.ready /\ u.waitList = s.waitList /\ u.deadList = s.deadList
  /\ u.current = s.current /\ u.numThreads = s.numThreads
  /\ \A v \in Thread : /\ u.tcb[v].state = s.tcb[v].state
                       /\ u.tcb[v].prio = s.tcb[v].prio
                       /\ u.tcb[v].io = s.tcb[v].io

\* Still is transitive.
LEMMA StillTransitive ==
  ASSUME NEW r, NEW s, NEW u, Still(r, s), Still(s, u)
  PROVE  Still(r, u)
BY DEF Still

\* Then everything stays where it is.
LEMMA StillSteady ==
  ASSUME NEW s, WellFormed(s), Tidy(s), Alive(s), NEW u, Still(s, u)
  PROVE  Steady(s, u)
<1>1. \A v \in User : /\ v \in Thread /\ u.tcb[v].state = s.tcb[v].state
                      /\ u.tcb[v].prio = s.tcb[v].prio /\ u.tcb[v].io = s.tcb[v].io
                      /\ Waits(u, v) = Waits(s, v)
                      /\ \A p : Readies(u, v, p) = Readies(s, v, p)
  BY Ids DEF Still, Waits, Readies
<1>2. u.deadList = s.deadList /\ u.current = s.current /\ u.numThreads = s.numThreads
  BY DEF Still
<1>3. \A t \in User : Gone(s, t) => Gone(u, t)
  BY <1>1 DEF Gone
<1>4. Tidy(u)
  BY <1>1, <1>2, <1>3 DEF Tidy
<1>5. Alive(u)
  BY <1>1, <1>2 DEF Alive
<1>6. AllPlaced(s) => AllPlaced(u)
  BY <1>1, <1>2 DEF AllPlaced, OthersPlaced
<1>7. QED
  BY <1>3, <1>4, <1>5, <1>6 DEF Steady

\* schedule() itself.
LEMMA ScheduleSteady ==
  ASSUME NEW s, WellFormed(s), Tidy(s), NEW p \in Priority
  PROVE  Steady(s, Schedule(s, p))
<1>1. AllPlaced(s) => OthersPlaced(s)
  BY DEF AllPlaced
<1>2. QED
  BY <1>1, ScheduleTidy, ScheduleGone, SchedulePlaces DEF Steady

\* The current thread begins to wait, and the scheduler is called.
LEMMA StopCurrentSteady ==
  ASSUME NEW s, WellFormed(s), Tidy(s), Alive(s), s.current \in User,
         NEW a, WellFormed(a), OnlyMoves(s, a, {s.current}),
         a.current = s.current, a.numThreads = s.numThreads, a.deadList = s.deadList,
         \A v \in User : /\ Waits(a, v) = Waits(s, v)
                         /\ \A q \in Priority : Readies(a, v, q) = Readies(s, v, q)
                         /\ a.tcb[v].prio = s.tcb[v].prio
                         /\ v # s.current => a.tcb[v].io = s.tcb[v].io,
         a.tcb[s.current].state = "WAITING",
         NEW p \in Priority
  PROVE  Tidy(a) /\ Steady(s, Schedule(a, p))
<1> DEFINE c == s.current
           u == Schedule(a, p)
<1>1. \A v \in User \ {c} : a.tcb[v].state = s.tcb[v].state
  BY DEF OnlyMoves, SamePlace
<1>2. \A t \in User : Gone(s, t) => t # c /\ Gone(a, t)
  BY <1>1 DEF Gone, Alive
<1>3. Tidy(a)
  BY <1>2 DEF Tidy
<1>4. \A t \in User : Gone(a, t) => Gone(u, t)
  BY ScheduleGone
<1>5. Tidy(u) /\ Alive(u)
  BY <1>3, ScheduleTidy
<1>6. AllPlaced(s) => OthersPlaced(a)
  BY <1>1 DEF AllPlaced, OthersPlaced
<1>7. AllPlaced(s) => AllPlaced(u)
  BY <1>6, SchedulePlaces
<1> HIDE DEF u
<1>8. Steady(s, u)
  BY <1>2, <1>4, <1>5, <1>7 DEF Steady
<1>9. QED
  BY <1>3, <1>8 DEF u

\* sleepCurrentThread().
LEMMA SleepCurrentThreadSteady ==
  ASSUME NEW s, WellFormed(s), Tidy(s), Alive(s), s.current # Idle, NEW n \in Nat \union {Forever}
  PROVE  LET u == SleepCurrentThread(s, n)
         IN  Steady(s, u) /\ SameData(s, u) /\ (n # 0 => PicksHighest(s, u))
<1> DEFINE t == s.current
           a == Sleep(s, t, n)
           p == IF n = 0 THEN s.tcb[t].prio ELSE High
           u == SleepCurrentThread(s, n)
<1>1. t \in User /\ t \in Thread
  BY DEF WellFormed, Store, User
<1>2. p \in Priority
  BY <1>1 DEF WellFormed, Priority, Low, High
<1>3. WellFormed(a) /\ SameButTCBs(s, a)
  BY <1>1, SleepWF
<1>4. u = Schedule(a, p)
  BY DEF SleepCurrentThread
<1>5. /\ \A v \in Thread \ {t} : a.tcb[v] = s.tcb[v]
      /\ a.tcb[t].state = "WAITING"
      /\ a.tcb[t].prio = s.tcb[t].prio /\ a.tcb[t].io = s.tcb[t].io
      /\ a.tcb[t].entries = s.tcb[t].entries
  BY DEF Sleep, WellFormed, Store, TCB
<1> HIDE DEF a, u
<1>6. /\ \A v \in User : /\ Waits(a, v) = Waits(s, v)
                         /\ \A q \in Priority : Readies(a, v, q) = Readies(s, v, q)
      /\ a.deadList = s.deadList /\ a.current = s.current /\ a.numThreads = s.numThreads
  BY <1>3 DEF SameButTCBs, Waits, Readies
<1>7. OnlyMoves(s, a, {t}) /\ SameData(s, a)
  BY <1>5, <1>6, Ids DEF OnlyMoves, SamePlace, SameData
<1> HIDE DEF p
<1>8. Tidy(a) /\ Steady(s, u)
  BY <1>1, <1>2, <1>3, <1>4, <1>5, <1>6, <1>7, Ids, StopCurrentSteady DEF SameData
<1>9. SameData(s, u)
  BY <1>2, <1>3, <1>4, <1>7, <1>8, ScheduleTidy, SameDataTransitive
<1>10. n # 0 => PicksHighest(s, u)
  <2>1. SUFFICES ASSUME n # 0 PROVE PicksHighest(s, u)
    OBVIOUS
  <2>2. u = Schedule(a, High)
    BY <1>4, <2>1 DEF p
  <2>3. PicksHighest(a, u)
    BY <1>3, <1>8, <2>2, SchedulePicksHighest
  <2>4. u.current \in Thread
    BY <1>2, <1>3, <1>4, ScheduleWF DEF WellFormed, Store
  <2>5. QED
    BY <1>6, <1>7, <2>3, <2>4 DEF PicksHighest, SameData
<1>11. QED
  BY <1>8, <1>9, <1>10 DEF u

\* waitCurrentThreadOnIO() sets the flag of the caller, and no other.
LEMMA WaitCurrentThreadOnIOSteady ==
  ASSUME NEW s, WellFormed(s), Tidy(s), Alive(s), s.current # Idle
  PROVE  LET u == WaitCurrentThreadOnIO(s)
         IN  /\ Steady(s, u) /\ PicksHighest(s, u)
             /\ \A v \in Thread : /\ u.tcb[v].entries = s.tcb[v].entries
                                  /\ u.tcb[v].io = IF v = s.current THEN TRUE ELSE s.tcb[v].io
<1> DEFINE t == s.current
           b == SetState(s, t, "WAITING")
           a == [b EXCEPT !.tcb[t].io = TRUE]
           u == WaitCurrentThreadOnIO(s)
<1>1. t \in User /\ t \in Thread /\ "WAITING" \in ThreadState
  BY DEF WellFormed, Store, User, ThreadState
<1>2. WellFormed(b) /\ SameButTCBs(s, b)
  BY <1>1, SetStateWF
<1>3. WellFormed(a) /\ SameMutexes(b, a)
  <2> HIDE DEF b
  <2> QED
    BY <1>1, <1>2, IOFlagWF
<1>4. u = Schedule(a, High)
  BY DEF WaitCurrentThreadOnIO
<1>5. /\ \A v \in Thread \ {t} : a.tcb[v] = s.tcb[v]
      /\ a.tcb[t].state = "WAITING" /\ a.tcb[t].io = TRUE
      /\ a.tcb[t].prio = s.tcb[t].prio
      /\ a.tcb[t].entries = s.tcb[t].entries
      /\ a.ready = s.ready /\ a.waitList = s.waitList /\ a.deadList = s.deadList
      /\ a.current = s.current /\ a.numThreads = s.numThreads
  BY DEF SetState, WellFormed, Store, TCB
<1> HIDE DEF a, b, u
<1>6. \A v \in User : /\ Waits(a, v) = Waits(s, v)
                      /\ \A q \in Priority : Readies(a, v, q) = Readies(s, v, q)
  BY <1>5 DEF Waits, Readies
<1>7. OnlyMoves(s, a, {t})
  BY <1>5, <1>6, Ids DEF OnlyMoves, SamePlace
<1>8. Tidy(a) /\ Steady(s, u)
  <2>1. \A v \in User : a.tcb[v].prio = s.tcb[v].prio /\ (v # t => a.tcb[v].io = s.tcb[v].io)
    BY <1>5, Ids
  <2>2. QED
    BY <1>1, <1>3, <1>4, <1>5, <1>6, <1>7, <2>1, HighIsAPriority, StopCurrentSteady
<1>9. SameData(a, u)
  BY <1>3, <1>4, <1>8, HighIsAPriority, ScheduleTidy
<1>10. \A v \in Thread : /\ u.tcb[v].entries = s.tcb[v].entries
                         /\ u.tcb[v].io = IF v = t THEN TRUE ELSE s.tcb[v].io
  BY <1>5, <1>9 DEF SameData
<1>11. PicksHighest(s, u)
  <2>1. PicksHighest(a, u)
    BY <1>3, <1>4, <1>8, SchedulePicksHighest
  <2>2. u.current \in Thread
    BY <1>3, <1>4, HighIsAPriority, ScheduleWF DEF WellFormed, Store
  <2>3. QED
    BY <1>5, <2>1, <2>2 DEF PicksHighest
<1>12. QED
  BY <1>8, <1>10, <1>11 DEF u

\* A thread that is on the wait list leaves it for the ready list of its priority.
Woken(s, u, t) ==
  /\ OnlyMoves(s, u, {t}) /\ SameData(s, u)
  /\ u.deadList = s.deadList /\ u.current = s.current /\ u.numThreads = s.numThreads
  /\ u.tcb[t].state = "READY"
  /\ Waits(s, t) > 0 /\ Waits(u, t) = Waits(s, t) - 1
  /\ \A p \in Priority :
       Readies(u, t, p) = Readies(s, t, p) + (IF p = s.tcb[t].prio THEN 1 ELSE 0)

\* Moving a thread from the wait list to the ready list of its priority keeps the lists
\* in order.
LEMMA WokenSteady ==
  ASSUME NEW s, WellFormed(s), Tidy(s), Alive(s), NEW t \in User, NEW u, Woken(s, u, t)
  PROVE  Steady(s, u)
<1> USE DEF Woken
<1>1. \A v \in User : /\ v \in Thread /\ Waits(s, v) \in Nat
                      /\ \A p \in Priority : Readies(s, v, p) \in Nat
  BY Ids, PlacesAreNat
<1>2. \A v \in User \ {t} : SamePlace(s, u, v)
  BY DEF OnlyMoves
<1>3. \A v \in User : Gone(s, v) => v # t
  BY <1>1 DEF Gone
<1>4. \A v \in User : Gone(s, v) => Gone(u, v)
  BY <1>2, <1>3 DEF Gone, SamePlace
<1>5. Tidy(u)
  <2>1. \A v \in User, p \in Priority : Readies(u, v, p) # 0 => u.tcb[v].prio = p
    <3> SUFFICES ASSUME NEW v \in User, NEW p \in Priority, Readies(u, v, p) # 0
                 PROVE  s.tcb[v].prio = p
      BY <1>1 DEF SameData
    <3>1. Readies(s, v, p) # 0 \/ p = s.tcb[v].prio
      BY <1>1, <1>2 DEF SamePlace
    <3>2. QED
      BY <3>1 DEF Tidy
  <2>2. \A v \in User : v >= u.numThreads =>
          Gone(u, v) /\ v \notin u.deadList /\ v # u.current /\ ~ u.tcb[v].io
    BY <1>1, <1>4 DEF Tidy, SameData
  <2>3. QED
    BY <2>1, <2>2 DEF Tidy
<1>6. Alive(u)
  BY <1>2 DEF Alive, SamePlace
<1>7. ASSUME AllPlaced(s) PROVE AllPlaced(u)
  <2>1. t # s.current /\ Waits(s, t) = 1 /\ s.tcb[t].state = "WAITING"
        /\ \A p \in Priority : Readies(s, t, p) = 0
    BY <1>7, <1>1 DEF AllPlaced, OthersPlaced
  <2>2. Waits(u, t) = 0
        /\ \A p \in Priority : Readies(u, t, p) = IF p = u.tcb[t].prio THEN 1 ELSE 0
    BY <2>1, <1>1 DEF SameData
  <2>3. u.current \in User => u.tcb[u.current].state = "RUNNING"
    BY <1>2, <1>7, <2>1 DEF AllPlaced, SamePlace
  <2> DEFINE Right(v) ==
        LET y == u.tcb[v].state
        IN  /\ y = "RUNNING" => v = u.current
            /\ Waits(u, v) = (IF y = "WAITING" /\ v # u.current THEN 1 ELSE 0)
            /\ \A q \in Priority :
                 Readies(u, v, q) = (IF y = "READY" /\ q = u.tcb[v].prio /\ v # u.current THEN 1 ELSE 0)
            /\ y = "DEAD" /\ v < u.numThreads => v \in u.deadList
  <2>4. ASSUME NEW v \in User PROVE Right(v)
    <3>1. CASE v = t
      BY <2>1, <2>2, <3>1
    <3>2. CASE v # t
      <4>1. SamePlace(s, u, v) /\ u.tcb[v].prio = s.tcb[v].prio
        BY <1>1, <1>2, <3>2 DEF SameData
      <4>2. QED
        BY <1>7, <4>1 DEF SamePlace, AllPlaced, OthersPlaced
    <3>3. QED
      BY <3>1, <3>2
  <2>5. QED
    BY <2>3, <2>4 DEF AllPlaced, OthersPlaced
<1>8. QED
  BY <1>4, <1>5, <1>6, <1>7 DEF Steady

\* Making a thread ready and erasing it from its place in the wait list.
LEMMA WakeUp ==
  ASSUME NEW s, WellFormed(s), NEW i \in 1..Len(s.waitList), NEW t \in User, t = s.waitList[i],
         NEW a, WellFormed(a), SameButTCBs(s, a), SameData(s, a),
         \A v \in User \ {t} : a.tcb[v].state = s.tcb[v].state
  PROVE  Woken(s, [PushReady(SetState(a, t, "READY"), t) EXCEPT !.waitList = RemoveAt(@, i)], t)
<1> DEFINE b == SetState(a, t, "READY")
           d == PushReady(b, t)
           u == [d EXCEPT !.waitList = RemoveAt(@, i)]
<1>0. t \in Thread /\ "READY" \in ThreadState
  BY Ids DEF ThreadState
<1>1. OnlyMoves(s, a, {t})
      /\ \A v \in User : /\ Waits(a, v) = Waits(s, v)
                         /\ \A p \in Priority : Readies(a, v, p) = Readies(s, v, p)
  BY Ids DEF SameButTCBs, OnlyMoves, SamePlace, Waits, Readies
<1>2. WellFormed(b) /\ SameButTCBs(a, b)
  BY <1>0, SetStateWF
<1>3. /\ OnlyMoves(a, b, {t}) /\ SameData(a, b) /\ b.tcb[t].state = "READY"
      /\ Waits(b, t) = Waits(a, t) /\ \A p \in Priority : Readies(b, t, p) = Readies(a, t, p)
  <2>1. /\ OnlyMoves(a, b, {t}) /\ SameData(a, b) /\ b.tcb[t].state = "READY"
        /\ \A v \in User : /\ Waits(b, v) = Waits(a, v)
                           /\ \A p \in Priority : Readies(b, v, p) = Readies(a, v, p)
    <3> HIDE DEF d, u
    <3>1. WellFormed(a) /\ t \in Thread /\ "READY" \in ThreadState
      BY <1>0
    <3>2. /\ OnlyMoves(a, b, {t}) /\ SameData(a, b) /\ b.tcb[t].state = "READY"
      BY ONLY <3>1, SetStatePlace
    <3>3. \A v \in User : /\ Waits(b, v) = Waits(a, v)
                           /\ \A p \in Priority : Readies(b, v, p) = Readies(a, v, p)
      BY ONLY <3>1, SetStatePlace
    <3>4. QED
      BY <3>2, <3>3
  <2>2. QED
    BY <2>1
<1> HIDE DEF b
<1>4. WellFormed(d) /\ SameMutexes(b, d) /\ d.current = b.current /\ d.waitList = b.waitList
      /\ d.deadList = b.deadList
  BY <1>2, PushReadyWF
<1>5. /\ OnlyMoves(b, d, {t}) /\ SameData(b, d) /\ d.tcb[t].state = b.tcb[t].state
      /\ Waits(d, t) = Waits(b, t)
      /\ \A p \in Priority :
           Readies(d, t, p) = Readies(b, t, p) + (IF p = b.tcb[t].prio THEN 1 ELSE 0)
  BY <1>2, PushReadyPlace
<1> HIDE DEF d
<1>6. i \in 1..Len(d.waitList) /\ d.waitList[i] = t
  BY <1>2, <1>4 DEF SameButTCBs
<1>7. /\ OnlyMoves(d, u, {t}) /\ SameData(d, u) /\ u.tcb[t].state = d.tcb[t].state
      /\ Waits(u, t) = Waits(d, t) - 1 /\ Waits(d, t) > 0
      /\ \A p \in Priority : Readies(u, t, p) = Readies(d, t, p)
      /\ u.deadList = d.deadList /\ u.current = d.current
  <2> DEFINE w == d.waitList[i]
  <2>1. /\ OnlyMoves(d, u, {w}) /\ SameData(d, u) /\ u.tcb[w].state = d.tcb[w].state
        /\ Waits(u, w) = Waits(d, w) - 1 /\ Waits(d, w) > 0
        /\ \A p \in Priority : Readies(u, w, p) = Readies(d, w, p)
        /\ u.deadList = d.deadList /\ u.current = d.current
    BY <1>4, <1>6, RemoveWaitPlace
  <2>2. w = t
    BY <1>6
  <2> HIDE DEF w, u
  <2>3. QED
    BY <2>1, <2>2
<1>8. u.numThreads = d.numThreads
  BY <1>4 DEF WellFormed, Store
<1> HIDE DEF u
<1>9. OnlyMoves(s, u, {t})
  <2>1. \A v \in User \ {t} : SamePlace(s, a, v) /\ SamePlace(a, b, v) /\ SamePlace(b, d, v)
                              /\ SamePlace(d, u, v)
    BY <1>1, <1>3, <1>5, <1>7 DEF OnlyMoves
  <2>2. QED
    BY <2>1 DEF OnlyMoves, SamePlace
<1>10. SameData(s, u) /\ b.tcb[t].prio = s.tcb[t].prio
  BY <1>0, <1>3, <1>5, <1>7 DEF SameData
<1>11. u.deadList = s.deadList /\ u.current = s.current /\ u.numThreads = s.numThreads
  BY <1>2, <1>4, <1>7, <1>8 DEF SameButTCBs, SameMutexes
<1>12. Waits(u, t) = Waits(s, t) - 1 /\ Waits(s, t) > 0
       /\ \A p \in Priority : Readies(u, t, p) = Readies(s, t, p) + (IF p = s.tcb[t].prio THEN 1 ELSE 0)
  BY <1>1, <1>3, <1>5, <1>7, <1>10
<1>13. Woken(s, u, t)
  BY <1>3, <1>5, <1>7, <1>9, <1>10, <1>11, <1>12 DEF Woken
<1>14. QED
  BY <1>13 DEF u, d, b

\* removeFromWaitlistEarly() wakes a thread that is on the list, or does nothing.
LEMMA RemoveFromWaitlistEarlySteady ==
  ASSUME NEW s, WellFormed(s), Tidy(s), Alive(s), NEW t \in User
  PROVE  LET u == RemoveFromWaitlistEarly(s, t)
         IN  Steady(s, u) /\ SameData(s, u) /\ u.current = s.current
<1>1. CASE ~ OnWaitList(s, t)
  BY <1>1, StillSteady DEF RemoveFromWaitlistEarly, Still, SameData
<1>2. CASE OnWaitList(s, t)
  <2> DEFINE i == CHOOSE i \in 1..Len(s.waitList) : IsFirstAt(s.waitList, t, i)
             a == Sleep(s, t, 0)
             u == [PushReady(SetState(a, t, "READY"), t) EXCEPT !.waitList = RemoveAt(@, i)]
  <2>1. i \in 1..Len(s.waitList) /\ t = s.waitList[i]
    BY <1>2 DEF OnWaitList, IsFirstAt
  <2>2. t \in Thread
    BY Ids
  <2>3. WellFormed(a) /\ SameButTCBs(s, a)
    BY <2>2, SleepWF
  <2>4. /\ \A v \in Thread \ {t} : a.tcb[v] = s.tcb[v]
        /\ a.tcb[t].prio = s.tcb[t].prio /\ a.tcb[t].io = s.tcb[t].io
        /\ a.tcb[t].entries = s.tcb[t].entries
    <3> HIDE DEF i, u
    <3> QED
      BY <2>2 DEF Sleep, WellFormed, Store, TCB
  <2> HIDE DEF i, a
  <2>5. SameData(s, a) /\ \A v \in User \ {t} : a.tcb[v].state = s.tcb[v].state
    BY <2>4, Ids DEF SameData
  <2>6. Woken(s, u, t)
    BY <2>1, <2>3, <2>5, WakeUp
  <2>7. RemoveFromWaitlistEarly(s, t) = u
    <3> DEFINE b == SetState(a, t, "READY")
    <3>1. WellFormed(b) /\ SameButTCBs(a, b)
      BY <2>2, <2>3, SetStateWF DEF ThreadState
    <3> HIDE DEF b
    <3>2. PushReady(b, t).waitList = s.waitList
      BY <2>3, <3>1, PushReadyWF DEF SameButTCBs
    <3> DEFINE d == PushReady(b, t)
    <3>3. [d EXCEPT !.waitList = RemoveAt(s.waitList, i)] = [d EXCEPT !.waitList = RemoveAt(@, i)]
      BY <3>2
    <3>4. RemoveFromWaitlistEarly(s, t) = [d EXCEPT !.waitList = RemoveAt(s.waitList, i)]
      BY <1>2 DEF RemoveFromWaitlistEarly, a, b, i
    <3>5. QED
      BY <3>3, <3>4 DEF b
  <2> HIDE DEF u
  <2>8. QED
    BY <2>6, <2>7, WokenSteady DEF Woken
<1>3. QED
  BY <1>1, <1>2

\* scheduleThreadEarly() wakes it and calls the scheduler.
LEMMA ScheduleThreadEarlySteady ==
  ASSUME NEW s, WellFormed(s), Tidy(s), Alive(s), NEW t \in User
  PROVE  LET u == ScheduleThreadEarly(s, t)
         IN  Steady(s, u) /\ SameData(s, u) /\ PicksHighest(s, u)
<1> DEFINE a == RemoveFromWaitlistEarly(s, t)
           u == ScheduleThreadEarly(s, t)
<1>1. /\ WellFormed(a) /\ Steady(s, a) /\ SameData(s, a) /\ a.current = s.current
  BY RemoveFromWaitlistEarlyWF, RemoveFromWaitlistEarlySteady
<1>2. u \in {s, Schedule(a, High)}
  BY DEF ScheduleThreadEarly
<1> HIDE DEF a, u
<1>3. Tidy(a)
  BY <1>1 DEF Steady
<1>4. CASE u = s
  <2>1. Steady(s, s)
    BY StillSteady DEF Still
  <2>2. QED
    BY <1>4, <2>1 DEF u, SameData, PicksHighest
<1>5. CASE u = Schedule(a, High)
  <2>1. Steady(a, u) /\ SameData(a, u) /\ PicksHighest(a, u) /\ WellFormed(u)
    BY <1>1, <1>3, <1>5, HighIsAPriority, ScheduleSteady, ScheduleTidy, SchedulePicksHighest,
       ScheduleWF
  <2>2. u.current \in Thread
    BY <2>1 DEF WellFormed, Store
  <2>3. Steady(s, u) /\ SameData(s, u)
    BY <1>1, <2>1, SteadyTransitive, SameDataTransitive
  <2>4. PicksHighest(s, u)
    BY <1>1, <2>1, <2>2 DEF PicksHighest, SameData
  <2>5. QED
    BY <2>3, <2>4 DEF u
<1>6. QED
  BY <1>2, <1>4, <1>5

-----------------------------------------------------------------------------
\* The life of a thread

\* Ids are integers, and so is the number of threads.
LEMMA Numbers ==
  ASSUME NEW s, WellFormed(s)
  PROVE  s.numThreads \in Int /\ \A t \in User : t \in Int
<1>1. MaxThread + 1 \in Int
  BY IdsAssumption
<1>2. s.numThreads \in Thread \union {MaxThread + 1}
  BY DEF WellFormed, Store
<1>3. QED
  BY <1>1, <1>2, Ids

\* A new thread was in no list and on nobody's mind; it is dead, and in the dead list.
LEMMA InsertThreadSteady ==
  ASSUME NEW s, WellFormed(s), Tidy(s), Alive(s), s.numThreads \in Thread, NEW p \in Priority
  PROVE  LET u == InsertThread(s, p)
             n == s.numThreads
         IN  /\ Steady(s, u) /\ u.current = s.current
             /\ \A v \in Thread \ {n} : u.tcb[v] = s.tcb[v]
             /\ n \in User /\ n # s.current
             /\ u.tcb[n] = NewTCB("DEAD", p)
             /\ ~ s.tcb[n].io
<1> DEFINE n == s.numThreads
           u == InsertThread(s, p)
<1>1. n \in User /\ n \in Thread
  BY DEF WellFormed, User, Idle
<1>2. /\ u.tcb[n] = NewTCB("DEAD", p)
      /\ \A v \in Thread \ {n} : u.tcb[v] = s.tcb[v]
      /\ u.deadList = s.deadList \union {n} /\ u.numThreads = n + 1 /\ u.current = s.current
      /\ u.ready = s.ready /\ u.waitList = s.waitList
  BY <1>1 DEF InsertThread, WellFormed, Store
<1>3. Gone(s, n) /\ n # s.current /\ ~ s.tcb[n].io
  <2>1. n >= s.numThreads
    BY <1>1, Numbers
  <2>2. QED
    BY <1>1, <2>1 DEF Tidy
<1>4. u.tcb[n].state = "DEAD" /\ u.tcb[n].io = FALSE
  BY <1>2 DEF NewTCB
<1> HIDE DEF u
<1>5. \A v \in User : Waits(u, v) = Waits(s, v) /\ \A q : Readies(u, v, q) = Readies(s, v, q)
  BY <1>2 DEF Waits, Readies
<1>6. \A t \in User : Gone(s, t) => Gone(u, t)
  BY <1>2, <1>4, <1>5, Ids DEF Gone
<1>7. Tidy(u)
  <2>1. \A v \in User, q \in Priority : Readies(u, v, q) # 0 => u.tcb[v].prio = q
    <3> SUFFICES ASSUME NEW v \in User, NEW q \in Priority, Readies(u, v, q) # 0
                 PROVE  u.tcb[v].prio = q
      OBVIOUS
    <3>1. v # n /\ Readies(s, v, q) # 0
      BY <1>3, <1>5 DEF Gone
    <3>2. QED
      BY <1>2, <3>1, Ids DEF Tidy
  <2>2. ASSUME NEW v \in User, v >= u.numThreads
        PROVE  Gone(u, v) /\ v \notin u.deadList /\ v # u.current /\ ~ u.tcb[v].io
    <3>1. v >= s.numThreads /\ v # n
      <4>1. v >= n + 1 /\ v \in Int /\ n \in Int
        BY <1>1, <1>2, <2>2, Numbers
      <4>2. v >= n /\ v # n
        BY <4>1
      <4>3. QED
        BY <4>2
    <3>2. QED
      BY <1>2, <1>6, <3>1, Ids DEF Tidy
  <2>3. QED
    BY <2>1, <2>2 DEF Tidy
<1>8. Alive(u)
  BY <1>2, <1>3, Ids DEF Alive
<1>9. ASSUME AllPlaced(s) PROVE AllPlaced(u)
  <2>1. u.current \in User => u.tcb[u.current].state = "RUNNING"
    BY <1>2, <1>3, <1>9, Ids DEF AllPlaced
  <2>2. ASSUME NEW v \in User PROVE
        LET y == u.tcb[v].state
        IN  /\ y = "RUNNING" => v = u.current
            /\ Waits(u, v) = (IF y = "WAITING" /\ v # u.current THEN 1 ELSE 0)
            /\ \A q \in Priority :
                 Readies(u, v, q) = (IF y = "READY" /\ q = u.tcb[v].prio /\ v # u.current THEN 1 ELSE 0)
            /\ y = "DEAD" /\ v < u.numThreads => v \in u.deadList
    <3>1. CASE v = n
      BY <1>2, <1>3, <1>4, <1>5, <3>1 DEF Gone
    <3>2. CASE v # n
      <4>1. v < u.numThreads => v < s.numThreads
        BY <1>1, <1>2, <3>2, Numbers
      <4>2. u.tcb[v] = s.tcb[v]
        BY <1>2, <3>2, Ids
      <4>3. QED
        BY <1>2, <1>5, <1>9, <4>1, <4>2 DEF AllPlaced, OthersPlaced
    <3>3. QED
      BY <3>1, <3>2
  <2>3. QED
    BY <2>1, <2>2 DEF AllPlaced, OthersPlaced
<1>10. Steady(s, u)
  BY <1>6, <1>7, <1>8, <1>9 DEF Steady
<1>11. QED
  BY <1>1, <1>2, <1>3, <1>10 DEF u

\* activateDeadThread(): the thread is ready once, and is the only one to rise.
LEMMA ActivateDeadThreadSteady ==
  ASSUME NEW s, WellFormed(s), Tidy(s), Alive(s), NEW t \in Thread, s.tcb[t].state = "DEAD"
  PROVE  LET u == ActivateDeadThread(s, t)
         IN  /\ Tidy(u) /\ Alive(u) /\ SameData(s, u) /\ PicksHighest(s, u)
             /\ \A v \in User \ {t} : Gone(s, v) => Gone(u, v)
             /\ AllPlaced(s) => AllPlaced(u)
<1> DEFINE u == ActivateDeadThread(s, t)
<1>1. CASE t \notin s.deadList
  BY <1>1 DEF ActivateDeadThread, SameData, PicksHighest
<1>2. CASE t \in s.deadList
  <2> DEFINE b == SetState(s, t, "READY")
             a == PushReady(b, t)
  <2>1. t \in User /\ "READY" \in ThreadState
    BY <1>2 DEF WellFormed, Store, ThreadState
  <2>2. WellFormed(b) /\ SameButTCBs(s, b)
    BY <2>1, SetStateWF
  <2>3. /\ OnlyMoves(s, b, {t}) /\ SameData(s, b) /\ b.tcb[t].state = "READY"
        /\ Waits(b, t) = Waits(s, t)
        /\ \A p \in Priority : Readies(b, t, p) = Readies(s, t, p)
    <3>1. /\ OnlyMoves(s, b, {t}) /\ SameData(s, b) /\ b.tcb[t].state = "READY"
          /\ \A v \in User : /\ Waits(b, v) = Waits(s, v)
                             /\ \A p \in Priority : Readies(b, v, p) = Readies(s, v, p)
      <4> HIDE DEF a, u
      <4>1. "READY" \in ThreadState
        BY <2>1
      <4>2. QED
        BY ONLY <4>1, WellFormed(s), t \in Thread, SetStatePlace
    <3>2. QED
      BY <2>1, <3>1
  <2>4. u \in {a, Schedule(a, High)}
    BY <1>2 DEF ActivateDeadThread
  <2> HIDE DEF b
  <2>5. WellFormed(a) /\ SameMutexes(b, a)
    BY <2>1, <2>2, PushReadyWF
  <2>6. /\ OnlyMoves(b, a, {t}) /\ SameData(b, a) /\ a.tcb[t].state = b.tcb[t].state
        /\ Waits(a, t) = Waits(b, t)
        /\ \A p \in Priority :
             Readies(a, t, p) = Readies(b, t, p) + (IF p = b.tcb[t].prio THEN 1 ELSE 0)
        /\ a.deadList = b.deadList /\ a.current = b.current
    BY <2>1, <2>2, PushReadyPlace
  <2> HIDE DEF a
  <2>7. /\ SameData(s, a) /\ a.deadList = s.deadList /\ a.current = s.current
        /\ a.numThreads = s.numThreads /\ a.tcb[t].state = "READY" /\ Waits(a, t) = Waits(s, t)
        /\ \A p \in Priority :
             Readies(a, t, p) = Readies(s, t, p) + (IF p = s.tcb[t].prio THEN 1 ELSE 0)
    BY <2>2, <2>3, <2>5, <2>6 DEF SameButTCBs, SameMutexes, SameData
  <2>8. \A v \in User \ {t} : SamePlace(s, a, v)
    <3>1. OnlyMoves(s, a, {t} \union {t})
      BY <2>3, <2>6, MovesCompose
    <3>2. QED
      BY <3>1 DEF OnlyMoves
  <2>9. \A v \in User : /\ v \in Thread /\ Waits(s, v) \in Nat
                        /\ \A p \in Priority : Readies(s, v, p) \in Nat
    BY Ids, PlacesAreNat
  <2>10. \A v \in User \ {t} : Gone(s, v) => Gone(a, v)
    BY <2>8 DEF Gone, SamePlace
  <2>11. Tidy(a)
    <3>1. \A v \in User, p \in Priority : Readies(a, v, p) # 0 => a.tcb[v].prio = p
      <4> SUFFICES ASSUME NEW v \in User, NEW p \in Priority, Readies(a, v, p) # 0
                   PROVE  s.tcb[v].prio = p
        BY <2>7, <2>9 DEF SameData
      <4>1. Readies(s, v, p) # 0 \/ p = s.tcb[v].prio
        BY <2>7, <2>8, <2>9 DEF SamePlace
      <4>2. QED
        BY <4>1 DEF Tidy
    <3>2. \A v \in User : v >= a.numThreads =>
            Gone(a, v) /\ v \notin a.deadList /\ v # a.current /\ ~ a.tcb[v].io
      <4> SUFFICES ASSUME NEW v \in User, v >= s.numThreads
                   PROVE  Gone(a, v) /\ v \notin s.deadList /\ v # s.current /\ ~ s.tcb[v].io
        BY <2>7, <2>9 DEF SameData
      <4>1. Gone(s, v) /\ v \notin s.deadList /\ v # s.current /\ ~ s.tcb[v].io
        BY DEF Tidy
      <4>2. QED
        BY <1>2, <2>10, <4>1
    <3>3. QED
      BY <3>1, <3>2 DEF Tidy
  <2>12. Alive(a)
    BY <2>7, <2>8 DEF Alive, SamePlace
  <2>13. ASSUME AllPlaced(s) PROVE AllPlaced(a)
    <3>1. t # s.current /\ Waits(s, t) = 0 /\ \A p \in Priority : Readies(s, t, p) = 0
      BY <2>1, <2>13 DEF AllPlaced, OthersPlaced
    <3>2. a.current \in User => a.tcb[a.current].state = "RUNNING"
      BY <2>7, <2>8, <2>13, <3>1 DEF AllPlaced, SamePlace
    <3>3. ASSUME NEW v \in User PROVE
          LET y == a.tcb[v].state
          IN  /\ y = "RUNNING" => v = a.current
              /\ Waits(a, v) = (IF y = "WAITING" /\ v # a.current THEN 1 ELSE 0)
              /\ \A q \in Priority :
                   Readies(a, v, q) = (IF y = "READY" /\ q = a.tcb[v].prio /\ v # a.current THEN 1 ELSE 0)
              /\ y = "DEAD" /\ v < a.numThreads => v \in a.deadList
      <4>1. CASE v = t
        <5>1. a.tcb[v].prio = s.tcb[v].prio
          BY <2>7, <2>9 DEF SameData
        <5>2. QED
          BY <2>7, <3>1, <4>1, <5>1
      <4>2. CASE v # t
        <5>1. SamePlace(s, a, v) /\ a.tcb[v].prio = s.tcb[v].prio
          BY <2>7, <2>8, <2>9, <4>2 DEF SameData
        <5>2. QED
          BY <2>7, <2>13, <5>1 DEF SamePlace, AllPlaced, OthersPlaced
      <4>3. QED
        BY <4>1, <4>2
    <3>4. QED
      BY <3>2, <3>3 DEF AllPlaced, OthersPlaced
  <2> HIDE DEF u
  <2>14. CASE u = a
    BY <2>7, <2>10, <2>11, <2>12, <2>13, <2>14 DEF u, PicksHighest
  <2>15. CASE u = Schedule(a, High)
    <3>1. Steady(a, u) /\ SameData(a, u) /\ PicksHighest(a, u) /\ WellFormed(u)
      BY <2>5, <2>11, <2>15, HighIsAPriority, ScheduleSteady, ScheduleTidy, SchedulePicksHighest,
         ScheduleWF
    <3>2. u.current \in Thread
      BY <3>1 DEF WellFormed, Store
    <3>3. SameData(s, u)
      BY <2>7, <3>1, SameDataTransitive
    <3>4. PicksHighest(s, u)
      BY <2>7, <3>1, <3>2 DEF PicksHighest, SameData
    <3>5. QED
      BY <2>10, <2>13, <3>1, <3>3, <3>4 DEF u, Steady
  <2>16. QED
    BY <2>4, <2>14, <2>15
<1>3. QED
  BY <1>1, <1>2

\* deleteDeadThread() marks a thread, and calls the scheduler.
LEMMA DeleteDeadThreadSteady ==
  ASSUME NEW s, WellFormed(s), Tidy(s), Alive(s), NEW t \in Thread
  PROVE  LET u == DeleteDeadThread(s, t)
         IN  Steady(s, u) /\ SameData(s, u) /\ PicksHighest(s, u)
<1> DEFINE b == [s EXCEPT !.tcb[t].deleted = TRUE]
           a == IF t \in s.deadList THEN b ELSE s
           u == DeleteDeadThread(s, t)
<1>1. u = Schedule(a, High)
  BY DEF DeleteDeadThread
<1>2. WellFormed(a) /\ Still(s, a) /\ SameData(s, a)
  <2>1. WellFormed(b)
    <3> DEFINE r == [s.tcb[t] EXCEPT !.deleted = TRUE]
    <3>1. r \in TCB /\ r.prio = s.tcb[t].prio
      BY TCBOfThread DEF TCB
    <3>2. b = [s EXCEPT !.tcb = [s.tcb EXCEPT ![t] = r]]
      BY DEF WellFormed, Store
    <3> HIDE DEF r, b
    <3>3. QED
      BY <3>1, <3>2, UpdateTCB
  <2>2. Still(s, b) /\ SameData(s, b)
    BY DEF Still, SameData, WellFormed, Store, TCB
  <2>3. Still(s, s) /\ SameData(s, s)
    BY DEF Still, SameData
  <2> HIDE DEF b
  <2>4. QED
    BY <2>1, <2>2, <2>3
<1> HIDE DEF a, u
<1>3. Steady(s, a)
  BY <1>2, StillSteady
<1>4. Tidy(a)
  BY <1>3 DEF Steady
<1>5. Steady(a, u) /\ SameData(a, u) /\ PicksHighest(a, u) /\ WellFormed(u)
  BY <1>1, <1>2, <1>4, HighIsAPriority, ScheduleSteady, ScheduleTidy, SchedulePicksHighest,
     ScheduleWF
<1>6. u.current \in Thread
  BY <1>5 DEF WellFormed, Store
<1>7. PicksHighest(s, u)
  BY <1>2, <1>5, <1>6 DEF PicksHighest, SameData, Still
<1>8. QED
  BY <1>2, <1>3, <1>5, <1>7, SteadyTransitive, SameDataTransitive DEF u

\* The end of terminate(): whoever ends itself is gone, and the others are where
\* they were.
LEMMA MarkDeadSteady ==
  ASSUME NEW s, WellFormed(s), Tidy(s), Alive(s), NEW t \in User, t < s.numThreads
  PROVE  LET u == MarkDead(s, t)
         IN  /\ Tidy(u) /\ Alive(u) /\ SameData(s, u) /\ PicksHighest(s, u)
             /\ \A v \in User : Gone(s, v) => Gone(u, v)
             /\ AllPlaced(s) /\ t = s.current => AllPlaced(u) /\ Gone(u, t)
<1> DEFINE b == SetState(s, t, "DEAD")
           a == [b EXCEPT !.deadList = b.deadList \union {t}]
           u == MarkDead(s, t)
<1>1. "DEAD" \in ThreadState /\ t \in Thread
  BY Ids DEF ThreadState
<1>2. WellFormed(b) /\ SameButTCBs(s, b)
  BY <1>1, SetStateWF
<1>3. u = Schedule(a, High)
  BY DEF MarkDead
<1>4. /\ OnlyMoves(s, b, {t}) /\ SameData(s, b) /\ b.tcb[t].state = "DEAD"
      /\ \A v \in User : /\ Waits(b, v) = Waits(s, v)
                         /\ \A p \in Priority : Readies(b, v, p) = Readies(s, v, p)
  <2> HIDE DEF a, u
  <2> QED
    BY <1>1, SetStatePlace
<1> HIDE DEF b, u
<1>5. WellFormed(a)
  <2>1. b.deadList \union {t} \in SUBSET User
    BY <1>2 DEF WellFormed, Store
  <2>2. QED
    BY <1>2, <2>1, DeadListWF
<1>6. /\ a.tcb = b.tcb /\ a.ready = b.ready /\ a.waitList = b.waitList
      /\ a.deadList = s.deadList \union {t} /\ a.current = s.current
      /\ a.numThreads = s.numThreads
  BY <1>2 DEF SameButTCBs, WellFormed, Store
<1> HIDE DEF a
<1>7. \A v \in User : /\ Waits(a, v) = Waits(s, v)
                      /\ \A p \in Priority : Readies(a, v, p) = Readies(s, v, p)
  <2>1. \A v \in User : /\ Waits(a, v) = Waits(b, v)
                        /\ \A p \in Priority : Readies(a, v, p) = Readies(b, v, p)
    BY <1>6 DEF Waits, Readies
  <2>2. QED
    BY <1>4, <2>1
<1>8. /\ \A v \in User \ {t} : a.tcb[v].state = s.tcb[v].state
      /\ a.tcb[t].state = "DEAD" /\ SameData(s, a)
  BY <1>4, <1>6 DEF OnlyMoves, SamePlace, SameData
<1>9. \A v \in User : Gone(s, v) => Gone(a, v)
  BY <1>7, <1>8 DEF Gone
<1>10. Tidy(a)
  <2>1. \A v \in User : a.tcb[v].prio = s.tcb[v].prio /\ a.tcb[v].io = s.tcb[v].io
    BY <1>8, Ids DEF SameData
  <2>2. ASSUME NEW v \in User, v >= s.numThreads PROVE v # t
    <3>1. v \in Int /\ t \in Int /\ s.numThreads \in Int
      BY Numbers
    <3>2. QED
      BY <2>2, <3>1
  <2>3. \A v \in User, p \in Priority : Readies(a, v, p) # 0 => a.tcb[v].prio = p
    BY <1>7, <2>1 DEF Tidy
  <2>4. \A v \in User : v >= a.numThreads =>
          Gone(a, v) /\ v \notin a.deadList /\ v # a.current /\ ~ a.tcb[v].io
    BY <1>6, <1>9, <2>1, <2>2 DEF Tidy
  <2>5. QED
    BY <2>3, <2>4 DEF Tidy
<1>11. Steady(a, u) /\ SameData(a, u) /\ PicksHighest(a, u) /\ WellFormed(u)
  BY <1>3, <1>5, <1>10, HighIsAPriority, ScheduleSteady, ScheduleTidy, SchedulePicksHighest,
     ScheduleWF
<1>12. u.current \in Thread
  BY <1>11 DEF WellFormed, Store
<1>13. PicksHighest(s, u)
  BY <1>6, <1>8, <1>11, <1>12 DEF PicksHighest, SameData
<1>14. ASSUME AllPlaced(s), t = s.current PROVE AllPlaced(u) /\ Gone(u, t)
  <2>1. OthersPlaced(a)
    BY <1>6, <1>7, <1>8, <1>14, Ids DEF AllPlaced, OthersPlaced, SameData
  <2>2. Gone(a, t)
    BY <1>7, <1>8, <1>14 DEF AllPlaced, OthersPlaced, Gone
  <2>3. QED
    BY <1>3, <1>5, <2>1, <2>2, HighIsAPriority, SchedulePlaces, ScheduleGone
<1>15. QED
  BY <1>8, <1>9, <1>11, <1>13, <1>14, SameDataTransitive DEF u, Steady

=============================================================================
