-------------------------- MODULE Sleeping_proofs --------------------------
(***************************************************************************)
(* Who may end a thread's sleep.  A thread leaves the wait list when its   *)
(* ticks have run out or because a release has made it the owner of a      *)
(* mutex.  So a thread that sleeps for ever is in the queue of a mutex,    *)
(* VMThreadSleep(n) takes n ticks unless a mutex cuts it short, and        *)
(* VMMutexAcquire without a timeout ends with the mutex unless a release   *)
(* finds the thread in the queue of a mutex it no longer waits for.        *)
(***************************************************************************)
EXTENDS Scheduling_proofs

\* A thread sleeps on: it keeps its ticks, and waits on if it waited.
SleepsOn(s, u, t) ==
  /\ u.tcb[t].ticks = s.tcb[t].ticks
  /\ s.tcb[t].state = "WAITING" => u.tcb[t].state = "WAITING"

Asleep(s, u) == \A t \in User : SleepsOn(s, u, t)

WaitersNotReady(s) ==
  \A t \in User : s.tcb[t].state = "WAITING" => \A p \in Priority : Readies(s, t, p) = 0

\* No operation on the lists or the states changes a thread's ticks.
LEMMA ListsKeepTicks ==
  ASSUME NEW s, WellFormed(s), NEW t \in Thread, NEW x, NEW v \in Thread
  PROVE  /\ SetState(s, t, x).tcb[v].ticks = s.tcb[v].ticks
         /\ PushReady(s, t).tcb = s.tcb
         /\ PutAway(s).tcb[v].ticks = s.tcb[v].ticks
<1>1. ASSUME NEW k \in Thread, NEW y
      PROVE  SetState(s, k, y).tcb[v].ticks = s.tcb[v].ticks /\ PushReady(s, k).tcb = s.tcb
  BY DEF SetState, PushReady, WellFormed, Store, TCB
<1>2. PutAway(s).tcb[v].ticks = s.tcb[v].ticks
  <2> DEFINE c == s.current
             r == SetState(s, c, "READY")
  <2>1. c \in Thread
    BY DEF WellFormed, Store
  <2>2. WellFormed(r) /\ r.tcb[v].ticks = s.tcb[v].ticks
    <3>1. "READY" \in ThreadState
      BY DEF ThreadState
    <3> HIDE DEF c
    <3>2. QED
      BY <1>1, <2>1, <3>1, SetStateWF
  <2>3. PutAway(s) \in {s, [s EXCEPT !.waitList = Append(@, c)], PushReady(r, c)}
    BY DEF PutAway
  <2>4. [s EXCEPT !.waitList = Append(@, c)].tcb = s.tcb
    BY DEF WellFormed, Store
  <2>5. PushReady(r, c).tcb = r.tcb
    <3> HIDE DEF r
    <3> QED
      BY <2>1, <2>2 DEF PushReady, WellFormed, Store
  <2> HIDE DEF r, c
  <2>6. QED
    BY <2>2, <2>3, <2>4, <2>5
<1>3. QED
  BY <1>1, <1>2

\* The scheduler changes nobody's ticks.
LEMMA ScheduleTicks ==
  ASSUME NEW s, WellFormed(s), NEW p \in Priority, NEW v \in Thread
  PROVE  Schedule(s, p).tcb[v].ticks = s.tcb[v].ticks
<1> DEFINE l == NextLevel(s, p)
           a == PopReady(s, l)
           n == Head(s.ready[l])
           b == SetState(a, n, "RUNNING")
           c == PutAway(b)
           u == [c EXCEPT !.current = n]
<1>1. l \in 0..High /\ s.ready[l] # <<>>
  BY NextLevelExists
<1>2. WellFormed(a) /\ a.tcb = s.tcb /\ n \in Thread
  BY <1>1, PopReadyWF
<1>3. Schedule(s, p) \in {s, u}
  BY DEF Schedule, SwitchToNewThread
<1> HIDE DEF a, n, l
<1>4. WellFormed(b) /\ b.tcb[v].ticks = a.tcb[v].ticks
  <2>1. "RUNNING" \in ThreadState
    BY DEF ThreadState
  <2>2. QED
    BY <1>2, <2>1, SetStateWF, ListsKeepTicks
<1> HIDE DEF b
<1>5. WellFormed(c) /\ c.tcb[v].ticks = b.tcb[v].ticks
  BY <1>2, <1>4, PutAwayWF, ListsKeepTicks
<1> HIDE DEF c
<1>6. u.tcb = c.tcb
  BY <1>5 DEF WellFormed, Store
<1>7. QED
  BY <1>2, <1>3, <1>4, <1>5, <1>6

\* Unless a thread is in a wait list and a ready list, it lets the sleepers sleep.
LEMMA ScheduleAsleep ==
  ASSUME NEW s, WellFormed(s), WaitersNotReady(s), NEW p \in Priority
  PROVE  Asleep(s, Schedule(s, p))
<1> SUFFICES ASSUME NEW t \in User
             PROVE  /\ Schedule(s, p).tcb[t].ticks = s.tcb[t].ticks
                    /\ s.tcb[t].state = "WAITING" => Schedule(s, p).tcb[t].state = "WAITING"
  BY DEF Asleep, SleepsOn
<1>1. Schedule(s, p).tcb[t].ticks = s.tcb[t].ticks
  BY ScheduleTicks, Ids
<1>2. ASSUME s.tcb[t].state = "WAITING" PROVE Schedule(s, p).tcb[t].state = "WAITING"
  <2> DEFINE u == Schedule(s, p)
             c == s.current
  <2>1. CASE u = s
    BY <1>2, <2>1
  <2>2. ASSUME NEW l \in 0..High, NEW n \in Thread, Switched(s, u, l, n)
        PROVE  u.tcb[t].state = "WAITING"
    <3>1. /\ OnlyMoves(s, u, {n, c})
          /\ n \in User <=> l # 0
          /\ n \in User => Readies(s, n, l) > 0
          /\ c = t /\ n # c => u.tcb[c].state = "WAITING"
      BY <1>2, <2>2 DEF Switched
    <3> HIDE DEF u, c
    <3>2. n # t
      <4>1. n = t => l \in Priority
        BY <3>1 DEF Priority, Low, High
      <4>2. QED
        BY <1>2, <3>1, <4>1 DEF WaitersNotReady
    <3>3. CASE t = c
      BY <3>1, <3>2, <3>3
    <3>4. CASE t # c
      BY <1>2, <3>1, <3>2, <3>4 DEF OnlyMoves, SamePlace
    <3>5. QED
      BY <3>3, <3>4
  <2> HIDE DEF u
  <2>3. QED
    BY <2>1, <2>2, ScheduleCases DEF u
<1>3. QED
  BY <1>1, <1>2

\* Two operations that let a thread sleep do so one after the other.
LEMMA SleepsThrough ==
  ASSUME NEW s, NEW a, NEW u, NEW t \in User, Asleep(s, a), SleepsOn(a, u, t)
  PROVE  SleepsOn(s, u, t)
BY DEF Asleep, SleepsOn

\* A thread that waits is in no ready list, when each is where its state says.
LEMMA PlacedWaitersNotReady ==
  ASSUME NEW s, WellFormed(s), AllPlaced(s) PROVE WaitersNotReady(s)
BY DEF WaitersNotReady, AllPlaced, OthersPlaced

\* Making a thread ready for the mutex it owns disturbs no other.
LEMMA EarlySleeps ==
  ASSUME NEW s, WellFormed(s), NEW t \in User
  PROVE  LET u == RemoveFromWaitlistEarly(s, t)
         IN  /\ \A v \in User \ {t} : SleepsOn(s, u, v)
             /\ u.tcb[t].ticks \in {0, s.tcb[t].ticks}
<1> DEFINE u == RemoveFromWaitlistEarly(s, t)
           i == CHOOSE k \in 1..Len(s.waitList) : IsFirstAt(s.waitList, t, k)
           a == Sleep(s, t, 0)
           b == SetState(a, t, "READY")
           c == PushReady(b, t)
<1>1. t \in Thread
  BY Ids
<1>2. WellFormed(a) /\ WellFormed(b)
  <2>1. 0 \in Nat \union {Forever} /\ "READY" \in ThreadState
    BY DEF ThreadState
  <2>2. QED
    BY <1>1, <2>1, SleepWF, SetStateWF
<1>3. WellFormed(c) /\ c.tcb = b.tcb
  BY <1>2, PushReadyWF
<1>4. u = s \/ u = [c EXCEPT !.waitList = RemoveAt(s.waitList, i)]
  BY DEF RemoveFromWaitlistEarly
<1>5. /\ \A v \in User \ {t} : /\ b.tcb[v].ticks = s.tcb[v].ticks
                               /\ b.tcb[v].state = s.tcb[v].state
      /\ b.tcb[t].ticks = 0
  <2> DEFINE r == [s.tcb[t] EXCEPT !.state = "WAITING", !.ticks = 0]
             q == [r EXCEPT !.state = "READY"]
  <2>1. s.tcb[t] \in TCB /\ s.tcb \in [Thread -> TCB]
    BY <1>1 DEF WellFormed, Store
  <2>2. r.ticks = 0 /\ q.ticks = 0
    BY <2>1 DEF TCB
  <2>3. a.tcb = [s.tcb EXCEPT ![t] = r]
    BY <1>1, <2>1 DEF Sleep, WellFormed, Store
  <2>4. b.tcb = [a.tcb EXCEPT ![t].state = "READY"]
    <3> HIDE DEF a
    <3> QED
      BY <1>2 DEF SetState, WellFormed, Store
  <2> HIDE DEF a, b, r
  <2>5. a.tcb[t] = r /\ b.tcb[t] = q
    BY <1>1, <1>2, <2>1, <2>3, <2>4 DEF WellFormed, Store
  <2> HIDE DEF q
  <2>6. QED
    BY <1>1, <2>1, <2>2, <2>3, <2>4, <2>5, Ids
<1> HIDE DEF c, b, i
<1>6. u = s \/ u.tcb = b.tcb
  BY <1>3, <1>4 DEF WellFormed, Store
<1> HIDE DEF u
<1>7. QED
  BY <1>5, <1>6 DEF SleepsOn, u

\* Waking the thread that a release has made the owner leaves the others asleep.
LEMMA WakeOwnerSleeps ==
  ASSUME NEW s, WellFormed(s), Tidy(s), Alive(s), AllPlaced(s), NEW t \in User
  PROVE  LET u == ScheduleThreadEarly(s, t)
         IN  /\ \A v \in User \ {t} : SleepsOn(s, u, v)
             /\ u.tcb[t].ticks \in {0, s.tcb[t].ticks}
<1> DEFINE a == RemoveFromWaitlistEarly(s, t)
<1>1. /\ WellFormed(a) /\ AllPlaced(a)
      /\ \A v \in User \ {t} : SleepsOn(s, a, v)
      /\ a.tcb[t].ticks \in {0, s.tcb[t].ticks}
  BY RemoveFromWaitlistEarlyWF, RemoveFromWaitlistEarlySteady, EarlySleeps DEF Steady
<1>2. ScheduleThreadEarly(s, t) \in {s, Schedule(a, High)}
  BY DEF ScheduleThreadEarly
<1> HIDE DEF a
<1>3. Asleep(a, Schedule(a, High))
  BY <1>1, HighIsAPriority, PlacedWaitersNotReady, ScheduleAsleep
<1>4. /\ \A v \in User \ {t} : SleepsOn(s, Schedule(a, High), v)
      /\ Schedule(a, High).tcb[t].ticks \in {0, s.tcb[t].ticks}
  BY <1>1, <1>3 DEF Asleep, SleepsOn
<1>5. Asleep(s, s)
  BY DEF Asleep, SleepsOn
<1>6. QED
  BY <1>2, <1>4, <1>5 DEF Asleep, SleepsOn

\* The lists of mutexes have nothing to do with the ticks.
LEMMA EntriesKeepTicks ==
  ASSUME NEW s, WellFormed(s), NEW t \in Thread, NEW q, NEW v \in Thread
  PROVE  [s EXCEPT !.tcb[t].entries = q].tcb[v].ticks = s.tcb[v].ticks
BY DEF WellFormed, Store, TCB

\* Nor does removing an entry from a TCB.
LEMMA RemoveMutexKeepsTicks ==
  ASSUME NEW s, WellFormed(s), NEW t \in Thread, NEW m, NEW v \in Thread
  PROVE  RemoveMutex(s, t, m).tcb[v].ticks = s.tcb[v].ticks
<1> DEFINE x == s.tcb[t].entries
           q == RemoveAt(x, CHOOSE i \in 1..Len(x) : IsFirstEntry(x, m, i))
<1>1. RemoveMutex(s, t, m) \in {s, [s EXCEPT !.tcb[t].entries = q]}
  BY DEF RemoveMutex
<1> HIDE DEF q
<1>2. [s EXCEPT !.tcb[t].entries = q].tcb[v].ticks = s.tcb[v].ticks
  BY EntriesKeepTicks
<1>3. QED
  BY <1>1, <1>2

\* Nor does a new entry.
LEMMA AddMutexKeepsTicks ==
  ASSUME NEW s, WellFormed(s), NEW t \in Thread, NEW m, NEW w, NEW v \in Thread
  PROVE  AddMutex(s, t, m, w).tcb[v].ticks = s.tcb[v].ticks
<1> DEFINE q == Append(s.tcb[t].entries, [mutex |-> m, waiting |-> w])
<1>1. AddMutex(s, t, m, w) = [s EXCEPT !.tcb[t].entries = q]
  BY DEF AddMutex
<1> HIDE DEF q
<1>2. [s EXCEPT !.tcb[t].entries = q].tcb[v].ticks = s.tcb[v].ticks
  BY EntriesKeepTicks
<1>3. QED
  BY <1>1, <1>2

\* Nor does marking the last entry.
LEMMA SetWaitingKeepsTicks ==
  ASSUME NEW s, WellFormed(s), NEW t \in Thread, NEW w, NEW v \in Thread
  PROVE  SetWaitingOnMutex(s, t, w).tcb[v].ticks = s.tcb[v].ticks
<1> DEFINE n == Len(s.tcb[t].entries)
           q == [s.tcb[t].entries EXCEPT ![n].waiting = w]
<1>1. SetWaitingOnMutex(s, t, w) \in {s, [s EXCEPT !.tcb[t].entries[n].waiting = w]}
  BY DEF SetWaitingOnMutex
<1>2. [s EXCEPT !.tcb[t].entries[n].waiting = w] = [s EXCEPT !.tcb[t].entries = q]
  OBVIOUS
<1> HIDE DEF q
<1>3. [s EXCEPT !.tcb[t].entries = q].tcb[v].ticks = s.tcb[v].ticks
  BY EntriesKeepTicks
<1>4. QED
  BY <1>1, <1>2, <1>3

\* The only sleeper that release() wakes is the one it makes the owner.
LEMMA ReleaseSleeps ==
  ASSUME NEW s, WellFormed(s), Tidy(s), Alive(s), AllPlaced(s), NEW m \in Mutex
  PROVE  LET u == MutexRelease(s, m)
         IN  /\ NoWaiters(s, m) => Asleep(s, u)
             /\ ~ NoWaiters(s, m) =>
                  LET new == u.mutex[m].owner
                  IN  /\ new \in User /\ u.tcb[new].ticks = 0
                      /\ \A v \in User \ {new} : SleepsOn(s, u, v)
<1> DEFINE old   == s.mutex[m].owner
           freed == RemoveMutex(s, old, m)
           u     == MutexRelease(s, m)
           q     == s.mutex[m].queue
<1>1. s.mutex[m] \in MutexRecord /\ q \in [Priority -> Seq(User)]
  BY DEF WellFormed, Store, MutexRecord
<1>2. /\ WellFormed(freed) /\ freed.mutex = s.mutex /\ Still(s, freed)
      /\ \A v \in Thread : freed.tcb[v].ticks = s.tcb[v].ticks
  <2>1. CASE old = None
    BY <2>1, RemoveMutexFromNobody DEF Still
  <2>2. CASE old \in Thread
    BY <2>2, RemoveMutexWF, RemoveMutexStill, RemoveMutexKeepsTicks DEF SameButTCBs
  <2>3. QED
    BY <1>1, <2>1, <2>2, Ids DEF MutexRecord
<1>3. Asleep(s, freed)
  BY <1>2, Ids DEF Asleep, SleepsOn, Still
<1>4. CASE NoWaiters(s, m)
  <2>1. u = [freed EXCEPT !.mutex[m].owner = None]
    BY <1>4 DEF MutexRelease
  <2> HIDE DEF freed, u, q
  <2>2. u.tcb = freed.tcb
    BY <1>1, <1>2, <2>1 DEF WellFormed, Store
  <2>3. Asleep(s, u)
    BY <1>3, <2>2 DEF Asleep, SleepsOn
  <2>4. QED
    BY <1>4, <2>3 DEF u
<1>5. CASE ~ NoWaiters(s, m)
  <2> DEFINE p   == WaitingLevel(s, m)
             new == Head(q[p])
             g   == GrantTo(freed, m, new, p)
  <2>1. p \in Priority /\ q[p] # <<>>
    BY <1>5, WaitingLevelExists
  <2>2. q[p] \in Seq(User)
    BY <1>1, <2>1
  <2>3. new \in User /\ new \in Thread /\ Tail(q[p]) \in Seq(User)
    BY <2>1, <2>2, HeadTailProperties, Ids
  <2>4. u \in {ScheduleThreadEarly(g, new), RemoveFromWaitlistEarly(g, new)}
    BY <1>5 DEF MutexRelease
  <2> HIDE DEF freed, new, p, u, q
  <2>5. WellFormed(g) /\ Still(s, g) /\ Still(freed, g)
    <3>1. freed.mutex[m].queue[p] = q[p]
      BY <1>2 DEF q
    <3>2. WellFormed(g)
      BY <1>2, <2>1, <2>3, <3>1, GrantToWF
    <3>3. Still(freed, g)
      BY <1>2, <2>3, GrantToStill
    <3> HIDE DEF g
    <3>4. QED
      BY <1>2, <3>2, <3>3, StillTransitive
  <2>6. /\ g.mutex[m].owner = new /\ g.tcb[new].ticks = 0
        /\ \A v \in User \ {new} : g.tcb[v].ticks = freed.tcb[v].ticks
    <3>1. g.mutex[m].owner = new
      BY <1>1, <1>2, <2>1 DEF GrantTo, WellFormed, Store, MutexRecord, q
    <3>2. g.tcb = [freed.tcb EXCEPT ![new].ticks = 0]
      BY <1>2 DEF GrantTo, WellFormed, Store
    <3> HIDE DEF g
    <3>3. QED
      BY <1>2, <2>3, <3>1, <3>2, Ids DEF WellFormed, Store, TCB
  <2> HIDE DEF g
  <2>7. Tidy(g) /\ Alive(g) /\ AllPlaced(g)
    BY <2>5, StillSteady DEF Steady
  <2>8. \A v \in User \ {new} : SleepsOn(s, g, v)
    BY <1>2, <2>5, <2>6, Ids DEF SleepsOn, Still
  <2>9. /\ \A v \in User \ {new} : SleepsOn(g, u, v)
        /\ u.tcb[new].ticks \in {0, g.tcb[new].ticks}
        /\ u.mutex = g.mutex
    <3>1. CASE u = ScheduleThreadEarly(g, new)
      BY <2>3, <2>5, <2>7, <3>1, WakeOwnerSleeps, ScheduleThreadEarlyWF DEF SameMutexes
    <3>2. CASE u = RemoveFromWaitlistEarly(g, new)
      BY <2>3, <2>5, <3>2, EarlySleeps, RemoveFromWaitlistEarlyWF DEF SameMutexes
    <3>3. QED
      BY <2>4, <3>1, <3>2
  <2>10. u.mutex[m].owner = new /\ u.tcb[new].ticks = 0
    BY <2>6, <2>9
  <2>11. \A v \in User \ {new} : SleepsOn(s, u, v)
    BY <2>8, <2>9 DEF SleepsOn
  <2>12. QED
    BY <1>5, <2>3, <2>10, <2>11 DEF u
<1>6. QED
  BY <1>4, <1>5

\* The scheduler is called after the current thread alone has changed.
LEMMA StopAsleep ==
  ASSUME NEW s, WellFormed(s), AllPlaced(s), NEW a, WellFormed(a), a.ready = s.ready,
         \A v \in User \ {s.current} : /\ a.tcb[v].state = s.tcb[v].state
                                       /\ a.tcb[v].ticks = s.tcb[v].ticks,
         NEW p \in Priority
  PROVE  LET u == Schedule(a, p)
             c == s.current
         IN  /\ \A v \in User \ {c} : SleepsOn(s, u, v)
             /\ \A v \in Thread : u.tcb[v].ticks = a.tcb[v].ticks
             /\ c \in User /\ a.tcb[c].state = "WAITING" => u.tcb[c].state = "WAITING"
<1> DEFINE u == Schedule(a, p)
           c == s.current
<1>1. \A v \in User, q \in Priority : Readies(a, v, q) = Readies(s, v, q)
  BY DEF Readies
<1>2. WaitersNotReady(a)
  <2> SUFFICES ASSUME NEW v \in User, a.tcb[v].state = "WAITING", NEW q \in Priority
               PROVE  Readies(s, v, q) = 0
    BY <1>1 DEF WaitersNotReady
  <2>1. CASE v = c
    BY <2>1 DEF AllPlaced, OthersPlaced
  <2>2. CASE v # c
    BY <2>2 DEF AllPlaced, OthersPlaced
  <2>3. QED
    BY <2>1, <2>2
<1>3. Asleep(a, u) /\ \A v \in Thread : u.tcb[v].ticks = a.tcb[v].ticks
  BY <1>2, ScheduleAsleep, ScheduleTicks
<1> HIDE DEF u, c
<1>4. \A v \in User \ {c} : SleepsOn(s, u, v)
  BY <1>3 DEF SleepsOn, Asleep, c
<1>5. QED
  BY <1>3, <1>4 DEF Asleep, SleepsOn, u, c

\* A thread that goes to sleep waits for the ticks it asked for.
LEMMA SleepAsleep ==
  ASSUME NEW s, WellFormed(s), AllPlaced(s), s.current # Idle, NEW n \in Nat \union {Forever}
  PROVE  LET u == SleepCurrentThread(s, n)
             c == s.current
         IN  /\ \A v \in User \ {c} : SleepsOn(s, u, v)
             /\ u.tcb[c].state = "WAITING" /\ u.tcb[c].ticks = n
<1> DEFINE c == s.current
           a == Sleep(s, c, n)
           p == IF n = 0 THEN s.tcb[c].prio ELSE High
<1>1. c \in User /\ c \in Thread
  BY DEF WellFormed, Store, User
<1>2. p \in Priority
  BY <1>1, HighIsAPriority DEF WellFormed
<1>3. WellFormed(a) /\ SameButTCBs(s, a)
  BY <1>1, SleepWF
<1>4. /\ a.tcb[c].state = "WAITING" /\ a.tcb[c].ticks = n
      /\ \A v \in User \ {c} : a.tcb[v].state = s.tcb[v].state /\ a.tcb[v].ticks = s.tcb[v].ticks
  <2> DEFINE r == [s.tcb[c] EXCEPT !.state = "WAITING", !.ticks = n]
  <2>1. s.tcb[c] \in TCB /\ s.tcb \in [Thread -> TCB]
    BY <1>1 DEF WellFormed, Store
  <2>2. r.state = "WAITING" /\ r.ticks = n
    BY <2>1 DEF TCB
  <2>3. a.tcb = [s.tcb EXCEPT ![c] = r]
    BY <1>1, <2>1 DEF Sleep, WellFormed, Store
  <2> HIDE DEF a, r
  <2>4. QED
    BY <1>1, <2>1, <2>2, <2>3, Ids
<1>5. SleepCurrentThread(s, n) = Schedule(a, p)
  BY DEF SleepCurrentThread
<1> HIDE DEF a, p
<1>6. a.ready = s.ready
  BY <1>3 DEF SameButTCBs
<1>7. QED
  BY <1>1, <1>2, <1>3, <1>4, <1>5, <1>6, StopAsleep

\* A thread that waits for its file does not count down.
LEMMA WaitOnIOAsleep ==
  ASSUME NEW s, WellFormed(s), AllPlaced(s), s.current # Idle
  PROVE  Asleep(s, WaitCurrentThreadOnIO(s))
<1> DEFINE c == s.current
           b == SetState(s, c, "WAITING")
           a == [b EXCEPT !.tcb[c].io = TRUE]
           u == WaitCurrentThreadOnIO(s)
<1>1. c \in User /\ c \in Thread
  BY DEF WellFormed, Store, User
<1>2. WellFormed(b) /\ SameButTCBs(s, b)
  <2>1. "WAITING" \in ThreadState
    BY DEF ThreadState
  <2>2. QED
    BY <1>1, <2>1, SetStateWF
<1>3. /\ b.tcb = [s.tcb EXCEPT ![c].state = "WAITING"]
      /\ a.tcb = [b.tcb EXCEPT ![c].io = TRUE] /\ a.ready = b.ready
  BY DEF SetState, WellFormed, Store
<1>4. WellFormed(a)
  <2>1. PICK w \in BOOLEAN : w = TRUE
    OBVIOUS
  <2>2. a = [b EXCEPT !.tcb[c].io = w]
    BY <2>1
  <2> HIDE DEF a, b, c
  <2>3. QED
    BY <1>1, <1>2, <2>2, IOFlagWF
<1>5. u = Schedule(a, High)
  BY DEF WaitCurrentThreadOnIO
<1> HIDE DEF a, b, u
<1>6. \A v \in Thread : /\ b.tcb[v].ticks = s.tcb[v].ticks
                        /\ v # c => b.tcb[v].state = s.tcb[v].state
  BY <1>1, <1>3 DEF WellFormed, Store, TCB
<1>7. \A v \in Thread : a.tcb[v].ticks = b.tcb[v].ticks /\ a.tcb[v].state = b.tcb[v].state
  <2>1. b.tcb \in [Thread -> TCB] /\ a.tcb = [b.tcb EXCEPT ![c].io = TRUE]
    BY <1>2, <1>3 DEF WellFormed, Store
  <2> HIDE DEF c
  <2>2. QED
    BY ONLY <2>1 DEF TCB
<1>8. /\ \A v \in User \ {c} : a.tcb[v].state = s.tcb[v].state /\ a.tcb[v].ticks = s.tcb[v].ticks
      /\ a.ready = s.ready
  BY <1>2, <1>3, <1>6, <1>7, Ids DEF SameButTCBs
<1>9. /\ \A v \in User \ {c} : SleepsOn(s, u, v)
      /\ \A v \in Thread : u.tcb[v].ticks = a.tcb[v].ticks
  BY <1>4, <1>5, <1>8, HighIsAPriority, StopAsleep
<1>10. s.tcb[c].state = "RUNNING"
  BY <1>1 DEF AllPlaced
<1>11. SleepsOn(s, u, c)
  BY <1>1, <1>6, <1>7, <1>9, <1>10 DEF SleepsOn
<1>12. QED
  BY <1>9, <1>11 DEF Asleep, u

\* An application's thread that is activated, deleted, created or dies of its own
\* hand disturbs no sleeper.
LEMMA ActivateAsleep ==
  ASSUME NEW s, WellFormed(s), AllPlaced(s), NEW t \in Thread, s.tcb[t].state = "DEAD"
  PROVE  Asleep(s, ActivateDeadThread(s, t))
<1> DEFINE r == SetState(s, t, "READY")
           a == PushReady(r, t)
           u == ActivateDeadThread(s, t)
<1>1. CASE t \notin s.deadList
  <2>1. u = s
    BY <1>1 DEF ActivateDeadThread
  <2>2. QED
    BY <2>1 DEF Asleep, SleepsOn
<1>2. CASE t \in s.deadList
  <2>1. t \in User
    BY <1>2 DEF WellFormed, Store
  <2>2. WellFormed(r) /\ OnlyMoves(s, r, {t}) /\ r.tcb[t].state = "READY"
    <3>1. "READY" \in ThreadState
      BY DEF ThreadState
    <3>2. WellFormed(r)
      BY <3>1, SetStateWF
    <3>3. OnlyMoves(s, r, {t}) /\ r.tcb[t].state = "READY"
      BY <3>1, SetStatePlace
    <3>4. QED
      BY <3>2, <3>3
  <2>3. u \in {a, Schedule(a, High)}
    BY <1>2 DEF ActivateDeadThread
  <2>4. \A v \in Thread : r.tcb[v].ticks = s.tcb[v].ticks
    BY ListsKeepTicks
  <2> HIDE DEF r
  <2>5. WellFormed(a) /\ a.tcb = r.tcb /\ OnlyMoves(r, a, {t})
    BY <2>1, <2>2, PushReadyWF, PushReadyPlace
  <2> HIDE DEF a
  <2>6. /\ a.tcb[t].state = "READY"
        /\ \A v \in User \ {t} :
             /\ a.tcb[v].state = s.tcb[v].state
             /\ \A p \in Priority : Readies(a, v, p) = Readies(s, v, p)
    BY <2>2, <2>5 DEF OnlyMoves, SamePlace
  <2>7. WaitersNotReady(a)
    <3>1. WaitersNotReady(s)
      BY PlacedWaitersNotReady
    <3>2. QED
      BY <2>6, <3>1 DEF WaitersNotReady
  <2>8. Asleep(s, a)
    <3>1. \A v \in User : a.tcb[v].ticks = s.tcb[v].ticks
      BY <2>4, <2>5, Ids
    <3>2. QED
      BY <2>6, <3>1 DEF Asleep, SleepsOn
  <2>9. Asleep(a, Schedule(a, High))
    BY <2>5, <2>7, HighIsAPriority, ScheduleAsleep
  <2>10. Asleep(s, a) /\ Asleep(s, Schedule(a, High))
    BY <2>8, <2>9, SleepsThrough DEF Asleep
  <2>11. QED
    BY <2>3, <2>10
<1>3. QED
  BY <1>1, <1>2

\* Deleting a thread wakes nobody.
LEMMA DeleteAsleep ==
  ASSUME NEW s, WellFormed(s), AllPlaced(s), NEW t \in Thread
  PROVE  Asleep(s, DeleteDeadThread(s, t))
<1> DEFINE d == [s EXCEPT !.tcb[t].deleted = TRUE]
           u == DeleteDeadThread(s, t)
<1>1. /\ d.tcb = [s.tcb EXCEPT ![t].deleted = TRUE] /\ d.ready = s.ready
      /\ s.tcb \in [Thread -> TCB] /\ s.tcb[t] \in TCB
  BY DEF WellFormed, Store
<1>2. WellFormed(d)
  <2> DEFINE r == [s.tcb[t] EXCEPT !.deleted = TRUE]
  <2>1. r \in TCB /\ r.prio = s.tcb[t].prio
    BY <1>1 DEF TCB
  <2>2. d = [s EXCEPT !.tcb = [s.tcb EXCEPT ![t] = r]]
    BY <1>1 DEF WellFormed, Store
  <2> HIDE DEF d, r
  <2>3. QED
    BY <2>1, <2>2, UpdateTCB
<1>3. \A v \in Thread : d.tcb[v].state = s.tcb[v].state /\ d.tcb[v].ticks = s.tcb[v].ticks
  <2> HIDE DEF d
  <2> QED
    BY <1>1 DEF TCB
<1>4. u \in {Schedule(s, High), Schedule(d, High)}
  BY DEF DeleteDeadThread
<1> HIDE DEF d
<1>5. WaitersNotReady(s)
  BY PlacedWaitersNotReady
<1>6. WaitersNotReady(d) /\ Asleep(s, d)
  BY <1>1, <1>3, <1>5, Ids DEF WaitersNotReady, Asleep, SleepsOn, Readies
<1>7. Asleep(s, Schedule(s, High)) /\ Asleep(d, Schedule(d, High))
  BY <1>2, <1>5, <1>6, HighIsAPriority, ScheduleAsleep
<1>8. Asleep(s, Schedule(d, High))
  BY <1>6, <1>7, SleepsThrough DEF Asleep
<1>9. QED
  BY <1>4, <1>7, <1>8

\* A thread that marks itself dead wakes nobody.
LEMMA MarkDeadAsleep ==
  ASSUME NEW s, WellFormed(s), AllPlaced(s), s.current \in User
  PROVE  Asleep(s, MarkDead(s, s.current))
<1> DEFINE c == s.current
           b == SetState(s, c, "DEAD")
           a == [b EXCEPT !.deadList = @ \union {c}]
           u == MarkDead(s, c)
<1>1. c \in User /\ c \in Thread
  BY Ids
<1>2. WellFormed(b) /\ SameButTCBs(s, b)
  <2>1. "DEAD" \in ThreadState
    BY DEF ThreadState
  <2>2. QED
    BY <1>1, <2>1, SetStateWF
<1>3. b.tcb = [s.tcb EXCEPT ![c].state = "DEAD"]
  BY DEF SetState, WellFormed, Store
<1>4. u = Schedule(a, High)
  BY DEF MarkDead
<1> HIDE DEF b, u
<1>5. a.tcb = b.tcb /\ a.ready = b.ready /\ WellFormed(a)
  <2> DEFINE d == b.deadList \union {c}
  <2>1. d \in SUBSET User
    BY <1>1, <1>2 DEF WellFormed, Store
  <2>2. a = [b EXCEPT !.deadList = d]
    OBVIOUS
  <2> HIDE DEF d, c
  <2>3. WellFormed(a)
    BY <1>2, <2>1, <2>2, DeadListWF
  <2>4. a.tcb = b.tcb /\ a.ready = b.ready
    BY <1>2, <2>2 DEF WellFormed, Store
  <2>5. QED
    BY <2>3, <2>4
<1> HIDE DEF a
<1>6. \A v \in Thread : /\ a.tcb[v].ticks = s.tcb[v].ticks
                        /\ v # c => a.tcb[v].state = s.tcb[v].state
  BY <1>1, <1>3, <1>5 DEF WellFormed, Store, TCB
<1>7. /\ \A v \in User \ {c} : a.tcb[v].state = s.tcb[v].state /\ a.tcb[v].ticks = s.tcb[v].ticks
      /\ a.ready = s.ready
  BY <1>2, <1>5, <1>6, Ids DEF SameButTCBs
<1>8. /\ \A v \in User \ {c} : SleepsOn(s, u, v)
      /\ \A v \in Thread : u.tcb[v].ticks = a.tcb[v].ticks
  BY <1>4, <1>5, <1>7, HighIsAPriority, StopAsleep
<1>9. s.tcb[c].state = "RUNNING"
  BY <1>1 DEF AllPlaced
<1>10. SleepsOn(s, u, c)
  BY <1>1, <1>6, <1>8, <1>9 DEF SleepsOn
<1>11. QED
  BY <1>8, <1>10 DEF Asleep, u, c

\* A thread that queues keeps its ticks.
LEMMA EnqueueCurrentTicks ==
  ASSUME NEW s, WellFormed(s), s.current # Idle, NEW m \in Mutex, NEW v \in Thread
  PROVE  EnqueueCurrent(s, m).tcb[v].ticks = s.tcb[v].ticks
<1> DEFINE t == s.current
           b == SetWaitingOnMutex(s, t, TRUE)
           a == AddMutex(b, t, m, TRUE)
           u == EnqueueCurrent(s, m)
<1>1. t \in User /\ t \in Thread
  BY DEF WellFormed, Store, User
<1>2. WellFormed(b)
  BY <1>1, SetWaitingOnMutexWF
<1>3. b.tcb[v].ticks = s.tcb[v].ticks
  <2>1. PICK w \in BOOLEAN : w = TRUE
    OBVIOUS
  <2>2. b = SetWaitingOnMutex(s, t, w)
    BY <2>1
  <2> HIDE DEF b, t
  <2>3. QED
    BY <1>1, <2>2, SetWaitingKeepsTicks
<1>4. u = [a EXCEPT !.mutex[m].queue[s.tcb[t].prio] = Append(@, t)]
  BY DEF EnqueueCurrent
<1> HIDE DEF b
<1>5. WellFormed(a)
  BY <1>1, <1>2, AddMutexWF
<1>6. a.tcb[v].ticks = b.tcb[v].ticks
  <2>1. PICK w \in BOOLEAN : w = TRUE
    OBVIOUS
  <2>2. a = AddMutex(b, t, m, w)
    BY <2>1
  <2> HIDE DEF a, t
  <2>3. QED
    BY <1>1, <1>2, <2>2, AddMutexKeepsTicks
<1> HIDE DEF a, u, t
<1>7. u.tcb = a.tcb
  BY <1>4, <1>5 DEF WellFormed, Store
<1>8. QED
  BY <1>3, <1>6, <1>7 DEF u

\* A thread loses no place in a queue.
StaysQueued(s, u, t) ==
  \A k \in Mutex, p \in Priority : Queued(s, t, k, p) # 0 => Queued(u, t, k, p) # 0

\* An acquire wakes nobody and takes nobody out of a queue; the caller's ticks are set only
\* when it is queued.
LEMMA LockAsleep ==
  ASSUME NEW s, WellFormed(s), Tidy(s), Alive(s), AllPlaced(s), s.current # Idle,
         NEW m \in Mutex, NEW n \in Nat \union {ImmediateTimeout}
  PROVE  LET u == MutexLock(s, m, n)
             c == s.current
         IN  /\ \A v \in User \ {c} : SleepsOn(s, u, v)
             /\ \A v \in User : StaysQueued(s, u, v)
             /\ \/ u.tcb[c].ticks = s.tcb[c].ticks
                \/ u.tcb[c].state = "WAITING" /\ \E p \in Priority : Queued(u, c, m, p) # 0
<1> DEFINE u == MutexLock(s, m, n)
           c == s.current
<1>1. c \in User /\ c \in Thread /\ User \subseteq Thread
  BY Ids DEF WellFormed, Store, User
<1>2. WellFormed(u) /\ \A k \in Mutex \ {m} : u.mutex[k] = s.mutex[k]
  BY MutexLockEffect DEF SameOtherMutexes
<1>3. CASE s.mutex[m].owner = None
  <2> DEFINE a == AddMutex(s, c, m, FALSE)
  <2>1. u = [a EXCEPT !.mutex[m].owner = c]
    BY <1>3 DEF MutexLock
  <2>2. WellFormed(a) /\ SameButTCBs(s, a) /\ Still(s, a)
    BY <1>1, AddMutexWF, AddMutexStill
  <2>3. \A v \in Thread : a.tcb[v].ticks = s.tcb[v].ticks
    <3>1. PICK w \in BOOLEAN : w = FALSE
      OBVIOUS
    <3>2. a = AddMutex(s, c, m, w)
      BY <3>1
    <3> HIDE DEF a, c
    <3>3. QED
      BY <1>1, <3>2, AddMutexKeepsTicks
  <2> HIDE DEF a, u, c
  <2>4. u.tcb = a.tcb /\ u.mutex[m].queue = a.mutex[m].queue
    BY <2>1, <2>2 DEF WellFormed, Store, MutexRecord
  <2>5. \A k \in Mutex : u.mutex[k].queue = s.mutex[k].queue
    BY <1>2, <2>2, <2>4 DEF SameButTCBs
  <2>6. Asleep(s, u)
    BY <1>1, <2>2, <2>3, <2>4 DEF Asleep, SleepsOn, Still
  <2>7. \A v \in User : StaysQueued(s, u, v)
    BY <2>5 DEF StaysQueued, Queued
  <2>8. QED
    BY <1>1, <2>6, <2>7 DEF Asleep, SleepsOn, u, c
<1>4. CASE s.mutex[m].owner # None /\ n = ImmediateTimeout
  <2>1. u = s
    BY <1>4 DEF MutexLock
  <2>2. QED
    BY <2>1 DEF SleepsOn, StaysQueued
<1>5. CASE s.mutex[m].owner # None /\ n # ImmediateTimeout
  <2> DEFINE e == EnqueueCurrent(s, m)
             q == s.mutex[m].queue
             p == s.tcb[c].prio
             w == IF n = InfiniteTimeout THEN Forever ELSE n
  <2>1. /\ WellFormed(e) /\ SameOtherMutexes(s, e, m) /\ e.current = s.current
        /\ Still(s, e)
    BY EnqueueCurrentEffect, EnqueueCurrentStill
  <2>2. /\ e.mutex[m].queue = [q EXCEPT ![p] = Append(q[p], c)]
        /\ p \in Priority
    BY EnqueueCurrentEntries
  <2>3. w \in Nat \union {Forever} /\ u = SleepCurrentThread(e, w)
    BY <1>5 DEF MutexLock
  <2>4. q \in [Priority -> Seq(User)]
    BY DEF WellFormed, Store, MutexRecord
  <2>5. \A v \in Thread : e.tcb[v].ticks = s.tcb[v].ticks
    BY EnqueueCurrentTicks
  <2> HIDE DEF e, w, u, q, p, c
  <2>6. Asleep(s, e) /\ AllPlaced(e) /\ e.current = c
    BY <1>1, <2>1, <2>5, StillSteady DEF Asleep, SleepsOn, Still, Steady, c
  <2>7. /\ \A v \in User \ {c} : SleepsOn(e, u, v)
        /\ u.tcb[c].state = "WAITING" /\ u.mutex = e.mutex
    BY <2>1, <2>3, <2>6, SleepAsleep, SleepCurrentThreadWF DEF SameMutexes
  <2>8. \A v \in User \ {c} : SleepsOn(s, u, v)
    BY <2>6, <2>7, SleepsThrough
  <2>9. ASSUME NEW v \in User
        PROVE  Queued(u, v, m, p) = Queued(s, v, m, p) + (IF v = c THEN 1 ELSE 0)
    <3> DEFINE x == q[p]
    <3>1. x \in Seq(User)
      BY <2>2, <2>4
    <3>2. Queued(u, v, m, p) = Occ(Append(x, c), {v}) /\ Queued(s, v, m, p) = Occ(x, {v})
      BY <2>2, <2>4, <2>7 DEF Queued, q
    <3> HIDE DEF x
    <3>3. Occ(Append(x, c), {v}) = Occ(x, {v}) + (IF c \in {v} THEN 1 ELSE 0)
      BY <1>1, <3>1, OccAppend
    <3>4. QED
      BY <3>2, <3>3
  <2>10. ASSUME NEW v \in User PROVE StaysQueued(s, u, v)
    <3> SUFFICES ASSUME NEW k \in Mutex, NEW r \in Priority, Queued(s, v, k, r) # 0
                 PROVE  Queued(u, v, k, r) # 0
      BY DEF StaysQueued
    <3>1. CASE k # m \/ r # p
      <4>1. u.mutex[k].queue[r] = s.mutex[k].queue[r]
        BY <2>1, <2>2, <2>4, <2>7, <3>1 DEF SameOtherMutexes, q
      <4>2. QED
        BY <4>1 DEF Queued
    <3>2. CASE k = m /\ r = p
      <4>1. Queued(s, v, m, p) \in Nat
        BY <1>1, <2>2, CountsAreNat
      <4>2. QED
        BY <2>9, <3>2, <4>1
    <3>3. QED
      BY <3>1, <3>2
  <2>11. Queued(u, c, m, p) # 0
    <3>1. Queued(s, c, m, p) \in Nat
      BY <1>1, <2>2, CountsAreNat
    <3>2. QED
      BY <1>1, <2>9, <3>1
  <2>12. QED
    BY <2>2, <2>7, <2>8, <2>10, <2>11 DEF u, c
<1>6. QED
  BY <1>3, <1>4, <1>5

\* The mutex of a thread's newest entry is its own.
OwnsAwaited(s, t) ==
  /\ s.tcb[t].entries # <<>> /\ WaitingMutex(s, t) \in Mutex
  /\ s.mutex[WaitingMutex(s, t)].owner = t

\* timerEvent() settles a waiter: it has no ticks left if it owns the mutex it waits
\* for, and sleeps on otherwise.
LEMMA SettleTicks ==
  ASSUME NEW s, WellFormed(s), NEW t \in User, s.tcb[t].state = "WAITING"
  PROVE  LET u == Settle(s, t)
         IN  /\ \A v \in User \ {t} : /\ u.tcb[v].ticks = s.tcb[v].ticks
                                      /\ u.tcb[v].state = s.tcb[v].state
             /\ u.tcb[t].state = "WAITING"
             /\ \/ u.tcb[t].ticks = s.tcb[t].ticks
                \/ u.tcb[t].ticks = 0 /\ OwnsAwaited(s, t)
<1> DEFINE a == SetWaitingOnMutex(s, t, FALSE)
           b == Sleep(a, t, 0)
           u == Settle(s, t)
<1>1. t \in Thread
  BY Ids
<1>2. CASE u = s
  BY <1>2
<1>3. CASE u # s
  <2>1. /\ u = b
        /\ IsWaitingOnMutex(s, t) /\ s.mutex[WaitingMutex(s, t)].owner = t
    BY <1>3 DEF Settle
  <2>2. WellFormed(a) /\ Still(s, a) /\ SameButTCBs(s, a)
    BY <1>1, SetWaitingOnMutexWF, SetWaitingOnMutexStill
  <2>3. \A v \in Thread : a.tcb[v].ticks = s.tcb[v].ticks
    <3>1. PICK w \in BOOLEAN : w = FALSE
      OBVIOUS
    <3>2. a = SetWaitingOnMutex(s, t, w)
      BY <3>1
    <3> HIDE DEF a
    <3>3. QED
      BY <1>1, <3>2, SetWaitingKeepsTicks
  <2> HIDE DEF a
  <2>4. /\ b.tcb[t].state = "WAITING" /\ b.tcb[t].ticks = 0
        /\ \A v \in User \ {t} : b.tcb[v].state = a.tcb[v].state /\ b.tcb[v].ticks = a.tcb[v].ticks
    <3> DEFINE r == [a.tcb[t] EXCEPT !.state = "WAITING", !.ticks = 0]
    <3>1. a.tcb[t] \in TCB /\ a.tcb \in [Thread -> TCB]
      BY <1>1, <2>2 DEF WellFormed, Store
    <3>2. r.state = "WAITING" /\ r.ticks = 0
      BY <3>1 DEF TCB
    <3>3. b.tcb = [a.tcb EXCEPT ![t] = r]
      BY <1>1, <2>2, <3>1 DEF Sleep, WellFormed, Store
    <3> HIDE DEF b, r
    <3>4. QED
      BY <1>1, <3>1, <3>2, <3>3, Ids
  <2>5. s.tcb[t].entries # <<>>
    <3>1. Len(<<>>) = 0
      OBVIOUS
    <3>2. QED
      BY <2>1, <3>1 DEF IsWaitingOnMutex
  <2>6. WaitingMutex(s, t) \in Mutex
    <3> DEFINE q == s.tcb[t].entries
    <3>1. q \in Seq(Entry)
      BY <1>1 DEF WellFormed, Store, TCB
    <3>2. Len(q) # 0
      BY <2>1 DEF IsWaitingOnMutex
    <3>3. WaitingMutex(s, t) = q[Len(q)].mutex
      BY DEF WaitingMutex
    <3> HIDE DEF q
    <3>4. q[Len(q)] \in Entry
      <4>1. Len(q) \in Nat /\ DOMAIN q = 1..Len(q)
        BY <3>1, LenProperties
      <4>2. Len(q) \in 1..Len(q)
        BY <3>2, <4>1
      <4>3. QED
        BY <3>1, <4>1, <4>2, ElementOfSeq
    <3>5. QED
      BY <3>3, <3>4 DEF Entry
  <2>7. OwnsAwaited(s, t)
    BY <2>1, <2>5, <2>6 DEF OwnsAwaited
  <2> HIDE DEF b, u
  <2>8. \A v \in User \ {t} : u.tcb[v].ticks = s.tcb[v].ticks /\ u.tcb[v].state = s.tcb[v].state
    BY <2>1, <2>2, <2>3, <2>4, Ids DEF Still
  <2>9. QED
    BY <2>1, <2>4, <2>7, <2>8 DEF u
<1>4. QED
  BY <1>2, <1>3

\* One turn of the loop of timerEvent(): nobody else is disturbed, and the thread it
\* visits owns the mutex of its newest entry, or sleeps on, a tick less or not, or had no
\* ticks left.
LEMMA TimerTurn ==
  ASSUME TypeOK, Placed, TimerKeep \/ TimerCountdown \/ TimerWake
  PROVE  LET t == Visited
             n == store.tcb[t].ticks
             k == store'.tcb[t].ticks
         IN  /\ t \in User
             /\ \A v \in User \ {t} : SleepsOn(store, store', v)
             /\ \/ k = 0 /\ OwnsAwaited(store, t)
                \/ k = n /\ store'.tcb[t].state = "WAITING"
                \/ n > 0 /\ k = n - 1 /\ store'.tcb[t].state = "WAITING"
                \/ n = 0 /\ k = 0
<1> DEFINE t == Visited
           a == Settle(store, t)
           i == frame[cur].arg
<1>1. Visiting /\ WellFormed(store)
  BY DEF TimerKeep, TimerCountdown, TimerWake, TypeOK
<1>2. t \in User /\ t \in Thread /\ i \in 1..Len(store.waitList) /\ Waits(store, t) > 0
  BY <1>1, VisitedWaits
<1>3. t = store.waitList[i]
  BY DEF Visited
<1>4. store.tcb[t].state = "WAITING"
  BY <1>2 DEF Placed, AllPlaced, OthersPlaced
<1> HIDE DEF t
<1>5. WellFormed(a) /\ SameButTCBs(store, a)
  BY <1>1, <1>2, SettleWF
<1>6. /\ \A v \in User \ {t} : /\ a.tcb[v].ticks = store.tcb[v].ticks
                               /\ a.tcb[v].state = store.tcb[v].state
      /\ a.tcb[t].state = "WAITING"
      /\ \/ a.tcb[t].ticks = store.tcb[t].ticks
         \/ a.tcb[t].ticks = 0 /\ OwnsAwaited(store, t)
  BY <1>1, <1>2, <1>4, SettleTicks
<1>7. CASE TimerKeep
  <2>1. store' = a
    BY <1>7 DEF TimerKeep, t
  <2> HIDE DEF a
  <2>2. QED
    BY <1>2, <1>6, <2>1 DEF SleepsOn, t
<1>8. CASE TimerCountdown
  <2> DEFINE n == a.tcb[t].ticks - 1
  <2>1. store' = [a EXCEPT !.tcb[t].ticks = n] /\ a.tcb[t].ticks > 0
    BY <1>8 DEF TimerCountdown, t
  <2>2. a.tcb[t].ticks # 0
    BY <2>1
  <2>3. n = store.tcb[t].ticks - 1 /\ store.tcb[t].ticks > 0
    BY <1>6, <2>1, <2>2
  <2> HIDE DEF n, a
  <2>4. /\ store'.tcb[t].ticks = n
        /\ \A v \in Thread : /\ store'.tcb[v].state = a.tcb[v].state
                             /\ v # t => store'.tcb[v].ticks = a.tcb[v].ticks
    BY <1>2, <1>5, <2>1 DEF WellFormed, Store, TCB
  <2>5. QED
    BY <1>2, <1>6, <2>3, <2>4, Ids DEF SleepsOn, t
<1>9. CASE TimerWake
  <2> DEFINE r == SetState(a, t, "READY")
             b == PushReady(r, t)
  <2>1. /\ store' = [b EXCEPT !.waitList = RemoveAt(@, i)]
        /\ a.tcb[t].ticks = 0
    BY <1>9 DEF TimerWake, t
  <2> HIDE DEF a
  <2>2. WellFormed(r) /\ SameButTCBs(a, r) /\ OnlyMoves(a, r, {t})
    <3>1. "READY" \in ThreadState
      BY DEF ThreadState
    <3>2. QED
      BY <1>2, <1>5, <3>1, SetStateWF, SetStatePlace
  <2>3. \A v \in Thread : r.tcb[v].ticks = a.tcb[v].ticks
    BY <1>2, <1>5, ListsKeepTicks
  <2> HIDE DEF r
  <2>4. WellFormed(b) /\ b.tcb = r.tcb /\ b.mutex = r.mutex
    BY <1>2, <2>2, PushReadyWF DEF SameMutexes
  <2> HIDE DEF b, i
  <2>5. store'.tcb = r.tcb
    <3>1. store'.tcb = b.tcb
      BY <2>1, <2>4 DEF WellFormed, Store
    <3>2. QED
      BY <2>4, <3>1
  <2>6. /\ \A v \in User : store'.tcb[v].ticks = a.tcb[v].ticks
        /\ \A v \in User \ {t} : store'.tcb[v].state = a.tcb[v].state
    BY <2>2, <2>3, <2>5, Ids DEF OnlyMoves, SamePlace
  <2>7. QED
    BY <1>2, <1>6, <2>1, <2>6 DEF SleepsOn, t
<1>10. QED
  BY <1>7, <1>8, <1>9

\* The steps that set a thread's ticks, or count them down.
SleepStep ==
  \/ VMThreadYield \/ \E n \in Timeouts : VMThreadSleep(n)
  \/ \E m \in Mutex : VMMutexAcquire(m)

TimerLoop == TimerKeep \/ TimerCountdown \/ TimerWake

\* A mutex is handed on to t, which then has no ticks left.
HandsOn(t) ==
  \E m \in Mutex : /\ VMMutexRelease(m) \/ KillRelease
                  /\ store'.mutex[m].owner = t /\ store'.tcb[t].ticks = 0

\* A thread that does not wait has no ticks left, because it is being created.
Fresh(t) == store.tcb[t].state # "WAITING" /\ store'.tcb[t].ticks = 0

\* The other steps let everybody sleep but the thread that a mutex is handed on to.
LEMMA OtherStepsLetSleep ==
  ASSUME TypeOK, Sched, Placed, [Next]_vars, ~ SleepStep, ~ TimerLoop
  PROVE  \A t \in User : SleepsOn(store, store', t) \/ HandsOn(t) \/ Fresh(t)
<1>1. /\ WellFormed(store) /\ cur \in Thread /\ User \subseteq Thread
      /\ Tidy(store) /\ Alive(store) /\ AllPlaced(store) /\ SelfKill
  BY Ranges, Ids DEF TypeOK, Sched, Placed
<1>2. ASSUME store'.tcb = store.tcb PROVE Asleep(store, store')
  BY <1>2 DEF Asleep, SleepsOn
<1>3. ASSUME VMThreadCreate
      PROVE  \A t \in User : SleepsOn(store, store', t) \/ Fresh(t)
  <2>1. PICK p \in Priorities : store' = InsertThread(store, p)
    BY <1>3 DEF VMThreadCreate, Finish
  <2> DEFINE n == store.numThreads
  <2>2. n \in Thread /\ p \in Priority
    BY <1>3, PrioritiesAssumption DEF VMThreadCreate
  <2>3. /\ \A v \in Thread \ {n} : store'.tcb[v] = store.tcb[v]
        /\ store'.tcb[n] = NewTCB("DEAD", p) /\ n \in User
    BY <1>1, <2>1, <2>2, InsertThreadSteady
  <2>4. store'.tcb[n].ticks = 0
    BY <2>3 DEF NewTCB
  <2>5. store.tcb[n].state = "DEAD"
    <3>1. n \in Int /\ n >= n
      BY <1>1, Numbers
    <3>2. QED
      BY <1>1, <2>3, <3>1 DEF Tidy, Gone
  <2> HIDE DEF n
  <2>6. QED
    BY <1>1, <2>3, <2>4, <2>5 DEF SleepsOn, Fresh
<1>4. ASSUME VMFile PROVE Asleep(store, store')
  <2>1. store' = WaitCurrentThreadOnIO(store) /\ store.current # Idle
    BY <1>4 DEF VMFile, Enter, Calling, cur
  <2>2. QED
    BY <1>1, <2>1, WaitOnIOAsleep
<1>5. ASSUME NEW t \in Thread, VMThreadActivate(t) PROVE Asleep(store, store')
  <2>1. store' = ActivateDeadThread(store, t) /\ store.tcb[t].state = "DEAD"
    BY <1>5 DEF VMThreadActivate, Enter
  <2>2. QED
    BY <1>1, <2>1, ActivateAsleep
<1>6. ASSUME NEW t \in Thread, VMThreadDelete(t) PROVE Asleep(store, store')
  <2>1. store' = DeleteDeadThread(store, t)
    BY <1>6 DEF VMThreadDelete, Enter
  <2>2. QED
    BY <1>1, <2>1, DeleteAsleep
<1>7. ASSUME \/ \E t \in Thread : VMThreadTerminate(t)
             \/ \E m \in Mutex : VMMutexReleaseUnowned(m)
      PROVE  Asleep(store, store')
  BY <1>2, <1>7 DEF VMThreadTerminate, VMMutexReleaseUnowned, Enter
<1>8. ASSUME KillFinish PROVE Asleep(store, store')
  <2>1. /\ store' = MarkDead(store, frame[cur].arg) /\ frame[cur].at = "kill"
    BY <1>8 DEF KillFinish, Owes
  <2>2. frame[cur].arg = cur /\ cur \in User
    BY <1>1, <2>1 DEF TypeOK, SelfKill
  <2>3. QED
    BY <1>1, <2>1, <2>2, MarkDeadAsleep DEF cur
<1>9. CASE KillRelease
  <2> DEFINE k == frame[cur].arg
             q == store.tcb[k].entries
             s == [store EXCEPT !.tcb[k].entries = Tail(q)]
             m == Head(q).mutex
  <2>1. q # <<>> /\ store' = MutexRelease(s, m) /\ frame[cur].at = "kill"
    BY <1>9 DEF KillRelease, Owes
  <2>2. k \in Thread
    BY <1>1, <2>1 DEF TypeOK
  <2>3. q \in Seq(Entry)
    BY <1>1, <2>2 DEF WellFormed, Store, TCB
  <2>4. Head(q) \in Entry /\ Tail(q) \in Seq(Entry)
    BY <2>1, <2>3, HeadTailProperties
  <2>5. m \in Mutex
    BY <2>4 DEF Entry
  <2>6. WellFormed(s) /\ Still(store, s)
    BY <1>1, <2>2, <2>4, EntriesWF, EntriesStill
  <2>7. \A v \in Thread : s.tcb[v].ticks = store.tcb[v].ticks
    <3> DEFINE r == Tail(q)
    <3>1. s = [store EXCEPT !.tcb[k].entries = r]
      OBVIOUS
    <3> HIDE DEF s, r, q, k
    <3>2. QED
      BY <1>1, <2>2, <3>1 DEF WellFormed, Store, TCB
  <2> HIDE DEF s, m, k
  <2>8. Tidy(s) /\ Alive(s) /\ AllPlaced(s)
    BY <1>1, <2>6, StillSteady DEF Steady
  <2>9. Asleep(store, s)
    BY <1>1, <2>6, <2>7 DEF Asleep, SleepsOn, Still
  <2>10. \A t \in User : \/ SleepsOn(s, store', t)
                         \/ store'.mutex[m].owner = t /\ store'.tcb[t].ticks = 0
    BY <2>1, <2>5, <2>6, <2>8, ReleaseSleeps DEF Asleep
  <2>11. QED
    BY <1>9, <2>5, <2>9, <2>10, SleepsThrough DEF HandsOn
<1>10. ASSUME NEW m \in Mutex, VMMutexRelease(m)
       PROVE  \A t \in User : SleepsOn(store, store', t) \/ HandsOn(t)
  <2>1. store' = MutexRelease(store, m)
    BY <1>10 DEF VMMutexRelease, Enter
  <2>2. \A t \in User : \/ SleepsOn(store, store', t)
                        \/ store'.mutex[m].owner = t /\ store'.tcb[t].ticks = 0
    BY <1>1, <2>1, ReleaseSleeps DEF Asleep
  <2>3. QED
    BY <1>10, <2>2 DEF HandsOn
<1>11. ASSUME VMMutexCreate \/ \E m \in Mutex : VMMutexDelete(m)
       PROVE  Asleep(store, store')
  <2>1. store'.tcb = store.tcb
    BY <1>1, <1>11 DEF VMMutexCreate, VMMutexDelete, Finish, InsertMutex, DeleteFromVM,
       WellFormed, Store
  <2>2. QED
    BY <1>2, <2>1
<1>12. ASSUME TimerDone PROVE Asleep(store, store')
  <2>1. store' \in {store, Schedule(store, High)}
    BY <1>12 DEF TimerDone
  <2>2. Asleep(store, Schedule(store, High))
    BY <1>1, HighIsAPriority, PlacedWaitersNotReady, ScheduleAsleep
  <2>3. QED
    BY <1>2, <2>1, <2>2
<1>13. ASSUME MachineFileIOCallback PROVE Asleep(store, store')
  <2>1. /\ store' = [store EXCEPT !.tcb[reply[cur]].io = FALSE]
        /\ reply[cur] \in Thread
    BY <1>13, TypeParts, Ranges DEF MachineFileIOCallback
  <2>2. PICK t \in Thread : t = reply[cur]
    BY <2>1
  <2>3. store' = [store EXCEPT !.tcb[t].io = FALSE]
    BY <2>1, <2>2
  <2>4. \A v \in Thread : /\ store'.tcb[v].ticks = store.tcb[v].ticks
                          /\ store'.tcb[v].state = store.tcb[v].state
    BY <1>1, <2>3 DEF WellFormed, Store, TCB
  <2>5. QED
    BY <1>1, <2>4 DEF Asleep, SleepsOn
<1>14. ASSUME SafeEntry \/ Return \/ AcquireReturn PROVE Asleep(store, store')
  BY <1>2, <1>14 DEF SafeEntry, Return, AcquireReturn, Resume
<1>15. ASSUME \/ TimerInterrupt \/ \E t \in Thread : MachineReplySignalHandler(t)
              \/ IdleSpin \/ UNCHANGED vars
       PROVE  Asleep(store, store')
  BY <1>2, <1>15 DEF TimerInterrupt, MachineReplySignalHandler, IdleSpin, vars
<1>16. QED
  BY <1>3, <1>4, <1>5, <1>6, <1>7, <1>8, <1>9, <1>10, <1>11, <1>12, <1>13, <1>14, <1>15
  DEF Next, Call, Kernel, SleepStep, TimerLoop, Asleep

\* Nobody loses a place in a queue to a release but the thread it serves.
LEMMA ReleaseQueues ==
  ASSUME NEW s, WellFormed(s), Tidy(s), Alive(s), NEW m \in Mutex, NEW t \in User
  PROVE  LET u == MutexRelease(s, m)
         IN  StaysQueued(s, u, t) \/ (~ NoWaiters(s, m) /\ u.mutex[m].owner = t)
<1> DEFINE u == MutexRelease(s, m)
           q == s.mutex[m].queue
<1>1. /\ WellFormed(u) /\ SameOtherMutexes(s, u, m)
      /\ q \in [Priority -> Seq(User)]
  BY MutexReleaseEffect DEF WellFormed, Store, MutexRecord
<1>2. /\ NoWaiters(s, m) => u.mutex[m].queue = q
      /\ ~ NoWaiters(s, m) =>
           \E p \in Priority : /\ q[p] # <<>> /\ u.mutex[m].owner = Head(q[p])
                               /\ u.mutex[m].queue = [q EXCEPT ![p] = Tail(q[p])]
  BY MutexReleaseHandsOn
<1> HIDE DEF u, q
<1>3. CASE NoWaiters(s, m)
  <2>1. \A k \in Mutex : u.mutex[k].queue = s.mutex[k].queue
    BY <1>1, <1>2, <1>3 DEF SameOtherMutexes, q
  <2>2. QED
    BY <2>1 DEF StaysQueued, Queued, u
<1>4. CASE ~ NoWaiters(s, m)
  <2>1. PICK p \in Priority : /\ q[p] # <<>> /\ u.mutex[m].owner = Head(q[p])
                              /\ u.mutex[m].queue = [q EXCEPT ![p] = Tail(q[p])]
    BY <1>2, <1>4
  <2>2. CASE Head(q[p]) = t
    BY <1>4, <2>1, <2>2 DEF u
  <2>3. CASE Head(q[p]) # t
    <3>1. Queued(u, t, m, p) = Queued(s, t, m, p)
      <4> DEFINE x == q[p]
      <4>1. x \in Seq(User) /\ x # <<>> /\ Head(x) \notin {t}
        BY <1>1, <2>1, <2>3
      <4>2. Queued(u, t, m, p) = Occ(Tail(x), {t}) /\ Queued(s, t, m, p) = Occ(x, {t})
        BY <1>1, <2>1 DEF Queued, q
      <4> HIDE DEF x
      <4>3. Occ(Tail(x), {t}) = Occ(x, {t}) - (IF Head(x) \in {t} THEN 1 ELSE 0)
        BY <4>1, OccTail
      <4>4. Occ(x, {t}) \in Nat
        BY <4>1, OccNat
      <4>5. QED
        BY <4>1, <4>2, <4>3, <4>4
    <3>2. StaysQueued(s, u, t)
      <4> SUFFICES ASSUME NEW k \in Mutex, NEW r \in Priority, Queued(s, t, k, r) # 0
                   PROVE  Queued(u, t, k, r) # 0
        BY DEF StaysQueued
      <4>1. CASE k = m /\ r = p
        BY <3>1, <4>1
      <4>2. CASE k # m \/ r # p
        <5>1. u.mutex[k].queue[r] = s.mutex[k].queue[r]
          BY <1>1, <2>1, <4>2 DEF SameOtherMutexes, q
        <5>2. QED
          BY <5>1 DEF Queued
      <4>3. QED
        BY <4>1, <4>2
    <3>3. QED
      BY <3>2 DEF u
  <2>4. QED
    BY <2>2, <2>3
<1>5. QED
  BY <1>3, <1>4

\* A step takes a thread out of a queue only when it leaves it no ticks to sleep.
LEMMA QueuersStayOrWake ==
  ASSUME EntriesOK, Placed, [Next]_vars, NEW t \in User
  PROVE  StaysQueued(store, store', t) \/ store'.tcb[t].ticks = 0
<1>1. /\ WellFormed(store) /\ cur \in Thread /\ User \subseteq Thread
      /\ Tidy(store) /\ Alive(store) /\ AllPlaced(store) /\ TypeOK
  BY Ranges, Ids DEF TypeOK, Sched, EntriesOK, Placed
<1>2. ASSUME NEW m \in Mutex, store.mutex[m].owner = None,
             \A k \in Mutex \ {m} : store'.mutex[k] = store.mutex[k]
      PROVE  StaysQueued(store, store', t)
  <2>1. \A p \in Priority : Queued(store, t, m, p) = 0
    <3>1. \A p \in Priority : store.mutex[m].queue[p] = <<>>
      BY <1>2 DEF EntriesOK, FreeMutexHasNoWaiters, NoWaiters
    <3>2. QED
      BY <3>1, OccEmpty DEF Queued
  <2>2. QED
    BY <1>2, <2>1 DEF StaysQueued, Queued
<1>3. CASE ~ MutexStep
  <2>1. MutexesAlone
    BY <1>1, <1>3, OtherStepsLeaveMutexesAlone
  <2>2. QED
    BY <2>1 DEF MutexesAlone, StaysQueued, Queued
<1>4. CASE VMMutexCreate
  <2>1. PICK junk \in FreshFlags : store' = InsertMutex(store, junk)
    BY <1>4 DEF VMMutexCreate, Finish
  <2> DEFINE m == store.numMutexes
  <2>2. m \in Mutex /\ junk \in BOOLEAN
    BY <1>4, FreshFlagsAssumption DEF VMMutexCreate
  <2>3. \A k \in Mutex \ {m} : store'.mutex[k] = store.mutex[k]
    BY <1>1, <2>1, <2>2, InsertMutexEffect
  <2>4. store.mutex[m].owner = None
    <3>1. m \in Int
      BY <2>2, IdsAssumption DEF Mutex
    <3>2. QED
      BY <2>2, <3>1 DEF EntriesOK, UncreatedAreFree
  <2>5. QED
    BY <1>2, <2>2, <2>3, <2>4
<1>5. ASSUME NEW m \in Mutex, VMMutexDelete(m) PROVE StaysQueued(store, store', t)
  <2>1. store' = DeleteFromVM(store, m) /\ store.mutex[m].owner = None
    BY <1>5 DEF VMMutexDelete, Finish
  <2>2. \A k \in Mutex \ {m} : store'.mutex[k] = store.mutex[k]
    BY <1>1, <2>1, DeleteFromVMEffect DEF SameOtherMutexes
  <2>3. QED
    BY <1>2, <2>1, <2>2
<1>6. ASSUME NEW m \in Mutex, VMMutexAcquire(m) PROVE StaysQueued(store, store', t)
  <2>1. PICK n \in Nat \union {ImmediateTimeout}, at \in {"lock", "trylock"} : Acquire(m, n, at)
    BY <1>6, AcquireTimeout DEF VMMutexAcquire
  <2>2. store' = MutexLock(store, m, n) /\ store.current # Idle
    BY <1>6, <2>1 DEF VMMutexAcquire, Acquire, Enter, Calling, cur
  <2>3. QED
    BY <1>1, <2>2, LockAsleep
<1>7. ASSUME NEW s, WellFormed(s), Tidy(s), Alive(s), AllPlaced(s), NEW m \in Mutex,
             store' = MutexRelease(s, m), s.mutex = store.mutex
      PROVE  StaysQueued(store, store', t) \/ store'.tcb[t].ticks = 0
  <2>1. StaysQueued(s, store', t) \/ (~ NoWaiters(s, m) /\ store'.mutex[m].owner = t)
    BY <1>7, ReleaseQueues
  <2>2. ~ NoWaiters(s, m) => store'.tcb[store'.mutex[m].owner].ticks = 0
    BY <1>7, ReleaseSleeps
  <2>3. StaysQueued(s, store', t) => StaysQueued(store, store', t)
    BY <1>7 DEF StaysQueued, Queued
  <2>4. QED
    BY <2>1, <2>2, <2>3
<1>8. ASSUME NEW m \in Mutex, VMMutexRelease(m)
      PROVE  StaysQueued(store, store', t) \/ store'.tcb[t].ticks = 0
  <2>1. store' = MutexRelease(store, m)
    BY <1>8 DEF VMMutexRelease, Enter
  <2>2. QED
    BY <1>1, <1>7, <2>1
<1>9. CASE KillRelease
  <2> DEFINE v == frame[cur].arg
             q == store.tcb[v].entries
             s == [store EXCEPT !.tcb[v].entries = Tail(q)]
             m == Head(q).mutex
  <2>1. q # <<>> /\ store' = MutexRelease(s, m) /\ frame[cur].at = "kill"
    BY <1>9 DEF KillRelease, Owes
  <2>2. v \in Thread
    BY <1>1, <2>1 DEF TypeOK
  <2>3. q \in Seq(Entry)
    BY <1>1, <2>2 DEF WellFormed, Store, TCB
  <2>4. Head(q) \in Entry /\ Tail(q) \in Seq(Entry)
    BY <2>1, <2>3, HeadTailProperties
  <2>5. m \in Mutex
    BY <2>4 DEF Entry
  <2>6. WellFormed(s) /\ Still(store, s) /\ s.mutex = store.mutex
    BY <1>1, <2>2, <2>4, EntriesWF, EntriesStill DEF SameButTCBs
  <2> HIDE DEF s, m, v
  <2>7. Tidy(s) /\ Alive(s) /\ AllPlaced(s)
    BY <1>1, <2>6, StillSteady DEF Steady
  <2>8. QED
    BY <1>7, <2>1, <2>5, <2>6, <2>7
<1>10. QED
  BY <1>3, <1>4, <1>5, <1>6, <1>8, <1>9 DEF MutexStep

\* A thread that sleeps without a timeout waits, in the queue of a mutex.
ForeverQueued ==
  \A t \in User : store.tcb[t].ticks = Forever =>
    /\ store.tcb[t].state = "WAITING"
    /\ \E m \in Mutex, p \in Priority : Queued(store, t, m, p) # 0

\* Every step keeps the endless sleepers in a queue.
LEMMA ForeverStep ==
  ASSUME EntriesOK, Placed, ForeverQueued, [Next]_vars
  PROVE  ForeverQueued'
<1> SUFFICES ASSUME NEW t \in User, store'.tcb[t].ticks = Forever
             PROVE  /\ store'.tcb[t].state = "WAITING"
                    /\ \E m \in Mutex, p \in Priority : Queued(store', t, m, p) # 0
  BY DEF ForeverQueued, Queued
<1>1. /\ WellFormed(store) /\ cur \in Thread /\ User \subseteq Thread
      /\ Tidy(store) /\ Alive(store) /\ AllPlaced(store) /\ TypeOK /\ Sched
  BY Ranges, Ids DEF TypeOK, Sched, EntriesOK, Placed
<1>2. StaysQueued(store, store', t)
  BY QueuersStayOrWake DEF Forever
<1>3. ASSUME SleepsOn(store, store', t)
      PROVE  /\ store'.tcb[t].state = "WAITING"
             /\ \E m \in Mutex, p \in Priority : Queued(store', t, m, p) # 0
  <2>1. store.tcb[t].ticks = Forever /\ store'.tcb[t].state = "WAITING"
    BY <1>3 DEF SleepsOn, Forever, ForeverQueued
  <2>2. QED
    BY <1>2, <2>1 DEF ForeverQueued, StaysQueued
<1>4. ~ (t = cur /\ store.tcb[t].ticks = Forever)
  BY <1>1 DEF ForeverQueued, AllPlaced, cur
<1>5. CASE ~ SleepStep /\ ~ TimerLoop
  BY <1>1, <1>3, <1>5, OtherStepsLetSleep DEF HandsOn, Fresh, Forever
<1>6. CASE TimerLoop
  <2> DEFINE n == store.tcb[t].ticks
             k == store'.tcb[t].ticks
  <2>1. \/ SleepsOn(store, store', t)
        \/ k = 0
        \/ k = n /\ store'.tcb[t].state = "WAITING"
        \/ n > 0 /\ k = n - 1
    BY <1>1, <1>6, TimerTurn DEF TimerLoop
  <2>2. n \in Nat \union {Forever}
    BY <1>1 DEF WellFormed, Store, TCB
  <2>3. k = Forever
    OBVIOUS
  <2> HIDE DEF n, k
  <2>4. SleepsOn(store, store', t) \/ (k = n /\ store'.tcb[t].state = "WAITING")
    BY <2>1, <2>2, <2>3 DEF Forever
  <2>5. SleepsOn(store, store', t)
    BY <2>4 DEF SleepsOn, n, k
  <2>6. QED
    BY <1>3, <2>5
<1>7. ASSUME NEW n \in Nat, store' = SleepCurrentThread(store, n), store.current # Idle
      PROVE  SleepsOn(store, store', t)
  <2>1. /\ \A v \in User \ {store.current} : SleepsOn(store, store', v)
        /\ store'.tcb[store.current].ticks = n
    BY <1>1, <1>7, SleepAsleep
  <2>2. t # store.current
    BY <2>1 DEF Forever
  <2>3. QED
    BY <2>1, <2>2
<1>8. CASE VMThreadYield \/ \E n \in Timeouts : VMThreadSleep(n)
  <2>1. PICK n \in Nat : store' = SleepCurrentThread(store, n) /\ store.current # Idle
    BY <1>8, TimeoutsAssumption DEF VMThreadYield, VMThreadSleep, Enter, Calling, cur
  <2>2. QED
    BY <1>3, <1>7, <2>1
<1>9. ASSUME NEW m \in Mutex, VMMutexAcquire(m)
      PROVE  /\ store'.tcb[t].state = "WAITING"
             /\ \E k \in Mutex, p \in Priority : Queued(store', t, k, p) # 0
  <2>1. PICK n \in Nat \union {ImmediateTimeout}, at \in {"lock", "trylock"} : Acquire(m, n, at)
    BY <1>9, AcquireTimeout DEF VMMutexAcquire
  <2>2. store' = MutexLock(store, m, n) /\ store.current # Idle
    BY <1>9, <2>1 DEF VMMutexAcquire, Acquire, Enter, Calling, cur
  <2>3. /\ \A v \in User \ {cur} : SleepsOn(store, store', v)
        /\ \/ store'.tcb[cur].ticks = store.tcb[cur].ticks
           \/ store'.tcb[cur].state = "WAITING" /\ \E p \in Priority : Queued(store', cur, m, p) # 0
    BY <1>1, <2>2, LockAsleep DEF cur
  <2>4. CASE t # cur
    BY <1>3, <2>3, <2>4
  <2>5. CASE t = cur
    BY <1>4, <2>3, <2>5
  <2>6. QED
    BY <2>4, <2>5
<1>10. QED
  BY <1>5, <1>6, <1>8, <1>9 DEF SleepStep

\* Unless other threads are terminated: a thread that sleeps without a timeout, for a
\* mutex and not for a file, is in the queue of a mutex that has an owner.
THEOREM ForeverSleepersAreQueued ==
  ASSUME "TerminateOther" \notin Calls
  PROVE  Spec => []ForeverSleeperIsQueued
<1> DEFINE Base == EntriesOK /\ Placed
<1>1. Spec => []Base
  BY EntriesInvariant, PlacedInvariant, PTL
<1>2. Init => ForeverQueued
  <2>1. Init => \A t \in Thread : store.tcb[t].ticks = 0
    BY DEF Init, InitStore, NewTCB
  <2>2. QED
    BY <2>1, Ids DEF ForeverQueued, Forever
<1>3. Base /\ ForeverQueued /\ [Next]_vars => ForeverQueued'
  BY ForeverStep
<1>4. Base /\ ForeverQueued => ForeverSleeperIsQueued
  <2> SUFFICES ASSUME Base, ForeverQueued, NEW t \in User, store.tcb[t].ticks = Forever
               PROVE  \E m \in Mutex : /\ store.mutex[m].owner # None
                                       /\ \E p \in Priority : Contains(store.mutex[m].queue[p], t)
    BY DEF ForeverSleeperIsQueued
  <2>1. PICK m \in Mutex, p \in Priority : Queued(store, t, m, p) # 0
    BY DEF ForeverQueued
  <2> DEFINE q == store.mutex[m].queue[p]
  <2>2. q \in Seq(User)
    BY DEF EntriesOK, TypeOK, WellFormed, Store, MutexRecord
  <2>3. \E i \in DOMAIN q : q[i] = t
    <3>1. Occ(q, {t}) # 0
      BY <2>1 DEF Queued
    <3> HIDE DEF q
    <3>2. QED
      BY <2>2, <3>1, OccNat
  <2>4. q # <<>>
    BY <2>3
  <2>5. store.mutex[m].owner # None
    BY <2>4 DEF EntriesOK, FreeMutexHasNoWaiters, NoWaiters
  <2>6. Contains(q, t)
    BY <2>2, <2>3, LenProperties DEF Contains
  <2>7. QED
    BY <2>5, <2>6
<1> HIDE DEF Base
<1>5. QED
  BY <1>1, <1>2, <1>3, <1>4, PTL DEF Spec

-----------------------------------------------------------------------------
\* VMThreadSleep does not return early.

\* While the current thread is in the kernel it takes the step it owes, or nobody
\* takes a step.
LEMMA InKernel ==
  ASSUME [Next]_vars, frame[cur].at # "app"
  PROVE  Kernel \/ UNCHANGED vars
<1>1. \A c : ~ Calling(c)
  BY DEF Calling
<1>2. ~ Call
  BY <1>1 DEF Call, VMThreadCreate, VMThreadYield, VMFile, VMMutexCreate, VMThreadActivate,
     VMThreadDelete, VMThreadTerminate, VMThreadSleep, VMMutexDelete, VMMutexAcquire,
     VMMutexRelease, VMMutexReleaseUnowned
<1>3. ~ Interruptible
  BY DEF Interruptible
<1>4. /\ ~ TimerInterrupt /\ ~ MachineFileIOCallback
      /\ \A t \in Thread : ~ MachineReplySignalHandler(t)
  BY <1>3 DEF TimerInterrupt, MachineFileIOCallback, MachineReplySignalHandler
<1>5. QED
  BY <1>2, <1>4 DEF Next, IdleSpin

\* The handler of the alarm is entered by the interrupt, and left by its last step.
LEMMA TimerFrames ==
  ASSUME TypeOK, [Next]_vars
  PROVE  UNCHANGED vars \/ TimerInterrupt \/ TimerLoop \/ frame'[cur].at # "timer"
<1>1. CASE frame[cur].at = "timer"
  <2>1. Kernel \/ UNCHANGED vars
    BY <1>1, InKernel
  <2>2. UNCHANGED vars \/ TimerLoop \/ TimerDone
    BY <1>1, <2>1 DEF Kernel, TimerLoop, SafeEntry, Return, AcquireReturn, KillRelease,
       KillFinish, Owes
  <2>3. TimerDone => frame'[cur].at = "ret"
    <3>1. frame \in [Thread -> Frame] /\ cur \in Thread
      BY Ranges DEF TypeOK
    <3>2. QED
      BY <3>1 DEF TimerDone, Frame
  <2>4. QED
    BY <2>2, <2>3
<1>2. CASE frame[cur].at # "timer"
  BY <1>2, FrameStep DEF FrameRule
<1>3. QED
  BY <1>1, <1>2

\* The ticks a thread is owed change when the timer interrupts, or with its own call.
LEMMA OwedStep ==
  ASSUME TypeOK, [Next]_vars, ~ TimerInterrupt, NEW t \in Thread \ {cur}
  PROVE  owed'[t] = owed[t]
<1>1. owed \in [Thread -> Nat]
  BY DEF TypeOK
<1>2. ASSUME NEW n, owed' = [owed EXCEPT ![cur] = n] PROVE owed'[t] = owed[t]
  BY <1>1, <1>2
<1>3. CASE VMThreadYield \/ \E n \in Timeouts : VMThreadSleep(n)
  BY <1>2, <1>3 DEF VMThreadYield, VMThreadSleep
<1>4. CASE VMThreadCreate \/ VMFile \/ VMMutexCreate
  BY <1>4 DEF VMThreadCreate, VMFile, VMMutexCreate, Finish
<1>5. CASE \E v \in Thread : VMThreadActivate(v) \/ VMThreadDelete(v) \/ VMThreadTerminate(v)
  BY <1>5 DEF VMThreadActivate, VMThreadDelete, VMThreadTerminate
<1>6. CASE \E m \in Mutex : VMMutexDelete(m) \/ VMMutexAcquire(m) \/ VMMutexRelease(m)
                              \/ VMMutexReleaseUnowned(m)
  BY <1>6 DEF VMMutexDelete, VMMutexAcquire, Acquire, VMMutexRelease, VMMutexReleaseUnowned,
     Finish
<1>7. CASE Kernel
  BY <1>7 DEF Kernel, SafeEntry, Return, AcquireReturn, Resume, KillRelease, KillFinish,
     TimerKeep, TimerCountdown, TimerWake, TimerDone
<1>8. CASE \/ \E v \in Thread : MachineReplySignalHandler(v)
           \/ MachineFileIOCallback \/ IdleSpin \/ UNCHANGED vars
  BY <1>8 DEF MachineReplySignalHandler, MachineFileIOCallback, IdleSpin, vars
<1>9. QED
  BY <1>3, <1>4, <1>5, <1>6, <1>7, <1>8 DEF Next, Call

\* Only the current thread can be inside the handler of the alarm.
TimerIsCurrent == \A t \in Thread \ {cur} : frame[t].at # "timer"

\* The loop of timerEvent() has not reached t yet.
Unvisited(t) ==
  /\ frame[cur].at = "timer"
  /\ \E i \in DOMAIN store.waitList : i >= frame[cur].arg /\ store.waitList[i] = t

\* A turn of the loop stays on the interrupted thread, and passes the thread it visits.
LEMMA TimerAdvances ==
  ASSUME TypeOK, Sched, Placed, TimerLoop, NEW t \in User
  PROVE  /\ cur' = cur /\ \A v \in Thread \ {cur} : frame'[v] = frame[v]
         /\ Unvisited(Visited)
         /\ Unvisited(t)' => Unvisited(t) /\ t # Visited
<1> DEFINE q == store.waitList
           i == frame[cur].arg
           r == store'.waitList
<1>1. /\ frame[cur].at = "timer" /\ frame \in [Thread -> Frame] /\ cur \in Thread
      /\ WellFormed(store) /\ q \in Seq(User)
  BY Ranges DEF TimerLoop, TimerKeep, TimerCountdown, TimerWake, Visiting, Owes, TypeOK,
     WellFormed, Store
<1>2. Visited = q[i] /\ Visited \in User /\ i \in 1..Len(q) /\ i \in DOMAIN q /\ DOMAIN q = 1..Len(q)
  <2>1. Visiting
    BY DEF TimerLoop, TimerKeep, TimerCountdown, TimerWake
  <2>2. Visited \in User /\ i \in 1..Len(q)
    BY <2>1, VisitedWaits
  <2>3. QED
    BY <1>1, <2>2, LenProperties DEF Visited
<1>3. cur' = cur
  BY TimerTurnSteady DEF TimerLoop, Sched, cur
<1>4. \A j \in DOMAIN q : q[j] = Visited => j = i
  <2>1. Occ(q, {Visited}) <= 1
    <3>1. Waits(store, Visited) \in {0, 1}
      BY <1>2 DEF Placed, AllPlaced, OthersPlaced
    <3>2. QED
      BY <3>1 DEF Waits
  <2>2. \A A : \A x \in Seq(A) : \A S :
          Occ(x, S) <= 1 => \A j, k \in DOMAIN x : x[j] \in S /\ x[k] \in S => j = k
    BY OccNat
  <2> HIDE DEF q, i
  <2>3. \A j, k \in DOMAIN q : q[j] \in {Visited} /\ q[k] \in {Visited} => j = k
    BY ONLY <1>1, <2>1, <2>2
  <2>4. QED
    BY <1>2, <2>3
<1>5. Unvisited(Visited)
  <2>1. i \in DOMAIN q /\ i >= i /\ q[i] = Visited
    BY <1>1, <1>2
  <2>2. QED
    BY <1>1, <2>1 DEF Unvisited
<1>6. ASSUME NEW j \in DOMAIN q, j > i, q[j] = t
      PROVE  Unvisited(t) /\ t # Visited
  <2>1. j >= i /\ j # i
    BY <1>1, <1>2, <1>6
  <2>2. QED
    BY <1>1, <1>4, <1>6, <2>1 DEF Unvisited
<1>7. CASE TimerKeep \/ TimerCountdown
  <2>1. frame' = [frame EXCEPT ![cur].arg = @ + 1]
    BY <1>7 DEF TimerKeep, TimerCountdown, NextInWaitList
  <2>2. frame'[cur].arg = i + 1 /\ \A v \in Thread \ {cur} : frame'[v] = frame[v]
    BY <1>1, <2>1 DEF Frame
  <2>3. r = q
    <3> DEFINE a == Settle(store, Visited)
               n == a.tcb[Visited].ticks - 1
    <3>1. WellFormed(a) /\ a.waitList = q
      BY <1>1, <1>2, SettleWF DEF SameButTCBs
    <3>2. store' = a \/ store' = [a EXCEPT !.tcb[Visited].ticks = n]
      BY <1>7 DEF TimerKeep, TimerCountdown
    <3> HIDE DEF a, n, q
    <3>3. QED
      BY <3>1, <3>2 DEF WellFormed, Store
  <2>4. ASSUME Unvisited(t)' PROVE Unvisited(t) /\ t # Visited
    <3>1. PICK j \in DOMAIN r : j >= frame'[cur'].arg /\ r[j] = t
      BY <2>4 DEF Unvisited
    <3>2. j \in DOMAIN q /\ j > i /\ q[j] = t
      BY <1>2, <1>3, <2>2, <2>3, <3>1
    <3>3. QED
      BY <1>6, <3>2
  <2>5. QED
    BY <1>3, <1>5, <2>2, <2>4
<1>8. CASE TimerWake
  <2>1. frame' = frame
    BY <1>8 DEF TimerWake
  <2>2. r = RemoveAt(q, i)
    <3> DEFINE a == Settle(store, Visited)
               b == SetState(a, Visited, "READY")
               c == PushReady(b, Visited)
    <3>1. WellFormed(a) /\ a.waitList = q
      BY <1>1, <1>2, SettleWF DEF SameButTCBs
    <3>2. store' = [c EXCEPT !.waitList = RemoveAt(@, i)]
      BY <1>8 DEF TimerWake
    <3> HIDE DEF a
    <3>3. WellFormed(b) /\ b.waitList = a.waitList
      <4>1. "READY" \in ThreadState /\ Visited \in Thread
        BY <1>2, Ids DEF ThreadState
      <4>2. QED
        BY <3>1, <4>1, SetStateWF DEF SameButTCBs
    <3> HIDE DEF b
    <3>4. WellFormed(c) /\ c.waitList = b.waitList
      BY <1>2, <3>3, PushReadyWF
    <3> HIDE DEF c, q, i
    <3>5. QED
      BY <3>1, <3>2, <3>3, <3>4 DEF WellFormed, Store
  <2>3. /\ r \in Seq(User) /\ Len(r) = Len(q) - 1
        /\ \A j \in 1..(Len(q) - 1) : r[j] = IF j < i THEN q[j] ELSE q[j + 1]
    <3> HIDE DEF q, i, r
    <3>1. QED
      BY <1>1, <1>2, <2>2, RemoveAtType, RemoveAtElements
  <2>4. ASSUME Unvisited(t)' PROVE Unvisited(t) /\ t # Visited
    <3>1. PICK j \in DOMAIN r : j >= i /\ r[j] = t
      BY <1>3, <2>1, <2>4 DEF Unvisited
    <3>2. Len(q) \in Nat /\ i \in Nat
      BY <1>1, <1>2, LenProperties
    <3>3. j \in 1..(Len(q) - 1)
      BY <2>3, <3>1, LenProperties
    <3>4. j + 1 \in DOMAIN q /\ j + 1 > i /\ q[j + 1] = t
      <4> HIDE DEF q, i, r
      <4> QED
        BY <1>2, <2>3, <3>1, <3>2, <3>3
    <3>5. QED
      BY <1>6, <3>4
  <2>5. QED
    BY <1>3, <1>5, <2>1, <2>4
<1>9. QED
  BY <1>7, <1>8 DEF TimerLoop

\* A thread owns a mutex.
Granted(s, t) == \E m \in Mutex : s.mutex[m].owner = t

\* A thread inside VMThreadSleep is owed nothing any more, or owns a mutex, or waits
\* with as many ticks as it is owed; one more once the interrupt has taken a tick off
\* what it is owed and the loop is still to take it off the thread.
SleepersOK ==
  \A t \in Thread : frame[t].at = "sleep" =>
    /\ t \in User
    /\ \/ owed[t] = 0
       \/ Granted(store, t)
       \/ /\ store.tcb[t].state = "WAITING"
          /\ store.tcb[t].ticks >= owed[t] + (IF Unvisited(t) THEN 1 ELSE 0)

\* An owner other than the current thread stays the owner, unless somebody is killed.
LEMMA OthersKeepMutexes ==
  ASSUME EntriesOK, [Next]_vars, ~ KillRelease, NEW t \in User \ {cur}, Granted(store, t)
  PROVE  Granted(store', t)
BY OwnerLost DEF Granted

\* A thread that calls VMThreadSleep waits for the ticks it is owed.
LEMMA CallerSleeps ==
  ASSUME TypeOK, Placed, VMThreadYield \/ \E n \in Timeouts : VMThreadSleep(n)
  PROVE  /\ cur \in User /\ owed'[cur] \in Nat
         /\ store'.tcb[cur].state = "WAITING" /\ store'.tcb[cur].ticks = owed'[cur]
         /\ \A v \in User \ {cur} : SleepsOn(store, store', v)
<1>1. WellFormed(store) /\ cur \in Thread /\ owed \in [Thread -> Nat] /\ AllPlaced(store)
  BY Ranges DEF TypeOK, Placed
<1>2. PICK n \in Nat : /\ store' = SleepCurrentThread(store, n) /\ store.current # Idle
                       /\ owed' = [owed EXCEPT ![cur] = n]
  BY TimeoutsAssumption DEF VMThreadYield, VMThreadSleep, Enter, Calling, cur
<1>3. owed'[cur] = n
  BY <1>1, <1>2
<1>4. /\ \A v \in User \ {cur} : SleepsOn(store, store', v)
      /\ store'.tcb[cur].state = "WAITING" /\ store'.tcb[cur].ticks = n
  BY <1>1, <1>2, SleepAsleep DEF cur
<1>5. cur \in User
  BY <1>1, <1>2 DEF User, cur
<1>6. QED
  BY <1>2, <1>3, <1>4, <1>5

\* Nobody else runs while the timer goes through the wait list, and only the timer has
\* threads left to visit.
LEMMA TimerStaysCurrent ==
  ASSUME EntriesOK, Placed, TimerIsCurrent, TypeOK', [Next]_vars
  PROVE  /\ TimerIsCurrent'
         /\ \/ UNCHANGED vars \/ TimerInterrupt \/ TimerLoop
            \/ \A t \in User : ~ Unvisited(t)'
<1>1. TypeOK /\ Sched /\ cur \in Thread /\ cur' \in Thread /\ Main \in User
  <2>1. TypeOK /\ Sched /\ cur \in Thread
    BY Ranges DEF EntriesOK
  <2>2. cur' \in Thread
    BY DEF TypeOK, WellFormed, Store, cur
  <2>3. QED
    BY <2>1, <2>2, Ids
<1>2. \A t \in Thread \ {cur} : frame'[t] = frame[t]
  BY <1>1, FrameStep DEF FrameRule
<1>3. CASE UNCHANGED vars
  BY <1>3 DEF vars, TimerIsCurrent, cur
<1>4. CASE TimerInterrupt \/ TimerLoop
  <2>1. cur' = cur
    <3>1. TimerInterrupt => cur' = cur
      BY DEF TimerInterrupt, cur
    <3>2. TimerLoop => cur' = cur
      BY <1>1, TimerAdvances
    <3>3. QED
      BY <1>4, <3>1, <3>2
  <2>2. QED
    BY <1>2, <1>4, <2>1 DEF TimerIsCurrent
<1>5. CASE frame'[cur].at # "timer"
  <2>1. \A t \in Thread : frame'[t].at # "timer"
    BY <1>2, <1>5 DEF TimerIsCurrent
  <2>2. \A t \in User : ~ Unvisited(t)'
    BY <1>1, <2>1 DEF Unvisited
  <2>3. QED
    BY <2>1, <2>2 DEF TimerIsCurrent
<1>6. QED
  BY <1>1, <1>3, <1>4, <1>5, TimerFrames

\* Only a mutex can take ticks off a sleep.
LEMMA SleepersStep ==
  ASSUME EntriesOK, Placed, TimerIsCurrent, SleepersOK, TypeOK', ~ KillRelease, [Next]_vars
  PROVE  SleepersOK'
<1>1. /\ TypeOK /\ Sched /\ WellFormed(store) /\ cur \in Thread /\ User \subseteq Thread
      /\ owed \in [Thread -> Nat] /\ AllPlaced(store)
  BY Ranges, Ids DEF EntriesOK, TypeOK, Placed
<1>2. CASE UNCHANGED vars
  BY <1>2 DEF vars, SleepersOK, Unvisited, Granted, cur
<1>3. CASE ~ UNCHANGED vars
  <2> SUFFICES ASSUME NEW t \in Thread, frame'[t].at = "sleep"
               PROVE  /\ t \in User
                      /\ \/ owed'[t] = 0
                         \/ Granted(store', t)
                         \/ /\ store'.tcb[t].state = "WAITING"
                            /\ store'.tcb[t].ticks >= owed'[t] + (IF Unvisited(t)' THEN 1 ELSE 0)
    BY DEF SleepersOK, Granted
  <2>1. FrameRule
    BY <1>1, FrameStep
  <2>2. TimerInterrupt \/ TimerLoop \/ \A v \in User : ~ Unvisited(v)'
    BY <1>3, TimerStaysCurrent
  <2>3. CASE t = cur
    <3>1. frame[cur].at # "sleep"
      <4> SUFFICES ASSUME frame[cur].at = "sleep" PROVE FALSE
        OBVIOUS
      <4>1. Kernel
        BY <1>3, InKernel
      <4>2. Return
        BY <4>1 DEF Kernel, SafeEntry, AcquireReturn, KillRelease, KillFinish,
           TimerKeep, TimerCountdown, TimerWake, TimerDone, Visiting, Owes
      <4>3. frame'[cur].at = "app"
        BY <1>1, <4>2 DEF Return, Resume, InApp, TypeOK
      <4>4. QED
        BY <2>3, <4>3
    <3>2. VMThreadYield \/ \E n \in Timeouts : VMThreadSleep(n)
      BY <2>1, <2>3, <3>1 DEF FrameRule
    <3>3. /\ cur \in User /\ owed'[cur] \in Nat
          /\ store'.tcb[cur].state = "WAITING" /\ store'.tcb[cur].ticks = owed'[cur]
      BY <1>1, <3>2, CallerSleeps
    <3>4. ~ TimerInterrupt /\ ~ TimerLoop
      BY <2>3, <3>2, <1>1 DEF VMThreadYield, VMThreadSleep, Calling, TimerInterrupt, TimerLoop,
         TimerKeep, TimerCountdown, TimerWake, Visiting, Owes, TypeOK
    <3>5. ~ Unvisited(t)'
      BY <2>2, <2>3, <3>3, <3>4
    <3>6. QED
      BY <2>3, <3>3, <3>5
  <2>4. CASE t # cur
    <3> DEFINE n == store.tcb[t].ticks
               k == store'.tcb[t].ticks
               o == owed[t]
    <3>1. frame[t].at = "sleep"
      BY <2>1, <2>4 DEF FrameRule
    <3>2. /\ t \in User
          /\ \/ o = 0
             \/ Granted(store, t)
             \/ store.tcb[t].state = "WAITING" /\ n >= o + (IF Unvisited(t) THEN 1 ELSE 0)
      BY <3>1 DEF SleepersOK
    <3>3. o \in Nat /\ n \in Int
      BY <1>1 DEF WellFormed, Store, TCB, Forever
    <3>4. Granted(store, t) => Granted(store', t)
      BY <2>4, <3>2, OthersKeepMutexes
    <3>5. CASE TimerInterrupt
      <4>1. owed'[t] = IF o > 0 THEN o - 1 ELSE 0
        BY <3>5 DEF TimerInterrupt
      <4>2. store' = store /\ ~ Unvisited(t)
        BY <3>5 DEF TimerInterrupt, Interruptible, Unvisited
      <4> HIDE DEF n, o
      <4>3. CASE o = 0
        BY <3>2, <4>1, <4>3
      <4>4. CASE Granted(store, t)
        BY <3>2, <3>4, <4>4
      <4>5. CASE o # 0 /\ store.tcb[t].state = "WAITING" /\ n >= o
        <5>1. owed'[t] = o - 1 /\ n >= owed'[t] + 1 /\ owed'[t] \in Int
          BY <3>3, <4>1, <4>5
        <5>2. n >= owed'[t] + (IF Unvisited(t)' THEN 1 ELSE 0)
          BY <3>3, <5>1
        <5>3. QED
          BY <3>2, <4>2, <4>5, <5>2 DEF n
      <4>6. QED
        BY <3>2, <3>3, <4>2, <4>3, <4>4, <4>5
    <3>6. ASSUME ~ TimerInterrupt, Unvisited(t)' => Unvisited(t),
                 SleepsOn(store, store', t) \/ Granted(store', t) \/ store.tcb[t].state # "WAITING"
          PROVE  \/ owed'[t] = 0
                 \/ Granted(store', t)
                 \/ /\ store'.tcb[t].state = "WAITING"
                    /\ k >= owed'[t] + (IF Unvisited(t)' THEN 1 ELSE 0)
      <4>1. owed'[t] = o
        BY <1>1, <2>4, <3>6, OwedStep
      <4>2. \/ k = n /\ (store.tcb[t].state = "WAITING" => store'.tcb[t].state = "WAITING")
            \/ Granted(store', t) \/ store.tcb[t].state # "WAITING"
        BY <3>6 DEF SleepsOn
      <4> HIDE DEF n, o, k
      <4>3. \/ o = 0 \/ Granted(store', t)
            \/ /\ store'.tcb[t].state = "WAITING" /\ k = n
               /\ n >= o + (IF Unvisited(t) THEN 1 ELSE 0)
        BY <3>2, <3>4, <4>2
      <4>4. n >= o + (IF Unvisited(t) THEN 1 ELSE 0) => n >= o + (IF Unvisited(t)' THEN 1 ELSE 0)
        BY <3>3, <3>6
      <4>5. QED
        BY <4>1, <4>3, <4>4
    <3>7. CASE TimerLoop
      <4>1. ~ TimerInterrupt
        BY <3>7 DEF TimerInterrupt, Interruptible, TimerLoop, TimerKeep, TimerCountdown,
           TimerWake, Visiting, Owes
      <4>2. Unvisited(Visited) /\ (Unvisited(t)' => Unvisited(t) /\ t # Visited)
        BY <1>1, <3>2, <3>7, TimerAdvances
      <4>3. CASE t # Visited
        <5>1. SleepsOn(store, store', t)
          BY <1>1, <3>2, <3>7, <4>3, TimerTurn DEF TimerLoop
        <5>2. QED
          BY <3>2, <3>6, <4>1, <4>2, <5>1
      <4>4. CASE t = Visited
        <5>1. \/ k = 0 /\ Granted(store, t)
              \/ k = n /\ store'.tcb[t].state = "WAITING"
              \/ n > 0 /\ k = n - 1 /\ store'.tcb[t].state = "WAITING"
              \/ n = 0 /\ k = 0
          BY <1>1, <3>7, <4>4, TimerTurn DEF TimerLoop, OwnsAwaited, Granted
        <5>2. owed'[t] = o
          BY <1>1, <2>4, <4>1, OwedStep
        <5>3. Unvisited(t) /\ ~ Unvisited(t)'
          BY <4>2, <4>4
        <5> HIDE DEF n, o, k
        <5>4. \/ o = 0 \/ Granted(store', t)
              \/ n >= o + 1
          BY <3>2, <3>4, <5>3
        <5>5. \/ o = 0 \/ Granted(store', t)
              \/ store'.tcb[t].state = "WAITING" /\ k >= o
          BY <3>3, <3>4, <5>1, <5>4
        <5>6. QED
          BY <3>2, <3>3, <5>2, <5>3, <5>5 DEF k
      <4>5. QED
        BY <4>3, <4>4
    <3>8. CASE ~ TimerInterrupt /\ ~ TimerLoop
      <4>1. ~ Unvisited(t)'
        BY <2>2, <3>2, <3>8
      <4>2. SleepsOn(store, store', t) \/ Granted(store', t) \/ store.tcb[t].state # "WAITING"
        <5>1. CASE ~ SleepStep
          BY <1>1, <3>2, <3>8, <5>1, OtherStepsLetSleep DEF HandsOn, Fresh, Granted
        <5>2. CASE VMThreadYield \/ \E m \in Timeouts : VMThreadSleep(m)
          BY <1>1, <2>4, <3>2, <5>2, CallerSleeps
        <5>3. CASE \E m \in Mutex : VMMutexAcquire(m)
          <6>1. PICK m \in Mutex : VMMutexAcquire(m)
            BY <5>3
          <6>2. PICK x \in Nat \union {ImmediateTimeout}, at \in {"lock", "trylock"} : Acquire(m, x, at)
            BY <6>1, AcquireTimeout DEF VMMutexAcquire
          <6>3. store' = MutexLock(store, m, x) /\ store.current # Idle
            BY <6>1, <6>2 DEF VMMutexAcquire, Acquire, Enter, Calling, cur
          <6>4. \A v \in User \ {cur} : SleepsOn(store, store', v)
            BY <1>1, <6>3, LockAsleep DEF cur, Sched
          <6>5. QED
            BY <2>4, <3>2, <6>4
        <5>4. QED
          BY <5>1, <5>2, <5>3 DEF SleepStep
      <4>3. QED
        BY <3>2, <3>6, <3>8, <4>1, <4>2
    <3>9. QED
      BY <3>5, <3>7, <3>8
  <2>5. QED
    BY <2>3, <2>4
<1>4. QED
  BY <1>2, <1>3

\* An application that creates no mutex has none, so no step is on a mutex.
LEMMA NoMutexStep ==
  ASSUME EntriesOK, store.numMutexes = 0, "MutexCreate" \notin Calls
  PROVE  ~ MutexStep
<1>1. /\ WellFormed(store) /\ cur \in Thread /\ User \subseteq Thread
      /\ \A m \in Mutex : ~ m < 0
  BY Ranges, Ids DEF TypeOK, EntriesOK, Mutex
<1>2. ~ VMMutexCreate
  BY DEF VMMutexCreate, Calling
<1>3. ASSUME NEW m \in Mutex, VMMutexDelete(m) \/ VMMutexRelease(m)
      PROVE  FALSE
  BY <1>1, <1>3 DEF VMMutexDelete, VMMutexRelease, FoundMutex
<1>4. ASSUME NEW m \in Mutex, VMMutexAcquire(m)
      PROVE  FALSE
  BY <1>1, <1>4, AcquireEffect DEF EntriesOK
<1>5. ~ KillRelease
  <2> SUFFICES ASSUME KillRelease PROVE FALSE
    OBVIOUS
  <2> DEFINE t == frame[cur].arg
             q == store.tcb[t].entries
  <2>1. q # <<>> /\ frame[cur].at = "kill"
    BY DEF KillRelease, Owes
  <2>2. t \in Thread
    BY <1>1, <2>1 DEF TypeOK, EntriesOK
  <2>3. q \in Seq(Entry)
    BY <1>1, <2>2 DEF WellFormed, Store, TCB
  <2>4. 1 \in DOMAIN q /\ q[1] \in Entry
    <3> HIDE DEF q
    <3>1. Len(q) \in Nat /\ Len(q) # 0 /\ DOMAIN q = 1..Len(q)
      BY <2>1, <2>3, EmptySeq, LenProperties
    <3>2. QED
      BY <2>3, <3>1, ElementOfSeq
  <2>5. q[1].mutex \in Mutex
    BY <2>4 DEF Entry
  <2>6. q[1].mutex < 0
    <3> HIDE DEF t
    <3>1. \A e \in Entry, i \in DOMAIN q : e = q[i] => e.mutex < store.numMutexes
      BY <2>2, EntryMeansOwner
    <3>2. QED
      BY <2>4, <3>1
  <2>7. QED
    BY <1>1, <2>5, <2>6
<1>6. QED
  BY <1>2, <1>3, <1>4, <1>5 DEF MutexStep

\* Nobody sleeps in the beginning, and no timer handler runs.
LEMMA InitSleepers == Init => TimerIsCurrent /\ SleepersOK
BY DEF Init, TimerIsCurrent, SleepersOK, InApp, AtStart

\* The thread that has returned from its sleep runs, so it does not wait.
LEMMA SleeperIsDone ==
  ASSUME TypeOK, Placed, SleepersOK, frame[cur].at = "sleep"
  PROVE  owed[cur] = 0 \/ Granted(store, cur)
<1>1. cur \in Thread
  BY Ranges DEF TypeOK
<1>2. /\ cur \in User
      /\ owed[cur] = 0 \/ Granted(store, cur) \/ store.tcb[cur].state = "WAITING"
  BY <1>1 DEF SleepersOK
<1>3. store.tcb[cur].state = "RUNNING"
  BY <1>2 DEF Placed, AllPlaced, cur
<1>4. QED
  BY <1>2, <1>3

\* Without terminations: only a mutex can cut a sleep short, and only for the
\* thread that owns it.
THEOREM SleepsCutOnlyByMutex ==
  ASSUME NoTerminations
  PROVE  Spec => []SleepCutOnlyByMutex
<1> DEFINE Base == EntriesOK /\ Placed
           Inv  == NobodyIsKilled /\ TimerIsCurrent /\ SleepersOK
<1>1. Spec => []Base
  <2>1. "TerminateOther" \notin Calls
    BY DEF NoTerminations
  <2>2. Spec => [](TypeOK /\ Sched /\ Placed)
    BY <2>1, PlacedInvariant
  <2>3. QED
    BY <2>2, EntriesInvariant, PTL
<1>2. Init => Inv
  BY InitSleepers DEF Init, NobodyIsKilled, InApp, AtStart
<1>3. Base /\ Base' /\ Inv /\ [Next]_vars => Inv'
  <2> SUFFICES ASSUME Base, Base', Inv, [Next]_vars PROVE Inv'
    OBVIOUS
  <2>1. TypeOK /\ TypeOK' /\ cur \in Thread
    BY Ranges DEF EntriesOK, TypeOK
  <2>2. ~ KillRelease
    BY <2>1 DEF KillRelease, Owes, NobodyIsKilled
  <2>3. NobodyIsKilled'
    BY <2>1, NobodyIsKilledStep
  <2>4. TimerIsCurrent'
    BY <2>1, TimerStaysCurrent
  <2>5. SleepersOK'
    BY <2>1, <2>2, SleepersStep
  <2>6. QED
    BY <2>3, <2>4, <2>5
<1>4. Base /\ Inv => SleepCutOnlyByMutex
  BY SleeperIsDone DEF EntriesOK, SleepCutOnlyByMutex, Granted
<1> HIDE DEF Base, Inv
<1>5. QED
  BY <1>1, <1>2, <1>3, <1>4, PTL DEF Spec

\* Without mutexes: VMThreadSleep(n) returns no sooner than n ticks later.  Nobody
\* terminates another thread, because the thread that is terminated may be in the
\* list the timer goes through.
THEOREM SleepsAreNotCutShort ==
  ASSUME "TerminateOther" \notin Calls, "MutexCreate" \notin Calls
  PROVE  Spec => []SleepIsNotCutShort
<1> DEFINE Base == EntriesOK /\ Placed
           Inv  == store.numMutexes = 0 /\ TimerIsCurrent /\ SleepersOK
<1>1. Spec => []Base
  BY EntriesInvariant, PlacedInvariant, PTL
<1>2. Init => Inv
  BY InitSleepers DEF Init, InitStore
<1>3. Base /\ Base' /\ Inv /\ [Next]_vars => Inv'
  <2> SUFFICES ASSUME Base, Base', Inv, [Next]_vars PROVE Inv'
    OBVIOUS
  <2>1. TypeOK /\ TypeOK'
    BY DEF EntriesOK
  <2>2. ~ MutexStep
    BY NoMutexStep
  <2>3. store'.numMutexes = 0
    BY <2>1, <2>2, OtherStepsLeaveMutexesAlone DEF MutexesAlone
  <2>4. TimerIsCurrent'
    BY <2>1, TimerStaysCurrent
  <2>5. SleepersOK'
    BY <2>1, <2>2, SleepersStep DEF MutexStep
  <2>6. QED
    BY <2>3, <2>4, <2>5
<1>4. Base /\ Inv => SleepIsNotCutShort
  <2> SUFFICES ASSUME Base, Inv, frame[cur].at = "sleep" PROVE owed[cur] = 0
    BY DEF SleepIsNotCutShort
  <2>1. \A m \in Mutex : store.mutex[m].owner = None
    BY DEF Mutex, EntriesOK, UncreatedAreFree
  <2>2. owed[cur] = 0 \/ Granted(store, cur)
    BY SleeperIsDone DEF EntriesOK
  <2>3. cur \in User /\ None \notin User
    BY Ranges, Ids DEF EntriesOK, TypeOK, SleepersOK
  <2>4. QED
    BY <2>1, <2>2, <2>3 DEF Granted
<1> HIDE DEF Base, Inv
<1>5. QED
  BY <1>1, <1>2, <1>3, <1>4, PTL DEF Spec

-----------------------------------------------------------------------------
\* A wait for a mutex without a timeout: the newest entry in the list of a thread.

\* The newest entry in the list of a thread is for m.
NewestFor(s, t, m) == s.tcb[t].entries # <<>> /\ WaitingMutex(s, t) = m

\* The flag of an entry does not matter.
LEMMA SetWaitingNewest ==
  ASSUME NEW s, WellFormed(s), NEW t \in Thread, NEW w \in BOOLEAN,
         NEW v \in Thread, NEW m, NewestFor(s, v, m)
  PROVE  NewestFor(SetWaitingOnMutex(s, t, w), v, m)
<1> DEFINE q == s.tcb[t].entries
           n == Len(q)
           r == [q EXCEPT ![n].waiting = w]
           u == SetWaitingOnMutex(s, t, w)
<1>1. /\ q \in Seq(Entry) /\ n \in Nat /\ DOMAIN q = 1..n
      /\ q # <<>> => n \in 1..n /\ q[n] \in Entry
  <2>1. q \in Seq(Entry)
    BY DEF WellFormed, Store, TCB
  <2>2. n \in Nat /\ DOMAIN q = 1..n /\ (q # <<>> => n # 0)
    BY <2>1, LenProperties, EmptySeq
  <2> HIDE DEF n, q
  <2>3. q # <<>> => n \in 1..n
    BY <2>2
  <2>4. QED
    BY <2>1, <2>2, <2>3, ElementOfSeq DEF n
<1>2. u.tcb[v].entries = IF v = t /\ n # 0 THEN r ELSE s.tcb[v].entries
  BY DEF SetWaitingOnMutex, WellFormed, Store, TCB
<1>3. CASE v # t
  <2>1. u.tcb[v].entries = s.tcb[v].entries
    BY <1>2, <1>3
  <2>2. QED
    BY <2>1 DEF NewestFor, WaitingMutex, u
<1>4. CASE v = t
  <2>1. q # <<>> /\ q[n].mutex = m
    BY <1>4 DEF NewestFor, WaitingMutex
  <2>2. u.tcb[t].entries = r
    BY <1>1, <1>2, <1>4, <2>1
  <2>3. r \in Seq(Entry) /\ Len(r) = n /\ r[n].mutex = m
    <3> DEFINE e == [q[n] EXCEPT !.waiting = w]
    <3>1. e \in Entry /\ e.mutex = m
      BY <1>1, <2>1 DEF Entry
    <3>2. r = [q EXCEPT ![n] = e]
      OBVIOUS
    <3> HIDE DEF e, q, r, n
    <3>3. r \in Seq(Entry) /\ Len(r) = Len(q) /\ r[n] = e
      BY <1>1, <2>1, <3>1, <3>2, ExceptSeq
    <3>4. QED
      BY <3>1, <3>3 DEF n
  <2>4. r # <<>>
    <3> HIDE DEF r, q
    <3>1. Len(r) # 0
      BY <1>1, <2>1, <2>3
    <3>2. QED
      BY <3>1, <2>3, EmptySeq
  <2> HIDE DEF r, u
  <2>5. QED
    BY <1>4, <2>2, <2>3, <2>4 DEF NewestFor, WaitingMutex, u
<1>5. QED
  BY <1>3, <1>4

\* Neither does the timer.
LEMMA TimerNewest ==
  ASSUME TypeOK, TimerLoop, NEW v \in Thread, NEW m, NewestFor(store, v, m)
  PROVE  NewestFor(store', v, m)
<1> DEFINE t == Visited
           a == SetWaitingOnMutex(store, t, FALSE)
<1>1. WellFormed(store) /\ t \in User /\ t \in Thread
  BY TimerLists, Ids DEF TypeOK, TimerLoop
<1>2. store'.tcb[v].entries \in {store.tcb[v].entries, a.tcb[v].entries}
  BY <1>1, TimerLists, SettleLists DEF TimerLoop
<1>3. NewestFor(a, v, m)
  <2>1. PICK w \in BOOLEAN : w = FALSE
    OBVIOUS
  <2>2. a = SetWaitingOnMutex(store, t, w)
    BY <2>1
  <2> HIDE DEF a, t
  <2>3. QED
    BY <1>1, <2>2, SetWaitingNewest
<1> HIDE DEF a
<1>4. QED
  BY <1>2, <1>3 DEF NewestFor, WaitingMutex

\* release() takes an entry from the list of the owner only.
LEMMA ReleaseLists ==
  ASSUME NEW s, WellFormed(s), Tidy(s), Alive(s), NEW m \in Mutex,
         NEW t \in Thread, t # s.mutex[m].owner
  PROVE  MutexRelease(s, m).tcb[t].entries = s.tcb[t].entries
<1> DEFINE old == s.mutex[m].owner
           f   == RemoveMutex(s, old, m)
<1>1. MutexRelease(s, m).tcb[t].entries = f.tcb[t].entries
  BY MutexReleaseHandsOn
<1>2. f.tcb[t].entries = s.tcb[t].entries
  <2> DEFINE q == s.tcb[old].entries
             r == RemoveAt(q, CHOOSE i \in 1..Len(q) : IsFirstEntry(q, m, i))
  <2>1. f \in {s, [s EXCEPT !.tcb[old].entries = r]}
    BY DEF RemoveMutex
  <2> HIDE DEF r, f, old
  <2>2. [s EXCEPT !.tcb[old].entries = r].tcb[t] = s.tcb[t]
    BY DEF WellFormed, Store, old
  <2>3. QED
    BY <2>1, <2>2
<1>3. QED
  BY <1>1, <1>2

\* addMutex() puts the mutex at the end of one list.
LEMMA AddMutexNewest ==
  ASSUME NEW s, WellFormed(s), NEW t \in Thread, NEW m \in Mutex, NEW w \in BOOLEAN
  PROVE  LET u == AddMutex(s, t, m, w)
         IN  /\ NewestFor(u, t, m)
             /\ \A v \in Thread \ {t} : u.tcb[v].entries = s.tcb[v].entries
<1> DEFINE x == s.tcb[t].entries
           e == [mutex |-> m, waiting |-> w]
           q == Append(x, e)
           u == AddMutex(s, t, m, w)
<1>1. x \in Seq(Entry) /\ e \in Entry
  BY DEF WellFormed, Store, TCB, Entry
<1>2. u = [s EXCEPT !.tcb[t].entries = q]
  BY DEF AddMutex
<1>3. q # <<>> /\ q[Len(q)] = e
  <2> HIDE DEF x, e
  <2>1. Len(x) \in Nat /\ Len(q) = Len(x) + 1 /\ q[Len(x) + 1] = e
    BY <1>1, AppendProperties, LenProperties
  <2>2. Len(q) # 0
    BY <2>1
  <2> HIDE DEF q
  <2>3. Len(<<>>) = 0
    OBVIOUS
  <2>4. QED
    BY <2>1, <2>2, <2>3
<1>4. q[Len(q)].mutex = m
  BY <1>3
<1> HIDE DEF u, q
<1>5. /\ u.tcb[t].entries = q
      /\ \A v \in Thread \ {t} : u.tcb[v].entries = s.tcb[v].entries
  BY <1>2 DEF WellFormed, Store, TCB
<1>6. QED
  BY <1>3, <1>4, <1>5 DEF NewestFor, WaitingMutex, u

\* A queued thread's newest entry is for the mutex it is queued for.
LEMMA EnqueueNewest ==
  ASSUME NEW s, WellFormed(s), s.current # Idle, NEW m \in Mutex
  PROVE  LET u == EnqueueCurrent(s, m)
         IN  /\ NewestFor(u, s.current, m)
             /\ \A v \in Thread \ {s.current} : u.tcb[v].entries = s.tcb[v].entries
<1> DEFINE t == s.current
           b == SetWaitingOnMutex(s, t, TRUE)
           a == AddMutex(b, t, m, TRUE)
           u == EnqueueCurrent(s, m)
<1>1. t \in Thread
  BY DEF WellFormed, Store
<1>2. WellFormed(b)
  BY <1>1, SetWaitingOnMutexWF
<1>3. \A v \in Thread \ {t} : b.tcb[v].entries = s.tcb[v].entries
  BY <1>1 DEF SetWaitingOnMutex, WellFormed, Store, TCB
<1>4. u = [a EXCEPT !.mutex[m].queue[s.tcb[t].prio] = Append(@, t)]
  BY DEF EnqueueCurrent
<1> HIDE DEF b
<1>5. WellFormed(a)
  BY <1>1, <1>2, AddMutexWF
<1>6. NewestFor(a, t, m) /\ \A v \in Thread \ {t} : a.tcb[v].entries = b.tcb[v].entries
  <2>1. PICK w \in BOOLEAN : w = TRUE
    OBVIOUS
  <2>2. a = AddMutex(b, t, m, w)
    BY <2>1
  <2> HIDE DEF a, t
  <2>3. QED
    BY <1>1, <1>2, <2>2, AddMutexNewest
<1> HIDE DEF a, u, t
<1>7. u.tcb = a.tcb
  BY <1>4, <1>5 DEF WellFormed, Store
<1>8. QED
  BY <1>3, <1>6, <1>7 DEF NewestFor, WaitingMutex, t, u

\* Whoever finds a mutex taken and has no timeout sleeps for ever, with the mutex as its
\* newest entry.
LEMMA LockNewest ==
  ASSUME NEW s, WellFormed(s), Tidy(s), Alive(s), AllPlaced(s), s.current # Idle,
         NEW m \in Mutex, NEW n \in Nat \union {ImmediateTimeout}
  PROVE  LET u == MutexLock(s, m, n)
             c == s.current
         IN  /\ \A v \in Thread \ {c} : u.tcb[v].entries = s.tcb[v].entries
             /\ s.mutex[m].owner # None /\ n = InfiniteTimeout =>
                  /\ u.tcb[c].state = "WAITING" /\ u.tcb[c].ticks = Forever
                  /\ NewestFor(u, c, m)
<1> DEFINE u == MutexLock(s, m, n)
           c == s.current
<1>1. c \in Thread
  BY DEF WellFormed, Store
<1>2. CASE s.mutex[m].owner = None
  <2> DEFINE a == AddMutex(s, c, m, FALSE)
  <2>1. u = [a EXCEPT !.mutex[m].owner = c]
    BY <1>2 DEF MutexLock
  <2>2. WellFormed(a)
    BY <1>1, AddMutexWF
  <2>3. \A v \in Thread \ {c} : a.tcb[v].entries = s.tcb[v].entries
    <3>1. PICK w \in BOOLEAN : w = FALSE
      OBVIOUS
    <3>2. a = AddMutex(s, c, m, w)
      BY <3>1
    <3> HIDE DEF a, c
    <3>3. QED
      BY <1>1, <3>2, AddMutexNewest
  <2> HIDE DEF a, u, c
  <2>4. u.tcb = a.tcb
    BY <2>1, <2>2 DEF WellFormed, Store
  <2>5. QED
    BY <1>2, <2>3, <2>4 DEF u, c
<1>3. CASE s.mutex[m].owner # None /\ n = ImmediateTimeout
  <2>1. u = s /\ n # InfiniteTimeout
    BY <1>3 DEF MutexLock, ImmediateTimeout, InfiniteTimeout
  <2>2. QED
    BY <2>1
<1>4. CASE s.mutex[m].owner # None /\ n # ImmediateTimeout
  <2> DEFINE e == EnqueueCurrent(s, m)
             w == IF n = InfiniteTimeout THEN Forever ELSE n
  <2>1. WellFormed(e) /\ e.current = c /\ Still(s, e)
    BY EnqueueCurrentEffect, EnqueueCurrentStill
  <2>2. w \in Nat \union {Forever} /\ u = SleepCurrentThread(e, w)
    BY <1>4 DEF MutexLock
  <2>3. n = InfiniteTimeout => w = Forever
    OBVIOUS
  <2>4. NewestFor(e, c, m) /\ \A v \in Thread \ {c} : e.tcb[v].entries = s.tcb[v].entries
    BY EnqueueNewest
  <2> HIDE DEF e, w, u
  <2>5. Tidy(e) /\ Alive(e) /\ AllPlaced(e)
    BY <2>1, StillSteady DEF Steady
  <2>6. SameData(e, u) /\ u.tcb[c].state = "WAITING" /\ u.tcb[c].ticks = w
    BY <2>1, <2>2, <2>5, SleepAsleep, SleepCurrentThreadSteady
  <2>7. \A v \in Thread : u.tcb[v].entries = e.tcb[v].entries
    BY <2>6 DEF SameData
  <2>8. NewestFor(u, c, m)
    BY <1>1, <2>4, <2>7 DEF NewestFor, WaitingMutex
  <2> HIDE DEF c
  <2>9. QED
    BY <2>3, <2>4, <2>6, <2>7, <2>8 DEF u, c
<1>5. QED
  BY <1>2, <1>3, <1>4

-----------------------------------------------------------------------------
\* What becomes of it.

\* Unless somebody is killed, a thread that waits keeps its newest entry.
LEMMA NewestStays ==
  ASSUME EntriesOK, Placed, [Next]_vars, ~ KillRelease, NEW t \in User \ {cur},
         store.tcb[t].state = "WAITING", NEW m, NewestFor(store, t, m)
  PROVE  NewestFor(store', t, m)
<1>1. /\ WellFormed(store) /\ cur \in Thread /\ t \in Thread
      /\ Tidy(store) /\ Alive(store) /\ AllPlaced(store) /\ TypeOK /\ Sched
  BY Ranges, Ids DEF TypeOK, Sched, EntriesOK, Placed
<1>2. ASSUME store'.tcb[t].entries = store.tcb[t].entries PROVE NewestFor(store', t, m)
  BY <1>2 DEF NewestFor, WaitingMutex
<1>3. CASE TimerLoop
  BY <1>1, <1>3, TimerNewest
<1>4. CASE ~ MutexStep /\ ~ TimerLoop
  <2>1. store'.tcb[t].entries = store.tcb[t].entries \/ t = store.numThreads
    BY <1>1, <1>4, OtherStepsKeepEntries DEF TimerLoop
  <2>2. t # store.numThreads
    <3>1. t \in Int
      BY <1>1, IdsAssumption DEF Thread
    <3>2. t >= t
      BY <3>1
    <3>3. QED
      BY <1>1, <3>2 DEF Tidy, Gone
  <2>3. QED
    BY <1>2, <2>1, <2>2
<1>5. CASE VMMutexCreate \/ \E k \in Mutex : VMMutexDelete(k)
  <2>1. store'.tcb = store.tcb
    BY <1>1, <1>5 DEF VMMutexCreate, VMMutexDelete, Finish, InsertMutex, DeleteFromVM,
       WellFormed, Store
  <2>2. QED
    BY <1>2, <2>1
<1>6. ASSUME NEW k \in Mutex, VMMutexAcquire(k) PROVE NewestFor(store', t, m)
  <2>1. PICK n \in Nat \union {ImmediateTimeout}, at \in {"lock", "trylock"} : Acquire(k, n, at)
    BY <1>6, AcquireTimeout DEF VMMutexAcquire
  <2>2. store' = MutexLock(store, k, n) /\ store.current # Idle
    BY <1>6, <2>1 DEF VMMutexAcquire, Acquire, Enter, Calling, cur
  <2>3. QED
    BY <1>1, <1>2, <2>2, LockNewest DEF cur
<1>7. ASSUME NEW k \in Mutex, VMMutexRelease(k) PROVE NewestFor(store', t, m)
  <2>1. store' = MutexRelease(store, k) /\ store.mutex[k].owner # t
    BY <1>7 DEF VMMutexRelease, Enter
  <2>2. QED
    BY <1>1, <1>2, <2>1, ReleaseLists
<1>8. QED
  BY <1>3, <1>4, <1>5, <1>6, <1>7 DEF MutexStep

\* What the application believes of a thread changes by that thread's own steps.
LEMMA HeldStep ==
  ASSUME TypeOK, [Next]_vars, ~ KillRelease, NEW t \in Thread \ {cur}
  PROVE  held'[t] = held[t]
<1>1. held \in [Thread -> SUBSET Mutex]
  BY DEF TypeOK
<1>2. ASSUME NEW x, held' = [held EXCEPT ![cur] = x] PROVE held'[t] = held[t]
  BY <1>1, <1>2
<1>3. CASE AcquireReturn
  BY <1>2, <1>3 DEF AcquireReturn
<1>4. CASE \E m \in Mutex : VMMutexRelease(m)
  BY <1>2, <1>4 DEF VMMutexRelease
<1>5. QED
  BY <1>3, <1>4, OtherStepsLeaveBeliefsAlone

\* A thread sleeps, without a timeout, for the mutex of its newest entry.
SleepsForNewest(t, m) ==
  /\ store.tcb[t].state = "WAITING" /\ store.tcb[t].ticks = Forever
  /\ NewestFor(store, t, m)

\* Nobody but the caller of VMMutexAcquire begins to wait without a timeout: it is the
\* owner or sleeps.
LEMMA AskerEnters ==
  ASSUME EntriesOK, Placed, TypeOK', [Next]_vars, ~ UNCHANGED vars,
         NEW t \in Thread, t = cur, NEW m \in Mutex, frame'[t].at = "lock", frame'[t].arg = m
  PROVE  t \in User /\ (store'.mutex[m].owner = t \/ SleepsForNewest(t, m)')
<1>1. /\ WellFormed(store) /\ t \in Thread /\ frame \in [Thread -> Frame]
      /\ Tidy(store) /\ Alive(store) /\ AllPlaced(store) /\ TypeOK
      /\ frame' \in [Thread -> Frame] /\ frame'[t].arg \in Mutex
  BY Ranges, Ids DEF TypeOK, Sched, EntriesOK, Placed
<1>2. frame[t].at # "lock"
  <2> SUFFICES ASSUME frame[cur].at = "lock" PROVE FALSE
    OBVIOUS
  <2>1. Kernel
    BY InKernel
  <2>2. AcquireReturn
    BY <2>1 DEF Kernel, SafeEntry, Return, KillRelease, KillFinish,
       TimerKeep, TimerCountdown, TimerWake, TimerDone, Visiting, Owes
  <2>3. frame'[cur].at = "app"
    BY <1>1, <2>2 DEF AcquireReturn, Resume, InApp
  <2>4. QED
    BY <2>3
<1>3. VMMutexAcquire(m)
  BY <1>1, <1>2, FrameStep DEF FrameRule
<1>4. Acquire(m, InfiniteTimeout, "lock") /\ store.current # Idle
  <2>1. ASSUME NEW n, Acquire(m, n, "trylock") PROVE FALSE
    <3>1. frame'[t].at = "trylock"
      BY <1>1, <2>1 DEF Acquire, Enter
    <3>2. QED
      BY <3>1
  <2>2. QED
    BY <1>3, <2>1 DEF VMMutexAcquire, Calling, cur
<1>5. store' = MutexLock(store, m, InfiniteTimeout) /\ store.current = t
  BY <1>4 DEF Acquire, Enter, cur
<1>6. InfiniteTimeout \in Nat \union {ImmediateTimeout} /\ t \in User
  BY <1>1, <1>4, <1>5 DEF InfiniteTimeout, User
<1>7. CASE store.mutex[m].owner = None
  BY <1>1, <1>3, <1>6, <1>7, AcquireEffect
<1>8. CASE store.mutex[m].owner # None
  <2>1. PICK n \in Nat \union {ImmediateTimeout} : n = InfiniteTimeout
    BY <1>6
  <2>2. store' = MutexLock(store, m, n) /\ store.current # Idle
    BY <1>4, <1>5, <2>1
  <2>3. /\ store'.tcb[t].state = "WAITING" /\ store'.tcb[t].ticks = Forever
        /\ NewestFor(store', t, m)
    BY <1>1, <1>5, <1>8, <2>1, <2>2, LockNewest
  <2>4. SleepsForNewest(t, m)'
    BY <2>3 DEF SleepsForNewest, NewestFor, WaitingMutex
  <2>5. QED
    BY <1>3, <1>6, <2>4
<1>9. QED
  BY <1>7, <1>8

\* It sleeps on, unless it is the owner or a release makes it the owner of a mutex.
LEMMA AskerSleeps ==
  ASSUME EntriesOK, Placed, [Next]_vars, ~ KillRelease,
         NEW t \in User \ {cur}, NEW m \in Mutex, SleepsForNewest(t, m)
  PROVE  \/ store.mutex[m].owner = t \/ SleepsForNewest(t, m)'
         \/ \E k \in Mutex : VMMutexRelease(k) /\ store'.mutex[k].owner = t
<1>1. /\ WellFormed(store) /\ cur \in Thread /\ t \in Thread /\ TypeOK /\ Sched
      /\ Tidy(store) /\ Alive(store) /\ AllPlaced(store)
      /\ store.tcb[t].state = "WAITING" /\ store.tcb[t].ticks = Forever
  BY Ranges, Ids DEF TypeOK, Sched, EntriesOK, Placed, SleepsForNewest
<1>2. NewestFor(store', t, m)
  BY <1>1, NewestStays DEF SleepsForNewest
<1>3. ASSUME SleepsOn(store, store', t) PROVE SleepsForNewest(t, m)'
  BY <1>1, <1>2, <1>3 DEF SleepsOn, SleepsForNewest, NewestFor, WaitingMutex
<1>4. CASE TimerLoop
  <2> DEFINE k == store'.tcb[t].ticks
  <2>1. \/ SleepsOn(store, store', t) \/ OwnsAwaited(store, t)
        \/ k = Forever /\ store'.tcb[t].state = "WAITING"
        \/ Forever > 0 \/ Forever = 0
    BY <1>1, <1>4, TimerTurn DEF TimerLoop
  <2>2. SleepsOn(store, store', t) \/ OwnsAwaited(store, t)
    BY <1>1, <2>1 DEF Forever, SleepsOn
  <2>3. OwnsAwaited(store, t) => store.mutex[m].owner = t
    BY DEF OwnsAwaited, SleepsForNewest, NewestFor
  <2>4. QED
    BY <1>3, <2>2, <2>3
<1>5. CASE VMThreadYield \/ \E n \in Timeouts : VMThreadSleep(n)
  BY <1>1, <1>3, <1>5, CallerSleeps
<1>6. ASSUME NEW k \in Mutex, VMMutexAcquire(k) PROVE SleepsForNewest(t, m)'
  <2>1. PICK n \in Nat \union {ImmediateTimeout}, at \in {"lock", "trylock"} : Acquire(k, n, at)
    BY <1>6, AcquireTimeout DEF VMMutexAcquire
  <2>2. store' = MutexLock(store, k, n) /\ store.current # Idle
    BY <1>6, <2>1 DEF VMMutexAcquire, Acquire, Enter, Calling, cur
  <2>3. QED
    BY <1>1, <1>3, <2>2, LockAsleep DEF cur
<1>7. CASE ~ SleepStep /\ ~ TimerLoop
  BY <1>1, <1>3, <1>7, OtherStepsLetSleep DEF HandsOn, Fresh
<1>8. QED
  BY <1>4, <1>5, <1>6, <1>7 DEF SleepStep

\* The thread has been made the owner of another mutex, one it does not believe it holds.
OwnsAnother(t, m) ==
  \E k \in Mutex \ {m} : store.mutex[k].owner = t /\ k \notin held[t]

\* Why VMMutexAcquire without a timeout does not return in vain otherwise.
AskersOK ==
  \A t \in Thread : frame[t].at = "lock" =>
    LET m == frame[t].arg
    IN  t \in User /\ (store.mutex[m].owner = t \/ SleepsForNewest(t, m) \/ OwnsAnother(t, m))

\* An asker is never left with nothing.
LEMMA AskersStep ==
  ASSUME EntriesOK, Placed, BelieversOwn, AskersOK, TypeOK', ~ KillRelease, [Next]_vars
  PROVE  AskersOK'
<1>1. TypeOK /\ cur \in Thread /\ FrameRule
  BY Ranges, FrameStep DEF EntriesOK, TypeOK
<1>2. CASE UNCHANGED vars
  BY <1>2 DEF vars, AskersOK, OwnsAnother, SleepsForNewest, NewestFor, WaitingMutex
<1>3. CASE ~ UNCHANGED vars
  <2> SUFFICES ASSUME NEW t \in Thread, frame'[t].at = "lock", NEW m \in Mutex,
                      frame'[t].arg = m
               PROVE  t \in User /\ (\/ store'.mutex[m].owner = t
                                     \/ SleepsForNewest(t, m)' \/ OwnsAnother(t, m)')
    BY DEF AskersOK, TypeOK
  <2>1. CASE t = cur
    BY <1>3, <2>1, AskerEnters
  <2>2. CASE t # cur
    <3>1. frame[t].at = "lock" /\ frame[t].arg = m
      BY <1>1, <2>2 DEF FrameRule
    <3>2. /\ t \in User \ {cur}
          /\ store.mutex[m].owner = t \/ SleepsForNewest(t, m) \/ OwnsAnother(t, m)
      BY <2>2, <3>1 DEF AskersOK
    <3>3. \A k \in Mutex : store.mutex[k].owner = t => store'.mutex[k].owner = t
      BY <3>2, OwnerLost
    <3>4. held'[t] = held[t]
      BY <1>1, <3>2, HeldStep
    <3>5. OwnsAnother(t, m) => OwnsAnother(t, m)'
      BY <3>3, <3>4 DEF OwnsAnother
    <3>6. ASSUME NEW k \in Mutex, VMMutexRelease(k), store'.mutex[k].owner = t
          PROVE  store'.mutex[m].owner = t \/ OwnsAnother(t, m)'
      <4>1. k \notin held'[t]
        BY <3>2, <3>4, <3>6 DEF VMMutexRelease, BelieversOwn
      <4>2. QED
        BY <3>6, <4>1 DEF OwnsAnother
    <3>7. SleepsForNewest(t, m) =>
            store'.mutex[m].owner = t \/ SleepsForNewest(t, m)' \/ OwnsAnother(t, m)'
      BY <3>2, <3>3, <3>6, AskerSleeps
    <3>8. QED
      BY <3>2, <3>3, <3>5, <3>7
  <2>3. QED
    BY <2>1, <2>2
<1>4. QED
  BY <1>2, <1>3

\* Without terminations: a wait for a mutex without a timeout ends in vain only for a
\* thread that a release has made the owner of another mutex, one it has queued for
\* earlier and given up.
THEOREM InfiniteAcquiresUnlessStale ==
  ASSUME NoTerminations
  PROVE  Spec => []InfiniteAcquireUnlessStale
<1> DEFINE Base == EntriesOK /\ Placed
           Inv  == NobodyIsKilled /\ BelieversOwn /\ AskersOK
<1>1. Spec => []Base
  <2>1. "TerminateOther" \notin Calls
    BY DEF NoTerminations
  <2>2. Spec => [](TypeOK /\ Sched /\ Placed)
    BY <2>1, PlacedInvariant
  <2>3. QED
    BY <2>2, EntriesInvariant, PTL
<1>2. Init => Inv
  BY DEF Init, NobodyIsKilled, BelieversOwn, AskersOK, InApp, AtStart
<1>3. Base /\ Base' /\ Inv /\ [Next]_vars => Inv'
  <2> SUFFICES ASSUME Base, Base', Inv, [Next]_vars PROVE Inv'
    OBVIOUS
  <2>1. TypeOK /\ TypeOK' /\ UncreatedAreFree /\ cur \in Thread
    BY Ranges DEF EntriesOK, TypeOK
  <2>2. ~ KillRelease
    BY <2>1 DEF KillRelease, Owes, NobodyIsKilled
  <2>3. NobodyIsKilled'
    BY <2>1, NobodyIsKilledStep
  <2>4. BelieversOwn'
    BY <2>1, MutexStepKeepsBelievers, OtherStepKeepsBelievers
  <2>5. AskersOK'
    BY <2>1, <2>2, AskersStep
  <2>6. QED
    BY <2>3, <2>4, <2>5
<1>4. Base /\ Inv => InfiniteAcquireUnlessStale
  <2> SUFFICES ASSUME Base, Inv, frame[cur].at = "lock",
                      store.mutex[frame[cur].arg].owner # cur
               PROVE  OwnsAnother(cur, frame[cur].arg)
    BY DEF InfiniteAcquireUnlessStale, OwnsAnother
  <2>1. cur \in Thread
    BY Ranges DEF EntriesOK, TypeOK
  <2>2. cur \in User /\ (SleepsForNewest(cur, frame[cur].arg) \/ OwnsAnother(cur, frame[cur].arg))
    BY <2>1 DEF AskersOK
  <2>3. store.tcb[cur].state = "RUNNING"
    BY <2>2 DEF Placed, AllPlaced, cur
  <2>4. QED
    BY <2>2, <2>3 DEF SleepsForNewest
<1> HIDE DEF Base, Inv
<1>5. QED
  BY <1>1, <1>2, <1>3, <1>4, PTL DEF Spec

-----------------------------------------------------------------------------
\* When nobody leaves a stale place in a queue.

\* Unless acquires have timeouts or repeat themselves, whoever is in a queue is in it
\* once, in VMMutexAcquire without a timeout, and not the owner.
QueuersAsk ==
  \A t \in User, k \in Mutex : InQueues(store, t, k) # 0 =>
    /\ InQueues(store, t, k) = 1
    /\ frame[t].at = "lock" /\ frame[t].arg = k
    /\ store.mutex[k].owner # t

\* A thread that has asked for a mutex without a timeout owns it or sleeps for it.
AskersServed ==
  \A t \in Thread : frame[t].at = "lock" =>
    LET m == frame[t].arg
    IN  t \in User /\ (store.mutex[m].owner = t \/ SleepsForNewest(t, m))

\* The current thread is in no queue.
LEMMA CurrentIsNotQueued ==
  ASSUME EntriesOK, Placed, QueuersAsk, AskersServed, cur \in User, NEW k \in Mutex
  PROVE  InQueues(store, cur, k) = 0
<1> SUFFICES ASSUME InQueues(store, cur, k) # 0 PROVE FALSE
  OBVIOUS
<1>1. frame[cur].at = "lock" /\ frame[cur].arg = k /\ store.mutex[k].owner # cur
  BY DEF QueuersAsk
<1>2. cur \in Thread
  BY Ranges DEF EntriesOK
<1>3. SleepsForNewest(cur, k)
  BY <1>1, <1>2 DEF AskersServed
<1>4. store.tcb[cur].state = "RUNNING"
  BY DEF Placed, AllPlaced, cur
<1>5. QED
  BY <1>3, <1>4 DEF SleepsForNewest

\* Who is in the queue of a mutex changes with that mutex.
LEMMA SameMutexSameQueues ==
  ASSUME NEW s, NEW u, NEW k, u.mutex[k] = s.mutex[k], NEW t
  PROVE  InQueues(u, t, k) = InQueues(s, t, k)
BY DEF InQueues, Queued

\* Nobody is in the queues of a mutex that has no waiters.
LEMMA NoWaitersNotQueued ==
  ASSUME NEW s, NEW k, NoWaiters(s, k), NEW t
  PROVE  InQueues(s, t, k) = 0
<1>1. \A p \in Priority : Queued(s, t, k, p) = 0
  BY OccEmpty DEF NoWaiters, Queued
<1>2. Low \in Priority /\ Normal \in Priority /\ High \in Priority
  BY DEF Priority, Low, Normal, High
<1>3. QED
  BY <1>1, <1>2 DEF InQueues

\* Whoever is queued goes on asking.
LEMMA QueuersStep ==
  ASSUME "AcquireTimed" \notin Calls, "Reacquire" \notin Calls,
         EntriesOK, Placed, QueuersAsk, AskersServed, TypeOK', ~ KillRelease, [Next]_vars
  PROVE  QueuersAsk'
<1> SUFFICES ASSUME NEW t \in User, NEW k \in Mutex, InQueues(store', t, k) # 0
             PROVE  /\ InQueues(store', t, k) = 1
                    /\ frame'[t].at = "lock" /\ frame'[t].arg = k
                    /\ store'.mutex[k].owner # t
  BY DEF QueuersAsk
<1>1. /\ TypeOK /\ WellFormed(store) /\ WellFormed(store') /\ t \in Thread /\ cur \in Thread
      /\ Tidy(store) /\ Alive(store) /\ FrameRule
  BY Ranges, Ids, FrameStep DEF TypeOK, Sched, EntriesOK
<1>2. t # cur => frame'[t] = frame[t]
  BY <1>1 DEF FrameRule
<1>3. t = cur => InQueues(store, t, k) = 0
  BY CurrentIsNotQueued
<1>4. ASSUME store'.mutex[k] = store.mutex[k]
      PROVE  /\ InQueues(store', t, k) = 1
             /\ frame'[t].at = "lock" /\ frame'[t].arg = k
             /\ store'.mutex[k].owner # t
  <2>1. InQueues(store', t, k) = InQueues(store, t, k)
    BY <1>4, SameMutexSameQueues
  <2>2. QED
    BY <1>2, <1>3, <1>4, <2>1 DEF QueuersAsk
<1>5. CASE ~ MutexStep
  BY <1>1, <1>4, <1>5, OtherStepsLeaveMutexesAlone DEF MutexesAlone
<1>6. CASE VMMutexCreate
  <2>1. PICK junk \in FreshFlags : store' = InsertMutex(store, junk)
    BY <1>6 DEF VMMutexCreate, Finish
  <2>2. store.numMutexes \in Mutex /\ junk \in BOOLEAN
    BY <1>6, FreshFlagsAssumption DEF VMMutexCreate
  <2>3. k = store.numMutexes => NoWaiters(store', k)
    BY <1>1, <2>1, <2>2, InsertMutexEffect
  <2>4. k # store.numMutexes => store'.mutex[k] = store.mutex[k]
    BY <1>1, <2>1, <2>2, InsertMutexEffect
  <2>5. QED
    BY <1>4, <2>3, <2>4, NoWaitersNotQueued
<1>7. ASSUME NEW m \in Mutex, VMMutexDelete(m) PROVE k = m => NoWaiters(store', m)
  <2>1. store' = DeleteFromVM(store, m)
    BY <1>7 DEF VMMutexDelete, Finish
  <2>2. QED
    BY <1>1, <2>1, DeleteFromVMEffect
<1>8. ASSUME NEW m \in Mutex, VMMutexDelete(m) PROVE k # m => store'.mutex[k] = store.mutex[k]
  <2>1. store' = DeleteFromVM(store, m)
    BY <1>8 DEF VMMutexDelete, Finish
  <2>2. QED
    BY <1>1, <2>1, DeleteFromVMEffect DEF SameOtherMutexes
<1>9. ASSUME NEW m \in Mutex, VMMutexAcquire(m)
      PROVE  /\ InQueues(store', t, k) = 1
             /\ frame'[t].at = "lock" /\ frame'[t].arg = k
             /\ store'.mutex[k].owner # t
  <2>1. CASE k # m
    BY <1>1, <1>4, <1>9, <2>1, AcquireEffect DEF SameOtherMutexes
  <2>2. CASE k = m
    <3>1. PICK n \in Nat \union {ImmediateTimeout}, at \in {"lock", "trylock"} :
            Acquire(m, n, at) /\ (n # ImmediateTimeout => at = "lock")
      BY <1>9, AcquireTimeout DEF VMMutexAcquire, Calling
    <3>2. store' = MutexLock(store, m, n) /\ store.current # Idle
      BY <1>9, <3>1 DEF VMMutexAcquire, Acquire, Enter, Calling, cur
    <3> DEFINE queues == t = cur /\ store.mutex[m].owner # None /\ n # ImmediateTimeout
    <3>3. /\ InQueues(store, t, k) \in Nat
          /\ InQueues(store', t, k) = InQueues(store, t, k) + (IF queues THEN 1 ELSE 0)
      BY <1>1, <2>2, <3>2, LockInQueues DEF cur
    <3>4. CASE t = cur
      <4>1. queues /\ InQueues(store', t, k) = 1
        BY <1>3, <3>3, <3>4
      <4>2. frame'[t].at = "lock" /\ frame'[t].arg = m
        BY <1>1, <3>1, <3>4, <4>1 DEF Acquire, Enter, TypeOK
      <4>3. store'.mutex[m].owner = store.mutex[m].owner /\ store.mutex[m].owner # cur
        BY <1>1, <1>9, <3>1, <4>1, AcquireEffect DEF Acquire
      <4>4. QED
        BY <2>2, <3>4, <4>1, <4>2, <4>3
    <3>5. CASE t # cur
      <4>1. InQueues(store', t, k) = InQueues(store, t, k)
        BY <3>3, <3>5
      <4>2. store'.mutex[k].owner \in {cur, store.mutex[k].owner}
        BY <1>1, <1>9, <2>2, AcquireEffect
      <4>3. QED
        BY <1>2, <3>5, <4>1, <4>2 DEF QueuersAsk
    <3>6. QED
      BY <3>4, <3>5
  <2>3. QED
    BY <2>1, <2>2
<1>10. ASSUME NEW m \in Mutex, VMMutexRelease(m)
       PROVE  /\ InQueues(store', t, k) = 1
              /\ frame'[t].at = "lock" /\ frame'[t].arg = k
              /\ store'.mutex[k].owner # t
  <2>1. store' = MutexRelease(store, m)
    BY <1>10 DEF VMMutexRelease, Enter
  <2>2. CASE k # m
    BY <1>1, <1>4, <2>1, <2>2, MutexReleaseEffect DEF SameOtherMutexes
  <2>3. CASE k = m
    <3>1. /\ InQueues(store, t, k) \in Nat /\ InQueues(store', t, k) \in Nat
          /\ InQueues(store', t, k) = InQueues(store, t, k) - Owns(store', t, k)
      BY <1>1, <2>1, <2>3, ReleaseInQueues
    <3>2. Owns(store', t, k) = IF store'.mutex[k].owner = t THEN 1 ELSE 0
      BY DEF Owns
    <3>3. InQueues(store, t, k) # 0
      BY <3>1, <3>2
    <3>4. t # cur /\ InQueues(store, t, k) = 1 /\ frame[t].at = "lock" /\ frame[t].arg = k
      BY <1>3, <3>3 DEF QueuersAsk
    <3>5. store'.mutex[k].owner # t /\ InQueues(store', t, k) = 1
      BY <3>1, <3>2, <3>4
    <3>6. QED
      BY <1>2, <3>4, <3>5
  <2>4. QED
    BY <2>2, <2>3
<1>11. QED
  BY <1>4, <1>5, <1>6, <1>7, <1>8, <1>9, <1>10, NoWaitersNotQueued DEF MutexStep

\* So an asker is served: a release makes it the owner of the mutex it asked for.
LEMMA ServedStep ==
  ASSUME EntriesOK, Placed, QueuersAsk, AskersServed, TypeOK', ~ KillRelease, [Next]_vars
  PROVE  AskersServed'
<1>1. TypeOK /\ cur \in Thread /\ FrameRule
  BY Ranges, FrameStep DEF EntriesOK, TypeOK
<1>2. CASE UNCHANGED vars
  BY <1>2 DEF vars, AskersServed, SleepsForNewest, NewestFor, WaitingMutex
<1>3. CASE ~ UNCHANGED vars
  <2> SUFFICES ASSUME NEW t \in Thread, frame'[t].at = "lock", NEW m \in Mutex,
                      frame'[t].arg = m
               PROVE  t \in User /\ (store'.mutex[m].owner = t \/ SleepsForNewest(t, m)')
    BY DEF AskersServed, TypeOK
  <2>1. CASE t = cur
    BY <1>3, <2>1, AskerEnters
  <2>2. CASE t # cur
    <3>1. frame[t].at = "lock" /\ frame[t].arg = m
      BY <1>1, <2>2 DEF FrameRule
    <3>2. t \in User \ {cur} /\ (store.mutex[m].owner = t \/ SleepsForNewest(t, m))
      BY <2>2, <3>1 DEF AskersServed
    <3>3. store.mutex[m].owner = t => store'.mutex[m].owner = t
      BY <3>2, OwnerLost
    <3>4. ASSUME NEW k \in Mutex, VMMutexRelease(k), store'.mutex[k].owner = t PROVE k = m
      <4>1. store' = MutexRelease(store, k)
        BY <3>4 DEF VMMutexRelease, Enter
      <4>2. /\ InQueues(store, t, k) \in Nat /\ InQueues(store', t, k) \in Nat
            /\ InQueues(store', t, k) = InQueues(store, t, k) - Owns(store', t, k)
        BY <4>1, ReleaseInQueues DEF EntriesOK, Sched, TypeOK
      <4>3. Owns(store', t, k) = 1
        BY <3>4 DEF Owns
      <4>4. InQueues(store, t, k) # 0
        BY <4>2, <4>3
      <4>5. QED
        BY <3>1, <3>2, <4>4 DEF QueuersAsk
    <3>5. SleepsForNewest(t, m) => store'.mutex[m].owner = t \/ SleepsForNewest(t, m)'
      BY <3>2, <3>3, <3>4, AskerSleeps
    <3>6. QED
      BY <3>2, <3>3, <3>5
  <2>3. QED
    BY <2>1, <2>2
<1>4. QED
  BY <1>2, <1>3

\* Without terminations and acquires that have a timeout, and when nobody acquires a mutex
\* it already owns: a thread that waits without a timeout runs again only as the owner.
THEOREM InfiniteAcquiresSucceed ==
  ASSUME NoTerminations, "AcquireTimed" \notin Calls, "Reacquire" \notin Calls
  PROVE  Spec => []InfiniteAcquireSucceeds
<1> DEFINE Base == EntriesOK /\ Placed
           Inv  == NobodyIsKilled /\ QueuersAsk /\ AskersServed
<1>1. Spec => []Base
  <2>1. "TerminateOther" \notin Calls
    BY DEF NoTerminations
  <2>2. Spec => [](TypeOK /\ Sched /\ Placed)
    BY <2>1, PlacedInvariant
  <2>3. QED
    BY <2>2, EntriesInvariant, PTL
<1>2. Init => Inv
  <2> SUFFICES ASSUME Init PROVE Inv
    OBVIOUS
  <2>1. NobodyIsKilled /\ AskersServed
    BY DEF Init, NobodyIsKilled, AskersServed, InApp, AtStart
  <2>2. \A k \in Mutex : NoWaiters(store, k)
    BY DEF Init, InitStore, NoWaiters
  <2>3. QED
    BY <2>1, <2>2, NoWaitersNotQueued DEF QueuersAsk
<1>3. Base /\ Base' /\ Inv /\ [Next]_vars => Inv'
  <2> SUFFICES ASSUME Base, Base', Inv, [Next]_vars PROVE Inv'
    OBVIOUS
  <2>1. TypeOK /\ TypeOK' /\ cur \in Thread
    BY Ranges DEF EntriesOK, TypeOK
  <2>2. ~ KillRelease
    BY <2>1 DEF KillRelease, Owes, NobodyIsKilled
  <2>3. NobodyIsKilled'
    BY <2>1, NobodyIsKilledStep
  <2>4. QueuersAsk' /\ AskersServed'
    BY <2>1, <2>2, QueuersStep, ServedStep
  <2>5. QED
    BY <2>3, <2>4
<1>4. Base /\ Inv => InfiniteAcquireSucceeds
  <2> SUFFICES ASSUME Base, Inv, frame[cur].at = "lock"
               PROVE  store.mutex[frame[cur].arg].owner = cur
    BY DEF InfiniteAcquireSucceeds
  <2>1. cur \in Thread
    BY Ranges DEF EntriesOK, TypeOK
  <2>2. /\ cur \in User
        /\ \/ store.mutex[frame[cur].arg].owner = cur
           \/ SleepsForNewest(cur, frame[cur].arg)
    BY <2>1 DEF AskersServed
  <2>3. store.tcb[cur].state = "RUNNING"
    BY <2>2 DEF Placed, AllPlaced, cur
  <2>4. QED
    BY <2>2, <2>3 DEF SleepsForNewest
<1> HIDE DEF Base, Inv
<1>5. QED
  BY <1>1, <1>2, <1>3, <1>4, PTL DEF Spec

=============================================================================
