--------------------------- MODULE Mutexes_proofs ---------------------------
(***************************************************************************)
(* What the operations of class Mutex do to the owner and the queues, for  *)
(* any number of threads and mutexes.                                      *)
(***************************************************************************)
EXTENDS Mutexes, ThreadStore_proofs

\* No free mutex of a Store has a waiter.
FreeHasNoWaiters(s) ==
  \A m \in Mutex : s.mutex[m].owner = None => NoWaiters(s, m)

\* Two Stores that agree on every mutex but m.
SameOtherMutexes(s, u, m) ==
  /\ \A k \in Mutex \ {m} : u.mutex[k] = s.mutex[k]
  /\ u.numMutexes = s.numMutexes

WithMutex(s, m, r) == [s EXCEPT !.mutex = [s.mutex EXCEPT ![m] = r]]

\* Replacing one mutex keeps a Store well formed.
LEMMA UpdateMutex ==
  ASSUME NEW s, WellFormed(s), NEW m \in Mutex, NEW r \in MutexRecord
  PROVE  LET u == WithMutex(s, m, r)
         IN  /\ WellFormed(u) /\ SameOtherMutexes(s, u, m) /\ u.mutex[m] = r
             /\ u.tcb = s.tcb /\ u.current = s.current
<1> DEFINE f == [s.mutex EXCEPT ![m] = r]
           u == WithMutex(s, m, r)
<1>1. f \in [Mutex -> MutexRecord] /\ f[m] = r /\ \A k \in Mutex \ {m} : f[k] = s.mutex[k]
  BY DEF WellFormed, Store
<1>2. u = [s EXCEPT !.mutex = f]
  BY DEF WithMutex
<1> HIDE DEF f, u
<1>3. /\ u \in Store /\ u.mutex = f /\ u.ready = s.ready /\ u.tcb = s.tcb
      /\ u.numThreads = s.numThreads /\ u.numMutexes = s.numMutexes
      /\ u.current = s.current
  BY <1>1, <1>2 DEF WellFormed, Store
<1>4. WellFormed(u)
  BY <1>3 DEF WellFormed
<1>5. QED
  BY <1>1, <1>3, <1>4 DEF SameOtherMutexes, u

\* Removing an entry from the list of a NULL owner changes nothing.
LEMMA RemoveMutexFromNobody ==
  ASSUME NEW s, WellFormed(s), NEW m \in Mutex
  PROVE  RemoveMutex(s, None, m) = s
<1> DEFINE q == s.tcb[None].entries
           p == RemoveAt(q, CHOOSE i \in 1..Len(q) : IsFirstEntry(q, m, i))
<1>1. RemoveMutex(s, None, m) \in {s, [s EXCEPT !.tcb[None].entries = p]}
  BY DEF RemoveMutex
<1> HIDE DEF p
<1>2. [s.tcb EXCEPT ![None].entries = p] = s.tcb
  BY Ids DEF WellFormed, Store
<1>3. [s EXCEPT !.tcb[None].entries = p] = [s EXCEPT !.tcb = [s.tcb EXCEPT ![None].entries = p]]
  BY DEF WellFormed, Store
<1>4. [s EXCEPT !.tcb = s.tcb] = s
  BY DEF WellFormed, Store
<1>5. QED
  BY <1>1, <1>2, <1>3, <1>4

\* If somebody waits, there is a highest level at which somebody does.
LEMMA WaitingLevelExists ==
  ASSUME NEW s, WellFormed(s), NEW m \in Mutex, ~ NoWaiters(s, m)
  PROVE  /\ WaitingLevel(s, m) \in Priority
         /\ s.mutex[m].queue[WaitingLevel(s, m)] # <<>>
<1> DEFINE q == s.mutex[m].queue
           top(p) == q[p] # <<>> /\ \A h \in (p + 1)..High : q[h] = <<>>
<1>1. q[1] # <<>> \/ q[2] # <<>> \/ q[3] # <<>>
  BY DEF NoWaiters, Priority, Low, High
<1>2. \E p \in Priority : top(p)
  <2>1. CASE q[3] # <<>>
    BY <2>1 DEF Priority, Low, High
  <2>2. CASE q[3] = <<>> /\ q[2] # <<>>
    <3>1. top(2)
      BY <2>2 DEF High
    <3>2. QED
      BY <3>1 DEF Priority, Low, High
  <2>3. CASE q[3] = <<>> /\ q[2] = <<>>
    <3>1. top(1)
      BY <1>1, <2>3 DEF High
    <3>2. QED
      BY <3>1 DEF Priority, Low, High
  <2>4. QED
    BY <2>1, <2>2, <2>3
<1>3. QED
  BY <1>2 DEF WaitingLevel

\* release() makes the mutex free if nobody waits, and otherwise gives it to a
\* waiter; no other mutex changes.
LEMMA MutexReleaseEffect ==
  ASSUME NEW s, WellFormed(s), NEW m \in Mutex
  PROVE  /\ WellFormed(MutexRelease(s, m))
         /\ SameOtherMutexes(s, MutexRelease(s, m), m)
         /\ NoWaiters(s, m) => /\ MutexRelease(s, m).mutex[m].owner = None
                               /\ NoWaiters(MutexRelease(s, m), m)
         /\ ~ NoWaiters(s, m) => MutexRelease(s, m).mutex[m].owner \in User
<1> DEFINE old   == s.mutex[m].owner
           freed == RemoveMutex(s, old, m)
<1>1. s.mutex[m] \in MutexRecord
  BY DEF WellFormed, Store
<1>2. old \in User \union {None}
  BY <1>1 DEF MutexRecord
<1>3. WellFormed(freed) /\ freed.mutex = s.mutex /\ freed.numMutexes = s.numMutexes
  <2>1. CASE old = None
    BY <2>1, RemoveMutexFromNobody
  <2>2. CASE old \in User
    BY <2>2, Ids, RemoveMutexWF DEF SameButTCBs
  <2>3. QED
    BY <1>2, <2>1, <2>2
<1>4. CASE NoWaiters(s, m)
  <2> DEFINE r == [s.mutex[m] EXCEPT !.owner = None]
             u == MutexRelease(s, m)
  <2>1. r \in MutexRecord /\ r.owner = None /\ r.queue = s.mutex[m].queue
    BY <1>1 DEF MutexRecord
  <2>2. u = WithMutex(freed, m, r)
    <3>1. u = [freed EXCEPT !.mutex[m].owner = None]
      BY <1>4 DEF MutexRelease
    <3> HIDE DEF freed, u
    <3>2. QED
      BY <1>3, <3>1 DEF WellFormed, Store, WithMutex
  <2> HIDE DEF freed, r, u
  <2>3. WellFormed(u) /\ SameOtherMutexes(freed, u, m) /\ u.mutex[m] = r
    BY <1>3, <2>1, <2>2, UpdateMutex
  <2>4. NoWaiters(u, m) /\ u.mutex[m].owner = None
    BY <1>4, <2>1, <2>3 DEF NoWaiters
  <2>5. SameOtherMutexes(s, u, m)
    BY <1>3, <2>3 DEF SameOtherMutexes
  <2>6. QED
    BY <1>4, <2>3, <2>4, <2>5 DEF u
<1>5. CASE ~ NoWaiters(s, m)
  <2> DEFINE p   == WaitingLevel(s, m)
             q   == s.mutex[m].queue[p]
             new == Head(q)
             g   == GrantTo(freed, m, new, p)
             u   == MutexRelease(s, m)
  <2>1. p \in Priority /\ q # <<>>
    BY <1>5, WaitingLevelExists
  <2>2. q \in Seq(User)
    BY <1>1, <2>1 DEF MutexRecord
  <2>3. new \in User /\ Tail(q) \in Seq(User)
    BY <2>1, <2>2, HeadTailProperties
  <2>4. u \in {ScheduleThreadEarly(g, new), RemoveFromWaitlistEarly(g, new)}
    BY <1>5 DEF MutexRelease
  <2>5. WellFormed(g) /\ SameOtherMutexes(s, g, m) /\ g.mutex[m].owner = new
    <3> DEFINE f == [s.mutex[m].queue EXCEPT ![p] = Tail(q)]
               r == [s.mutex[m] EXCEPT !.owner = new, !.queue = f]
               a == WithMutex(freed, m, r)
    <3>1. f \in [Priority -> Seq(User)]
      BY <1>1, <2>1, <2>3 DEF MutexRecord
    <3>2. r \in MutexRecord /\ r.owner = new
      <4> HIDE DEF f, new
      <4> QED
        BY <1>1, <2>3, <3>1 DEF MutexRecord
    <3>3. g = [a EXCEPT !.tcb[new].ticks = 0]
      <4> HIDE DEF freed, new, p
      <4> QED
        BY <1>1, <1>3, <2>1 DEF GrantTo, WellFormed, Store, MutexRecord, WithMutex
    <3> HIDE DEF freed, r, g
    <3>4. WellFormed(a) /\ SameOtherMutexes(freed, a, m) /\ a.mutex[m] = r
      BY <1>3, <3>2, UpdateMutex
    <3> HIDE DEF a
    <3>5. WellFormed(g) /\ SameMutexes(a, g)
      BY <2>3, <3>3, <3>4, Ids, TicksWF
    <3>6. QED
      BY <1>3, <3>2, <3>4, <3>5 DEF SameMutexes, SameOtherMutexes
  <2> HIDE DEF g, new, u
  <2>6. WellFormed(u) /\ SameMutexes(g, u)
    BY <2>3, <2>4, <2>5, ScheduleThreadEarlyWF, RemoveFromWaitlistEarlyWF
  <2>7. SameOtherMutexes(s, u, m) /\ u.mutex[m].owner \in User
    BY <2>3, <2>5, <2>6 DEF SameMutexes, SameOtherMutexes
  <2>8. QED
    BY <1>5, <2>6, <2>7 DEF u
<1>6. QED
  BY <1>4, <1>5

\* A thread that queues for a mutex leaves its owner alone.
LEMMA EnqueueCurrentEffect ==
  ASSUME NEW s, WellFormed(s), s.current # Idle, NEW m \in Mutex
  PROVE  /\ WellFormed(EnqueueCurrent(s, m))
         /\ SameOtherMutexes(s, EnqueueCurrent(s, m), m)
         /\ EnqueueCurrent(s, m).mutex[m].owner = s.mutex[m].owner
         /\ EnqueueCurrent(s, m).current = s.current
<1> DEFINE t == s.current
           b == SetWaitingOnMutex(s, t, TRUE)
           a == AddMutex(b, t, m, TRUE)
           p == s.tcb[t].prio
           q == s.mutex[m].queue
           f == [q EXCEPT ![p] = Append(q[p], t)]
           r == [s.mutex[m] EXCEPT !.queue = f]
           u == EnqueueCurrent(s, m)
<1>1. t \in User /\ t \in Thread
  BY DEF WellFormed, Store, User
<1>2. p \in Priority /\ s.mutex[m] \in MutexRecord
  BY <1>1 DEF WellFormed, Store
<1>3. WellFormed(b) /\ SameButTCBs(s, b)
  BY <1>1, SetWaitingOnMutexWF
<1>4. WellFormed(a) /\ SameButTCBs(s, a)
  <2> HIDE DEF b
  <2>1. WellFormed(a) /\ SameButTCBs(b, a)
    BY <1>1, <1>3, AddMutexWF
  <2>2. QED
    BY <1>3, <2>1 DEF SameButTCBs
<1>5. f \in [Priority -> Seq(User)]
  BY <1>1, <1>2 DEF MutexRecord
<1>6. r \in MutexRecord /\ r.owner = s.mutex[m].owner
  <2> HIDE DEF f
  <2> QED
    BY <1>2, <1>5 DEF MutexRecord
<1>7. u = WithMutex(a, m, r)
  <2>1. u = [a EXCEPT !.mutex[m].queue[p] = Append(@, t)]
    BY DEF EnqueueCurrent
  <2> HIDE DEF a, u, p, t
  <2>2. QED
    BY <1>2, <1>4, <2>1 DEF WellFormed, Store, MutexRecord, WithMutex, SameButTCBs
<1> HIDE DEF a, r, u
<1>8. /\ WellFormed(u) /\ SameOtherMutexes(a, u, m) /\ u.mutex[m] = r
      /\ u.current = a.current
  BY <1>4, <1>6, <1>7, UpdateMutex
<1>9. SameOtherMutexes(s, u, m) /\ u.current = s.current
  BY <1>4, <1>8 DEF SameButTCBs, SameOtherMutexes
<1>10. QED
  BY <1>6, <1>8, <1>9 DEF u

\* lock() gives a free mutex to the caller and never changes the owner of
\* another one, so the mutex has an owner afterwards.
LEMMA MutexLockEffect ==
  ASSUME NEW s, WellFormed(s), s.current # Idle, NEW m \in Mutex,
         NEW n \in Nat \union {ImmediateTimeout}
  PROVE  /\ WellFormed(MutexLock(s, m, n))
         /\ SameOtherMutexes(s, MutexLock(s, m, n), m)
         /\ s.mutex[m].owner = None => MutexLock(s, m, n).mutex[m].owner = s.current
         /\ s.mutex[m].owner # None =>
              MutexLock(s, m, n).mutex[m].owner = s.mutex[m].owner
<1> DEFINE u == MutexLock(s, m, n)
<1>1. s.current \in User /\ s.current \in Thread
  BY DEF WellFormed, Store, User
<1>2. CASE s.mutex[m].owner = None
  <2> DEFINE a == AddMutex(s, s.current, m, FALSE)
             r == [s.mutex[m] EXCEPT !.owner = s.current]
  <2>1. WellFormed(a) /\ SameButTCBs(s, a)
    BY <1>1, AddMutexWF
  <2>2. r \in MutexRecord /\ r.owner = s.current
    BY <1>1 DEF WellFormed, Store, MutexRecord
  <2>3. u = [a EXCEPT !.mutex[m].owner = s.current]
    BY <1>2 DEF MutexLock
  <2> HIDE DEF a, u
  <2>4. u = WithMutex(a, m, r)
    BY <2>1, <2>3 DEF WellFormed, Store, WithMutex, SameButTCBs
  <2> HIDE DEF r
  <2>5. WellFormed(u) /\ SameOtherMutexes(a, u, m) /\ u.mutex[m] = r
    BY <2>1, <2>2, <2>4, UpdateMutex
  <2>6. SameOtherMutexes(s, u, m)
    BY <2>1, <2>5 DEF SameButTCBs, SameOtherMutexes
  <2>7. QED
    BY <1>1, <1>2, <2>2, <2>5, <2>6 DEF u
<1>3. CASE s.mutex[m].owner # None /\ n = ImmediateTimeout
  BY <1>3 DEF MutexLock, SameOtherMutexes
<1>4. CASE s.mutex[m].owner # None /\ n # ImmediateTimeout
  <2> DEFINE e == EnqueueCurrent(s, m)
             k == IF n = InfiniteTimeout THEN Forever ELSE n
  <2>1. /\ WellFormed(e) /\ SameOtherMutexes(s, e, m)
        /\ e.mutex[m].owner = s.mutex[m].owner /\ e.current = s.current
    BY EnqueueCurrentEffect
  <2>2. k \in Nat \union {Forever}
    BY <1>4
  <2>3. u = SleepCurrentThread(e, k)
    BY <1>4 DEF MutexLock
  <2> HIDE DEF e, k, u
  <2>4. WellFormed(u) /\ SameMutexes(e, u)
    BY <2>1, <2>2, <2>3, SleepCurrentThreadWF
  <2>5. QED
    BY <1>4, <2>1, <2>4 DEF SameMutexes, SameOtherMutexes, u
<1>5. QED
  BY <1>2, <1>3, <1>4

\* deleteFromVM() leaves a free mutex with empty queues.
LEMMA DeleteFromVMEffect ==
  ASSUME NEW s, WellFormed(s), NEW m \in Mutex
  PROVE  /\ WellFormed(DeleteFromVM(s, m))
         /\ SameOtherMutexes(s, DeleteFromVM(s, m), m)
         /\ DeleteFromVM(s, m).mutex[m].owner = None
         /\ NoWaiters(DeleteFromVM(s, m), m)
<1> DEFINE r == [owner |-> None, deleted |-> TRUE, queue |-> [p \in Priority |-> <<>>]]
           u == DeleteFromVM(s, m)
<1>1. r \in MutexRecord /\ r.owner = None /\ \A p \in Priority : r.queue[p] = <<>>
  BY DEF MutexRecord
<1>2. u = WithMutex(s, m, r)
  BY DEF WellFormed, Store, WithMutex, DeleteFromVM
<1> HIDE DEF r, u
<1>3. WellFormed(u) /\ SameOtherMutexes(s, u, m) /\ u.mutex[m] = r
  BY <1>1, <1>2, UpdateMutex
<1>4. QED
  BY <1>1, <1>3 DEF NoWaiters, u

\* insert(Mutex) adds a free mutex under the next id.
LEMMA InsertMutexEffect ==
  ASSUME NEW s, WellFormed(s), s.numMutexes \in Mutex, NEW junk \in BOOLEAN
  PROVE  LET u == InsertMutex(s, junk)
             m == s.numMutexes
         IN  /\ WellFormed(u)
             /\ \A k \in Mutex \ {m} : u.mutex[k] = s.mutex[k]
             /\ u.mutex[m].owner = None /\ NoWaiters(u, m)
             /\ u.numMutexes = m + 1
<1> DEFINE m == s.numMutexes
           r == [owner |-> None, deleted |-> junk, queue |-> [p \in Priority |-> <<>>]]
           a == WithMutex(s, m, r)
           u == InsertMutex(s, junk)
<1>1. r \in MutexRecord /\ r.owner = None /\ \A p \in Priority : r.queue[p] = <<>>
  BY DEF MutexRecord
<1> HIDE DEF r
<1>2. WellFormed(a) /\ SameOtherMutexes(s, a, m) /\ a.mutex[m] = r
  BY <1>1, UpdateMutex
<1>3. u = [a EXCEPT !.numMutexes = m + 1]
  BY DEF InsertMutex, WithMutex, WellFormed, Store, r
<1>4. m + 1 \in Mutex \union {MaxMutex + 1}
  BY IdsAssumption DEF Mutex
<1> HIDE DEF a, u
<1>5. /\ u \in Store /\ u.mutex = a.mutex /\ u.numMutexes = m + 1 /\ u.tcb = a.tcb
      /\ u.ready = a.ready /\ u.numThreads = a.numThreads
  BY <1>2, <1>3, <1>4 DEF WellFormed, Store
<1>6. WellFormed(u)
  BY <1>2, <1>5 DEF WellFormed
<1>7. QED
  BY <1>1, <1>2, <1>5, <1>6 DEF SameOtherMutexes, NoWaiters, u

=============================================================================
