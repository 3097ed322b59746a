---------------------------- MODULE ThreadStore ----------------------------
(***************************************************************************)
(* The scheduler of UtilityFunctions.cpp: class TCB and class ThreadStore. *)
(*                                                                         *)
(* The C++ keeps everything in one object, the ThreadStore singleton, and  *)
(* its methods call one another before they reach the context switch.      *)
(* Here the singleton is one record, a Store, and every method is an       *)
(* operator from the Store it finds to the Store it leaves: a method that  *)
(* calls another is the composition of the two operators.  Signals are     *)
(* blocked while a method runs, so a composition is one step of the        *)
(* system; VirtualMachine.tla says which steps there are.                  *)
(*                                                                         *)
(* Thread ids and mutex ids are handed out in ascending order from 0:      *)
(* VMStart creates the main thread, then the idle thread.                  *)
(***************************************************************************)
EXTENDS Integers, Sequences, SequencesExt

CONSTANTS
  MaxThread,      \* bound: the highest thread id the application creates
  MaxMutex        \* bound: the highest mutex id the application creates

ASSUME IdsAssumption == MaxThread \in Nat /\ MaxThread >= 1 /\ MaxMutex \in Nat

Thread == 0..MaxThread
Mutex  == 0..MaxMutex
Main   == 0
Idle   == 1

\* Every thread but the idle one; only these ever sit in the wait list, in the
\* dead list or in a mutex's queues.
User == Thread \ {Idle}

ThreadState == {"DEAD", "RUNNING", "READY", "WAITING"}

Low    == 1
Normal == 2
High   == 3
Priority == Low..High

None    == -1    \* a NULL owner
Forever == -1    \* ticksToSleep = (unsigned)(-1)

\* MutexInfo: a mutex the thread holds or has queued for.
Entry == [mutex : Mutex, waiting : BOOLEAN]

TCB == [state   : ThreadState,
        prio    : 0..High,
        ticks   : Nat \union {Forever},
        io      : BOOLEAN,
        deleted : BOOLEAN,
        entries : Seq(Entry)]

\* A free mutex has owner None; queue[p] is priorityLists[p - 1].
MutexRecord == [owner   : User \union {None},
                deleted : BOOLEAN,
                queue   : [Priority -> Seq(User)]]

\* deadList is only ever searched and never erased from, so a set stands for it.
Store == [tcb        : [Thread -> TCB],
          ready      : [0..High -> Seq(Thread)],
          waitList   : Seq(User),
          deadList   : SUBSET User,
          current    : Thread,
          numThreads : Thread \union {MaxThread + 1},
          mutex      : [Mutex -> MutexRecord],
          numMutexes : Mutex \union {MaxMutex + 1}]

\* The idle thread sits alone in the list of level 0, for ever, so schedule()
\* always finds a thread.  Ids 0 and 1 are taken before the first VMThreadCreate.
WellFormed(s) ==
  /\ s \in Store
  /\ s.ready[0] = <<Idle>>
  /\ \A p \in Priority : s.ready[p] \in Seq(User)
  /\ \A t \in User : s.tcb[t].prio \in Priority
  /\ s.numThreads > Idle

-----------------------------------------------------------------------------
\* class TCB

NewTCB(state, prio) ==
  [state |-> state, prio |-> prio, ticks |-> 0, io |-> FALSE,
   deleted |-> FALSE, entries |-> <<>>]

SetState(s, t, x) == [s EXCEPT !.tcb[t].state = x]

\* Mutant of Sleep: the ticks are not stored.
SleepForgetsTicks(s, t, n) == [s EXCEPT !.tcb[t].state = "WAITING"]

Sleep(s, t, n) == [s EXCEPT !.tcb[t].state = "WAITING", !.tcb[t].ticks = n]

AddMutex(s, t, m, w) ==
  [s EXCEPT !.tcb[t].entries = Append(@, [mutex |-> m, waiting |-> w])]

IsFirstEntry(q, m, i) ==
  /\ i \in 1..Len(q)
  /\ q[i].mutex = m
  /\ \A j \in 1..(i - 1) : q[j].mutex # m

\* Mutant of RemoveMutex: the entry stays.
RemoveMutexNever(s, t, m) == s

\* removeMutex erases the first entry for m, if there is one.
RemoveMutex(s, t, m) ==
  LET q == s.tcb[t].entries
  IN  IF \E i \in 1..Len(q) : IsFirstEntry(q, m, i)
      THEN [s EXCEPT !.tcb[t].entries =
              RemoveAt(q, CHOOSE i \in 1..Len(q) : IsFirstEntry(q, m, i))]
      ELSE s

\* The waiting flag of a thread is the flag of its most recent entry.
SetWaitingOnMutex(s, t, w) ==
  LET n == Len(s.tcb[t].entries)
  IN  IF n = 0 THEN s ELSE [s EXCEPT !.tcb[t].entries[n].waiting = w]

IsWaitingOnMutex(s, t) ==
  LET q == s.tcb[t].entries IN Len(q) # 0 /\ q[Len(q)].waiting

WaitingMutex(s, t) ==
  LET q == s.tcb[t].entries IN q[Len(q)].mutex

-----------------------------------------------------------------------------
\* class ThreadStore: the scheduler

PushReady(s, t) == [s EXCEPT !.ready[s.tcb[t].prio] = Append(@, t)]

NothingReady(s) == \A p \in Priority : s.ready[p] = <<>>

\* Mutant of NextLevel: the levels are tried from the lowest up.
NextLevelUpwards(s, p) ==
  IF s.ready[p] # <<>> THEN p
  ELSE IF NothingReady(s) THEN 0
  ELSE CHOOSE l \in Priority :
         s.ready[l] # <<>> /\ \A h \in Low..(l - 1) : s.ready[h] = <<>>

\* schedule() tries level p first, then the others from the highest down; level
\* 0 holds the idle thread alone.
NextLevel(s, p) ==
  IF s.ready[p] # <<>> THEN p
  ELSE CHOOSE l \in 0..High :
         /\ s.ready[l] # <<>>
         /\ \A h \in (l + 1)..High : s.ready[h] = <<>>

\* Mutants of PutAway: a preempted thread is dropped; a dead one is run again.
PutAwayLosesPreempted(s) ==
  IF s.current # Idle /\ s.tcb[s.current].state = "WAITING"
  THEN [s EXCEPT !.waitList = Append(@, s.current)] ELSE s

PutAwayRequeuesDead(s) ==
  IF s.current = Idle THEN s
  ELSE IF s.tcb[s.current].state = "WAITING"
  THEN [s EXCEPT !.waitList = Append(@, s.current)]
  ELSE PushReady(SetState(s, s.current, "READY"), s.current)

\* The outgoing thread goes where its state says: a waiting one to the wait
\* list, a running or ready one to the back of its ready list, a dead one and
\* the idle thread nowhere.
PutAway(s) ==
  LET cur == s.current
      st  == s.tcb[cur].state
  IN  IF cur = Idle \/ st = "DEAD" THEN s
      ELSE IF st = "WAITING" THEN [s EXCEPT !.waitList = Append(@, cur)]
      ELSE PushReady(SetState(s, cur, "READY"), cur)

SwitchToNewThread(s, next) ==
  [PutAway(SetState(s, next, "RUNNING")) EXCEPT !.current = next]

\* Mutant of PopReady: the idle list is treated like the others.
PopReadyDropsIdle(s, l) == [s EXCEPT !.ready[l] = Tail(@)]

\* The idle thread is never popped.
PopReady(s, l) == IF l = 0 THEN s ELSE [s EXCEPT !.ready[l] = Tail(@)]

Schedule(s, p) ==
  IF NothingReady(s) /\ s.tcb[s.current].state = "RUNNING" THEN s
  ELSE LET l == NextLevel(s, p)
       IN  SwitchToNewThread(PopReady(s, l), Head(s.ready[l]))

-----------------------------------------------------------------------------
\* class ThreadStore: sleeping and waking

SleepCurrentThread(s, n) ==
  Schedule(Sleep(s, s.current, n),
           IF n = 0 THEN s.tcb[s.current].prio ELSE High)

\* Mutants of WaitCurrentThreadOnIO: the flag is not set; the wait has no end.
WaitOnIOForgetsFlag(s) == Schedule(SetState(s, s.current, "WAITING"), High)

WaitOnIOForever(s) ==
  Schedule([Sleep(s, s.current, Forever) EXCEPT !.tcb[s.current].io = TRUE], High)

WaitCurrentThreadOnIO(s) ==
  Schedule([SetState(s, s.current, "WAITING") EXCEPT !.tcb[s.current].io = TRUE], High)

IsFirstAt(q, t, i) ==
  /\ i \in 1..Len(q)
  /\ q[i] = t
  /\ \A j \in 1..(i - 1) : q[j] # t

OnWaitList(s, t) == ~ s.tcb[t].io /\ \E i \in 1..Len(s.waitList) : IsFirstAt(s.waitList, t, i)

\* Mutants of RemoveFromWaitlistEarly: the thread is left on the wait list, or
\* taken off it and put nowhere; it is made ready wherever it was.
RemoveFromWaitlistEarlyLeaves(s, t) ==
  IF OnWaitList(s, t) THEN PushReady(SetState(s, t, "READY"), t) ELSE s

RemoveFromWaitlistEarlyLoses(s, t) ==
  IF OnWaitList(s, t)
  THEN [SetState(s, t, "READY") EXCEPT !.waitList = SelectSeq(@, LAMBDA u : u # t)]
  ELSE s

RemoveFromWaitlistEarlyBlindly(s, t) ==
  [PushReady(SetState(Sleep(s, t, 0), t, "READY"), t)
     EXCEPT !.waitList = SelectSeq(@, LAMBDA u : u # t)]

\* A thread that a release has made the owner leaves the wait list at once,
\* unless it waits for I/O.
RemoveFromWaitlistEarly(s, t) ==
  IF OnWaitList(s, t)
  THEN LET i == CHOOSE i \in 1..Len(s.waitList) : IsFirstAt(s.waitList, t, i)
       IN  [PushReady(SetState(Sleep(s, t, 0), t, "READY"), t)
              EXCEPT !.waitList = RemoveAt(s.waitList, i)]
  ELSE s

ScheduleThreadEarly(s, t) ==
  IF OnWaitList(s, t) THEN Schedule(RemoveFromWaitlistEarly(s, t), High) ELSE s

-----------------------------------------------------------------------------
\* class ThreadStore: the life of a thread

\* insert(TCB) of a thread that VMThreadCreate made: its state is DEAD.
InsertThread(s, prio) ==
  [s EXCEPT !.tcb[s.numThreads] = NewTCB("DEAD", prio),
            !.deadList = @ \union {s.numThreads},
            !.numThreads = @ + 1]

\* findThreadByID never looks in the idle list, and overlooks a thread marked
\* deleted only while no other list holds it.
Found(s, t) ==
  \/ t = s.current
  \/ \E p \in Priority : Contains(s.ready[p], t)
  \/ Contains(s.waitList, t)
  \/ t \in s.deadList /\ ~ s.tcb[t].deleted

\* The thread stays in deadList, and its ticks, its flags and its context are
\* what they were when it died.
ActivateDeadThread(s, t) ==
  IF t \notin s.deadList THEN s
  ELSE LET a == PushReady(SetState(s, t, "READY"), t)
       IN  IF s.tcb[t].prio > s.tcb[s.current].prio THEN Schedule(a, High) ELSE a

DeleteDeadThread(s, t) ==
  Schedule(IF t \in s.deadList THEN [s EXCEPT !.tcb[t].deleted = TRUE] ELSE s, High)

\* The end of terminate(), after the loop of releaseMutexes().
MarkDead(s, t) ==
  Schedule([SetState(s, t, "DEAD") EXCEPT !.deadList = @ \union {t}], High)

=============================================================================
