----------------------- MODULE VirtualMachine_proofs -----------------------
(***************************************************************************)
(* Invariants of VirtualMachine.tla that hold for any number of threads    *)
(* and mutexes, whatever the application does.                             *)
(***************************************************************************)
EXTENDS VMCorrectness, Mutexes_proofs

\* The part of TypeOK about the frames.
FramesOK(f) ==
  /\ f \in [Thread -> Frame]
  /\ \A t \in Thread :
       /\ f[t].at = "kill" => f[t].arg \in User
       /\ f[t].at \in {"lock", "trylock"} => f[t].arg \in Mutex

\* TypeOK, one conjunct per part of the state.
LEMMA TypeParts ==
  TypeOK <=> /\ WellFormed(store) /\ FramesOK(frame)
             /\ masked \in BOOLEAN /\ up \in BOOLEAN
             /\ pending \in [Thread -> Nat]
             /\ reply \in [Thread -> Thread \union {None}] /\ held \in [Thread -> SUBSET Mutex]
             /\ owed \in [Thread -> Nat]
BY DEF TypeOK, FramesOK

\* Giving one thread a frame that names what its position needs.
LEMMA SetFrame ==
  ASSUME NEW f, FramesOK(f), NEW t \in Thread, NEW r \in Frame,
         r.at = "kill" => r.arg \in User,
         r.at \in {"lock", "trylock"} => r.arg \in Mutex
  PROVE  FramesOK([f EXCEPT ![t] = r])
BY DEF FramesOK

\* Threads, mutexes and the current thread have the types frames need.
LEMMA Ranges ==
  ASSUME TypeOK
  PROVE  /\ cur \in Thread /\ cur \in {store.current}
         /\ cur # Idle => cur \in User
         /\ Thread \subseteq Nat /\ Mutex \subseteq Nat
         /\ frame[cur] \in Frame
BY IdsAssumption DEF TypeOK, WellFormed, Store, cur, User, Thread, Mutex

\* A call that enters the kernel keeps the types of what it sets.
LEMMA EnterType ==
  ASSUME TypeOK, NEW at, NEW arg, NEW s,
         WellFormed(s), Enter(at, arg, s),
         at \in {"ret", "sleep", "io", "kill", "lock", "trylock"},
         arg \in Nat,
         at = "kill" => arg \in User,
         at \in {"lock", "trylock"} => arg \in Mutex
  PROVE  /\ WellFormed(store') /\ FramesOK(frame')
         /\ masked' \in BOOLEAN /\ up' \in BOOLEAN
<1> DEFINE r == [at |-> at, sig |-> masked, arg |-> arg]
<1>1. cur \in Thread /\ Thread \subseteq Nat /\ Mutex \subseteq Nat /\ User \subseteq Thread
  BY Ranges, Ids
<1>2. masked \in BOOLEAN /\ up \in BOOLEAN
  BY DEF TypeOK
<1>4. at \in {"start", "app", "ret", "sleep", "io", "lock", "trylock", "kill", "timer"}
  OBVIOUS
<1>5. r \in Frame /\ r.at = at /\ r.arg = arg
  BY <1>2, <1>4 DEF Frame
<1>6. r.at = "kill" => r.arg \in User
  BY <1>5
<1>7. r.at \in {"lock", "trylock"} => r.arg \in Mutex
  BY <1>5
<1>8. FramesOK(frame) /\ frame' = [frame EXCEPT ![cur] = r]
  BY DEF TypeOK, FramesOK, Enter
<1> HIDE DEF r
<1>9. FramesOK(frame')
  BY <1>1, <1>5, <1>6, <1>7, <1>8, SetFrame
<1>10. QED
  BY <1>2, <1>9 DEF Enter

\* findThreadByID finds the idle thread only while it is current.
LEMMA FoundIsUser ==
  ASSUME NEW s, WellFormed(s), s.current # Idle, NEW t \in Thread, Found(s, t)
  PROVE  t \in User
<1>1. s.deadList \subseteq User /\ s.waitList \in Seq(User)
  BY DEF WellFormed, Store
<1>2. \A q \in Seq(User) : Contains(q, t) => t \in User
  BY ElementOfSeq, LenProperties DEF Contains
<1>3. CASE t = s.current
  BY <1>3 DEF User
<1>4. CASE \E p \in Priority : Contains(s.ready[p], t)
  BY <1>2, <1>4 DEF WellFormed
<1>5. CASE Contains(s.waitList, t)
  BY <1>1, <1>2, <1>5
<1>6. CASE t \in s.deadList
  BY <1>1, <1>6
<1>7. QED
  BY <1>3, <1>4, <1>5, <1>6 DEF Found

-----------------------------------------------------------------------------
\* One lemma per kind of step: what it does to the Store, the frames and the
\* rest keeps TypeOK.

\* Calls that are over in one step.
LEMMA FinishType ==
  ASSUME TypeOK, NEW s, WellFormed(s), Finish(s)
  PROVE  TypeOK'
BY DEF TypeOK, Finish

\* Calls whose frame names nothing.
LEMMA ReturningCallType ==
  ASSUME TypeOK, NEW at \in {"ret", "sleep", "io"}, NEW s, WellFormed(s),
         Enter(at, 0, s),
         pending' \in [Thread -> Nat], reply' \in [Thread -> Thread \union {None}],
         held' \in [Thread -> SUBSET Mutex],
         owed' \in [Thread -> Nat]
  PROVE  TypeOK'
<1>1. /\ WellFormed(store') /\ FramesOK(frame')
      /\ masked' \in BOOLEAN /\ up' \in BOOLEAN
  BY EnterType
<1>2. QED
  BY <1>1 DEF TypeOK, FramesOK

\* The calls of the thread interface.
LEMMA ThreadCallType ==
  ASSUME TypeOK,
         \/ VMThreadCreate \/ VMThreadYield \/ VMFile
         \/ \E t \in Thread : VMThreadActivate(t) \/ VMThreadDelete(t) \/ VMThreadTerminate(t)
         \/ \E n \in Timeouts : VMThreadSleep(n)
  PROVE  TypeOK'
<1>1. /\ WellFormed(store) /\ FramesOK(frame) /\ pending \in [Thread -> Nat]
      /\ reply \in [Thread -> Thread \union {None}]
      /\ held \in [Thread -> SUBSET Mutex] /\ owed \in [Thread -> Nat]
  BY TypeParts
<1>2. cur \in Thread /\ Thread \subseteq Nat
  BY Ranges
<1>3. CASE VMThreadCreate
  <2>1. PICK prio \in Priorities : Finish(InsertThread(store, prio))
    BY <1>3 DEF VMThreadCreate
  <2>2. WellFormed(InsertThread(store, prio))
    BY <1>1, <1>3, PrioritiesAssumption, InsertThreadWF DEF VMThreadCreate
  <2>3. QED
    BY <2>1, <2>2, FinishType
<1>4. CASE VMThreadYield
  <2>1. /\ Enter("sleep", 0, SleepCurrentThread(store, 0)) /\ store.current # Idle
        /\ owed' = [owed EXCEPT ![cur] = 0] /\ pending' = pending /\ reply' = reply /\ held' = held
    BY <1>4 DEF VMThreadYield, Calling, cur
  <2>2. WellFormed(SleepCurrentThread(store, 0))
    BY <1>1, <2>1, SleepCurrentThreadWF
  <2>3. owed' \in [Thread -> Nat]
    BY <1>1, <1>2, <2>1
  <2>4. QED
    BY <1>1, <2>1, <2>2, <2>3, ReturningCallType
<1>5. CASE VMFile
  <2>1. /\ Enter("io", 0, WaitCurrentThreadOnIO(store))
        /\ pending' = [pending EXCEPT ![cur] = @ + 1] /\ reply' = reply
        /\ held' = held /\ owed' = owed
    BY <1>5 DEF VMFile
  <2>2. WellFormed(WaitCurrentThreadOnIO(store))
    BY <1>1, WaitCurrentThreadOnIOWF
  <2>3. pending' \in [Thread -> Nat]
    BY <1>1, <1>2, <2>1
  <2>4. QED
    BY <1>1, <2>1, <2>2, <2>3, ReturningCallType
<1>6. CASE \E t \in Thread : VMThreadActivate(t)
  <2>1. PICK t \in Thread : VMThreadActivate(t)
    BY <1>6
  <2>2. /\ Enter("ret", 0, ActivateDeadThread(store, t))
        /\ pending' = pending /\ reply' = reply /\ held' = held /\ owed' = owed
    BY <2>1 DEF VMThreadActivate
  <2>3. WellFormed(ActivateDeadThread(store, t))
    BY <1>1, ActivateDeadThreadWF
  <2>4. QED
    BY <1>1, <2>2, <2>3, ReturningCallType
<1>7. CASE \E t \in Thread : VMThreadDelete(t)
  <2>1. PICK t \in Thread : VMThreadDelete(t)
    BY <1>7
  <2>2. /\ Enter("ret", 0, DeleteDeadThread(store, t))
        /\ pending' = pending /\ reply' = reply /\ held' = held /\ owed' = owed
    BY <2>1 DEF VMThreadDelete
  <2>3. WellFormed(DeleteDeadThread(store, t))
    BY <1>1, DeleteDeadThreadWF
  <2>4. QED
    BY <1>1, <2>2, <2>3, ReturningCallType
<1>8. CASE \E t \in Thread : VMThreadTerminate(t)
  <2>1. PICK t \in Thread : VMThreadTerminate(t)
    BY <1>8
  <2>2. /\ Enter("kill", t, store) /\ Found(store, t) /\ cur # Idle
        /\ pending' = pending /\ reply' = reply /\ held' = held /\ owed' = owed
    BY <2>1 DEF VMThreadTerminate, Calling
  <2>3. t \in User
    BY <1>1, <2>2, FoundIsUser DEF cur
  <2>4. /\ WellFormed(store') /\ FramesOK(frame')
        /\ masked' \in BOOLEAN /\ up' \in BOOLEAN
    BY <1>1, <1>2, <2>2, <2>3, EnterType
  <2>5. QED
    BY <1>1, <2>2, <2>4 DEF TypeOK, FramesOK
<1>9. CASE \E n \in Timeouts : VMThreadSleep(n)
  <2>1. PICK n \in Timeouts : VMThreadSleep(n)
    BY <1>9
  <2>2. /\ Enter("sleep", 0, SleepCurrentThread(store, n)) /\ store.current # Idle
        /\ owed' = [owed EXCEPT ![cur] = n] /\ pending' = pending /\ reply' = reply /\ held' = held
    BY <2>1 DEF VMThreadSleep, Calling, cur
  <2>3. n \in Nat
    BY TimeoutsAssumption
  <2>4. WellFormed(SleepCurrentThread(store, n))
    BY <1>1, <2>2, <2>3, SleepCurrentThreadWF
  <2>5. owed' \in [Thread -> Nat]
    BY <1>1, <1>2, <2>2, <2>3
  <2>6. QED
    BY <1>1, <2>2, <2>4, <2>5, ReturningCallType
<1>10. QED
  BY <1>3, <1>4, <1>5, <1>6, <1>7, <1>8, <1>9

\* The three forms of an acquire, as one timeout.
LEMMA AcquireTimeout ==
  /\ Timeouts \subseteq Nat
  /\ InfiniteTimeout \in Nat /\ ImmediateTimeout \in {ImmediateTimeout}
BY TimeoutsAssumption DEF InfiniteTimeout

\* The calls of the mutex interface.
LEMMA MutexCallType ==
  ASSUME TypeOK,
         \/ VMMutexCreate
         \/ \E m \in Mutex : \/ VMMutexDelete(m) \/ VMMutexAcquire(m)
                             \/ VMMutexRelease(m) \/ VMMutexReleaseUnowned(m)
  PROVE  TypeOK'
<1>1. /\ WellFormed(store) /\ FramesOK(frame) /\ pending \in [Thread -> Nat]
      /\ reply \in [Thread -> Thread \union {None}]
      /\ held \in [Thread -> SUBSET Mutex] /\ owed \in [Thread -> Nat]
  BY TypeParts
<1>2. cur \in Thread /\ Mutex \subseteq Nat
  BY Ranges
<1>3. CASE VMMutexCreate
  <2>1. PICK junk \in FreshFlags : Finish(InsertMutex(store, junk))
    BY <1>3 DEF VMMutexCreate
  <2>2. WellFormed(InsertMutex(store, junk))
    BY <1>1, <1>3, FreshFlagsAssumption, InsertMutexEffect DEF VMMutexCreate
  <2>3. QED
    BY <2>1, <2>2, FinishType
<1>4. CASE \E m \in Mutex : VMMutexDelete(m)
  <2>1. PICK m \in Mutex : VMMutexDelete(m)
    BY <1>4
  <2>2. Finish(DeleteFromVM(store, m))
    BY <2>1 DEF VMMutexDelete
  <2>3. WellFormed(DeleteFromVM(store, m))
    BY <1>1, DeleteFromVMEffect
  <2>4. QED
    BY <2>2, <2>3, FinishType
<1>5. CASE \E m \in Mutex : VMMutexAcquire(m)
  <2>1. PICK m \in Mutex : VMMutexAcquire(m)
    BY <1>5
  <2>2. PICK n \in Nat \union {ImmediateTimeout}, at \in {"lock", "trylock"} :
          Acquire(m, n, at)
    BY <2>1, AcquireTimeout DEF VMMutexAcquire
  <2>3. /\ Enter(at, m, MutexLock(store, m, n)) /\ store.current # Idle
        /\ pending' = pending /\ reply' = reply /\ held' = held /\ owed' = owed
    BY <2>1, <2>2 DEF VMMutexAcquire, Acquire, Calling, cur
  <2>4. WellFormed(MutexLock(store, m, n))
    BY <1>1, <2>3, MutexLockEffect
  <2>5. /\ WellFormed(store') /\ FramesOK(frame')
        /\ masked' \in BOOLEAN /\ up' \in BOOLEAN
    BY <1>2, <2>3, <2>4, EnterType
  <2>6. QED
    BY <1>1, <2>3, <2>5 DEF TypeOK, FramesOK
<1>6. CASE \E m \in Mutex : VMMutexRelease(m)
  <2>1. PICK m \in Mutex : VMMutexRelease(m)
    BY <1>6
  <2>2. /\ Enter("ret", 0, MutexRelease(store, m))
        /\ held' = [held EXCEPT ![cur] = @ \ {m}]
        /\ pending' = pending /\ reply' = reply /\ owed' = owed
    BY <2>1 DEF VMMutexRelease
  <2>3. WellFormed(MutexRelease(store, m))
    BY <1>1, MutexReleaseEffect
  <2>4. held' \in [Thread -> SUBSET Mutex]
    BY <1>1, <1>2, <2>2
  <2>5. QED
    BY <1>1, <2>2, <2>3, <2>4, ReturningCallType
<1>7. CASE \E m \in Mutex : VMMutexReleaseUnowned(m)
  <2>1. PICK m \in Mutex : VMMutexReleaseUnowned(m)
    BY <1>7
  <2>2. masked' = TRUE /\ UNCHANGED <<store, frame, up, pending, reply, held, owed>>
    BY <2>1 DEF VMMutexReleaseUnowned
  <2>3. QED
    BY <2>2 DEF TypeOK
<1>8. QED
  BY <1>3, <1>4, <1>5, <1>6, <1>7

\* The start of an interrupt, and the file callback.
Interrupt ==
  \/ TimerInterrupt
  \/ \E t \in Thread : MachineReplySignalHandler(t)
  \/ MachineFileIOCallback

\* The handlers that interrupt the application keep the type.
LEMMA InterruptType ==
  ASSUME TypeOK, Interrupt
  PROVE  TypeOK'
<1>1. /\ WellFormed(store) /\ FramesOK(frame) /\ pending \in [Thread -> Nat]
      /\ reply \in [Thread -> Thread \union {None}]
      /\ held \in [Thread -> SUBSET Mutex] /\ owed \in [Thread -> Nat]
      /\ masked \in BOOLEAN /\ up \in BOOLEAN
  BY TypeParts
<1>2. cur \in Thread
  BY Ranges
<1>3. CASE TimerInterrupt
  <2> DEFINE r == [at |-> "timer", sig |-> FALSE, arg |-> 1]
  <2>1. /\ frame' = [frame EXCEPT ![cur] = r] /\ masked' = TRUE
        /\ store' = store /\ up' = up /\ pending' = pending /\ reply' = reply /\ held' = held
        /\ owed' = [t \in Thread |-> IF owed[t] > 0 THEN owed[t] - 1 ELSE 0]
    BY <1>3 DEF TimerInterrupt
  <2>2. r \in Frame /\ r.at \notin {"kill", "lock", "trylock"}
    BY DEF Frame
  <2> HIDE DEF r
  <2>3. FramesOK(frame')
    BY <1>1, <1>2, <2>1, <2>2, SetFrame
  <2>4. owed' \in [Thread -> Nat]
    <3>1. \A t \in Thread : (IF owed[t] > 0 THEN owed[t] - 1 ELSE 0) \in Nat
      BY <1>1
    <3>2. QED
      BY <2>1, <3>1
  <2>5. QED
    BY <1>1, <2>1, <2>3, <2>4 DEF TypeOK, FramesOK
<1>4. CASE \E t \in Thread : MachineReplySignalHandler(t)
  <2>1. PICK t \in Thread : MachineReplySignalHandler(t)
    BY <1>4
  <2>2. /\ pending[t] > 0 /\ pending' = [pending EXCEPT ![t] = @ - 1]
        /\ reply' = [reply EXCEPT ![cur] = t]
        /\ UNCHANGED <<store, frame, masked, up, held, owed>>
    BY <2>1 DEF MachineReplySignalHandler
  <2>3. pending' \in [Thread -> Nat] /\ reply' \in [Thread -> Thread \union {None}]
    BY <1>1, <1>2, <2>2
  <2>4. QED
    BY <1>1, <2>2, <2>3 DEF TypeOK, FramesOK
<1>5. CASE MachineFileIOCallback
  <2>1. /\ reply[cur] # None
        /\ store' = [store EXCEPT !.tcb[reply[cur]].io = FALSE]
        /\ reply' = [reply EXCEPT ![cur] = None]
        /\ UNCHANGED <<frame, masked, up, pending, held, owed>>
    BY <1>5 DEF MachineFileIOCallback
  <2>2. reply[cur] \in Thread
    BY <1>1, <1>2, <2>1
  <2>3. WellFormed(store')
    BY <1>1, <2>1, <2>2, IOFlagWF
  <2>4. reply' \in [Thread -> Thread \union {None}]
    BY <1>1, <2>1
  <2>5. QED
    BY <1>1, <2>1, <2>3, <2>4 DEF TypeOK, FramesOK
<1>6. QED
  BY <1>3, <1>4, <1>5 DEF Interrupt

\* The current thread goes back to the application.
LEMMA ResumeType ==
  ASSUME TypeOK, masked' \in BOOLEAN, frame' = [frame EXCEPT ![cur] = InApp],
         held' \in [Thread -> SUBSET Mutex], UNCHANGED <<store, up, pending, reply, owed>>
  PROVE  TypeOK'
<1>1. InApp \in Frame /\ InApp.at \notin {"kill", "lock", "trylock"}
  BY DEF InApp, Frame
<1>2. FramesOK(frame) /\ cur \in Thread
  BY TypeParts, Ranges
<1>3. FramesOK(frame')
  BY <1>1, <1>2, SetFrame
<1>4. QED
  BY <1>3 DEF TypeOK, FramesOK

\* The last step of a call or of an interrupt.
LEMMA ReturnType ==
  ASSUME TypeOK, SafeEntry \/ Return \/ AcquireReturn
  PROVE  TypeOK'
<1>1. cur \in Thread /\ frame[cur] \in Frame /\ frame[cur].sig \in BOOLEAN
  BY Ranges DEF Frame
<1>2. held \in [Thread -> SUBSET Mutex]
  BY TypeParts
<1>3. CASE SafeEntry
  <2>1. /\ masked' = FALSE /\ frame' = [frame EXCEPT ![cur] = InApp] /\ held' = held
        /\ UNCHANGED <<store, up, pending, reply, owed>>
    BY <1>3 DEF SafeEntry
  <2>2. QED
    BY <1>2, <2>1, ResumeType
<1>4. CASE Return
  <2>1. Resume /\ held' = held
    BY <1>4 DEF Return
  <2>2. QED
    BY <1>1, <1>2, <2>1, ResumeType DEF Resume
<1>5. CASE AcquireReturn
  <2> DEFINE m == frame[cur].arg
             h == IF store.mutex[m].owner = cur THEN held[cur] \union {m} ELSE held[cur]
  <2>1. Resume /\ held' = [held EXCEPT ![cur] = h]
    BY <1>5 DEF AcquireReturn
  <2>2. frame[cur].at \in {"lock", "trylock"}
    BY <1>5 DEF AcquireReturn, Owes
  <2>3. m \in Mutex
    BY <1>1, <2>2 DEF TypeOK
  <2>4. h \in SUBSET Mutex
    BY <1>1, <1>2, <2>3
  <2> HIDE DEF h
  <2>5. held' \in [Thread -> SUBSET Mutex]
    BY <1>1, <1>2, <2>1, <2>4
  <2>6. QED
    BY <1>1, <2>1, <2>5, ResumeType DEF Resume
<1>6. QED
  BY <1>3, <1>4, <1>5

\* One turn of the loop of releaseMutexes().
LEMMA KillReleaseType ==
  ASSUME TypeOK, KillRelease
  PROVE  TypeOK'
<1> DEFINE t == frame[cur].arg
           q == store.tcb[t].entries
           s == [store EXCEPT !.tcb[t].entries = Tail(q)]
           m == Head(q).mutex
<1>1. /\ q # <<>> /\ store' = MutexRelease(s, m)
      /\ held' = [held EXCEPT ![t] = @ \ {m}]
      /\ UNCHANGED <<frame, masked, up, pending, reply, owed>>
  BY DEF KillRelease
<1>2. frame[cur].at = "kill"
  BY DEF KillRelease, Owes
<1>3. t \in User /\ t \in Thread
  BY <1>2, Ranges, Ids DEF TypeOK
<1>4. q \in Seq(Entry)
  BY <1>3 DEF TypeOK, WellFormed, Store, TCB
<1>5. Head(q) \in Entry /\ Tail(q) \in Seq(Entry)
  BY <1>1, <1>4, HeadTailProperties
<1>6. m \in Mutex
  BY <1>5 DEF Entry
<1>7. WellFormed(s)
  BY <1>3, <1>5, EntriesWF DEF TypeOK
<1>8. held \in [Thread -> SUBSET Mutex]
  BY TypeParts
<1> HIDE DEF s, m, t
<1>9. WellFormed(store')
  BY <1>1, <1>6, <1>7, MutexReleaseEffect
<1>10. held' \in [Thread -> SUBSET Mutex]
  BY <1>1, <1>3, <1>8
<1>11. QED
  BY <1>1, <1>9, <1>10 DEF TypeOK

\* A thread that is in the kernel moves to its last step there.
LEMMA NextFrameType ==
  ASSUME NEW f, FramesOK(f), NEW t \in Thread, NEW g,
         \/ g = [f EXCEPT ![t].at = "ret"]
         \/ f[t].at = "timer" /\ g = [f EXCEPT ![t].arg = @ + 1]
  PROVE  FramesOK(g)
<1>1. f[t] \in Frame /\ f[t].arg \in Nat
  BY DEF FramesOK, Frame
<1>2. CASE g = [f EXCEPT ![t].at = "ret"]
  <2> DEFINE r == [f[t] EXCEPT !.at = "ret"]
  <2>1. r \in Frame /\ r.at \notin {"kill", "lock", "trylock"}
    BY <1>1 DEF Frame
  <2>2. g = [f EXCEPT ![t] = r]
    BY <1>2 DEF FramesOK
  <2> HIDE DEF r
  <2>3. QED
    BY <2>1, <2>2, SetFrame
<1>3. CASE f[t].at = "timer" /\ g = [f EXCEPT ![t].arg = @ + 1]
  <2> DEFINE r == [f[t] EXCEPT !.arg = @ + 1]
  <2>1. r \in Frame /\ r.at \notin {"kill", "lock", "trylock"}
    BY <1>1, <1>3 DEF Frame
  <2>2. g = [f EXCEPT ![t] = r]
    BY <1>3 DEF FramesOK
  <2> HIDE DEF r
  <2>3. QED
    BY <2>1, <2>2, SetFrame
<1>4. QED
  BY <1>2, <1>3

\* The end of terminate().
LEMMA KillFinishType ==
  ASSUME TypeOK, KillFinish
  PROVE  TypeOK'
<1> DEFINE t == frame[cur].arg
<1>1. /\ store' = MarkDead(store, t) /\ frame' = [frame EXCEPT ![cur].at = "ret"]
      /\ UNCHANGED <<masked, up, pending, reply, held, owed>> /\ frame[cur].at = "kill"
  BY DEF KillFinish, Owes
<1>2. cur \in Thread /\ FramesOK(frame)
  BY Ranges, TypeParts
<1>3. t \in User
  BY <1>1, <1>2 DEF FramesOK
<1>4. WellFormed(store')
  BY <1>1, <1>3, MarkDeadWF DEF TypeOK
<1>5. FramesOK(frame')
  BY <1>1, <1>2, NextFrameType
<1>6. QED
  BY <1>1, <1>4, <1>5 DEF TypeOK, FramesOK

\* The first half of a turn of timerEvent's loop touches only one TCB.
LEMMA SettleWF ==
  ASSUME NEW s, WellFormed(s), NEW t \in User
  PROVE  WellFormed(Settle(s, t)) /\ SameButTCBs(s, Settle(s, t))
<1> DEFINE a == SetWaitingOnMutex(s, t, FALSE)
           b == Sleep(a, t, 0)
<1>1. t \in Thread
  BY Ids
<1>2. WellFormed(a) /\ SameButTCBs(s, a)
  BY <1>1, SetWaitingOnMutexWF
<1>3. WellFormed(b) /\ SameButTCBs(a, b)
  <2> HIDE DEF a
  <2> QED
    BY <1>1, <1>2, SleepWF
<1>4. Settle(s, t) \in {s, b}
  BY DEF Settle
<1> HIDE DEF a, b
<1>5. QED
  BY <1>2, <1>3, <1>4 DEF SameButTCBs

\* One turn of timerEvent's loop, and what follows the loop.
LEMMA TimerType ==
  ASSUME TypeOK, TimerKeep \/ TimerCountdown \/ TimerWake \/ TimerDone
  PROVE  TypeOK'
<1> DEFINE t == Visited
           s == Settle(store, t)
<1>1. /\ WellFormed(store) /\ FramesOK(frame) /\ cur \in Thread
      /\ masked \in BOOLEAN /\ up \in BOOLEAN
      /\ pending \in [Thread -> Nat]
      /\ reply \in [Thread -> Thread \union {None}] /\ held \in [Thread -> SUBSET Mutex]
      /\ owed \in [Thread -> Nat]
  BY TypeParts, Ranges
<1>2. ASSUME Visiting
      PROVE  /\ t \in User /\ t \in Thread /\ store.waitList \in Seq(User)
             /\ frame[cur].at = "timer" /\ frame[cur].arg \in 1..Len(store.waitList)
             /\ WellFormed(s) /\ SameButTCBs(store, s)
  <2>1. store.waitList \in Seq(User)
    BY <1>1 DEF WellFormed, Store
  <2>2. frame[cur].at = "timer" /\ frame[cur].arg \in 1..Len(store.waitList)
    BY <1>2 DEF Visiting, Owes
  <2>3. t \in User /\ t \in Thread
    BY <2>1, <2>2, ElementOfSeq, Ids DEF Visited
  <2> HIDE DEF t
  <2>4. QED
    BY <1>1, <2>1, <2>2, <2>3, SettleWF
<1>3. ASSUME Visiting, NextInWaitList
      PROVE  FramesOK(frame')
  BY <1>1, <1>2, <1>3, NextFrameType DEF NextInWaitList
<1>4. CASE TimerKeep
  <2>1. /\ Visiting /\ NextInWaitList /\ store' = s
        /\ UNCHANGED <<masked, up, pending, reply, held, owed>>
    BY <1>4 DEF TimerKeep
  <2> HIDE DEF s, t
  <2>2. QED
    BY <1>1, <1>2, <1>3, <2>1 DEF TypeOK, FramesOK
<1>5. CASE TimerCountdown
  <2>1. /\ Visiting /\ NextInWaitList /\ s.tcb[t].ticks > 0
        /\ store' = [s EXCEPT !.tcb[t].ticks = @ - 1]
        /\ UNCHANGED <<masked, up, pending, reply, held, owed>>
    BY <1>5 DEF TimerCountdown
  <2> HIDE DEF s, t
  <2>2. s.tcb[t].ticks \in Nat \union {Forever}
    BY <1>2, <2>1 DEF WellFormed, Store, TCB
  <2>3. s.tcb[t].ticks - 1 \in Nat \union {Forever}
    BY <2>1, <2>2 DEF Forever
  <2>4. store' = [s EXCEPT !.tcb[t].ticks = s.tcb[t].ticks - 1]
    BY <2>1
  <2>5. WellFormed(store')
    BY <1>2, <2>1, <2>3, <2>4, TicksWF
  <2>6. QED
    BY <1>1, <1>3, <2>1, <2>5 DEF TypeOK, FramesOK
<1>6. CASE TimerWake
  <2> DEFINE q == RemoveAt(store.waitList, frame[cur].arg)
  <2>1. /\ Visiting
        /\ store' = [PushReady(SetState(s, t, "READY"), t)
                       EXCEPT !.waitList = RemoveAt(@, frame[cur].arg)]
        /\ UNCHANGED <<frame, masked, up, pending, reply, held, owed>>
    BY <1>6 DEF TimerWake
  <2> HIDE DEF s, t
  <2>2. q \in Seq(User)
    BY <1>2, <2>1, RemoveAtType
  <2>3. "READY" \in ThreadState
    BY DEF ThreadState
  <2>4. WellFormed(SetState(s, t, "READY"))
        /\ SameButTCBs(s, SetState(s, t, "READY"))
    BY <1>2, <2>1, <2>3, SetStateWF
  <2>5. PushReady(SetState(s, t, "READY"), t).waitList = store.waitList
    BY <1>2, <2>1, <2>4, PushReadyWF DEF SameButTCBs
  <2>6. store' = [PushReady(SetState(s, t, "READY"), t) EXCEPT !.waitList = q]
    BY <2>1, <2>5
  <2>7. WellFormed(store')
    BY <1>2, <2>1, <2>2, <2>6, WakeWF DEF SameMutexes
  <2>8. QED
    BY <1>1, <2>1, <2>7 DEF TypeOK, FramesOK
<1>7. CASE TimerDone
  <2>1. /\ store' \in {store, Schedule(store, High)} /\ up' \in BOOLEAN
        /\ frame' = [frame EXCEPT ![cur].at = "ret"]
        /\ UNCHANGED <<masked, pending, reply, held, owed>>
    BY <1>1, <1>7 DEF TimerDone
  <2>2. WellFormed(store')
    BY <1>1, <2>1, HighIsAPriority, ScheduleWF
  <2>3. FramesOK(frame')
    BY <1>1, <2>1, NextFrameType
  <2>4. QED
    BY <1>1, <2>1, <2>2, <2>3 DEF TypeOK, FramesOK
<1>8. QED
  BY <1>4, <1>5, <1>6, <1>7

-----------------------------------------------------------------------------
\* The state VMStart hands to VMMain is well typed.
LEMMA InitType == Init => TypeOK
<1> SUFFICES ASSUME Init PROVE TypeOK
  OBVIOUS
<1>1. Thread \subseteq Nat /\ Idle \in Thread /\ Main \in User /\ User \subseteq Thread
  BY Ids, IdsAssumption DEF Thread
<1>2. 0..High = {0, 1, 2, 3} /\ Priority = {1, 2, 3}
  BY DEF High, Low, Priority
<1>3. \A x \in ThreadState, p \in 0..High :
         NewTCB(x, p) \in TCB /\ NewTCB(x, p).prio = p
  <2>1. <<>> \in Seq(Entry)
    OBVIOUS
  <2>2. QED
    BY <2>1 DEF NewTCB, TCB
<1>4. "RUNNING" \in ThreadState /\ "READY" \in ThreadState /\ "DEAD" \in ThreadState
  BY DEF ThreadState
<1> DEFINE tcbs == [t \in Thread |->
                     IF t = Main THEN NewTCB("RUNNING", Normal)
                     ELSE IF t = Idle THEN NewTCB("READY", 0)
                     ELSE NewTCB("DEAD", Low)]
           lists == [p \in 0..High |-> IF p = 0 THEN <<Idle>> ELSE <<>>]
           mutexes == [m \in Mutex |-> [owner |-> None, deleted |-> FALSE,
                                        queue |-> [p \in Priority |-> <<>>]]]
<1>5. tcbs \in [Thread -> TCB] /\ \A t \in User : tcbs[t].prio \in Priority
  <2>1. Normal \in 0..High /\ 0 \in 0..High /\ Low \in 0..High
        /\ Normal \in Priority /\ Low \in Priority
    BY <1>2 DEF Normal, Low
  <2>2. \A t \in Thread : tcbs[t] \in TCB
    BY <1>3, <1>4, <2>1
  <2>3. \A t \in User : t \in Thread /\ t # Idle
    BY <1>1 DEF User
  <2>4. \A t \in User : tcbs[t].prio \in {Normal, Low}
    BY <1>3, <1>4, <2>1, <2>3
  <2> HIDE DEF tcbs
  <2>5. QED
    <3>1. tcbs = [t \in Thread |-> tcbs[t]]
      BY DEF tcbs
    <3>2. QED
      BY <2>1, <2>2, <2>4, <3>1
<1>6. lists \in [0..High -> Seq(Thread)] /\ lists[0] = <<Idle>>
      /\ \A p \in Priority : lists[p] \in Seq(User)
  BY <1>1, <1>2
<1>7. mutexes \in [Mutex -> MutexRecord]
  BY DEF MutexRecord
<1>8. /\ store.tcb = tcbs /\ store.ready = lists /\ store.mutex = mutexes
      /\ store = [tcb |-> tcbs, ready |-> lists, waitList |-> <<>>, deadList |-> {},
                  current |-> Main, numThreads |-> 2, mutex |-> mutexes, numMutexes |-> 0]
  BY DEF Init, InitStore
<1>9. 2 \in Thread \union {MaxThread + 1} /\ 0 \in Mutex \union {MaxMutex + 1}
  BY IdsAssumption DEF Thread, Mutex
<1> HIDE DEF tcbs, lists, mutexes
<1>10. store \in Store /\ store.numThreads > Idle
  BY <1>1, <1>5, <1>6, <1>7, <1>8, <1>9 DEF Store, Idle
<1>11. WellFormed(store)
  BY <1>5, <1>6, <1>8, <1>10 DEF WellFormed
<1>12. FramesOK(frame)
  <2>1. InApp \in Frame /\ AtStart \in Frame
        /\ InApp.at = "app" /\ AtStart.at = "start"
    BY DEF InApp, AtStart, Frame
  <2>2. frame = [t \in Thread |-> IF t = Main THEN InApp ELSE AtStart]
    BY DEF Init
  <2>3. QED
    BY <2>1, <2>2 DEF FramesOK
<1>13. /\ masked \in BOOLEAN /\ up \in BOOLEAN
       /\ pending \in [Thread -> Nat]
       /\ reply \in [Thread -> Thread \union {None}] /\ held \in [Thread -> SUBSET Mutex]
       /\ owed \in [Thread -> Nat]
  BY DEF Init
<1>14. QED
  BY <1>11, <1>12, <1>13, TypeParts

\* Every step keeps TypeOK.
LEMMA NextType == TypeOK /\ [Next]_vars => TypeOK'
<1> SUFFICES ASSUME TypeOK, [Next]_vars PROVE TypeOK'
  OBVIOUS
<1>1. CASE Call
  BY <1>1, ThreadCallType, MutexCallType DEF Call
<1>2. CASE Kernel
  BY <1>2, ReturnType, KillReleaseType, KillFinishType, TimerType DEF Kernel
<1>3. CASE Interrupt
  BY <1>3, InterruptType
<1>4. CASE IdleSpin \/ UNCHANGED vars
  BY <1>4 DEF IdleSpin, vars, TypeOK
<1>5. QED
  BY <1>1, <1>2, <1>3, <1>4 DEF Next, Interrupt

\* Whatever the application does, the virtual machine's state is well formed:
\* the idle thread is always there for schedule() to find and never terminated,
\* found or queued, every list holds threads that exist, and every thread that
\* comes back from the scheduler knows which call it returns from.
THEOREM TypeCorrect == Spec => []TypeOK
<1>1. Init => TypeOK
  BY InitType
<1>2. TypeOK /\ [Next]_vars => TypeOK'
  BY NextType
<1>3. QED
  BY <1>1, <1>2, PTL DEF Spec

-----------------------------------------------------------------------------
\* The calls and the step of terminate() that work on a mutex.
MutexStep ==
  \/ VMMutexCreate
  \/ \E m \in Mutex : VMMutexDelete(m) \/ VMMutexAcquire(m) \/ VMMutexRelease(m)
  \/ KillRelease

\* No mutex, owner or queue changes, and no mutex is created.
MutexesAlone == store'.mutex = store.mutex /\ store'.numMutexes = store.numMutexes

\* Every other step leaves every mutex, its owner and its queues alone.
LEMMA OtherStepsLeaveMutexesAlone ==
  ASSUME TypeOK, [Next]_vars, ~ MutexStep
  PROVE  MutexesAlone
<1> USE DEF SameMutexes, MutexesAlone
<1>1. WellFormed(store) /\ cur \in Thread
  BY Ranges DEF TypeOK
<1>2. CASE VMThreadCreate
  BY <1>1, <1>2 DEF VMThreadCreate, Finish, InsertThread, WellFormed, Store
<1>3. CASE VMThreadYield
  <2>1. store' = SleepCurrentThread(store, 0) /\ store.current # Idle
    BY <1>3 DEF VMThreadYield, Enter, Calling, cur
  <2>2. QED
    BY <1>1, <2>1, SleepCurrentThreadWF
<1>4. CASE VMFile
  <2>1. store' = WaitCurrentThreadOnIO(store)
    BY <1>4 DEF VMFile, Enter
  <2>2. QED
    BY <1>1, <2>1, WaitCurrentThreadOnIOWF
<1>5. ASSUME NEW t \in Thread,
             VMThreadActivate(t) \/ VMThreadDelete(t) \/ VMThreadTerminate(t)
      PROVE  MutexesAlone
  <2>1. store' \in {ActivateDeadThread(store, t), DeleteDeadThread(store, t), store}
    BY <1>5 DEF VMThreadActivate, VMThreadDelete, VMThreadTerminate, Enter
  <2>2. SameMutexes(store, ActivateDeadThread(store, t))
    BY <1>1, ActivateDeadThreadWF
  <2>3. SameMutexes(store, DeleteDeadThread(store, t))
    BY <1>1, DeleteDeadThreadWF
  <2>4. SameMutexes(store, store')
    BY <2>1, <2>2, <2>3
  <2>5. QED
    BY <2>4
<1>6. ASSUME NEW n \in Timeouts, VMThreadSleep(n)
      PROVE  MutexesAlone
  <2>1. store' = SleepCurrentThread(store, n) /\ store.current # Idle
    BY <1>6 DEF VMThreadSleep, Enter, Calling, cur
  <2>2. n \in Nat
    BY TimeoutsAssumption
  <2>3. QED
    BY <1>1, <2>1, <2>2, SleepCurrentThreadWF
<1>7. ASSUME NEW m \in Mutex, VMMutexReleaseUnowned(m)
      PROVE  MutexesAlone
  BY <1>7 DEF VMMutexReleaseUnowned
<1>8. CASE SafeEntry \/ Return \/ AcquireReturn
  BY <1>8 DEF SafeEntry, Return, AcquireReturn, Resume
<1>9. CASE KillFinish
  <2>1. store' = MarkDead(store, frame[cur].arg) /\ frame[cur].at = "kill"
    BY <1>9 DEF KillFinish, Owes
  <2>2. frame[cur].arg \in User
    BY <1>1, <2>1 DEF TypeOK
  <2>3. QED
    BY <1>1, <2>1, <2>2, MarkDeadWF
<1>10. ASSUME Visiting
       PROVE  SameButTCBs(store, Settle(store, Visited)) /\ Visited \in User
              /\ WellFormed(Settle(store, Visited))
  <2>1. store.waitList \in Seq(User)
    BY <1>1 DEF WellFormed, Store
  <2>2. Visited \in User
    BY <1>10, <2>1, ElementOfSeq DEF Visiting, Visited
  <2>3. QED
    BY <1>1, <2>2, SettleWF
<1>11. CASE TimerKeep
  BY <1>10, <1>11 DEF TimerKeep, SameButTCBs
<1>12. CASE TimerCountdown
  <2>1. store' = [Settle(store, Visited) EXCEPT !.tcb[Visited].ticks = @ - 1] /\ Visiting
    BY <1>12 DEF TimerCountdown
  <2>2. /\ store'.mutex = Settle(store, Visited).mutex
        /\ store'.numMutexes = Settle(store, Visited).numMutexes
        /\ store'.numThreads = Settle(store, Visited).numThreads
    BY <1>10, <2>1 DEF WellFormed, Store
  <2>3. QED
    BY <1>10, <2>1, <2>2 DEF SameButTCBs
<1>13. CASE TimerWake
  <2> DEFINE s == Settle(store, Visited)
             a == SetState(s, Visited, "READY")
             b == PushReady(a, Visited)
  <2>1. store' = [b EXCEPT !.waitList = RemoveAt(@, frame[cur].arg)] /\ Visiting
    BY <1>13 DEF TimerWake
  <2>2. "READY" \in ThreadState
    BY DEF ThreadState
  <2>3. WellFormed(a) /\ SameButTCBs(s, a)
    BY <1>10, <2>1, <2>2, SetStateWF, Ids
  <2>4. WellFormed(b) /\ SameMutexes(a, b)
    <3> HIDE DEF a
    <3> QED
      BY <1>10, <2>1, <2>3, PushReadyWF
  <2> HIDE DEF a, b
  <2>5. /\ store'.mutex = b.mutex /\ store'.numMutexes = b.numMutexes
        /\ store'.numThreads = b.numThreads
    BY <2>1, <2>4 DEF WellFormed, Store
  <2>6. QED
    BY <1>10, <2>1, <2>3, <2>4, <2>5 DEF SameButTCBs
<1>14. CASE TimerDone
  <2>1. store' \in {store, Schedule(store, High)}
    BY <1>14 DEF TimerDone
  <2>2. QED
    BY <1>1, <2>1, HighIsAPriority, ScheduleWF
<1>15. CASE MachineFileIOCallback
  <2>1. /\ store' = [store EXCEPT !.tcb[reply[cur]].io = FALSE]
        /\ reply[cur] # None
    BY <1>15 DEF MachineFileIOCallback
  <2>2. reply[cur] \in Thread
    BY <2>1, TypeParts, Ranges
  <2>3. QED
    BY <1>1, <2>1, <2>2, IOFlagWF
<1>16. CASE \/ TimerInterrupt \/ \E t \in Thread : MachineReplySignalHandler(t)
            \/ IdleSpin \/ UNCHANGED vars
  BY <1>16 DEF TimerInterrupt, MachineReplySignalHandler, IdleSpin, vars
<1>17. QED
  BY <1>2, <1>3, <1>4, <1>5, <1>6, <1>7, <1>8, <1>9, <1>11, <1>12, <1>13, <1>14,
     <1>15, <1>16 DEF Next, Call, Kernel, MutexStep

\* A step on a mutex changes one mutex at most, and leaves it free only if
\* nobody waits for it.
ChangesOnly(m) ==
  /\ \A k \in Mutex \ {m} : store'.mutex[k] = store.mutex[k]
  /\ store'.mutex[m].owner = None => NoWaiters(store', m)

\* An acquire in one of its three forms.
LEMMA AcquireEffect ==
  ASSUME TypeOK, NEW m \in Mutex, VMMutexAcquire(m)
  PROVE  /\ SameOtherMutexes(store, store', m)
         /\ store.mutex[m].owner = None => store'.mutex[m].owner = cur
         /\ store.mutex[m].owner # None => store'.mutex[m].owner = store.mutex[m].owner
         /\ cur \in User /\ m < store.numMutexes
<1>1. PICK n \in Nat \union {ImmediateTimeout}, at \in {"lock", "trylock"} : Acquire(m, n, at)
  BY AcquireTimeout DEF VMMutexAcquire
<1>2. store' = MutexLock(store, m, n) /\ m < store.numMutexes
  BY <1>1 DEF Acquire, Enter, FoundMutex
<1>3. store.current # Idle
  BY DEF VMMutexAcquire, Calling, cur
<1>4. cur \in User
  BY <1>3, Ranges DEF cur
<1>5. WellFormed(store)
  BY DEF TypeOK
<1>6. QED
  BY <1>2, <1>3, <1>4, <1>5, MutexLockEffect DEF cur

\* Every step on a mutex is of that kind.
LEMMA MutexStepEffect ==
  ASSUME TypeOK, MutexStep
  PROVE  \E m \in Mutex : ChangesOnly(m)
<1>1. WellFormed(store)
  BY DEF TypeOK
<1>2. CASE VMMutexCreate
  <2>1. PICK junk \in FreshFlags : store' = InsertMutex(store, junk)
    BY <1>2 DEF VMMutexCreate, Finish
  <2>2. store.numMutexes \in Mutex /\ junk \in BOOLEAN
    BY <1>2, FreshFlagsAssumption DEF VMMutexCreate
  <2>3. ChangesOnly(store.numMutexes)
    BY <1>1, <2>1, <2>2, InsertMutexEffect DEF ChangesOnly
  <2>4. QED
    BY <2>2, <2>3
<1>3. ASSUME NEW m \in Mutex, VMMutexDelete(m)
      PROVE  ChangesOnly(m)
  <2>1. store' = DeleteFromVM(store, m)
    BY <1>3 DEF VMMutexDelete, Finish
  <2>2. QED
    BY <1>1, <2>1, DeleteFromVMEffect DEF ChangesOnly, SameOtherMutexes
<1>4. ASSUME NEW m \in Mutex, VMMutexAcquire(m)
      PROVE  ChangesOnly(m)
  <2>1. cur # None
    BY <1>4, AcquireEffect, Ids
  <2>2. QED
    BY <1>4, <2>1, AcquireEffect DEF ChangesOnly, SameOtherMutexes
<1>5. ASSUME NEW m \in Mutex, VMMutexRelease(m)
      PROVE  ChangesOnly(m)
  <2>1. store' = MutexRelease(store, m)
    BY <1>5 DEF VMMutexRelease, Enter
  <2>2. QED
    BY <1>1, <2>1, MutexReleaseEffect, Ids DEF ChangesOnly, SameOtherMutexes
<1>6. CASE KillRelease
  <2> DEFINE t == frame[cur].arg
             q == store.tcb[t].entries
             s == [store EXCEPT !.tcb[t].entries = Tail(q)]
             m == Head(q).mutex
  <2>1. q # <<>> /\ store' = MutexRelease(s, m) /\ frame[cur].at = "kill"
    BY <1>6 DEF KillRelease, Owes
  <2>2. t \in Thread
    BY <2>1, Ranges, Ids DEF TypeOK
  <2>3. q \in Seq(Entry)
    BY <1>1, <2>2 DEF WellFormed, Store, TCB
  <2>4. Head(q) \in Entry /\ Tail(q) \in Seq(Entry)
    BY <2>1, <2>3, HeadTailProperties
  <2>5. m \in Mutex
    BY <2>4 DEF Entry
  <2>6. WellFormed(s) /\ SameButTCBs(store, s)
    BY <1>1, <2>2, <2>4, EntriesWF
  <2> HIDE DEF s, m
  <2>7. /\ SameOtherMutexes(s, store', m)
        /\ NoWaiters(s, m) => NoWaiters(store', m)
        /\ ~ NoWaiters(s, m) => store'.mutex[m].owner \in User
    BY <2>1, <2>5, <2>6, MutexReleaseEffect
  <2>8. store'.mutex[m].owner = None => NoWaiters(store', m)
    BY <2>7, Ids
  <2>9. \A k \in Mutex \ {m} : store'.mutex[k] = store.mutex[k]
    BY <2>6, <2>7 DEF SameOtherMutexes, SameButTCBs
  <2>10. QED
    BY <2>5, <2>8, <2>9 DEF ChangesOnly
<1>7. QED
  BY <1>2, <1>3, <1>4, <1>5, <1>6 DEF MutexStep

\* Whatever the application does, terminations and timeouts included, no waiter
\* is left in the queue of a mutex that nobody owns: release() hands the mutex
\* on, and a mutex gets its first waiter only while it has an owner.
THEOREM NoWaiterLeftBehind == Spec => []FreeMutexHasNoWaiters
<1> DEFINE Inv == TypeOK /\ FreeMutexHasNoWaiters
<1>1. Init => Inv
  <2>1. Init => TypeOK
    BY InitType
  <2>2. Init => FreeMutexHasNoWaiters
    BY DEF Init, InitStore, FreeMutexHasNoWaiters, NoWaiters
  <2>3. QED
    BY <2>1, <2>2
<1>2. Inv /\ [Next]_vars => Inv'
  <2> SUFFICES ASSUME Inv, [Next]_vars PROVE Inv'
    OBVIOUS
  <2>1. TypeOK'
    BY NextType
  <2>2. CASE MutexStep
    <3>1. PICK m \in Mutex : ChangesOnly(m)
      BY <2>2, MutexStepEffect
    <3>2. QED
      BY <2>1, <3>1 DEF ChangesOnly, FreeMutexHasNoWaiters, NoWaiters
  <2>3. CASE ~ MutexStep
    <3>1. MutexesAlone
      BY <2>3, OtherStepsLeaveMutexesAlone
    <3>2. QED
      BY <2>1, <3>1 DEF MutexesAlone, FreeMutexHasNoWaiters, NoWaiters
  <2>4. QED
    BY <2>2, <2>3
<1>3. QED
  BY <1>1, <1>2, PTL DEF Spec

-----------------------------------------------------------------------------
\* Mutual exclusion, for an application that terminates no thread.
NoTerminations == Calls \intersect {"TerminateSelf", "TerminateOther"} = {}

\* No thread is inside terminate().
NobodyIsKilled == \A t \in Thread : frame[t].at # "kill"

\* An id that VMMutexCreate has not handed out yet belongs to nobody.
UncreatedAreFree == \A m \in Mutex : m >= store.numMutexes => store.mutex[m].owner = None

\* Whoever believes to hold a mutex is its owner.
BelieversOwn == \A t \in Thread : \A m \in held[t] : store.mutex[m].owner = t

\* Only VMThreadTerminate enters terminate().
LEMMA NobodyIsKilledStep ==
  ASSUME TypeOK, NobodyIsKilled, [Next]_vars, NoTerminations
  PROVE  NobodyIsKilled'
<1> USE DEF NobodyIsKilled
<1>1. frame \in [Thread -> Frame] /\ cur \in Thread
  BY Ranges DEF TypeOK
<1>2. ASSUME NEW at, at # "kill", NEW arg, NEW s, Enter(at, arg, s)
      PROVE  NobodyIsKilled'
  BY <1>1, <1>2 DEF Enter
<1>3. ASSUME UNCHANGED frame
      PROVE  NobodyIsKilled'
  BY <1>3
<1>4. ASSUME frame' = [frame EXCEPT ![cur] = InApp]
      PROVE  NobodyIsKilled'
  BY <1>1, <1>4 DEF InApp
<1>5. ASSUME NEW n, \/ frame' = [frame EXCEPT ![cur].at = "ret"]
                    \/ frame' = [frame EXCEPT ![cur].arg = n]
                    \/ frame' = [frame EXCEPT ![cur] = [at |-> "timer", sig |-> FALSE, arg |-> 1]]
      PROVE  NobodyIsKilled'
  BY <1>1, <1>5 DEF Frame
<1>6. CASE VMThreadCreate \/ VMMutexCreate \/ IdleSpin \/ UNCHANGED vars \/ KillRelease
           \/ TimerWake
  BY <1>3, <1>6 DEF VMThreadCreate, VMMutexCreate, Finish, IdleSpin, vars, KillRelease, TimerWake
<1>7. CASE VMThreadYield \/ VMFile
  BY <1>2, <1>7 DEF VMThreadYield, VMFile
<1>8. ASSUME NEW t \in Thread, VMThreadActivate(t) \/ VMThreadDelete(t)
      PROVE  NobodyIsKilled'
  BY <1>2, <1>8 DEF VMThreadActivate, VMThreadDelete
<1>9. ASSUME NEW t \in Thread, VMThreadTerminate(t)
      PROVE  FALSE
  BY <1>9 DEF VMThreadTerminate, Calling, NoTerminations
<1>10. ASSUME NEW n \in Timeouts, VMThreadSleep(n)
       PROVE  NobodyIsKilled'
  BY <1>2, <1>10 DEF VMThreadSleep
<1>11. ASSUME NEW m \in Mutex, VMMutexAcquire(m)
       PROVE  NobodyIsKilled'
  <2>1. PICK n \in Nat \union {ImmediateTimeout}, at \in {"lock", "trylock"} :
          Acquire(m, n, at)
    BY <1>11, AcquireTimeout DEF VMMutexAcquire
  <2>2. QED
    BY <1>2, <2>1 DEF Acquire
<1>12. ASSUME NEW m \in Mutex,
              VMMutexDelete(m) \/ VMMutexRelease(m) \/ VMMutexReleaseUnowned(m)
       PROVE  NobodyIsKilled'
  BY <1>2, <1>3, <1>12 DEF VMMutexDelete, Finish, VMMutexRelease, VMMutexReleaseUnowned
<1>13. CASE SafeEntry \/ Return \/ AcquireReturn
  BY <1>4, <1>13 DEF SafeEntry, Return, AcquireReturn, Resume
<1>14. CASE TimerKeep \/ TimerCountdown \/ TimerDone \/ KillFinish \/ TimerInterrupt
  BY <1>5, <1>14
  DEF TimerKeep, TimerCountdown, TimerDone, KillFinish, NextInWaitList, TimerInterrupt
<1>15. CASE MachineFileIOCallback \/ \E t \in Thread : MachineReplySignalHandler(t)
  BY <1>3, <1>15 DEF MachineFileIOCallback, MachineReplySignalHandler
<1>16. QED
  BY <1>6, <1>7, <1>8, <1>9, <1>10, <1>11, <1>12, <1>13, <1>14, <1>15
  DEF Next, Call, Kernel

\* What the application believes changes only when a release or an acquire
\* returns, or in terminate().
LEMMA OtherStepsLeaveBeliefsAlone ==
  ASSUME [Next]_vars, ~ AcquireReturn, ~ KillRelease,
         ~ \E m \in Mutex : VMMutexRelease(m)
  PROVE  held' = held
<1>1. CASE VMThreadCreate \/ VMThreadYield \/ VMFile \/ VMMutexCreate
  BY <1>1 DEF VMThreadCreate, VMThreadYield, VMFile, VMMutexCreate, Finish
<1>2. CASE \E t \in Thread : VMThreadActivate(t) \/ VMThreadDelete(t) \/ VMThreadTerminate(t)
  BY <1>2 DEF VMThreadActivate, VMThreadDelete, VMThreadTerminate
<1>3. CASE \E n \in Timeouts : VMThreadSleep(n)
  BY <1>3 DEF VMThreadSleep
<1>4. CASE \E m \in Mutex : VMMutexDelete(m) \/ VMMutexAcquire(m) \/ VMMutexReleaseUnowned(m)
  BY <1>4 DEF VMMutexDelete, VMMutexAcquire, Acquire, VMMutexReleaseUnowned, Finish
<1>5. CASE SafeEntry \/ Return \/ KillFinish
  BY <1>5 DEF SafeEntry, Return, KillFinish
<1>6. CASE TimerKeep \/ TimerCountdown \/ TimerWake \/ TimerDone
  BY <1>6 DEF TimerKeep, TimerCountdown, TimerWake, TimerDone
<1>7. CASE Interrupt
  BY <1>7 DEF Interrupt, TimerInterrupt, MachineReplySignalHandler, MachineFileIOCallback
<1>8. CASE IdleSpin \/ UNCHANGED vars
  BY <1>8 DEF IdleSpin, vars
<1>9. QED
  BY <1>1, <1>2, <1>3, <1>4, <1>5, <1>6, <1>7, <1>8 DEF Next, Call, Kernel, Interrupt

\* The steps on a mutex keep the owners the application believes in.
LEMMA MutexStepKeepsBelievers ==
  ASSUME TypeOK, NobodyIsKilled, UncreatedAreFree, BelieversOwn, MutexStep, [Next]_vars
  PROVE  UncreatedAreFree' /\ BelieversOwn'
<1> USE DEF UncreatedAreFree, BelieversOwn
<1>1. /\ WellFormed(store) /\ cur \in Thread /\ None \notin Thread /\ User \subseteq Thread
      /\ held \in [Thread -> SUBSET Mutex] /\ Mutex \subseteq Int
      /\ store.numMutexes \in Int
  <2>1. /\ WellFormed(store) /\ cur \in Thread /\ None \notin Thread /\ User \subseteq Thread
        /\ held \in [Thread -> SUBSET Mutex] /\ Mutex \subseteq Int
    BY Ranges, Ids DEF TypeOK
  <2>2. store.numMutexes \in Mutex \union {MaxMutex + 1}
    BY <2>1 DEF WellFormed, Store
  <2>3. store.numMutexes \in Int
    <3>1. MaxMutex + 1 \in Int
      BY IdsAssumption
    <3>2. QED
      BY <2>1, <2>2, <3>1
  <2>4. QED
    BY <2>1, <2>3
<1>2. ASSUME held' = held, store'.numMutexes = store.numMutexes, NEW m \in Mutex,
             \A k \in Mutex \ {m} : store'.mutex[k] = store.mutex[k],
             store.mutex[m].owner = None, m < store.numMutexes
      PROVE  UncreatedAreFree' /\ BelieversOwn'
  BY <1>1, <1>2
<1>3. CASE VMMutexCreate
  <2>1. PICK junk \in FreshFlags : Finish(InsertMutex(store, junk))
    BY <1>3 DEF VMMutexCreate
  <2> DEFINE m == store.numMutexes
  <2>2. /\ \A k \in Mutex \ {m} : store'.mutex[k] = store.mutex[k]
        /\ store'.mutex[m].owner = None /\ store'.numMutexes = m + 1 /\ m \in Mutex
        /\ held' = held
    BY <1>1, <1>3, <2>1, FreshFlagsAssumption, InsertMutexEffect DEF VMMutexCreate, Finish
  <2> HIDE DEF m
  <2>3. store.mutex[m].owner = None
    BY <1>1, <2>2 DEF m
  <2>4. UncreatedAreFree'
    <3>1. SUFFICES ASSUME NEW k \in Mutex, k >= store'.numMutexes
                   PROVE  store'.mutex[k].owner = None
      BY DEF UncreatedAreFree
    <3>2. CASE k = m
      BY <2>2, <3>2
    <3>3. CASE k # m
      <4>1. k >= store.numMutexes
        BY <1>1, <2>2, <3>1 DEF m
      <4>2. QED
        BY <2>2, <3>3, <4>1 DEF UncreatedAreFree
    <3>4. QED
      BY <3>2, <3>3
  <2>5. BelieversOwn'
    BY <1>1, <2>2, <2>3
  <2>6. QED
    BY <2>4, <2>5
<1>4. ASSUME NEW m \in Mutex, VMMutexDelete(m)
      PROVE  UncreatedAreFree' /\ BelieversOwn'
  <2>1. /\ store' = DeleteFromVM(store, m) /\ store.mutex[m].owner = None
        /\ m < store.numMutexes /\ held' = held
    BY <1>4 DEF VMMutexDelete, Finish, FoundMutex
  <2>2. SameOtherMutexes(store, store', m)
    BY <1>1, <2>1, DeleteFromVMEffect
  <2>3. QED
    BY <1>2, <2>1, <2>2 DEF SameOtherMutexes
<1>5. ASSUME NEW m \in Mutex, VMMutexAcquire(m)
      PROVE  UncreatedAreFree' /\ BelieversOwn'
  <2>1. held' = held
    BY <1>5, AcquireTimeout DEF VMMutexAcquire, Acquire
  <2>2. CASE store.mutex[m].owner = None
    BY <1>2, <1>5, <2>1, <2>2, AcquireEffect DEF SameOtherMutexes
  <2>3. CASE store.mutex[m].owner # None
    <3>1. /\ \A k \in Mutex : store'.mutex[k].owner = store.mutex[k].owner
          /\ store'.numMutexes = store.numMutexes
      BY <1>5, <2>3, AcquireEffect DEF SameOtherMutexes
    <3>2. QED
      BY <1>1, <2>1, <3>1
  <2>4. QED
    BY <2>2, <2>3
<1>6. ASSUME NEW m \in Mutex, VMMutexRelease(m)
      PROVE  UncreatedAreFree' /\ BelieversOwn'
  <2>1. /\ store' = MutexRelease(store, m) /\ store.mutex[m].owner = cur
        /\ m < store.numMutexes /\ held' = [held EXCEPT ![cur] = @ \ {m}]
    BY <1>6 DEF VMMutexRelease, Enter, FoundMutex
  <2>2. /\ \A k \in Mutex \ {m} : store'.mutex[k] = store.mutex[k]
        /\ store'.numMutexes = store.numMutexes
    BY <1>1, <2>1, MutexReleaseEffect DEF SameOtherMutexes
  <2>3. \A t \in Thread : m \notin held'[t]
    BY <1>1, <2>1
  <2>4. \A t \in Thread : held'[t] \subseteq held[t]
    BY <1>1, <2>1
  <2>5. BelieversOwn'
    <3> SUFFICES ASSUME NEW t \in Thread, NEW k \in held'[t]
                 PROVE  store'.mutex[k].owner = t
      OBVIOUS
    <3>1. k \in held[t] /\ k # m /\ k \in Mutex
      BY <1>1, <2>3, <2>4
    <3>2. QED
      BY <2>2, <3>1
  <2>6. UncreatedAreFree'
    BY <1>1, <2>1, <2>2
  <2>7. QED
    BY <2>5, <2>6
<1>7. CASE KillRelease
  BY <1>1, <1>7 DEF KillRelease, Owes, NobodyIsKilled
<1>8. QED
  BY <1>3, <1>4, <1>5, <1>6, <1>7 DEF MutexStep

\* The other steps do so too: an acquire that returns believes what it sees.
LEMMA OtherStepKeepsBelievers ==
  ASSUME TypeOK, UncreatedAreFree, BelieversOwn, ~ MutexStep, [Next]_vars
  PROVE  UncreatedAreFree' /\ BelieversOwn'
<1>1. MutexesAlone
  BY OtherStepsLeaveMutexesAlone
<1>2. cur \in Thread /\ held \in [Thread -> SUBSET Mutex]
  BY Ranges DEF TypeOK
<1>3. UncreatedAreFree'
  BY <1>1 DEF UncreatedAreFree, MutexesAlone
<1>4. CASE AcquireReturn
  <2> DEFINE m == frame[cur].arg
  <2>1. held' = [held EXCEPT ![cur] = IF store.mutex[m].owner = cur
                                      THEN @ \union {m} ELSE @]
    BY <1>4 DEF AcquireReturn
  <2>2. QED
    BY <1>1, <1>2, <1>3, <2>1 DEF BelieversOwn, MutexesAlone
<1>5. CASE ~ AcquireReturn
  <2>1. held' = held
    BY <1>5, OtherStepsLeaveBeliefsAlone DEF MutexStep
  <2>2. QED
    BY <1>1, <1>3, <2>1 DEF BelieversOwn, MutexesAlone
<1>6. QED
  BY <1>4, <1>5

\* As long as the application terminates no thread, no two threads ever believe
\* that they hold the same mutex, and VMMutexQuery names the one that does:
\* whatever the timeouts, the deletions and the recursive acquires.
THEOREM MutualExclusionHolds ==
  ASSUME NoTerminations
  PROVE  Spec => []MutualExclusion
<1> DEFINE Inv == TypeOK /\ NobodyIsKilled /\ UncreatedAreFree /\ BelieversOwn
<1>1. Init => Inv
  <2>1. Init => TypeOK
    BY InitType
  <2>2. Init => NobodyIsKilled
    BY DEF Init, NobodyIsKilled, InApp, AtStart
  <2>3. Init => UncreatedAreFree /\ BelieversOwn
    BY DEF Init, InitStore, UncreatedAreFree, BelieversOwn
  <2>4. QED
    BY <2>1, <2>2, <2>3
<1>2. Inv /\ [Next]_vars => Inv'
  <2> SUFFICES ASSUME Inv, [Next]_vars PROVE Inv'
    OBVIOUS
  <2>1. TypeOK'
    BY NextType
  <2>2. NobodyIsKilled'
    BY NobodyIsKilledStep
  <2>3. UncreatedAreFree' /\ BelieversOwn'
    BY MutexStepKeepsBelievers, OtherStepKeepsBelievers
  <2>4. QED
    BY <2>1, <2>2, <2>3
<1>3. Inv => MutualExclusion
  BY DEF BelieversOwn, MutualExclusion
<1>4. QED
  BY <1>1, <1>2, <1>3, PTL DEF Spec

-----------------------------------------------------------------------------
\* The signal mask: an application that never releases a mutex it does not own
\* always runs with the signals enabled.  A mask that some call saved is restored
\* by the last step of the same call, many switches later, so the invariant
\* speaks of the masks on all stacks.

\* Only the current thread is in application code; it is there with the signals
\* enabled; and the masks that calls and interrupts have saved are open.
MaskInv ==
  /\ \A t \in Thread : frame[t].at = "app" => t = cur /\ ~ masked
  /\ \A t \in Thread : frame[t].at # "start" => ~ frame[t].sig

\* The parts of the type invariant the proofs below use.
LEMMA MaskRanges ==
  ASSUME TypeOK
  PROVE  cur \in Thread /\ cur' = store'.current /\ frame \in [Thread -> Frame]
BY Ranges DEF TypeOK, cur

\* A call made in application code saves an open mask and leaves nobody there.
LEMMA EnterMask ==
  ASSUME TypeOK, MaskInv, NEW at, NEW arg, NEW s, Enter(at, arg, s),
         frame[cur].at = "app", at # "app"
  PROVE  MaskInv'
<1>1. cur \in Thread /\ frame \in [Thread -> Frame]
  BY MaskRanges
<1>2. frame' = [frame EXCEPT ![cur] = [at |-> at, sig |-> masked, arg |-> arg]] /\ ~ masked
  BY <1>1 DEF Enter, MaskInv
<1>3. frame'[cur].at = at /\ ~ frame'[cur].sig
  BY <1>1, <1>2
<1>4. \A t \in Thread \ {cur} : frame'[t] = frame[t] /\ frame[t].at # "app"
  BY <1>1, <1>2 DEF MaskInv
<1>5. QED
  BY <1>3, <1>4 DEF MaskInv

\* The kernel changes the store and the position of the current thread, which
\* stays in the kernel.
LEMMA KernelStepMask ==
  ASSUME TypeOK, MaskInv, frame[cur].at \notin {"app", "start"},
         frame' \in [Thread -> Frame],
         \A t \in Thread \ {cur} : frame'[t] = frame[t],
         frame'[cur].at \notin {"app", "start"}, frame'[cur].sig = frame[cur].sig
  PROVE  MaskInv'
<1>1. cur \in Thread
  BY MaskRanges
<1>2. \A t \in Thread : frame'[t].at # "app"
  BY <1>1 DEF MaskInv
<1>3. \A t \in Thread : frame'[t].at # "start" => ~ frame'[t].sig
  BY <1>1 DEF MaskInv
<1>4. QED
  BY <1>2, <1>3 DEF MaskInv

\* Nothing about the mask changes.
LEMMA SameMask ==
  ASSUME MaskInv, frame' = frame, masked' = masked, store'.current = store.current
  PROVE  MaskInv'
BY DEF MaskInv, cur

\* The last step of a call, of an interrupt or of a thread's entry.
LEMMA BackToApplication ==
  ASSUME TypeOK, MaskInv, frame' = [frame EXCEPT ![cur] = InApp], store' = store,
         ~ masked'
  PROVE  MaskInv'
<1>1. cur \in Thread /\ frame \in [Thread -> Frame] /\ cur' = cur
  BY MaskRanges DEF cur
<1>2. frame'[cur] = InApp /\ \A t \in Thread \ {cur} : frame'[t] = frame[t]
  BY <1>1
<1>3. InApp.at = "app" /\ ~ InApp.sig
  BY DEF InApp
<1>4. QED
  BY <1>1, <1>2, <1>3 DEF MaskInv

\* Every step but the faulty release keeps the masks in order.
LEMMA MaskStep ==
  ASSUME TypeOK, MaskInv, [Next]_vars, "ReleaseUnowned" \notin Calls
  PROVE  MaskInv'
<1>1. store \in Store /\ cur \in Thread /\ frame \in [Thread -> Frame]
  BY MaskRanges DEF TypeOK, WellFormed
<1>2. CASE VMThreadCreate \/ VMMutexCreate \/ \E m \in Mutex : VMMutexDelete(m)
  <2>1. \A prio : InsertThread(store, prio).current = store.current
    BY <1>1 DEF Store, InsertThread
  <2>2. /\ \A junk : InsertMutex(store, junk).current = store.current
        /\ \A m \in Mutex : DeleteFromVM(store, m).current = store.current
    BY <1>1 DEF Store, InsertMutex, DeleteFromVM
  <2>3. frame' = frame /\ masked' = masked /\ store'.current = store.current
    BY <1>2, <2>1, <2>2 DEF VMThreadCreate, VMMutexCreate, VMMutexDelete, Finish
  <2>4. QED
    BY <2>3, SameMask
<1>3. CASE VMThreadYield \/ VMFile \/ \E n \in Timeouts : VMThreadSleep(n)
  BY <1>3, EnterMask DEF VMThreadYield, VMFile, VMThreadSleep, Calling
<1>4. CASE \E t \in Thread : VMThreadActivate(t) \/ VMThreadDelete(t) \/ VMThreadTerminate(t)
  BY <1>4, EnterMask DEF VMThreadActivate, VMThreadDelete, VMThreadTerminate, Calling
<1>5. CASE \E m \in Mutex : VMMutexAcquire(m) \/ VMMutexRelease(m)
  <2>1. ASSUME NEW m \in Mutex, VMMutexAcquire(m)
        PROVE  MaskInv'
    <3>1. frame[cur].at = "app"
      BY <2>1 DEF VMMutexAcquire, Calling
    <3>2. PICK n \in Nat \union {ImmediateTimeout}, at \in {"lock", "trylock"} :
            Acquire(m, n, at)
      BY <2>1, AcquireTimeout DEF VMMutexAcquire
    <3>3. QED
      BY <3>1, <3>2, EnterMask DEF Acquire
  <2>2. ASSUME NEW m \in Mutex, VMMutexRelease(m)
        PROVE  MaskInv'
    BY <2>2, EnterMask DEF VMMutexRelease, Calling
  <2>3. QED
    BY <1>5, <2>1, <2>2
<1>6. CASE \E m \in Mutex : VMMutexReleaseUnowned(m)
  BY <1>6 DEF VMMutexReleaseUnowned, Calling
<1>7. CASE SafeEntry
  BY <1>7, BackToApplication DEF SafeEntry
<1>8. CASE Return \/ AcquireReturn
  <2>1. ~ frame[cur].sig
    BY <1>1, <1>8 DEF Return, AcquireReturn, Owes, MaskInv
  <2>2. QED
    BY <1>8, <2>1, BackToApplication DEF Return, AcquireReturn, Resume
<1>9. CASE KillRelease \/ TimerWake
  BY <1>1, <1>9, KernelStepMask DEF KillRelease, TimerWake, Visiting, Owes
<1>10. CASE KillFinish \/ TimerDone
  <2>1. frame' = [frame EXCEPT ![cur].at = "ret"] /\ frame[cur].at \in {"kill", "timer"}
    BY <1>10 DEF KillFinish, TimerDone, Owes
  <2>2. frame' \in [Thread -> Frame]
    BY <1>1, <2>1 DEF Frame
  <2>3. frame'[cur].at = "ret" /\ frame'[cur].sig = frame[cur].sig
    BY <1>1, <2>1 DEF Frame
  <2>4. QED
    BY <1>1, <2>1, <2>2, <2>3, KernelStepMask
<1>11. CASE TimerKeep \/ TimerCountdown
  <2>1. frame' = [frame EXCEPT ![cur].arg = @ + 1] /\ frame[cur].at = "timer"
    BY <1>11 DEF TimerKeep, TimerCountdown, NextInWaitList, Visiting, Owes
  <2>2. frame' \in [Thread -> Frame]
    BY <1>1, <2>1 DEF Frame
  <2>3. frame'[cur].at = "timer" /\ frame'[cur].sig = frame[cur].sig
    BY <1>1, <2>1 DEF Frame
  <2>4. QED
    BY <1>1, <2>1, <2>2, <2>3, KernelStepMask
<1>12. CASE TimerInterrupt
  <2>1. /\ frame' = [frame EXCEPT ![cur] = [at |-> "timer", sig |-> FALSE, arg |-> 1]]
        /\ frame[cur].at = "app"
    BY <1>12 DEF TimerInterrupt, Interruptible
  <2>2. frame'[cur].at = "timer" /\ ~ frame'[cur].sig
    BY <1>1, <2>1
  <2>3. \A t \in Thread \ {cur} : frame'[t] = frame[t] /\ frame[t].at # "app"
    BY <1>1, <2>1 DEF MaskInv
  <2>4. QED
    BY <2>2, <2>3 DEF MaskInv
<1>13. CASE MachineFileIOCallback
  <2>1. store'.current = store.current
    BY <1>1, <1>13 DEF MachineFileIOCallback, Store
  <2>2. QED
    BY <1>13, <2>1, SameMask DEF MachineFileIOCallback
<1>14. CASE \/ \E t \in Thread : MachineReplySignalHandler(t)
            \/ IdleSpin \/ UNCHANGED vars
  BY <1>14, SameMask DEF MachineReplySignalHandler, IdleSpin, vars
<1>15. QED
  BY <1>2, <1>3, <1>4, <1>5, <1>6, <1>7, <1>8, <1>9, <1>10, <1>11, <1>12, <1>13, <1>14
  DEF Next, Call, Kernel

\* An application that never releases a mutex it does not own is preemptible
\* whenever it runs: no call, interrupt, first run or reactivation of a thread
\* gives the application back the processor with the signals blocked.
THEOREM AlwaysPreemptible ==
  ASSUME "ReleaseUnowned" \notin Calls
  PROVE  Spec => []ApplicationIsPreemptible
<1>1. Init => TypeOK /\ MaskInv
  <2>1. Init => TypeOK
    BY InitType
  <2>2. Init => MaskInv
    BY DEF Init, InitStore, MaskInv, InApp, AtStart, cur
  <2>3. QED
    BY <2>1, <2>2
<1>2. TypeOK /\ MaskInv /\ [Next]_vars => (TypeOK /\ MaskInv)'
  BY NextType, MaskStep
<1>3. TypeOK /\ MaskInv => ApplicationIsPreemptible
  BY MaskRanges DEF MaskInv, ApplicationIsPreemptible
<1>4. QED
  BY <1>1, <1>2, <1>3, PTL DEF Spec

=============================================================================
