----------------------------- MODULE ThreadExit -----------------------------
(***************************************************************************)
(* A thread whose entry function returns.  safeEntry() then calls          *)
(* terminateCurrentThread() as a plain function: no call has blocked the   *)
(* signals, so the timer may preempt the thread between any two steps of   *)
(* terminate(), of Mutex::release() and of schedule(), and other threads   *)
(* work on the lists these are about to change.                            *)
(*                                                                         *)
(* The steps are those another thread can come between with every list in  *)
(* one piece; an interrupt inside a list operation is not modelled, nor    *)
(* one inside the hand-over to a waiter.  So this module shows what can go *)
(* wrong on this path, not that nothing else can.  A thread returns with   *)
(* every mutex in its list its own, as without timed acquires it must.     *)
(***************************************************************************)
EXTENDS VMCorrectness

VARIABLE exit    \* how far each thread is in safeEntry, after its entry function

xvars == <<vars, exit>>

Step == {"run", "release", "check", "free", "grant", "dead", "list", "pick",
         "switch", "abort"}

\* mutex is the one being released, next the thread to switch to.
Exit == [at : Step, mutex : Mutex, next : Thread]

ExitTypeOK == TypeOK /\ exit \in [Thread -> Exit]

ExitInit ==
  /\ Init
  /\ exit = [t \in Thread |-> [at |-> "run", mutex |-> 0, next |-> Idle]]

At(step) == up /\ frame[cur].at = "app" /\ reply[cur] = None /\ exit[cur].at = step

GoTo(step) == exit' = [exit EXCEPT ![cur].at = step]

\* The entry function returns to safeEntry().
EntryReturns ==
  /\ At("run") /\ cur \notin {Main, Idle}
  /\ GoTo("release")
  /\ UNCHANGED vars

\* The loop of releaseMutexes(): pop an entry, then removeMutex() in release().
ExitPopEntry ==
  /\ At("release")
  /\ LET q == store.tcb[cur].entries
     IN  /\ q # <<>>
         /\ LET m == Head(q).mutex
            IN  /\ store' = RemoveMutex([store EXCEPT !.tcb[cur].entries = Tail(@)], cur, m)
                /\ held' = [held EXCEPT ![cur] = @ \ {m}]
                /\ exit' = [exit EXCEPT ![cur].at = "check", ![cur].mutex = m]
  /\ UNCHANGED <<frame, masked, up, pending, reply, owed>>

\* release() looks whether anybody waits.
ExitCheckWaiters ==
  /\ At("check")
  /\ GoTo(IF NoWaiters(store, exit[cur].mutex) THEN "free" ELSE "grant")
  /\ UNCHANGED vars

ExitFreeMutex ==
  /\ At("free")
  /\ store' = [store EXCEPT !.mutex[exit[cur].mutex].owner = None]
  /\ GoTo("release")
  /\ UNCHANGED <<frame, masked, up, pending, reply, held, owed>>

\* The rest of release(): the first waiter becomes the owner and leaves the wait
\* list; one of a higher priority runs at once.
ExitGrantMutex ==
  /\ At("grant")
  /\ store' = MutexRelease(store, exit[cur].mutex)
  /\ GoTo("release")
  /\ UNCHANGED <<frame, masked, up, pending, reply, held, owed>>

ExitReleasedAll ==
  /\ At("release")
  /\ store.tcb[cur].entries = <<>>
  /\ GoTo("dead")
  /\ UNCHANGED vars

ExitMarkDead ==
  /\ At("dead")
  /\ store' = SetState(store, cur, "DEAD")
  /\ GoTo("list")
  /\ UNCHANGED <<frame, masked, up, pending, reply, held, owed>>

ExitPushDead ==
  /\ At("list")
  /\ store' = [store EXCEPT !.deadList = @ \union {cur}]
  /\ GoTo("pick")
  /\ UNCHANGED <<frame, masked, up, pending, reply, held, owed>>

\* schedule() takes a thread out of its ready list; it returns at once to a thread
\* that somebody has activated meanwhile and that is alone.
ExitPickNext ==
  /\ At("pick")
  /\ IF NothingReady(store) /\ State(cur) = "RUNNING"
     THEN GoTo("abort") /\ UNCHANGED store
     ELSE LET l == NextLevel(store, High)
          IN  /\ store' = PopReady(store, l)
              /\ exit' = [exit EXCEPT ![cur].at = "switch", ![cur].next = Head(store.ready[l])]
  /\ UNCHANGED <<frame, masked, up, pending, reply, held, owed>>

\* switchToNewThread(); a thread that is activated again goes on behind it.
ExitSwitch ==
  /\ At("switch")
  /\ store' = SwitchToNewThread(store, exit[cur].next)
  /\ GoTo("abort")
  /\ UNCHANGED <<frame, masked, up, pending, reply, held, owed>>

\* safeEntry() returns to MachineContextCreateBoot().
ExitAbort ==
  /\ At("abort")
  /\ up' = FALSE
  /\ UNCHANGED <<store, frame, masked, pending, reply, held, owed, exit>>

ExitStep ==
  \/ ExitPopEntry \/ ExitCheckWaiters \/ ExitFreeMutex \/ ExitGrantMutex
  \/ ExitReleasedAll \/ ExitMarkDead \/ ExitPushDead \/ ExitPickNext
  \/ ExitSwitch \/ ExitAbort

\* Everything else is as before; a thread that is exiting makes no calls.
ExitNext ==
  \/ EntryReturns
  \/ ExitStep
  \/ Next /\ (Call => exit[cur].at = "run") /\ UNCHANGED exit

ExitSpec == ExitInit /\ [][ExitNext]_xvars

=============================================================================
