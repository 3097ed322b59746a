-------------------------------- MODULE Lock --------------------------------
(***************************************************************************)
(* What the mutexes promise to an application that terminates nobody and   *)
(* gives up no acquire.  A thread that finds a mutex taken is blocked      *)
(* until it becomes the owner.  A release hands the mutex to the waiter    *)
(* that is served first: the one of the highest priority and, among these, *)
(* the one that has waited longest.  What an acquire tells its caller is   *)
(* true.                                                                   *)
(*                                                                         *)
(* VirtualMachine.tla implements this with three lists for each mutex, a   *)
(* wait list, ready lists, and entries in the TCB of each thread.          *)
(***************************************************************************)
EXTENDS Integers, Sequences

CONSTANTS Thread, Mutex,
          None      \* stands for no owner

VARIABLES
  owner,     \* the owner of each mutex
  waiters,   \* who waits for it, in the order of service
  blocked,   \* the threads that do not run until a release wakes them
  held,      \* the mutexes each thread has been told it owns
  prio       \* the priority of each thread

lockvars == <<owner, waiters, blocked, held, prio>>

Init ==
  /\ owner = [m \in Mutex |-> None]
  /\ waiters = [m \in Mutex |-> <<>>]
  /\ blocked = {}
  /\ held = [t \in Thread |-> {}]

\* The order of service with t added to the queue q.
Insert(q, t) ==
  LET NoLower(u) == prio[u] >= prio[t]
      Lower(u)   == prio[u] < prio[t]
  IN  SelectSeq(q, NoLower) \o <<t>> \o SelectSeq(q, Lower)

Take(t, m) ==
  /\ owner[m] = None
  /\ owner' = [owner EXCEPT ![m] = t]
  /\ UNCHANGED <<waiters, blocked, held, prio>>

Wait(t, m) ==
  /\ owner[m] \notin {None, t}
  /\ t \notin blocked
  /\ waiters' = [waiters EXCEPT ![m] = Insert(@, t)]
  /\ blocked' = blocked \union {t}
  /\ UNCHANGED <<owner, held, prio>>

\* An acquire returns with success.
Conclude(t, m) ==
  /\ owner[m] = t
  /\ t \notin blocked
  /\ held' = [held EXCEPT ![t] = @ \union {m}]
  /\ UNCHANGED <<owner, waiters, blocked, prio>>

Release(t, m) ==
  /\ m \in held[t]
  /\ held' = [held EXCEPT ![t] = @ \ {m}]
  /\ \/ /\ waiters[m] = <<>>
        /\ owner' = [owner EXCEPT ![m] = None]
        /\ UNCHANGED <<waiters, blocked>>
     \/ /\ waiters[m] # <<>>
        /\ owner' = [owner EXCEPT ![m] = Head(waiters[m])]
        /\ waiters' = [waiters EXCEPT ![m] = Tail(@)]
        /\ blocked' = blocked \ {Head(waiters[m])}
  /\ UNCHANGED prio

\* A thread is created.  It has nothing to do with any mutex yet.
Create(t) ==
  /\ \A m \in Mutex : owner[m] # t
  /\ t \notin blocked
  /\ \A u \in Thread \ {t} : prio'[u] = prio[u]
  /\ UNCHANGED <<owner, waiters, blocked, held>>

Next ==
  \/ \E t \in Thread, m \in Mutex :
       Take(t, m) \/ Wait(t, m) \/ Conclude(t, m) \/ Release(t, m)
  \/ \E t \in Thread : Create(t)

Spec == Init /\ [][Next]_lockvars

=============================================================================
