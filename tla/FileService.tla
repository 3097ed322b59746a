---------------------------- MODULE FileService -----------------------------
(***************************************************************************)
(* What the machine layer promises to the virtual machine about files.     *)
(* A thread that sends a request waits (its flag waitingOnIO is set) until *)
(* the machine layer has run its callback.  Every request is answered by   *)
(* one callback, for the thread that sent it.  The callback runs in the    *)
(* handler of SIGUSR2, on the stack of whatever thread is current, some    *)
(* time after the handler has taken the reply.                             *)
(*                                                                         *)
(* MachineIO.tla implements this with two processes, two message queues    *)
(* and signals; VirtualMachine.tla uses it, and is shown to use it in no   *)
(* other way.                                                              *)
(***************************************************************************)
EXTENDS Naturals

CONSTANTS Thread,   \* the threads of the virtual machine
          None      \* stands for no thread

VARIABLES
  io,        \* waitingOnIO, per thread
  pending,   \* requests whose reply is still to come, per thread
  reply      \* whose reply the handler that runs on a thread's stack has taken

fsvars == <<io, pending, reply>>

Init ==
  /\ io = [t \in Thread |-> FALSE]
  /\ pending = [t \in Thread |-> 0]
  /\ reply = [t \in Thread |-> None]

Request(t) ==
  /\ io' = [io EXCEPT ![t] = TRUE]
  /\ pending' = [pending EXCEPT ![t] = @ + 1]
  /\ UNCHANGED reply

Take(u, t) ==
  /\ reply[u] = None
  /\ pending[t] > 0
  /\ pending' = [pending EXCEPT ![t] = @ - 1]
  /\ reply' = [reply EXCEPT ![u] = t]
  /\ UNCHANGED io

Callback(u) ==
  /\ reply[u] # None
  /\ io' = [io EXCEPT ![reply[u]] = FALSE]
  /\ reply' = [reply EXCEPT ![u] = None]
  /\ UNCHANGED pending

Next ==
  \/ \E t \in Thread : Request(t) \/ Callback(t)
  \/ \E u, t \in Thread : Take(u, t)

Spec == Init /\ [][Next]_fsvars

=============================================================================
