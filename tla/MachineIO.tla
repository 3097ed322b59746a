----------------------------- MODULE MachineIO ------------------------------
(***************************************************************************)
(* The file requests of Machine.cpp: the process of the virtual machine    *)
(* (the parent) and the cooperative process that does its system calls     *)
(* (the child), two message queues between them and a SIGUSR2 in each      *)
(* direction.                                                              *)
(*                                                                         *)
(* A signal is one pending bit, so several sends may be announced by one   *)
(* delivery.  Both queues are bounded and msgsnd waits for room, on either *)
(* side with the signals blocked.  The threads of the parent share its     *)
(* handler of SIGUSR2: the handler runs on the stack of the current thread *)
(* and the alarm may switch threads in the middle of it.                   *)
(*                                                                         *)
(* A thread sends a request only in application code and waits for the     *)
(* callback, as the calls VMFile* do.  Nobody terminates a thread that     *)
(* waits.                                                                  *)
(***************************************************************************)
EXTENDS Naturals, Sequences, FiniteSets, SequencesExt

CONSTANTS
  Thread,       \* the threads of the virtual machine
  Main,         \* the thread that runs VMStart
  Idle,         \* the idle thread, which sends no request
  None, Null,   \* no entry in the table, an entry with a NULL callback
  File,         \* the files that are read
  Requests,     \* the requests the application makes, see Op
  QueueBound,   \* the messages one queue holds
  IdModulus,    \* request ids are unsigned and wrap: 2^32 in the code
  Endings       \* how the parent may end: a subset of {"Terminate", "Crash"}

\* A read of a file waits until the file is readable; open, write, seek and
\* close are answered at once.
Op == File \union {"now"}

ASSUME ThreadsAssumption ==
  IsFiniteSet(Thread) /\ Main \in Thread /\ Idle \in Thread /\ Main # Idle
ASSUME NoneAssumption == None \notin Thread /\ Null \notin Thread /\ None # Null
ASSUME FileAssumption == "now" \notin File /\ "terminate" \notin File
ASSUME RequestsAssumption == Requests \subseteq Op
ASSUME QueueBoundAssumption == QueueBound \in Nat \ {0}
ASSUME IdModulusAssumption == IdModulus \in Nat \ {0}

VARIABLES
  parent,     \* the process of the virtual machine
  cur,        \* the thread whose stack it runs on
  call,       \* what each thread does
  handler,    \* the handler of SIGUSR2 on the stack of each thread
  outbox,     \* the message the current thread is sending
  requestID,  \* MachineRequestID
  table,      \* MachinePendingCallbacks: the thread to call back, per id
  dest,       \* and whether DDestination says where the data read are to go
  requests,   \* the queue DRequestChannel
  replies,    \* the queue DReplyChannel
  usr2,       \* SIGUSR2 pending, for either process
  child,      \* where the child is in its loop
  reads,      \* PendingReads
  ready,      \* the files whose revents are still to be looked at
  isRead,     \* is the DType in the child's only message buffer that of a read?
  answer,     \* the id of the reply the child is sending
  back,       \* where it goes on after that
  terminated  \* Terminated

parentVars == <<parent, cur, call, handler, outbox, requestID, table, dest>>
childVars == <<child, reads, ready, isRead, answer, back, terminated>>
vars == <<parentVars, requests, replies, usr2, childVars>>

Id == 0..(IdModulus - 1)
Message == [id : Id, op : Op \union {"terminate"}]
Reply == [id : Id, read : BOOLEAN]
Read == [id : Id, fd : File]
Handler == [at : {"out", "drain", "apply"}, id : Id, read : BOOLEAN]
NoMessage == [id |-> 0, op |-> "now"]
NoHandler == [at |-> "out", id |-> 0, read |-> FALSE]
Draining == [at |-> "drain", id |-> 0, read |-> FALSE]

Types ==
  /\ parent \in {"up", "closed", "dead"}
  /\ cur \in Thread
  /\ call \in [Thread -> {"app", "send", "kick", "wait", "join"}]
  /\ handler \in [Thread -> Handler]
  /\ outbox \in Message
  /\ requestID \in Id
  /\ table \in [Id -> Thread \union {None, Null}]
  /\ dest \in [Id -> BOOLEAN]
  /\ requests \in Seq(Message)
  /\ replies \in Seq(Reply)
  /\ usr2 \in [parent : BOOLEAN, child : BOOLEAN]
  /\ child \in {"poll", "window", "drain", "reply", "kick", "serve", "gone"}
  /\ reads \in Seq(Read)
  /\ ready \subseteq File
  /\ isRead \in BOOLEAN
  /\ answer \in Id
  /\ back \in {"drain", "serve"}
  /\ terminated \in BOOLEAN

\* The timer takes the processor from no thread that is in the middle of a call: no
\* other thread changes outbox and requestID under it.
OneCaller == \A t \in Thread : call[t] \in {"send", "kick", "join"} => t = cur

PollFDs == {reads[i].fd : i \in DOMAIN reads}

\* The type invariant: types, one caller at a time, and a read in PendingReads for every
\* file whose revents the child has still to look at.
TypeOK == Types /\ OneCaller /\ ready \subseteq PollFDs

\* MachineInitialize has forked the child and installed the handlers.
Init ==
  /\ parent = "up" /\ cur = Main
  /\ call = [t \in Thread |-> "app"]
  /\ handler = [t \in Thread |-> NoHandler]
  /\ outbox = NoMessage
  /\ requestID = 0
  /\ table = [i \in Id |-> None]
  /\ dest = [i \in Id |-> FALSE]
  /\ requests = <<>> /\ replies = <<>>
  /\ usr2 = [parent |-> FALSE, child |-> FALSE]
  /\ child = "poll"
  /\ reads = <<>> /\ ready = {} /\ isRead = FALSE
  /\ answer = 0 /\ back = "serve" /\ terminated = FALSE

-----------------------------------------------------------------------------
\* The parent.  Signals are open while the current thread is in application
\* code; the handler of SIGUSR2 blocks SIGUSR2 only.

Open == parent = "up" /\ call[cur] = "app"

InApplication == Open /\ handler[cur] = NoHandler

\* A signal that is pending when the signals open is delivered before anything
\* else; one that comes later might as well come when they are closed again.
Delivered == ~ usr2.parent \/ handler[cur] # NoHandler

Runnable == {t \in Thread : call[t] = "app"}

NextID == (requestID + 1) % IdModulus

\* bound: nobody waits so long that the ids come round to his.
NotOvertaken == table[NextID] = None

\* Mutant of AddRequest: the destination of a read is not passed on.
AddRequestNoDestination(callee, op) ==
  /\ requestID' = NextID
  /\ table' = [table EXCEPT ![NextID] = callee]
  /\ dest' = [dest EXCEPT ![NextID] = FALSE]
  /\ outbox' = [id |-> NextID, op |-> op]
  /\ call' = [call EXCEPT ![cur] = "send"]
  /\ UNCHANGED <<parent, cur, handler, requests, replies, usr2, childVars>>

AddRequest(callee, op) ==
  /\ requestID' = NextID
  /\ table' = [table EXCEPT ![NextID] = callee]
  /\ dest' = [dest EXCEPT ![NextID] = op \in File]
  /\ outbox' = [id |-> NextID, op |-> op]
  /\ call' = [call EXCEPT ![cur] = "send"]
  /\ UNCHANGED <<parent, cur, handler, requests, replies, usr2, childVars>>

\* MachineFileOpen, Read, Write, Seek and Close, up to msgsnd.
MachineFile(op) ==
  /\ InApplication /\ Delivered /\ cur # Idle
  /\ NotOvertaken
  /\ AddRequest(cur, op)

\* The main thread leaves VMStart, or the timer finds the idle thread alone.
MachineTerminate ==
  /\ "Terminate" \in Endings
  /\ Delivered
  /\ \/ InApplication /\ cur = Main
     \/ Open /\ cur = Idle /\ Runnable = Thread
  /\ NotOvertaken
  /\ AddRequest(Null, "terminate")

\* msgsnd waits for room, with all signals blocked.
SendRequest ==
  /\ parent = "up" /\ call[cur] = "send"
  /\ Len(requests) < QueueBound
  /\ requests' = Append(requests, outbox)
  /\ call' = [call EXCEPT ![cur] = "kick"]
  /\ UNCHANGED <<parent, cur, handler, outbox, requestID, table, dest, replies, usr2, childVars>>

\* Mutant of KickChild: the caller goes on without waiting for its callback.
KickChildAndGoOn ==
  /\ parent = "up" /\ call[cur] = "kick"
  /\ usr2' = [usr2 EXCEPT !.child = TRUE]
  /\ call' = [call EXCEPT ![cur] = IF outbox.op = "terminate" THEN "join" ELSE "app"]
  /\ outbox' = NoMessage
  /\ UNCHANGED <<parent, cur, handler, requestID, table, dest, requests, replies, childVars>>

\* kill(child); then the caller waits on I/O and another thread runs, or it
\* waits for the child to exit.
KickChild ==
  /\ parent = "up" /\ call[cur] = "kick"
  /\ usr2' = [usr2 EXCEPT !.child = TRUE]
  /\ IF outbox.op = "terminate"
     THEN call' = [call EXCEPT ![cur] = "join"] /\ UNCHANGED cur
     ELSE /\ call' = [call EXCEPT ![cur] = "wait"]
          /\ cur' \in Runnable
  /\ outbox' = NoMessage
  /\ UNCHANGED <<parent, handler, requestID, table, dest, requests, replies, childVars>>

\* wait(): the child has exited.
Join ==
  /\ parent = "up" /\ call[cur] = "join"
  /\ child = "gone"
  /\ parent' = "closed"
  /\ UNCHANGED <<cur, call, handler, outbox, requestID, table, dest, requests, replies, usr2, childVars>>

\* Mutant of Alarm: the calls leave the alarm open.
AlarmInCalls(t) ==
  /\ parent = "up" /\ Delivered
  /\ t \in Runnable \ {cur}
  /\ cur' = t
  /\ UNCHANGED <<parent, call, handler, outbox, requestID, table, dest, requests, replies, usr2, childVars>>

\* The timer switches threads, also in the middle of a handler.
Alarm(t) ==
  /\ Open /\ Delivered
  /\ t \in Runnable \ {cur}
  /\ cur' = t
  /\ UNCHANGED <<parent, call, handler, outbox, requestID, table, dest, requests, replies, usr2, childVars>>

\* SIGUSR2 is delivered.
EnterHandler ==
  /\ InApplication
  /\ usr2.parent
  /\ usr2' = [usr2 EXCEPT !.parent = FALSE]
  /\ handler' = [handler EXCEPT ![cur] = Draining]
  /\ UNCHANGED <<parent, cur, call, outbox, requestID, table, dest, requests, replies, childVars>>

\* msgrcv takes a reply.
ReceiveReply ==
  /\ Open /\ handler[cur] = Draining
  /\ replies # <<>>
  /\ handler' = [handler EXCEPT ![cur] = [at |-> "apply", id |-> Head(replies).id, read |-> Head(replies).read]]
  /\ replies' = Tail(replies)
  /\ UNCHANGED <<parent, cur, call, outbox, requestID, table, dest, requests, usr2, childVars>>

Applying == Open /\ handler[cur].at = "apply"

\* Mutants of ApplyReply: the handler returns after one reply; the callback is
\* run for the thread on whose stack the handler runs.
ApplyReplyAndLeave ==
  /\ Applying
  /\ LET i == handler[cur].id
     IN  /\ call' = [t \in Thread |-> IF t = table[i] /\ call[t] = "wait" THEN "app" ELSE call[t]]
         /\ table' = [table EXCEPT ![i] = None]
         /\ dest' = [dest EXCEPT ![i] = FALSE]
  /\ handler' = [handler EXCEPT ![cur] = NoHandler]
  /\ UNCHANGED <<parent, cur, outbox, requestID, requests, replies, usr2, childVars>>

ApplyReplyToCurrent ==
  /\ Applying
  /\ LET i == handler[cur].id
     IN  /\ call' = [call EXCEPT ![cur] = "app"]
         /\ table' = [table EXCEPT ![i] = None]
         /\ dest' = [dest EXCEPT ![i] = FALSE]
  /\ handler' = [handler EXCEPT ![cur] = Draining]
  /\ UNCHANGED <<parent, cur, outbox, requestID, requests, replies, usr2, childVars>>

\* The id is looked up in the table, its entry erased, the data are copied if the
\* reply's DType is that of a read, and the callback is called; an unknown id is
\* dropped.
ApplyReply ==
  /\ Applying
  /\ LET i == handler[cur].id
     IN  /\ call' = [t \in Thread |-> IF t = table[i] /\ call[t] = "wait" THEN "app" ELSE call[t]]
         /\ table' = [table EXCEPT ![i] = None]
         /\ dest' = [dest EXCEPT ![i] = FALSE]
  /\ handler' = [handler EXCEPT ![cur] = Draining]
  /\ UNCHANGED <<parent, cur, outbox, requestID, requests, replies, usr2, childVars>>

\* msgrcv finds the queue empty.
LeaveHandler ==
  /\ Open /\ handler[cur] = Draining
  /\ replies = <<>>
  /\ handler' = [handler EXCEPT ![cur] = NoHandler]
  /\ UNCHANGED <<parent, cur, call, outbox, requestID, table, dest, requests, replies, usr2, childVars>>

\* The process of the virtual machine is killed.
ParentDies ==
  /\ "Crash" \in Endings
  /\ parent = "up"
  /\ parent' = "dead"
  /\ UNCHANGED <<cur, call, handler, outbox, requestID, table, dest, requests, replies, usr2, childVars>>

-----------------------------------------------------------------------------
\* The child.  Its signals are blocked except between MachineResumeSignals and
\* MachineSuspendSignals, so SIGUSR2 is noticed once in each round.

\* poll() returns some readable files, or none at the timeout.
ChildPoll(S) ==
  /\ child = "poll"
  /\ S \subseteq PollFDs
  /\ ready' = S
  /\ child' = "window"
  /\ UNCHANGED <<parentVars, requests, replies, usr2, reads, isRead, answer, back, terminated>>

\* Mutant of ChildWindow: the child does not look whether its parent is alive.
ChildWindowOrphan ==
  /\ child = "window"
  /\ usr2' = [usr2 EXCEPT !.child = FALSE]
  /\ child' = IF usr2.child THEN "drain" ELSE "serve"
  /\ UNCHANGED <<parentVars, requests, replies, reads, ready, isRead, answer, back, terminated>>

\* The signals are open for an instant.  With nothing to do the child looks
\* whether its parent is alive.
ChildWindow ==
  /\ child = "window"
  /\ usr2' = [usr2 EXCEPT !.child = FALSE]
  /\ child' = IF usr2.child THEN "drain" ELSE "serve"
  /\ terminated' = (terminated \/ (~ usr2.child /\ ready = {} /\ parent = "dead"))
  /\ UNCHANGED <<parentVars, requests, replies, reads, ready, isRead, answer, back>>

\* Mutant of ChildDrain: one request in each round.
ChildDrainOne ==
  /\ child = "drain"
  /\ IF requests = <<>>
     THEN child' = "serve" /\ UNCHANGED <<requests, reads, isRead, answer, back, terminated>>
     ELSE LET m == Head(requests)
          IN  /\ requests' = Tail(requests)
              /\ reads' = IF m.op \in File THEN Append(reads, [id |-> m.id, fd |-> m.op]) ELSE reads
              /\ isRead' = (m.op \in File)
              /\ terminated' = (terminated \/ m.op = "terminate")
              /\ child' = IF m.op = "now" THEN "reply" ELSE "serve"
              /\ answer' = IF m.op = "now" THEN m.id ELSE answer
              /\ back' = "serve"
  /\ UNCHANGED <<parentVars, replies, usr2, ready>>

\* The loop over the request queue: one message, or the end of the loop.  The
\* reply to open, write, seek and close is made in place in the buffer.
ChildDrain ==
  /\ child = "drain"
  /\ IF requests = <<>>
     THEN child' = "serve" /\ UNCHANGED <<requests, reads, isRead, answer, back, terminated>>
     ELSE LET m == Head(requests)
          IN  /\ requests' = Tail(requests)
              /\ reads' = IF m.op \in File THEN Append(reads, [id |-> m.id, fd |-> m.op]) ELSE reads
              /\ isRead' = (m.op \in File)
              /\ terminated' = (terminated \/ m.op = "terminate")
              /\ child' = IF m.op = "now" THEN "reply" ELSE "drain"
              /\ answer' = IF m.op = "now" THEN m.id ELSE answer
              /\ back' = "drain"
  /\ UNCHANGED <<parentVars, replies, usr2, ready>>

\* MachineSendReply: msgsnd waits for room, then kill(parent).
ChildReply ==
  /\ child = "reply"
  /\ Len(replies) < QueueBound
  /\ replies' = Append(replies, [id |-> answer, read |-> isRead])
  /\ child' = "kick"
  /\ UNCHANGED <<parentVars, requests, usr2, reads, ready, isRead, answer, back, terminated>>

ChildKick ==
  /\ child = "kick"
  /\ usr2' = [usr2 EXCEPT !.parent = TRUE]
  /\ child' = back
  /\ answer' = 0 /\ back' = "serve"
  /\ UNCHANGED <<parentVars, requests, replies, reads, ready, isRead, terminated>>

IsFirstRead(i, f) == reads[i].fd = f /\ \A j \in 1..(i - 1) : reads[j].fd # f

\* Mutant of ChildServe: the read stays in PendingReads.
ChildServeKeeps(f) ==
  /\ child = "serve"
  /\ f \in ready
  /\ ready' = ready \ {f}
  /\ \E i \in DOMAIN reads : IsFirstRead(i, f) /\ answer' = reads[i].id
  /\ child' = "reply" /\ back' = "serve"
  /\ UNCHANGED <<parentVars, requests, replies, usr2, reads, isRead, terminated>>

\* The first pending read of a ready file is done and answered, one for each
\* file in a round.  A file that was polled has a pending read.  The reply is
\* made in the buffer of the last request, whose DType it keeps.
ChildServe(f) ==
  /\ child = "serve"
  /\ f \in ready
  /\ ready' = ready \ {f}
  /\ \E i \in DOMAIN reads :
       /\ IsFirstRead(i, f)
       /\ answer' = reads[i].id
       /\ reads' = RemoveAt(reads, i)
  /\ child' = "reply" /\ back' = "serve"
  /\ UNCHANGED <<parentVars, requests, replies, usr2, isRead, terminated>>

\* The end of a round.  A terminated child removes both queues and exits.
ChildRound ==
  /\ child = "serve"
  /\ ready = {}
  /\ IF terminated
     THEN child' = "gone" /\ requests' = <<>> /\ replies' = <<>>
     ELSE child' = "poll" /\ UNCHANGED <<requests, replies>>
  /\ UNCHANGED <<parentVars, usr2, reads, ready, isRead, answer, back, terminated>>

\* Both processes have done what they had to do.
Over == parent # "up" /\ child = "gone" /\ UNCHANGED vars

-----------------------------------------------------------------------------
HandlerStep == ReceiveReply \/ ApplyReply \/ LeaveHandler

Parent ==
  \/ \E op \in Requests : MachineFile(op)
  \/ MachineTerminate \/ SendRequest \/ KickChild \/ Join
  \/ \E t \in Thread : Alarm(t)
  \/ EnterHandler \/ HandlerStep

ChildStep ==
  \/ ChildPoll({})
  \/ ChildWindow \/ ChildDrain \/ ChildReply \/ ChildKick \/ ChildRound
  \/ \E f \in File : ChildServe(f)

Next ==
  \/ Parent \/ ParentDies
  \/ ChildStep \/ \E S \in SUBSET File : ChildPoll(S)
  \/ Over

Spec == Init /\ [][Next]_vars

=============================================================================
