--------------------------- MODULE IOCorrectness ----------------------------
(***************************************************************************)
(* What makes the machine layer correct: properties of MachineIO.tla.      *)
(***************************************************************************)
EXTENDS MachineIO

\* The places a request can be in between msgsnd and its callback.
InRequests(i) == {j \in DOMAIN requests : requests[j].id = i /\ requests[j].op # "terminate"}
InReads(i)    == {j \in DOMAIN reads : reads[j].id = i}
InAnswer(i)   == IF child = "reply" /\ answer = i THEN {1} ELSE {}
InReplies(i)  == {j \in DOMAIN replies : replies[j].id = i}
InHandlers(i) == {t \in Thread : handler[t].at = "apply" /\ handler[t].id = i}
InOutbox(i)   == {t \in {cur} : call[t] = "send" /\ outbox.id = i /\ outbox.op # "terminate"}

Places(i) ==
  Cardinality(InOutbox(i)) + Cardinality(InRequests(i)) + Cardinality(InReads(i))
    + Cardinality(InAnswer(i)) + Cardinality(InReplies(i)) + Cardinality(InHandlers(i))

\* Until the child is gone: a request that has an entry in the table of callbacks is in
\* exactly one place on its way to the child and back, and nothing else is on
\* that way.  So every request is answered once, whatever the interleaving of
\* handlers, coalesced signals and rounds of the child.
EachRequestInOnePlace ==
  child # "gone" =>
    \A i \in Id : Places(i) = (IF table[i] \in Thread THEN 1 ELSE 0)

\* While the parent runs: a reply that lies in the queue has a signal on its
\* way, or a handler that has not finished with the queue.
NoReplyForgotten ==
  parent = "up" /\ replies # <<>> =>
    \/ usr2.parent
    \/ child = "kick"
    \/ \E t \in Thread : handler[t] # NoHandler

\* A request that lies in the queue has a signal on its way, or a child that has
\* not finished with the queue.  A parent that dies may leave one without.
NoRequestForgotten ==
  parent = "up" /\ requests # <<>> =>
    \/ usr2.child
    \/ call[cur] = "kick"
    \/ child = "drain"
    \/ child \in {"reply", "kick"} /\ back = "drain"

ParentBlocked == parent = "up" /\ call[cur] = "send" /\ Len(requests) = QueueBound
ChildBlocked == child = "reply" /\ Len(replies) = QueueBound

\* With at most 2 * QueueBound + 1 threads that send requests: the parent and
\* the child never wait for room in each other's queue, with their signals blocked.
NeverBothBlocked == ~ (ParentBlocked /\ ChildBlocked)

\* A handler that is about to apply the reply to a caller's request.
AppliesTo(u) == handler[u].at = "apply" /\ table[handler[u].id] \in Thread

\* The handler copies data only for a call that has given it a destination: a
\* reply to another request never has the type of a read.
NoCopyToNull ==
  \A u \in Thread : AppliesTo(u) /\ handler[u].read => dest[handler[u].id]

\* The reply to a read has the type of a read, so the data are copied to the
\* caller before it goes on.
ReadDataIsCopied ==
  \A u \in Thread : AppliesTo(u) /\ dest[handler[u].id] => handler[u].read

\* Every step of the machine layer is a step of the file service or none of its
\* business: see FileService.tla.
Answering(u) == IF AppliesTo(u) THEN table[handler[u].id] ELSE None

Service == INSTANCE FileService WITH
  io      <- [t \in Thread |-> call[t] = "wait"],
  pending <- [t \in Thread |-> IF call[t] = "wait" /\ \A u \in Thread : Answering(u) # t
                               THEN 1 ELSE 0],
  reply   <- [u \in Thread |-> Answering(u)]

ImplementsFileService == Service!Spec

-----------------------------------------------------------------------------
\* Liveness.  Both processes are run by the operating system, and code that
\* runs with the signals blocked runs on.  A blocked signal is delivered when
\* the signals open, and a handler whose thread keeps the processor goes on.
\* Every file becomes readable again and again.
ProcessFairness ==
  /\ WF_vars(ChildStep)
  /\ WF_vars(SendRequest \/ KickChild \/ Join)
  /\ SF_vars(EnterHandler)
  /\ SF_vars(HandlerStep)

FilesReadable == \A f \in File : SF_vars(\E S \in SUBSET File : f \in S /\ ChildPoll(S))

FairSpec == Spec /\ ProcessFairness /\ FilesReadable

Ending == parent # "up" \/ table[requestID] = Null

\* With at most 2 * QueueBound + 1 threads that send requests: every caller is
\* answered, unless the parent is on its way out or the timer has preempted a
\* handler, its own or another one's.
RequestAnswered ==
  \A t \in Thread :
    call[t] = "wait" ~>
      (call[t] = "app" \/ Ending \/ \E u \in Thread \ {cur} : handler[u] # NoHandler)

\* A child whose parent has died or waits for it to exit does exit, unless it gets
\* stuck in msgsnd: nobody reads the replies any more, and nothing else can hold it up.
ChildExits ==
  (parent = "dead" \/ call[cur] = "join") ~> (child = "gone" \/ ChildBlocked)

=============================================================================
