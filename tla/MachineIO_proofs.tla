-------------------------- MODULE MachineIO_proofs --------------------------
(***************************************************************************)
(* Theorems about the machine layer, for any number of threads and files,  *)
(* any bound of the queues and any modulus of the request ids.             *)
(***************************************************************************)
EXTENDS IOCorrectness, SequenceFacts, TLAPS

\* The ids are closed under counting on.
LEMMA Ids == 0 \in Id /\ Id \subseteq Nat /\ \A i \in Nat : (i + 1) % IdModulus \in Id
BY IdModulusAssumption DEF Id

\* The values that stand for nothing are of the types of the others.
LEMMA Values ==
  /\ NoMessage \in Message
  /\ NoHandler \in Handler
  /\ Draining \in Handler
BY Ids DEF Message, NoMessage, NoHandler, Draining, Handler, Op

\* The first state is of the right types.
LEMMA InitTypes == Init => Types
<1> SUFFICES ASSUME Init PROVE Types
  OBVIOUS
<1>1. <<>> \in Seq(Message) /\ <<>> \in Seq(Reply) /\ <<>> \in Seq(Read)
  OBVIOUS
<1>2. QED
  BY <1>1, Ids, Values, ThreadsAssumption DEF Init, Types

\* The steps of the parent keep the types.
LEMMA ParentTypes == Types /\ (Parent \/ ParentDies) => Types'
<1> SUFFICES ASSUME Types, Parent \/ ParentDies PROVE Types'
  OBVIOUS
<1> USE DEF childVars
<1>1. ASSUME NEW callee \in Thread \union {Null}, NEW op \in Op \union {"terminate"},
             AddRequest(callee, op)
      PROVE  Types'
  <2>1. NextID \in Id
    BY Ids DEF Types, NextID
  <2>2. [id |-> NextID, op |-> op] \in Message
    BY <2>1 DEF Message
  <2>3. QED
    BY <1>1, <2>1, <2>2 DEF AddRequest, Types
<1>2. CASE \E op \in Requests : MachineFile(op)
  <2>1. PICK op \in Requests : MachineFile(op)
    BY <1>2
  <2>2. op \in Op /\ AddRequest(cur, op) /\ cur \in Thread
    BY <2>1, RequestsAssumption DEF MachineFile, Types
  <2>3. QED
    BY <2>2, <1>1
<1>3. CASE MachineTerminate
  BY <1>3, <1>1 DEF MachineTerminate
<1>4. CASE SendRequest
  <2>1. Append(requests, outbox) \in Seq(Message)
    BY AppendProperties DEF Types
  <2>2. QED
    BY <1>4, <2>1 DEF SendRequest, Types
<1>5. CASE KickChild
  <2>1. cur' \in Thread /\ call' \in [Thread -> {"app", "send", "kick", "wait", "join"}]
    BY <1>5 DEF KickChild, Types, Runnable
  <2>2. usr2' \in [parent : BOOLEAN, child : BOOLEAN]
    BY <1>5 DEF KickChild, Types
  <2>3. QED
    BY <1>5, <2>1, <2>2, Values DEF KickChild, Types
<1>6. CASE Join
  BY <1>6 DEF Join, Types
<1>7. CASE \E t \in Thread : Alarm(t)
  BY <1>7 DEF Alarm, Types
<1>8. CASE EnterHandler
  <2>1. usr2' \in [parent : BOOLEAN, child : BOOLEAN]
    BY <1>8 DEF EnterHandler, Types
  <2>2. QED
    BY <1>8, <2>1, Values DEF EnterHandler, Types
<1>9. CASE ReceiveReply
  <2>1. Head(replies) \in Reply /\ Tail(replies) \in Seq(Reply)
    BY <1>9, HeadTailProperties DEF ReceiveReply, Types
  <2>2. [at |-> "apply", id |-> Head(replies).id, read |-> Head(replies).read] \in Handler
    BY <2>1 DEF Reply, Handler
  <2>3. QED
    BY <1>9, <2>1, <2>2 DEF ReceiveReply, Types
<1>10. CASE ApplyReply
  <2>1. call' \in [Thread -> {"app", "send", "kick", "wait", "join"}]
    BY <1>10 DEF ApplyReply, Types
  <2>2. table' \in [Id -> Thread \union {None, Null}] /\ dest' \in [Id -> BOOLEAN]
    BY <1>10 DEF ApplyReply, Types
  <2>3. QED
    BY <1>10, <2>1, <2>2, Values DEF ApplyReply, Types
<1>11. CASE LeaveHandler
  BY <1>11, Values DEF LeaveHandler, Types
<1>12. CASE ParentDies
  BY <1>12 DEF ParentDies, Types
<1>13. QED
  BY <1>2, <1>3, <1>4, <1>5, <1>6, <1>7, <1>8, <1>9, <1>10, <1>11, <1>12
     DEF Parent, HandlerStep

\* The steps of the child keep the types.
LEMMA ChildTypes ==
  Types /\ (ChildStep \/ \E S \in SUBSET File : ChildPoll(S)) => Types'
<1> SUFFICES ASSUME Types, ChildStep \/ \E S \in SUBSET File : ChildPoll(S)
             PROVE  Types'
  OBVIOUS
<1> USE DEF parentVars
<1>1. CASE \E S \in SUBSET File : ChildPoll(S)
  BY <1>1 DEF ChildPoll, Types
<1>2. CASE ChildWindow
  <2>1. usr2' \in [parent : BOOLEAN, child : BOOLEAN]
    BY <1>2 DEF ChildWindow, Types
  <2>2. QED
    BY <1>2, <2>1 DEF ChildWindow, Types
<1>3. CASE ChildDrain
  <2>1. CASE requests = <<>>
    BY <1>3, <2>1 DEF ChildDrain, Types
  <2>2. CASE requests # <<>>
    <3> DEFINE m == Head(requests)
    <3>1. m \in Message /\ requests' = Tail(requests) /\ Tail(requests) \in Seq(Message)
      BY <1>3, <2>2, HeadTailProperties DEF ChildDrain, Types
    <3>2. m.id \in Id
      BY <3>1 DEF Message
    <3>3. m.op \in File => Append(reads, [id |-> m.id, fd |-> m.op]) \in Seq(Read)
      BY <3>2, AppendProperties DEF Read, Types
    <3>4. reads' \in Seq(Read)
      BY <1>3, <2>2, <3>3 DEF ChildDrain, Types
    <3>5. answer' \in Id /\ back' = "drain" /\ child' \in {"reply", "drain"}
          /\ terminated' \in BOOLEAN /\ isRead' \in BOOLEAN
      BY <1>3, <2>2, <3>2 DEF ChildDrain, Types
    <3>6. QED
      BY <1>3, <3>1, <3>4, <3>5 DEF ChildDrain, Types
  <2>3. QED
    BY <2>1, <2>2
<1>4. CASE ChildReply
  <2> DEFINE r == [id |-> answer, read |-> isRead]
  <2>1. Append(replies, r) \in Seq(Reply)
    BY AppendProperties DEF Types, Reply
  <2>2. QED
    BY <1>4, <2>1 DEF ChildReply, Types
<1>5. CASE ChildKick
  <2>1. usr2' \in [parent : BOOLEAN, child : BOOLEAN] /\ child' \in {"drain", "serve"}
    BY <1>5 DEF ChildKick, Types
  <2>2. QED
    BY <1>5, <2>1, Ids DEF ChildKick, Types
<1>6. CASE ChildRound
  <2>1. <<>> \in Seq(Message) /\ <<>> \in Seq(Reply)
    OBVIOUS
  <2>2. QED
    BY <1>6, <2>1 DEF ChildRound, Types
<1>7. CASE \E f \in File : ChildServe(f)
  <2>1. PICK f \in File : ChildServe(f)
    BY <1>7
  <2>2. PICK i \in DOMAIN reads : answer' = reads[i].id /\ reads' = RemoveAt(reads, i)
    BY <2>1 DEF ChildServe
  <2>3. DOMAIN reads = 1..Len(reads) /\ reads[i] \in Read
    BY <2>2, LenProperties, ElementOfSeq DEF Types
  <2>4. reads' \in Seq(Read)
    BY <2>2, <2>3, RemoveAtType DEF Types
  <2>5. answer' \in Id
    BY <2>2, <2>3 DEF Read
  <2>6. QED
    BY <2>1, <2>4, <2>5 DEF ChildServe, Types
<1>8. QED
  BY <1>1, <1>2, <1>3, <1>4, <1>5, <1>6, <1>7 DEF ChildStep

\* The processor changes hands only between calls: the alarm waits for the application,
\* and a call that lets another thread run has been sent.
LEMMA CallerStep == Types /\ OneCaller /\ [Next]_vars => OneCaller'
<1> SUFFICES ASSUME Types, OneCaller, [Next]_vars PROVE OneCaller'
  OBVIOUS
<1> USE DEF OneCaller
<1>1. call \in [Thread -> {"app", "send", "kick", "wait", "join"}] /\ cur \in Thread
  BY DEF Types
<1>2. ASSUME UNCHANGED <<cur, call>> PROVE OneCaller'
  BY <1>2
<1>3. ASSUME NEW callee, NEW op, AddRequest(callee, op) PROVE OneCaller'
  BY <1>1, <1>3 DEF AddRequest
<1>4. CASE MachineTerminate \/ \E op \in Requests : MachineFile(op)
  BY <1>3, <1>4 DEF MachineTerminate, MachineFile
<1>5. CASE SendRequest
  BY <1>1, <1>5 DEF SendRequest
<1>6. CASE KickChild
  BY <1>1, <1>6 DEF KickChild
<1>7. CASE \E t \in Thread : Alarm(t)
  BY <1>1, <1>7 DEF Alarm, Open
<1>8. CASE ApplyReply
  <2>1. \A t \in Thread : call'[t] \in {call[t], "app"} /\ cur' = cur
    BY <1>8 DEF ApplyReply
  <2>2. QED
    BY <2>1
<1>9. CASE Join \/ EnterHandler \/ ReceiveReply \/ LeaveHandler \/ ParentDies
  BY <1>2, <1>9 DEF Join, EnterHandler, ReceiveReply, LeaveHandler, ParentDies
<1>10. CASE ChildStep \/ \E S \in SUBSET File : ChildPoll(S)
  BY <1>2, <1>10 DEF ChildStep, ChildPoll, ChildWindow, ChildDrain, ChildReply, ChildKick,
     ChildServe, ChildRound, parentVars
<1>11. CASE UNCHANGED vars
  BY <1>2, <1>11 DEF vars, parentVars
<1>12. QED
  BY <1>4, <1>5, <1>6, <1>7, <1>8, <1>9, <1>10, <1>11 DEF Next, Parent, HandlerStep, Over

\* The child removes a read only with the file's revents; a file may have other reads, but
\* no other file loses one.
LEMMA PolledStep == Types /\ ready \subseteq PollFDs /\ [Next]_vars => (ready \subseteq PollFDs)'
<1> SUFFICES ASSUME Types, ready \subseteq PollFDs, [Next]_vars PROVE ready' \subseteq PollFDs'
  OBVIOUS
<1> USE DEF PollFDs
<1>1. ASSUME UNCHANGED <<ready, reads>> PROVE ready' \subseteq PollFDs'
  BY <1>1
<1>2. CASE Parent \/ ParentDies
  BY <1>1, <1>2 DEF Parent, HandlerStep, ParentDies, MachineFile, MachineTerminate, AddRequest,
     SendRequest, KickChild, Join, Alarm, EnterHandler, ReceiveReply, ApplyReply, LeaveHandler, childVars
<1>3. CASE ChildPoll({}) \/ \E S \in SUBSET File : ChildPoll(S)
  BY <1>3 DEF ChildPoll
<1>4. CASE ChildWindow \/ ChildReply \/ ChildKick \/ ChildRound
  BY <1>1, <1>4 DEF ChildWindow, ChildReply, ChildKick, ChildRound
<1>5. CASE ChildDrain
  <2>1. ready' = ready /\ (reads' = reads \/ \E r \in Read : reads' = Append(reads, r))
    <3>1. ASSUME requests # <<>> PROVE Head(requests) \in Message
      BY <3>1, HeadTailProperties DEF Types
    <3>2. QED
      BY <1>5, <3>1 DEF ChildDrain, Message, Read
  <2>2. ASSUME NEW r \in Read, reads' = Append(reads, r)
        PROVE  \A i \in DOMAIN reads : i \in DOMAIN reads' /\ reads'[i] = reads[i]
    BY <2>2, AppendProperties, LenProperties DEF Types
  <2>3. QED
    BY <2>1, <2>2
<1>6. CASE \E f \in File : ChildServe(f)
  <2>1. PICK f \in File : ChildServe(f)
    BY <1>6
  <2>2. PICK k \in DOMAIN reads : reads[k].fd = f /\ reads' = RemoveAt(reads, k)
    BY <2>1 DEF ChildServe, IsFirstRead
  <2>3. /\ ready' = ready \ {f} /\ reads \in Seq(Read) /\ Len(reads) \in Nat
        /\ DOMAIN reads = 1..Len(reads) /\ k \in 1..Len(reads)
    BY <2>1, <2>2, LenProperties DEF ChildServe, Types
  <2>4. /\ DOMAIN reads' = 1..(Len(reads) - 1)
        /\ \A i \in 1..(Len(reads) - 1) : reads'[i] = IF i < k THEN reads[i] ELSE reads[i + 1]
    <3>1. reads' \in Seq(Read) /\ Len(reads') = Len(reads) - 1
      BY <2>2, <2>3, RemoveAtType
    <3>2. \A i \in 1..(Len(reads) - 1) : reads'[i] = IF i < k THEN reads[i] ELSE reads[i + 1]
      BY <2>2, <2>3, RemoveAtElements
    <3>3. QED
      BY <3>1, <3>2, LenProperties
  <2>5. ASSUME NEW g \in ready' PROVE g \in PollFDs'
    <3>1. PICK i \in DOMAIN reads : reads[i].fd = g /\ i # k
      BY <2>2, <2>3, <2>5
    <3>2. CASE i < k
      <4>1. i \in DOMAIN reads' /\ reads'[i].fd = g
        BY <2>3, <2>4, <3>1, <3>2
      <4>2. QED
        BY <4>1
    <3>3. CASE i > k
      <4>1. i - 1 \in DOMAIN reads' /\ reads'[i - 1].fd = g
        BY <2>3, <2>4, <3>1, <3>3
      <4>2. QED
        BY <4>1
    <3>4. QED
      BY <2>3, <3>1, <3>2, <3>3
  <2>6. QED
    BY <2>5
<1>7. CASE UNCHANGED vars
  BY <1>1, <1>7 DEF vars, childVars
<1>8. QED
  BY <1>2, <1>3, <1>4, <1>5, <1>6, <1>7 DEF Next, ChildStep, Over

\* Every step keeps the type.
LEMMA NextType == TypeOK /\ [Next]_vars => TypeOK'
<1>1. Types /\ UNCHANGED vars => Types'
  BY DEF Types, vars, parentVars, childVars
<1>2. Types /\ [Next]_vars => Types'
  BY <1>1, ParentTypes, ChildTypes DEF Next, Over
<1>3. QED
  BY <1>2, CallerStep, PolledStep DEF TypeOK

\* The first state has all this.
LEMMA InitType == Init => TypeOK
<1>1. Init => OneCaller /\ ready \subseteq PollFDs
  BY DEF Init, OneCaller
<1>2. QED
  BY <1>1, InitTypes DEF TypeOK

\* The queues, the table and the lists of the machine layer keep their types; only the
\* current thread is in the middle of a call, and the child finds a pending read for
\* each file that poll() has reported.
THEOREM IOTypeCorrect == Spec => []TypeOK
BY InitType, NextType, PTL DEF Spec

-----------------------------------------------------------------------------
\* A reply enters the queue with its signal still to be sent, and each step that
\* takes the signal away enters a handler, which leaves only an empty queue.
LEMMA ReplyStep == TypeOK /\ NoReplyForgotten /\ [Next]_vars => NoReplyForgotten'
<1> SUFFICES ASSUME TypeOK, NoReplyForgotten, [Next]_vars, parent' = "up", replies' # <<>>
             PROVE  \/ usr2'.parent
                    \/ child' = "kick"
                    \/ \E t \in Thread : handler'[t] # NoHandler
  BY DEF NoReplyForgotten
<1> USE DEF TypeOK, Types, NoReplyForgotten
<1>1. Draining # NoHandler
      /\ \A i \in Id, b \in BOOLEAN : [at |-> "apply", id |-> i, read |-> b] # NoHandler
  BY DEF Draining, NoHandler
<1>2. ASSUME UNCHANGED <<parent, handler, replies, child>>, usr2'.parent = usr2.parent
      PROVE  \/ usr2'.parent
             \/ child' = "kick"
             \/ \E t \in Thread : handler'[t] # NoHandler
  BY <1>2
<1>3. CASE UNCHANGED vars
  BY <1>3, <1>2 DEF vars, parentVars, childVars
<1>4. CASE \E op \in Requests : MachineFile(op)
  BY <1>4, <1>2 DEF MachineFile, AddRequest, childVars
<1>5. CASE MachineTerminate
  BY <1>5, <1>2 DEF MachineTerminate, AddRequest, childVars
<1>6. CASE SendRequest \/ Join \/ \E t \in Thread : Alarm(t)
  BY <1>6, <1>2 DEF SendRequest, Join, Alarm, childVars
<1>7. CASE KickChild
  <2>1. usr2'.parent = usr2.parent
    BY <1>7 DEF KickChild
  <2>2. QED
    BY <1>7, <2>1, <1>2 DEF KickChild, childVars
<1>8. CASE EnterHandler
  BY <1>8, <1>1 DEF EnterHandler
<1>9. CASE ReceiveReply
  <2>1. Head(replies) \in Reply
    BY <1>9, HeadTailProperties DEF ReceiveReply
  <2>2. handler'[cur] = [at |-> "apply", id |-> Head(replies).id, read |-> Head(replies).read]
    BY <1>9 DEF ReceiveReply
  <2>3. QED
    BY <2>1, <2>2, <1>1 DEF Reply
<1>10. CASE ApplyReply
  <2>1. handler'[cur] = Draining
    BY <1>10 DEF ApplyReply
  <2>2. QED
    BY <2>1, <1>1
<1>11. CASE LeaveHandler
  BY <1>11 DEF LeaveHandler
<1>12. CASE ParentDies
  BY <1>12 DEF ParentDies
<1>13. CASE \E S \in SUBSET File : ChildPoll(S)
  BY <1>13 DEF ChildPoll, parentVars
<1>14. CASE ChildWindow
  <2>1. usr2'.parent = usr2.parent
    BY <1>14 DEF ChildWindow
  <2>2. child # "kick" /\ UNCHANGED <<parent, handler, replies>>
    BY <1>14 DEF ChildWindow, parentVars
  <2>3. QED
    BY <2>1, <2>2
<1>15. CASE ChildDrain
  BY <1>15 DEF ChildDrain, parentVars
<1>16. CASE ChildReply
  BY <1>16 DEF ChildReply
<1>17. CASE ChildKick
  BY <1>17 DEF ChildKick
<1>18. CASE ChildRound
  BY <1>18 DEF ChildRound, parentVars
<1>19. CASE \E f \in File : ChildServe(f)
  BY <1>19 DEF ChildServe, parentVars
<1>20. QED
  BY <1>3, <1>4, <1>5, <1>6, <1>7, <1>8, <1>9, <1>10, <1>11, <1>12, <1>13, <1>14,
     <1>15, <1>16, <1>17, <1>18, <1>19
     DEF Next, Parent, HandlerStep, ChildStep, Over

\* However many replies one signal announces: while the parent runs, a reply
\* that lies in the queue has a signal on its way or a handler that has not
\* finished with the queue.
THEOREM NoReplyIsForgotten == Spec => []NoReplyForgotten
<1>1. Init => NoReplyForgotten
  BY DEF Init, NoReplyForgotten
<1>2. QED
  BY <1>1, ReplyStep, IOTypeCorrect, PTL DEF Spec

-----------------------------------------------------------------------------
\* A request enters the queue with its signal still to be sent, and the child
\* that takes the signal does not leave the queue before it is empty.
LEMMA RequestStep == TypeOK /\ NoRequestForgotten /\ [Next]_vars => NoRequestForgotten'
<1> DEFINE Noticed == \/ usr2.child
                      \/ call[cur] = "kick"
                      \/ child = "drain"
                      \/ child \in {"reply", "kick"} /\ back = "drain"
<1> SUFFICES ASSUME TypeOK, NoRequestForgotten, [Next]_vars, parent' = "up",
                    requests' # <<>>
             PROVE  Noticed'
  BY DEF NoRequestForgotten
<1> USE DEF TypeOK, Types, NoRequestForgotten
<1>1. ASSUME UNCHANGED <<parent, requests, usr2, child, back>>,
             call[cur] # "kick" \/ call'[cur'] = "kick"
      PROVE  Noticed'
  BY <1>1
<1>2. CASE UNCHANGED vars
  BY <1>2, <1>1 DEF vars, parentVars, childVars
<1>3. CASE \E op \in Requests : MachineFile(op)
  BY <1>3, <1>1 DEF MachineFile, AddRequest, childVars, InApplication, Open
<1>4. CASE MachineTerminate
  BY <1>4, <1>1 DEF MachineTerminate, AddRequest, childVars, InApplication, Open
<1>5. CASE SendRequest
  BY <1>5 DEF SendRequest
<1>6. CASE Join
  BY <1>6, <1>1 DEF Join, childVars
<1>7. CASE \E t \in Thread : Alarm(t)
  BY <1>7, <1>1 DEF Alarm, childVars, Open
<1>8. CASE KickChild
  BY <1>8 DEF KickChild
<1>9. CASE EnterHandler
  <2>1. usr2'.child = usr2.child
    BY <1>9 DEF EnterHandler
  <2>2. QED
    BY <1>9, <2>1 DEF EnterHandler, childVars
<1>10. CASE ReceiveReply \/ LeaveHandler
  BY <1>10, <1>1 DEF ReceiveReply, LeaveHandler, childVars
<1>11. CASE ApplyReply
  BY <1>11, <1>1 DEF ApplyReply, childVars, Applying, Open
<1>12. CASE ParentDies
  BY <1>12 DEF ParentDies
<1>13. CASE \E S \in SUBSET File : ChildPoll(S)
  BY <1>13 DEF ChildPoll, parentVars
<1>14. CASE ChildWindow
  BY <1>14 DEF ChildWindow, parentVars
<1>15. CASE ChildDrain
  BY <1>15 DEF ChildDrain
<1>16. CASE ChildReply
  BY <1>16 DEF ChildReply, parentVars
<1>17. CASE ChildKick
  <2>1. usr2'.child = usr2.child
    BY <1>17 DEF ChildKick
  <2>2. QED
    BY <1>17, <2>1 DEF ChildKick, parentVars
<1>18. CASE ChildRound
  BY <1>18 DEF ChildRound, parentVars
<1>19. CASE \E f \in File : ChildServe(f)
  BY <1>19 DEF ChildServe, parentVars
<1>20. QED
  BY <1>2, <1>3, <1>4, <1>5, <1>6, <1>7, <1>8, <1>9, <1>10, <1>11, <1>12, <1>13,
     <1>14, <1>15, <1>16, <1>17, <1>18, <1>19
     DEF Next, Parent, HandlerStep, ChildStep, Over

\* However many requests one signal announces: while the parent runs, a request
\* that lies in the queue has a signal on its way or a child that has not
\* finished with the queue.
THEOREM NoRequestIsForgotten == Spec => []NoRequestForgotten
<1>1. Init => NoRequestForgotten
  BY DEF Init, NoRequestForgotten
<1>2. QED
  BY <1>1, RequestStep, IOTypeCorrect, PTL DEF Spec

=============================================================================
