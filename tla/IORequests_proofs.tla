------------------------- MODULE IORequests_proofs --------------------------
(***************************************************************************)
(* Where the requests of the machine layer are: every request on its way   *)
(* is in exactly one place, and what follows from that.                    *)
(***************************************************************************)
EXTENDS MachineIO_proofs

-----------------------------------------------------------------------------
\* How many requests with the id i are in each of the places of IOCorrectness.
Asks(i) == {m \in Message : m.id = i /\ m.op # "terminate"}
ReadsOf(i) == {r \in Read : r.id = i}
RepliesOf(i) == {r \in Reply : r.id = i}

Sending(i) == IF call[cur] = "send" /\ outbox \in Asks(i) THEN 1 ELSE 0
Asked(i) == Occ(requests, Asks(i))
Reading(i) == Occ(reads, ReadsOf(i))
Answered(i) == IF child = "reply" /\ answer = i THEN 1 ELSE 0
Replied(i) == Occ(replies, RepliesOf(i))
Handled(i) == Cardinality(InHandlers(i))

Total(i) == Sending(i) + Asked(i) + Reading(i) + Answered(i) + Replied(i) + Handled(i)

Counts(i) ==
  /\ Sending(i) \in Nat /\ Asked(i) \in Nat /\ Reading(i) \in Nat
  /\ Answered(i) \in Nat /\ Replied(i) \in Nat /\ Handled(i) \in Nat

\* The places of a request are the sum of its occurrences in each part of the state.
LEMMA PlacesCounted == TypeOK => \A i \in Id : Places(i) = Total(i) /\ Counts(i)
<1> SUFFICES ASSUME TypeOK, NEW i \in Id PROVE Places(i) = Total(i) /\ Counts(i)
  OBVIOUS
<1>1. Cardinality(InOutbox(i)) = Sending(i)
  <2>1. outbox \in Asks(i) <=> outbox.id = i /\ outbox.op # "terminate"
    BY DEF TypeOK, Types, Asks
  <2>2. InOutbox(i) = IF call[cur] = "send" /\ outbox \in Asks(i) THEN {cur} ELSE {}
    BY <2>1 DEF InOutbox
  <2>3. QED
    BY <2>2, FS_Singleton, FS_EmptySet DEF Sending
<1>2. InRequests(i) = {j \in DOMAIN requests : requests[j] \in Asks(i)}
  BY LenProperties, ElementOfSeq DEF TypeOK, Types, InRequests, Asks
<1>3. InReads(i) = {j \in DOMAIN reads : reads[j] \in ReadsOf(i)}
  BY LenProperties, ElementOfSeq DEF TypeOK, Types, InReads, ReadsOf
<1>4. InReplies(i) = {j \in DOMAIN replies : replies[j] \in RepliesOf(i)}
  BY LenProperties, ElementOfSeq DEF TypeOK, Types, InReplies, RepliesOf
<1>5. Cardinality(InAnswer(i)) = Answered(i)
  BY FS_Singleton, FS_EmptySet DEF InAnswer, Answered
<1>6. Asked(i) \in Nat /\ Reading(i) \in Nat /\ Replied(i) \in Nat
  BY OccNat DEF TypeOK, Types, Asked, Reading, Replied
<1>7. Handled(i) \in Nat
  <2>1. InHandlers(i) \in SUBSET Thread
    BY DEF InHandlers
  <2>2. QED
    BY <2>1, ThreadsAssumption, FS_Subset, FS_CardinalityType DEF Handled
<1>8. QED
  BY <1>1, <1>2, <1>3, <1>4, <1>5, <1>6, <1>7
     DEF Places, Total, Counts, Asked, Reading, Replied, Handled, Occ, Sending, Answered

\* The same for the next state.
LEMMA PlacesCountedNext == TypeOK' => \A i \in Id : Places(i)' = Total(i)'
<1>1. (TypeOK => \A i \in Id : Places(i) = Total(i) /\ Counts(i))'
  BY PlacesCounted, PTL
<1>2. QED
  BY <1>1

\* Numbers whose sum is zero are zero.
LEMMA ZeroSum ==
  ASSUME NEW a \in Nat, NEW b \in Nat
  PROVE  a + b \in Nat /\ (a + b = 0 => a = 0 /\ b = 0)
OBVIOUS

\* If no part but the handlers has the request, each of them has none.
LEMMA ZeroTotal ==
  ASSUME NEW i, Counts(i), NEW h \in Nat,
         Sending(i) + Asked(i) + Reading(i) + Answered(i) + Replied(i) + h = 0
  PROVE  /\ Sending(i) = 0 /\ Asked(i) = 0 /\ Reading(i) = 0 /\ Answered(i) = 0
         /\ Replied(i) = 0 /\ h = 0
<1> DEFINE s2 == Sending(i) + Asked(i)
           s3 == s2 + Reading(i)
           s4 == s3 + Answered(i)
           s5 == s4 + Replied(i)
<1>1. s5 + h = 0
  OBVIOUS
<1>2. s2 \in Nat
  BY ZeroSum DEF Counts
<1> HIDE DEF s2
<1>3. s3 \in Nat
  BY <1>2, ZeroSum DEF Counts
<1> HIDE DEF s3
<1>4. s4 \in Nat
  BY <1>3, ZeroSum DEF Counts
<1> HIDE DEF s4
<1>5. s5 \in Nat
  BY <1>4, ZeroSum DEF Counts
<1> HIDE DEF s5
<1>6. s5 = 0 /\ h = 0
  BY <1>1, <1>5, ZeroSum DEF Counts
<1>7. s4 = 0 /\ Replied(i) = 0
  BY <1>4, <1>6, ZeroSum DEF Counts, s5
<1>8. s3 = 0 /\ Answered(i) = 0
  BY <1>3, <1>7, ZeroSum DEF Counts, s4
<1>9. s2 = 0 /\ Reading(i) = 0
  BY <1>2, <1>8, ZeroSum DEF Counts, s3
<1>10. QED
  BY <1>6, <1>7, <1>8, <1>9, ZeroSum DEF Counts, s2

\* The request is in no place, the handlers aside.
NowhereButHandlers(i) ==
  /\ ~ (call[cur] = "send" /\ outbox \in Asks(i))
  /\ \A j \in DOMAIN requests : requests[j] \notin Asks(i)
  /\ \A j \in DOMAIN reads : reads[j].id # i
  /\ ~ (child = "reply" /\ answer = i)
  /\ \A j \in DOMAIN replies : replies[j].id # i

\* What the numbers say of the places.
LEMMA NotInPlaces ==
  ASSUME TypeOK, NEW i \in Id,
         Sending(i) = 0, Asked(i) = 0, Reading(i) = 0, Answered(i) = 0, Replied(i) = 0
  PROVE  NowhereButHandlers(i)
<1>1. \A j \in DOMAIN requests : requests[j] \notin Asks(i)
  BY OccNat DEF Asked, TypeOK, Types
<1>2. \A j \in DOMAIN reads : reads[j] \notin ReadsOf(i)
  BY OccNat DEF Reading, TypeOK, Types
<1>3. \A j \in DOMAIN replies : replies[j] \notin RepliesOf(i)
  BY OccNat DEF Replied, TypeOK, Types
<1>4. (\A j \in DOMAIN reads : reads[j] \in Read) /\ \A j \in DOMAIN replies : replies[j] \in Reply
  BY LenProperties, ElementOfSeq DEF TypeOK, Types
<1>5. QED
  BY <1>1, <1>2, <1>3, <1>4 DEF Sending, Answered, ReadsOf, RepliesOf, NowhereButHandlers

\* Only finitely many handlers hold a request.
LEMMA HandlersFinite == \A i : IsFiniteSet(InHandlers(i))
<1> SUFFICES ASSUME NEW i PROVE IsFiniteSet(InHandlers(i))
  OBVIOUS
<1>1. InHandlers(i) \in SUBSET Thread
  BY DEF InHandlers
<1>2. QED
  BY <1>1, ThreadsAssumption, FS_Subset

\* A request in no place is in none of the parts.
LEMMA Nowhere ==
  ASSUME TypeOK, NEW i \in Id, Places(i) = 0
  PROVE  NowhereButHandlers(i) /\ InHandlers(i) = {}
<1>1. Total(i) = 0 /\ Counts(i)
  BY PlacesCounted
<1>2. /\ Sending(i) = 0 /\ Asked(i) = 0 /\ Reading(i) = 0 /\ Answered(i) = 0
      /\ Replied(i) = 0 /\ Handled(i) = 0
  BY <1>1, ZeroTotal DEF Total, Counts
<1>3. QED
  BY <1>2, NotInPlaces, HandlersFinite, FS_EmptySet DEF Handled

\* The request whose reply a handler has taken is nowhere else.
LEMMA OnlyInHandler ==
  ASSUME TypeOK, NEW i \in Id, Places(i) = 1, InHandlers(i) # {}
  PROVE  NowhereButHandlers(i) /\ \E u \in Thread : InHandlers(i) = {u}
<1>1. Total(i) = 1 /\ Counts(i)
  BY PlacesCounted
<1>2. Handled(i) # 0
  BY HandlersFinite, FS_EmptySet DEF Handled
<1>3. Handled(i) - 1 \in Nat
  BY <1>1, <1>2 DEF Counts
<1>4. Sending(i) + Asked(i) + Reading(i) + Answered(i) + Replied(i) + (Handled(i) - 1) = 0
  BY <1>1 DEF Total, Counts
<1>5. /\ Sending(i) = 0 /\ Asked(i) = 0 /\ Reading(i) = 0 /\ Answered(i) = 0
      /\ Replied(i) = 0 /\ Handled(i) - 1 = 0
  BY <1>1, <1>3, <1>4, ZeroTotal
<1>6. Cardinality(InHandlers(i)) = 1
  BY <1>1, <1>5 DEF Handled, Counts
<1>7. \E u : InHandlers(i) = {u}
  BY <1>6, HandlersFinite, FS_Singleton
<1>8. QED
  BY <1>5, <1>7, NotInPlaces DEF InHandlers

-----------------------------------------------------------------------------
\* A request moves from place to place and leaves with its entry in the table.
LEMMA PlaceStep ==
  TypeOK /\ TypeOK' /\ EachRequestInOnePlace /\ [Next]_vars => EachRequestInOnePlace'
<1> SUFFICES ASSUME TypeOK, TypeOK', EachRequestInOnePlace, [Next]_vars, child' # "gone",
                    NEW i \in Id
             PROVE  Places(i)' = (IF table'[i] \in Thread THEN 1 ELSE 0)
  BY DEF EachRequestInOnePlace
<1>1. child # "gone"
  BY DEF Next, Parent, HandlerStep, ChildStep, Over, vars, parentVars, childVars,
     MachineFile, MachineTerminate, AddRequest, SendRequest, KickChild, Join, Alarm,
     EnterHandler, ReceiveReply, ApplyReply, LeaveHandler, ParentDies, ChildPoll,
     ChildWindow, ChildDrain, ChildReply, ChildKick, ChildServe, ChildRound
<1>2. Places(i) = (IF table[i] \in Thread THEN 1 ELSE 0)
  BY <1>1 DEF EachRequestInOnePlace
<1>3. Places(i) = Total(i) /\ Counts(i)
  BY PlacesCounted
<1>4. Places(i)' = Total(i)'
  BY PlacesCountedNext
<1>5. ASSUME UNCHANGED <<table, requests, reads, replies, handler>>,
             Sending(i)' = Sending(i), Answered(i)' = Answered(i)
      PROVE  Places(i)' = (IF table'[i] \in Thread THEN 1 ELSE 0)
  <2>1. Asked(i)' = Asked(i) /\ Reading(i)' = Reading(i) /\ Replied(i)' = Replied(i)
        /\ Handled(i)' = Handled(i)
    BY <1>5 DEF Asked, Reading, Replied, Handled, InHandlers
  <2>2. QED
    BY <1>2, <1>3, <1>4, <1>5, <2>1 DEF Total
<1>6. ASSUME NEW callee \in Thread \union {Null}, NEW op \in Op \union {"terminate"},
             AddRequest(callee, op), call[cur] = "app", NotOvertaken,
             callee \in Thread <=> op # "terminate"
      PROVE  Places(i)' = (IF table'[i] \in Thread THEN 1 ELSE 0)
  <2>1. NextID \in Id
    BY Ids DEF TypeOK, Types, NextID
  <2>2. [id |-> NextID, op |-> op] \in Message
    BY <2>1 DEF Message
  <2>3. Sending(i)' = IF i = NextID /\ op # "terminate" THEN 1 ELSE 0
    BY <1>6, <2>2 DEF Sending, Asks, AddRequest, TypeOK, Types
  <2>4. Sending(i) = 0
    BY <1>6 DEF Sending
  <2>5. Asked(i)' = Asked(i) /\ Reading(i)' = Reading(i) /\ Replied(i)' = Replied(i)
        /\ Handled(i)' = Handled(i) /\ Answered(i)' = Answered(i)
    BY <1>6 DEF AddRequest, childVars, Asked, Reading, Replied, Handled, Answered, InHandlers
  <2>6. Total(i)' = Total(i) + Sending(i)'
    BY <1>3, <2>3, <2>4, <2>5 DEF Total, Counts
  <2>7. table' = [table EXCEPT ![NextID] = callee]
    BY <1>6 DEF AddRequest
  <2>8. CASE i = NextID
    <3>1. table[i] \notin Thread /\ table'[i] = callee
      BY <1>6, <2>7, <2>8, NoneAssumption DEF NotOvertaken, TypeOK, Types
    <3>2. QED
      BY <1>2, <1>3, <1>4, <1>6, <2>3, <2>6, <2>8, <3>1
  <2>9. CASE i # NextID
    <3>1. table'[i] = table[i]
      BY <2>7, <2>9 DEF TypeOK, Types
    <3>2. QED
      BY <1>2, <1>3, <1>4, <2>3, <2>6, <2>9, <3>1 DEF Total
  <2>10. QED
    BY <2>8, <2>9
<1>7. CASE UNCHANGED vars
  BY <1>7, <1>5 DEF vars, parentVars, childVars, Sending, Answered
<1>8. CASE \E op \in Requests : MachineFile(op)
  <2>1. PICK op \in Requests : MachineFile(op)
    BY <1>8
  <2>2. op \in Op /\ op # "terminate" /\ cur \in Thread
    BY RequestsAssumption, FileAssumption DEF Op, TypeOK, Types
  <2>3. QED
    BY <2>1, <2>2, <1>6 DEF MachineFile, InApplication, Open
<1>9. CASE MachineTerminate
  BY <1>9, <1>6, NoneAssumption DEF MachineTerminate, InApplication, Open
<1>10. CASE SendRequest
  <2>1. Sending(i) = (IF outbox \in Asks(i) THEN 1 ELSE 0) /\ Sending(i)' = 0
    BY <1>10 DEF SendRequest, Sending, TypeOK, Types
  <2>2. Asked(i)' = Asked(i) + (IF outbox \in Asks(i) THEN 1 ELSE 0)
    BY <1>10, OccAppend DEF SendRequest, Asked, TypeOK, Types
  <2>3. Reading(i)' = Reading(i) /\ Replied(i)' = Replied(i)
        /\ Handled(i)' = Handled(i) /\ Answered(i)' = Answered(i) /\ table' = table
    BY <1>10 DEF SendRequest, childVars, Reading, Replied, Handled, Answered, InHandlers
  <2>4. Total(i)' = Total(i)
    BY <1>3, <2>1, <2>2, <2>3 DEF Total, Counts
  <2>5. QED
    BY <1>2, <1>3, <1>4, <2>3, <2>4
<1>11. CASE KickChild
  <2>1. call'[cur'] # "send" /\ call[cur] # "send"
    BY <1>11 DEF KickChild, Runnable, TypeOK, Types
  <2>2. QED
    BY <1>11, <2>1, <1>5 DEF KickChild, childVars, Sending, Answered
<1>12. CASE Join
  BY <1>12, <1>5 DEF Join, childVars, Sending, Answered
<1>13. CASE \E t \in Thread : Alarm(t)
  <2>1. call'[cur'] = "app" /\ call[cur] = "app"
    BY <1>13 DEF Alarm, Runnable, Open
  <2>2. QED
    BY <1>13, <2>1, <1>5 DEF Alarm, childVars, Sending, Answered
<1>14. CASE EnterHandler \/ LeaveHandler
  <2>1. InHandlers(i)' = InHandlers(i)
    <3>1. PICK h \in {NoHandler, Draining} : handler' = [handler EXCEPT ![cur] = h]
      BY <1>14 DEF EnterHandler, LeaveHandler
    <3>2. h.at # "apply" /\ handler[cur].at # "apply"
      BY <1>14, <3>1 DEF EnterHandler, LeaveHandler, InApplication, NoHandler, Draining
    <3>3. QED
      BY <3>1, <3>2 DEF InHandlers, TypeOK, Types
  <2>2. Sending(i)' = Sending(i) /\ Asked(i)' = Asked(i) /\ Reading(i)' = Reading(i)
        /\ Answered(i)' = Answered(i) /\ Replied(i)' = Replied(i) /\ table' = table
    BY <1>14 DEF EnterHandler, LeaveHandler, childVars, Sending, Asked, Reading, Answered,
       Replied
  <2>3. QED
    BY <1>2, <1>3, <1>4, <2>1, <2>2 DEF Total, Handled
<1>15. CASE ReceiveReply
  <2>1. Head(replies) \in Reply
    BY <1>15, HeadTailProperties DEF ReceiveReply, TypeOK, Types
  <2>2. Replied(i)' = Replied(i) - (IF Head(replies) \in RepliesOf(i) THEN 1 ELSE 0)
    BY <1>15, OccTail DEF ReceiveReply, Replied, TypeOK, Types
  <2>3. cur \notin InHandlers(i)
    BY <1>15 DEF ReceiveReply, InHandlers, Draining
  <2>4. InHandlers(i)' = IF Head(replies) \in RepliesOf(i) THEN InHandlers(i) \union {cur}
                                                           ELSE InHandlers(i)
    BY <1>15, <2>1, <2>3 DEF ReceiveReply, InHandlers, RepliesOf, TypeOK, Types
  <2>5. Cardinality(InHandlers(i) \union {cur}) = Cardinality(InHandlers(i)) + 1
    BY <2>3, HandlersFinite, FS_AddElement
  <2>6. Handled(i)' = Handled(i) + (IF Head(replies) \in RepliesOf(i) THEN 1 ELSE 0)
    BY <1>3, <2>4, <2>5 DEF Handled, Counts
  <2>7. Sending(i)' = Sending(i) /\ Asked(i)' = Asked(i) /\ Reading(i)' = Reading(i)
        /\ Answered(i)' = Answered(i) /\ table' = table
    BY <1>15 DEF ReceiveReply, childVars, Sending, Asked, Reading, Answered
  <2>8. Total(i)' = Total(i)
    BY <1>3, <2>2, <2>6, <2>7 DEF Total, Counts
  <2>9. QED
    BY <1>2, <1>3, <1>4, <2>7, <2>8
<1>16. CASE ApplyReply
  <2> DEFINE k == handler[cur].id
  <2>1. k \in Id /\ cur \in Thread
    BY DEF TypeOK, Types, Handler
  <2>2. handler' = [handler EXCEPT ![cur] = Draining] /\ table' = [table EXCEPT ![k] = None]
        /\ handler[cur].at = "apply" /\ call[cur] = "app"
    BY <1>16 DEF ApplyReply, Applying, Open
  <2>3. call'[cur] = "app" /\ cur' = cur
    BY <1>16, <2>2 DEF ApplyReply, TypeOK, Types
  <2>4. Sending(i)' = Sending(i) /\ Asked(i)' = Asked(i) /\ Reading(i)' = Reading(i)
        /\ Answered(i)' = Answered(i) /\ Replied(i)' = Replied(i)
    BY <1>16, <2>2, <2>3 DEF ApplyReply, childVars, Sending, Asked, Reading, Answered, Replied
  <2>5. CASE i = k
    <3>1. cur \in InHandlers(i)
      BY <2>1, <2>2, <2>5 DEF InHandlers
    <3>2. Handled(i) # 0
      BY <3>1, HandlersFinite, FS_EmptySet DEF Handled
    <3>3. Places(i) # 0
      BY <1>3, <3>2, ZeroTotal DEF Total, Counts
    <3>4. Places(i) = 1
      BY <1>2, <3>3
    <3>5. InHandlers(i)' = InHandlers(i) \ {cur}
      BY <2>1, <2>2 DEF InHandlers, TypeOK, Types, Draining
    <3>6. Handled(i)' = Handled(i) - 1
      BY <3>1, <3>5, HandlersFinite, FS_RemoveElement DEF Handled
    <3>7. Total(i)' = 0
      BY <1>3, <2>4, <3>4, <3>6 DEF Total, Counts
    <3>8. table'[i] \notin Thread
      BY <2>1, <2>2, <2>5, NoneAssumption DEF TypeOK, Types
    <3>9. QED
      BY <1>4, <3>7, <3>8
  <2>6. CASE i # k
    <3>1. InHandlers(i)' = InHandlers(i) /\ table'[i] = table[i]
      BY <2>1, <2>2, <2>6 DEF InHandlers, TypeOK, Types, Draining
    <3>2. QED
      BY <1>2, <1>3, <1>4, <2>4, <3>1 DEF Total, Handled
  <2>7. QED
    BY <2>5, <2>6
<1>17. CASE ParentDies
  BY <1>17, <1>5 DEF ParentDies, childVars, Sending, Answered
<1>18. CASE (\E S \in SUBSET File : ChildPoll(S)) \/ ChildWindow
  BY <1>18, <1>5 DEF ChildPoll, ChildWindow, parentVars, Sending, Answered
<1>19. CASE ChildDrain
  <2>1. CASE requests = <<>>
    BY <1>19, <2>1, <1>5 DEF ChildDrain, parentVars, Sending, Answered
  <2>2. CASE requests # <<>>
    <3> DEFINE m == Head(requests)
    <3>1. m \in Message
      BY <2>2, HeadTailProperties DEF TypeOK, Types
    <3>2. Asked(i)' = Asked(i) - (IF m \in Asks(i) THEN 1 ELSE 0)
      <4>1. requests' = Tail(requests) /\ requests \in Seq(Message)
        BY <1>19, <2>2 DEF ChildDrain, TypeOK, Types
      <4>2. Occ(Tail(requests), Asks(i)) = Occ(requests, Asks(i)) - (IF m \in Asks(i) THEN 1 ELSE 0)
        BY <2>2, <4>1, OccTail
      <4>3. QED
        BY <4>1, <4>2 DEF Asked
    <3>3. Reading(i)' = Reading(i) + (IF m \in Asks(i) /\ m.op \in File THEN 1 ELSE 0)
      <4>1. CASE m.op \in File
        <5> DEFINE r == [id |-> m.id, fd |-> m.op]
        <5>1. r \in Read /\ (r \in ReadsOf(i) <=> m.id = i)
          BY <3>1, <4>1 DEF Read, ReadsOf, Message
        <5>2. reads' = Append(reads, r)
          BY <1>19, <2>2, <4>1 DEF ChildDrain
        <5>3. Occ(Append(reads, r), ReadsOf(i))
                = Occ(reads, ReadsOf(i)) + (IF r \in ReadsOf(i) THEN 1 ELSE 0)
          BY <5>1, OccAppend DEF TypeOK, Types
        <5>4. m \in Asks(i) <=> m.id = i
          BY <3>1, <4>1, FileAssumption DEF Asks
        <5>5. QED
          BY <4>1, <5>1, <5>2, <5>3, <5>4 DEF Reading
      <4>2. CASE m.op \notin File
        <5>1. reads' = reads
          BY <1>19, <2>2, <4>2 DEF ChildDrain
        <5>2. QED
          BY <1>3, <4>2, <5>1 DEF Reading, Counts
      <4>3. QED
        BY <4>1, <4>2
    <3>4. Answered(i) = 0
      BY <1>19 DEF ChildDrain, Answered
    <3>5. Answered(i)' = IF m \in Asks(i) /\ m.op = "now" THEN 1 ELSE 0
      <4>1. child' = (IF m.op = "now" THEN "reply" ELSE "drain")
            /\ (m.op = "now" => answer' = m.id)
        BY <1>19, <2>2 DEF ChildDrain
      <4> HIDE DEF m
      <4>2. QED
        BY <3>1, <4>1 DEF Answered, Asks
    <3>6. Sending(i)' = Sending(i) /\ Replied(i)' = Replied(i) /\ Handled(i)' = Handled(i)
          /\ table' = table
      BY <1>19 DEF ChildDrain, parentVars, Sending, Replied, Handled, InHandlers
    <3>7. m \in Asks(i) => (m.op \in File <=> m.op # "now")
      BY FileAssumption DEF Asks, Message, Op
    <3>8. Total(i)' = Total(i)
      BY <1>3, <3>2, <3>3, <3>4, <3>5, <3>6, <3>7 DEF Total, Counts
    <3>9. QED
      BY <1>2, <1>3, <1>4, <3>6, <3>8
  <2>3. QED
    BY <2>1, <2>2
<1>20. CASE ChildReply
  <2> DEFINE r == [id |-> answer, read |-> isRead]
  <2>1. r \in Reply /\ (r \in RepliesOf(i) <=> answer = i)
    BY DEF TypeOK, Types, Reply, RepliesOf
  <2>2. Replied(i)' = Replied(i) + (IF answer = i THEN 1 ELSE 0)
    BY <1>20, <2>1, OccAppend DEF ChildReply, Replied, TypeOK, Types
  <2>3. Answered(i) = (IF answer = i THEN 1 ELSE 0) /\ Answered(i)' = 0
    BY <1>20 DEF ChildReply, Answered
  <2>4. Sending(i)' = Sending(i) /\ Asked(i)' = Asked(i) /\ Reading(i)' = Reading(i)
        /\ Handled(i)' = Handled(i) /\ table' = table
    BY <1>20 DEF ChildReply, parentVars, Sending, Asked, Reading, Handled, InHandlers
  <2>5. Total(i)' = Total(i)
    BY <1>3, <2>2, <2>3, <2>4 DEF Total, Counts
  <2>6. QED
    BY <1>2, <1>3, <1>4, <2>4, <2>5
<1>21. CASE ChildKick
  BY <1>21, <1>5 DEF ChildKick, parentVars, Sending, Answered, TypeOK, Types
<1>22. CASE \E f \in File : ChildServe(f)
  <2>1. PICK f \in File : ChildServe(f)
    BY <1>22
  <2>2. PICK k \in DOMAIN reads : answer' = reads[k].id /\ reads' = RemoveAt(reads, k)
    BY <2>1 DEF ChildServe
  <2>3. k \in 1..Len(reads) /\ reads[k] \in Read
    BY <2>2, LenProperties, ElementOfSeq DEF TypeOK, Types
  <2>4. Reading(i)' = Reading(i) - (IF reads[k].id = i THEN 1 ELSE 0)
    BY <2>2, <2>3, OccRemoveAt DEF Reading, ReadsOf, TypeOK, Types
  <2>5. Answered(i) = 0 /\ Answered(i)' = (IF reads[k].id = i THEN 1 ELSE 0)
    BY <2>1, <2>2 DEF ChildServe, Answered
  <2>6. Sending(i)' = Sending(i) /\ Asked(i)' = Asked(i) /\ Replied(i)' = Replied(i)
        /\ Handled(i)' = Handled(i) /\ table' = table
    BY <2>1 DEF ChildServe, parentVars, Sending, Asked, Replied, Handled, InHandlers
  <2>7. Total(i)' = Total(i)
    BY <1>3, <2>4, <2>5, <2>6 DEF Total, Counts
  <2>8. QED
    BY <1>2, <1>3, <1>4, <2>6, <2>7
<1>23. CASE ChildRound
  BY <1>23, <1>5 DEF ChildRound, parentVars, Sending, Answered
<1>24. QED
  BY <1>7, <1>8, <1>9, <1>10, <1>11, <1>12, <1>13, <1>14, <1>15, <1>16, <1>17, <1>18, <1>19,
     <1>20, <1>21, <1>22, <1>23
     DEF Next, Parent, HandlerStep, ChildStep, Over

\* No request exists in the first state.
LEMMA InitInOnePlace == Init => EachRequestInOnePlace
<1> SUFFICES ASSUME Init, NEW i \in Id
             PROVE  Places(i) = (IF table[i] \in Thread THEN 1 ELSE 0)
  BY DEF EachRequestInOnePlace
<1>1. Places(i) = Total(i)
  BY InitType, PlacesCounted
<1>2. Sending(i) = 0 /\ Answered(i) = 0 /\ Asked(i) = 0 /\ Reading(i) = 0 /\ Replied(i) = 0
  BY OccEmpty, ThreadsAssumption DEF Init, Sending, Answered, Asked, Reading, Replied
<1>3. InHandlers(i) = {}
  BY DEF Init, InHandlers, NoHandler
<1>4. Handled(i) = 0
  BY <1>3, FS_EmptySet DEF Handled
<1>5. table[i] \notin Thread
  BY NoneAssumption DEF Init
<1>6. QED
  BY <1>1, <1>2, <1>4, <1>5 DEF Total

\* Until the child is gone: every request that has an entry in the table of
\* callbacks is in exactly one place on its way to the child and back, and
\* nothing else is on that way.
THEOREM RequestsInOnePlace == Spec => []EachRequestInOnePlace
BY InitInOnePlace, PlaceStep, IOTypeCorrect, PTL DEF Spec

-----------------------------------------------------------------------------
\* The child has seen the end of the virtual machine, or is about to.
EndIsNear ==
  terminated \/ child = "gone" \/ \E j \in DOMAIN requests : requests[j].op = "terminate"

\* The parent then only waits for the child to exit.
EndWaited ==
  EndIsNear => \/ parent # "up"
               \/ call[cur] = "join"
               \/ call[cur] = "kick" /\ outbox.op = "terminate"

\* The thread an entry of the table names has sent that request, and waits or is
\* about to.  It is not the idle thread and has no other entry.
Sent(t, i) ==
  \/ call[t] = "wait"
  \/ t = cur /\ call[t] \in {"send", "kick"} /\ outbox.id = i /\ outbox.op # "terminate"

OwnEntry == \A i \in Id : table[i] \in Thread => table[i] # Idle /\ Sent(table[i], i)

OneEntry == \A i, j \in Id : table[i] \in Thread /\ table[i] = table[j] => i = j

\* A thread whose reply has been taken waits.
TakenForWaiter == \A u \in Thread : AppliesTo(u) => call[table[handler[u].id]] = "wait"

\* The idle thread sends only when nobody waits.
IdleAlone == call[Idle] = "send" => \A i \in Id : table[i] \notin Thread

Orderly ==
  /\ EachRequestInOnePlace
  /\ EndWaited /\ OwnEntry /\ OneEntry /\ TakenForWaiter /\ IdleAlone

\* What carries the type of a read belongs to a request with a destination.
Destined ==
  /\ call[cur] = "send" /\ outbox.op \in File => dest[outbox.id]
  /\ \A j \in DOMAIN requests : requests[j].op \in File => dest[requests[j].id]
  /\ \A j \in DOMAIN reads : dest[reads[j].id]
  /\ child = "reply" /\ isRead => dest[answer]
  /\ \A j \in DOMAIN replies : replies[j].read => dest[replies[j].id]
  /\ NoCopyToNull

\* The actions one by one.
LEMMA Actions ==
  ASSUME [Next]_vars
  PROVE  \/ UNCHANGED vars
         \/ \E op \in Requests : MachineFile(op)
         \/ MachineTerminate \/ SendRequest \/ KickChild \/ Join
         \/ \E t \in Thread : Alarm(t)
         \/ EnterHandler \/ ReceiveReply \/ ApplyReply \/ LeaveHandler \/ ParentDies
         \/ \E S \in SUBSET File : ChildPoll(S)
         \/ ChildWindow \/ ChildDrain \/ ChildReply \/ ChildKick
         \/ \E f \in File : ChildServe(f)
         \/ ChildRound
BY DEF Next, Parent, HandlerStep, ChildStep, Over

\* A request that is added.
LEMMA Added ==
  ASSUME TypeOK, MachineTerminate \/ \E op \in Requests : MachineFile(op)
  PROVE  /\ parent = "up" /\ call[cur] = "app" /\ NotOvertaken /\ NextID \in Id
         /\ dest' = [dest EXCEPT ![NextID] = outbox'.op \in File]
         /\ table[NextID] = None
         /\ call' = [call EXCEPT ![cur] = "send"]
         /\ outbox'.id = NextID
         /\ \/ /\ outbox'.op # "terminate" /\ cur # Idle
               /\ table' = [table EXCEPT ![NextID] = cur]
            \/ /\ outbox'.op = "terminate"
               /\ table' = [table EXCEPT ![NextID] = Null]
               /\ cur = Idle => \A t \in Thread : call[t] = "app"
         /\ UNCHANGED <<parent, cur, handler, requests, replies, usr2, childVars>>
<1>1. NextID \in Id
  BY Ids DEF TypeOK, Types, NextID
<1>2. CASE MachineTerminate
  BY <1>1, <1>2, ThreadsAssumption, FileAssumption
     DEF MachineTerminate, AddRequest, InApplication, Open, Runnable, NotOvertaken
<1>3. CASE \E op \in Requests : MachineFile(op)
  <2>1. PICK op \in Requests : MachineFile(op)
    BY <1>3
  <2>2. op # "terminate"
    BY RequestsAssumption, FileAssumption DEF Op
  <2>3. QED
    BY <1>1, <2>1, <2>2 DEF MachineFile, AddRequest, InApplication, Open, NotOvertaken
<1>4. QED
  BY <1>2, <1>3

\* The end comes near only when the parent waits for it.
LEMMA EndStep == TypeOK /\ EndWaited /\ [Next]_vars => EndWaited'
<1> SUFFICES ASSUME TypeOK, EndWaited, [Next]_vars PROVE EndWaited'
  OBVIOUS
<1>1. ASSUME UNCHANGED <<parent, cur, call, outbox>>, EndIsNear' => EndIsNear
      PROVE  EndWaited'
  BY <1>1 DEF EndWaited
<1>2. ASSUME UNCHANGED <<requests, child, terminated>>, ~ EndIsNear
      PROVE  EndWaited'
  BY <1>2 DEF EndIsNear, EndWaited
<1>3. CASE UNCHANGED vars
  BY <1>3, <1>1 DEF vars, parentVars, childVars, EndIsNear
<1>4. CASE MachineTerminate \/ \E op \in Requests : MachineFile(op)
  <2>1. UNCHANGED <<requests, child, terminated>> /\ parent = "up" /\ call[cur] = "app"
    BY <1>4, Added DEF childVars
  <2>2. QED
    BY <2>1, <1>2 DEF EndWaited
<1>5. CASE SendRequest
  <2>1. ~ EndIsNear
    BY <1>5 DEF SendRequest, EndWaited
  <2>2. EndIsNear' => outbox.op = "terminate"
    <3>1. /\ requests' = Append(requests, outbox) /\ UNCHANGED <<child, terminated>>
      BY <1>5 DEF SendRequest, childVars
    <3>2. /\ Len(requests) \in Nat /\ DOMAIN requests = 1..Len(requests)
          /\ DOMAIN requests' = 1..(Len(requests) + 1)
          /\ requests'[Len(requests) + 1] = outbox
          /\ \A j \in 1..Len(requests) : requests'[j] = requests[j]
      BY <3>1, LenProperties, AppendProperties DEF TypeOK, Types
    <3>3. \A j \in DOMAIN requests' : requests'[j].op = "terminate" => outbox.op = "terminate"
      BY <2>1, <3>2 DEF EndIsNear
    <3>4. QED
      BY <2>1, <3>1, <3>3 DEF EndIsNear
  <2>3. call'[cur'] = "kick" /\ outbox' = outbox
    BY <1>5 DEF SendRequest, TypeOK, Types
  <2>4. QED
    BY <2>2, <2>3 DEF EndWaited
<1>6. CASE KickChild
  <2>1. CASE outbox.op = "terminate"
    <3>1. call'[cur'] = "join"
      BY <1>6, <2>1 DEF KickChild, TypeOK, Types
    <3>2. QED
      BY <3>1 DEF EndWaited
  <2>2. CASE outbox.op # "terminate"
    BY <1>6, <2>2, <1>2 DEF KickChild, childVars, EndWaited
  <2>3. QED
    BY <2>1, <2>2
<1>7. CASE Join \/ ParentDies
  BY <1>7 DEF Join, ParentDies, EndWaited
<1>8. CASE \E t \in Thread : Alarm(t)
  <2>1. UNCHANGED <<requests, child, terminated>> /\ parent = "up" /\ call[cur] = "app"
    BY <1>8 DEF Alarm, Open, childVars
  <2>2. QED
    BY <2>1, <1>2 DEF EndWaited
<1>9. CASE EnterHandler \/ ReceiveReply \/ ApplyReply \/ LeaveHandler
  <2>1. UNCHANGED <<requests, child, terminated>> /\ parent = "up" /\ call[cur] = "app"
    BY <1>9 DEF EnterHandler, ReceiveReply, ApplyReply, LeaveHandler, Applying,
       InApplication, Open, childVars
  <2>2. QED
    BY <2>1, <1>2 DEF EndWaited
<1>10. CASE \E S \in SUBSET File : ChildPoll(S)
  BY <1>10, <1>1 DEF ChildPoll, parentVars, EndIsNear
<1>11. CASE ChildWindow
  <2>1. CASE parent = "up"
    BY <1>11, <2>1, <1>1 DEF ChildWindow, parentVars, EndIsNear
  <2>2. CASE parent # "up"
    BY <1>11, <2>2 DEF ChildWindow, parentVars, EndWaited
  <2>3. QED
    BY <2>1, <2>2
<1>12. CASE ChildDrain
  <2>1. CASE requests = <<>>
    BY <1>12, <2>1, <1>1 DEF ChildDrain, parentVars, EndIsNear
  <2>2. CASE requests # <<>>
    <3>1. /\ requests' = Tail(requests) /\ child' # "gone"
          /\ terminated' = (terminated \/ Head(requests).op = "terminate")
      BY <1>12, <2>2 DEF ChildDrain
    <3>2. /\ Len(requests) \in Nat \ {0} /\ DOMAIN requests = 1..Len(requests)
          /\ Head(requests) = requests[1]
          /\ DOMAIN requests' = 1..(Len(requests) - 1)
          /\ \A j \in DOMAIN requests' : requests'[j] = requests[j + 1]
      BY <2>2, <3>1, LenProperties, EmptySeq, HeadTailProperties DEF TypeOK, Types
    <3>3. (\E j \in DOMAIN requests' : requests'[j].op = "terminate") => EndIsNear
      BY <3>2 DEF EndIsNear
    <3>4. Head(requests).op = "terminate" => EndIsNear
      BY <3>2 DEF EndIsNear
    <3>5. EndIsNear' => EndIsNear
      BY <3>1, <3>3, <3>4 DEF EndIsNear
    <3>6. QED
      BY <1>12, <3>5, <1>1 DEF ChildDrain, parentVars
  <2>3. QED
    BY <2>1, <2>2
<1>13. CASE ChildReply \/ ChildKick \/ \E f \in File : ChildServe(f)
  <2>1. EndIsNear' => EndIsNear
    BY <1>13 DEF ChildReply, ChildKick, ChildServe, EndIsNear, TypeOK, Types
  <2>2. QED
    BY <1>13, <2>1, <1>1 DEF ChildReply, ChildKick, ChildServe, parentVars
<1>14. CASE ChildRound
  <2>1. EndIsNear' => EndIsNear
    BY <1>14 DEF ChildRound, EndIsNear
  <2>2. QED
    BY <1>14, <2>1, <1>1 DEF ChildRound, parentVars
<1>15. QED
  BY Actions, <1>3, <1>4, <1>5, <1>6, <1>7, <1>8, <1>9, <1>10, <1>11, <1>12, <1>13, <1>14

\* While a thread is in application code, or sends, the child is there.
LEMMA ChildIsThere ==
  ASSUME EndWaited, parent = "up", call[cur] \in {"app", "send"}
  PROVE  child # "gone" /\ \A j \in DOMAIN requests : requests[j].op # "terminate"
BY DEF EndWaited, EndIsNear

\* So the next id is free.
LEMMA NextIdFree ==
  ASSUME TypeOK, EachRequestInOnePlace, EndWaited, parent = "up", call[cur] = "app",
         NEW i \in Id, table[i] \notin Thread
  PROVE  NowhereButHandlers(i) /\ InHandlers(i) = {}
BY ChildIsThere, Nowhere DEF EachRequestInOnePlace

\* The threads and their entries in the table.
LEMMA EntriesStep ==
  TypeOK /\ Orderly /\ [Next]_vars
    => OwnEntry' /\ OneEntry' /\ TakenForWaiter' /\ IdleAlone'
<1> SUFFICES ASSUME TypeOK, Orderly, [Next]_vars
             PROVE  OwnEntry' /\ OneEntry' /\ TakenForWaiter' /\ IdleAlone'
  OBVIOUS
<1> USE DEF Orderly
<1> OneCaller
  BY DEF TypeOK
<1>0. /\ cur \in Thread /\ Idle \in Thread /\ None \notin Thread /\ Null \notin Thread
      /\ \A u \in Thread : handler[u].id \in Id
      /\ handler \in [Thread -> Handler]
      /\ table \in [Id -> Thread \union {None, Null}]
      /\ call \in [Thread -> {"app", "send", "kick", "wait", "join"}]
  BY ThreadsAssumption, NoneAssumption DEF TypeOK, Types, Handler
<1>1. ASSUME UNCHANGED <<cur, call, outbox, table, handler>>
      PROVE  OwnEntry' /\ OneEntry' /\ TakenForWaiter' /\ IdleAlone'
  BY <1>1 DEF OwnEntry, OneEntry, TakenForWaiter, IdleAlone, Sent, AppliesTo
<1>2. CASE UNCHANGED vars
  BY <1>2, <1>1 DEF vars, parentVars, childVars
<1>3. CASE MachineTerminate \/ \E op \in Requests : MachineFile(op)
  <2>1. PICK n \in Id : n = NextID
    BY <1>3, Added
  <2>2. /\ parent = "up" /\ call[cur] = "app" /\ table[n] = None
        /\ call' = [call EXCEPT ![cur] = "send"] /\ outbox'.id = n
        /\ cur' = cur /\ handler' = handler
    BY <1>3, <2>1, Added
  <2>3. /\ table'[n] \in Thread => table'[n] = cur /\ outbox'.op # "terminate" /\ cur # Idle
        /\ \A i \in Id : i # n => table'[i] = table[i]
        /\ outbox'.op = "terminate" /\ cur = Idle => \A t \in Thread : call[t] = "app"
    BY <1>0, <1>3, <2>1, Added
  <2>4. \A u \in Thread : handler[u].at = "apply" => handler[u].id # n
    <3>1. InHandlers(n) = {}
      BY <1>0, <2>1, <2>2, NextIdFree
    <3>2. QED
      BY <3>1 DEF InHandlers
  <2>5. \A i \in Id : table[i] # cur
    BY <1>0, <2>2 DEF OwnEntry, Sent
  <2>6. TakenForWaiter'
    BY <1>0, <2>2, <2>3, <2>4, <2>5 DEF TakenForWaiter, AppliesTo
  <2>7. OwnEntry' /\ OneEntry'
    BY <1>0, <2>2, <2>3, <2>5 DEF OwnEntry, OneEntry, Sent
  <2>8. IdleAlone'
    <3>1. CASE cur = Idle
      <4>1. CASE outbox'.op = "terminate"
        <5>1. \A i \in Id : table[i] \notin Thread
          BY <1>0, <2>3, <3>1, <4>1 DEF OwnEntry, Sent
        <5>2. table'[n] \notin Thread
          BY <2>3, <4>1
        <5>3. QED
          BY <2>3, <5>1, <5>2 DEF IdleAlone
      <4>2. CASE outbox'.op # "terminate"
        BY <1>3, <3>1, <4>2, Added
      <4>3. QED
        BY <4>1, <4>2
    <3>2. CASE cur # Idle
      BY <1>0, <2>2, <3>2 DEF IdleAlone, OneCaller
    <3>3. QED
      BY <3>1, <3>2
  <2>9. QED
    BY <2>6, <2>7, <2>8
<1>4. CASE SendRequest
  <2>1. /\ call' = [call EXCEPT ![cur] = "kick"] /\ call[cur] = "send"
        /\ UNCHANGED <<cur, outbox, table, handler>>
    BY <1>4 DEF SendRequest
  <2>2. QED
    BY <1>0, <2>1 DEF OwnEntry, OneEntry, TakenForWaiter, IdleAlone, Sent, AppliesTo
<1>5. CASE KickChild
  <2>1. /\ call[cur] = "kick" /\ cur' \in Thread
        /\ UNCHANGED <<table, handler>>
    BY <1>5 DEF KickChild, Runnable, TypeOK, Types
  <2>2. \/ call' = [call EXCEPT ![cur] = "join"] /\ cur' = cur /\ outbox.op = "terminate"
        \/ call' = [call EXCEPT ![cur] = "wait"] /\ outbox.op # "terminate"
    BY <1>5 DEF KickChild
  <2>3. OwnEntry' /\ OneEntry'
    BY <1>0, <2>1, <2>2 DEF OwnEntry, OneEntry, Sent, OneCaller
  <2>4. TakenForWaiter'
    BY <1>0, <2>1, <2>2 DEF TakenForWaiter, AppliesTo
  <2>5. IdleAlone'
    BY <1>0, <2>1, <2>2 DEF IdleAlone, OneCaller
  <2>6. QED
    BY <2>3, <2>4, <2>5
<1>6. CASE Join \/ ParentDies
  BY <1>6, <1>1 DEF Join, ParentDies
<1>7. CASE \E t \in Thread : Alarm(t)
  <2>1. /\ call[cur] = "app" /\ UNCHANGED <<call, outbox, table, handler>>
    BY <1>7 DEF Alarm, Open
  <2>2. QED
    BY <1>0, <2>1 DEF OwnEntry, OneEntry, TakenForWaiter, IdleAlone, Sent, AppliesTo
<1>8. CASE EnterHandler \/ LeaveHandler
  <2>1. PICK h \in {NoHandler, Draining} : handler' = [handler EXCEPT ![cur] = h]
    BY <1>8 DEF EnterHandler, LeaveHandler
  <2>2. h.at # "apply"
    BY <2>1 DEF NoHandler, Draining
  <2>3. UNCHANGED <<cur, call, outbox, table>>
    BY <1>8 DEF EnterHandler, LeaveHandler
  <2>4. TakenForWaiter'
    BY <1>0, <2>1, <2>2, <2>3 DEF TakenForWaiter, AppliesTo
  <2>5. QED
    BY <2>3, <2>4 DEF OwnEntry, OneEntry, IdleAlone, Sent
<1>9. CASE ReceiveReply
  <2>1. UNCHANGED <<cur, call, outbox, table>> /\ call[cur] = "app"
    BY <1>9 DEF ReceiveReply, Open
  <2>2. \A i \in Id : table[i] \in Thread => call[table[i]] = "wait"
    BY <1>0, <2>1 DEF OwnEntry, Sent
  <2>3. \A u \in Thread : handler'[u].id \in Id
    <3>1. Head(replies).id \in Id
      <4>1. Head(replies) \in Reply
        BY <1>9, HeadTailProperties DEF ReceiveReply, TypeOK, Types
      <4>2. QED
        BY <4>1 DEF Reply
    <3>2. handler' = [handler EXCEPT ![cur] = [at |-> "apply", id |-> Head(replies).id,
                                               read |-> Head(replies).read]]
      BY <1>9 DEF ReceiveReply
    <3>3. QED
      BY <1>0, <3>1, <3>2
  <2>4. TakenForWaiter'
    BY <2>1, <2>2, <2>3 DEF TakenForWaiter, AppliesTo
  <2>5. QED
    BY <2>1, <2>4 DEF OwnEntry, OneEntry, IdleAlone, Sent
<1>10. CASE ApplyReply
  <2> DEFINE k == handler[cur].id
  <2>1. /\ k \in Id /\ handler[cur].at = "apply" /\ call[cur] = "app"
        /\ table' = [table EXCEPT ![k] = None]
        /\ handler' = [handler EXCEPT ![cur] = Draining]
        /\ call' = [t \in Thread |-> IF t = table[k] /\ call[t] = "wait" THEN "app" ELSE call[t]]
        /\ UNCHANGED <<cur, outbox>>
    BY <1>0, <1>10 DEF ApplyReply, Applying, Open
  <2> HIDE DEF k
  <2>2. \A i \in Id : table'[i] \in Thread =>
           i # k /\ table'[i] = table[i] /\ call'[table[i]] = call[table[i]]
    BY <1>0, <2>1 DEF OneEntry
  <2>3. IdleAlone'
    BY <1>0, <2>1, <2>2 DEF OneCaller, IdleAlone
  <2>4. OwnEntry' /\ OneEntry'
    BY <1>0, <2>1, <2>2 DEF OwnEntry, OneEntry, Sent
  <2>5. TakenForWaiter'
    <3>1. SUFFICES ASSUME NEW u \in Thread, AppliesTo(u)'
                   PROVE  call'[table'[handler'[u].id]] = "wait"
      BY DEF TakenForWaiter
    <3>2. handler'[u] = handler[u] /\ handler[u].id \in Id
      BY <1>0, <2>1, <3>1 DEF AppliesTo, Draining
    <3>3. AppliesTo(u) /\ table'[handler[u].id] = table[handler[u].id]
      BY <2>2, <3>1, <3>2 DEF AppliesTo
    <3>4. QED
      BY <2>2, <3>1, <3>2, <3>3 DEF TakenForWaiter, AppliesTo
  <2>6. QED
    BY <2>3, <2>4, <2>5
<1>11. CASE \/ \E S \in SUBSET File : ChildPoll(S)
            \/ ChildWindow \/ ChildDrain \/ ChildReply \/ ChildKick
            \/ \E f \in File : ChildServe(f)
            \/ ChildRound
  <2>1. UNCHANGED parentVars
    BY <1>11 DEF ChildPoll, ChildWindow, ChildDrain, ChildReply, ChildKick, ChildServe,
       ChildRound
  <2>2. QED
    BY <2>1, <1>1 DEF parentVars
<1>12. QED
  BY Actions, <1>2, <1>3, <1>4, <1>5, <1>6, <1>7, <1>8, <1>9, <1>10, <1>11

-----------------------------------------------------------------------------
\* A destination is lost only with its request, and only the replies to reads
\* are made in a buffer that holds a read.
LEMMA DestinedStep == TypeOK /\ TypeOK' /\ Orderly /\ Destined /\ [Next]_vars => Destined'
<1> SUFFICES ASSUME TypeOK, TypeOK', Orderly, Destined, [Next]_vars PROVE Destined'
  OBVIOUS
<1> USE DEF Orderly
<1>0. /\ cur \in Thread
      /\ handler \in [Thread -> Handler] /\ \A u \in Thread : handler[u].id \in Id
      /\ table \in [Id -> Thread \union {None, Null}] /\ dest \in [Id -> BOOLEAN]
      /\ None \notin Thread /\ Null \notin Thread
      /\ call \in [Thread -> {"app", "send", "kick", "wait", "join"}]
      /\ \A j \in DOMAIN requests : requests[j] \in Message /\ requests[j].id \in Id
      /\ \A j \in DOMAIN reads : reads[j].id \in Id
      /\ \A j \in DOMAIN replies : replies[j].id \in Id
      /\ outbox \in Message /\ outbox.id \in Id /\ answer \in Id
  <2>1. /\ \A j \in DOMAIN requests : requests[j] \in Message
        /\ \A j \in DOMAIN reads : reads[j] \in Read
        /\ \A j \in DOMAIN replies : replies[j] \in Reply
    BY LenProperties, ElementOfSeq DEF TypeOK, Types
  <2>2. QED
    BY <2>1, NoneAssumption DEF TypeOK, Types, Handler, Message, Read, Reply
<1>1. ASSUME UNCHANGED <<cur, call, outbox, dest, requests, reads, child, isRead, answer,
                         replies, table, handler>>
      PROVE  Destined'
  BY <1>1 DEF Destined, NoCopyToNull, AppliesTo
<1>2. CASE UNCHANGED vars
  BY <1>2, <1>1 DEF vars, parentVars, childVars
<1>3. CASE MachineTerminate \/ \E op \in Requests : MachineFile(op)
  <2>1. PICK n \in Id : n = NextID
    BY <1>3, Added
  <2>2. /\ parent = "up" /\ call[cur] = "app" /\ table[n] = None
        /\ dest' = [dest EXCEPT ![n] = outbox'.op \in File] /\ outbox'.id = n
        /\ \A i \in Id : i # n => table'[i] = table[i]
        /\ UNCHANGED <<cur, handler, requests, replies, child, reads, isRead, answer>>
    BY <1>0, <1>3, <2>1, Added DEF childVars
  <2>3. NowhereButHandlers(n) /\ InHandlers(n) = {}
    BY <1>0, <2>1, <2>2, NextIdFree
  <2>4. \A i \in Id : i # n => dest'[i] = dest[i]
    BY <1>0, <2>2
  <2>5. dest'[n] = (outbox'.op \in File)
    BY <1>0, <2>2
  <2>6. \A j \in DOMAIN requests' : requests'[j].op \in File => dest'[requests'[j].id]
    <3>1. SUFFICES ASSUME NEW j \in DOMAIN requests, requests[j].op \in File
                   PROVE  dest'[requests[j].id]
      BY <2>2
    <3>2. requests[j] \notin Asks(n)
      BY <2>3 DEF NowhereButHandlers
    <3>3. requests[j].id # n
      BY <1>0, <3>1, <3>2, FileAssumption DEF Asks
    <3>4. QED
      BY <1>0, <2>4, <3>1, <3>3 DEF Destined
  <2>7. \A j \in DOMAIN reads' : dest'[reads'[j].id]
    BY <1>0, <2>2, <2>3, <2>4 DEF Destined, NowhereButHandlers
  <2>8. child' = "reply" /\ isRead' => dest'[answer']
    BY <1>0, <2>2, <2>3, <2>4 DEF Destined, NowhereButHandlers
  <2>9. \A j \in DOMAIN replies' : replies'[j].read => dest'[replies'[j].id]
    BY <1>0, <2>2, <2>3, <2>4 DEF Destined, NowhereButHandlers
  <2>10. NoCopyToNull'
    <3>1. SUFFICES ASSUME NEW u \in Thread, AppliesTo(u)', handler[u].read
                   PROVE  dest'[handler[u].id]
      BY <2>2 DEF NoCopyToNull
    <3>2. handler[u].at = "apply" /\ handler[u].id # n
      BY <2>2, <2>3, <3>1 DEF AppliesTo, InHandlers
    <3>3. AppliesTo(u)
      BY <1>0, <2>2, <3>1, <3>2 DEF AppliesTo
    <3>4. QED
      BY <1>0, <2>4, <3>1, <3>2, <3>3 DEF Destined, NoCopyToNull
  <2>11. QED
    BY <2>2, <2>5, <2>6, <2>7, <2>8, <2>9, <2>10 DEF Destined
<1>4. CASE SendRequest
  <2>1. /\ call'[cur'] = "kick" /\ requests' = Append(requests, outbox)
        /\ UNCHANGED <<dest, reads, child, isRead, answer, replies, table, handler>>
    BY <1>0, <1>4 DEF SendRequest, childVars
  <2>2. outbox.op \in File => dest[outbox.id]
    BY <1>4 DEF SendRequest, Destined
  <2>3. \A j \in DOMAIN requests' : requests'[j] = outbox \/ \E k \in DOMAIN requests : requests'[j] = requests[k]
    BY <2>1, ElementsOfAppend DEF TypeOK, Types
  <2>4. \A j \in DOMAIN requests' : requests'[j].op \in File => dest'[requests'[j].id]
    BY <2>1, <2>2, <2>3 DEF Destined
  <2>5. QED
    BY <2>1, <2>4 DEF Destined, NoCopyToNull, AppliesTo
<1>5. CASE KickChild
  <2>1. /\ call'[cur'] # "send"
        /\ UNCHANGED <<dest, requests, reads, child, isRead, answer, replies, table, handler>>
    BY <1>0, <1>5 DEF KickChild, childVars, Runnable
  <2>2. QED
    BY <2>1 DEF Destined, NoCopyToNull, AppliesTo
<1>6. CASE Join \/ ParentDies
  BY <1>6, <1>1 DEF Join, ParentDies, childVars
<1>7. CASE \E t \in Thread : Alarm(t)
  <2>1. /\ call'[cur'] # "send"
        /\ UNCHANGED <<dest, requests, reads, child, isRead, answer, replies, table, handler>>
    BY <1>7 DEF Alarm, Runnable, childVars
  <2>2. QED
    BY <2>1 DEF Destined, NoCopyToNull, AppliesTo
<1>8. CASE EnterHandler \/ LeaveHandler
  <2>1. PICK h \in {NoHandler, Draining} : handler' = [handler EXCEPT ![cur] = h]
    BY <1>8 DEF EnterHandler, LeaveHandler
  <2>2. h.at # "apply"
    BY <2>1 DEF NoHandler, Draining
  <2>3. UNCHANGED <<cur, call, outbox, dest, requests, reads, child, isRead, answer, replies, table>>
    BY <1>8 DEF EnterHandler, LeaveHandler, childVars
  <2>4. NoCopyToNull'
    BY <1>0, <2>1, <2>2, <2>3 DEF Destined, NoCopyToNull, AppliesTo
  <2>5. QED
    BY <2>3, <2>4 DEF Destined
<1>9. CASE ReceiveReply
  <2>1. UNCHANGED <<cur, call, outbox, dest, requests, reads, child, isRead, answer, table>>
    BY <1>9 DEF ReceiveReply, childVars
  <2>2. /\ replies # <<>> /\ replies' = Tail(replies)
        /\ handler' = [handler EXCEPT ![cur] = [at |-> "apply", id |-> Head(replies).id,
                                                read |-> Head(replies).read]]
    BY <1>9 DEF ReceiveReply
  <2>3. /\ \E k \in DOMAIN replies : Head(replies) = replies[k]
        /\ \A j \in DOMAIN replies' : \E k \in DOMAIN replies : replies'[j] = replies[k]
    BY <2>2, ElementsOfTail DEF TypeOK, Types
  <2>4. \A j \in DOMAIN replies' : replies'[j].read => dest'[replies'[j].id]
    BY <2>1, <2>3 DEF Destined
  <2>5. Head(replies).read => dest[Head(replies).id]
    BY <2>3 DEF Destined
  <2>6. NoCopyToNull'
    <3>1. SUFFICES ASSUME NEW u \in Thread, AppliesTo(u)', handler'[u].read
                   PROVE  dest[handler'[u].id]
      BY <2>1 DEF NoCopyToNull
    <3>2. CASE u = cur
      BY <1>0, <2>2, <2>5, <3>1, <3>2
    <3>3. CASE u # cur
      BY <1>0, <2>1, <2>2, <3>1, <3>3 DEF Destined, NoCopyToNull, AppliesTo
    <3>4. QED
      BY <3>2, <3>3
  <2>7. QED
    BY <2>1, <2>4, <2>6 DEF Destined
<1>10. CASE ApplyReply
  <2>1. PICK k \in Id : k = handler[cur].id
    BY <1>0
  <2>2. /\ parent = "up" /\ call[cur] = "app" /\ handler[cur].at = "apply"
        /\ table' = [table EXCEPT ![k] = None] /\ dest' = [dest EXCEPT ![k] = FALSE]
        /\ handler' = [handler EXCEPT ![cur] = Draining]
        /\ call'[cur'] = "app"
        /\ UNCHANGED <<requests, replies, reads, child, isRead, answer>>
    BY <1>0, <1>10, <2>1 DEF ApplyReply, Applying, Open, childVars
  <2>3. InHandlers(k) # {}
    BY <1>0, <2>1, <2>2 DEF InHandlers
  <2>4. Places(k) = 1
    <3>1. child # "gone"
      BY <2>2, ChildIsThere
    <3>2. Places(k) # 0
      BY <2>3, Nowhere
    <3>3. QED
      BY <3>1, <3>2 DEF EachRequestInOnePlace
  <2>5. NowhereButHandlers(k)
    BY <2>3, <2>4, OnlyInHandler
  <2>6. \A i \in Id : i # k => dest'[i] = dest[i] /\ table'[i] = table[i]
    BY <1>0, <2>2
  <2>7. \A j \in DOMAIN requests' : requests'[j].op \in File => dest'[requests'[j].id]
    <3>1. SUFFICES ASSUME NEW j \in DOMAIN requests, requests[j].op \in File
                   PROVE  dest'[requests[j].id]
      BY <2>2
    <3>2. requests[j] \notin Asks(k)
      BY <2>5 DEF NowhereButHandlers
    <3>3. requests[j].id # k
      BY <1>0, <3>1, <3>2, FileAssumption DEF Asks
    <3>4. QED
      BY <1>0, <2>6, <3>1, <3>3 DEF Destined
  <2>8. \A j \in DOMAIN reads' : dest'[reads'[j].id]
    BY <1>0, <2>2, <2>5, <2>6 DEF Destined, NowhereButHandlers
  <2>9. child' = "reply" /\ isRead' => dest'[answer']
    BY <1>0, <2>2, <2>5, <2>6 DEF Destined, NowhereButHandlers
  <2>10. \A j \in DOMAIN replies' : replies'[j].read => dest'[replies'[j].id]
    BY <1>0, <2>2, <2>5, <2>6 DEF Destined, NowhereButHandlers
  <2>11. NoCopyToNull'
    <3>1. SUFFICES ASSUME NEW u \in Thread, AppliesTo(u)', handler'[u].read
                   PROVE  dest'[handler'[u].id]
      BY DEF NoCopyToNull
    <3>2. u # cur /\ handler'[u] = handler[u]
      BY <1>0, <2>2, <3>1 DEF AppliesTo, Draining
    <3>3. handler[u].id # k
      BY <1>0, <2>2, <3>1, <3>2 DEF AppliesTo
    <3>4. AppliesTo(u)
      BY <1>0, <2>6, <3>1, <3>2, <3>3 DEF AppliesTo
    <3>5. QED
      BY <1>0, <2>6, <3>1, <3>2, <3>3, <3>4 DEF Destined, NoCopyToNull
  <2>12. QED
    BY <2>2, <2>7, <2>8, <2>9, <2>10, <2>11 DEF Destined
<1>11. CASE (\E S \in SUBSET File : ChildPoll(S)) \/ ChildWindow \/ ChildKick \/ ChildRound
  <2>1. UNCHANGED <<cur, call, outbox, dest, reads, isRead, table, handler>>
        /\ child' # "reply"
    BY <1>11 DEF ChildPoll, ChildWindow, ChildKick, ChildRound, parentVars, TypeOK, Types
  <2>2. requests' \in {requests, <<>>} /\ replies' \in {replies, <<>>}
    BY <1>11 DEF ChildPoll, ChildWindow, ChildKick, ChildRound
  <2>3. QED
    BY <2>1, <2>2 DEF Destined, NoCopyToNull, AppliesTo
<1>12. CASE ChildDrain
  <2>1. UNCHANGED <<cur, call, outbox, dest, table, handler, replies>>
    BY <1>12 DEF ChildDrain, parentVars
  <2>2. NoCopyToNull'
    BY <2>1 DEF Destined, NoCopyToNull, AppliesTo
  <2>3. CASE requests = <<>>
    <3>1. UNCHANGED <<requests, reads>> /\ child' # "reply"
      BY <1>12, <2>3 DEF ChildDrain
    <3>2. QED
      BY <2>1, <2>2, <3>1 DEF Destined
  <2>4. CASE requests # <<>>
    <3> DEFINE m == Head(requests)
    <3>1. /\ requests' = Tail(requests)
          /\ reads' = IF m.op \in File THEN Append(reads, [id |-> m.id, fd |-> m.op]) ELSE reads
          /\ isRead' = (m.op \in File)
          /\ child' = IF m.op = "now" THEN "reply" ELSE "drain"
      BY <1>12, <2>4 DEF ChildDrain
    <3>2. /\ \E k \in DOMAIN requests : m = requests[k]
          /\ \A j \in DOMAIN requests' : \E k \in DOMAIN requests : requests'[j] = requests[k]
      BY <2>4, <3>1, ElementsOfTail DEF TypeOK, Types
    <3> HIDE DEF m
    <3>3. \A j \in DOMAIN requests' : requests'[j].op \in File => dest'[requests'[j].id]
      BY <2>1, <3>2 DEF Destined
    <3>4. m.op \in File => dest[m.id] /\ m.id \in Id
      BY <1>0, <3>2 DEF Destined
    <3>5. \A j \in DOMAIN reads' : dest'[reads'[j].id]
      <4>1. CASE m.op \in File
        <5> DEFINE r == [id |-> m.id, fd |-> m.op]
        <5>1. r \in Read /\ r.id = m.id
          BY <3>4, <4>1 DEF Read
        <5>2. reads' = Append(reads, r)
          BY <3>1, <4>1
        <5> HIDE DEF r
        <5>3. \A j \in DOMAIN reads' : reads'[j] = r \/ \E k \in DOMAIN reads : reads'[j] = reads[k]
          BY <5>1, <5>2, ElementsOfAppend DEF TypeOK, Types
        <5>4. QED
          BY <2>1, <3>4, <4>1, <5>1, <5>3 DEF Destined
      <4>2. CASE m.op \notin File
        BY <2>1, <3>1, <4>2 DEF Destined
      <4>3. QED
        BY <4>1, <4>2
    <3>6. ~ (child' = "reply" /\ isRead')
      BY <3>1, FileAssumption
    <3>7. QED
      BY <2>1, <2>2, <3>3, <3>5, <3>6 DEF Destined
  <2>5. QED
    BY <2>3, <2>4
<1>13. CASE ChildReply
  <2> DEFINE r == [id |-> answer, read |-> isRead]
  <2>1. /\ UNCHANGED <<cur, call, outbox, dest, table, handler, requests, reads>>
        /\ child' = "kick" /\ replies' = Append(replies, r) /\ child = "reply"
    BY <1>13 DEF ChildReply, parentVars
  <2>2. r \in Reply /\ (r.read => dest[r.id])
    BY <2>1 DEF TypeOK, Types, Reply, Destined
  <2> HIDE DEF r
  <2>3. \A j \in DOMAIN replies' : replies'[j] = r \/ \E k \in DOMAIN replies : replies'[j] = replies[k]
    BY <2>1, <2>2, ElementsOfAppend DEF TypeOK, Types
  <2>4. \A j \in DOMAIN replies' : replies'[j].read => dest'[replies'[j].id]
    BY <2>1, <2>2, <2>3 DEF Destined
  <2>5. QED
    BY <2>1, <2>4 DEF Destined, NoCopyToNull, AppliesTo
<1>14. CASE \E f \in File : ChildServe(f)
  <2>1. PICK f \in File : ChildServe(f)
    BY <1>14
  <2>2. PICK k \in DOMAIN reads : answer' = reads[k].id /\ reads' = RemoveAt(reads, k)
    BY <2>1 DEF ChildServe
  <2>3. UNCHANGED <<cur, call, outbox, dest, table, handler, requests, replies>>
    BY <2>1 DEF ChildServe, parentVars
  <2>4. k \in 1..Len(reads)
    BY <2>2, LenProperties DEF TypeOK, Types
  <2>5. \A j \in DOMAIN reads' : \E l \in DOMAIN reads : reads'[j] = reads[l]
    BY <2>2, <2>4, ElementsOfRemoveAt DEF TypeOK, Types
  <2>6. dest'[answer'] /\ \A j \in DOMAIN reads' : dest'[reads'[j].id]
    BY <2>2, <2>3, <2>5 DEF Destined
  <2>7. QED
    BY <2>3, <2>6 DEF Destined, NoCopyToNull, AppliesTo
<1>15. QED
  BY Actions, <1>2, <1>3, <1>4, <1>5, <1>6, <1>7, <1>8, <1>9, <1>10, <1>11, <1>12, <1>13, <1>14

-----------------------------------------------------------------------------
\* The inductive invariant, and what it says.
IOInv == TypeOK /\ Orderly /\ Destined

\* The invariant holds in the first state.
LEMMA InitInv == Init => IOInv
<1> SUFFICES ASSUME Init PROVE IOInv
  OBVIOUS
<1>1. EachRequestInOnePlace
  BY InitInOnePlace
<1>2. /\ cur \in Thread /\ \A t \in Thread : call[t] = "app"
      /\ \A i \in Id : table[i] \notin Thread
      /\ \A u \in Thread : handler[u].at = "out"
  BY ThreadsAssumption, NoneAssumption DEF Init, NoHandler
<1>3. EndWaited /\ OwnEntry /\ OneEntry /\ IdleAlone
  BY <1>2, ThreadsAssumption DEF Init, EndWaited, EndIsNear, OwnEntry, OneEntry, IdleAlone
<1>4. TakenForWaiter /\ NoCopyToNull
  BY <1>2 DEF TakenForWaiter, NoCopyToNull, AppliesTo
<1>5. Destined
  BY <1>2, <1>4 DEF Init, Destined
<1>6. QED
  BY <1>1, <1>3, <1>4, <1>5, InitType DEF IOInv, Orderly

\* Every step keeps the invariant.
LEMMA InvStep == IOInv /\ [Next]_vars => IOInv'
BY NextType, PlaceStep, EndStep, EntriesStep, DestinedStep DEF IOInv, Orderly

\* The invariant holds in every state.
LEMMA Invariant == Spec => []IOInv
BY InitInv, InvStep, PTL DEF Spec

\* However often the ids wrap and the handlers interleave: data are copied only
\* to a caller that has given a destination.
THEOREM NothingCopiedToNull == Spec => []NoCopyToNull
<1>1. IOInv => NoCopyToNull
  BY DEF IOInv, Destined
<1>2. QED
  BY <1>1, Invariant, PTL

-----------------------------------------------------------------------------
\* A step that touches neither the flags of the waiting threads nor the replies
\* that have been taken is none of the service's business.
LEMMA NoServiceStep ==
  ASSUME \A t \in Thread : (call'[t] = "wait") = (call[t] = "wait"),
         \A u \in Thread : Answering(u)' = Answering(u)
  PROVE  UNCHANGED Service!fsvars
BY DEF Service!fsvars

\* A function that differs from another at one argument only.
LEMMA UpdateAtOne ==
  ASSUME NEW S, NEW T, NEW f \in [S -> T], NEW g \in [S -> T], NEW c \in S,
         \A x \in S \ {c} : g[x] = f[x]
  PROVE  g = [f EXCEPT ![c] = g[c]]
OBVIOUS

\* Every step of the machine layer maps to a step of the file service.
LEMMA ServiceStep == IOInv /\ [Next]_vars => [Service!Next]_(Service!fsvars)
<1> SUFFICES ASSUME IOInv, [Next]_vars PROVE [Service!Next]_(Service!fsvars)
  OBVIOUS
<1> USE DEF IOInv, Orderly
<1>0. /\ cur \in Thread /\ None \notin Thread /\ Null \notin Thread
      /\ handler \in [Thread -> Handler] /\ \A u \in Thread : handler[u].id \in Id
      /\ table \in [Id -> Thread \union {None, Null}]
      /\ call \in [Thread -> {"app", "send", "kick", "wait", "join"}]
  BY NoneAssumption DEF TypeOK, Types, Handler
<1>00. PICK c \in Thread : c = cur
  BY <1>0
<1> DEFINE Waits == [t \in Thread |-> call[t] = "wait"]
           Pending == [t \in Thread |-> IF call[t] = "wait" /\ \A u \in Thread : Answering(u) # t
                                        THEN 1 ELSE 0]
           Taken == [u \in Thread |-> Answering(u)]
<1>1. ASSUME UNCHANGED <<table, handler>>,
             \A t \in Thread : (call'[t] = "wait") = (call[t] = "wait")
      PROVE  UNCHANGED Service!fsvars
  <2>1. \A u \in Thread : Answering(u)' = Answering(u)
    BY <1>1 DEF Answering, AppliesTo
  <2>2. QED
    BY <1>1, <2>1, NoServiceStep
<1>2. CASE UNCHANGED vars
  BY <1>2, <1>1 DEF vars, parentVars
<1>3. CASE MachineTerminate \/ \E op \in Requests : MachineFile(op)
  <2>1. PICK n \in Id : n = NextID
    BY <1>3, Added
  <2>2. /\ parent = "up" /\ call[cur] = "app" /\ table[n] = None
        /\ call' = [call EXCEPT ![cur] = "send"]
        /\ \A i \in Id : i # n => table'[i] = table[i]
        /\ handler' = handler
    BY <1>0, <1>3, <2>1, Added
  <2>3. \A u \in Thread : handler[u].at = "apply" => handler[u].id # n
    <3>1. InHandlers(n) = {}
      BY <1>0, <2>1, <2>2, NextIdFree
    <3>2. QED
      BY <3>1 DEF InHandlers
  <2>4. \A u \in Thread : Answering(u)' = Answering(u)
    BY <1>0, <2>2, <2>3 DEF Answering, AppliesTo
  <2>5. \A t \in Thread : (call'[t] = "wait") = (call[t] = "wait")
    BY <1>0, <2>2
  <2>6. QED
    BY <2>4, <2>5, NoServiceStep
<1>4. CASE SendRequest
  <2>1. \A t \in Thread : (call'[t] = "wait") = (call[t] = "wait")
    BY <1>0, <1>4 DEF SendRequest
  <2>2. QED
    BY <1>4, <2>1, <1>1 DEF SendRequest
<1>5. CASE KickChild
  <2>1. UNCHANGED <<table, handler>> /\ call[cur] = "kick"
    BY <1>5 DEF KickChild
  <2>2. CASE outbox.op = "terminate"
    <3>1. \A t \in Thread : (call'[t] = "wait") = (call[t] = "wait")
      BY <1>0, <1>5, <2>2 DEF KickChild
    <3>2. QED
      BY <2>1, <3>1, <1>1
  <2>3. CASE outbox.op # "terminate"
    <3>1. call' = [call EXCEPT ![cur] = "wait"]
      BY <1>5, <2>3 DEF KickChild
    <3>2. \A u \in Thread : Answering(u)' = Answering(u)
      BY <2>1 DEF Answering, AppliesTo
    <3>3. \A u \in Thread : Answering(u) # c
      BY <1>0, <1>00, <2>1 DEF Answering, TakenForWaiter
    <3>4. Service!Request(c)
      <4>1. /\ call' = [call EXCEPT ![c] = "wait"] /\ call[c] # "wait"
        BY <1>00, <2>1, <3>1
      <4>2. Waits' = [Waits EXCEPT ![c] = TRUE]
        BY <1>0, <4>1
      <4>3. Pending[c] = 0 /\ Pending'[c] = 1
        BY <1>0, <4>1, <3>2, <3>3
      <4>4. \A t \in Thread \ {c} : Pending'[t] = Pending[t]
        BY <1>0, <4>1, <3>2
      <4>5. Pending' = [Pending EXCEPT ![c] = @ + 1]
        <5>1. Pending \in [Thread -> {0, 1}] /\ Pending' \in [Thread -> {0, 1}]
          OBVIOUS
        <5> HIDE DEF Pending
        <5>2. Pending' = [Pending EXCEPT ![c] = Pending'[c]]
          BY <4>4, <5>1, UpdateAtOne
        <5>3. QED
          BY <4>3, <5>2
      <4>6. Taken' = Taken
        BY <3>2
      <4>7. QED
        BY <4>2, <4>5, <4>6 DEF Service!Request
    <3>5. QED
      BY <1>0, <3>4 DEF Service!Next
  <2>4. QED
    BY <2>2, <2>3
<1>6. CASE Join \/ ParentDies \/ \E t \in Thread : Alarm(t)
  BY <1>6, <1>1 DEF Join, ParentDies, Alarm
<1>7. CASE EnterHandler \/ LeaveHandler
  <2>1. PICK h \in {NoHandler, Draining} : handler' = [handler EXCEPT ![cur] = h]
    BY <1>7 DEF EnterHandler, LeaveHandler
  <2>2. h.at # "apply" /\ handler[cur].at # "apply" /\ UNCHANGED <<call, table>>
    BY <1>7, <2>1 DEF EnterHandler, LeaveHandler, InApplication, NoHandler, Draining
  <2>3. \A u \in Thread : Answering(u)' = Answering(u)
    BY <1>0, <2>1, <2>2 DEF Answering, AppliesTo
  <2>4. QED
    BY <2>2, <2>3, NoServiceStep
<1>8. CASE ReceiveReply
  <2> DEFINE i == Head(replies).id
  <2>1. PICK h : /\ h.at = "apply" /\ h.id = i
                 /\ handler' = [handler EXCEPT ![cur] = h]
    BY <1>8 DEF ReceiveReply
  <2>2. /\ parent = "up" /\ call[cur] = "app" /\ handler[cur].at # "apply"
        /\ replies # <<>> /\ UNCHANGED <<call, table>>
    BY <1>8 DEF ReceiveReply, Open, Draining
  <2>3. i \in Id /\ \E j \in DOMAIN replies : replies[j].id = i
    <3>1. Head(replies) \in Reply /\ \E j \in DOMAIN replies : Head(replies) = replies[j]
      BY <2>2, HeadTailProperties, ElementsOfTail DEF TypeOK, Types
    <3>2. QED
      BY <3>1 DEF Reply
  <2> HIDE DEF i
  <2>4. \A u \in Thread \ {c} : Answering(u)' = Answering(u)
    BY <1>0, <1>00, <2>1, <2>2 DEF Answering, AppliesTo
  <2>5. Answering(c) = None
    BY <1>00, <2>2 DEF Answering, AppliesTo
  <2>6. CASE table[i] \notin Thread
    <3>1. Answering(c)' = None
      BY <1>0, <1>00, <2>1, <2>2, <2>6 DEF Answering, AppliesTo
    <3>2. \A u \in Thread : Answering(u)' = Answering(u)
      BY <2>4, <2>5, <3>1
    <3>3. QED
      BY <2>2, <3>2, NoServiceStep
  <2>7. CASE table[i] \in Thread
    <3>1. PICK t \in Thread : t = table[i]
      BY <2>7
    <3>2. Answering(c)' = t
      BY <1>0, <1>00, <2>1, <2>2, <3>1 DEF Answering, AppliesTo
    <3>3. call[t] = "wait"
      BY <2>2, <2>3, <3>1 DEF OwnEntry, Sent
    <3>4. \A u \in Thread : Answering(u) # t
      <4>1. SUFFICES ASSUME NEW u \in Thread, Answering(u) = t PROVE FALSE
        OBVIOUS
      <4>2. AppliesTo(u) /\ handler[u].id = i
        BY <1>0, <1>00, <2>3, <3>1, <4>1 DEF Answering, AppliesTo, OneEntry
      <4>3. InHandlers(i) # {}
        BY <4>2 DEF AppliesTo, InHandlers
      <4>4. Places(i) = 1
        BY <2>2, <2>3, <2>7, ChildIsThere DEF EachRequestInOnePlace
      <4>5. QED
        BY <2>3, <4>3, <4>4, OnlyInHandler DEF NowhereButHandlers
    <3>5. Service!Take(c, t)
      <4>1. Pending[t] = 1 /\ Pending'[t] = 0
        BY <3>2, <3>3, <3>4
      <4>2. \A x \in Thread \ {t} : Pending'[x] = Pending[x]
        BY <1>0, <2>2, <2>4, <2>5, <3>2
      <4>3. Pending' = [Pending EXCEPT ![t] = @ - 1]
        <5>1. Pending \in [Thread -> {0, 1}] /\ Pending' \in [Thread -> {0, 1}]
          OBVIOUS
        <5> HIDE DEF Pending
        <5>2. Pending' = [Pending EXCEPT ![t] = Pending'[t]]
          BY <4>2, <5>1, UpdateAtOne
        <5>3. QED
          BY <4>1, <5>2
      <4>4. Taken' = [Taken EXCEPT ![c] = t] /\ Taken[c] = None
        BY <2>4, <2>5, <3>2
      <4>5. Waits' = Waits
        BY <2>2
      <4>6. QED
        BY <4>1, <4>3, <4>4, <4>5 DEF Service!Take
    <3>6. QED
      BY <1>0, <1>00, <3>5 DEF Service!Next
  <2>8. QED
    BY <2>6, <2>7
<1>9. CASE ApplyReply
  <2>1. PICK k \in Id : k = handler[cur].id
    BY <1>0
  <2>2. /\ parent = "up" /\ call[cur] = "app" /\ handler[cur].at = "apply"
        /\ table' = [table EXCEPT ![k] = None]
        /\ handler' = [handler EXCEPT ![cur] = Draining]
        /\ call' = [t \in Thread |-> IF t = table[k] /\ call[t] = "wait" THEN "app" ELSE call[t]]
    BY <1>9, <2>1 DEF ApplyReply, Applying, Open
  <2>3. InHandlers(k) # {} /\ cur \in InHandlers(k)
    BY <1>0, <1>00, <2>1, <2>2 DEF InHandlers
  <2>4. Places(k) = 1 /\ table[k] \in Thread
    <3>1. child # "gone"
      BY <2>2, ChildIsThere
    <3>2. Places(k) # 0
      BY <2>3, Nowhere
    <3>3. QED
      BY <3>1, <3>2 DEF EachRequestInOnePlace
  <2>5. InHandlers(k) = {cur}
    BY <2>3, <2>4, OnlyInHandler
  <2>6. \A u \in Thread \ {c} : Answering(u)' = Answering(u)
    BY <1>0, <1>00, <2>2, <2>5 DEF Answering, AppliesTo, InHandlers
  <2>7. Answering(c)' = None
    BY <1>0, <1>00, <2>2 DEF Answering, AppliesTo, Draining
  <2>8. PICK t \in Thread : t = table[k]
    BY <2>4
  <2>9. Answering(c) = t /\ call[t] = "wait"
    BY <1>0, <1>00, <2>1, <2>2, <2>8 DEF Answering, AppliesTo, TakenForWaiter
  <2>10. call' = [call EXCEPT ![t] = "app"]
    BY <1>0, <1>00, <2>2, <2>8, <2>9
  <2>11. Service!Callback(c)
    BY <1>0, <1>00, <2>6, <2>7, <2>9, <2>10 DEF Service!Callback
  <2>12. QED
    BY <1>0, <1>00, <2>11 DEF Service!Next
<1>10. CASE \/ \E S \in SUBSET File : ChildPoll(S)
            \/ ChildWindow \/ ChildDrain \/ ChildReply \/ ChildKick
            \/ \E f \in File : ChildServe(f)
            \/ ChildRound
  <2>1. UNCHANGED <<table, handler, call>>
    BY <1>10 DEF ChildPoll, ChildWindow, ChildDrain, ChildReply, ChildKick, ChildServe,
       ChildRound, parentVars
  <2>2. QED
    BY <2>1, <1>1
<1>11. QED
  BY Actions, <1>2, <1>3, <1>4, <1>5, <1>6, <1>7, <1>8, <1>9, <1>10

\* The two processes, their queues and signals implement the file service the
\* virtual machine uses: one callback for each request, for its sender.
THEOREM MachineIOImplementsFileService == Spec => ImplementsFileService
<1>1. Init => Service!Init
  <2> SUFFICES ASSUME Init PROVE Service!Init
    OBVIOUS
  <2>1. \A t \in Thread : call[t] = "app" /\ handler[t].at = "out"
    BY DEF Init, NoHandler
  <2>2. \A t \in Thread : Answering(t) = None
    BY <2>1 DEF Answering, AppliesTo
  <2>3. QED
    BY <2>1, <2>2 DEF Service!Init
<1>2. QED
  BY <1>1, ServiceStep, Invariant, PTL DEF Spec, Service!Spec, ImplementsFileService

-----------------------------------------------------------------------------
\* A request that is in one place is in no two of them.
LEMMA NotInTwoPlaces ==
  ASSUME NEW i, Counts(i), Total(i) = 1
  PROVE  /\ Asked(i) <= 1 /\ Replied(i) <= 1
         /\ Sending(i) + Asked(i) <= 1 /\ Sending(i) + Answered(i) <= 1
         /\ Sending(i) + Replied(i) <= 1 /\ Asked(i) + Answered(i) <= 1
         /\ Asked(i) + Replied(i) <= 1 /\ Answered(i) + Replied(i) <= 1
<1>1. PICK a \in Nat : a = Sending(i)
  BY DEF Counts
<1>2. PICK b \in Nat : b = Asked(i)
  BY DEF Counts
<1>3. PICK c \in Nat : c = Reading(i)
  BY DEF Counts
<1>4. PICK d \in Nat : d = Answered(i)
  BY DEF Counts
<1>5. PICK e \in Nat : e = Replied(i)
  BY DEF Counts
<1>6. PICK h \in Nat : h = Handled(i)
  BY DEF Counts
<1>7. a + b + c + d + e + h = 1
  BY <1>1, <1>2, <1>3, <1>4, <1>5, <1>6 DEF Total
<1>8. /\ b <= 1 /\ e <= 1 /\ a + b <= 1 /\ a + d <= 1 /\ a + e <= 1 /\ b + d <= 1
      /\ b + e <= 1 /\ d + e <= 1
  BY <1>7
<1>9. QED
  BY <1>1, <1>2, <1>4, <1>5, <1>8

\* Where both processes wait for room, each message in the full queues, the one
\* the child holds and the current thread stand for different threads.
LEMMA BothBlockedNeedsMore ==
  ASSUME IOInv, ParentBlocked, ChildBlocked
  PROVE  2 * QueueBound + 2 <= Cardinality(Thread \ {Idle})
<1> USE DEF IOInv, Orderly
<1>0. /\ QueueBound \in Nat /\ cur \in Thread /\ answer \in Id
      /\ DOMAIN requests = 1..QueueBound /\ DOMAIN replies = 1..QueueBound
      /\ child = "reply" /\ call[cur] = "send"
  BY QueueBoundAssumption, LenProperties DEF TypeOK, Types, ParentBlocked, ChildBlocked
<1>1. \A k \in DOMAIN requests : requests[k].op # "terminate"
  BY ChildIsThere DEF ParentBlocked
<1>2. ASSUME NEW k \in DOMAIN requests
      PROVE  requests[k].id \in Id /\ requests[k] \in Asks(requests[k].id)
  <2>1. requests[k] \in Message
    BY <1>2, LenProperties, ElementOfSeq DEF TypeOK, Types
  <2>2. QED
    BY <1>1, <1>2, <2>1 DEF Message, Asks
<1>3. ASSUME NEW k \in DOMAIN replies
      PROVE  replies[k].id \in Id /\ replies[k] \in RepliesOf(replies[k].id)
  <2>1. replies[k] \in Reply
    BY <1>3, LenProperties, ElementOfSeq DEF TypeOK, Types
  <2>2. QED
    BY <2>1 DEF Reply, RepliesOf
<1>4. ASSUME NEW i \in Id
      PROVE  /\ Counts(i) /\ Places(i) = Total(i)
             /\ (\E k \in DOMAIN requests : requests[k] \in Asks(i)) => Asked(i) # 0
             /\ (\E k \in DOMAIN replies : replies[k] \in RepliesOf(i)) => Replied(i) # 0
             /\ Asked(i) <= 1 => \A k, l \in DOMAIN requests :
                  requests[k] \in Asks(i) /\ requests[l] \in Asks(i) => k = l
             /\ Replied(i) <= 1 => \A k, l \in DOMAIN replies :
                  replies[k] \in RepliesOf(i) /\ replies[l] \in RepliesOf(i) => k = l
  <2>1. requests \in Seq(Message) /\ replies \in Seq(Reply)
    BY DEF TypeOK, Types
  <2>2. QED
    BY <1>4, <2>1, OccNat, PlacesCounted DEF Asked, Replied
<1>5. ASSUME NEW i \in Id, Sending(i) # 0 \/ Asked(i) # 0 \/ Answered(i) # 0 \/ Replied(i) # 0
      PROVE  Total(i) = 1 /\ table[i] \in Thread
  <2>1. Places(i) # 0
    BY <1>4, <1>5, ZeroTotal DEF Total, Counts
  <2>2. QED
    BY <1>0, <1>4, <2>1 DEF EachRequestInOnePlace
<1> DEFINE n == 2 * QueueBound + 2
           idAt(k) == IF k <= QueueBound THEN requests[k].id
                      ELSE IF k <= 2 * QueueBound THEN replies[k - QueueBound].id ELSE answer
           f == [k \in 1..n |-> IF k = n THEN cur ELSE table[idAt(k)]]
<1>6. ASSUME NEW k \in 1..(n - 1)
      PROVE  /\ idAt(k) \in Id
             /\ \/ k \in 1..QueueBound /\ requests[k] \in Asks(idAt(k)) /\ Asked(idAt(k)) # 0
                \/ /\ k - QueueBound \in 1..QueueBound /\ Replied(idAt(k)) # 0
                   /\ replies[k - QueueBound] \in RepliesOf(idAt(k))
                \/ k = n - 1 /\ Answered(idAt(k)) # 0
  <2>1. CASE k <= QueueBound
    BY <1>0, <1>2, <1>4, <2>1
  <2>2. CASE ~ (k <= QueueBound) /\ k <= 2 * QueueBound
    <3>1. k - QueueBound \in 1..QueueBound /\ idAt(k) = replies[k - QueueBound].id
      BY <1>0, <2>2
    <3>2. QED
      BY <1>0, <1>3, <1>4, <3>1
  <2>3. CASE ~ (k <= QueueBound) /\ ~ (k <= 2 * QueueBound)
    BY <1>0, <2>3 DEF Answered
  <2>4. QED
    BY <2>1, <2>2, <2>3
<1>7. ASSUME NEW k \in 1..(n - 1)
      PROVE  Total(idAt(k)) = 1 /\ table[idAt(k)] \in Thread /\ Counts(idAt(k))
  BY <1>4, <1>5, <1>6
<1> HIDE DEF idAt
<1>8. ASSUME NEW k \in 1..(n - 1), NEW l \in 1..(n - 1), idAt(k) = idAt(l) PROVE k = l
  <2>1. PICK i \in Id : i = idAt(k)
    BY <1>6
  <2>2. /\ Asked(i) <= 1 /\ Replied(i) <= 1 /\ Asked(i) + Answered(i) <= 1
        /\ Asked(i) + Replied(i) <= 1 /\ Answered(i) + Replied(i) <= 1
        /\ Counts(i)
    BY <1>7, <2>1, NotInTwoPlaces
  <2>3. ~ (Asked(i) # 0 /\ Answered(i) # 0) /\ ~ (Asked(i) # 0 /\ Replied(i) # 0)
        /\ ~ (Answered(i) # 0 /\ Replied(i) # 0)
    BY <2>2 DEF Counts
  <2>4. CASE Asked(i) # 0
    <3>1. k \in 1..QueueBound /\ l \in 1..QueueBound
          /\ requests[k] \in Asks(i) /\ requests[l] \in Asks(i)
      BY <1>6, <1>8, <2>1, <2>3, <2>4
    <3>2. QED
      BY <1>0, <1>4, <2>2, <3>1
  <2>5. CASE Replied(i) # 0
    <3>1. k - QueueBound \in 1..QueueBound /\ l - QueueBound \in 1..QueueBound
          /\ replies[k - QueueBound] \in RepliesOf(i) /\ replies[l - QueueBound] \in RepliesOf(i)
      BY <1>6, <1>8, <2>1, <2>3, <2>5
    <3>2. k - QueueBound = l - QueueBound
      BY <1>0, <1>4, <2>2, <3>1
    <3>3. QED
      BY <1>0, <3>2
  <2>6. CASE Answered(i) # 0
    BY <1>6, <1>8, <2>1, <2>3, <2>6
  <2>7. QED
    BY <1>6, <2>1, <2>4, <2>5, <2>6
<1>9. ASSUME NEW k \in 1..(n - 1) PROVE table[idAt(k)] \notin {Idle, cur}
  <2>1. PICK i \in Id : i = idAt(k)
    BY <1>6
  <2>2. table[i] # Idle /\ Sent(table[i], i)
    BY <1>7, <2>1 DEF OwnEntry
  <2>3. ASSUME table[i] = cur PROVE FALSE
    <3>1. outbox \in Asks(i)
      BY <1>0, <2>2, <2>3 DEF Sent, Asks, TypeOK, Types
    <3>2. Sending(i) = 1
      BY <1>0, <3>1 DEF Sending
    <3>3. /\ Sending(i) + Asked(i) <= 1 /\ Sending(i) + Answered(i) <= 1
          /\ Sending(i) + Replied(i) <= 1 /\ Counts(i)
      BY <1>7, <2>1, NotInTwoPlaces
    <3>4. Asked(i) = 0 /\ Answered(i) = 0 /\ Replied(i) = 0
      BY <3>2, <3>3 DEF Counts
    <3>5. QED
      BY <1>6, <2>1, <3>4
  <2>4. QED
    BY <2>1, <2>2, <2>3
<1>10. cur # Idle
  <2>1. n - 1 \in 1..(n - 1)
    BY <1>0
  <2>2. QED
    BY <1>0, <1>6, <1>7, <2>1 DEF IdleAlone
<1>11. f \in [1..n -> Thread \ {Idle}]
  BY <1>0, <1>7, <1>9, <1>10
<1>12. \A k, l \in 1..n : f[k] = f[l] => k = l
  <2>1. SUFFICES ASSUME NEW k \in 1..n, NEW l \in 1..n, f[k] = f[l] PROVE k = l
    OBVIOUS
  <2>2. CASE k = n \/ l = n
    BY <1>0, <1>9, <2>1, <2>2
  <2>3. CASE k # n /\ l # n
    <3>1. k \in 1..(n - 1) /\ l \in 1..(n - 1)
      BY <1>0, <2>3
    <3>2. table[idAt(k)] = table[idAt(l)]
      BY <2>1, <2>3
    <3>3. idAt(k) = idAt(l)
      BY <1>6, <1>7, <3>1, <3>2 DEF OneEntry
    <3>4. QED
      BY <1>8, <3>1, <3>3
  <2>4. QED
    BY <2>2, <2>3
<1> HIDE DEF f
<1>13. f \in Injection(1..n, Thread \ {Idle})
  BY <1>11, <1>12 DEF Injection, IsInjective
<1>14. IsFiniteSet(Thread \ {Idle})
  BY ThreadsAssumption, FS_RemoveElement
<1>15. Cardinality(1..n) <= Cardinality(Thread \ {Idle})
  BY <1>13, <1>14, FS_Injection
<1>16. Cardinality(1..n) = n
  BY <1>0, FS_Interval
<1>17. QED
  BY <1>15, <1>16

\* If no more threads send requests than the two queues and the child can hold,
\* the parent and the child never wait for room in each other's queue.
THEOREM NeverBothWaitForRoom ==
  ASSUME Cardinality(Thread \ {Idle}) <= 2 * QueueBound + 1
  PROVE  Spec => []NeverBothBlocked
<1>1. IOInv => NeverBothBlocked
  <2> SUFFICES ASSUME IOInv, ParentBlocked, ChildBlocked PROVE FALSE
    BY DEF NeverBothBlocked
  <2>1. 2 * QueueBound + 2 <= Cardinality(Thread \ {Idle})
    BY BothBlockedNeedsMore
  <2>2. Cardinality(Thread \ {Idle}) \in Nat
    BY ThreadsAssumption, FS_RemoveElement, FS_CardinalityType
  <2>3. QED
    BY <2>1, <2>2, QueueBoundAssumption
<1>2. QED
  BY <1>1, Invariant, PTL

=============================================================================
