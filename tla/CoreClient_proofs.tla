-------------------------- MODULE CoreClient_proofs --------------------------
(***************************************************************************)
(* What the client promises of its requests, for every fault: whatever     *)
(* dies, is replayed, given up or arrives late, the deliveries of each     *)
(* request are counted, and success belongs to one of them.                *)
(***************************************************************************)
EXTENDS CoreClient, SequenceTheorems, TLAPS

Flag(b) == IF b THEN 1 ELSE 0

\* How often a request may reach Core.
Most(r) == IF r \in Idempotent THEN 2 ELSE 1

\* The connection at each step of doJSON.
PhaseInv ==
  /\ pc = "idle" <=> request = "none"
  /\ pc \in {"idle", "prepare", "write"} => ~written
  /\ pc \in {"idle", "prepare"} => ~reused
  /\ pc \in {"wait", "body"} => written
  /\ pc \notin {"idle", "prepare"} => ~pooled
  /\ arrived => written
  /\ answer # "none" => arrived
  /\ pc = "body" => answer # "none"
  /\ read <= ReadLimit /\ (answer = "none" => body = <<>> /\ read = 0)
  /\ pc \notin {"wait", "body"} => answer = "none"

\* Requests that were never made have not been delivered; what may arrive late
\* was given up and has a delivery left.
LateInv ==
  /\ \A r \in Request : r # request /\ outcome[r] = "none" => deliveries[r] = 0
  /\ \A r \in late : outcome[r] = "error" /\ deliveries[r] < Most(r)
  /\ \A r \in Request : deliveries[r] <= Most(r)
  /\ request # "none" => outcome[request] = "none"

\* The deliveries of the request under way: only what a kept connection may
\* have carried before its replay comes on top of this attempt's own.
AttemptInv ==
  /\ pc = "prepare" =>
       deliveries[request] <= IF pooled THEN 0 ELSE Flag(request \in Idempotent)
  /\ pc \in {"write", "wait", "body"} =>
       /\ deliveries[request] <=
            Flag(arrived) + IF reused THEN 0 ELSE Flag(request \in Idempotent)
       /\ arrived => deliveries[request] > 0

IInv == TypeOK /\ PhaseInv /\ LateInv /\ AttemptInv

-----------------------------------------------------------------------------
(* Types and phases.                                                       *)

\* A delivery that is still allowed is the first or the second.
LEMMA OneMore ==
  ASSUME TypeOK, NEW r \in Request, deliveries[r] < Most(r)
  PROVE  /\ [deliveries EXCEPT ![r] = @ + 1] \in [Request -> 0 .. 2]
         /\ [deliveries EXCEPT ![r] = @ + 1][r] = deliveries[r] + 1
  BY DEF TypeOK, Most

\* What the caller is told is a result, and only of its own request.
LEMMA Decided ==
  ASSUME TypeOK, NEW r \in Request, NEW v \in {"ok", "error"}
  PROVE  /\ [outcome EXCEPT ![r] = v] \in [Request -> {"none", "ok", "error"}]
         /\ [outcome EXCEPT ![r] = v][r] = v
         /\ \A q \in Request \ {r} : [outcome EXCEPT ![r] = v][q] = outcome[q]
  BY DEF TypeOK

\* What nothing was read of, and how much may be read.
LEMMA Unread ==
  /\ <<>> \in Seq(Byte) /\ 0 \in 0 .. Len(<<>>)
  /\ ReadLimit \in Nat /\ 0 <= ReadLimit
  BY BodyAssumption DEF ReadLimit

\* The client starts idle, with nothing sent.
LEMMA InitInv == Init => IInv
<1> SUFFICES ASSUME Init PROVE IInv
  OBVIOUS
<1>1. TypeOK
  <2>1. deliveries \in [Request -> 0 .. 2] /\ outcome \in [Request -> {"none", "ok", "error"}]
    BY DEF Init
  <2>2. {expired, cancelled, pooled, reused, written, arrived, open} \subseteq BOOLEAN
    BY DEF Init
  <2> QED
    BY <2>1, <2>2, Unread DEF Init, TypeOK
<1>2. PhaseInv
  BY Unread DEF Init, PhaseInv
<1>3. LateInv
  BY DEF Init, LateInv, Most
<1>4. AttemptInv
  BY DEF Init, AttemptInv
<1> QED
  BY <1>1, <1>2, <1>3, <1>4 DEF IInv

\* A request is finished with one result, and nothing is left of its
\* connection; what may still arrive has a delivery left.
LEMMA ReturnInv ==
  ASSUME IInv, pc # "idle", NEW keep \in BOOLEAN, NEW verdict \in {"ok", "error"},
         Return(verdict, keep),
         \/ UNCHANGED late
         \/ verdict = "error" /\ ~arrived /\ written /\ late' = late \cup {request}
  PROVE  IInv'
<1>1. request \in Request /\ outcome[request] = "none"
  BY DEF IInv, TypeOK, PhaseInv, LateInv
<1>2. late' \subseteq Request
  BY <1>1 DEF IInv, TypeOK
<1>3. TypeOK'
  <2>1. deliveries' \in [Request -> 0 .. 2] /\ outcome' \in [Request -> {"none", "ok", "error"}]
    BY <1>1, Decided DEF IInv, TypeOK, Return
  <2>2. body' \in Seq(Byte) /\ read' \in 0 .. Len(body')
    BY Unread DEF Return
  <2> QED
    BY <1>2, <2>1, <2>2 DEF IInv, TypeOK, Return
<1>4. PhaseInv'
  BY Unread DEF Return, PhaseInv
<1>5. deliveries' = deliveries /\ request' = "none"
      /\ outcome' = [outcome EXCEPT ![request] = verdict]
  BY DEF Return
<1>6. ASSUME NEW r \in late'
      PROVE  outcome'[r] = "error" /\ deliveries'[r] < Most(r)
  <2>1. CASE r = request
    <3>1. verdict = "error" /\ ~arrived /\ written
      BY <2>1, <1>1 DEF IInv, LateInv
    <3>2. deliveries[request] <= Flag(request \in Idempotent)
      BY <3>1, <1>1 DEF IInv, TypeOK, PhaseInv, AttemptInv, Flag
    <3> QED
      BY <2>1, <3>1, <3>2, <1>1, <1>5, Decided DEF IInv, TypeOK, Most, Flag
  <2>2. CASE r # request
    <3>1. r \in late /\ r \in Request
      BY <2>2, <1>2
    <3> QED
      BY <2>2, <3>1, <1>1, <1>5, Decided DEF IInv, LateInv
  <2> QED
    BY <2>1, <2>2
<1>7. LateInv'
  <2>1. \A r \in Request : deliveries'[r] <= Most(r)
    BY <1>5 DEF IInv, LateInv
  <2>2. ASSUME NEW r \in Request, outcome'[r] = "none"
        PROVE  deliveries'[r] = 0
    BY <2>2, <1>1, <1>5, Decided DEF IInv, LateInv
  <2> QED
    BY <1>5, <1>6, <2>1, <2>2 DEF LateInv
<1>8. AttemptInv'
  BY DEF Return, AttemptInv
<1> QED
  BY <1>3, <1>4, <1>7, <1>8 DEF IInv

\* What the end of the body decides: success just for a successful status and
\* a body within the limit that holds what the caller wants.
LEMMA Verdict ==
  ASSUME ReadBody
  PROVE  \E keep \in BOOLEAN, verdict \in {"ok", "error"} :
           /\ Return(verdict, keep)
           /\ verdict = "ok" <=> Usable(request, answer, SubSeq(body, 1, read))
<1> DEFINE usable == Usable(request, answer, SubSeq(body, 1, read))
           verdict == IF usable THEN "ok" ELSE "error"
<1>1. PICK keep \in {read < ReadLimit, read = Len(body)} : Return(verdict, keep)
  BY DEF ReadBody, Usable
<1>2. keep \in BOOLEAN
  <2>1. (read < ReadLimit) \in BOOLEAN /\ (read = Len(body)) \in BOOLEAN
    BY SMT
  <2> DEFINE a == read < ReadLimit
             b == read = Len(body)
  <2>2. keep = a \/ keep = b
    BY <1>1, Zenon
  <2>3. a \in BOOLEAN /\ b \in BOOLEAN
    BY <2>1
  <2> HIDE DEF a, b
  <2> QED
    BY <2>2, <2>3
<1>3. verdict \in {"ok", "error"} /\ (verdict = "ok" <=> usable)
  OBVIOUS
<1> HIDE DEF usable, verdict
<1> QED
  BY <1>1, <1>2, <1>3 DEF usable

\* Every way in which doJSON returns.
LEMMA ReturnsInv ==
  ASSUME IInv, Refuse \/ DialFails \/ ReadBody \/ BodyLost \/ ConnectionLost \/ GiveUp
  PROVE  IInv'
<1>1. pooled \in BOOLEAN /\ FALSE \in BOOLEAN
  BY DEF IInv, TypeOK
<1>2. CASE Refuse
  BY <1>1, <1>2, ReturnInv DEF Refuse
<1>3. CASE DialFails
  BY <1>1, <1>3, ReturnInv DEF DialFails
<1>4. CASE ReadBody
  <2>1. pc # "idle" /\ UNCHANGED late
    BY <1>4 DEF ReadBody
  <2>2. PICK keep \in BOOLEAN, verdict \in {"ok", "error"} : Return(verdict, keep)
    BY <1>4, Verdict
  <2> QED
    BY <2>1, <2>2, ReturnInv
<1>5. CASE BodyLost
  BY <1>1, <1>5, ReturnInv DEF BodyLost
<1>6. CASE ConnectionLost
  BY <1>1, <1>6, ReturnInv DEF ConnectionLost, Dead
<1>7. CASE GiveUp
  <2>1. CASE written /\ ~arrived /\ open
    BY <1>1, <1>7, <2>1, ReturnInv DEF GiveUp
  <2>2. CASE ~(written /\ ~arrived /\ open)
    BY <1>1, <1>7, <2>2, ReturnInv DEF GiveUp
  <2> QED
    BY <2>1, <2>2
<1> QED
  BY <1>2, <1>3, <1>4, <1>5, <1>6, <1>7

-----------------------------------------------------------------------------
(* Steps within a request.                                                 *)

\* A request that was never made has not been delivered.
LEMMA CallInv ==
  ASSUME IInv, NEW r \in Request, Call(r)
  PROVE  IInv'
<1> USE DEF Call, IInv, connection, response, core
<1>1. TypeOK'
  BY DEF TypeOK
<1>2. PhaseInv'
  BY DEF PhaseInv, Request
<1>3. LateInv'
  BY DEF LateInv, PhaseInv, Most, Request
<1>4. AttemptInv'
  BY DEF AttemptInv, LateInv, PhaseInv, TypeOK, Flag, Request
<1> QED
  BY <1>1, <1>2, <1>3, <1>4

\* Getting a connection, writing and reading on it deliver nothing themselves.
LEMMA ConnectionInv ==
  ASSUME IInv,
         \/ Reuse \/ Dial \/ WriteRequest \/ ReadHeader \/ ReadBytes
         \/ Respond \/ CloseConnection
  PROVE  IInv'
<1> USE DEF IInv, Reuse, Dial, WriteRequest, ReadHeader, ReadBytes, Respond,
            CloseConnection, call, connection, response, core
<1>1. TypeOK'
  <2>1. body' \in Seq(Byte) /\ read' \in 0 .. Len(body')
    <3>1. CASE Respond
      <4>1. read = 0 /\ body' \in Seq(Byte) /\ UNCHANGED read
        BY <3>1, BodyAssumption DEF PhaseInv
      <4> QED
        BY <4>1, LenProperties
    <3>2. CASE ~Respond
      BY <3>2 DEF TypeOK
    <3> QED
      BY <3>1, <3>2
  <2> QED
    BY <2>1 DEF TypeOK
<1>2. PhaseInv'
  BY DEF PhaseInv
<1>3. LateInv'
  BY DEF LateInv, Most
<1>4. AttemptInv'
  BY DEF AttemptInv, PhaseInv, TypeOK, Flag
<1> QED
  BY <1>1, <1>2, <1>3, <1>4

\* A replay starts over with the delivery its dead connection may have made.
LEMMA ReplayInv == ASSUME IInv, Replay PROVE IInv'
<1> USE DEF IInv, Replay, Dead, Replayable, response, core
<1>1. TypeOK'
  BY DEF TypeOK
<1>2. PhaseInv'
  BY DEF PhaseInv
<1>3. LateInv'
  BY DEF LateInv, Most
<1>4. AttemptInv'
  BY DEF AttemptInv, PhaseInv, TypeOK, Flag
<1> QED
  BY <1>1, <1>2, <1>3, <1>4

\* The timeout and the signal decide nothing by themselves.
LEMMA ClockInv == ASSUME IInv, Expire \/ Cancel PROVE IInv'
<1> USE DEF IInv, Expire, Cancel, connection, response, core
<1>1. TypeOK'
  BY DEF TypeOK
<1>2. PhaseInv'
  BY DEF PhaseInv
<1>3. LateInv'
  BY DEF LateInv, Most
<1>4. AttemptInv'
  BY DEF AttemptInv, Flag
<1> QED
  BY <1>1, <1>2, <1>3, <1>4

-----------------------------------------------------------------------------
(* Deliveries.                                                             *)

\* The request under way has a delivery left, and is not decided.
LEMMA DeliveryLeft ==
  ASSUME IInv, Deliver
  PROVE  /\ request \in Request /\ outcome[request] = "none"
         /\ deliveries[request] < Most(request)
  BY DEF IInv, TypeOK, PhaseInv, LateInv, AttemptInv, Deliver, Flag, Most

\* Core receives the request that is made.
LEMMA DeliverInv == ASSUME IInv, Deliver PROVE IInv'
<1>1. /\ request \in Request /\ outcome[request] = "none"
      /\ deliveries[request] < Most(request)
  BY DeliveryLeft
<1>2. deliveries[request] \in Nat /\ deliveries'[request] = deliveries[request] + 1
  BY <1>1, OneMore DEF IInv, TypeOK, Deliver
<1>3. \A q \in Request \ {request} : deliveries'[q] = deliveries[q]
  BY DEF IInv, TypeOK, Deliver
<1> USE DEF IInv, Deliver, response, call
<1>4. TypeOK'
  BY <1>1, OneMore DEF TypeOK
<1>5. PhaseInv'
  BY DEF PhaseInv
<1>6. LateInv'
  BY <1>1, <1>2, <1>3 DEF LateInv, Most, TypeOK
<1>7. AttemptInv'
  BY <1>1, <1>2 DEF AttemptInv, Flag
<1> QED
  BY <1>4, <1>5, <1>6, <1>7

\* Core receives a request that was given up.
LEMMA DeliverLateInv == ASSUME IInv, DeliverLate PROVE IInv'
<1>1. PICK r \in late : /\ late' = late \ {r}
                        /\ deliveries' = [deliveries EXCEPT ![r] = @ + 1]
                        /\ UNCHANGED <<call, connection, outcome>>
  BY DEF DeliverLate
<1>2. r \in Request /\ outcome[r] = "error" /\ deliveries[r] < Most(r)
  BY DEF IInv, TypeOK, LateInv
<1>3. deliveries[r] \in Nat /\ deliveries'[r] = deliveries[r] + 1
  BY <1>1, <1>2, OneMore DEF IInv, TypeOK
<1>4. \A q \in Request \ {r} : deliveries'[q] = deliveries[q]
  BY <1>1 DEF IInv, TypeOK
<1>5. request # r
  BY <1>2 DEF IInv, LateInv, TypeOK, Request
<1> USE <1>1 DEF IInv, call, response, connection
<1>6. TypeOK'
  BY <1>2, OneMore DEF TypeOK
<1>7. PhaseInv'
  BY DEF PhaseInv
<1>8. LateInv'
  BY <1>2, <1>3, <1>4 DEF LateInv, Most, TypeOK
<1>9. AttemptInv'
  <2>1. pc # "idle" => deliveries'[request] = deliveries[request]
    BY <1>4, <1>5 DEF PhaseInv, TypeOK
  <2> QED
    BY <2>1 DEF AttemptInv, TypeOK
<1> QED
  BY <1>6, <1>7, <1>8, <1>9

-----------------------------------------------------------------------------
(* Theorems.                                                               *)

\* Every step of the client, of net/http and of Core keeps the count.
LEMMA NextInv == IInv /\ [Next]_vars => IInv'
<1> SUFFICES ASSUME IInv, [Next]_vars PROVE IInv'
  OBVIOUS
<1>1. CASE UNCHANGED vars
  BY <1>1 DEF vars, call, connection, response, core,
              IInv, TypeOK, PhaseInv, LateInv, AttemptInv
<1>2. CASE \E r \in Request : Call(r)
  BY <1>2, CallInv
<1>3. CASE DoJSON
  BY <1>3, ReturnsInv, ConnectionInv, ReplayInv DEF DoJSON
<1>4. CASE Expire \/ Cancel
  BY <1>4, ClockInv
<1>5. CASE Core
  BY <1>5, DeliverInv, DeliverLateInv, ConnectionInv DEF Core
<1> QED
  BY <1>1, <1>2, <1>3, <1>4, <1>5 DEF Next

\* The phases of the exchange and the count of deliveries hold throughout
\* (client.go 169-206).
THEOREM Invariance == Spec => []IInv
  BY InitInv, NextInv, PTL DEF Spec

\* Every variable keeps its type, whatever Core and the network do; no request
\* reaches Core a third time (client.go 169-206).
THEOREM TypeCorrect == Spec => []TypeOK
  BY Invariance, PTL DEF IInv

\* Within the limit and the reader, what was read is the whole body.
LEMMA ReadWhole ==
  ASSUME IInv, ReadBody
  PROVE  LET data == SubSeq(body, 1, read)
         IN  /\ Len(data) <= MaxResponseBytes <=> Len(body) <= MaxResponseBytes
             /\ Len(data) <= MaxResponseBytes => data = body
<1>1. /\ body \in Seq(Byte) /\ read \in 0 .. Len(body) /\ Len(body) \in Nat
      /\ MaxResponseBytes \in Nat
  BY BodyAssumption DEF IInv, TypeOK
<1>2. Len(SubSeq(body, 1, read)) = read
  BY <1>1
<1>3. read \in {Len(body), MaxResponseBytes + 1}
  BY DEF ReadBody, ReadLimit
<1>4. read <= MaxResponseBytes => read = Len(body)
  BY <1>1, <1>3
<1>5. read <= MaxResponseBytes <=> Len(body) <= MaxResponseBytes
  BY <1>1, <1>3
<1>6. SubSeq(body, 1, Len(body)) = body
  BY <1>1
<1> QED
  BY <1>2, <1>4, <1>5, <1>6

\* A result changes by what doJSON returns, for the request that is made.
LEMMA Returned ==
  ASSUME IInv, [Next]_vars, outcome' # outcome
  PROVE  \/ ReadBody
         \/ /\ pc # "idle" /\ (pc = "body" => ~InTime \/ ~open)
            /\ \E keep \in BOOLEAN : Return("error", keep)
<1> USE DEF IInv, TypeOK
<1>1. pooled \in BOOLEAN /\ FALSE \in BOOLEAN
  OBVIOUS
<1>2. CASE Refuse \/ DialFails \/ ConnectionLost
  BY <1>1, <1>2 DEF Refuse, DialFails, ConnectionLost, Dead
<1>3. CASE BodyLost \/ GiveUp
  BY <1>1, <1>3 DEF BodyLost, GiveUp
<1>4. ~(Reuse \/ Dial \/ WriteRequest \/ ReadHeader \/ ReadBytes \/ Replay)
  BY DEF Reuse, Dial, WriteRequest, ReadHeader, ReadBytes, Replay
<1>5. ~Core
  BY DEF Core, Deliver, DeliverLate, Respond, CloseConnection
<1>6. ~(Expire \/ Cancel \/ UNCHANGED vars \/ \E q \in Request : Call(q))
  BY DEF Expire, Cancel, Call, vars
<1> QED
  BY <1>2, <1>3, <1>4, <1>5, <1>6 DEF Next, DoJSON

\* Success means a usable answer, and a usable answer success.
LEMMA Answered ==
  ASSUME IInv, [Next]_vars, NEW r \in Request, outcome'[r] # outcome[r]
  PROVE  /\ request = r
         /\ outcome'[r] = "ok" => arrived /\ Usable(r, answer, body)
         /\ pc = "body" /\ InTime /\ open /\ Usable(r, answer, body)
              => outcome'[r] = "ok"
<1>1. outcome' # outcome
  OBVIOUS
<1>2. ASSUME NEW keep \in BOOLEAN, NEW verdict \in {"ok", "error"}, Return(verdict, keep)
      PROVE  request = r /\ outcome'[r] = verdict
  BY <1>2 DEF IInv, TypeOK, Return
<1>3. CASE ReadBody
  <2>1. PICK keep \in BOOLEAN, verdict \in {"ok", "error"} :
          /\ Return(verdict, keep)
          /\ verdict = "ok" <=> Usable(request, answer, SubSeq(body, 1, read))
    BY <1>3, Verdict
  <2>2. request = r /\ outcome'[r] = verdict
    BY <1>2, <2>1
  <2>3. Usable(request, answer, SubSeq(body, 1, read)) <=> Usable(request, answer, body)
    BY <1>3, ReadWhole DEF Usable
  <2>4. arrived
    BY <1>3 DEF ReadBody, IInv, PhaseInv
  <2> QED
    BY <2>1, <2>2, <2>3, <2>4
<1>4. CASE /\ pc = "body" => ~InTime \/ ~open
           /\ \E keep \in BOOLEAN : Return("error", keep)
  BY <1>2, <1>4
<1> QED
  BY <1>1, <1>3, <1>4, Returned

\* A body that is cut at the limit is never taken for a whole one, and none
\* within the limit is refused for its length, whatever the limit is and however
\* the body comes (client.go 183-206, 283-308).
THEOREM AnswerAccepted == Spec => AcceptedAnswer
<1>1. IInv /\ [Next]_vars
        => [\A r \in Request : outcome'[r] # outcome[r] =>
              /\ request = r
              /\ outcome'[r] = "ok" => arrived /\ Usable(r, answer, body)
              /\ pc = "body" /\ InTime /\ open /\ Usable(r, answer, body)
                   => outcome'[r] = "ok"]_vars
  BY Answered
<1> QED
  BY <1>1, Invariance, PTL DEF Spec, AcceptedAnswer

-----------------------------------------------------------------------------
(* The refinement.                                                         *)

Exchanged == <<deliveries, outcome>>

\* What doJSON returns is a failure of the abstract exchange, or the success of
\* a request that was delivered.
LEMMA ReturnStep ==
  ASSUME IInv, pc # "idle", NEW keep \in BOOLEAN, Return("error", keep)
  PROVE  Promise!Next
<1>1. request \in Request /\ outcome[request] = "none"
  BY DEF IInv, TypeOK, PhaseInv, LateInv
<1>2. Promise!Fail(request)
  BY <1>1 DEF Promise!Fail, Return
<1> QED
  BY <1>1, <1>2 DEF Promise!Next

\* Every step of the client is a step of the abstract exchange or invisible to
\* it: a replay, a timeout and a late arrival included.
LEMMA RefinesNext == IInv /\ [Next]_vars => [Promise!Next]_Exchanged
<1> SUFFICES ASSUME IInv, [Next]_vars, ~UNCHANGED Exchanged
             PROVE  Promise!Next
  BY DEF Exchanged
<1>1. pooled \in BOOLEAN /\ FALSE \in BOOLEAN
  BY DEF IInv, TypeOK
<1>2. CASE Refuse \/ DialFails \/ BodyLost \/ ConnectionLost \/ GiveUp
  BY <1>1, <1>2, ReturnStep
     DEF Refuse, DialFails, BodyLost, ConnectionLost, Dead, GiveUp
<1>3. CASE ReadBody
  <2>1. PICK keep \in BOOLEAN, verdict \in {"ok", "error"} : Return(verdict, keep)
    BY <1>3, Verdict
  <2>2. CASE verdict = "ok"
    <3>1. request \in Request /\ outcome[request] = "none"
      BY <1>3 DEF IInv, TypeOK, PhaseInv, LateInv, ReadBody
    <3>2. deliveries[request] > 0
      BY <1>3 DEF IInv, PhaseInv, AttemptInv, ReadBody
    <3>3. Promise!Succeed(request)
      BY <2>1, <2>2, <3>1, <3>2 DEF Promise!Succeed, Return
    <3> QED
      BY <3>1, <3>3 DEF Promise!Next
  <2>3. CASE verdict = "error"
    <3>1. pc # "idle"
      BY <1>3 DEF ReadBody
    <3> QED
      BY <2>1, <2>3, <3>1, ReturnStep
  <2> QED
    BY <2>2, <2>3
<1>4. CASE Deliver
  <2>1. /\ request \in Request /\ outcome[request] = "none"
        /\ deliveries[request] < Most(request)
    BY <1>4, DeliveryLeft
  <2>2. Promise!Deliver(request)
    BY <1>4, <2>1 DEF Promise!Deliver, Deliver, Most
  <2> QED
    BY <2>1, <2>2 DEF Promise!Next
<1>5. CASE DeliverLate
  <2>1. PICK r \in late : /\ deliveries' = [deliveries EXCEPT ![r] = @ + 1]
                          /\ UNCHANGED outcome
    BY <1>5 DEF DeliverLate
  <2>2. r \in Request /\ outcome[r] = "error" /\ deliveries[r] < Most(r)
    BY DEF IInv, TypeOK, LateInv
  <2>3. Promise!Deliver(r)
    BY <2>1, <2>2 DEF Promise!Deliver, Most
  <2> QED
    BY <2>2, <2>3 DEF Promise!Next
<1>6. UNCHANGED Exchanged
        \/ Refuse \/ DialFails \/ BodyLost \/ ConnectionLost \/ GiveUp
        \/ ReadBody \/ Deliver \/ DeliverLate
  BY DEF Next, DoJSON, Core, Call, Reuse, Dial, WriteRequest, ReadHeader, ReadBytes,
         Replay, Expire, Cancel, Respond, CloseConnection, Exchanged, core, vars
<1> QED
  BY <1>2, <1>3, <1>4, <1>5, <1>6

\* Neither a lost connection nor a timeout makes a registration or a heartbeat
\* reach Core twice, and none arrives after it was reported successful: the
\* client implements the exchange it promises (client.go 169-186).
THEOREM Refinement == Spec => KeepsExchange
<1>1. Init => Promise!Init
  BY DEF Init, Promise!Init
<1> QED
  BY <1>1, RefinesNext, Invariance, PTL DEF Spec, KeepsExchange, Promise!Spec, Exchanged,
     Promise!exchange
=============================================================================
