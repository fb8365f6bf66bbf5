-------------------------- MODULE NoneForgottenProofs --------------------------
(***************************************************************************)
(* One lost response leaves no client waiting for nothing.                 *)
(***************************************************************************)
EXTENDS PromptServerProofs

(* What it takes: the last sender is the one that asked, requests arrive, and once. *)
OneClient == \A c, d \in Client : c = d
RequestsArrive == Lossy \cap {"read", "update"} = {}

Waits(op) == requests[op] # NoRequest /\ ~IsTold(op)

AnswerAt(op, copy) == \E m \in net : m.type = "response" /\ m.op = op /\ m.copy = copy

(* The server has still to answer. *)
ToServe(op) == op \in Open \/ op \in defer_messages

(* As long as nothing was lost, the first response is under way, and a second one follows. *)
Twice(op) == AnswerAt(op, 1) /\ (op \in DOMAIN wait_acks \/ AnswerAt(op, 2))

Secure(op) == ToServe(op) \/ (UnderWay(op) # {} /\ (faults = 0 => Twice(op)))

AllSecure == \A op \in AnyOp : Waits(op) => Secure(op)

(* An ack says that its client was told. *)
AcksTold == \A m \in net : m.type = "ack" => IsTold(m.op)

(* What this rests on. *)
InTimeAlone ==
  /\ OneClient /\ SingleRequests /\ RequestsArrive /\ MaxFaults <= 1
  /\ ServerInv

------------------------------------------------------------------------------
LEMMA UnderWayFacts ==
  ASSUME NEW op
  PROVE  UnderWay(op) # {} <=> op \in DOMAIN wait_acks \/ \E m \in net : m.type = "response" /\ m.op = op
BY DEF UnderWay

LEMMA OpenFacts ==
  ASSUME NEW op \in AnyOp
  PROVE  op \in Open <=> \E m \in net : m.type = Kind(op) /\ m.op = op
BY DEF Open

(* What is under way for op stays. *)
LEMMA SecureStays ==
  ASSUME NEW op \in AnyOp, Secure(op), UNCHANGED faults,
         \A m \in net : m.op = op /\ m.type # "ack" =>
           \E n \in net' : n.op = op /\ n.type = m.type /\ (m.type = "response" => n.copy = m.copy),
         op \in defer_messages => op \in defer_messages',
         op \in DOMAIN wait_acks => op \in DOMAIN wait_acks'
  PROVE  Secure(op)'
<1>1. \A copy : AnswerAt(op, copy) => AnswerAt(op, copy)'
  BY DEF AnswerAt
<1>2. Kind(op) # "ack" /\ Kind(op) # "response"
  BY DEF Kind
<1>3. op \in Open => op \in Open'
  BY <1>2, OpenFacts DEF Open
<1>4. UnderWay(op) # {} => UnderWay(op)' # {}
  BY UnderWayFacts DEF UnderWay
<1>5. QED BY <1>1, <1>3, <1>4 DEF Secure, ToServe, Twice

(* A request is answered: the response is on its way and will be sent again.  What else was under
   way stays. *)
LEMMA AnsweredSecure ==
  ASSUME ServerTyped, AllSecure, NEW message \in Responses, message.copy = 1, Given(message.op) = {},
         NEW rest, Respond(message, rest), \A m \in net : m.op # message.op => m \in rest,
         \A op \in defer_messages : op # message.op => op \in defer_messages',
         UNCHANGED <<requests, told, faults>>
  PROVE  AllSecure'
<1>1. message.type = "response" /\ message.op \in AnyOp
  BY DEF Responses
<1>2. message.op \notin DOMAIN wait_acks
  BY DEF Given, ServerTyped, NetTyped, Responses
<1>3. /\ net' = rest \cup {message}
      /\ DOMAIN wait_acks' = DOMAIN wait_acks \cup {message.op}
  BY <1>2 DEF Respond, AddTimer
<1>4. Secure(message.op)'
  BY <1>1, <1>3, UnderWayFacts DEF UnderWay, Secure, Twice, AnswerAt
<1>5. ASSUME NEW op \in AnyOp, op # message.op, Waits(op)' PROVE Secure(op)'
  <2>1. Secure(op)
    BY <1>5 DEF AllSecure, Waits, IsTold
  <2>2. \A m \in net : m.op = op => m \in net'
    BY <1>3, <1>5
  <2>3. QED BY <1>3, <1>5, <2>1, <2>2, SecureStays
<1>6. QED BY <1>4, <1>5 DEF AllSecure

(* A step that touches nothing that is under way. *)
LEMMA QuietSecure ==
  ASSUME AllSecure, net \subseteq net', UNCHANGED <<wait_acks, defer_messages, requests, told, faults>>
  PROVE  AllSecure'
<1> SUFFICES ASSUME NEW op \in AnyOp, Waits(op)' PROVE Secure(op)'
  BY DEF AllSecure
<1>1. Secure(op)
  BY DEF AllSecure, Waits, IsTold
<1>2. QED BY <1>1, SecureStays

LEMMA AllOnce == SingleRequests => \A op \in AnyOp : op \in Once
BY Ops DEF SingleRequests

(* Nobody was told anything of a request that is served only now. *)
LEMMA ServedUnanswered ==
  ASSUME SingleRequests, ServerInv
  PROVE  /\ \A m \in Sent : Given(m.op) = {}
         /\ \A op \in defer_messages : Given(op) = {}
<1>1. \A m \in Sent : m.op \in Once
  BY AllOnce, SentOps DEF ServerInv
<1>2. \A op \in defer_messages : op \in Once
  BY AllOnce, Ops DEF ServerInv, ServerTyped, DataTyped
<1>3. QED BY <1>1, <1>2 DEF ServerInv, FateInv, SentFresh, Fresh, DeferredUnanswered

------------------------------------------------------------------------------
(* The server's handlers. *)

LEMMA ServeReadSecure ==
  ASSUME InTimeAlone, AllSecure, NEW m \in net, ServeRead(m)
  PROVE  AllSecure'
<1>1. m \in Sent /\ m.op \in AnyOp /\ m.key \in Key /\ m.from \in Client /\ Given(m.op) = {}
  BY Kinds, ServedUnanswered DEF InTimeAlone, ServeRead, Sent, ServerInv, ServerTyped, Requests
<1>2. UNCHANGED <<requests, told, faults, defer_messages>>
  BY DEF ServeRead, clientVars
<1>3. PICK message \in Responses :
        message.op = m.op /\ message.copy = 1 /\ Respond(message, net \ {m})
  <2>1. CASE Respond(Response(m.op, m.key, "ok", value[m.key], timestamp', m.from), net \ {m})
    <3>1. timestamp' \in 0..Lease /\ value[m.key] \in OpId \cup {Empty}
      BY <1>1, ServeReadTyped DEF InTimeAlone, ServerInv, ServerTyped, DataTyped
    <3>2. QED BY <1>1, <2>1, <3>1, ResponseTyped DEF Response
  <2>2. CASE Respond(Response(m.op, m.key, "nodata", cache_data, timestamp, m.from), net \ {m})
    <3>1. timestamp \in 0..Lease /\ cache_data \in OpId \cup {Empty}
      BY DEF InTimeAlone, ServerInv, ServerTyped, DataTyped
    <3>2. QED BY <1>1, <2>2, <3>1, ResponseTyped DEF Response
  <2>3. QED BY <2>1, <2>2 DEF ServeRead
<1>4. QED BY <1>1, <1>2, <1>3, AnsweredSecure DEF InTimeAlone, ServerInv

LEMMA ServeUpdateSecure ==
  ASSUME InTimeAlone, AllSecure, NEW m \in net, ServeUpdate(m), ~Overdue(m.key)
  PROVE  AllSecure'
<1>1. m \in Sent /\ m.op \in OpId /\ m.op \in AnyOp /\ m.key \in Key /\ m.from \in Client
      /\ Given(m.op) = {}
  BY Kinds, Ops, ServedUnanswered DEF InTimeAlone, ServeUpdate, Sent, ServerInv, ServerTyped, Requests
<1>2. UNCHANGED <<requests, told, faults>>
  BY DEF ServeUpdate, clientVars
<1>3. ASSUME NEW result \in {"ok", "retry"}, NEW expire \in 0..Lease, UNCHANGED defer_messages,
             Respond(Response(m.op, m.key, result, m.op, expire, m.from), net \ {m})
      PROVE  AllSecure'
  <2> DEFINE message == Response(m.op, m.key, result, m.op, expire, m.from)
  <2>1. message \in Responses /\ message.op = m.op /\ message.copy = 1
    BY <1>1, ResponseTyped DEF Response
  <2>2. Respond(message, net \ {m})
    BY <1>3
  <2> HIDE DEF message
  <2>3. QED BY <1>1, <1>2, <1>3, <2>1, <2>2, AnsweredSecure DEF InTimeAlone, ServerInv
<1>4. CASE AcceptUpdate(m)
  BY <1>3, <1>4, LeaseAssumption DEF AcceptUpdate
<1>5. CASE RetryUpdate(m)
  <2>1. Remaining(m.key) \in 0..Lease
    BY <1>1, LeaseAssumption DEF Remaining, InTimeAlone, ServerInv, ServerTyped, ManagerTyped
  <2>2. QED BY <1>3, <1>5, <2>1 DEF RetryUpdate
<1>6. CASE DeferUpdate(m)
  <2>1. /\ net' = net \ {m} /\ UNCHANGED wait_acks
        /\ defer_messages' = defer_messages \cup {m.op}
    BY <1>6 DEF DeferUpdate
  <2> SUFFICES ASSUME NEW op \in AnyOp, Waits(op)' PROVE Secure(op)'
    BY DEF AllSecure
  <2>2. CASE op = m.op
    BY <2>1, <2>2 DEF Secure, ToServe
  <2>3. CASE op # m.op
    <3>1. Secure(op)
      BY <1>2 DEF AllSecure, Waits, IsTold
    <3>2. QED BY <1>2, <2>1, <2>3, <3>1, SecureStays
  <2>4. QED BY <2>2, <2>3
<1>7. ~ThrowUpdate(m)
  BY NoThrow
<1>8. QED BY <1>4, <1>5, <1>6, <1>7 DEF ServeUpdate

(* Only an ack of a client that was told takes a response from wait_acks. *)
LEMMA ServeAckSecure ==
  ASSUME AllSecure, AcksTold, NEW m \in net, ServeAck(m)
  PROVE  AllSecure'
<1>1. UNCHANGED <<requests, told, faults, defer_messages>>
  BY DEF ServeAck, clientVars
<1> SUFFICES ASSUME NEW op \in AnyOp, Waits(op)' PROVE Secure(op)'
  BY DEF AllSecure
<1>2. Waits(op) /\ Secure(op)
  BY <1>1 DEF AllSecure, Waits, IsTold
<1>3. m.type = "ack" /\ op # m.op
  BY <1>2 DEF ServeAck, AcksTold, Waits
<1>4. net' = net \ {m} /\ (op \in DOMAIN wait_acks => op \in DOMAIN wait_acks')
  BY <1>3, PopAckFacts DEF ServeAck, UnregisterWaitAck
<1>5. QED BY <1>1, <1>2, <1>3, <1>4, SecureStays

------------------------------------------------------------------------------
(* tick(). *)

LEMMA TickSecure ==
  ASSUME InTimeAlone, AllSecure, Tick
  PROVE  AllSecure'
<1>0. UNCHANGED <<requests, told, faults>>
  BY DEF Tick, TickDeleted, TickIdle, TickBlocks, TickUpdate, TickThrows, TickResend, TickStray,
         clientVars
<1>1. ASSUME NEW i \in DOMAIN timer_queue, TickDeleted(i) \/ TickIdle(i) \/ TickBlocks(i)
      PROVE  AllSecure'
  BY <1>0, <1>1, QuietSecure DEF TickDeleted, TickIdle, TickBlocks, serverVars
<1>2. ASSUME NEW s \in stray, TickStray(s) PROVE AllSecure'
  BY <1>0, <1>2, QuietSecure DEF TickStray, serverVars
<1>3. ASSUME NEW i \in DOMAIN timer_queue, TickUpdate(i) \/ TickThrows(i) PROVE AllSecure'
  <2> DEFINE k == timer_queue[i].key
  <2>1. k \in Key /\ op_id[k] \in defer_messages /\ TickUpdate(i)
    BY <1>3, CallbackFinds DEF InTimeAlone, ServerInv
  <2>2. /\ defer_messages' = defer_messages \ {op_id[k]}
        /\ Respond(Response(op_id[k], k, "ok", op_id[k], Lease, peer), net)
    BY <2>1 DEF TickUpdate
  <2> HIDE DEF k
  <2>3. op_id[k] \in OpId /\ op_id[k] \in AnyOp /\ peer \in Client /\ Lease \in 0..Lease
        /\ Given(op_id[k]) = {}
    BY <2>1, Ops, ServedUnanswered, LeaseAssumption
       DEF InTimeAlone, ServerInv, ServerTyped, DataTyped
  <2> DEFINE message == Response(op_id[k], k, "ok", op_id[k], Lease, peer)
  <2>4. message \in Responses /\ message.op = op_id[k] /\ message.copy = 1
    BY <2>1, <2>3, ResponseTyped DEF Response
  <2>5. Respond(message, net)
    BY <2>2
  <2> HIDE DEF message
  <2>6. QED BY <1>0, <2>2, <2>3, <2>4, <2>5, AnsweredSecure DEF InTimeAlone, ServerInv
<1>4. ASSUME NEW o \in DOMAIN wait_acks, TickResend(o) PROVE AllSecure'
  <2> DEFINE again == [wait_acks[o].message EXCEPT !.copy = 2, !.to = peer]
  <2>1. /\ o \in AnyOp /\ again.op = o /\ again.type = "response" /\ again.copy = 2
    <3>1. wait_acks[o].message \in Responses /\ wait_acks[o].message.op = o /\ o \in AnyOp
          /\ peer \in Client
      BY DEF InTimeAlone, ServerInv, ServerTyped, NetTyped, DataTyped
    <3>2. again \in Responses /\ again.op = o
      BY <3>1, AgainTyped
    <3>3. again.copy = 2
      BY <3>1 DEF Responses
    <3>4. QED BY <3>1, <3>2, <3>3 DEF Responses
  <2>2. /\ net' = net \cup {again} /\ UNCHANGED defer_messages
        /\ DOMAIN wait_acks' = DOMAIN wait_acks \ {o}
    BY <1>4, PopAckFacts DEF TickResend
  <2> HIDE DEF again
  <2> SUFFICES ASSUME NEW op \in AnyOp, Waits(op)' PROVE Secure(op)'
    BY DEF AllSecure
  <2>3. Secure(op)
    BY <1>0 DEF AllSecure, Waits, IsTold
  <2>4. CASE op # o
    BY <1>0, <2>2, <2>3, <2>4, SecureStays
  <2>5. CASE op = o
    <3>1. AnswerAt(op, 2)' /\ UnderWay(op)' # {}
      BY <2>1, <2>2, <2>5, UnderWayFacts DEF UnderWay, AnswerAt
    <3>2. AnswerAt(op, 1) => AnswerAt(op, 1)'
      BY <2>2 DEF AnswerAt
    <3>3. ToServe(op) => ToServe(op)'
      BY <2>2, OpenFacts DEF ToServe, Open
    <3>4. QED BY <1>0, <2>3, <3>1, <3>2, <3>3 DEF Secure, Twice
  <2>6. QED BY <2>4, <2>5
<1>5. QED BY <1>1, <1>2, <1>3, <1>4 DEF Tick

------------------------------------------------------------------------------
(* The clients, the network and the clock. *)

LEMMA SendSecure ==
  ASSUME InTimeAlone, AllSecure, NEW c \in Client, NEW o \in AnyOp, NEW k \in Key,
         SendRequest(c, o, k)
  PROVE  AllSecure'
<1>1. /\ net' = net \cup {Request(o, k, c)}
      /\ UNCHANGED <<wait_acks, defer_messages, told, faults>>
      /\ requests' = [requests EXCEPT ![o] = [client |-> c, key |-> k]]
  BY DEF SendRequest, serverVars
<1>2. Request(o, k, c).type = Kind(o) /\ Request(o, k, c).op = o
  BY DEF Request
<1> SUFFICES ASSUME NEW op \in AnyOp, Waits(op)' PROVE Secure(op)'
  BY DEF AllSecure
<1>3. CASE op = o
  BY <1>1, <1>2, <1>3 DEF Secure, ToServe, Open
<1>4. CASE op # o
  <2>1. Waits(op)
    BY <1>1, <1>4 DEF Waits, IsTold, InTimeAlone, ServerInv, ServerTyped, DataTyped
  <2>2. QED BY <1>1, <2>1, SecureStays DEF AllSecure
<1>5. QED BY <1>3, <1>4

(* A response always reaches the client that asked: it stops waiting. *)
LEMMA ReceiveSecure ==
  ASSUME InTimeAlone, AllSecure, NEW m \in net, ReceiveResponse(m)
  PROVE  AllSecure'
<1>1. m \in Responses /\ m.op \in AnyOp /\ m.to \in Client
  BY Kinds DEF ReceiveResponse, InTimeAlone, ServerInv, ServerTyped, Responses
<1>2. UNCHANGED <<wait_acks, defer_messages, requests, faults>>
  BY DEF ReceiveResponse, serverVars
<1> SUFFICES ASSUME NEW op \in AnyOp, Waits(op)' PROVE Secure(op)'
  BY DEF AllSecure
<1>3. CASE op = m.op
  <2>1. CASE m.op \in Pending(m.to)
    <3>1. told'[op] = Answer(m.result, m.data, m.expire)
      BY <1>1, <1>3, <2>1 DEF ReceiveResponse, InTimeAlone, ServerInv, ServerTyped, DataTyped
    <3>2. told'[op] # Unanswered
      <4>1. told'[op].result = m.result /\ m.result # "nothing"
        BY <1>1, <3>1 DEF Answer, Responses
      <4>2. Unanswered.result = "nothing"
        BY DEF Unanswered, Answer
      <4>3. QED BY <4>1, <4>2
    <3>3. QED BY <3>2 DEF Waits, IsTold
  <2>2. CASE m.op \notin Pending(m.to)
    <3>1. told' = told
      BY <2>2 DEF ReceiveResponse
    <3>2. requests[op] # NoRequest /\ ~IsTold(op)
      BY <1>2, <3>1 DEF Waits, IsTold
    <3>3. requests[op].client \in Client
      BY <3>2 DEF InTimeAlone, ServerInv, ServerTyped, DataTyped
    <3>4. requests[op].client = m.to
      BY <1>1, <3>3 DEF InTimeAlone, OneClient
    <3>5. QED BY <1>3, <2>2, <3>2, <3>4 DEF Pending
  <2>3. QED BY <2>1, <2>2
<1>4. CASE op # m.op
  <2>1. told'[op] = told[op]
    BY <1>4 DEF ReceiveResponse, InTimeAlone, ServerInv, ServerTyped, DataTyped
  <2>2. Secure(op)
    BY <1>2, <2>1 DEF Waits, IsTold, AllSecure
  <2>3. \A n \in net : n.op = op => n \in net'
    BY <1>4 DEF ReceiveResponse
  <2>4. QED BY <1>2, <2>2, <2>3, SecureStays
<1>5. QED BY <1>3, <1>4

(* The one datagram that is lost is not the last that says something. *)
LEMMA LoseSecure ==
  ASSUME InTimeAlone, AllSecure, NEW m \in net, Lose(m)
  PROVE  AllSecure'
<1>1. /\ faults = 0 /\ faults' = 1 /\ net' = net \ {m}
      /\ UNCHANGED <<wait_acks, defer_messages, requests, told>>
  <2>1. faults \in Nat /\ MaxFaults \in Nat /\ faults < MaxFaults /\ faults' = faults + 1
    BY NetworkAssumption DEF Lose, InTimeAlone, ServerInv, ServerTyped, DataTyped
  <2>2. faults = 0 /\ faults' = 1
    BY <2>1 DEF InTimeAlone
  <2>3. QED BY <2>2 DEF Lose, serverVars, clientVars
<1>2. m.type \notin {"read", "update"}
  BY DEF Lose, InTimeAlone, RequestsArrive
<1> SUFFICES ASSUME NEW op \in AnyOp, Waits(op)' PROVE Secure(op)'
  BY DEF AllSecure
<1>3. Secure(op)
  BY <1>1 DEF AllSecure, Waits, IsTold
<1>4. CASE ToServe(op)
  <2>1. op \in Open => op \in Open'
    BY <1>1, <1>2, OpenFacts DEF Open, Kind
  <2>2. QED BY <1>1, <1>4, <2>1 DEF Secure, ToServe
<1>5. CASE Twice(op)
  <2>1. UnderWay(op)' # {}
    BY <1>1, <1>5, UnderWayFacts DEF UnderWay, Twice, AnswerAt
  <2>2. QED BY <1>1, <2>1 DEF Secure
<1>6. QED BY <1>1, <1>3, <1>4, <1>5 DEF Secure

LEMMA DoubleSecure ==
  ASSUME InTimeAlone, AllSecure, NEW m \in net, Double(m)
  PROVE  AllSecure'
<1>1. /\ faults' # 0 /\ net \subseteq net'
      /\ UNCHANGED <<wait_acks, defer_messages, requests, told>>
  BY DEF Double, InTimeAlone, serverVars, clientVars, ServerInv, ServerTyped, DataTyped
<1> SUFFICES ASSUME NEW op \in AnyOp, Waits(op)' PROVE Secure(op)'
  BY DEF AllSecure
<1>2. Secure(op)
  BY <1>1 DEF AllSecure, Waits, IsTold
<1>3. ToServe(op) => ToServe(op)'
  BY <1>1, OpenFacts DEF ToServe, Open
<1>4. UnderWay(op) # {} => UnderWay(op)' # {}
  BY <1>1, UnderWayFacts DEF UnderWay
<1>5. QED BY <1>1, <1>2, <1>3, <1>4 DEF Secure

LEMMA AgedCopy == \A m \in Responses : Aged(m).copy = m.copy
BY DEF Aged, Responses

LEMMA ElapseSecure ==
  ASSUME InTimeAlone, AllSecure, Elapse, FateInv'
  PROVE  AllSecure'
<1>1. /\ net' = {Aged(m) : m \in net} /\ DOMAIN wait_acks' = DOMAIN wait_acks
      /\ UNCHANGED <<defer_messages, requests, faults>>
  BY DEF Elapse
<1>2. \A op \in AnyOp : told'[op].result = told[op].result
  BY DEF Elapse, InTimeAlone, ServerInv, ServerTyped, DataTyped
<1> SUFFICES ASSUME NEW op \in AnyOp, Waits(op)' PROVE Secure(op)'
  BY DEF AllSecure
<1>3. IsTold(op)' <=> IsTold(op)
  BY <1>2 DEF Unanswered, Answer, IsTold, InTimeAlone, ServerInv, FateInv, ToldSomething
<1>4. Secure(op)
  BY <1>1, <1>3 DEF Waits, AllSecure
<1>5. \A m \in net : /\ Aged(m).op = m.op /\ Aged(m).type = m.type
                     /\ m.type = "response" => Aged(m).copy = m.copy
  <2>1. NetTyped
    BY DEF InTimeAlone, ServerInv, ServerTyped
  <2>2. \A m \in net : Aged(m).op = m.op /\ Aged(m).type = m.type
    BY <2>1, AgedTyped DEF NetTyped
  <2>3. \A m \in net : m.type = "response" => m \in Responses
    BY <2>1, Kinds
  <2>4. QED BY <2>2, <2>3, AgedCopy
<1>6. QED BY <1>1, <1>4, <1>5, SecureStays
------------------------------------------------------------------------------
(* Acks come from clients that were told, and a client that was told is told for good. *)

NoNewAck == \A m \in net' : m.type = "ack" => \E n \in net : n.type = "ack" /\ n.op = m.op

LEMMA RespondNoAck ==
  ASSUME NEW message, message.type = "response", NEW rest, rest \subseteq net, Respond(message, rest)
  PROVE  NoNewAck
BY DEF Respond, NoNewAck

LEMMA ServeNoAck ==
  ASSUME NEW m \in net, ServeRead(m) \/ ServeUpdate(m) \/ ServeAck(m)
  PROVE  NoNewAck
<1>1. \A op, k, result, data, expire, c : Response(op, k, result, data, expire, c).type = "response"
  BY DEF Response
<1>2. CASE net' = net \ {m}
  BY <1>2 DEF NoNewAck
<1>3. CASE \E message : message.type = "response" /\ Respond(message, net \ {m})
  BY <1>3, RespondNoAck
<1>4. QED BY <1>1, <1>2, <1>3
     DEF ServeRead, ServeUpdate, AcceptUpdate, RetryUpdate, DeferUpdate, ThrowUpdate, ServeAck

LEMMA TickNoAck ==
  ASSUME ServerTyped, Tick
  PROVE  NoNewAck
<1>1. CASE net' = net
  BY <1>1 DEF NoNewAck
<1>2. ASSUME NEW i \in DOMAIN timer_queue, TickUpdate(i) PROVE NoNewAck
  <2>1. PICK k \in Key : k = timer_queue[i].key
    BY QueueFacts DEF ServerTyped, ManagerTyped, Timer
  <2>2. Respond(Response(op_id[k], k, "ok", op_id[k], Lease, peer), net)
    BY <1>2, <2>1 DEF TickUpdate
  <2>3. Response(op_id[k], k, "ok", op_id[k], Lease, peer).type = "response"
    BY DEF Response
  <2>4. QED BY <2>2, <2>3, RespondNoAck
<1>3. ASSUME NEW op \in DOMAIN wait_acks, TickResend(op) PROVE NoNewAck
  <2>1. [wait_acks[op].message EXCEPT !.copy = 2, !.to = peer] \in Responses
    BY AgainTyped DEF ServerTyped, NetTyped, DataTyped
  <2>2. QED BY <1>3, <2>1 DEF TickResend, NoNewAck, Responses
<1>4. QED BY <1>1, <1>2, <1>3
     DEF Tick, TickDeleted, TickIdle, TickThrows, TickBlocks, TickStray, serverVars

LEMMA NextAcksTold == ServerTyped /\ FateInv /\ FateInv' /\ AcksTold /\ [Next]_vars => AcksTold'
<1> SUFFICES ASSUME ServerTyped, FateInv, FateInv', AcksTold, [Next]_vars PROVE AcksTold'
  OBVIOUS
<1>1. ASSUME NoNewAck, \A op \in AnyOp : IsTold(op) => IsTold(op)' PROVE AcksTold'
  <2>1. \A n \in net : n.op \in AnyOp
    BY Kinds DEF ServerTyped
  <2>2. QED BY <1>1, <2>1 DEF AcksTold, NoNewAck
<1>2. ASSUME NoNewAck, told' = told PROVE AcksTold'
  BY <1>1, <1>2 DEF IsTold
<1>3. CASE UNCHANGED vars
  BY <1>2, <1>3 DEF NoNewAck, vars, clientVars
<1>4. CASE Serve
  BY <1>2, <1>4, ServeNoAck DEF Serve, ServeRead, ServeUpdate, ServeAck, clientVars
<1>5. CASE Tick
  <2>1. told' = told
    BY <1>5 DEF Tick, TickDeleted, TickIdle, TickBlocks, TickUpdate, TickThrows, TickResend,
                TickStray, clientVars
  <2>2. QED BY <1>2, <1>5, <2>1, TickNoAck
<1>6. ASSUME NEW c \in Client, NEW op \in AnyOp, NEW k \in Key, SendRequest(c, op, k) PROVE AcksTold'
  <2>1. Request(op, k, c).type # "ack"
    BY DEF Request, Kind
  <2>2. QED BY <1>2, <1>6, <2>1 DEF SendRequest, NoNewAck
<1>7. ASSUME NEW m \in net, ReceiveResponse(m) PROVE AcksTold'
  <2>1. m \in Responses /\ m.op \in AnyOp /\ \A n \in net : n.op \in AnyOp
    BY <1>7, Kinds DEF ReceiveResponse, ServerTyped
  <2>2. CASE m.op \notin Pending(m.to)
    BY <1>2, <1>7, <2>2 DEF ReceiveResponse, NoNewAck
  <2>3. CASE m.op \in Pending(m.to)
    <3>1. told' = [told EXCEPT ![m.op] = Answer(m.result, m.data, m.expire)]
          /\ net' = (net \ {m}) \cup {Ack(m.op, m.to)}
      BY <1>7, <2>3 DEF ReceiveResponse
    <3>2. Answer(m.result, m.data, m.expire) # Unanswered
      <4>1. Answer(m.result, m.data, m.expire).result # "nothing" /\ Unanswered.result = "nothing"
        BY <2>1 DEF Answer, Unanswered, Responses
      <4>2. QED BY <4>1
    <3>3. \A op \in AnyOp : told'[op] = told[op] \/ (op = m.op /\ told'[op] # Unanswered)
      BY <2>1, <3>1, <3>2 DEF ServerTyped, DataTyped
    <3>4. told'[m.op] # Unanswered /\ Ack(m.op, m.to).op = m.op
      BY <2>1, <3>1, <3>2 DEF ServerTyped, DataTyped, Ack
    <3>5. QED BY <2>1, <3>1, <3>3, <3>4 DEF AcksTold, IsTold
  <2>4. QED BY <2>2, <2>3
<1>8. ASSUME NEW m \in net, Lose(m) PROVE AcksTold'
  BY <1>2, <1>8 DEF Lose, NoNewAck, clientVars
<1>9. ASSUME NEW m \in net, Double(m) PROVE AcksTold'
  <2>1. [m EXCEPT !.copy = 3].op = m.op /\ [m EXCEPT !.copy = 3].type = m.type
    BY DoubledTyped DEF ServerTyped, NetTyped
  <2>2. QED BY <1>2, <1>9, <2>1 DEF Double, NoNewAck, clientVars
<1>10. CASE Elapse
  <2>1. net' = {Aged(m) : m \in net}
        /\ \A op \in AnyOp : told'[op].result = told[op].result
    BY <1>10 DEF Elapse, ServerTyped, DataTyped
  <2>2. \A op \in AnyOp : IsTold(op) => IsTold(op)'
    BY <2>1 DEF Unanswered, Answer, IsTold, FateInv, ToldSomething
  <2>3. NoNewAck
    BY <2>1, AgedTyped DEF NoNewAck, ServerTyped, NetTyped
  <2>4. QED BY <1>1, <2>2, <2>3
<1>11. QED BY <1>3, <1>4, <1>5, <1>6, <1>7, <1>8, <1>9, <1>10 DEF Next

------------------------------------------------------------------------------
LEMMA NextSecure ==
  InTimeAlone /\ FateInv' /\ AllSecure /\ AcksTold /\ [Next]_vars /\ [NoLateRequest]_vars
    => AllSecure'
<1> SUFFICES ASSUME InTimeAlone, FateInv', AllSecure, AcksTold, [Next]_vars, [NoLateRequest]_vars
             PROVE  AllSecure'
  OBVIOUS
<1>1. CASE UNCHANGED vars
  BY <1>1, QuietSecure DEF vars, serverVars, clientVars
<1>2. CASE NoLateRequest /\ Serve
  BY <1>2, ServeReadSecure, ServeUpdateSecure, ServeAckSecure DEF Serve, NoLateRequest
<1>3. QED BY <1>1, <1>2, TickSecure, SendSecure, ReceiveSecure, LoseSecure, DoubleSecure,
             ElapseSecure DEF Next

LEMMA InitSecure == Init => AllSecure /\ AcksTold
BY DEF Init, AllSecure, Waits, AcksTold

LEMMA SecureHeld == AllSecure => NoneForgotten
BY DEF AllSecure, Secure, ToServe, Waits, NoneForgotten

(* If no request is late, a client that is alone and whose requests arrive once is never forgotten,
   whichever response or ack is lost or doubled, and however late: its request is still to be
   served, or waits, or an answer is under way or kept for resending. *)
THEOREM NoneForgottenUnlessLate ==
  OneClient /\ SingleRequests /\ RequestsArrive /\ MaxFaults <= 1
    => (Spec /\ RequestsInTime => []NoneForgotten)
<1> SUFFICES ASSUME OneClient, SingleRequests, RequestsArrive, MaxFaults <= 1
             PROVE  Spec /\ RequestsInTime => []NoneForgotten
  OBVIOUS
<1>1. Spec /\ RequestsInTime => []Valued
  BY InitValued, NextValued, InTimeServer, RequestsReads, PTL DEF Spec
<1>2. ServerTyped /\ FateInv /\ LeaseInv /\ PromptInv /\ Valued
        /\ FateInv' /\ AllSecure /\ AcksTold /\ [Next]_vars /\ [NoLateRequest]_vars
          => AllSecure' /\ AcksTold'
  BY NextSecure, NextAcksTold DEF InTimeAlone, ServerInv
<1>3. QED BY <1>1, <1>2, InitSecure, SecureHeld, FateInvariant, InTimeServer, RequestsReads, PTL
     DEF Spec, RequestsInTime

(* So it is if tick() runs before each datagram. *)
THEOREM NoneForgottenWhenPrompt ==
  TickFirst /\ OneClient /\ SingleRequests /\ RequestsArrive /\ MaxFaults <= 1
    => (Spec => []NoneForgotten)
BY NoneForgottenUnlessLate, PromptInTime, PTL
================================================================================
