--------------------------- MODULE CacheServerProofs ---------------------------
(***************************************************************************)
(* Proofs about CacheServer, for any clients, requests, lease and lag, and *)
(* for a network that loses, reorders and doubles datagrams.               *)
(***************************************************************************)
EXTENDS CacheServer, CacheStateManagerProofs

(* Datagrams, and the responses that are kept for resending. *)

Requests ==
  [type : {"read", "update"}, op : AnyOp, key : Key, from : Client, copy : 1..3]
Responses ==
  [type : {"response"}, op : AnyOp, key : Key, result : {"ok", "retry", "nodata"},
   data : OpId \cup {Empty}, expire : 0..Lease, to : Client, copy : 1..3]
Acks == [type : {"ack"}, op : AnyOp, from : Client, copy : 1..3]

NetTyped ==
  /\ net \subseteq Requests \cup Responses \cup Acks
  /\ \A m \in net : m.type \in {"read", "update"} => m.type = Kind(m.op)
  /\ DOMAIN wait_acks \subseteq AnyOp
  /\ \A op \in DOMAIN wait_acks :
       wait_acks[op].message \in Responses /\ wait_acks[op].message.op = op

(* The rest of the state. *)
DataTyped ==
  /\ ticking \in BOOLEAN /\ blocked \in BOOLEAN /\ undefined \in BOOLEAN
  /\ map \subseteq Key
  /\ value \in [Key -> OpId \cup {Empty}] /\ temp_value \in [Key -> OpId \cup {Empty}]
  /\ cache_data \in OpId \cup {Empty} /\ timestamp \in 0..Lease
  /\ defer_messages \subseteq OpId
  /\ peer \in Client
  /\ faults \in 0..MaxFaults
  /\ requests \in [AnyOp -> [client : Client, key : Key] \cup {NoRequest}]
  /\ told \in [AnyOp -> [result : {"nothing", "ok", "retry", "nodata"},
                         data : OpId \cup {Empty}, expire : 0..Lease]]
  /\ applied \in [OpId -> Nat]

ServerTyped == ManagerTyped /\ DataTyped /\ NetTyped

LEMMA TypedIsOK == ServerTyped => TypeOK
BY DEF ServerTyped, ManagerTyped, DataTyped, NetTyped, TypeOK

LEMMA Kinds ==
  ASSUME NetTyped, NEW m \in net
  PROVE  /\ m.op \in AnyOp
         /\ m.type \in {"read", "update"} => m \in Requests
         /\ m.type = "update" => m.op \in OpId
         /\ m.type = "read" => m.op \notin OpId
         /\ m.type = "response" => m \in Responses
         /\ m.type = "ack" => m \in Acks
BY DEF NetTyped, Requests, Responses, Acks, Kind

LEMMA InitTyped == Init => ServerTyped
<1> SUFFICES ASSUME Init PROVE ServerTyped
  OBVIOUS
<1>1. ManagerTyped
  BY ManagerInitTyped DEF Init
<1>2. NetTyped
  BY DEF Init, NetTyped
<1>3. DataTyped
  <2>1. 0 \in 0..Lease /\ 0 \in 0..MaxFaults /\ 0 \in Nat
    BY LeaseAssumption, NetworkAssumption
  <2>2. ticking \in BOOLEAN /\ blocked \in BOOLEAN /\ undefined \in BOOLEAN
    BY DEF Init, ManagerInit
  <2>3. QED BY <2>1, <2>2 DEF Init, DataTyped, Unanswered, Answer
<1>4. QED BY <1>1, <1>2, <1>3 DEF ServerTyped

(* A response of the server. *)
LEMMA RespondTyped ==
  ASSUME NetTyped, NEW message \in Responses, NEW rest, rest \subseteq net, Respond(message, rest)
  PROVE  NetTyped'
<1>1. CASE message.op \in DOMAIN wait_acks
  BY <1>1 DEF Respond, NetTyped
<1>2. CASE message.op \notin DOMAIN wait_acks
  <2>1. wait_acks' = AddTimer(wait_acks, message.op, [left |-> AckTimeout, message |-> message])
        /\ net' = rest \cup {message}
    BY <1>2 DEF Respond
  <2>2. message.op \in AnyOp /\ message.type = "response"
    BY DEF Responses
  <2>3. DOMAIN wait_acks' = DOMAIN wait_acks \cup {message.op}
    BY <2>1 DEF AddTimer
  <2>4. \A op \in DOMAIN wait_acks' :
          wait_acks'[op].message \in Responses /\ wait_acks'[op].message.op = op
    BY <1>2, <2>1, <2>3 DEF AddTimer, NetTyped
  <2>5. QED BY <2>1, <2>2, <2>3, <2>4 DEF NetTyped
<1>3. QED BY <1>1, <1>2

LEMMA ResponseTyped ==
  ASSUME NEW op \in AnyOp, NEW k \in Key, NEW result \in {"ok", "retry", "nodata"},
         NEW data \in OpId \cup {Empty}, NEW expire \in 0..Lease, NEW c \in Client
  PROVE  /\ Response(op, k, result, data, expire, c) \in Responses
         /\ Response(op, k, result, data, expire, c).op = op
         /\ Response(op, k, result, data, expire, c).result = result
BY DEF Response, Responses

LEMMA ServeReadTyped ==
  ASSUME ServerTyped, NEW m \in net, ServeRead(m)
  PROVE  ServerTyped'
<1>1. m \in Requests /\ m.op \in AnyOp /\ m.key \in Key /\ m.from \in Client
  BY Kinds DEF ServeRead, ServerTyped, Requests
<1>2. CASE /\ ManagerRead(m.key, ReadId)
           /\ cache_data' = value[m.key]
           /\ timestamp' = ReadExpire(m.key)
           /\ Respond(Response(m.op, m.key, "ok", value[m.key], timestamp', m.from), net \ {m})
  <2>1. ManagerTyped'
    BY <1>1, <1>2, ManagerReadTyped DEF ServerTyped
  <2>2. timestamp' \in 0..Lease /\ cache_data' \in OpId \cup {Empty}
    BY <1>1, <1>2, LeaseAssumption DEF ReadExpire, ServerTyped, DataTyped
  <2>3. NetTyped'
    <3>1. value[m.key] \in OpId \cup {Empty}
      BY <1>2, <2>2
    <3>2. Response(m.op, m.key, "ok", value[m.key], timestamp', m.from) \in Responses
      BY <1>1, <2>2, <3>1, ResponseTyped
    <3>3. QED BY <1>2, <3>2, RespondTyped DEF ServerTyped
  <2>4. DataTyped'
    BY <1>1, <2>2 DEF ServeRead, clientVars, ServerTyped, DataTyped
  <2>5. QED BY <2>1, <2>3, <2>4 DEF ServerTyped
<1>3. CASE /\ Respond(Response(m.op, m.key, "nodata", cache_data, timestamp, m.from), net \ {m})
           /\ UNCHANGED <<managerVars, readVars>>
  <2>1. ManagerTyped'
    BY <1>3 DEF managerVars, ServerTyped, ManagerTyped, IsQueue
  <2>2. NetTyped'
    <3>1. cache_data \in OpId \cup {Empty} /\ timestamp \in 0..Lease
      BY DEF ServerTyped, DataTyped
    <3>2. QED BY <1>1, <1>3, <3>1, ResponseTyped, RespondTyped DEF ServerTyped
  <2>3. DataTyped'
    BY <1>1, <1>3 DEF ServeRead, readVars, clientVars, ServerTyped, DataTyped
  <2>4. QED BY <2>1, <2>2, <2>3 DEF ServerTyped
<1>4. QED BY <1>2, <1>3 DEF ServeRead

LEMMA StoreTyped ==
  ASSUME DataTyped, NEW k \in Key, NEW v \in OpId \cup {Empty}, Store(k, v)
  PROVE  value' \in [Key -> OpId \cup {Empty}] /\ applied' \in [OpId -> Nat]
BY DEF Store, DataTyped

LEMMA ServeUpdateTyped ==
  ASSUME ServerTyped, NEW m \in net, ServeUpdate(m)
  PROVE  ServerTyped'
<1>1. m.op \in AnyOp /\ m.op \in OpId /\ m.key \in Key /\ m.from \in Client /\ NetTyped
  BY Kinds DEF ServeUpdate, ServerTyped, Requests
<1>2. ASSUME NEW result \in {"ok", "retry"}, NEW expire \in 0..Lease,
             Respond(Response(m.op, m.key, result, m.op, expire, m.from), net \ {m})
      PROVE  NetTyped'
  BY <1>1, <1>2, ResponseTyped, RespondTyped
<1>3. ManagerTyped'
  <2>1. CASE UNCHANGED managerVars
    BY <2>1 DEF managerVars, ServerTyped, ManagerTyped, IsQueue
  <2>2. QED BY <1>1, <2>1, ManagerUpdateTyped
             DEF ServeUpdate, AcceptUpdate, RetryUpdate, DeferUpdate, ThrowUpdate, ServerTyped
<1>4. CASE AcceptUpdate(m)
  <2>1. value' \in [Key -> OpId \cup {Empty}] /\ applied' \in [OpId -> Nat]
    BY <1>1, <1>4, StoreTyped DEF AcceptUpdate, ServerTyped
  <2>2. NetTyped'
    BY <1>2, <1>4, LeaseAssumption DEF AcceptUpdate
  <2>3. DataTyped'
    BY <1>1, <1>4, <2>1 DEF AcceptUpdate, ServeUpdate, readVars, clientVars, ServerTyped, DataTyped
  <2>4. QED BY <1>3, <2>2, <2>3 DEF ServerTyped
<1>5. CASE RetryUpdate(m)
  <2>1. Remaining(m.key) \in 0..Lease
    BY <1>1, LeaseAssumption DEF Remaining, ServerTyped, ManagerTyped
  <2>2. NetTyped'
    BY <1>2, <1>5, <2>1 DEF RetryUpdate
  <2>3. DataTyped'
    BY <1>1, <1>5 DEF RetryUpdate, ServeUpdate, readVars, clientVars, ServerTyped, DataTyped
  <2>4. QED BY <1>3, <2>2, <2>3 DEF ServerTyped
<1>6. CASE DeferUpdate(m) \/ ThrowUpdate(m)
  <2>1. NetTyped'
    BY <1>1, <1>6 DEF DeferUpdate, ThrowUpdate, NetTyped
  <2>2. DataTyped'
    BY <1>1, <1>6 DEF DeferUpdate, ThrowUpdate, ServeUpdate, readVars, clientVars, ServerTyped,
                      DataTyped
  <2>3. QED BY <1>3, <2>1, <2>2 DEF ServerTyped
<1>7. QED BY <1>4, <1>5, <1>6 DEF ServeUpdate

LEMMA PopAckFacts ==
  ASSUME NEW op
  PROVE  /\ DOMAIN PopTimer(wait_acks, op) = DOMAIN wait_acks \ {op}
         /\ \A other \in DOMAIN wait_acks \ {op} :
              PopTimer(wait_acks, op)[other] = wait_acks[other]
BY DEF PopTimer, Restrict

(* An entry leaves the wait-ack map; the network has lost datagrams or got one more. *)
LEMMA PopAckTyped ==
  ASSUME NetTyped, NEW op, wait_acks' = PopTimer(wait_acks, op)
  PROVE  /\ DOMAIN wait_acks' \subseteq AnyOp
         /\ \A other \in DOMAIN wait_acks' :
              /\ wait_acks'[other].message \in Responses
              /\ wait_acks'[other].message.op = other
<1>1. \A other \in DOMAIN wait_acks' :
        other \in DOMAIN wait_acks /\ wait_acks'[other] = wait_acks[other]
  BY PopAckFacts
<1>2. DOMAIN wait_acks' \subseteq AnyOp
  BY <1>1 DEF NetTyped
<1>3. ASSUME NEW other \in DOMAIN wait_acks'
      PROVE  wait_acks'[other].message \in Responses /\ wait_acks'[other].message.op = other
  BY <1>1 DEF NetTyped
<1>4. QED BY <1>2, <1>3

LEMMA FewerTyped ==
  ASSUME NetTyped, NEW op, wait_acks' = PopTimer(wait_acks, op), net' \subseteq net
  PROVE  NetTyped'
<1>1. /\ net' \subseteq Requests \cup Responses \cup Acks
      /\ \A m \in net' : m.type \in {"read", "update"} => m.type = Kind(m.op)
  BY DEF NetTyped
<1>2. QED BY <1>1, PopAckTyped DEF NetTyped

LEMMA ResentTyped ==
  ASSUME NetTyped, NEW op, wait_acks' = PopTimer(wait_acks, op),
         NEW again \in Responses, net' = net \cup {again}
  PROVE  NetTyped'
<1>1. again.type = "response"
  BY DEF Responses
<1>2. net' \subseteq Requests \cup Responses \cup Acks
  BY DEF NetTyped
<1>3. \A m \in net' : m.type \in {"read", "update"} => m.type = Kind(m.op)
  BY <1>1 DEF NetTyped
<1>4. QED BY <1>2, <1>3, PopAckTyped DEF NetTyped

LEMMA ServeAckTyped ==
  ASSUME ServerTyped, NEW m \in net, ServeAck(m)
  PROVE  ServerTyped'
<1>1. m.from \in Client
  BY Kinds DEF ServeAck, ServerTyped, Acks
<1>2. ManagerTyped'
  BY DEF ServeAck, managerVars, ServerTyped, ManagerTyped, IsQueue
<1>3. NetTyped'
  <2>1. net' \subseteq net /\ wait_acks' = PopTimer(wait_acks, m.op)
    BY DEF ServeAck, UnregisterWaitAck
  <2>2. QED BY <2>1, FewerTyped DEF ServerTyped
<1>4. DataTyped'
  BY <1>1 DEF ServeAck, readVars, clientVars, ServerTyped, DataTyped
<1>5. QED BY <1>2, <1>3, <1>4 DEF ServerTyped

(* A datagram that is sent once more. *)
LEMMA AgainTyped ==
  ASSUME NEW m \in Responses, NEW c \in Client
  PROVE  /\ [m EXCEPT !.copy = 2, !.to = c] \in Responses
         /\ [m EXCEPT !.copy = 2, !.to = c].op = m.op
         /\ [m EXCEPT !.copy = 2, !.to = c].result = m.result
<1>1. [m EXCEPT !.copy = 2, !.to = c] = [[m EXCEPT !.copy = 2] EXCEPT !.to = c]
  BY Z3 DEF Responses
<1>2. /\ [m EXCEPT !.copy = 2] \in Responses
      /\ [m EXCEPT !.copy = 2].op = m.op /\ [m EXCEPT !.copy = 2].result = m.result
  BY DEF Responses
<1>3. QED BY <1>1, <1>2 DEF Responses

LEMMA DoubledTyped ==
  ASSUME NEW m \in Requests \cup Responses \cup Acks
  PROVE  /\ [m EXCEPT !.copy = 3] \in Requests \cup Responses \cup Acks
         /\ m \in Responses => [m EXCEPT !.copy = 3] \in Responses /\ [m EXCEPT !.copy = 3].result = m.result
         /\ [m EXCEPT !.copy = 3].op = m.op /\ [m EXCEPT !.copy = 3].type = m.type
<1>1. CASE m \in Requests
  BY <1>1 DEF Requests, Responses
<1>2. CASE m \in Responses
  BY <1>2 DEF Responses
<1>3. CASE m \in Acks
  BY <1>3 DEF Acks, Responses
<1>4. QED BY <1>1, <1>2, <1>3

LEMMA ContinuesTyped == Continues => ticking' \in BOOLEAN
<1>1. AnyDue' \in BOOLEAN
  BY Zenon DEF AnyDue
<1>2. QED BY <1>1 DEF Continues

LEMMA TickTyped ==
  ASSUME ServerTyped, Tick
  PROVE  ServerTyped'
<1>1. ASSUME NEW i \in DOMAIN timer_queue, TickDeleted(i) \/ TickIdle(i) \/ TickBlocks(i)
      PROVE  ServerTyped'
  <2>1. ManagerTyped'
    BY <1>1, ManagerTickTyped DEF TickDeleted, TickIdle, TickBlocks, ServerTyped
  <2>2. NetTyped'
    BY <1>1 DEF TickDeleted, TickIdle, TickBlocks, serverVars, ServerTyped, NetTyped
  <2>3. ticking' \in BOOLEAN /\ blocked' \in BOOLEAN
    BY <1>1, ContinuesTyped DEF TickDeleted, TickIdle, TickBlocks, ManagerTickDeleted,
         ManagerTickIdle, ManagerTickBlocks, ServerTyped, DataTyped
  <2>4. DataTyped'
    BY <1>1, <2>3 DEF TickDeleted, TickIdle, TickBlocks, serverVars, readVars, clientVars,
                      ServerTyped, DataTyped
  <2>5. QED BY <2>1, <2>2, <2>4 DEF ServerTyped
<1>2. ASSUME NEW i \in DOMAIN timer_queue, TickUpdate(i) \/ TickThrows(i)
      PROVE  ServerTyped'
  <2> DEFINE k == timer_queue[i].key
  <2>1. ManagerTyped' /\ k \in Key /\ UNCHANGED op_id
    BY <1>2, ManagerTickTyped DEF TickUpdate, TickThrows, ServerTyped
  <2>2. temp_value[k] \in OpId \cup {Empty}
    BY <2>1 DEF ServerTyped, DataTyped
  <2>3. value' \in [Key -> OpId \cup {Empty}] /\ applied' \in [OpId -> Nat]
    BY <1>2, <2>1, <2>2, StoreTyped DEF TickUpdate, TickThrows, ServerTyped
  <2>4. temp_value' \in [Key -> OpId \cup {Empty}]
    BY <1>2, <2>1 DEF TickUpdate, TickThrows, ServerTyped, DataTyped
  <2>5. ticking' \in BOOLEAN /\ blocked' = blocked
    BY <1>2, ContinuesTyped DEF TickUpdate, TickThrows, ManagerTickUpdate
  <2>6. CASE TickUpdate(i)
    <3>1. op_id[k] \in OpId /\ peer \in Client
      BY <2>6 DEF TickUpdate, ServerTyped, DataTyped
    <3>2. Respond(Response(op_id[k], k, "ok", op_id[k], Lease, peer), net)
      BY <2>6 DEF TickUpdate
    <3>3. Lease \in 0..Lease /\ op_id[k] \in AnyOp
      BY <3>1, LeaseAssumption DEF AnyOp
    <3>4. NetTyped'
      BY <2>1, <3>1, <3>2, <3>3, ResponseTyped, RespondTyped DEF ServerTyped
    <3>5. DataTyped'
      BY <2>3, <2>4, <2>5, <2>6 DEF TickUpdate, readVars, clientVars, ServerTyped, DataTyped
    <3>6. QED BY <2>1, <3>4, <3>5 DEF ServerTyped
  <2>7. CASE TickThrows(i)
    <3>1. NetTyped'
      BY <2>7 DEF TickThrows, ServerTyped, NetTyped
    <3>2. DataTyped'
      BY <2>3, <2>4, <2>5, <2>7 DEF TickThrows, readVars, clientVars, ServerTyped, DataTyped
    <3>3. QED BY <2>1, <3>1, <3>2 DEF ServerTyped
  <2>8. QED BY <1>2, <2>6, <2>7
<1>3. ASSUME NEW op \in DOMAIN wait_acks, TickResend(op) PROVE ServerTyped'
  <2>1. ManagerTyped'
    BY <1>3 DEF TickResend, managerVars, ServerTyped, ManagerTyped, IsQueue
  <2>2. [wait_acks[op].message EXCEPT !.copy = 2, !.to = peer] \in Responses
    BY AgainTyped DEF ServerTyped, NetTyped, DataTyped
  <2>3. NetTyped'
    <3> DEFINE again == [wait_acks[op].message EXCEPT !.copy = 2, !.to = peer]
    <3>1. net' = net \cup {again} /\ wait_acks' = PopTimer(wait_acks, op)
      BY <1>3 DEF TickResend
    <3>2. again \in Responses
      BY <2>2
    <3> HIDE DEF again
    <3>3. QED BY <3>1, <3>2, ResentTyped DEF ServerTyped
  <2>4. DataTyped'
    BY <1>3, ContinuesTyped DEF TickResend, readVars, clientVars, ServerTyped, DataTyped
  <2>5. QED BY <2>1, <2>3, <2>4 DEF ServerTyped
<1>4. ASSUME NEW s \in stray, TickStray(s) PROVE ServerTyped'
  <2>1. ManagerTyped'
    BY <1>4 DEF TickStray, managerVars, ServerTyped, ManagerTyped, IsQueue
  <2>2. NetTyped' /\ DataTyped'
    BY <1>4 DEF TickStray, serverVars, readVars, clientVars, ServerTyped, NetTyped, DataTyped
  <2>3. QED BY <2>1, <2>2 DEF ServerTyped
<1>5. QED BY <1>1, <1>2, <1>3, <1>4 DEF Tick

LEMMA AgedTyped ==
  ASSUME NEW m \in Requests \cup Responses \cup Acks
  PROVE  /\ Aged(m).op = m.op /\ Aged(m).type = m.type
         /\ m.type # "response" => Aged(m) = m
         /\ m \in Responses => Aged(m) \in Responses /\ Aged(m).result = m.result
         /\ Aged(m) \in Requests \cup Responses \cup Acks
<1>1. CASE m \in Responses
  <2>1. m.type = "response" /\ Later(m.expire) \in 0..Lease
    BY <1>1, LeaseAssumption DEF Responses, Later
  <2>2. Aged(m) = [m EXCEPT !.expire = Later(m.expire)]
    BY <2>1 DEF Aged
  <2>3. QED BY <1>1, <2>1, <2>2 DEF Responses
<1>2. CASE m \in Requests \cup Acks
  BY <1>2 DEF Aged, Requests, Acks, Responses
<1>3. QED BY <1>1, <1>2

LEMMA ElapseTyped ==
  ASSUME ServerTyped, Elapse
  PROVE  ServerTyped'
<1>1. ManagerTyped'
  BY ManagerElapseTyped DEF Elapse, ServerTyped
<1>2. \A e \in 0..Lease : Later(e) \in 0..Lease
  BY LeaseAssumption DEF Later
<1>3. NetTyped'
  <2>1. net' = {Aged(m) : m \in net}
    BY DEF Elapse
  <2>2. DOMAIN wait_acks' = DOMAIN wait_acks
    BY DEF Elapse
  <2>3. \A op \in DOMAIN wait_acks : wait_acks'[op].message = Aged(wait_acks[op].message)
    BY DEF Elapse
  <2>4. QED BY <2>1, <2>2, <2>3, AgedTyped DEF ServerTyped, NetTyped
<1>4. told' \in [AnyOp -> [result : {"nothing", "ok", "retry", "nodata"},
                          data : OpId \cup {Empty}, expire : 0..Lease]]
  <2>1. told' = [op \in AnyOp |-> [told[op] EXCEPT !.expire = Later(@)]]
    BY DEF Elapse
  <2>2. ASSUME NEW op \in AnyOp
        PROVE  [told[op] EXCEPT !.expire = Later(@)]
                 \in [result : {"nothing", "ok", "retry", "nodata"}, data : OpId \cup {Empty},
                     expire : 0..Lease]
    <3>1. told[op] \in [result : {"nothing", "ok", "retry", "nodata"}, data : OpId \cup {Empty},
                        expire : 0..Lease]
      BY DEF ServerTyped, DataTyped
    <3>2. Later(told[op].expire) \in 0..Lease
      BY <1>2, <3>1
    <3>3. QED BY <3>1, <3>2
  <2>3. QED BY <2>1, <2>2
<1>5. DataTyped'
  BY <1>2, <1>4 DEF Elapse, ServerTyped, DataTyped
<1>6. QED BY <1>1, <1>3, <1>5 DEF ServerTyped

LEMMA ClientTyped ==
  ASSUME ServerTyped,
         \/ \E c \in Client, op \in AnyOp, k \in Key : SendRequest(c, op, k)
         \/ \E m \in net : ReceiveResponse(m) \/ Lose(m) \/ Double(m)
  PROVE  ServerTyped'
<1>1. ASSUME NEW c \in Client, NEW op \in AnyOp, NEW k \in Key, SendRequest(c, op, k)
      PROVE  ServerTyped'
  <2>1. /\ Request(op, k, c) \in Requests /\ Request(op, k, c).op = op
        /\ Request(op, k, c).type = Kind(op)
    BY DEF Request, Requests, Kind
  <2>2. net' = net \cup {Request(op, k, c)}
    BY <1>1 DEF SendRequest
  <2>3. NetTyped'
    BY <1>1, <2>1, <2>2 DEF SendRequest, serverVars, ServerTyped, NetTyped
  <2>4. ManagerTyped'
    BY <1>1 DEF SendRequest, managerVars, ServerTyped, ManagerTyped, IsQueue
  <2>5. DataTyped'
    BY <1>1 DEF SendRequest, serverVars, readVars, ServerTyped, DataTyped
  <2>6. QED BY <2>3, <2>4, <2>5 DEF ServerTyped
<1>2. ASSUME NEW m \in net, ReceiveResponse(m) PROVE ServerTyped'
  <2>1. m \in Responses /\ m.op \in AnyOp
    BY <1>2, Kinds DEF ReceiveResponse, ServerTyped
  <2>2. Ack(m.op, m.to) \in Acks /\ Ack(m.op, m.to).type = "ack"
    BY <2>1 DEF Ack, Acks, Responses
  <2>3. NetTyped'
    BY <1>2, <2>2 DEF ReceiveResponse, serverVars, ServerTyped, NetTyped
  <2>4. ManagerTyped'
    BY <1>2 DEF ReceiveResponse, managerVars, ServerTyped, ManagerTyped, IsQueue
  <2>5. Answer(m.result, m.data, m.expire) \in
          [result : {"nothing", "ok", "retry", "nodata"}, data : OpId \cup {Empty}, expire : 0..Lease]
    BY <2>1 DEF Answer, Responses
  <2>6. DataTyped'
    BY <1>2, <2>1, <2>5 DEF ReceiveResponse, serverVars, readVars, ServerTyped, DataTyped
  <2>7. QED BY <2>3, <2>4, <2>6 DEF ServerTyped
<1>3. ASSUME NEW m \in net, Lose(m) \/ Double(m) PROVE ServerTyped'
  <2>1. m \in Requests \cup Responses \cup Acks
    BY DEF ServerTyped, NetTyped
  <2>2. /\ [m EXCEPT !.copy = 3] \in Requests \cup Responses \cup Acks
        /\ [m EXCEPT !.copy = 3].op = m.op /\ [m EXCEPT !.copy = 3].type = m.type
    BY <2>1, DoubledTyped
  <2>3. NetTyped'
    BY <1>3, <2>1, <2>2 DEF Lose, Double, serverVars, ServerTyped, NetTyped
  <2>4. ManagerTyped'
    BY <1>3 DEF Lose, Double, managerVars, ServerTyped, ManagerTyped, IsQueue
  <2>5. faults' \in 0..MaxFaults
    BY <1>3, NetworkAssumption DEF Lose, Double, ServerTyped, DataTyped
  <2>6. DataTyped'
    BY <1>3, <2>5 DEF Lose, Double, serverVars, readVars, clientVars, ServerTyped, DataTyped
  <2>7. QED BY <2>3, <2>4, <2>6 DEF ServerTyped
<1>4. QED BY <1>1, <1>2, <1>3

LEMMA NextTyped == ServerTyped /\ [Next]_vars => ServerTyped'
<1> SUFFICES ASSUME ServerTyped, [Next]_vars PROVE ServerTyped'
  OBVIOUS
<1>1. CASE UNCHANGED vars
  <2>1. ManagerTyped'
    BY <1>1 DEF vars, managerVars, ServerTyped, ManagerTyped, IsQueue
  <2>2. NetTyped' /\ DataTyped'
    BY <1>1 DEF vars, serverVars, readVars, clientVars, ServerTyped, NetTyped, DataTyped
  <2>3. QED BY <2>1, <2>2 DEF ServerTyped
<1>2. CASE Serve
  BY <1>2, ServeReadTyped, ServeUpdateTyped, ServeAckTyped DEF Serve
<1>3. QED BY <1>1, <1>2, ClientTyped, TickTyped, ElapseTyped DEF Next

LEMMA ServerInvariant == Spec => []ServerTyped
BY InitTyped, NextTyped, PTL DEF Spec

(* Every reachable state of the server, the clients and the network is of the stated types; no
   response grants a deadline further away than a lease. *)
THEOREM ServerTypeCorrect == Spec => []TypeOK
BY ServerInvariant, TypedIsOK, PTL

------------------------------------------------------------------------------
(* The fate of an operation: it is asked for, perhaps waits, and is answered.  Each step of the
   server must find it in one place only. *)

(* What the clients are told, or may still be told, of a request. *)
Given(op) ==
  {r \in {"ok", "retry", "nodata"} :
     \/ \E m \in net : m.type = "response" /\ m.op = op /\ m.result = r
     \/ op \in DOMAIN wait_acks /\ wait_acks[op].message.result = r
     \/ told[op].result = r}

(* The requests under way, and the operations whose request is not delivered twice. *)
Sent == {m \in net : m.type \in {"read", "update"}}
Once == {op \in AnyOp : Kind(op) \notin Doubled}

(* The server has not seen an operation yet. *)
Fresh(op) ==
  /\ Given(op) = {}
  /\ op \in OpId =>
       /\ applied[op] = 0 /\ op \notin defer_messages
       /\ \A k \in Key : temp_value[k] # op /\ op_id[k] # op

AskedOnce ==
  \A op \in Once : requests[op] = NoRequest => Fresh(op) /\ \A m \in Sent : m.op # op

SentFresh ==
  \A m \in Sent : m.op \in Once => Fresh(m.op) /\ \A n \in Sent : n.op = m.op => n = m

WaitingUnmade ==
  \A k \in Key : temp_value[k] \in OpId \cap Once =>
    /\ applied[temp_value[k]] = 0 /\ Given(temp_value[k]) = {}
    /\ \A l \in Key : temp_value[l] = temp_value[k] => l = k

DeferredUnanswered == \A op \in defer_messages \cap Once : Given(op) = {}

RememberedWaits ==
  \A k \in Key : op_id[k] \in defer_messages \cap Once => temp_value[k] = op_id[k]

GivenTrue ==
  \A op \in OpId \cap Once :
    /\ "ok" \in Given(op) => applied[op] > 0
    /\ "retry" \in Given(op) => applied[op] = 0

ToldSomething == \A op \in AnyOp : told[op].result = "nothing" => told[op] = Unanswered

FateInv ==
  /\ AskedOnce /\ SentFresh /\ WaitingUnmade /\ DeferredUnanswered /\ RememberedWaits
  /\ GivenTrue /\ ToldSomething

(* A step that takes no request from the network, or one. *)
NothingSent == \A n \in Sent' : n.op \in Once => n \in Sent
Taken(m) == \A n \in Sent' : n.op \in Once => n \in Sent \ {m}

(* A step that gives no answer, or one. *)
NothingGiven == \A op \in AnyOp : Given(op)' \subseteq Given(op)
GivenOnly(o, r) ==
  \A op \in AnyOp : Given(op)' \subseteq Given(op) \cup (IF op = o THEN {r} ELSE {})

LEMMA Ops == /\ OpId \subseteq AnyOp /\ ReadId \notin OpId /\ Empty \notin OpId
             /\ \A op \in OpId : op \in Once <=> "update" \notin Doubled
             /\ \A op \in AnyOp \ OpId : op \in Once <=> "read" \notin Doubled
BY ReadIdAssumption, OperationAssumption DEF AnyOp, Once, Kind

LEMMA SentOps == ServerTyped => \A m \in Sent : m.op \in AnyOp
BY DEF ServerTyped, NetTyped, Sent, Requests, Responses, Acks

(* Steps that neither take a request nor give an answer. *)
LEMMA QuietStep ==
  ASSUME ServerTyped, FateInv, NothingSent, NothingGiven, ToldSomething',
         UNCHANGED <<requests, applied, temp_value, defer_messages>>,
         \A k \in Key : op_id'[k] \in {op_id[k], ReadId}
  PROVE  FateInv'
<1>1. \A op \in Once : Fresh(op) => Fresh(op)'
  BY Ops DEF Fresh, NothingGiven, Once
<1>2. AskedOnce'
  BY <1>1 DEF FateInv, AskedOnce, NothingSent
<1>3. SentFresh'
  BY <1>1 DEF FateInv, SentFresh, NothingSent
<1>4. WaitingUnmade'
  BY Ops DEF FateInv, WaitingUnmade, NothingGiven
<1>5. DeferredUnanswered'
  BY DEF FateInv, DeferredUnanswered, NothingGiven, Once
<1>6. RememberedWaits'
  BY Ops DEF FateInv, RememberedWaits, ServerTyped, DataTyped
<1>7. GivenTrue'
  BY Ops DEF FateInv, GivenTrue, NothingGiven
<1>8. QED BY <1>2, <1>3, <1>4, <1>5, <1>6, <1>7 DEF FateInv

(* A read that is answered. *)
LEMMA ReadStep ==
  ASSUME ServerTyped, FateInv, NEW m \in Sent, m.op \notin OpId, Taken(m),
         NEW r, GivenOnly(m.op, r), ToldSomething',
         UNCHANGED <<requests, applied, temp_value, defer_messages>>,
         \A k \in Key : op_id'[k] \in {op_id[k], ReadId}
  PROVE  FateInv'
<1>1. \A op \in Once : op # m.op /\ Fresh(op) => Fresh(op)'
  BY Ops DEF Fresh, GivenOnly, Once
<1>2. AskedOnce'
  BY <1>1 DEF FateInv, AskedOnce, Taken
<1>3. SentFresh'
  BY <1>1 DEF FateInv, SentFresh, Taken
<1>4. \A op \in OpId : Given(op)' \subseteq Given(op)
  BY Ops DEF GivenOnly
<1>5. WaitingUnmade'
  BY <1>4 DEF FateInv, WaitingUnmade
<1>6. DeferredUnanswered'
  BY <1>4 DEF FateInv, DeferredUnanswered, ServerTyped, DataTyped
<1>7. RememberedWaits'
  BY Ops DEF FateInv, RememberedWaits, ServerTyped, DataTyped
<1>8. GivenTrue'
  BY <1>4 DEF FateInv, GivenTrue
<1>9. QED BY <1>2, <1>3, <1>5, <1>6, <1>7, <1>8 DEF FateInv

(* An update that is taken from the network and answered, made or not; or that ends in an
   exception. *)
LEMMA AnsweredStep ==
  ASSUME ServerTyped, FateInv, NEW m \in Sent, m.op \in OpId, Taken(m),
         UNCHANGED <<requests, temp_value, defer_messages>>, ToldSomething',
         \A k \in Key : op_id'[k] \in {op_id[k], m.op},
         \A k \in Key : op_id'[k] \in defer_messages => op_id'[k] = op_id[k] \/ m.op \notin Once,
         \A op \in OpId : op # m.op => applied'[op] = applied[op],
         \/ GivenOnly(m.op, "ok") /\ applied'[m.op] = applied[m.op] + 1
         \/ GivenOnly(m.op, "retry") /\ applied'[m.op] = applied[m.op]
         \/ NothingGiven /\ applied'[m.op] = applied[m.op]
  PROVE  FateInv'
<1>1. \A op \in AnyOp : op # m.op => Given(op)' \subseteq Given(op)
  BY DEF GivenOnly, NothingGiven
<1>2. \A op \in Once : op # m.op /\ Fresh(op) => Fresh(op)'
  BY <1>1 DEF Fresh, Once
<1>3. AskedOnce'
  BY <1>2 DEF FateInv, AskedOnce, Taken
<1>4. SentFresh'
  BY <1>2 DEF FateInv, SentFresh, Taken
<1>5. m.op \in Once => Fresh(m.op)
  BY DEF FateInv, SentFresh
<1>6. WaitingUnmade'
  BY <1>1, <1>5, Ops DEF FateInv, WaitingUnmade, Fresh
<1>7. DeferredUnanswered'
  BY <1>1, <1>5, Ops DEF FateInv, DeferredUnanswered, Fresh, ServerTyped, DataTyped
<1>8. RememberedWaits'
  BY <1>5 DEF FateInv, RememberedWaits, Fresh
<1>9. GivenTrue'
  <2> SUFFICES ASSUME NEW op \in OpId \cap Once
               PROVE  /\ "ok" \in Given(op)' => applied'[op] > 0
                      /\ "retry" \in Given(op)' => applied'[op] = 0
    BY DEF GivenTrue
  <2>1. CASE op # m.op
    BY <1>1, <2>1, Ops DEF FateInv, GivenTrue
  <2>2. CASE op = m.op
    BY <1>5, <2>2, Ops DEF Fresh, GivenOnly, NothingGiven
  <2>3. QED BY <2>1, <2>2
<1>10. QED BY <1>3, <1>4, <1>6, <1>7, <1>8, <1>9 DEF FateInv

(* An update that is deferred. *)
LEMMA DeferStep ==
  ASSUME ServerTyped, FateInv, NEW m \in Sent, m.op \in OpId, Taken(m), NEW k \in Key,
         UNCHANGED <<requests, applied>>, ToldSomething', NothingGiven,
         temp_value' = [temp_value EXCEPT ![k] = m.op],
         op_id' = [op_id EXCEPT ![k] = m.op],
         defer_messages' = defer_messages \cup {m.op}
  PROVE  FateInv'
<1>0. /\ temp_value'[k] = m.op /\ op_id'[k] = m.op
      /\ \A l \in Key \ {k} : temp_value'[l] = temp_value[l] /\ op_id'[l] = op_id[l]
  BY DEF ServerTyped, DataTyped, ManagerTyped
<1>1. \A op \in Once : op # m.op /\ Fresh(op) => Fresh(op)'
  BY <1>0 DEF Fresh, Once, NothingGiven
<1>2. AskedOnce'
  BY <1>1 DEF FateInv, AskedOnce, Taken
<1>3. SentFresh'
  BY <1>1 DEF FateInv, SentFresh, Taken
<1>4. m.op \in Once => Fresh(m.op)
  BY DEF FateInv, SentFresh
<1>5. WaitingUnmade'
  <2> SUFFICES ASSUME NEW j \in Key, temp_value'[j] \in OpId \cap Once
               PROVE  /\ applied'[temp_value'[j]] = 0 /\ Given(temp_value[j])' = {}
                      /\ \A l \in Key : temp_value'[l] = temp_value'[j] => l = j
    BY DEF WaitingUnmade
  <2>1. CASE j = k
    BY <1>0, <1>4, <2>1, Ops DEF Fresh, NothingGiven
  <2>2. CASE j # k
    <3>1. temp_value'[j] = temp_value[j] /\ temp_value[j] # m.op
      BY <1>0, <1>4, <2>2 DEF Fresh
    <3>2. QED BY <1>0, <3>1, Ops DEF FateInv, WaitingUnmade, NothingGiven
  <2>3. QED BY <2>1, <2>2
<1>6. DeferredUnanswered'
  BY <1>4, Ops DEF FateInv, DeferredUnanswered, Fresh, NothingGiven, ServerTyped, DataTyped
<1>7. RememberedWaits'
  BY <1>0, <1>4 DEF FateInv, RememberedWaits, Fresh
<1>8. GivenTrue'
  BY Ops DEF FateInv, GivenTrue, NothingGiven
<1>9. QED BY <1>2, <1>3, <1>5, <1>6, <1>7, <1>8 DEF FateInv

(* The callback of a deferred update: what waits is stored, and the update answered if its request
   was kept. *)
LEMMA CallbackStep ==
  ASSUME ServerTyped, FateInv, NothingSent, NEW k \in Key, Store(k, temp_value[k]),
         temp_value' = [temp_value EXCEPT ![k] = Empty],
         UNCHANGED <<requests, op_id>>, ToldSomething',
         \/ /\ op_id[k] \in defer_messages
            /\ defer_messages' = defer_messages \ {op_id[k]}
            /\ GivenOnly(op_id[k], "ok")
         \/ /\ op_id[k] \notin defer_messages
            /\ defer_messages' = defer_messages
            /\ NothingGiven
  PROVE  FateInv'
<1>0. /\ temp_value'[k] = Empty /\ \A l \in Key \ {k} : temp_value'[l] = temp_value[l]
      /\ defer_messages \subseteq OpId
      /\ \A op \in OpId : applied[op] \in Nat
      /\ \A op \in OpId : applied'[op] = IF op = temp_value[k] THEN applied[op] + 1 ELSE applied[op]
  BY DEF ServerTyped, DataTyped, Store
<1>1. \A op \in AnyOp : op \notin defer_messages => Given(op)' \subseteq Given(op)
  BY DEF GivenOnly, NothingGiven
<1>2. \A op \in Once : Fresh(op) => Fresh(op)'
  BY <1>0, <1>1, Ops DEF Fresh, Once, GivenOnly, NothingGiven
<1>3. AskedOnce'
  BY <1>2 DEF FateInv, AskedOnce, NothingSent
<1>4. SentFresh'
  BY <1>2 DEF FateInv, SentFresh, NothingSent
<1>5. op_id[k] \in defer_messages \cap Once => op_id[k] = temp_value[k]
  BY DEF FateInv, RememberedWaits
<1>6. \A op \in OpId \cap Once : op # temp_value[k] => Given(op)' \subseteq Given(op)
  BY <1>5, Ops DEF GivenOnly, NothingGiven
<1>7. WaitingUnmade'
  <2> SUFFICES ASSUME NEW j \in Key, temp_value'[j] \in OpId \cap Once
               PROVE  /\ applied'[temp_value'[j]] = 0 /\ Given(temp_value[j])' = {}
                      /\ \A l \in Key : temp_value'[l] = temp_value'[j] => l = j
    BY DEF WaitingUnmade
  <2>1. j # k /\ temp_value'[j] = temp_value[j] /\ temp_value[j] # temp_value[k]
    BY <1>0, Ops DEF FateInv, WaitingUnmade
  <2>2. QED BY <1>0, <1>6, <2>1, Ops DEF FateInv, WaitingUnmade
<1>8. DeferredUnanswered'
  BY <1>0, <1>1, Ops DEF FateInv, DeferredUnanswered, GivenOnly, NothingGiven
<1>9. RememberedWaits'
  BY <1>0 DEF FateInv, RememberedWaits
<1>10. GivenTrue'
  <2> SUFFICES ASSUME NEW op \in OpId \cap Once
               PROVE  /\ "ok" \in Given(op)' => applied'[op] > 0
                      /\ "retry" \in Given(op)' => applied'[op] = 0
    BY DEF GivenTrue
  <2>1. CASE op # temp_value[k]
    BY <1>0, <1>6, <2>1 DEF FateInv, GivenTrue
  <2>2. CASE op = temp_value[k]
    <3>1. applied'[op] > 0 /\ Given(op) = {}
      BY <1>0, <2>2 DEF FateInv, WaitingUnmade
    <3>2. Given(op)' \subseteq {"ok"}
      BY <3>1, Ops DEF GivenOnly, NothingGiven
    <3>3. QED BY <3>1, <3>2
  <2>3. QED BY <2>1, <2>2
<1>11. QED BY <1>3, <1>4, <1>7, <1>8, <1>9, <1>10 DEF FateInv

(* A request that is sent. *)
LEMMA SendStep ==
  ASSUME ServerTyped, FateInv, NEW o \in AnyOp, requests[o] = NoRequest,
         requests' \in [AnyOp -> [client : Client, key : Key] \cup {NoRequest}],
         requests'[o] # NoRequest, \A op \in AnyOp : op # o => requests'[op] = requests[op],
         NEW d, d.op = o, \A n \in Sent' : n \in Sent \cup {d},
         NothingGiven, ToldSomething',
         UNCHANGED <<applied, temp_value, defer_messages, op_id>>
  PROVE  FateInv'
<1>1. \A op \in Once : Fresh(op) => Fresh(op)'
  BY DEF Fresh, Once, NothingGiven
<1>2. AskedOnce'
  BY <1>1 DEF FateInv, AskedOnce, Once
<1>3. o \in Once => Fresh(o) /\ \A n \in Sent : n.op # o
  BY DEF FateInv, AskedOnce
<1>4. SentFresh'
  BY <1>1, <1>3 DEF FateInv, SentFresh
<1>5. WaitingUnmade' /\ DeferredUnanswered' /\ RememberedWaits' /\ GivenTrue'
  BY Ops DEF FateInv, WaitingUnmade, DeferredUnanswered, RememberedWaits, GivenTrue, NothingGiven,
             ServerTyped, DataTyped
<1>6. QED BY <1>2, <1>4, <1>5 DEF FateInv

------------------------------------------------------------------------------
(* Which of these steps each action takes. *)

LEMMA RespondGives ==
  ASSUME ServerTyped, NEW message \in Responses, NEW rest, rest \subseteq net,
         Respond(message, rest), UNCHANGED told
  PROVE  /\ GivenOnly(message.op, message.result)
         /\ Sent' = Sent \cap rest
<1>0. message.type = "response"
  BY DEF Responses
<1>1. CASE message.op \in DOMAIN wait_acks
  BY <1>1 DEF Respond, GivenOnly, Given, Sent
<1>2. CASE message.op \notin DOMAIN wait_acks
  <2>1. /\ net' = rest \cup {message}
        /\ DOMAIN wait_acks' = DOMAIN wait_acks \cup {message.op}
        /\ wait_acks'[message.op].message = message
        /\ \A op \in DOMAIN wait_acks : wait_acks'[op] = wait_acks[op]
    BY <1>2 DEF Respond, AddTimer
  <2>2. Sent' = Sent \cap rest
    BY <1>0, <2>1 DEF Sent
  <2>3. GivenOnly(message.op, message.result)
    BY <2>1 DEF GivenOnly, Given
  <2>4. QED BY <2>2, <2>3
<1>3. QED BY <1>1, <1>2

LEMMA NetGivesNothing ==
  ASSUME net' \subseteq net, UNCHANGED told, DOMAIN wait_acks' \subseteq DOMAIN wait_acks,
         \A op \in DOMAIN wait_acks' : wait_acks'[op].message = wait_acks[op].message
  PROVE  NothingGiven /\ NothingSent
BY DEF NothingGiven, Given, NothingSent, Sent

(* A read gets an answer of some kind. *)
LEMMA ServeReadGives ==
  ASSUME ServerTyped, NEW m \in net, ServeRead(m)
  PROVE  /\ m \in Sent /\ m.op \in AnyOp /\ m.op \notin OpId /\ Taken(m)
         /\ \E r : GivenOnly(m.op, r)
<1>1. m \in Sent /\ m.op \notin OpId /\ m.op \in AnyOp
  BY Kinds DEF ServeRead, Sent, ServerTyped
<1>2. PICK message \in Responses :
        message.op = m.op /\ Respond(message, net \ {m})
  <2>1. m.key \in Key /\ m.from \in Client
    BY Kinds DEF ServeRead, ServerTyped, Requests
  <2>2. CASE Respond(Response(m.op, m.key, "ok", value[m.key], timestamp', m.from), net \ {m})
    <3>1. timestamp' \in 0..Lease /\ value[m.key] \in OpId \cup {Empty}
      BY <2>1, ServeReadTyped DEF ServerTyped, DataTyped
    <3>2. /\ Response(m.op, m.key, "ok", value[m.key], timestamp', m.from) \in Responses
          /\ Response(m.op, m.key, "ok", value[m.key], timestamp', m.from).op = m.op
      BY <1>1, <2>1, <3>1 DEF Response, Responses
    <3>3. QED BY <2>2, <3>2
  <2>3. CASE Respond(Response(m.op, m.key, "nodata", cache_data, timestamp, m.from), net \ {m})
    <3>1. cache_data \in OpId \cup {Empty} /\ timestamp \in 0..Lease
      BY DEF ServerTyped, DataTyped
    <3>2. /\ Response(m.op, m.key, "nodata", cache_data, timestamp, m.from) \in Responses
          /\ Response(m.op, m.key, "nodata", cache_data, timestamp, m.from).op = m.op
      BY <1>1, <2>1, <3>1, ResponseTyped
    <3>3. QED BY <2>3, <3>2
  <2>4. QED BY <2>2, <2>3 DEF ServeRead
<1>3. UNCHANGED told
  BY DEF ServeRead, clientVars
<1>4. GivenOnly(m.op, message.result) /\ Taken(m)
  BY <1>2, <1>3, RespondGives DEF Taken
<1>5. QED BY <1>1, <1>4

LEMMA ServeReadFate ==
  ASSUME ServerTyped, FateInv, NEW m \in net, ServeRead(m)
  PROVE  FateInv'
<1>1. /\ m \in Sent /\ m.op \in AnyOp /\ m.op \notin OpId /\ Taken(m)
      /\ \E r : GivenOnly(m.op, r)
  BY ServeReadGives
<1>2. UNCHANGED <<told, requests, applied, temp_value, defer_messages>>
  BY DEF ServeRead, clientVars
<1>3. \A k \in Key : op_id'[k] \in {op_id[k], ReadId}
  BY DEF ServeRead, ManagerRead, managerVars, ServerTyped, ManagerTyped
<1>4. ToldSomething'
  BY <1>2 DEF FateInv, ToldSomething
<1>5. QED BY <1>1, <1>2, <1>3, <1>4, ReadStep

(* An update is answered "ok" when it is made, "retry", or not at all. *)
LEMMA ServeUpdateGives ==
  ASSUME ServerTyped, NEW m \in net, ServeUpdate(m)
  PROVE  /\ m \in Sent /\ m.op \in OpId /\ m.op \in AnyOp /\ Taken(m)
         /\ AcceptUpdate(m) => GivenOnly(m.op, "ok")
         /\ RetryUpdate(m) => GivenOnly(m.op, "retry")
         /\ DeferUpdate(m) \/ ThrowUpdate(m) => NothingGiven
<1>1. m \in Sent /\ m.op \in OpId /\ m.op \in AnyOp /\ m.key \in Key /\ m.from \in Client
  BY Kinds, Ops DEF ServeUpdate, Sent, ServerTyped, Requests
<1>2. UNCHANGED told
  BY DEF ServeUpdate, clientVars
<1>3. ASSUME NEW result \in {"ok", "retry"}, NEW expire \in 0..Lease,
             Respond(Response(m.op, m.key, result, m.op, expire, m.from), net \ {m})
      PROVE  GivenOnly(m.op, result) /\ Taken(m)
  BY <1>1, <1>2, <1>3, ResponseTyped, RespondGives DEF Taken
<1>4. AcceptUpdate(m) => GivenOnly(m.op, "ok") /\ Taken(m)
  BY <1>3, LeaseAssumption DEF AcceptUpdate
<1>5. Remaining(m.key) \in 0..Lease
  BY <1>1, LeaseAssumption DEF Remaining, ServerTyped, ManagerTyped
<1>6. RetryUpdate(m) => GivenOnly(m.op, "retry") /\ Taken(m)
  BY <1>3, <1>5 DEF RetryUpdate
<1>7. DeferUpdate(m) \/ ThrowUpdate(m) => NothingGiven /\ Taken(m)
  BY <1>2, NetGivesNothing DEF DeferUpdate, ThrowUpdate, Taken, Sent
<1>8. QED BY <1>1, <1>4, <1>6, <1>7 DEF ServeUpdate

LEMMA ServeUpdateFate ==
  ASSUME ServerTyped, FateInv, NEW m \in net, ServeUpdate(m)
  PROVE  FateInv'
<1>1. /\ m \in Sent /\ m.op \in OpId /\ m.op \in AnyOp /\ m.key \in Key /\ Taken(m)
  BY ServeUpdateGives, Kinds DEF ServeUpdate, ServerTyped, Requests
<1>2. UNCHANGED <<told, requests>>
  BY DEF ServeUpdate, clientVars
<1>3. ToldSomething'
  BY <1>2 DEF FateInv, ToldSomething
<1>5. \A op \in OpId : applied[op] \in Nat
  BY DEF ServerTyped, DataTyped
<1>6. m.op \in Once => m.op \notin defer_messages
  BY <1>1 DEF FateInv, SentFresh, Fresh
<1>7. CASE AcceptUpdate(m)
  <2>1. GivenOnly(m.op, "ok")
    BY <1>7, ServeUpdateGives
  <2>2. \A op \in OpId : applied'[op] = IF op = m.op THEN applied[op] + 1 ELSE applied[op]
    BY <1>7 DEF AcceptUpdate, Store
  <2>3. UNCHANGED <<op_id, temp_value, defer_messages>>
    BY <1>7 DEF AcceptUpdate, ManagerUpdateOk
  <2>4. QED BY <1>1, <1>2, <1>3, <1>5, <2>1, <2>2, <2>3, AnsweredStep
<1>8. CASE RetryUpdate(m)
  <2>1. GivenOnly(m.op, "retry")
    BY <1>8, ServeUpdateGives
  <2>2. UNCHANGED <<op_id, temp_value, defer_messages, applied>>
    BY <1>8 DEF RetryUpdate, managerVars
  <2>3. QED BY <1>1, <1>2, <1>3, <2>1, <2>2, AnsweredStep
<1>9. CASE DeferUpdate(m)
  <2>1. NothingGiven
    BY <1>9, ServeUpdateGives
  <2>2. /\ UNCHANGED <<applied>>
        /\ temp_value' = [temp_value EXCEPT ![m.key] = m.op]
        /\ op_id' = [op_id EXCEPT ![m.key] = m.op]
        /\ defer_messages' = defer_messages \cup {m.op}
    BY <1>9 DEF DeferUpdate, ManagerUpdateDefer
  <2>3. QED BY <1>1, <1>2, <1>3, <2>1, <2>2, DeferStep
<1>10. CASE ThrowUpdate(m)
  <2>1. NothingGiven
    BY <1>10, ServeUpdateGives
  <2>2. UNCHANGED <<applied, temp_value, defer_messages>> /\ op_id' = [op_id EXCEPT ![m.key] = m.op]
    BY <1>10 DEF ThrowUpdate, ManagerUpdateExpired
  <2>3. /\ \A k \in Key : op_id'[k] \in {op_id[k], m.op}
        /\ \A k \in Key : op_id'[k] \in defer_messages => op_id'[k] = op_id[k] \/ m.op \notin Once
    BY <1>6, <2>2 DEF ServerTyped, ManagerTyped
  <2>4. QED BY <1>1, <1>2, <1>3, <2>1, <2>2, <2>3, AnsweredStep
<1>11. QED BY <1>7, <1>8, <1>9, <1>10 DEF ServeUpdate

LEMMA TickUpdateGives ==
  ASSUME ServerTyped, NEW k \in Key, op_id[k] \in defer_messages, UNCHANGED told,
         Respond(Response(op_id[k], k, "ok", op_id[k], Lease, peer), net)
  PROVE  op_id[k] \in OpId /\ GivenOnly(op_id[k], "ok") /\ NothingSent
<1>1. op_id[k] \in OpId /\ op_id[k] \in AnyOp /\ peer \in Client /\ Lease \in 0..Lease
  BY Ops, LeaseAssumption DEF ServerTyped, DataTyped
<1>2. QED BY <1>1, ResponseTyped, RespondGives DEF NothingSent

(* A resent response says what the first one said. *)
LEMMA ResendGives ==
  ASSUME ServerTyped, NEW op \in DOMAIN wait_acks, TickResend(op)
  PROVE  NothingGiven /\ NothingSent
<1> DEFINE again == [wait_acks[op].message EXCEPT !.copy = 2, !.to = peer]
<1>1. /\ op \in AnyOp /\ wait_acks[op].message.op = op
      /\ again \in Responses /\ again.op = op /\ again.result = wait_acks[op].message.result
  BY AgainTyped DEF ServerTyped, NetTyped, DataTyped
<1>2. net' = net \cup {again} /\ wait_acks' = PopTimer(wait_acks, op) /\ told' = told
  BY DEF TickResend, clientVars
<1> HIDE DEF again
<1>3. again.type = "response"
  BY <1>1 DEF Responses
<1>4. NothingSent
  BY <1>2, <1>3 DEF NothingSent, Sent
<1>5. NothingGiven
  <2> SUFFICES ASSUME NEW o \in AnyOp, NEW r \in Given(o)' PROVE r \in Given(o)
    BY DEF NothingGiven
  <2>1. CASE \E n \in net' : n.type = "response" /\ n.op = o /\ n.result = r
    BY <1>1, <1>2, <2>1 DEF Given
  <2>2. CASE o \in DOMAIN wait_acks' /\ wait_acks'[o].message.result = r
    <3>1. o \in DOMAIN wait_acks /\ wait_acks'[o] = wait_acks[o]
      BY <1>2, <2>2, PopAckFacts
    <3>2. QED BY <2>2, <3>1 DEF Given
  <2>3. CASE told'[o].result = r
    BY <1>2, <2>3 DEF Given
  <2>4. QED BY <2>1, <2>2, <2>3 DEF Given
<1>6. QED BY <1>4, <1>5

LEMMA TickFate ==
  ASSUME ServerTyped, FateInv, Tick
  PROVE  FateInv'
<1>0. UNCHANGED <<told, requests>>
  BY DEF Tick, TickDeleted, TickIdle, TickBlocks, TickUpdate, TickThrows, TickResend, TickStray,
         clientVars
<1>1. ToldSomething'
  BY <1>0 DEF FateInv, ToldSomething
<1>2. ASSUME NEW i \in DOMAIN timer_queue, TickDeleted(i) \/ TickIdle(i) \/ TickBlocks(i)
      PROVE  FateInv'
  <2>1. NothingGiven /\ NothingSent
    BY <1>0, <1>2, NetGivesNothing DEF TickDeleted, TickIdle, TickBlocks, serverVars
  <2>2. UNCHANGED <<applied, temp_value, defer_messages, op_id>>
    BY <1>2 DEF TickDeleted, TickIdle, TickBlocks, serverVars, ManagerTickDeleted,
                ManagerTickIdle, ManagerTickBlocks
  <2>3. QED BY <1>0, <1>1, <2>1, <2>2, QuietStep
<1>3. ASSUME NEW i \in DOMAIN timer_queue, TickUpdate(i) \/ TickThrows(i)
      PROVE  FateInv'
  <2> DEFINE k == timer_queue[i].key
  <2>1. k \in Key /\ UNCHANGED op_id
    BY <1>3, ManagerTickTyped DEF TickUpdate, TickThrows, ServerTyped
  <2>2. Store(k, temp_value[k]) /\ temp_value' = [temp_value EXCEPT ![k] = Empty]
    BY <1>3 DEF TickUpdate, TickThrows
  <2>3. CASE TickUpdate(i)
    <3>1. /\ op_id[k] \in defer_messages /\ defer_messages' = defer_messages \ {op_id[k]}
          /\ Respond(Response(op_id[k], k, "ok", op_id[k], Lease, peer), net)
      BY <2>3 DEF TickUpdate
    <3> HIDE DEF k
    <3>2. GivenOnly(op_id[k], "ok") /\ NothingSent
      BY <1>0, <2>1, <3>1, TickUpdateGives
    <3>3. QED BY <1>0, <1>1, <2>1, <2>2, <3>1, <3>2, CallbackStep
  <2>4. CASE TickThrows(i)
    <3>1. op_id[k] \notin defer_messages /\ defer_messages' = defer_messages
      BY <2>4 DEF TickThrows
    <3>2. NothingGiven /\ NothingSent
      BY <1>0, <2>4, NetGivesNothing DEF TickThrows
    <3> HIDE DEF k
    <3>3. QED BY <1>0, <1>1, <2>1, <2>2, <3>1, <3>2, CallbackStep
  <2>5. QED BY <1>3, <2>3, <2>4
<1>4. ASSUME NEW op \in DOMAIN wait_acks, TickResend(op) PROVE FateInv'
  <2>1. NothingGiven /\ NothingSent
    BY <1>4, ResendGives
  <2>2. UNCHANGED <<applied, temp_value, defer_messages, op_id>>
    BY <1>4 DEF TickResend, managerVars
  <2>3. QED BY <1>0, <1>1, <2>1, <2>2, QuietStep
<1>5. ASSUME NEW s \in stray, TickStray(s) PROVE FateInv'
  <2>1. NothingGiven /\ NothingSent
    BY <1>0, <1>5, NetGivesNothing DEF TickStray, serverVars
  <2>2. UNCHANGED <<applied, temp_value, defer_messages, op_id>>
    BY <1>5 DEF TickStray, serverVars, managerVars
  <2>3. QED BY <1>0, <1>1, <2>1, <2>2, QuietStep
<1>6. QED BY <1>2, <1>3, <1>4, <1>5 DEF Tick

LEMMA ServeAckFate ==
  ASSUME ServerTyped, FateInv, NEW m \in net, ServeAck(m)
  PROVE  FateInv'
<1>1. UNCHANGED <<told, requests, applied, temp_value, defer_messages, op_id>>
  BY DEF ServeAck, clientVars, managerVars
<1>2. NothingGiven /\ NothingSent
  BY <1>1, NetGivesNothing, PopAckFacts DEF ServeAck, UnregisterWaitAck
<1>3. ToldSomething'
  BY <1>1 DEF FateInv, ToldSomething
<1>4. QED BY <1>1, <1>2, <1>3, QuietStep

LEMMA ElapseGives ==
  ASSUME ServerTyped, Elapse
  PROVE  NothingGiven /\ NothingSent
<1>1. /\ net' = {Aged(m) : m \in net}
      /\ DOMAIN wait_acks' = DOMAIN wait_acks
      /\ \A op \in DOMAIN wait_acks : wait_acks'[op].message = Aged(wait_acks[op].message)
      /\ told' = [op \in AnyOp |-> [told[op] EXCEPT !.expire = Later(@)]]
  BY DEF Elapse
<1>2. \A op \in AnyOp : told'[op].result = told[op].result
  BY <1>1 DEF ServerTyped, DataTyped
<1>3. NothingGiven
  <2> SUFFICES ASSUME NEW op \in AnyOp, NEW r \in {"ok", "retry", "nodata"}, r \in Given(op)'
               PROVE  r \in Given(op)
    BY DEF NothingGiven, Given
  <2>1. CASE \E m \in net' : m.type = "response" /\ m.op = op /\ m.result = r
    <3>1. PICK m \in net : Aged(m).type = "response" /\ Aged(m).op = op /\ Aged(m).result = r
      BY <1>1, <2>1
    <3>2. m.type = "response" /\ m.op = op /\ m.result = r
      BY <3>1, AgedTyped, Kinds DEF ServerTyped, NetTyped
    <3>3. QED BY <3>2 DEF Given
  <2>2. CASE op \in DOMAIN wait_acks' /\ wait_acks'[op].message.result = r
    BY <1>1, <2>2, AgedTyped DEF Given, ServerTyped, NetTyped
  <2>3. CASE told'[op].result = r
    BY <1>2, <2>3 DEF Given
  <2>4. QED BY <2>1, <2>2, <2>3 DEF Given
<1>4. NothingSent
  <2> SUFFICES ASSUME NEW n \in Sent' PROVE n \in Sent
    BY DEF NothingSent
  <2>1. PICK m \in net : n = Aged(m)
    BY <1>1 DEF Sent
  <2>2. n = m
    BY <2>1, AgedTyped DEF Sent, ServerTyped, NetTyped
  <2>3. QED BY <2>1, <2>2 DEF Sent
<1>5. QED BY <1>3, <1>4

LEMMA ElapseFate ==
  ASSUME ServerTyped, FateInv, Elapse
  PROVE  FateInv'
<1>1. told' = [op \in AnyOp |-> [told[op] EXCEPT !.expire = Later(@)]]
  BY DEF Elapse
<1>2. ToldSomething'
  <2> SUFFICES ASSUME NEW op \in AnyOp, told'[op].result = "nothing" PROVE told'[op] = Unanswered
    BY DEF ToldSomething
  <2>1. told[op] = Unanswered
    BY <1>1 DEF FateInv, ToldSomething, ServerTyped, DataTyped
  <2>2. QED BY <1>1, <2>1 DEF Unanswered, Answer, Later
<1>3. UNCHANGED <<requests, applied, temp_value, defer_messages, op_id>>
  BY DEF Elapse, ManagerElapse
<1>4. QED BY <1>2, <1>3, ElapseGives, QuietStep

(* What is sent, received, lost or doubled says nothing new. *)
LEMMA ClientGives ==
  ASSUME ServerTyped,
         \/ \E c \in Client, op \in AnyOp, k \in Key : SendRequest(c, op, k)
         \/ \E m \in net : ReceiveResponse(m) \/ Lose(m) \/ Double(m)
  PROVE  NothingGiven
<1>1. ASSUME NEW c \in Client, NEW o \in AnyOp, NEW k \in Key, SendRequest(c, o, k)
      PROVE  NothingGiven
  <2>1. UNCHANGED <<told, wait_acks>>
    BY <1>1 DEF SendRequest, serverVars
  <2>2. Request(o, k, c).type # "response" /\ net' = net \cup {Request(o, k, c)}
    BY <1>1 DEF SendRequest, Request, Kind
  <2>3. QED BY <2>1, <2>2 DEF NothingGiven, Given
<1>2. ASSUME NEW m \in net, ReceiveResponse(m) PROVE NothingGiven
  <2>1. m.op \in AnyOp /\ m.type = "response"
    BY <1>2, Kinds DEF ReceiveResponse, ServerTyped
  <2>2. wait_acks' = wait_acks /\ \A n \in net' : n \in net \/ n.type = "ack"
    BY <1>2 DEF ReceiveResponse, serverVars, Ack
  <2>3. \A op \in AnyOp : \/ told'[op] = told[op]
                          \/ op = m.op /\ told'[op] = Answer(m.result, m.data, m.expire)
    BY <1>2 DEF ReceiveResponse, ServerTyped, DataTyped
  <2>4. QED BY <2>1, <2>2, <2>3 DEF NothingGiven, Given, Answer
<1>3. ASSUME NEW m \in net, Lose(m) PROVE NothingGiven
  BY <1>3, NetGivesNothing DEF Lose, serverVars, clientVars
<1>4. ASSUME NEW m \in net, Double(m) PROVE NothingGiven
  <2> DEFINE again == [m EXCEPT !.copy = 3]
  <2>1. /\ again.op = m.op /\ again.type = m.type
        /\ m \in Responses => again.result = m.result
    BY DoubledTyped DEF ServerTyped, NetTyped
  <2>2. net' = net \cup {again} /\ UNCHANGED <<told, wait_acks>>
    BY <1>4 DEF Double, serverVars, clientVars
  <2> HIDE DEF again
  <2>3. QED BY <2>1, <2>2, Kinds DEF NothingGiven, Given, ServerTyped
<1>5. QED BY <1>1, <1>2, <1>3, <1>4

LEMMA ClientFate ==
  ASSUME ServerTyped, FateInv,
         \/ \E c \in Client, op \in AnyOp, k \in Key : SendRequest(c, op, k)
         \/ \E m \in net : ReceiveResponse(m) \/ Lose(m) \/ Double(m)
  PROVE  FateInv'
<1>1. ASSUME NEW c \in Client, NEW o \in AnyOp, NEW k \in Key, SendRequest(c, o, k)
      PROVE  FateInv'
  <2>1. UNCHANGED <<told, applied, temp_value, defer_messages, op_id>>
    BY <1>1 DEF SendRequest, serverVars, managerVars
  <2>2. Request(o, k, c).op = o /\ net' = net \cup {Request(o, k, c)}
    BY <1>1 DEF SendRequest, Request
  <2>3. NothingGiven
    BY <1>1, ClientGives
  <2>4. \A n \in Sent' : n \in Sent \cup {Request(o, k, c)}
    BY <2>2 DEF Sent
  <2>5. /\ requests[o] = NoRequest /\ requests'[o] # NoRequest
        /\ \A op \in AnyOp : op # o => requests'[op] = requests[op]
        /\ requests' \in [AnyOp -> [client : Client, key : Key] \cup {NoRequest}]
    <3>1. [client |-> c, key |-> k] \in [client : Client, key : Key]
      OBVIOUS
    <3>2. QED BY <1>1, <3>1, NoRequestAssumption DEF SendRequest, ServerTyped, DataTyped
  <2>6. ToldSomething'
    BY <2>1 DEF FateInv, ToldSomething
  <2>7. QED BY <2>1, <2>2, <2>3, <2>4, <2>5, <2>6, SendStep
<1>2. ASSUME NEW m \in net, ReceiveResponse(m) PROVE FateInv'
  <2>1. m \in Responses /\ m.op \in AnyOp /\ m.type = "response" /\ m.result \in {"ok", "retry", "nodata"}
    BY <1>2, Kinds DEF ReceiveResponse, ServerTyped, Responses
  <2>2. /\ UNCHANGED <<requests, applied, temp_value, defer_messages, op_id>>
        /\ \A n \in net' : n \in net \/ n.type = "ack"
    BY <1>2 DEF ReceiveResponse, serverVars, managerVars, Ack
  <2>3. \A op \in AnyOp : \/ told'[op] = told[op]
                          \/ op = m.op /\ told'[op] = Answer(m.result, m.data, m.expire)
    BY <1>2 DEF ReceiveResponse, ServerTyped, DataTyped
  <2>4. NothingGiven
    BY <1>2, ClientGives
  <2>5. NothingSent
    BY <2>2 DEF NothingSent, Sent
  <2>6. ToldSomething'
    BY <2>1, <2>3 DEF FateInv, ToldSomething, Answer
  <2>7. QED BY <2>2, <2>4, <2>5, <2>6, QuietStep
<1>3. ASSUME NEW m \in net, Lose(m) \/ Double(m) PROVE FateInv'
  <2>1. UNCHANGED <<told, wait_acks, requests, applied, temp_value, defer_messages, op_id>>
    BY <1>3 DEF Lose, Double, serverVars, managerVars, clientVars
  <2>2. ToldSomething'
    BY <2>1 DEF FateInv, ToldSomething
  <2>0. NothingGiven
    BY <1>3, ClientGives
  <2>3. CASE Lose(m)
    BY <2>0, <2>1, <2>2, <2>3, QuietStep DEF Lose, NothingSent, Sent
  <2>4. CASE Double(m)
    <3> DEFINE again == [m EXCEPT !.copy = 3]
    <3>1. again.op = m.op /\ again.type = m.type
      BY DoubledTyped DEF ServerTyped, NetTyped
    <3>2. net' = net \cup {again} /\ m.type \in Doubled
      BY <2>4 DEF Double
    <3> HIDE DEF again
    <3>3. NothingSent
      <4>1. again \in Sent' => m.type = Kind(m.op)
        BY <3>1 DEF Sent, ServerTyped, NetTyped
      <4>2. QED BY <3>1, <3>2, <4>1 DEF NothingSent, Sent, Once
    <3>4. QED BY <2>0, <2>1, <2>2, <3>3, QuietStep
  <2>5. QED BY <1>3, <2>3, <2>4
<1>4. QED BY <1>1, <1>2, <1>3

LEMMA InitFate == Init => FateInv
<1> SUFFICES ASSUME Init PROVE FateInv
  OBVIOUS
<1>1. \A op \in AnyOp : told[op] = Unanswered /\ told[op].result = "nothing"
  BY DEF Init, Unanswered, Answer
<1>2. \A op \in AnyOp : Given(op) = {}
  BY <1>1 DEF Init, Given
<1>3. Sent = {}
  BY DEF Init, Sent
<1>4. \A op \in AnyOp : Fresh(op)
  BY <1>2, Ops DEF Init, ManagerInit, Fresh
<1>5. WaitingUnmade
  BY Ops DEF Init, WaitingUnmade
<1>6. QED BY <1>1, <1>2, <1>3, <1>4, <1>5, Ops
     DEF Init, FateInv, AskedOnce, SentFresh, DeferredUnanswered, RememberedWaits, GivenTrue,
         ToldSomething, Once

LEMMA NextFate == ServerTyped /\ FateInv /\ [Next]_vars => FateInv'
<1> SUFFICES ASSUME ServerTyped, FateInv, [Next]_vars PROVE FateInv'
  OBVIOUS
<1>1. CASE UNCHANGED vars
  <2>1. UNCHANGED <<net, told, wait_acks, requests, applied, temp_value, defer_messages, op_id>>
    BY <1>1 DEF vars, serverVars, managerVars, clientVars
  <2>2. ToldSomething' /\ NothingGiven /\ NothingSent
    BY <2>1, NetGivesNothing DEF FateInv, ToldSomething
  <2>3. QED BY <2>1, <2>2, QuietStep
<1>2. CASE Serve
  BY <1>2, ServeReadFate, ServeUpdateFate, ServeAckFate DEF Serve
<1>3. QED BY <1>1, <1>2, ClientFate, TickFate, ElapseFate DEF Next

LEMMA FateInvariant == Spec => [](ServerTyped /\ FateInv)
BY InitTyped, NextTyped, InitFate, NextFate, PTL DEF Spec

------------------------------------------------------------------------------
(* What the clients may rely on. *)

LEMMA ToldGiven ==
  ASSUME ServerTyped, FateInv, NEW op \in OpId
  PROVE  /\ told[op].result \in {"ok", "retry", "nodata"} => told[op].result \in Given(op)
         /\ Given(op) = {} => ~IsTold(op)
<1>1. told[op].result \in {"nothing", "ok", "retry", "nodata"}
  BY Ops DEF ServerTyped, DataTyped
<1>2. told[op].result \in {"ok", "retry", "nodata"} => told[op].result \in Given(op)
  BY DEF Given
<1>3. told[op].result = "nothing" => ~IsTold(op)
  BY Ops DEF FateInv, ToldSomething, IsTold
<1>4. QED BY <1>1, <1>2, <1>3

(* A client that is told "ok" has its update made, however late tick() is and whatever callback
   throws, on a network that does not deliver an update twice. *)
THEOREM OkAppliedUnlessDoubled == Spec => []("update" \notin Doubled => OkApplied)
<1>1. ServerTyped /\ FateInv => ("update" \notin Doubled => OkApplied)
  BY ToldGiven, Ops DEF OkApplied, FateInv, GivenTrue
<1>2. QED BY <1>1, FateInvariant, PTL

(* A client that is told "retry" may try again: its update is not made, and no callback will make
   it. *)
THEOREM RetryNotAppliedUnlessDoubled == Spec => []("update" \notin Doubled => RetryNotApplied)
<1>1. ServerTyped /\ FateInv => ("update" \notin Doubled => RetryNotApplied)
  <2> SUFFICES ASSUME ServerTyped, FateInv, "update" \notin Doubled,
                      NEW op \in OpId, told[op].result = "retry"
               PROVE  applied[op] = 0 /\ op \notin defer_messages
    BY DEF RetryNotApplied
  <2>1. "retry" \in Given(op) /\ op \in Once
    BY ToldGiven, Ops
  <2>2. QED BY <2>1 DEF FateInv, GivenTrue, DeferredUnanswered
<1>2. QED BY <1>1, FateInvariant, PTL

(* An update is stored once, before its client is told: neither the handler nor a callback, early,
   late or in vain, stores it again. *)
THEOREM AppliedOnceUnlessDoubled == "update" \notin Doubled => (Spec => AppliedOnce)
<1> SUFFICES ASSUME "update" \notin Doubled PROVE Spec => AppliedOnce
  OBVIOUS
<1>1. ASSUME ServerTyped, FateInv, [Next]_vars
      PROVE  [\A op \in OpId : applied'[op] > applied[op] => applied[op] = 0 /\ ~IsTold(op)]_vars
  <2> SUFFICES ASSUME NEW op \in OpId, applied'[op] > applied[op]
               PROVE  applied[op] = 0 /\ ~IsTold(op)
    OBVIOUS
  <2>1. op \in Once /\ applied[op] \in Nat
    BY <1>1, Ops DEF ServerTyped, DataTyped
  <2>2. ASSUME NEW m \in net, ServeUpdate(m) PROVE applied[op] = 0 /\ ~IsTold(op)
    <3>1. m \in Sent /\ m.op = op
      BY <2>1, <2>2 DEF ServeUpdate, AcceptUpdate, Store, RetryUpdate, DeferUpdate, ThrowUpdate, Sent
    <3>2. Fresh(op)
      BY <1>1, <2>1, <3>1 DEF FateInv, SentFresh
    <3>3. QED BY <1>1, <3>2, ToldGiven DEF Fresh
  <2>3. ASSUME NEW i \in DOMAIN timer_queue, TickUpdate(i) \/ TickThrows(i)
        PROVE  applied[op] = 0 /\ ~IsTold(op)
    <3>1. timer_queue[i].key \in Key
      BY <1>1, <2>3, ManagerTickTyped DEF TickUpdate, TickThrows, ServerTyped
    <3>2. temp_value[timer_queue[i].key] = op
      BY <2>1, <2>3 DEF TickUpdate, TickThrows, Store
    <3>3. QED BY <1>1, <2>1, <3>1, <3>2, ToldGiven DEF FateInv, WaitingUnmade
  <2>4. CASE applied' = applied
    BY <2>1, <2>4
  <2>5. QED BY <1>1, <2>2, <2>3, <2>4
       DEF Next, Serve, Tick, SendRequest, ReceiveResponse, ServeRead, ServeAck, TickDeleted,
           TickIdle, TickBlocks, TickResend, TickStray, Lose, Double, Elapse, vars
<1>2. QED BY <1>1, FateInvariant, PTL DEF Spec, AppliedOnce

LEMMA RespondKeepsTimers ==
  ASSUME ServerTyped, NEW message \in Responses, Given(message.op) = {}, NEW rest,
         Respond(message, rest)
  PROVE  UNCHANGED stray
<1>1. message.op \notin DOMAIN wait_acks
  BY DEF Given, ServerTyped, NetTyped, Responses
<1>2. QED BY <1>1 DEF Respond

(* No timer of a wait-ack outlives the object it calls, and no callback of a destroyed object
   runs, however acks, resends and late ticks fall together, on a network that does not deliver
   a request twice. *)
THEOREM NoStrayTimerUnlessDoubled ==
  Spec => [](Doubled \cap {"read", "update"} = {} => NoStrayTimer /\ ~undefined)
<1> DEFINE Clean == Doubled \cap {"read", "update"} = {} => NoStrayTimer /\ ~undefined
<1>1. Init => Clean
  BY DEF Init, NoStrayTimer
<1>2. ASSUME ServerTyped, FateInv, Clean, [Next]_vars PROVE Clean'
  <2> SUFFICES ASSUME Doubled \cap {"read", "update"} = {} PROVE stray' = {} /\ undefined' = FALSE
    BY DEF NoStrayTimer
  <2>0. stray = {} /\ undefined = FALSE /\ ServerTyped'
    BY <1>2, NextTyped DEF NoStrayTimer, ServerTyped, DataTyped
  <2>1. \A op \in AnyOp : op \in Once
    BY Ops
  <2>2. ASSUME NEW m \in net, ServeRead(m) PROVE stray' = {} /\ undefined' = FALSE
    <3>1. m \in Sent /\ m.op \in AnyOp /\ m.key \in Key /\ m.from \in Client
      BY <1>2, <2>2, Kinds DEF ServeRead, Sent, ServerTyped, Requests
    <3>2. Given(m.op) = {}
      BY <1>2, <2>1, <3>1 DEF FateInv, SentFresh, Fresh
    <3>3. \A result \in {"ok", "nodata"}, data \in OpId \cup {Empty}, expire \in 0..Lease :
            Respond(Response(m.op, m.key, result, data, expire, m.from), net \ {m}) => UNCHANGED stray
      BY <1>2, <3>1, <3>2, ResponseTyped, RespondKeepsTimers
    <3>4. UNCHANGED stray
      <4>1. /\ timestamp' \in 0..Lease /\ value[m.key] \in OpId \cup {Empty}
            /\ cache_data \in OpId \cup {Empty} /\ timestamp \in 0..Lease
        BY <1>2, <2>0, <3>1 DEF ServerTyped, DataTyped
      <4>2. QED BY <2>2, <3>3, <4>1 DEF ServeRead
    <3>5. QED BY <2>0, <2>2, <3>4 DEF ServeRead
  <2>3. ASSUME NEW m \in net, ServeUpdate(m) PROVE stray' = {} /\ undefined' = FALSE
    <3>1. m \in Sent /\ m.op \in AnyOp /\ m.op \in OpId /\ m.key \in Key /\ m.from \in Client
      BY <1>2, <2>3, Kinds DEF ServeUpdate, Sent, ServerTyped, Requests
    <3>2. Given(m.op) = {}
      BY <1>2, <2>1, <3>1 DEF FateInv, SentFresh, Fresh
    <3>3. \A result \in {"ok", "retry"}, expire \in 0..Lease :
            Respond(Response(m.op, m.key, result, m.op, expire, m.from), net \ {m}) => UNCHANGED stray
      BY <1>2, <3>1, <3>2, ResponseTyped, RespondKeepsTimers
    <3>4. Lease \in 0..Lease /\ Remaining(m.key) \in 0..Lease
      BY <1>2, <3>1, LeaseAssumption DEF Remaining, ServerTyped, ManagerTyped
    <3>5. UNCHANGED stray
      BY <2>3, <3>3, <3>4 DEF ServeUpdate, AcceptUpdate, RetryUpdate, DeferUpdate, ThrowUpdate
    <3>6. QED BY <2>0, <2>3, <3>5 DEF ServeUpdate
  <2>4. ASSUME NEW m \in net, ServeAck(m) PROVE stray' = {} /\ undefined' = FALSE
    BY <2>0, <2>4 DEF ServeAck, UnregisterWaitAck
  <2>5. ASSUME NEW i \in DOMAIN timer_queue, TickUpdate(i) PROVE stray' = {} /\ undefined' = FALSE
    <3> DEFINE k == timer_queue[i].key
    <3>1. k \in Key
      BY <1>2, <2>5, ManagerTickTyped DEF TickUpdate, ServerTyped
    <3>2. /\ op_id[k] \in defer_messages
          /\ Respond(Response(op_id[k], k, "ok", op_id[k], Lease, peer), net)
          /\ UNCHANGED undefined
      BY <2>5 DEF TickUpdate
    <3>3. op_id[k] \in OpId /\ op_id[k] \in AnyOp /\ peer \in Client /\ Lease \in 0..Lease
      BY <1>2, <3>2, Ops, LeaseAssumption DEF ServerTyped, DataTyped
    <3>4. Given(op_id[k]) = {}
      BY <1>2, <2>1, <3>2, <3>3 DEF FateInv, DeferredUnanswered
    <3>5. UNCHANGED stray
      BY <1>2, <3>1, <3>2, <3>3, <3>4, ResponseTyped, RespondKeepsTimers
    <3>6. QED BY <2>0, <3>2, <3>5
  <2>6. CASE Elapse
    BY <2>0, <2>6 DEF Elapse
  <2>7. CASE UNCHANGED <<stray, undefined>>
    BY <2>0, <2>7
  <2>8. QED BY <1>2, <2>0, <2>2, <2>3, <2>4, <2>5, <2>6, <2>7
       DEF Next, Serve, Tick, SendRequest, ReceiveResponse, TickDeleted, TickIdle, TickThrows,
           TickBlocks, TickResend, TickStray, Lose, Double, vars, serverVars
<1>3. QED BY <1>1, <1>2, FateInvariant, PTL DEF Spec

------------------------------------------------------------------------------
(* What is said about an element, and the timers that stand behind it. *)

(* The server or the network knows operation op, and takes it to be about k. *)
Knows(op, k) ==
  \/ \E m \in net : m.type # "ack" /\ m.op = op /\ m.key = k
  \/ op \in DOMAIN wait_acks /\ wait_acks[op].message.key = k
  \/ op \in OpId /\ op_id[k] = op

Keyed ==
  /\ \A op \in AnyOp, k \in Key : Knows(op, k) => requests[op] # NoRequest /\ requests[op].key = k
  /\ \A op \in AnyOp : requests[op] = NoRequest => told[op].result = "nothing"

(* Somebody was told, or may still be told, to rely on data for another expire units of time. *)
Grants(answer, data, expire) ==
  answer.result = "ok" /\ answer.data = data /\ answer.expire = expire

Promised(k, data, expire) ==
  \/ \E m \in net : m.type = "response" /\ m.key = k /\ Grants(m, data, expire)
  \/ \E op \in DOMAIN wait_acks :
       wait_acks[op].message.key = k /\ Grants(wait_acks[op].message, data, expire)
  \/ \E op \in AnyOp :
       requests[op] # NoRequest /\ requests[op].key = k /\ Grants(told[op], data, expire)

Data == OpId \cup {Empty}

(* What is promised is sheltered by a timer, if not by the one the manager waits for. *)
Sheltered ==
  \A k \in Key, data \in Data, expire \in Ahead :
    Promised(k, data, expire) => Shelters(k, expire)

LeaseInv == (~blocked => OwnTimers) /\ Keyed /\ Sheltered

NothingLearnt == \A op \in AnyOp, k \in Key : Knows(op, k)' => Knows(op, k)

LEMMA KeyedStep ==
  ASSUME Keyed, NothingLearnt, UNCHANGED requests,
         \A op \in AnyOp : requests[op] = NoRequest => told'[op].result = told[op].result
  PROVE  Keyed'
BY DEF Keyed, NothingLearnt

NothingPromised ==
  \A k \in Key, data \in Data, expire \in Ahead :
    Promised(k, data, expire)' => Promised(k, data, expire)

(* What is promised anew comes with a lease of full length. *)
LeasePromised ==
  \A k \in Key, data \in Data, expire \in Ahead :
    Promised(k, data, expire)' => Promised(k, data, expire) \/ Shelters(k, Lease)'

(* Fewer datagrams, or the same. *)
LEMMA NoNews ==
  ASSUME ServerTyped, \A n \in net' : n \in net \/ n.type = "ack",
         \A op \in DOMAIN wait_acks' : op \in DOMAIN wait_acks /\ wait_acks'[op] = wait_acks[op],
         UNCHANGED <<told, requests>>
  PROVE  /\ \A op \in AnyOp, k \in Key :
              Knows(op, k)' => Knows(op, k) \/ (op \in OpId /\ op_id'[k] = op)
         /\ \A k \in Key, data \in Data, expire \in Ahead :
              Promised(k, data, expire)' => Promised(k, data, expire)
BY DEF Knows, Promised

LEMMA RespondNews ==
  ASSUME ServerTyped, NEW message \in Responses, NEW rest, rest \subseteq net,
         Respond(message, rest), UNCHANGED <<told, requests>>
  PROVE  /\ \A op \in AnyOp, k \in Key :
              Knows(op, k)' => \/ Knows(op, k)
                               \/ op = message.op /\ k = message.key
                               \/ op \in OpId /\ op_id'[k] = op
         /\ \A k \in Key, data \in Data, expire \in Ahead :
              Promised(k, data, expire)' => \/ Promised(k, data, expire)
                                            \/ k = message.key /\ Grants(message, data, expire)
<1>1. \A n \in net' : n \in net \/ n = message
  BY DEF Respond
<1>2. \A op \in DOMAIN wait_acks' :
        \/ op \in DOMAIN wait_acks /\ wait_acks'[op] = wait_acks[op]
        \/ op = message.op /\ wait_acks'[op].message = message
  <2>1. CASE message.op \in DOMAIN wait_acks
    BY <2>1 DEF Respond
  <2>2. CASE message.op \notin DOMAIN wait_acks
    BY <2>2 DEF Respond, AddTimer
  <2>3. QED BY <2>1, <2>2
<1>3. QED BY <1>1, <1>2 DEF Knows, Promised

(* An answer about k to somebody who is known to ask for it, which promises at most what a timer
   shelters. *)
LEMMA AnswerNews ==
  ASSUME ServerTyped, NEW k \in Key, NEW message \in Responses, NEW rest, rest \subseteq net,
         Respond(message, rest), UNCHANGED <<told, requests>>,
         message.key = k, Knows(message.op, k),
         \A l \in Key : op_id'[l] \in OpId => op_id'[l] = op_id[l] \/ (l = k /\ op_id'[l] = message.op),
         message.result = "ok" => message.expire = 0 \/ Shelters(k, Lease)'
  PROVE  NothingLearnt /\ LeasePromised
BY RespondNews, AheadTyped DEF NothingLearnt, LeasePromised, Knows, Grants

LEMMA ServeReadNews ==
  ASSUME ServerTyped, LeaseInv, NEW m \in net, ServeRead(m)
  PROVE  NothingLearnt /\ LeasePromised
<1> DEFINE k == m.key
<1>1. /\ m \in Requests /\ m.op \in AnyOp /\ k \in Key /\ m.from \in Client /\ m.type = "read"
      /\ Knows(m.op, k)
  BY Kinds DEF ServeRead, ServerTyped, Requests, Knows
<1>2. ManagerTyped /\ OwnTimers /\ UNCHANGED <<told, requests>>
  BY DEF ServeRead, Listening, LeaseInv, ServerTyped, clientVars
<1>3. \A l \in Key : op_id'[l] \in OpId => op_id'[l] = op_id[l]
  BY <1>1, Ops DEF ServeRead, ManagerRead, managerVars, ServerTyped, ManagerTyped
<1>4. PICK result \in {"ok", "nodata"}, data \in Data, expire \in 0..Lease :
        /\ Respond(Response(m.op, k, result, data, expire, m.from), net \ {m})
        /\ result = "ok" => expire = 0 \/ Shelters(k, Lease)'
  <2>1. CASE m.key \notin map
    BY <2>1 DEF ServeRead, ServerTyped, DataTyped, Data
  <2>2. CASE m.key \in map
    <3>1. ManagerRead(k, ReadId) /\ value[k] \in Data
          /\ Respond(Response(m.op, k, "ok", value[k], ReadExpire(k), m.from), net \ {m})
      BY <1>1, <2>2 DEF ServeRead, ServerTyped, DataTyped, Data
    <3>2. CASE current_state[k] = UpdateProtected
      BY <3>1, <3>2, LeaseAssumption DEF ReadExpire
    <3>3. CASE current_state[k] # UpdateProtected
      <4>1. EnterGuaranteed(k, timer_queue) /\ ReadExpire(k) = Lease
        BY <3>1, <3>3 DEF ManagerRead, ReadExpire
      <4>2. Shelters(k, Lease)' /\ Lease \in 0..Lease
        BY <1>1, <1>2, <4>1, EnterShelters, AheadTyped
      <4>3. QED BY <3>1, <4>1, <4>2
    <3>4. QED BY <3>2, <3>3
  <2>3. QED BY <2>1, <2>2
<1> DEFINE message == Response(m.op, k, result, data, expire, m.from)
<1>5. /\ message \in Responses /\ message.op = m.op /\ message.key = k
      /\ message.result = result /\ message.expire = expire
  BY <1>1, ResponseTyped DEF Response, Data
<1>6. Respond(message, net \ {m}) /\ net \ {m} \subseteq net
  BY <1>4
<1> HIDE DEF message
<1>7. QED BY <1>1, <1>2, <1>3, <1>4, <1>5, <1>6, AnswerNews

LEMMA ServeUpdateNews ==
  ASSUME ServerTyped, LeaseInv, NEW m \in net, ServeUpdate(m)
  PROVE  NothingLearnt /\ LeasePromised
<1> DEFINE k == m.key
<1>1. /\ m \in Requests /\ m.op \in OpId /\ m.op \in AnyOp /\ k \in Key /\ m.from \in Client
      /\ m.type = "update" /\ Knows(m.op, k)
  BY Kinds DEF ServeUpdate, ServerTyped, Requests, Knows
<1>2. ManagerTyped /\ OwnTimers /\ UNCHANGED <<told, requests>>
  BY DEF ServeUpdate, Listening, LeaseInv, ServerTyped, clientVars
<1>3. \A l \in Key : op_id'[l] = op_id[l] \/ (l = k /\ op_id'[l] = m.op)
  BY <1>1 DEF ServeUpdate, AcceptUpdate, RetryUpdate, DeferUpdate, ThrowUpdate, ManagerUpdateOk,
              ManagerUpdateDefer, ManagerUpdateExpired, managerVars, ServerTyped, ManagerTyped
<1>4. CASE DeferUpdate(m) \/ ThrowUpdate(m)
  <2>1. net' = net \ {m} /\ UNCHANGED wait_acks
    BY <1>4 DEF DeferUpdate, ThrowUpdate
  <2>2. QED BY <1>1, <1>2, <1>3, <2>1, NoNews DEF NothingLearnt, LeasePromised, Knows
<1>5. ASSUME NEW result \in {"ok", "retry"}, NEW expire \in 0..Lease,
             Respond(Response(m.op, k, result, m.op, expire, m.from), net \ {m}),
             result = "ok" => Shelters(k, Lease)'
      PROVE  NothingLearnt /\ LeasePromised
  <2> DEFINE message == Response(m.op, k, result, m.op, expire, m.from)
  <2>1. /\ message \in Responses /\ message.op = m.op /\ message.key = k
        /\ message.result = result
    BY <1>1, ResponseTyped DEF Response
  <2>2. Respond(message, net \ {m}) /\ net \ {m} \subseteq net
    BY <1>5
  <2> HIDE DEF message
  <2>3. QED BY <1>1, <1>2, <1>3, <1>5, <2>1, <2>2, AnswerNews
<1>6. CASE AcceptUpdate(m)
  <2>1. EnterGuaranteed(k, timer_queue)
        /\ Respond(Response(m.op, k, "ok", m.op, Lease, m.from), net \ {m})
    BY <1>6 DEF AcceptUpdate, ManagerUpdateOk
  <2>2. Shelters(k, Lease)' /\ Lease \in 0..Lease
    BY <1>1, <1>2, <2>1, EnterShelters, AheadTyped
  <2>3. QED BY <1>5, <2>1, <2>2
<1>7. CASE RetryUpdate(m)
  <2>1. Remaining(k) \in 0..Lease
    BY <1>1, <1>2, LeaseAssumption DEF Remaining, ManagerTyped
  <2>2. QED BY <1>5, <1>7, <2>1 DEF RetryUpdate
<1>8. QED BY <1>4, <1>6, <1>7 DEF ServeUpdate

LEMMA ServeAckNews ==
  ASSUME ServerTyped, NEW m \in net, ServeAck(m)
  PROVE  NothingLearnt /\ NothingPromised
<1>1. UNCHANGED <<managerVars, requests, told>>
  BY DEF ServeAck, clientVars
<1>2. /\ \A n \in net' : n \in net
      /\ \A op \in DOMAIN wait_acks' : op \in DOMAIN wait_acks /\ wait_acks'[op] = wait_acks[op]
  BY PopAckFacts DEF ServeAck, UnregisterWaitAck
<1>3. QED BY <1>1, <1>2, NoNews DEF NothingLearnt, NothingPromised, Knows, managerVars

(* The callback of a deferred update, early, late or in vain. *)
LEMMA TickUpdateNews ==
  ASSUME ServerTyped, LeaseInv, NEW i \in DOMAIN timer_queue, TickUpdate(i)
  PROVE  NothingLearnt /\ LeasePromised
<1>0. PICK k \in Key : k = timer_queue[i].key
  BY QueueFacts DEF ServerTyped, ManagerTyped, Timer
<1>1. /\ timer_queue[i].left <= 0 /\ EnterGuaranteed(k, PopTimer(timer_queue, i))
      /\ op_id[k] \in defer_messages
      /\ Respond(Response(op_id[k], k, "ok", op_id[k], Lease, peer), net)
      /\ UNCHANGED <<told, requests, op_id>>
  BY <1>0 DEF TickUpdate, ManagerTickUpdate, Ticks, InFront, clientVars
<1>2. ManagerTyped /\ OwnTimers
  BY DEF TickUpdate, Ticks, LeaseInv, ServerTyped
<1>3. op_id[k] \in OpId /\ op_id[k] \in AnyOp /\ peer \in Client /\ Lease \in 0..Lease
  BY <1>1, Ops, AheadTyped DEF ServerTyped, DataTyped
<1>4. Knows(op_id[k], k)
  BY <1>3 DEF Knows
<1>5. Shelters(k, Lease)'
  BY <1>0, <1>1, <1>2, EnterShelters
<1> DEFINE message == Response(op_id[k], k, "ok", op_id[k], Lease, peer)
<1>6. message \in Responses /\ message.op = op_id[k] /\ message.key = k
  BY <1>3, ResponseTyped DEF Response
<1>7. Respond(message, net) /\ net \subseteq net
  BY <1>1
<1> HIDE DEF message
<1>8. QED BY <1>1, <1>4, <1>5, <1>6, <1>7, AnswerNews

(* The response is sent once more. *)
LEMMA TickResendNews ==
  ASSUME ServerTyped, NEW op \in DOMAIN wait_acks, TickResend(op)
  PROVE  NothingLearnt /\ NothingPromised
<1> DEFINE m == wait_acks[op].message
<1> DEFINE again == [m EXCEPT !.copy = 2, !.to = peer]
<1>1. UNCHANGED <<managerVars, requests, told, op_id>>
  BY DEF TickResend, clientVars, managerVars
<1>2. m \in Responses /\ m.op = op
  BY DEF ServerTyped, NetTyped
<1>3. /\ again.type = "response" /\ again.op = op /\ again.key = m.key
      /\ again.result = m.result /\ again.data = m.data /\ again.expire = m.expire
  <2> HIDE DEF m
  <2>1. again = [[m EXCEPT !.copy = 2] EXCEPT !.to = peer]
    BY <1>2, Z3 DEF Responses
  <2> HIDE DEF again
  <2> DEFINE n == [m EXCEPT !.copy = 2]
  <2>2. /\ n \in Responses /\ n.op = m.op /\ n.key = m.key
        /\ n.result = m.result /\ n.data = m.data /\ n.expire = m.expire
    BY <1>2 DEF Responses
  <2>3. again = [n EXCEPT !.to = peer]
    BY <2>1
  <2> HIDE DEF n
  <2>4. QED BY <1>2, <2>2, <2>3 DEF Responses
<1>4. /\ net' = net \cup {again}
      /\ \A o \in DOMAIN wait_acks' : o \in DOMAIN wait_acks /\ wait_acks'[o] = wait_acks[o]
  BY PopAckFacts DEF TickResend
<1> HIDE DEF again
<1>5. NothingLearnt
  BY <1>1, <1>3, <1>4 DEF NothingLearnt, Knows
<1>6. NothingPromised
  BY <1>1, <1>3, <1>4 DEF NothingPromised, Promised, Grants
<1>7. QED BY <1>5, <1>6

LEMMA TickNews ==
  ASSUME ServerTyped, LeaseInv, Tick
  PROVE  NothingLearnt /\ LeasePromised /\ UNCHANGED <<requests, told>>
<1>1. ASSUME NEW i \in DOMAIN timer_queue, TickDeleted(i) \/ TickIdle(i) \/ TickBlocks(i) \/ TickThrows(i)
      PROVE  NothingLearnt /\ NothingPromised
  BY <1>1, NoNews
     DEF TickDeleted, TickIdle, TickBlocks, TickThrows, ManagerTickDeleted, ManagerTickIdle,
         ManagerTickBlocks, ManagerTickUpdate, serverVars, clientVars, NothingLearnt, NothingPromised,
         Knows
<1>2. ASSUME NEW s \in stray, TickStray(s) PROVE NothingLearnt /\ NothingPromised
  BY <1>2, NoNews
     DEF TickStray, managerVars, serverVars, clientVars, NothingLearnt, NothingPromised, Knows
<1>3. UNCHANGED <<requests, told>>
  BY DEF Tick, TickDeleted, TickIdle, TickBlocks, TickUpdate, TickThrows, TickResend, TickStray,
         clientVars
<1>4. QED BY <1>1, <1>2, <1>3, TickUpdateNews, TickResendNews
     DEF Tick, NothingPromised, LeasePromised

(* A new request becomes known, and nobody was told anything about it. *)
LEMMA SendNews ==
  ASSUME ServerTyped, Keyed, NEW c \in Client, NEW o \in AnyOp, NEW k \in Key, SendRequest(c, o, k)
  PROVE  Keyed' /\ NothingPromised
<1>1. UNCHANGED <<wait_acks, told, op_id>>
  BY DEF SendRequest, serverVars, managerVars
<1>2. /\ requests[o] = NoRequest /\ requests'[o] # NoRequest /\ requests'[o].key = k
      /\ \A op \in AnyOp : op # o => requests'[op] = requests[op]
  <2>1. /\ [client |-> c, key |-> k] \in [client : Client, key : Key]
        /\ [client |-> c, key |-> k].key = k
    OBVIOUS
  <2>2. QED BY <2>1, NoRequestAssumption DEF SendRequest, ServerTyped, DataTyped
<1>3. /\ net' = net \cup {Request(o, k, c)}
      /\ Request(o, k, c).op = o /\ Request(o, k, c).key = k /\ Request(o, k, c).type # "response"
  BY <1>1 DEF SendRequest, Request, Kind
<1>4. told[o].result = "nothing"
  BY <1>2 DEF Keyed
<1>5. Keyed'
  <2>1. \A op \in AnyOp, l \in Key : Knows(op, l)' => Knows(op, l) \/ (op = o /\ l = k)
    BY <1>1, <1>3 DEF Knows
  <2>2. \A op \in AnyOp, l \in Key :
          Knows(op, l) => op # o /\ requests[op] # NoRequest /\ requests[op].key = l
    BY <1>2 DEF Keyed
  <2>3. \A op \in AnyOp, l \in Key :
          Knows(op, l)' => requests'[op] # NoRequest /\ requests'[op].key = l
    BY <1>2, <2>1, <2>2
  <2>4. \A op \in AnyOp : requests'[op] = NoRequest => told'[op].result = "nothing"
    BY <1>1, <1>2 DEF Keyed
  <2>5. QED BY <2>3, <2>4 DEF Keyed
<1>6. NothingPromised
  BY <1>1, <1>2, <1>3, <1>4 DEF NothingPromised, Promised, Grants
<1>7. QED BY <1>5, <1>6

(* A client is told what the network knew. *)
LEMMA ReceiveNews ==
  ASSUME ServerTyped, Keyed, NEW m \in net, ReceiveResponse(m)
  PROVE  Keyed' /\ NothingPromised
<1>1. m \in Responses /\ m.op \in AnyOp /\ m.type = "response" /\ m.key \in Key
  BY Kinds DEF ReceiveResponse, ServerTyped, Responses
<1>2. /\ UNCHANGED <<requests, wait_acks, op_id>>
      /\ \A n \in net' : n \in net \/ n.type = "ack"
  BY DEF ReceiveResponse, serverVars, managerVars, Ack
<1>3. \A op \in AnyOp :
        \/ told'[op] = told[op]
        \/ /\ op = m.op /\ told'[op] = Answer(m.result, m.data, m.expire)
           /\ requests[op] # NoRequest
  BY DEF ReceiveResponse, Pending, ServerTyped, DataTyped
<1>4. requests[m.op].key = m.key
  BY <1>1 DEF Keyed, Knows
<1>5. NothingLearnt
  BY <1>2 DEF NothingLearnt, Knows
<1>6. NothingPromised
  BY <1>1, <1>2, <1>3, <1>4 DEF NothingPromised, Promised, Grants, Answer
<1>7. \A op \in AnyOp : requests[op] = NoRequest => told'[op].result = told[op].result
  BY <1>3
<1>8. QED BY <1>2, <1>5, <1>6, <1>7, KeyedStep

LEMMA NetworkNews ==
  ASSUME ServerTyped, NEW m \in net, Lose(m) \/ Double(m)
  PROVE  NothingLearnt /\ NothingPromised
<1>1. UNCHANGED <<wait_acks, told, requests, op_id>>
  BY DEF Lose, Double, serverVars, clientVars, managerVars
<1>2. \A n \in net' :
        \/ n \in net
        \/ /\ n.type = m.type /\ n.op = m.op
           /\ n.type # "ack" => n.key = m.key
           /\ n.type = "response" => n.result = m.result /\ n.data = m.data /\ n.expire = m.expire
  <2>1. m \in Requests \/ m \in Responses \/ m \in Acks
    BY DEF ServerTyped, NetTyped
  <2> DEFINE n == [m EXCEPT !.copy = 3]
  <2>2. /\ n.type = m.type /\ n.op = m.op
        /\ n.type # "ack" => n.key = m.key
        /\ n.type = "response" => n.result = m.result /\ n.data = m.data /\ n.expire = m.expire
    <3>1. CASE m \in Requests
      BY <3>1 DEF Requests
    <3>2. CASE m \in Responses
      BY <3>2 DEF Responses
    <3>3. CASE m \in Acks
      BY <3>3 DEF Acks
    <3>4. QED BY <2>1, <3>1, <3>2, <3>3
  <2>3. net' = net \ {m} \/ net' = net \cup {n}
    BY DEF Lose, Double
  <2> HIDE DEF n
  <2>4. QED BY <2>2, <2>3
<1>3. QED BY <1>1, <1>2 DEF NothingLearnt, NothingPromised, Knows, Promised, Grants

(* Time: what lies ahead after the step lay one further ahead before it. *)
(* What the millisecond leaves of an answer that a client was given. *)
LEMMA ToldAged ==
  ASSUME DataTyped, NEW op \in AnyOp, told'[op] = [told[op] EXCEPT !.expire = Later(@)]
  PROVE  /\ told[op].expire \in 0..Lease /\ told'[op].expire = Later(told[op].expire)
         /\ told'[op].result = told[op].result /\ told'[op].data = told[op].data
<1>1. told[op] \in [result : {"nothing", "ok", "retry", "nodata"}, data : OpId \cup {Empty},
                    expire : 0..Lease]
  BY DEF DataTyped
<1>2. QED BY <1>1

LEMMA ElapseNews ==
  ASSUME ServerTyped, Elapse
  PROVE  /\ Keyed => Keyed'
         /\ \A k \in Key, data \in Data, expire \in Ahead :
              Promised(k, data, expire)' => expire + 1 \in Ahead /\ Promised(k, data, expire + 1)
<1>1. /\ UNCHANGED <<requests, op_id>>
      /\ net' = {Aged(m) : m \in net}
      /\ DOMAIN wait_acks' = DOMAIN wait_acks
      /\ \A op \in DOMAIN wait_acks : wait_acks'[op].message = Aged(wait_acks[op].message)
      /\ \A op \in AnyOp : told'[op] = [told[op] EXCEPT !.expire = Later(@)]
  BY DEF Elapse, ManagerElapse
<1>5. \A m \in net : /\ Aged(m).type = m.type /\ Aged(m).op = m.op
                     /\ m.type # "ack" => Aged(m).key = m.key
  <2> SUFFICES ASSUME NEW m \in net
               PROVE  /\ Aged(m).type = m.type /\ Aged(m).op = m.op
                      /\ m.type # "ack" => Aged(m).key = m.key
    OBVIOUS
  <2>1. CASE m \in Responses
    BY <2>1 DEF Aged, Responses
  <2>2. CASE m \in Requests \cup Acks
    BY <2>2 DEF Aged, Requests, Acks
  <2>3. QED BY <2>1, <2>2 DEF ServerTyped, NetTyped
<1>6. \A m \in Responses :
        /\ m.expire \in 0..Lease /\ Aged(m).expire = Later(m.expire)
        /\ Aged(m).key = m.key /\ Aged(m).result = m.result /\ Aged(m).data = m.data
  BY DEF Aged, Responses
<1>7. Keyed => Keyed'
  <2>1. NothingLearnt
    <3>1. \A op \in DOMAIN wait_acks : wait_acks'[op].message.key = wait_acks[op].message.key
      BY <1>1, <1>6 DEF ServerTyped, NetTyped
    <3>2. QED BY <1>1, <1>5, <3>1 DEF NothingLearnt, Knows
  <2>2. \A op \in AnyOp : told'[op].result = told[op].result
    BY <1>1, ToldAged DEF ServerTyped
  <2>3. QED BY <1>1, <2>1, <2>2, KeyedStep
<1>8. ASSUME NEW k \in Key, NEW data \in Data, NEW expire \in Ahead, Promised(k, data, expire)'
      PROVE  expire + 1 \in Ahead /\ Promised(k, data, expire + 1)
  <2>1. \A e \in 0..Lease : Later(e) = expire => e = expire + 1 /\ e \in Ahead
    BY LeaseAssumption DEF Later, Ahead
  <2>2. CASE \E n \in net' : n.type = "response" /\ n.key = k /\ Grants(n, data, expire)
    <3>1. PICK m \in net : /\ Aged(m).type = "response" /\ Aged(m).key = k
                           /\ Grants(Aged(m), data, expire)
      BY <1>1, <2>2
    <3>2. m \in Responses /\ m.type = "response"
      BY <1>5, <3>1, Kinds DEF ServerTyped
    <3>3. QED BY <1>6, <2>1, <3>1, <3>2 DEF Promised, Grants
  <2>3. CASE \E op \in DOMAIN wait_acks' :
               wait_acks'[op].message.key = k /\ Grants(wait_acks'[op].message, data, expire)
    <3>1. PICK op \in DOMAIN wait_acks : /\ Aged(wait_acks[op].message).key = k
                                         /\ Grants(Aged(wait_acks[op].message), data, expire)
      BY <1>1, <2>3
    <3>2. wait_acks[op].message \in Responses
      BY DEF ServerTyped, NetTyped
    <3>3. QED BY <1>6, <2>1, <3>1, <3>2 DEF Promised, Grants
  <2>4. CASE \E op \in AnyOp :
               /\ requests'[op] # NoRequest /\ requests'[op].key = k
               /\ Grants(told'[op], data, expire)
    <3>1. PICK op \in AnyOp : /\ requests[op] # NoRequest /\ requests[op].key = k
                              /\ Grants(told'[op], data, expire)
      BY <1>1, <2>4
    <3>2. /\ told[op].expire \in 0..Lease /\ told'[op].expire = Later(told[op].expire)
          /\ told'[op].result = told[op].result /\ told'[op].data = told[op].data
      BY <1>1, ToldAged DEF ServerTyped
    <3>3. QED BY <2>1, <3>1, <3>2 DEF Promised, Grants
  <2>5. QED BY <1>8, <2>2, <2>3, <2>4 DEF Promised
<1>9. QED BY <1>7, <1>8

(* The managers take no other steps with the server than those of CacheStateManager. *)
LEMMA NextManages == ServerTyped /\ [Next]_vars => ManagerActs \/ (Elapse /\ ManagerElapses)
<1> SUFFICES ASSUME ServerTyped, [Next]_vars PROVE ManagerActs \/ (Elapse /\ ManagerElapses)
  OBVIOUS
<1>1. ASSUME NEW m \in net, ServeRead(m) PROVE ManagerActs
  <2>1. m.key \in Key
    BY <1>1, Kinds DEF ServeRead, ServerTyped, Requests
  <2>2. QED BY <1>1, <2>1 DEF ServeRead, Listening, ManagerActs, ManagerHandles
<1>2. ASSUME NEW m \in net, ServeUpdate(m) PROVE ManagerActs
  <2>1. m.key \in Key /\ m.op \in OpId
    BY <1>2, Kinds DEF ServeUpdate, ServerTyped, Requests
  <2>2. QED BY <1>2, <2>1 DEF ServeUpdate, AcceptUpdate, RetryUpdate, DeferUpdate, ThrowUpdate,
                              Listening, ManagerActs, ManagerHandles
<1>3. ASSUME NEW i \in DOMAIN timer_queue,
             TickDeleted(i) \/ TickIdle(i) \/ TickUpdate(i) \/ TickThrows(i) \/ TickBlocks(i)
      PROVE  ManagerActs
  BY <1>3 DEF TickDeleted, TickIdle, TickUpdate, TickThrows, TickBlocks, Ticks, InFront,
              ManagerActs, ManagerTicks
<1>4. CASE UNCHANGED <<managerVars, blocked>>
  BY <1>4 DEF ManagerActs
<1>5. CASE Elapse
  BY <1>5 DEF Elapse, ManagerElapses
<1>6. QED BY <1>1, <1>2, <1>3, <1>4, <1>5
     DEF Next, Serve, Tick, SendRequest, ReceiveResponse, ServeAck, TickResend, TickStray, Lose,
         Double, vars

(* Each step but the clock's keeps what is known, and shelters what it promises. *)
LEMMA NextNews ==
  ServerTyped /\ LeaseInv /\ [Next]_vars /\ ~Elapse => Keyed' /\ LeasePromised
<1> SUFFICES ASSUME ServerTyped, LeaseInv, [Next]_vars, ~Elapse PROVE Keyed' /\ LeasePromised
  OBVIOUS
<1>0. Keyed /\ (NothingPromised => LeasePromised)
  BY DEF LeaseInv, NothingPromised, LeasePromised
<1>1. CASE Serve
  <2>1. NothingLearnt /\ LeasePromised
    BY <1>0, <1>1, ServeReadNews, ServeUpdateNews, ServeAckNews DEF Serve
  <2>2. UNCHANGED <<requests, told>>
    BY <1>1 DEF Serve, ServeRead, ServeUpdate, ServeAck, clientVars
  <2>3. QED BY <1>0, <2>1, <2>2, KeyedStep
<1>2. CASE Tick
  BY <1>0, <1>2, TickNews, KeyedStep
<1>3. CASE \/ \E c \in Client, op \in AnyOp, k \in Key : SendRequest(c, op, k)
           \/ \E m \in net : ReceiveResponse(m)
  BY <1>0, <1>3, SendNews, ReceiveNews
<1>4. ASSUME NEW m \in net, Lose(m) \/ Double(m) PROVE Keyed' /\ LeasePromised
  BY <1>0, <1>4, NetworkNews, KeyedStep DEF Lose, Double, clientVars
<1>5. CASE UNCHANGED vars
  BY <1>0, <1>5, NoNews, KeyedStep
     DEF vars, managerVars, serverVars, clientVars, NothingLearnt, NothingPromised, Knows
<1>6. QED BY <1>1, <1>2, <1>3, <1>4, <1>5 DEF Next

LEMMA NextLease == ServerTyped /\ LeaseInv /\ [Next]_vars => LeaseInv'
<1> SUFFICES ASSUME ServerTyped, LeaseInv, [Next]_vars PROVE LeaseInv'
  OBVIOUS
<1>1. (~blocked => OwnTimers)'
  BY NextManages, OwnTimersStep DEF ServerTyped, LeaseInv
<1>2. Keyed'
  BY NextNews, ElapseNews DEF LeaseInv
<1>3. Sheltered'
  <2> SUFFICES ASSUME NEW k \in Key, NEW data \in Data, NEW expire \in Ahead,
                      Promised(k, data, expire)'
               PROVE  Shelters(k, expire)'
    BY DEF Sheltered
  <2>1. CASE Elapse
    <3>1. Shelters(k, expire + 1)
      BY <2>1, ElapseNews DEF LeaseInv, Sheltered
    <3>2. QED BY <2>1, <3>1, ElapseShelters DEF Elapse, ServerTyped
  <2>2. CASE ~Elapse /\ Promised(k, data, expire)
    BY <2>2, NextManages, ShelterStep DEF ServerTyped, LeaseInv, Sheltered
  <2>3. CASE Shelters(k, Lease)'
    <3>1. ManagerTyped'
      BY NextTyped DEF ServerTyped
    <3>2. PICK j \in DOMAIN timer_queue' :
            timer_queue'[j].repeat = 1 /\ timer_queue'[j].key = k /\ timer_queue'[j].left >= Lease
      BY <2>3 DEF Shelters
    <3>3. timer_queue'[j].left \in Int /\ expire \in Int /\ expire <= Lease /\ Lease \in Int
      BY <3>1, <3>2, LeaseAssumption DEF ManagerTyped, IsQueue, Timer, Ahead
    <3>4. QED BY <3>2, <3>3 DEF Shelters
  <2>4. QED BY <2>1, <2>2, <2>3, NextNews DEF LeasePromised
<1>4. QED BY <1>1, <1>2, <1>3 DEF LeaseInv

LEMMA InitLease == Init => LeaseInv
<1> SUFFICES ASSUME Init PROVE LeaseInv
  OBVIOUS
<1>1. \A op \in AnyOp, k \in Key : ~Knows(op, k)
  BY Ops DEF Init, ManagerInit, Knows
<1>2. \A op \in AnyOp : told[op].result = "nothing"
  BY DEF Init, Unanswered, Answer
<1>3. OwnTimers
  BY DEF Init, ManagerInit, OwnTimers, OwnTimer
<1>4. QED BY <1>1, <1>2, <1>3 DEF Init, LeaseInv, Keyed, Sheltered, Promised, Grants

LEMMA LeaseInvariant == Spec => [](ServerTyped /\ LeaseInv)
BY InitTyped, NextTyped, InitLease, NextLease, PTL DEF Spec

(* What a client was told, or may still be told, was promised. *)
LEMMA AnswerPromised ==
  ASSUME ServerTyped, Keyed, NEW op \in AnyOp, requests[op] # NoRequest,
         NEW a \in {told[op]} \cup UnderWay(op), a.result = "ok", a.expire > 0
  PROVE  a.data \in Data /\ a.expire \in Ahead /\ Promised(requests[op].key, a.data, a.expire)
<1>1. CASE a = told[op]
  <2>1. a.data \in Data /\ a.expire \in Ahead
    BY <1>1, LeaseAssumption DEF ServerTyped, DataTyped, Ahead, Data
  <2>2. QED BY <1>1, <2>1 DEF Promised, Grants
<1>2. CASE a \in UnderWay(op)
  <2>1. a \in Responses /\ a.type = "response" /\ a.op = op
    BY <1>2, Kinds DEF UnderWay, ServerTyped, NetTyped, Responses
  <2>2. a.data \in Data /\ a.expire \in Ahead /\ a.key \in Key
    BY <2>1, LeaseAssumption DEF Responses, Ahead, Data
  <2>3. Knows(op, a.key)
    BY <1>2, <2>1 DEF UnderWay, Knows
  <2>4. a.key = requests[op].key
    BY <2>2, <2>3 DEF Keyed
  <2>5. QED BY <1>2, <2>1, <2>2, <2>4 DEF UnderWay, Promised, Grants
<1>3. QED BY <1>1, <1>2

(* However late tick() is and whatever the network does: the data that a client was told, or may
   still be told, is current is replaced only where a timer was left that no manager waits for. *)
THEOREM CopyBrokenOnlyByOrphanAlways == Spec => CopyBrokenOnlyByOrphan
<1>1. ASSUME ServerTyped, LeaseInv, [Next]_vars
      PROVE  [\A k \in Key : Copied(k) /\ value'[k] # value[k] => Orphans # {}]_vars
  <2> SUFFICES ASSUME NEW k \in Key, Copied(k), value'[k] # value[k] PROVE Orphans # {}
    OBVIOUS
  <2>1. PICK op \in AnyOp : \E a \in {told[op]} \cup UnderWay(op) :
          /\ requests[op] # NoRequest /\ requests[op].key = k
          /\ a.result = "ok" /\ a.expire > 0 /\ a.data = value[k]
    BY DEF Copied
  <2>2. PICK a \in {told[op]} \cup UnderWay(op) :
          a.result = "ok" /\ a.expire > 0 /\ a.data = value[k]
    BY <2>1
  <2>3. a.data \in Data /\ a.expire \in Ahead /\ Promised(k, a.data, a.expire)
    BY <1>1, <2>1, <2>2, AnswerPromised DEF LeaseInv
  <2>4. PICK expire \in Ahead : Shelters(k, expire)
    BY <1>1, <2>3 DEF LeaseInv, Sheltered
  <2>5. ASSUME NEW m \in net, ServeUpdate(m) PROVE timer_id[k] = NoTimer
    <3>1. m.key = k /\ current_state[k] = Idle /\ ~blocked
      BY <1>1, <2>5 DEF ServeUpdate, AcceptUpdate, Store, ManagerUpdateOk, RetryUpdate, DeferUpdate,
                        ThrowUpdate, Listening, ServerTyped, DataTyped
    <3>2. QED BY <1>1, <3>1 DEF LeaseInv, OwnTimers, OwnTimer
  <2>6. ASSUME NEW i \in DOMAIN timer_queue, TickUpdate(i) \/ TickThrows(i)
        PROVE  timer_queue[i].key = k /\ timer_queue[i].repeat = 1 /\ timer_queue[i].left <= 0
    BY <1>1, <2>6 DEF TickUpdate, TickThrows, ManagerTickUpdate, Store, Ticks, InFront, ServerTyped,
                      DataTyped
  <2>7. IsQueue(timer_queue)
    BY <1>1 DEF ServerTyped, ManagerTyped
  <2>8. \/ timer_id[k] = NoTimer
        \/ \E i \in DOMAIN timer_queue :
             timer_queue[i].key = k /\ timer_queue[i].repeat = 1 /\ timer_queue[i].left <= 0
    BY <1>1, <2>5, <2>6
       DEF Next, Serve, Tick, SendRequest, ReceiveResponse, ServeRead, ServeAck, TickDeleted,
           TickIdle, TickBlocks, TickResend, TickStray, Lose, Double, Elapse, vars, serverVars
  <2>9. QED BY <2>4, <2>7, <2>8, ShelterOrphaned
<1>2. QED BY <1>1, LeaseInvariant, PTL DEF Spec, CopyBrokenOnlyByOrphan
================================================================================
