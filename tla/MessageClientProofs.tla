------------------------- MODULE MessageClientProofs -------------------------
(***************************************************************************)
(* The ids of MessageClient and what depends on them, for any number of    *)
(* clients and calls and any clock.  Window says how the sequences of a    *)
(* client's calls follow each other; with InTime, which says where the     *)
(* calls of this millisecond are, ids differ, and with ids that differ     *)
(* requests_ and the calls belong together.                                *)
(***************************************************************************)
EXTENDS MessageClient, SequenceTheorems, TLAPS

(* machine_id_ has six bits, whatever the parameters of the constructor. *)
LEMMA MachineIdType ==
  ASSUME NEW d \in 0..255, NEW w \in 0..255
  PROVE  MachineId(d, w) \in Machine
<1>1. (d \div 4) % 32 \in 0..31
  OBVIOUS
<1>2. w \div 64 \in 0..3
  OBVIOUS
<1> DEFINE e == (d \div 4) % 32
           t == w \div 64
<1>3. \/ t = 0 \/ t = 1 \/ t = 2 \/ t = 3
  BY <1>2
<1> HIDE DEF e, t
<1>4. e \in 0..31 /\ t \in 0..3
  BY <1>1, <1>2 DEF e, t
<1>5. 2 * e + t - (IF (2 * e) % 4 >= 2 /\ t >= 2 THEN 2 ELSE 0) \in 0..63
  <2>1. CASE (2 * e) % 4 >= 2 /\ t >= 2
    BY <2>1, <1>4
  <2>2. CASE ~((2 * e) % 4 >= 2 /\ t >= 2)
    <3>1. 2 * e + t - (IF (2 * e) % 4 >= 2 /\ t >= 2 THEN 2 ELSE 0) = 2 * e + t
      BY <2>2, <1>4
    <3>2. 2 * e + t \in 0..65 /\ 2 * e \in 0..62
      BY <1>4
    <3>3. CASE t < 2
      BY <3>1, <3>3, <1>4
    <3>4. CASE t >= 2
      BY <3>1, <3>4, <1>4, <2>2
    <3>5. QED BY <3>3, <3>4, <1>4
  <2>3. QED BY <2>1, <2>2
<1>6. QED BY <1>5 DEF MachineId, Machine, e, t

(* The lowest two bits of datacenter_id and the lowest six of worker_id are lost. *)
THEOREM MachineIdsMeet ==
  ASSUME NEW d \in 0..255, NEW w \in 0..255
  PROVE  MachineId(d, w) = MachineId(4 * (d \div 4), 64 * (w \div 64))
<1>1. (4 * (d \div 4)) \div 4 = d \div 4
  OBVIOUS
<1>2. (64 * (w \div 64)) \div 64 = w \div 64
  OBVIOUS
<1>3. QED BY <1>1, <1>2 DEF MachineId

(* The sequence stays in its range. *)
LEMMA SuccessorType ==
  ASSUME NEW s \in Sequence
  PROVE  /\ Successor(s) \in Sequence
         /\ Successor(s) = s + 1 \/ Successor(s) = s + 1 - SequenceRange
BY RangeAssumption DEF Successor, Sequence

(* What a new id is. *)
LEMMA NextIdType ==
  ASSUME TypeOK, NEW c \in Client
  PROVE  /\ NextId(c) \in AnyId
         /\ NextId(c).time = now
         /\ NextId(c).machine = MachineId(Datacenter[c], Worker[c])
         /\ NextId(c).sequence = NextSequence(c)
         /\ NextSequence(c) \in Sequence
<1>1. MachineId(Datacenter[c], Worker[c]) \in Machine
  BY ClientAssumption, MachineIdType
<1>2. NextSequence(c) \in Sequence
  BY SuccessorType DEF TypeOK, NextSequence
<1>3. QED BY <1>1, <1>2 DEF TypeOK, NextId, Id, AnyId

------------------------------------------------------------------------------
(* What the steps do to the history of calls. *)

NewCall(c, k) ==
  [id |-> NextId(c), key |-> k, called |-> 0, acked |-> FALSE, answers |-> {}]

(* The calls of every client keep their ids and keys, and none is taken away. *)
CallsStay ==
  \A c \in Client : \A i \in DOMAIN calls[c] :
    /\ i \in DOMAIN calls'[c]
    /\ calls'[c][i].id = calls[c][i].id
    /\ calls'[c][i].called >= calls[c][i].called

(* No call is added. *)
SameIds ==
  \A c \in Client :
    /\ DOMAIN calls'[c] = DOMAIN calls[c]
    /\ Len(calls'[c]) = Len(calls[c])
    /\ \A i \in DOMAIN calls[c] : calls'[c][i].id = calls[c][i].id

(* A new call of client c comes after the others, which stay as they are. *)
LEMMA KeptCalls ==
  ASSUME TypeOK, NEW c \in Client, NEW k \in Key, Keep(c, k)
  PROVE  /\ calls' \in [Client -> Seq(CallRecord)]
         /\ Len(calls[c]) \in Nat
         /\ Len(calls'[c]) = Len(calls[c]) + 1
         /\ DOMAIN calls[c] = 1..Len(calls[c])
         /\ DOMAIN calls'[c] = 1..(Len(calls[c]) + 1)
         /\ \A i \in DOMAIN calls[c] : calls'[c][i] = calls[c][i]
         /\ calls'[c][Len(calls[c]) + 1] = NewCall(c, k)
         /\ \A d \in Client : d # c => calls'[d] = calls[d]
<1>1. NewCall(c, k) \in CallRecord
  BY NextIdType DEF NewCall, CallRecord
<1>2. calls[c] \in Seq(CallRecord) /\ calls \in [Client -> Seq(CallRecord)]
  BY DEF TypeOK
<1>3. calls' = [calls EXCEPT ![c] = Append(calls[c], NewCall(c, k))]
  BY DEF Keep, Note, NewCall
<1>4. Append(calls[c], NewCall(c, k)) \in Seq(CallRecord)
  BY <1>1, <1>2
<1>5. calls'[c] = Append(calls[c], NewCall(c, k))
  BY <1>2, <1>3
<1>6. calls' \in [Client -> Seq(CallRecord)] /\ \A d \in Client : d # c => calls'[d] = calls[d]
  BY <1>2, <1>3, <1>4
<1>7. QED BY <1>1, <1>2, <1>5, <1>6

(* The new request of client c. *)
LEMMA KeptRequest ==
  ASSUME TypeOK, NEW c \in Client, NEW k \in Key, Keep(c, k)
  PROVE  /\ DOMAIN requests' = Client
         /\ DOMAIN requests'[c] = DOMAIN requests[c] \cup {NextId(c)}
         /\ \A id \in DOMAIN requests'[c] :
              requests'[c][id] = IF id \in DOMAIN requests[c] THEN requests[c][id]
                                                             ELSE Len(calls[c]) + 1
         /\ requests'[c] \in [DOMAIN requests'[c] -> 1..(Len(calls[c]) + 1)]
         /\ \A d \in Client : d # c => requests'[d] = requests[d]
<1>1. requests' = [requests EXCEPT ![c] = Emplace(requests[c], NextId(c), Len(calls[c]) + 1)]
  BY DEF Keep
<1>2. requests'[c] = Emplace(requests[c], NextId(c), Len(calls[c]) + 1)
  BY <1>1 DEF TypeOK
<1>3. DOMAIN calls[c] = 1..Len(calls[c]) /\ Len(calls[c]) \in Nat
  BY KeptCalls
<1>4. \A id \in DOMAIN requests[c] : requests[c][id] \in 1..(Len(calls[c]) + 1)
  BY <1>3 DEF TypeOK
<1>5. DOMAIN requests' = Client /\ \A d \in Client : d # c => requests'[d] = requests[d]
  BY <1>1 DEF TypeOK
<1>6. DOMAIN requests'[c] = DOMAIN requests[c] \cup {NextId(c)}
  BY <1>2 DEF Emplace
<1>7. \A id \in DOMAIN requests'[c] :
        requests'[c][id] = IF id \in DOMAIN requests[c] THEN requests[c][id]
                                                       ELSE Len(calls[c]) + 1
  BY <1>2 DEF Emplace
<1>8. requests'[c] \in [DOMAIN requests'[c] -> 1..(Len(calls[c]) + 1)]
  BY <1>2, <1>3, <1>4 DEF Emplace
<1>9. QED BY <1>5, <1>6, <1>7, <1>8

(* Which call a response that is handled belongs to. *)
LEMMA MatchedCall ==
  ASSUME TypeOK, NEW m \in net, Listens(m), Matches(m)
  PROVE  /\ m \in [type : {"response"}, of : AnyCall, id : AnyId, key : Key, to : Client]
         /\ m.to \in Client /\ m.id \in AnyId /\ m.of \in AnyCall
         /\ m.id \in DOMAIN requests[m.to]
         /\ requests[m.to][m.id] \in DOMAIN calls[m.to]
<1>1. m \in Message /\ m.type = "response"
  BY DEF TypeOK, Listens
<1>2. m \in [type : {"response"}, of : AnyCall, id : AnyId, key : Key, to : Client]
  BY <1>1 DEF Message
<1>3. m.to \in Client /\ m.id \in AnyId /\ m.of \in AnyCall
  BY <1>2
<1>4. m.id \in DOMAIN requests[m.to]
  BY DEF Matches
<1>5. requests[m.to] \in [DOMAIN requests[m.to] -> DOMAIN calls[m.to]]
  BY <1>3 DEF TypeOK
<1>6. QED BY <1>2, <1>3, <1>4, <1>5

(* The steps in which a callback is called, and what they do. *)
CallsBack(m, b) ==
  /\ Listens(m) /\ Matches(m)
  /\ calls' = [calls EXCEPT ![m.to][requests[m.to][m.id]] =
                 Called(calls[m.to][requests[m.to][m.id]], m, b)]

LEMMA HandlesCallBack ==
  ASSUME NEW m \in net
  PROVE  (Handle(m) => CallsBack(m, TRUE)) /\ (HandleThrows(m) => CallsBack(m, FALSE))
BY DEF Handle, HandleThrows, CallsBack

(* The callback changes one call. *)
LEMMA CallsBackOne ==
  ASSUME TypeOK, NEW m \in net, NEW b \in BOOLEAN, CallsBack(m, b)
  PROVE  /\ m.to \in Client /\ m.id \in DOMAIN requests[m.to]
         /\ requests[m.to][m.id] \in DOMAIN calls[m.to]
         /\ calls' \in [Client -> Seq(CallRecord)]
         /\ SameIds
         /\ \A d \in Client : d # m.to => calls'[d] = calls[d]
         /\ \A i \in DOMAIN calls[m.to] :
              i # requests[m.to][m.id] => calls'[m.to][i] = calls[m.to][i]
         /\ calls'[m.to][requests[m.to][m.id]].called
              = calls[m.to][requests[m.to][m.id]].called + 1
         /\ calls'[m.to][requests[m.to][m.id]].answers
              = calls[m.to][requests[m.to][m.id]].answers \cup {m.of}
         /\ calls'[m.to][requests[m.to][m.id]].acked = b
<1>1. /\ m.to \in Client /\ m.of \in AnyCall /\ m.id \in DOMAIN requests[m.to]
      /\ requests[m.to][m.id] \in DOMAIN calls[m.to]
  BY MatchedCall DEF CallsBack
<1> DEFINE n == requests[m.to][m.id]
           r == calls[m.to][n]
           new == Called(r, m, b)
<1>2. calls \in [Client -> Seq(CallRecord)] /\ calls[m.to] \in Seq(CallRecord)
  BY <1>1 DEF TypeOK
<1>3. r \in CallRecord
  BY <1>1, <1>2
<1>4. /\ new \in CallRecord /\ new.id = r.id /\ new.called = r.called + 1
      /\ new.answers = r.answers \cup {m.of} /\ new.acked = b
  <2>1. /\ r.id \in AnyId /\ r.key \in Key /\ r.called + 1 \in Nat
        /\ r.answers \cup {m.of} \in SUBSET AnyCall
    <3> HIDE DEF r
    <3>1. r.id \in AnyId /\ r.key \in Key /\ r.called \in Nat /\ r.answers \in SUBSET AnyCall
      BY <1>3 DEF CallRecord
    <3>2. QED BY <1>1, <3>1
  <2>2. new = [id |-> r.id, key |-> r.key, called |-> r.called + 1, acked |-> b,
               answers |-> r.answers \cup {m.of}]
    BY DEF Called
  <2> HIDE DEF r, new
  <2>3. new \in CallRecord
    BY <2>1, <2>2 DEF CallRecord
  <2>4. QED BY <2>2, <2>3
<1> HIDE DEF new
<1>5. calls' = [calls EXCEPT ![m.to] = [calls[m.to] EXCEPT ![n] = new]]
  BY <1>1, <1>2 DEF new, CallsBack
<1>6. /\ [calls[m.to] EXCEPT ![n] = new] \in Seq(CallRecord)
      /\ Len([calls[m.to] EXCEPT ![n] = new]) = Len(calls[m.to])
  <2>1. n \in 1..Len(calls[m.to])
    BY <1>1, <1>2
  <2>2. calls[m.to] \in Seq(CallRecord) /\ new \in CallRecord
    BY <1>2, <1>4
  <2>3. QED BY <2>1, <2>2, ExceptSeq
<1>7. calls'[m.to] = [calls[m.to] EXCEPT ![n] = new]
  BY <1>1, <1>2, <1>5
<1>8. \A d \in Client : d # m.to => calls'[d] = calls[d]
  BY <1>2, <1>5
<1>9. calls' \in [Client -> Seq(CallRecord)]
  BY <1>1, <1>2, <1>5, <1>6
<1>10. /\ DOMAIN calls'[m.to] = DOMAIN calls[m.to] /\ Len(calls'[m.to]) = Len(calls[m.to])
       /\ calls'[m.to][n] = new
       /\ \A i \in DOMAIN calls[m.to] : i # n => calls'[m.to][i] = calls[m.to][i]
  BY <1>1, <1>2, <1>6, <1>7
<1>11. SameIds
  BY <1>4, <1>8, <1>10 DEF SameIds
<1>12. /\ calls'[m.to][n].called = r.called + 1
       /\ calls'[m.to][n].answers = r.answers \cup {m.of}
       /\ calls'[m.to][n].acked = b
  BY <1>4, <1>10
<1>13. QED BY <1>1, <1>8, <1>9, <1>10, <1>11, <1>12

(* The same, one fact at a time: whose call it is, what stays of every call, and that the
   callback changes the record of that call and no other record. *)
LEMMA CallsBackCall ==
  ASSUME TypeOK, NEW m \in net, NEW b \in BOOLEAN, CallsBack(m, b)
  PROVE  /\ m.to \in Client /\ m.id \in DOMAIN requests[m.to]
         /\ requests[m.to][m.id] \in DOMAIN calls[m.to]
BY CallsBackOne

LEMMA CallsBackKeeps ==
  ASSUME TypeOK, NEW m \in net, NEW b \in BOOLEAN, CallsBack(m, b)
  PROVE  calls' \in [Client -> Seq(CallRecord)] /\ SameIds
BY CallsBackOne

LEMMA CallsBackClient ==
  ASSUME TypeOK, NEW m \in net, NEW b \in BOOLEAN, CallsBack(m, b),
         NEW d \in Client, d # m.to
  PROVE  calls'[d] = calls[d]
BY CallsBackOne

LEMMA CallsBackThis ==
  ASSUME TypeOK, NEW m \in net, NEW b \in BOOLEAN, CallsBack(m, b)
  PROVE  /\ calls'[m.to][requests[m.to][m.id]].called
              = calls[m.to][requests[m.to][m.id]].called + 1
         /\ calls'[m.to][requests[m.to][m.id]].answers
              = calls[m.to][requests[m.to][m.id]].answers \cup {m.of}
         /\ calls'[m.to][requests[m.to][m.id]].acked = b
BY CallsBackOne

LEMMA CallsBackOther ==
  ASSUME TypeOK, NEW m \in net, NEW b \in BOOLEAN, CallsBack(m, b),
         NEW c \in Client, NEW i \in DOMAIN calls[c], ~(c = m.to /\ i = requests[m.to][m.id])
  PROVE  calls'[c][i] = calls[c][i]
<1>1. CASE c = m.to
  <2>1. \A j \in DOMAIN calls[m.to] :
          j # requests[m.to][m.id] => calls'[m.to][j] = calls[m.to][j]
    BY CallsBackOne
  <2>2. QED BY <1>1, <2>1
<1>2. CASE c # m.to
  BY <1>2, CallsBackClient
<1>3. QED BY <1>1, <1>2

------------------------------------------------------------------------------
(* Types. *)

(* A datagram that a step adds is of its type. *)
LEMMA RequestType ==
  ASSUME NEW c \in Client, NEW n \in Nat \ {0}, NEW id \in AnyId, NEW k \in Key
  PROVE  Request(c, n, id, k) \in Message
BY DEF Request, Message, AnyCall

LEMMA ResponseType ==
  ASSUME NEW m \in Message, m.type = "request", NEW c \in Client
  PROVE  Response(m, c) \in Message
<1>1. m \in [type : {"request"}, of : AnyCall, id : AnyId, key : Key]
  BY DEF Message
<1>2. m.of \in AnyCall /\ m.id \in AnyId /\ m.key \in Key
  BY <1>1
<1>3. QED BY <1>2 DEF Response, Message

LEMMA AckType ==
  ASSUME NEW c \in Client, NEW id \in AnyId
  PROVE  Ack(c, id) \in Message
BY DEF Ack, Message

(* What a handled response leaves in requests_ is of the right type. *)
LEMMA ErasedType ==
  ASSUME TypeOK, NEW d \in Client, NEW id, SameIds,
         requests' = [requests EXCEPT ![d] = Erase(requests[d], id)]
  PROVE  /\ DOMAIN requests' = Client
         /\ \A c \in Client :
              /\ DOMAIN requests'[c] \subseteq AnyId
              /\ requests'[c] \in [DOMAIN requests'[c] -> DOMAIN calls'[c]]
<1>1. DOMAIN requests' = Client
  BY DEF TypeOK
<1>2. ASSUME NEW c \in Client
      PROVE  /\ DOMAIN requests'[c] \subseteq AnyId
             /\ requests'[c] \in [DOMAIN requests'[c] -> DOMAIN calls'[c]]
  <2>1. /\ DOMAIN requests[c] \subseteq AnyId
        /\ requests[c] \in [DOMAIN requests[c] -> DOMAIN calls[c]]
    BY DEF TypeOK
  <2>2. DOMAIN calls'[c] = DOMAIN calls[c]
    BY DEF SameIds
  <2>3. CASE c = d
    <3>1. requests'[c] = [i \in DOMAIN requests[c] \ {id} |-> requests[c][i]]
      BY <2>3 DEF TypeOK, Erase
    <3>2. QED BY <2>1, <2>2, <3>1
  <2>4. CASE c # d
    <3>1. requests'[c] = requests[c]
      BY <2>4 DEF TypeOK
    <3>2. QED BY <2>1, <2>2, <3>1
  <2>5. QED BY <2>3, <2>4
<1>3. QED BY <1>1, <1>2

LEMMA TypeCalled ==
  ASSUME TypeOK, NEW c \in Client, NEW k \in Key, Call(c, k)
  PROVE  TypeOK'
<1>1. Keep(c, k) /\ UNCHANGED <<socketVars, now, steady>>
  BY DEF Call
<1>2. /\ bound' \subseteq Client /\ open' \subseteq Client /\ registered' \subseteq Client
      /\ now' \in Nat /\ steady' \in BOOLEAN
  BY <1>1 DEF TypeOK, socketVars
<1>3. sequence' \in [Client -> Sequence] /\ burst' \in [Client -> Nat]
  BY <1>1, NextIdType DEF TypeOK, Keep
<1>4. calls' \in [Client -> Seq(CallRecord)]
  BY <1>1, KeptCalls
<1>5. DOMAIN requests' = Client
  BY <1>1, KeptRequest
<1>6. ASSUME NEW d \in Client
      PROVE  /\ DOMAIN requests'[d] \subseteq AnyId
             /\ requests'[d] \in [DOMAIN requests'[d] -> DOMAIN calls'[d]]
  <2>1. CASE d = c
    BY <1>1, <2>1, KeptRequest, KeptCalls, NextIdType DEF TypeOK
  <2>2. CASE d # c
    BY <1>1, <2>2, KeptRequest, KeptCalls DEF TypeOK
  <2>3. QED BY <2>1, <2>2
<1>7. net' \subseteq Message
  <2>1. Len(calls[c]) + 1 \in Nat \ {0}
    BY <1>1, KeptCalls
  <2>2. Request(c, Len(calls[c]) + 1, NextId(c), k) \in Message
    BY <2>1, RequestType, NextIdType
  <2>3. QED BY <2>2 DEF Call, TypeOK
<1>8. failures' \in Nat
  BY DEF Call, SendThrows, TypeOK
<1>9. QED BY <1>2, <1>3, <1>4, <1>5, <1>6, <1>7, <1>8 DEF TypeOK

LEMMA TypeHandled ==
  ASSUME TypeOK, NEW m \in net, Handle(m) \/ HandleThrows(m)
  PROVE  TypeOK'
<1>1. /\ Listens(m) /\ Matches(m)
      /\ UNCHANGED <<socketVars, clockVars, sequence>>
  BY DEF Handle, HandleThrows
<1>2. m.to \in Client /\ m.id \in AnyId
  BY <1>1, MatchedCall
<1>3. calls' \in [Client -> Seq(CallRecord)] /\ SameIds
  <2>1. CallsBack(m, TRUE) \/ CallsBack(m, FALSE)
    BY HandlesCallBack
  <2>2. QED BY <2>1, CallsBackKeeps
<1>4. /\ DOMAIN requests' = Client
      /\ \A c \in Client :
           /\ DOMAIN requests'[c] \subseteq AnyId
           /\ requests'[c] \in [DOMAIN requests'[c] -> DOMAIN calls'[c]]
  <2>1. CASE Handle(m)
    BY <1>2, <1>3, <2>1, ErasedType DEF Handle
  <2>2. CASE HandleThrows(m)
    BY <1>3, <2>2 DEF HandleThrows, TypeOK, SameIds
  <2>3. QED BY <2>1, <2>2
<1>5. net' \subseteq Message /\ failures' \in Nat
  <2>1. Ack(m.to, m.id) \in Message
    BY <1>2, AckType
  <2>2. CASE Handle(m)
    BY <2>1, <2>2 DEF Handle, TypeOK
  <2>3. CASE HandleThrows(m)
    BY <2>3 DEF HandleThrows, SendThrows, TypeOK
  <2>4. QED BY <2>2, <2>3
<1>6. QED BY <1>1, <1>3, <1>4, <1>5 DEF TypeOK, socketVars, clockVars

LEMMA TypeNext == TypeOK /\ [Next]_vars => TypeOK'
<1> SUFFICES ASSUME TypeOK, [Next]_vars PROVE TypeOK'
  OBVIOUS
<1>1. CASE \E c \in Client : SetImpl(c) \/ Initialize(c) \/ Register(c) \/ Unregister(c)
  BY <1>1 DEF TypeOK, SetImpl, Initialize, Register, Unregister, clockVars
<1>2. CASE \E c \in Client, k \in Key : Call(c, k)
  BY <1>2, TypeCalled
<1>3. CASE \E m \in net : Drop(m) \/ Lose(m)
  BY <1>3 DEF TypeOK, Drop, Lose, socketVars, clockVars
<1>4. CASE \E m \in net : Handle(m) \/ HandleThrows(m)
  BY <1>4, TypeHandled
<1>5. CASE \E m \in net, c \in Client : Answer(m, c)
  <2>1. PICK m \in net, c \in Client : Answer(m, c)
    BY <1>5
  <2>2. Response(m, c) \in Message
    BY <2>1, ResponseType DEF Answer, TypeOK
  <2>3. QED BY <2>1, <2>2 DEF TypeOK, Answer, socketVars, clockVars
<1>6. CASE Elapse \/ TurnBack
  <2>1. now' \in Nat /\ steady' \in BOOLEAN /\ burst' \in [Client -> Nat]
    <3>1. CASE Elapse
      BY <3>1 DEF TypeOK, Elapse
    <3>2. CASE TurnBack
      <4>1. now' \in Nat
        BY <3>2 DEF TypeOK, TurnBack
      <4>2. steady' \in BOOLEAN
        BY <3>2 DEF TurnBack
      <4>3. burst' \in [Client -> Nat]
        BY <3>2 DEF TurnBack
      <4>4. QED BY <4>1, <4>2, <4>3
    <3>3. QED BY <1>6, <3>1, <3>2
  <2>2. UNCHANGED <<socketVars, sequence, requests, net, calls, failures>>
    BY <1>6 DEF Elapse, TurnBack
  <2>3. QED BY <2>1, <2>2 DEF TypeOK, socketVars
<1>7. CASE UNCHANGED vars
  BY <1>7 DEF TypeOK, vars, socketVars, clockVars
<1>8. QED BY <1>1, <1>2, <1>3, <1>4, <1>5, <1>6, <1>7 DEF Next

LEMMA TypeInit == Init => TypeOK
<1> SUFFICES ASSUME Init PROVE TypeOK
  OBVIOUS
<1>1. 0 \in Sequence
  BY RangeAssumption DEF Sequence
<1>2. calls \in [Client -> Seq(CallRecord)]
  BY DEF Init
<1>3. \A c \in Client : /\ DOMAIN requests[c] \subseteq AnyId
                        /\ requests[c] \in [DOMAIN requests[c] -> DOMAIN calls[c]]
  BY DEF Init
<1>4. QED BY <1>1, <1>2, <1>3 DEF Init, TypeOK

(* Every reachable state is of the stated types: above all, the sequence stays within its mask
   and requests_ names calls that were made. *)
THEOREM ClientTypeCorrect == Spec => []TypeOK
BY TypeInit, TypeNext, PTL DEF Spec

------------------------------------------------------------------------------
(* The sequences of a client's calls. *)

(* Calls less than SequenceRange apart differ in their sequences by the number of calls between
   them, round the corner or not. *)
Window ==
  \A c \in Client : \A i, j \in DOMAIN calls[c] :
    i <= j /\ j - i < SequenceRange =>
      \/ calls[c][j].id.sequence = calls[c][i].id.sequence + (j - i)
      \/ calls[c][j].id.sequence = calls[c][i].id.sequence + (j - i) - SequenceRange

(* The generator goes on from the last call, with the machine it was made for. *)
Generated ==
  \A c \in Client :
    /\ calls[c] # <<>> => calls[c][Len(calls[c])].id.sequence = sequence[c]
    /\ \A i \in DOMAIN calls[c] :
         calls[c][i].id.machine = MachineId(Datacenter[c], Worker[c])

(* The ids of calls are what a generator makes. *)
LEMMA CallsTyped ==
  ASSUME TypeOK, NEW c \in Client, NEW i \in DOMAIN calls[c]
  PROVE  /\ calls[c][i] \in CallRecord
         /\ calls[c][i].id \in AnyId
         /\ calls[c][i].id.sequence \in Sequence
         /\ calls[c][i].id.time \in Nat
         /\ calls[c][i].called \in Nat
         /\ i \in Nat \ {0} /\ Len(calls[c]) \in Nat
         /\ DOMAIN calls[c] = 1..Len(calls[c])
<1>1. calls[c] \in Seq(CallRecord)
  BY DEF TypeOK
<1>2. calls[c][i] \in CallRecord
  BY <1>1
<1>3. calls[c][i].id \in AnyId /\ calls[c][i].called \in Nat
  BY <1>2 DEF CallRecord
<1>4. calls[c][i].id.sequence \in Sequence /\ calls[c][i].id.time \in Nat
  BY <1>3 DEF AnyId
<1>5. QED BY <1>1, <1>2, <1>3, <1>4

(* Window and Generated say nothing of what is not an id. *)
LEMMA WindowStays ==
  ASSUME TypeOK, TypeOK', Window, Generated, SameIds, UNCHANGED sequence
  PROVE  Window' /\ Generated'
<1>1. ASSUME NEW c \in Client
      PROVE  /\ calls'[c] # <<>> => calls[c] # <<>>
             /\ calls[c] # <<>> => Len(calls[c]) \in DOMAIN calls[c]
  <2>1. calls[c] \in Seq(CallRecord) /\ calls'[c] \in Seq(CallRecord)
    BY DEF TypeOK
  <2>2. Len(calls'[c]) = Len(calls[c])
    BY DEF SameIds
  <2>3. QED BY <2>1, <2>2
<1>2. Window'
  <2> SUFFICES ASSUME NEW c \in Client, NEW i \in DOMAIN calls'[c], NEW j \in DOMAIN calls'[c],
                      i <= j, j - i < SequenceRange
               PROVE  \/ calls'[c][j].id.sequence = calls'[c][i].id.sequence + (j - i)
                      \/ calls'[c][j].id.sequence
                           = calls'[c][i].id.sequence + (j - i) - SequenceRange
    BY DEF Window
  <2>1. /\ i \in DOMAIN calls[c] /\ calls'[c][i].id = calls[c][i].id
        /\ j \in DOMAIN calls[c] /\ calls'[c][j].id = calls[c][j].id
    BY DEF SameIds
  <2>2. QED BY <2>1 DEF Window
<1>3. Generated'
  BY <1>1 DEF Generated, SameIds
<1>4. QED BY <1>2, <1>3

(* One call on, the sequence is one up, round the corner or not. *)
LEMMA OneOn ==
  ASSUME NEW a \in Sequence, NEW s \in Sequence, NEW t \in Sequence,
         NEW d \in Nat, d + 1 < SequenceRange,
         s = a + d \/ s = a + d - SequenceRange,
         t = s + 1 \/ t = s + 1 - SequenceRange
  PROVE  t = a + (d + 1) \/ t = a + (d + 1) - SequenceRange
BY RangeAssumption DEF Sequence

(* The sequence of a new call is one up from the last call's. *)
LEMMA WindowGrows ==
  ASSUME TypeOK, Window, Generated, NEW c \in Client, NEW k \in Key, Keep(c, k)
  PROVE  Window' /\ Generated'
<1> DEFINE n == Len(calls[c])
           new == NextId(c).sequence
<1>0. n \in Nat /\ DOMAIN calls[c] = 1..n /\ DOMAIN calls'[c] = 1..(n + 1)
  BY KeptCalls
<1>1. /\ Len(calls'[c]) = n + 1
      /\ \A i \in 1..n : calls'[c][i] = calls[c][i]
      /\ calls'[c][n + 1].id = NextId(c)
      /\ \A d \in Client : d # c => calls'[d] = calls[d]
  <2>1. calls'[c][n + 1] = NewCall(c, k)
    BY KeptCalls
  <2>2. NewCall(c, k).id = NextId(c)
    BY DEF NewCall
  <2>3. QED BY <1>0, <2>1, <2>2, KeptCalls
<1>2. /\ new \in Sequence /\ sequence[c] \in Sequence
      /\ new = sequence[c] + 1 \/ new = sequence[c] + 1 - SequenceRange
      /\ NextId(c).machine = MachineId(Datacenter[c], Worker[c])
  BY NextIdType, SuccessorType DEF TypeOK, NextSequence
<1>3. sequence' = [sequence EXCEPT ![c] = new]
  BY NextIdType DEF Keep
<1> HIDE DEF n, new
<1>4. ASSUME NEW i \in 1..n, n + 1 - i < SequenceRange
      PROVE  \/ new = calls[c][i].id.sequence + (n + 1 - i)
             \/ new = calls[c][i].id.sequence + (n + 1 - i) - SequenceRange
  <2>1. n \in 1..n /\ n - i < SequenceRange /\ i <= n
    BY <1>0, <1>4, RangeAssumption
  <2>2. calls[c] # <<>>
    BY <1>0, <2>1
  <2>3. calls[c][n].id.sequence = sequence[c]
    BY <2>2 DEF Generated, n
  <2>4. \/ sequence[c] = calls[c][i].id.sequence + (n - i)
        \/ sequence[c] = calls[c][i].id.sequence + (n - i) - SequenceRange
    BY <1>0, <2>1, <2>3 DEF Window
  <2>5. calls[c][i].id.sequence \in Sequence
    BY <1>0, CallsTyped
  <2>6. n - i \in Nat /\ (n - i) + 1 = n + 1 - i /\ (n - i) + 1 < SequenceRange
    BY <1>0, <1>4
  <2>7. QED BY <1>2, <2>4, <2>5, <2>6, OneOn
<1>5. Window'
  <2> SUFFICES ASSUME NEW d \in Client, NEW i \in DOMAIN calls'[d], NEW j \in DOMAIN calls'[d],
                      i <= j, j - i < SequenceRange
               PROVE  \/ calls'[d][j].id.sequence = calls'[d][i].id.sequence + (j - i)
                      \/ calls'[d][j].id.sequence
                           = calls'[d][i].id.sequence + (j - i) - SequenceRange
    BY DEF Window
  <2>1. CASE d # c
    BY <1>1, <2>1 DEF Window
  <2>2. CASE d = c /\ j # n + 1
    <3>1. i \in 1..n /\ j \in 1..n
      BY <1>0, <2>2
    <3>2. calls'[d][i] = calls[c][i] /\ calls'[d][j] = calls[c][j]
      BY <1>1, <2>2, <3>1
    <3>3. \/ calls[c][j].id.sequence = calls[c][i].id.sequence + (j - i)
          \/ calls[c][j].id.sequence = calls[c][i].id.sequence + (j - i) - SequenceRange
      BY <1>0, <3>1 DEF Window
    <3>4. QED BY <3>2, <3>3
  <2>3. CASE d = c /\ j = n + 1 /\ i # n + 1
    <3>1. i \in 1..n
      BY <1>0, <2>3
    <3>2. calls'[d][i] = calls[c][i] /\ calls'[d][j].id = NextId(c)
      BY <1>1, <2>3, <3>1
    <3>3. \/ new = calls[c][i].id.sequence + (j - i)
          \/ new = calls[c][i].id.sequence + (j - i) - SequenceRange
      <4>1. n + 1 - i < SequenceRange /\ j = n + 1
        BY <1>0, <2>3, <3>1
      <4>2. QED BY <1>0, <1>4, <3>1, <4>1
    <3>4. QED BY <3>2, <3>3 DEF new
  <2>4. CASE d = c /\ j = n + 1 /\ i = n + 1
    BY <1>0, <1>1, <1>2, <2>4 DEF Sequence, new
  <2>5. QED BY <2>1, <2>2, <2>3, <2>4
<1>6. Generated'
  <2> SUFFICES ASSUME NEW d \in Client
               PROVE  /\ calls'[d] # <<>> => calls'[d][Len(calls'[d])].id.sequence = sequence'[d]
                      /\ \A i \in DOMAIN calls'[d] :
                           calls'[d][i].id.machine = MachineId(Datacenter[d], Worker[d])
    BY DEF Generated
  <2>1. CASE d # c
    BY <1>1, <1>3, <2>1 DEF Generated, TypeOK
  <2>2. CASE d = c
    <3>1. sequence'[c] = new /\ calls'[c][n + 1].id.sequence = new
      BY <1>1, <1>3 DEF TypeOK, new
    <3>2. \A i \in DOMAIN calls'[c] :
            calls'[c][i].id.machine = MachineId(Datacenter[c], Worker[c])
      <4>1. \A i \in 1..n : calls'[c][i].id.machine = MachineId(Datacenter[c], Worker[c])
        BY <1>0, <1>1 DEF Generated
      <4>2. \A i \in DOMAIN calls'[c] : i \in 1..n \/ i = n + 1
        BY <1>0
      <4>3. QED BY <1>1, <1>2, <4>1, <4>2
    <3>3. QED BY <1>1, <2>2, <3>1, <3>2
  <2>3. QED BY <2>1, <2>2
<1>7. QED BY <1>5, <1>6

(* Which steps add no call. *)
LEMMA OnlyCallAdds ==
  ASSUME TypeOK, [Next]_vars, ~\E c \in Client, k \in Key : Call(c, k)
  PROVE  SameIds /\ UNCHANGED sequence
<1>1. CASE UNCHANGED calls
  BY <1>1 DEF SameIds, Next, vars, clockVars, SetImpl, Initialize, Register, Unregister, Drop,
     Lose, Answer, Elapse, TurnBack, Handle, HandleThrows
<1>2. CASE \E m \in net : Handle(m) \/ HandleThrows(m)
  <2>1. PICK m \in net : Handle(m) \/ HandleThrows(m)
    BY <1>2
  <2>2. CallsBack(m, TRUE) \/ CallsBack(m, FALSE)
    BY <2>1, HandlesCallBack
  <2>3. QED BY <2>1, <2>2, CallsBackKeeps DEF Handle, HandleThrows
<1>3. QED BY <1>1, <1>2 DEF Next, vars, SetImpl, Initialize, Register, Unregister, Drop, Lose,
     Answer, Elapse, TurnBack

LEMMA WindowNext == TypeOK /\ Window /\ Generated /\ [Next]_vars => Window' /\ Generated'
<1> SUFFICES ASSUME TypeOK, Window, Generated, [Next]_vars PROVE Window' /\ Generated'
  OBVIOUS
<1>1. CASE \E c \in Client, k \in Key : Call(c, k)
  BY <1>1, WindowGrows DEF Call
<1>2. CASE ~\E c \in Client, k \in Key : Call(c, k)
  BY <1>2, OnlyCallAdds, WindowStays, TypeNext
<1>3. QED BY <1>1, <1>2

LEMMA WindowTruncates == TypeOK /\ Window => TruncatedIdsDiffer
<1> SUFFICES ASSUME TypeOK, Window, NEW c \in Client, NEW i \in DOMAIN calls[c],
                    NEW j \in DOMAIN calls[c], i < j, j - i < SequenceRange
             PROVE  Low32(calls[c][i].id) # Low32(calls[c][j].id)
  BY DEF TruncatedIdsDiffer
<1>1. /\ calls[c][i].id \in AnyId /\ calls[c][j].id \in AnyId
      /\ calls[c][i].id.sequence \in Sequence /\ calls[c][j].id.sequence \in Sequence
      /\ i \in Nat /\ j \in Nat
  BY CallsTyped
<1>2. calls[c][i].id.sequence # calls[c][j].id.sequence
  BY <1>1, RangeAssumption DEF Window, Sequence
<1>3. QED BY <1>1, <1>2 DEF Low32, AnyId

(* The low 32 bits of fewer than SequenceRange (4096) successive ids of a client differ,
   whatever the clock does. *)
THEOREM TruncatedIdsDifferAlways == Spec => []TruncatedIdsDiffer
<1>1. Init => Window /\ Generated
  BY DEF Init, Window, Generated
<1>2. QED BY <1>1, TypeInit, TypeNext, WindowNext, WindowTruncates, PTL DEF Spec

------------------------------------------------------------------------------
(* requests_ and the calls. *)

(* Each entry of requests_ is a call with that id which has not been acknowledged. *)
Linked ==
  \A c \in Client : \A id \in DOMAIN requests[c] :
    calls[c][requests[c][id]].id = id /\ ~calls[c][requests[c][id]].acked

(* A request or a response bears the id of the call it is about. *)
Genuine ==
  \A m \in net : m.type \in {"request", "response"} =>
    /\ m.of.client \in Client
    /\ m.of.nth \in DOMAIN calls[m.of.client]
    /\ calls[m.of.client][m.of.nth].id = m.id

(* The other steps leave the calls alone. *)
LEMMA WhoChangesCalls ==
  ASSUME [Next]_vars
  PROVE  \/ \E c \in Client, k \in Key : Call(c, k)
         \/ \E m \in net : Handle(m) \/ HandleThrows(m)
         \/ UNCHANGED <<calls, requests, sequence>>
BY DEF Next, vars, SetImpl, Initialize, Register, Unregister, Drop, Lose, Answer, Elapse, TurnBack

LEMMA CallsStayNext ==
  ASSUME TypeOK, [Next]_vars
  PROVE  CallsStay
<1>1. CASE \E c \in Client, k \in Key : Call(c, k)
  <2>1. PICK c \in Client, k \in Key : Keep(c, k)
    BY <1>1 DEF Call
  <2>2. SUFFICES ASSUME NEW d \in Client, NEW i \in DOMAIN calls[d]
                 PROVE  i \in DOMAIN calls'[d] /\ calls'[d][i] = calls[d][i]
    BY CallsTyped DEF CallsStay
  <2>3. CASE d = c
    BY <2>1, <2>3, KeptCalls
  <2>4. CASE d # c
    BY <2>1, <2>4, KeptCalls
  <2>5. QED BY <2>3, <2>4
<1>2. CASE \E m \in net : Handle(m) \/ HandleThrows(m)
  <2>1. PICK m \in net, b \in BOOLEAN : CallsBack(m, b)
    BY <1>2, HandlesCallBack
  <2>2. SUFFICES ASSUME NEW d \in Client, NEW i \in DOMAIN calls[d]
                 PROVE  calls'[d][i].called >= calls[d][i].called
    BY <2>1, CallsBackKeeps DEF CallsStay, SameIds
  <2>3. calls[d][i].called \in Nat
    BY CallsTyped
  <2>4. CASE d = m.to /\ i = requests[m.to][m.id]
    <3>1. calls'[d][i].called = calls[d][i].called + 1
      BY <2>1, <2>4, CallsBackThis
    <3>2. QED BY <2>3, <3>1
  <2>5. CASE ~(d = m.to /\ i = requests[m.to][m.id])
    <3>1. calls'[d][i] = calls[d][i]
      BY <2>1, <2>5, CallsBackOther
    <3>2. QED BY <2>3, <3>1
  <2>6. QED BY <2>4, <2>5
<1>3. CASE UNCHANGED <<calls, requests, sequence>>
  BY <1>3, CallsTyped DEF CallsStay
<1>4. QED BY <1>1, <1>2, <1>3, WhoChangesCalls

LEMMA LinkedNext == TypeOK /\ Linked /\ [Next]_vars => Linked'
<1> SUFFICES ASSUME TypeOK, Linked, [Next]_vars PROVE Linked'
  OBVIOUS
<1>1. CASE \E c \in Client, k \in Key : Call(c, k)
  <2>1. PICK c \in Client, k \in Key : Keep(c, k)
    BY <1>1 DEF Call
  <2>2. SUFFICES ASSUME NEW d \in Client, NEW id \in DOMAIN requests'[d]
                 PROVE  calls'[d][requests'[d][id]].id = id
                          /\ ~calls'[d][requests'[d][id]].acked
    BY DEF Linked
  <2>3. CASE d # c
    <3>1. calls'[d] = calls[d]
      BY <2>1, <2>3, KeptCalls
    <3>2. requests'[d] = requests[d]
      BY <2>1, <2>3, KeptRequest
    <3>3. QED BY <3>1, <3>2 DEF Linked
  <2>4. CASE d = c /\ id \in DOMAIN requests[c]
    <3>1. requests'[d][id] = requests[c][id] /\ requests[c][id] \in DOMAIN calls[c]
      BY <2>1, <2>4, KeptRequest DEF TypeOK
    <3>2. calls'[d][requests[c][id]] = calls[c][requests[c][id]]
      BY <2>1, <2>4, <3>1, KeptCalls
    <3>3. QED BY <2>4, <3>1, <3>2 DEF Linked
  <2>5. CASE d = c /\ id \notin DOMAIN requests[c]
    <3>1. requests'[d][id] = Len(calls[c]) + 1 /\ id = NextId(c)
      BY <2>1, <2>5, KeptRequest
    <3>2. calls'[d][Len(calls[c]) + 1] = NewCall(c, k)
      BY <2>1, <2>5, KeptCalls
    <3>3. QED BY <3>1, <3>2 DEF NewCall
  <2>6. QED BY <2>3, <2>4, <2>5
<1>2. CASE \E m \in net : Handle(m)
  <2>1. PICK m \in net : Handle(m)
    BY <1>2
  <2>2. CallsBack(m, TRUE)
    BY <2>1, HandlesCallBack
  <2>3. SUFFICES ASSUME NEW d \in Client, NEW id \in DOMAIN requests'[d]
                 PROVE  calls'[d][requests'[d][id]].id = id
                          /\ ~calls'[d][requests'[d][id]].acked
    BY DEF Linked
  <2>4. CASE d # m.to
    <3>1. requests'[d] = requests[d] /\ calls'[d] = calls[d]
      BY <2>1, <2>2, <2>4, CallsBackCall, CallsBackClient DEF Handle, TypeOK
    <3>2. QED BY <3>1 DEF Linked
  <2>5. CASE d = m.to
    <3>1. requests'[d] = Erase(requests[d], m.id)
      BY <2>1, <2>2, <2>5, CallsBackCall DEF Handle, TypeOK
    <3>2. /\ id \in DOMAIN requests[d] /\ id # m.id
          /\ requests'[d][id] = requests[d][id]
      BY <3>1 DEF Erase
    <3>3. requests[d][id] \in DOMAIN calls[d]
      BY <3>2 DEF TypeOK
    <3>4. requests[d][id] # requests[d][m.id]
      <4>1. calls[d][requests[d][id]].id = id
        BY <3>2 DEF Linked
      <4>2. m.id \in DOMAIN requests[d]
        BY <2>2, <2>5, CallsBackCall
      <4>3. calls[d][requests[d][m.id]].id = m.id
        BY <4>2 DEF Linked
      <4>4. QED BY <3>2, <4>1, <4>3
    <3>5. calls'[d][requests[d][id]] = calls[d][requests[d][id]]
      BY <2>2, <2>5, <3>3, <3>4, CallsBackOther
    <3>6. QED BY <3>2, <3>5 DEF Linked
  <2>6. QED BY <2>4, <2>5
<1>3. CASE \E m \in net : HandleThrows(m)
  <2>1. PICK m \in net : HandleThrows(m)
    BY <1>3
  <2>2. CallsBack(m, FALSE) /\ UNCHANGED requests
    BY <2>1, HandlesCallBack DEF HandleThrows
  <2>3. SUFFICES ASSUME NEW d \in Client, NEW id \in DOMAIN requests[d]
                 PROVE  calls'[d][requests[d][id]].id = id
                          /\ ~calls'[d][requests[d][id]].acked
    BY <2>2 DEF Linked
  <2>4. requests[d][id] \in DOMAIN calls[d]
    BY DEF TypeOK
  <2>5. calls'[d][requests[d][id]].id = id
    <3>1. calls'[d][requests[d][id]].id = calls[d][requests[d][id]].id
      BY <2>2, <2>4, CallsBackKeeps DEF SameIds
    <3>2. QED BY <3>1 DEF Linked
  <2>6. ~calls'[d][requests[d][id]].acked
    <3>1. CASE d = m.to /\ requests[d][id] = requests[m.to][m.id]
      BY <2>2, <3>1, CallsBackThis
    <3>2. CASE ~(d = m.to /\ requests[d][id] = requests[m.to][m.id])
      <4>1. calls'[d][requests[d][id]] = calls[d][requests[d][id]]
        BY <2>2, <2>4, <3>2, CallsBackOther
      <4>2. QED BY <4>1 DEF Linked
    <3>3. QED BY <3>1, <3>2
  <2>7. QED BY <2>5, <2>6
<1>4. CASE UNCHANGED <<calls, requests, sequence>>
  BY <1>4 DEF Linked
<1>5. QED BY <1>1, <1>2, <1>3, <1>4, WhoChangesCalls

------------------------------------------------------------------------------
(* What is under way. *)

(* Where a datagram that was not there before comes from. *)
LEMMA NewDatagram ==
  ASSUME [Next]_vars, NEW m \in net', m \notin net
  PROVE  \/ \E c \in Client, k \in Key :
              Call(c, k) /\ m = Request(c, Len(calls[c]) + 1, NextId(c), k)
         \/ \E r \in net, c \in Client : Answer(r, c) /\ m = Response(r, c)
         \/ \E r \in net : Handle(r) /\ m = Ack(r.to, r.id)
<1>1. CASE \E c \in Client, k \in Key : Call(c, k)
  BY <1>1 DEF Call
<1>2. CASE \E r \in net, c \in Client : Answer(r, c)
  BY <1>2 DEF Answer
<1>3. CASE \E r \in net : Handle(r)
  BY <1>3 DEF Handle
<1>4. CASE net' \subseteq net
  BY <1>4
<1>5. QED BY <1>1, <1>2, <1>3, <1>4 DEF Next, vars, SetImpl, Initialize, Register, Unregister,
     Drop, Lose, HandleThrows, Elapse, TurnBack

LEMMA GenuineNext == TypeOK /\ Genuine /\ [Next]_vars => Genuine'
<1> SUFFICES ASSUME TypeOK, Genuine, [Next]_vars,
                    NEW m \in net', m.type \in {"request", "response"}
             PROVE  /\ m.of.client \in Client
                    /\ m.of.nth \in DOMAIN calls'[m.of.client]
                    /\ calls'[m.of.client][m.of.nth].id = m.id
  BY DEF Genuine
<1>1. CallsStay
  BY CallsStayNext
<1>2. CASE m \in net
  BY <1>1, <1>2 DEF Genuine, CallsStay
<1>3. CASE m \notin net
  <2>1. CASE \E c \in Client, k \in Key :
               Call(c, k) /\ m = Request(c, Len(calls[c]) + 1, NextId(c), k)
    <3>1. PICK c \in Client, k \in Key :
            Keep(c, k) /\ m = Request(c, Len(calls[c]) + 1, NextId(c), k)
      BY <2>1 DEF Call
    <3>2. m.of.client = c /\ m.of.nth = Len(calls[c]) + 1 /\ m.id = NextId(c)
      BY <3>1 DEF Request
    <3>3. /\ Len(calls[c]) \in Nat /\ DOMAIN calls'[c] = 1..(Len(calls[c]) + 1)
          /\ calls'[c][Len(calls[c]) + 1] = NewCall(c, k)
      BY <3>1, KeptCalls
    <3>4. NewCall(c, k).id = NextId(c)
      BY DEF NewCall
    <3>5. QED BY <3>2, <3>3, <3>4
  <2>2. CASE \E r \in net, c \in Client : Answer(r, c) /\ m = Response(r, c)
    <3>1. PICK r \in net, c \in Client : r.type = "request" /\ m = Response(r, c)
      BY <2>2 DEF Answer
    <3>2. m.of = r.of /\ m.id = r.id
      BY <3>1 DEF Response
    <3>3. QED BY <1>1, <3>1, <3>2 DEF Genuine, CallsStay
  <2>3. CASE \E r \in net : Handle(r) /\ m = Ack(r.to, r.id)
    BY <2>3 DEF Ack
  <2>4. QED BY <1>3, <2>1, <2>2, <2>3, NewDatagram
<1>4. QED BY <1>2, <1>3

LEMMA AckNext == TypeOK /\ Linked /\ AckOfCalled /\ [Next]_vars => AckOfCalled'
<1> SUFFICES ASSUME TypeOK, Linked, AckOfCalled, [Next]_vars, NEW m \in net', m.type = "ack"
             PROVE  \E i \in DOMAIN calls'[m.from] :
                      calls'[m.from][i].id = m.id /\ calls'[m.from][i].called > 0
  BY DEF AckOfCalled
<1>1. CallsStay
  BY CallsStayNext
<1>2. CASE m \in net
  <2>1. m.from \in Client
    BY <1>2 DEF TypeOK, Message
  <2>2. PICK i \in DOMAIN calls[m.from] :
          calls[m.from][i].id = m.id /\ calls[m.from][i].called > 0
    BY <1>2 DEF AckOfCalled
  <2>3. calls[m.from][i].called \in Nat /\ i \in DOMAIN calls'[m.from]
    BY <1>1, <2>1, CallsTyped DEF CallsStay
  <2>4. calls'[m.from][i].id = m.id /\ calls'[m.from][i].called >= calls[m.from][i].called
    BY <1>1, <2>1, <2>2 DEF CallsStay
  <2>5. calls'[m.from][i].called \in Nat
    <3>1. TypeOK'
      BY TypeNext
    <3>2. calls'[m.from] \in Seq(CallRecord)
      BY <2>1, <3>1 DEF TypeOK
    <3>3. calls'[m.from][i] \in CallRecord
      BY <2>3, <3>2
    <3>4. QED BY <3>3 DEF CallRecord
  <2>6. QED BY <2>2, <2>3, <2>4, <2>5
<1>3. CASE m \notin net
  <2>1. PICK r \in net : Handle(r) /\ m = Ack(r.to, r.id)
    BY <1>3, NewDatagram DEF Request, Response
  <2>2. m.from = r.to /\ m.id = r.id
    BY <2>1 DEF Ack
  <2>3. CallsBack(r, TRUE)
    BY <2>1, HandlesCallBack
  <2>4. PICK n : n = requests[r.to][r.id]
    OBVIOUS
  <2>5. /\ r.to \in Client /\ r.id \in DOMAIN requests[r.to] /\ n \in DOMAIN calls[r.to]
        /\ calls'[r.to][n].called = calls[r.to][n].called + 1
        /\ DOMAIN calls'[r.to] = DOMAIN calls[r.to] /\ calls'[r.to][n].id = calls[r.to][n].id
    BY <2>3, <2>4, CallsBackCall, CallsBackKeeps, CallsBackThis DEF SameIds
  <2>6. calls[r.to][n].called \in Nat
    BY <2>5, CallsTyped
  <2>7. calls[r.to][n].id = r.id
    BY <2>4, <2>5 DEF Linked
  <2>8. QED BY <2>2, <2>5, <2>6, <2>7
<1>4. QED BY <1>2, <1>3

(* The invariants that hold whatever the clock does. *)
ClientInv == TypeOK /\ Window /\ Generated /\ Linked /\ Genuine

LEMMA ClientInvInit == Init => ClientInv
<1>1. Init => Window /\ Generated /\ Linked /\ Genuine
  BY DEF Init, Window, Generated, Linked, Genuine
<1>2. QED BY <1>1, TypeInit DEF ClientInv

LEMMA ClientInvNext == ClientInv /\ [Next]_vars => ClientInv'
BY TypeNext, WindowNext, LinkedNext, GenuineNext DEF ClientInv

LEMMA ClientInvariant == Spec => []ClientInv
BY ClientInvInit, ClientInvNext, PTL DEF Spec

(* A client acknowledges only operations of its own whose callback it has called. *)
THEOREM AckOfCalledAlways == Spec => []AckOfCalled
<1>1. Init => AckOfCalled
  BY DEF Init, AckOfCalled
<1>2. ClientInv /\ AckOfCalled /\ [Next]_vars => AckOfCalled'
  BY AckNext DEF ClientInv
<1>3. QED BY <1>1, <1>2, ClientInvariant, PTL DEF Spec

(* Once its answer has been acknowledged, a callback is never called again. *)
THEOREM CalledUntilAckedAlways == Spec => CalledUntilAcked
<1>1. ASSUME ClientInv, [Next]_vars, NEW c \in Client, NEW i \in DOMAIN calls[c],
             calls'[c][i].called > calls[c][i].called
      PROVE  ~calls[c][i].acked
  <2>1. TypeOK /\ Linked /\ calls[c][i].called \in Nat
    BY <1>1, CallsTyped DEF ClientInv
  <2>2. CASE \E d \in Client, k \in Key : Call(d, k)
    <3>1. PICK d \in Client, k \in Key : Keep(d, k)
      BY <2>2 DEF Call
    <3>2. calls'[c][i] = calls[c][i]
      <4>1. CASE c = d
        BY <2>1, <3>1, <4>1, KeptCalls
      <4>2. CASE c # d
        <5>1. calls'[c] = calls[c]
          BY <2>1, <3>1, <4>2, KeptCalls
        <5>2. QED BY <5>1
      <4>3. QED BY <4>1, <4>2
    <3>3. QED BY <1>1, <2>1, <3>2
  <2>3. CASE \E m \in net : Handle(m) \/ HandleThrows(m)
    <3>1. PICK m \in net, b \in BOOLEAN : CallsBack(m, b)
      BY <2>3, HandlesCallBack
    <3>2. CASE c = m.to /\ i = requests[m.to][m.id]
      <4>1. m.to \in Client /\ m.id \in DOMAIN requests[m.to]
        BY <2>1, <3>1, CallsBackCall
      <4>2. ~calls[m.to][requests[m.to][m.id]].acked
        BY <2>1, <4>1 DEF Linked
      <4>3. QED BY <3>2, <4>2
    <3>3. CASE ~(c = m.to /\ i = requests[m.to][m.id])
      <4>1. calls'[c][i] = calls[c][i]
        BY <2>1, <3>1, <3>3, CallsBackOther
      <4>2. QED BY <1>1, <2>1, <4>1
    <3>4. QED BY <3>2, <3>3
  <2>4. CASE UNCHANGED <<calls, requests, sequence>>
    BY <1>1, <2>1, <2>4
  <2>5. QED BY <1>1, <2>2, <2>3, <2>4, WhoChangesCalls
<1>2. ClientInv /\ [Next]_vars =>
        [\A c \in Client : \A i \in DOMAIN calls[c] :
           calls'[c][i].called > calls[c][i].called => ~calls[c][i].acked]_vars
  BY <1>1
<1>3. QED BY <1>2, ClientInvariant, PTL DEF Spec, CalledUntilAcked

------------------------------------------------------------------------------
(* Ids that differ. *)

(* What uniform ids need: generators that are told apart by machine_id_, and no more calls in a
   millisecond than the sequence has values. *)
Apart ==
  /\ \A c, d \in Client :
       MachineId(Datacenter[c], Worker[c]) = MachineId(Datacenter[d], Worker[d]) => c = d
  /\ MaxBurst <= SequenceRange

(* While the clock goes forward, the calls of this millisecond are the last burst[c] ones. *)
InTime ==
  \A c \in Client :
    /\ burst[c] <= MaxBurst
    /\ \A i \in DOMAIN calls[c] :
         /\ calls[c][i].id.time <= now
         /\ calls[c][i].id.time = now => Len(calls[c]) - i < burst[c]

SteadyInTime == steady => InTime

LEMMA InTimeNext == TypeOK /\ SteadyInTime /\ [Next]_vars => SteadyInTime'
<1> SUFFICES ASSUME TypeOK, SteadyInTime, [Next]_vars, steady' PROVE InTime'
  BY DEF SteadyInTime
<1>1. CASE Elapse
  <2>1. SUFFICES ASSUME NEW c \in Client
                 PROVE  /\ burst'[c] <= MaxBurst
                        /\ \A i \in DOMAIN calls'[c] :
                             /\ calls'[c][i].id.time <= now'
                             /\ calls'[c][i].id.time = now' => Len(calls'[c]) - i < burst'[c]
    BY DEF InTime
  <2>2. burst'[c] = 0 /\ now' = now + 1 /\ calls' = calls /\ now \in Nat /\ InTime
    BY <1>1 DEF Elapse, TypeOK, SteadyInTime
  <2>3. \A i \in DOMAIN calls[c] : calls[c][i].id.time \in Nat
    BY CallsTyped
  <2>4. QED BY <2>2, <2>3, ClientAssumption DEF InTime
<1>2. CASE TurnBack
  BY <1>2 DEF TurnBack
<1>3. CASE \E c \in Client, k \in Key : Call(c, k)
  <2>1. PICK c \in Client, k \in Key : Call(c, k)
    BY <1>3
  <2>2. /\ Keep(c, k) /\ now' = now /\ burst' = [burst EXCEPT ![c] = burst[c] + 1]
        /\ burst[c] < MaxBurst /\ InTime
    BY <2>1 DEF Call, Keep, MayCall, SteadyInTime
  <2>3. SUFFICES ASSUME NEW d \in Client
                 PROVE  /\ burst'[d] <= MaxBurst
                        /\ \A i \in DOMAIN calls'[d] :
                             /\ calls'[d][i].id.time <= now
                             /\ calls'[d][i].id.time = now => Len(calls'[d]) - i < burst'[d]
    BY <2>2 DEF InTime
  <2>4. CASE d # c
    BY <2>2, <2>4, KeptCalls DEF InTime, TypeOK
  <2>5. CASE d = c
    <3>1. /\ burst'[c] = burst[c] + 1 /\ burst[c] \in Nat /\ now \in Nat
          /\ burst'[c] <= MaxBurst
      BY <2>2, ClientAssumption DEF TypeOK
    <3>2. /\ Len(calls[c]) \in Nat /\ Len(calls'[c]) = Len(calls[c]) + 1
          /\ DOMAIN calls[c] = 1..Len(calls[c]) /\ DOMAIN calls'[c] = 1..(Len(calls[c]) + 1)
      BY <2>2, KeptCalls
    <3>3. ASSUME NEW i \in DOMAIN calls'[c]
          PROVE  /\ calls'[c][i].id.time <= now
                 /\ calls'[c][i].id.time = now => Len(calls'[c]) - i < burst'[c]
      <4>1. CASE i = Len(calls[c]) + 1
        <5>1. calls'[c][i].id = NextId(c)
          <6>1. calls'[c][i] = NewCall(c, k)
            BY <2>2, <4>1, KeptCalls
          <6>2. QED BY <6>1 DEF NewCall
        <5>2. NextId(c).time = now
          BY NextIdType
        <5>3. QED BY <3>1, <3>2, <4>1, <5>1, <5>2
      <4>2. CASE i # Len(calls[c]) + 1
        <5>1. i \in DOMAIN calls[c]
          BY <3>2, <3>3, <4>2
        <5>2. calls'[c][i] = calls[c][i]
          BY <2>2, <5>1, KeptCalls
        <5>3. /\ calls[c][i].id.time <= now
              /\ calls[c][i].id.time = now => Len(calls[c]) - i < burst[c]
          BY <2>2, <5>1 DEF InTime
        <5>4. QED BY <3>1, <3>2, <5>1, <5>2, <5>3
      <4>3. QED BY <4>1, <4>2
    <3>4. QED BY <2>5, <3>1, <3>3
  <2>6. QED BY <2>4, <2>5
<1>4. CASE ~(\E c \in Client, k \in Key : Call(c, k)) /\ UNCHANGED clockVars
  <2>1. SameIds
    BY <1>4, OnlyCallAdds
  <2>2. now' = now /\ burst' = burst /\ InTime
    BY <1>4 DEF clockVars, SteadyInTime
  <2>3. QED BY <2>1, <2>2 DEF InTime, SameIds
<1>5. QED BY <1>1, <1>2, <1>3, <1>4 DEF Next, vars, SetImpl, Initialize, Register, Unregister,
     Drop, Lose, Answer, Handle, HandleThrows

(* A new id is not that of an earlier call. *)
LEMMA NewIdDiffers ==
  ASSUME TypeOK, Window, Generated, InTime, Apart,
         NEW c \in Client, NEW k \in Key, Keep(c, k), burst[c] < MaxBurst,
         NEW d \in Client, NEW i \in DOMAIN calls[d], calls[d][i].id = NextId(c)
  PROVE  FALSE
<1>1. d = c
  <2>1. calls[d][i].id.machine = MachineId(Datacenter[d], Worker[d])
    BY DEF Generated
  <2>2. NextId(c).machine = MachineId(Datacenter[c], Worker[c])
    BY NextIdType
  <2>3. QED BY <2>1, <2>2 DEF Apart
<1>2. /\ i \in Nat \ {0} /\ Len(calls[c]) \in Nat /\ i <= Len(calls[c])
      /\ calls[c][i].id.sequence \in Sequence
      /\ calls[c][i].id.time = now
  BY <1>1, CallsTyped, NextIdType
<1>3. Len(calls[c]) - i < burst[c]
  BY <1>1, <1>2 DEF InTime
<1>4. Len(calls[c]) + 1 - i < SequenceRange
  <2>1. burst[c] \in Nat
    BY DEF TypeOK
  <2>2. QED BY <1>2, <1>3, <2>1, ClientAssumption, RangeAssumption DEF Apart
<1>5. Window'
  BY WindowGrows
<1>6. /\ i \in DOMAIN calls'[c] /\ Len(calls[c]) + 1 \in DOMAIN calls'[c]
      /\ calls'[c][i].id = NextId(c)
      /\ calls'[c][Len(calls[c]) + 1].id = NextId(c)
  <2>1. calls'[c][Len(calls[c]) + 1] = NewCall(c, k)
    BY KeptCalls
  <2>2. NewCall(c, k).id = NextId(c)
    BY DEF NewCall
  <2>3. QED BY <1>1, <1>2, <2>1, <2>2, KeptCalls
<1>7. PICK n : n = Len(calls[c]) + 1
  OBVIOUS
<1>8. \/ NextId(c).sequence = NextId(c).sequence + (n - i)
      \/ NextId(c).sequence = NextId(c).sequence + (n - i) - SequenceRange
  <2>1. i <= n /\ n - i < SequenceRange
    BY <1>2, <1>4, <1>7
  <2>2. QED BY <1>5, <1>6, <1>7, <2>1 DEF Window
<1>9. NextId(c).sequence \in Sequence
  BY NextIdType
<1>10. NextId(c).sequence \in Int /\ n \in Int /\ i \in Int /\ SequenceRange \in Int
  BY <1>2, <1>4, <1>7, <1>9, RangeAssumption DEF Sequence
<1>11. n - i = 0 \/ n - i = SequenceRange
  BY <1>8, <1>10
<1>12. QED BY <1>2, <1>4, <1>7, <1>10, <1>11

LEMMA IdsDifferNext ==
  ASSUME ClientInv, SteadyInTime, IdsDiffer, Apart, [Next]_vars
  PROVE  IdsDiffer'
<1> SUFFICES ASSUME steady', NEW d \in Client, NEW e \in Client,
                    NEW i \in DOMAIN calls'[d], NEW j \in DOMAIN calls'[e],
                    calls'[d][i].id = calls'[e][j].id
             PROVE  d = e /\ i = j
  BY DEF IdsDiffer
<1>1. TypeOK /\ Window /\ Generated
  BY DEF ClientInv
<1>2. steady
  BY DEF Next, vars, clockVars, Call, SetImpl, Initialize, Register, Unregister, Drop, Lose,
     Answer, Handle, HandleThrows, Elapse, TurnBack
<1>3. InTime
  BY <1>2 DEF SteadyInTime
<1>4. CASE \E c \in Client, k \in Key : Call(c, k)
  <2>1. PICK c \in Client, k \in Key : Keep(c, k) /\ burst[c] < MaxBurst
    BY <1>4 DEF Call, MayCall
  <2>2. \A f \in Client : \A n \in DOMAIN calls[f] : calls[f][n].id # NextId(c)
    BY <1>1, <1>3, <2>1, NewIdDiffers
  <2>3. ASSUME NEW f \in Client, NEW n \in DOMAIN calls'[f]
        PROVE  \/ n \in DOMAIN calls[f] /\ calls'[f][n] = calls[f][n]
               \/ f = c /\ n = Len(calls[c]) + 1 /\ calls'[f][n].id = NextId(c)
    <3>1. CASE f # c
      BY <1>1, <2>1, <3>1, KeptCalls
    <3>2. CASE f = c /\ n \in DOMAIN calls[c]
      BY <1>1, <2>1, <3>2, KeptCalls
    <3>3. CASE f = c /\ n \notin DOMAIN calls[c]
      <4>1. n = Len(calls[c]) + 1
        BY <1>1, <2>1, <2>3, <3>3, KeptCalls
      <4>2. calls'[c][n] = NewCall(c, k)
        BY <1>1, <2>1, <4>1, KeptCalls
      <4>3. QED BY <3>3, <4>1, <4>2 DEF NewCall
    <3>4. QED BY <3>1, <3>2, <3>3
  <2>4. CASE i \in DOMAIN calls[d] /\ calls'[d][i] = calls[d][i]
    <3>1. j \in DOMAIN calls[e] /\ calls'[e][j] = calls[e][j]
      BY <2>2, <2>3, <2>4
    <3>2. QED BY <1>2, <2>4, <3>1 DEF IdsDiffer
  <2>5. CASE d = c /\ i = Len(calls[c]) + 1 /\ calls'[d][i].id = NextId(c)
    BY <2>2, <2>3, <2>5
  <2>6. QED BY <2>3, <2>4, <2>5
<1>5. CASE ~\E c \in Client, k \in Key : Call(c, k)
  <2>1. SameIds
    BY <1>1, <1>5, OnlyCallAdds
  <2>2. i \in DOMAIN calls[d] /\ j \in DOMAIN calls[e] /\ calls[d][i].id = calls[e][j].id
    BY <2>1 DEF SameIds
  <2>3. QED BY <1>2, <2>2 DEF IdsDiffer
<1>6. QED BY <1>4, <1>5

(* The invariants of a clock that has not been set back. *)
SteadyInv == ClientInv /\ SteadyInTime /\ IdsDiffer

LEMMA SteadyInvariant == Spec => [](Apart => SteadyInv)
<1>1. Init => (Apart => SteadyInv)
  <2>1. Init => SteadyInTime /\ IdsDiffer
    BY ClientAssumption DEF Init, SteadyInTime, InTime, IdsDiffer
  <2>2. QED BY <2>1, ClientInvInit DEF SteadyInv
<1>2. ASSUME Apart => SteadyInv, [Next]_vars
      PROVE  (Apart => SteadyInv)'
  <2>1. SUFFICES ASSUME Apart PROVE SteadyInv'
    BY DEF Apart
  <2>2. ClientInv /\ SteadyInTime /\ IdsDiffer /\ TypeOK
    BY <1>2, <2>1 DEF SteadyInv, ClientInv
  <2>3. QED BY <1>2, <2>1, <2>2, ClientInvNext, InTimeNext, IdsDifferNext DEF SteadyInv
<1>3. QED BY <1>1, <1>2, PTL DEF Spec

(* If machine_id_ tells the clients apart and no client makes more calls in a millisecond than
   the sequence has values, generate_uniform_id() is uniform as long as the clock is not set
   back. *)
THEOREM IdsDifferIfApart == Spec => [](Apart => IdsDiffer)
<1>1. (Apart => SteadyInv) => (Apart => IdsDiffer)
  BY DEF SteadyInv
<1>2. QED BY <1>1, SteadyInvariant, PTL
------------------------------------------------------------------------------
(* What rests on ids that differ. *)

(* What a step of a steady clock does to the calls and to requests_. *)
LEMMA SteadySteps ==
  ASSUME SteadyInv, Apart, [Next]_vars, steady'
  PROVE  /\ TypeOK /\ Linked /\ Genuine /\ steady
         /\ \A c, d \in Client : \A i \in DOMAIN calls[c], j \in DOMAIN calls[d] :
              calls[c][i].id = calls[d][j].id => c = d /\ i = j
         /\ \/ \E c \in Client, k \in Key :
                 /\ Keep(c, k)
                 /\ \A d \in Client : \A i \in DOMAIN calls[d] : calls[d][i].id # NextId(c)
            \/ \E m \in net : Handle(m) \/ HandleThrows(m)
            \/ UNCHANGED <<calls, requests, sequence>>
<1>1. steady
  BY DEF Next, vars, clockVars, Call, SetImpl, Initialize, Register, Unregister, Drop, Lose,
     Answer, Handle, HandleThrows, Elapse, TurnBack
<1>2. TypeOK /\ Window /\ Generated /\ Linked /\ Genuine /\ InTime
  BY <1>1 DEF SteadyInv, ClientInv, SteadyInTime
<1>3. \A c, d \in Client : \A i \in DOMAIN calls[c], j \in DOMAIN calls[d] :
        calls[c][i].id = calls[d][j].id => c = d /\ i = j
  BY <1>1 DEF SteadyInv, IdsDiffer
<1>4. CASE \E c \in Client, k \in Key : Call(c, k)
  <2>1. PICK c \in Client, k \in Key : Keep(c, k) /\ burst[c] < MaxBurst
    BY <1>4 DEF Call, MayCall
  <2>2. \A d \in Client : \A i \in DOMAIN calls[d] : calls[d][i].id # NextId(c)
    BY <1>2, <2>1, NewIdDiffers
  <2>3. QED BY <1>1, <1>2, <1>3, <2>1, <2>2
<1>5. QED BY <1>1, <1>2, <1>3, <1>4, WhoChangesCalls

(* The call a handled response is about is the one whose callback is called. *)
LEMMA HandledCall ==
  ASSUME TypeOK, Linked, Genuine,
         \A c, d \in Client : \A i \in DOMAIN calls[c], j \in DOMAIN calls[d] :
           calls[c][i].id = calls[d][j].id => c = d /\ i = j,
         NEW m \in net, NEW b \in BOOLEAN, CallsBack(m, b)
  PROVE  m.of = [client |-> m.to, nth |-> requests[m.to][m.id]]
<1>1. /\ m.to \in Client /\ m.of \in AnyCall /\ m.id \in DOMAIN requests[m.to]
      /\ requests[m.to][m.id] \in DOMAIN calls[m.to]
  BY MatchedCall DEF CallsBack
<1>2. calls[m.to][requests[m.to][m.id]].id = m.id
  BY <1>1 DEF Linked
<1>3. /\ m.of.client \in Client /\ m.of.nth \in DOMAIN calls[m.of.client]
      /\ calls[m.of.client][m.of.nth].id = m.id
  BY DEF Genuine, CallsBack, Listens
<1>4. m.of.client = m.to /\ m.of.nth = requests[m.to][m.id]
  BY <1>1, <1>2, <1>3
<1>5. m.of = [client |-> m.of.client, nth |-> m.of.nth]
  BY <1>1 DEF AnyCall
<1>6. QED BY <1>4, <1>5

LEMMA AnswerNext ==
  ASSUME SteadyInv, Apart, AnswerIsMine, [Next]_vars
  PROVE  AnswerIsMine'
<1> SUFFICES ASSUME steady', NEW c \in Client, NEW i \in DOMAIN calls'[c]
             PROVE  calls'[c][i].answers \subseteq {[client |-> c, nth |-> i]}
  BY DEF AnswerIsMine
<1>1. TypeOK /\ Linked /\ Genuine /\ steady
  BY SteadySteps
<1>2. i \in DOMAIN calls[c] => calls[c][i].answers \subseteq {[client |-> c, nth |-> i]}
  BY <1>1 DEF AnswerIsMine
<1>3. CASE \E d \in Client, k \in Key : Keep(d, k)
  <2>1. PICK d \in Client, k \in Key : Keep(d, k)
    BY <1>3
  <2>2. CASE i \in DOMAIN calls[c]
    BY <1>1, <1>2, <2>1, <2>2, KeptCalls
  <2>3. CASE i \notin DOMAIN calls[c]
    <3>1. c = d /\ i = Len(calls[c]) + 1
      BY <1>1, <2>1, <2>3, KeptCalls
    <3>2. calls'[c][i] = NewCall(d, k)
      BY <1>1, <2>1, <3>1, KeptCalls
    <3>3. QED BY <3>2 DEF NewCall
  <2>4. QED BY <2>2, <2>3
<1>4. CASE \E m \in net : Handle(m) \/ HandleThrows(m)
  <2>1. PICK m \in net, b \in BOOLEAN : CallsBack(m, b)
    BY <1>4, HandlesCallBack
  <2>2. i \in DOMAIN calls[c]
    BY <1>1, <2>1, CallsBackKeeps DEF SameIds
  <2>3. CASE c = m.to /\ i = requests[m.to][m.id]
    <3>1. calls'[c][i].answers = calls[c][i].answers \cup {m.of}
      BY <1>1, <2>1, <2>3, CallsBackThis
    <3>2. m.of = [client |-> c, nth |-> i]
      BY <1>1, <2>1, <2>3, SteadySteps, HandledCall
    <3>3. QED BY <1>2, <2>2, <3>1, <3>2
  <2>4. CASE ~(c = m.to /\ i = requests[m.to][m.id])
    <3>1. calls'[c][i] = calls[c][i]
      BY <1>1, <2>1, <2>2, <2>4, CallsBackOther
    <3>2. QED BY <1>2, <2>2, <3>1
  <2>5. QED BY <2>3, <2>4
<1>5. CASE UNCHANGED <<calls, requests, sequence>>
  BY <1>2, <1>5
<1>6. QED BY <1>3, <1>4, <1>5, SteadySteps

(* Under the same conditions a callback gets nothing but the answer to its own call, although
   the server may send an answer to any client, late and again. *)
THEOREM AnswerIsMineIfApart == Spec => [](Apart => AnswerIsMine)
<1>1. Init => (Apart => AnswerIsMine)
  BY DEF Init, AnswerIsMine
<1>2. ASSUME Apart => SteadyInv, Apart => AnswerIsMine, [Next]_vars
      PROVE  (Apart => AnswerIsMine)'
  BY <1>2, AnswerNext DEF Apart
<1>3. QED BY <1>1, <1>2, SteadyInvariant, PTL DEF Spec

(* RequestKept of one call. *)
KeptIn(c, i) ==
  IF calls[c][i].acked
    THEN calls[c][i].id \notin DOMAIN requests[c]
    ELSE calls[c][i].id \in DOMAIN requests[c] /\ requests[c][calls[c][i].id] = i

LEMMA KeptWhenCalled ==
  ASSUME TypeOK, Linked, NEW d \in Client, NEW k \in Key, Keep(d, k),
         \A c \in Client : \A i \in DOMAIN calls[c] : calls[c][i].id # NextId(d) /\ KeptIn(c, i),
         NEW c \in Client, NEW i \in DOMAIN calls'[c]
  PROVE  KeptIn(c, i)'
<1>1. CASE c # d
  <2>1. calls'[c] = calls[c] /\ requests'[c] = requests[c]
    BY <1>1, KeptCalls, KeptRequest
  <2>2. QED BY <2>1 DEF KeptIn
<1>2. CASE c = d /\ i \in DOMAIN calls[c]
  <2>1. calls'[c][i] = calls[c][i] /\ calls[c][i].id # NextId(d) /\ KeptIn(c, i)
    BY <1>2, KeptCalls
  <2>2. DOMAIN requests'[c] = DOMAIN requests[c] \cup {NextId(d)}
    BY <1>2, KeptRequest
  <2>3. \A id \in DOMAIN requests[c] : requests'[c][id] = requests[c][id]
    BY <1>2, KeptRequest
  <2>4. QED BY <2>1, <2>2, <2>3 DEF KeptIn
<1>3. CASE c = d /\ i \notin DOMAIN calls[c]
  <2>1. i = Len(calls[c]) + 1
    BY <1>3, KeptCalls
  <2>2. calls'[c][i] = NewCall(c, k)
    BY <1>3, <2>1, KeptCalls
  <2>3. calls'[c][i].id = NextId(c) /\ ~calls'[c][i].acked
    BY <2>2 DEF NewCall
  <2>4. NextId(c) \notin DOMAIN requests[c]
    <3>1. ASSUME NextId(c) \in DOMAIN requests[c] PROVE FALSE
      <4>1. requests[c][NextId(c)] \in DOMAIN calls[c]
        BY <3>1 DEF TypeOK
      <4>2. calls[c][requests[c][NextId(c)]].id = NextId(c)
        BY <3>1 DEF Linked
      <4>3. QED BY <1>3, <4>1, <4>2
    <3>2. QED BY <3>1
  <2>5. NextId(c) \in DOMAIN requests'[c] /\ requests'[c][NextId(c)] = Len(calls[c]) + 1
    BY <1>3, <2>4, KeptRequest
  <2>6. QED BY <2>1, <2>3, <2>5 DEF KeptIn
<1>4. QED BY <1>1, <1>2, <1>3

LEMMA KeptWhenHandled ==
  ASSUME TypeOK, Linked, NEW m \in net, Handle(m) \/ HandleThrows(m),
         \A c, d \in Client : \A i \in DOMAIN calls[c], j \in DOMAIN calls[d] :
           calls[c][i].id = calls[d][j].id => c = d /\ i = j,
         NEW c \in Client, NEW i \in DOMAIN calls[c], KeptIn(c, i)
  PROVE  KeptIn(c, i)'
<1>1. PICK b \in BOOLEAN : CallsBack(m, b)
  BY HandlesCallBack
<1>2. /\ m.to \in Client /\ m.id \in DOMAIN requests[m.to]
      /\ requests[m.to][m.id] \in DOMAIN calls[m.to]
      /\ calls'[c][i].id = calls[c][i].id
  <2>1. SameIds
    BY <1>1, CallsBackKeeps
  <2>2. calls'[c][i].id = calls[c][i].id
    BY <2>1 DEF SameIds
  <2>3. QED BY <1>1, <2>2, CallsBackCall
<1>3. /\ calls[m.to][requests[m.to][m.id]].id = m.id
      /\ ~calls[m.to][requests[m.to][m.id]].acked
  BY <1>2 DEF Linked
<1>4. CASE Handle(m)
  <2>1. CallsBack(m, TRUE) /\ requests' = [requests EXCEPT ![m.to] = Erase(requests[m.to], m.id)]
    BY <1>4, HandlesCallBack DEF Handle
  <2>2. CASE c = m.to /\ i = requests[m.to][m.id]
    <3>1. calls'[c][i].acked
      BY <2>1, <2>2, CallsBackThis
    <3>2. requests'[c] = Erase(requests[c], m.id)
      BY <1>2, <2>1, <2>2 DEF TypeOK
    <3>3. calls'[c][i].id \notin DOMAIN requests'[c]
      BY <1>2, <1>3, <2>2, <3>2 DEF Erase
    <3>4. QED BY <3>1, <3>3 DEF KeptIn
  <2>3. CASE c = m.to /\ i # requests[m.to][m.id]
    <3>1. calls'[c][i] = calls[c][i]
      BY <1>1, <2>1, <2>3, CallsBackOther
    <3>2. requests'[c] = Erase(requests[c], m.id)
      BY <1>2, <2>1, <2>3 DEF TypeOK
    <3>3. calls[c][i].id # m.id
      <4>1. calls[c][i].id # calls[c][requests[m.to][m.id]].id
        BY <1>2, <2>3
      <4>2. QED BY <1>3, <2>3, <4>1
    <3>4. /\ DOMAIN requests'[c] = DOMAIN requests[c] \ {m.id}
          /\ \A id \in DOMAIN requests'[c] : requests'[c][id] = requests[c][id]
      BY <3>2 DEF Erase
    <3>5. QED BY <3>1, <3>3, <3>4 DEF KeptIn
  <2>4. CASE c # m.to
    <3>1. calls'[c] = calls[c] /\ requests'[c] = requests[c]
      BY <2>1, <2>4, CallsBackClient DEF TypeOK
    <3>2. QED BY <3>1 DEF KeptIn
  <2>5. QED BY <2>2, <2>3, <2>4
<1>5. CASE HandleThrows(m)
  <2>1. CallsBack(m, FALSE) /\ requests' = requests
    BY <1>5, HandlesCallBack DEF HandleThrows
  <2>2. CASE c = m.to /\ i = requests[m.to][m.id]
    <3>1. ~calls'[c][i].acked /\ ~calls[c][i].acked
      BY <1>3, <2>1, <2>2, CallsBackThis
    <3>2. QED BY <1>2, <2>1, <3>1 DEF KeptIn
  <2>3. CASE c = m.to /\ i # requests[m.to][m.id]
    <3>1. calls'[c][i] = calls[c][i]
      BY <1>1, <2>1, <2>3, CallsBackOther
    <3>2. QED BY <2>1, <3>1 DEF KeptIn
  <2>4. CASE c # m.to
    <3>1. calls'[c] = calls[c]
      BY <2>1, <2>4, CallsBackClient
    <3>2. QED BY <2>1, <3>1 DEF KeptIn
  <2>5. QED BY <2>2, <2>3, <2>4
<1>6. QED BY <1>4, <1>5

LEMMA KeptNext ==
  ASSUME SteadyInv, Apart, RequestKept, [Next]_vars
  PROVE  RequestKept'
<1> SUFFICES ASSUME steady', NEW c \in Client, NEW i \in DOMAIN calls'[c]
             PROVE  KeptIn(c, i)'
  BY DEF RequestKept, KeptIn
<1>1. TypeOK /\ Linked /\ steady
  BY SteadySteps
<1>2. \A d \in Client : \A j \in DOMAIN calls[d] : KeptIn(d, j)
  BY <1>1 DEF RequestKept, KeptIn
<1>3. CASE \E d \in Client, k \in Key :
             /\ Keep(d, k)
             /\ \A e \in Client : \A j \in DOMAIN calls[e] : calls[e][j].id # NextId(d)
  BY <1>1, <1>2, <1>3, KeptWhenCalled
<1>4. CASE \E m \in net : Handle(m) \/ HandleThrows(m)
  <2>1. PICK m \in net : Handle(m) \/ HandleThrows(m)
    BY <1>4
  <2>2. CallsBack(m, TRUE) \/ CallsBack(m, FALSE)
    BY <2>1, HandlesCallBack
  <2>3. i \in DOMAIN calls[c]
    BY <1>1, <2>2, CallsBackKeeps DEF SameIds
  <2>4. QED BY <1>1, <1>2, <2>1, <2>3, SteadySteps, KeptWhenHandled
<1>5. CASE UNCHANGED <<calls, requests, sequence>>
  BY <1>2, <1>5 DEF KeptIn
<1>6. QED BY <1>3, <1>4, <1>5, SteadySteps

(* And requests_ holds exactly the calls without an acknowledged answer, each under its own id:
   those, too, whose send has thrown. *)
THEOREM RequestKeptIfApart == Spec => [](Apart => RequestKept)
<1>1. Init => (Apart => RequestKept)
  BY DEF Init, RequestKept
<1>2. ASSUME Apart => SteadyInv, Apart => RequestKept, [Next]_vars
      PROVE  (Apart => RequestKept)'
  BY <1>2, KeptNext DEF Apart
<1>3. QED BY <1>1, <1>2, SteadyInvariant, PTL DEF Spec
==============================================================================
