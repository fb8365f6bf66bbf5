---------------------------- MODULE MessageClient ----------------------------
(***************************************************************************)
(* Clients (message_client.h, protobuf_message_client_impl.h): the ids     *)
(* they generate, requests_ with the callbacks that wait for an answer,    *)
(* and what becomes of them if a send throws.  The server is anybody who   *)
(* answers a request, once or more often, to the client that sent it or to *)
(* another one, as the message server does.                                *)
(***************************************************************************)
EXTENDS SnowFlake, Sequences, FiniteSets

CONSTANTS
  Client,
  Key,
  Datacenter, Worker,  \* datacenter_id and worker_id of each client
  Cut,          \* cache ids whose data do not pass through a C string or one packet
  MaxBurst,     \* bounds the calls of a client in one millisecond
  MaxNow,       \* bounds the clock
  MaxCalls,     \* bounds the calls of all clients
  MaxFailures,  \* bounds the sends that throw
  MaxFlight     \* bounds the datagrams under way when another one is sent

ASSUME ClientAssumption ==
  /\ {Datacenter, Worker} \subseteq [Client -> 0..255]
  /\ MaxBurst \in Nat

VARIABLES
  bound,       \* the clients with an impl_, whose socket_ is set
  open,        \* those that are initialized
  registered,  \* those in the socket group
  now,         \* get_time_stamp()
  steady,      \* the system clock has never been set back (history)
  sequence,    \* sequence of each client's snowflake_
  requests,    \* requests_ of each client: id -> which of its calls
  net,         \* datagrams under way
  burst,       \* the calls of each client in this millisecond
  calls,       \* the calls each client has made, with what became of them (history)
  failures     \* how many sends have thrown

socketVars == <<bound, open, registered>>
clockVars == <<now, steady, burst>>
vars == <<socketVars, clockVars, sequence, requests, net, calls, failures>>

AnyCall == [client : Client, nth : Nat \ {0}]

\* of names the call a datagram is about, from the sender of an ack (history).
Request(c, n, id, k) ==
  [type |-> "request", of |-> [client |-> c, nth |-> n], id |-> id, key |-> k]
Response(m, c) == [type |-> "response", of |-> m.of, id |-> m.id, key |-> m.key, to |-> c]
Ack(c, id) == [type |-> "ack", from |-> c, id |-> id]

Message ==
  [type : {"request"}, of : AnyCall, id : AnyId, key : Key]
    \cup [type : {"response"}, of : AnyCall, id : AnyId, key : Key, to : Client]
    \cup [type : {"ack"}, from : Client, id : AnyId]

Init ==
  /\ bound = {} /\ open = {} /\ registered = {}
  /\ now = 0
  /\ steady = TRUE
  /\ sequence = [c \in Client |-> 0]
  /\ requests = [c \in Client |-> [id \in {} |-> 0]]
  /\ net = {}
  /\ burst = [c \in Client |-> 0]
  /\ calls = [c \in Client |-> <<>>]
  /\ failures = 0

------------------------------------------------------------------------------
(* The socket. *)

\* set_message_impl and bind_socket.
SetImpl(c) ==
  /\ bound' = bound \cup {c}
  /\ UNCHANGED <<open, registered, clockVars, sequence, requests, net, calls, failures>>

\* UdpSocket::initialize, once there is an impl_.  If it throws, nothing has changed, and the
\* program goes on without register_socket.
Initialize(c) ==
  /\ c \in bound
  /\ open' = open \cup {c}
  /\ UNCHANGED <<bound, registered, clockVars, sequence, requests, net, calls, failures>>

Register(c) ==
  /\ c \in open
  /\ registered' = registered \cup {c}
  /\ UNCHANGED <<bound, open, clockVars, sequence, requests, net, calls, failures>>

Unregister(c) ==
  /\ registered' = registered \ {c}
  /\ UNCHANGED <<bound, open, clockVars, sequence, requests, net, calls, failures>>

------------------------------------------------------------------------------
(* Calls. *)

\* emplace(): an id that is there keeps the request it has.
Emplace(map, id, n) ==
  [i \in DOMAIN map \cup {id} |-> IF i \in DOMAIN map THEN map[i] ELSE n]

Erase(map, id) == [i \in DOMAIN map \ {id} |-> map[i]]

\* Mutant: the mask of the sequence is a bit too short.
HalfSequence(c) == IF sequence[c] + 2 >= SequenceRange THEN 0 ELSE sequence[c] + 1

\* Mutant: no mask.
UnmaskedSequence(c) == sequence[c] + 1

\* Mutant: the sequence starts anew in each millisecond.
RestartedSequence(c) == IF burst[c] = 0 THEN 0 ELSE Successor(sequence[c])

NextSequence(c) == Successor(sequence[c])

\* generate_uniform_id().
NextId(c) == Id(now, MachineId(Datacenter[c], Worker[c]), NextSequence(c))

\* The history of calls.
Note(c, k) ==
  calls' = [calls EXCEPT ![c] = Append(@,
              [id |-> NextId(c), key |-> k, called |-> 0, acked |-> FALSE, answers |-> {}])]

\* An id is generated and the request kept under it, before it is sent.
Keep(c, k) ==
  /\ sequence' = [sequence EXCEPT ![c] = NextSequence(c)]
  /\ burst' = [burst EXCEPT ![c] = @ + 1]
  /\ Note(c, k)
  /\ requests' = [requests EXCEPT ![c] = Emplace(@, NextId(c), Len(calls[c]) + 1)]

\* Bounds on the calls.
MayCall(c) ==
  /\ Cardinality(UNION {{d} \X DOMAIN calls[d] : d \in Client}) < MaxCalls
  /\ burst[c] < MaxBurst
  /\ Cardinality(net) < MaxFlight

\* do_send_cache_message throws: always if the socket is not initialized.
SendThrows ==
  /\ failures < MaxFailures
  /\ failures' = failures + 1

\* Mutant: the request is kept once it has been sent.
CallKeepsLate(c, k) ==
  /\ c \in bound /\ MayCall(c)
  /\ \/ /\ c \in open
        /\ Keep(c, k)
        /\ net' = net \cup {Request(c, Len(calls[c]) + 1, NextId(c), k)}
        /\ UNCHANGED failures
     \/ /\ SendThrows
        /\ Note(c, k)
        /\ sequence' = [sequence EXCEPT ![c] = NextSequence(c)]
        /\ burst' = [burst EXCEPT ![c] = @ + 1]
        /\ UNCHANGED <<requests, net>>
  /\ UNCHANGED <<socketVars, now, steady>>

\* read_cache_async and update_cache_async; without an impl_ they throw at once.
Call(c, k) ==
  /\ c \in bound /\ MayCall(c)
  /\ Keep(c, k)
  /\ \/ /\ c \in open
        /\ net' = net \cup {Request(c, Len(calls[c]) + 1, NextId(c), k)}
        /\ UNCHANGED failures
     \/ /\ SendThrows
        /\ UNCHANGED net
  /\ UNCHANGED <<socketVars, now, steady>>

------------------------------------------------------------------------------
(* Answers. *)

\* listen() calls on_receive of the socket a datagram is for.
Listens(m) == m.type = "response" /\ m.to \in open \cap registered

\* The socket group reads one packet and hands it on as a C string: data that are longer or
\* have a zero byte are cut, and what is left has no op_response or cannot be parsed.
Whole(m) == m.key \notin Cut

\* The checks of on_receive and process_response: a whole message, a request with this id, and
\* the same cache id.
Matches(m) ==
  /\ Whole(m)
  /\ m.id \in DOMAIN requests[m.to]
  /\ calls[m.to][requests[m.to][m.id]].key = m.key

\* Mutant: every response is acknowledged, so that the server is quiet.
DropWithAck(m) ==
  /\ Listens(m) /\ ~Matches(m)
  /\ net' = (net \ {m}) \cup {Ack(m.to, m.id)}
  /\ UNCHANGED <<socketVars, clockVars, sequence, requests, calls, failures>>

\* The datagram is dropped, with a line in the log or an exception; the request stays.
Drop(m) ==
  /\ Listens(m) /\ ~Matches(m)
  /\ net' = net \ {m}
  /\ UNCHANGED <<socketVars, clockVars, sequence, requests, calls, failures>>

\* handle_() is called with the answer.
Called(call, m, acked) ==
  [id |-> call.id, key |-> call.key, called |-> call.called + 1, acked |-> acked,
   answers |-> call.answers \cup {m.of}]

\* Mutant: the request is not erased.
HandleKeeps(m) ==
  LET n == requests[m.to][m.id] IN
  /\ Listens(m) /\ Matches(m)
  /\ calls' = [calls EXCEPT ![m.to][n] = Called(@, m, TRUE)]
  /\ net' = (net \ {m}) \cup {Ack(m.to, m.id)}
  /\ UNCHANGED <<socketVars, clockVars, sequence, requests, failures>>

\* The callback, the ack, and the end of the request.
Handle(m) ==
  LET n == requests[m.to][m.id] IN
  /\ Listens(m) /\ Matches(m)
  /\ calls' = [calls EXCEPT ![m.to][n] = Called(@, m, TRUE)]
  /\ net' = (net \ {m}) \cup {Ack(m.to, m.id)}
  /\ requests' = [requests EXCEPT ![m.to] = Erase(@, m.id)]
  /\ UNCHANGED <<socketVars, clockVars, sequence, failures>>

\* The ack cannot be sent: the exception leaves the request where it is, though its callback
\* has been called.
HandleThrows(m) ==
  LET n == requests[m.to][m.id] IN
  /\ Listens(m) /\ Matches(m)
  /\ SendThrows
  /\ calls' = [calls EXCEPT ![m.to][n] = Called(@, m, FALSE)]
  /\ net' = net \ {m}
  /\ UNCHANGED <<socketVars, clockVars, sequence, requests>>

------------------------------------------------------------------------------
(* The server, the network and the clock. *)

\* A request stays: it may be delivered again, and its answer be sent again.
Answer(m, c) ==
  /\ m.type = "request"
  /\ Cardinality(net) < MaxFlight
  /\ net' = net \cup {Response(m, c)}
  /\ UNCHANGED <<socketVars, clockVars, sequence, requests, calls, failures>>

Lose(m) ==
  /\ net' = net \ {m}
  /\ UNCHANGED <<socketVars, clockVars, sequence, requests, calls, failures>>

Elapse ==
  /\ now < MaxNow
  /\ now' = now + 1
  /\ burst' = [c \in Client |-> 0]
  /\ UNCHANGED <<socketVars, steady, sequence, requests, net, calls, failures>>

\* system_clock is not steady.
TurnBack ==
  /\ now > 0
  /\ now' = now - 1
  /\ steady' = FALSE
  /\ burst' = [c \in Client |-> 0]
  /\ UNCHANGED <<socketVars, sequence, requests, net, calls, failures>>

Next ==
  \/ \E c \in Client : SetImpl(c) \/ Initialize(c) \/ Register(c) \/ Unregister(c)
  \/ \E c \in Client, k \in Key : Call(c, k)
  \/ \E m \in net : Drop(m) \/ Handle(m) \/ HandleThrows(m)
  \/ \E m \in net, c \in Client : Answer(m, c)
  \/ \E m \in net : Lose(m)
  \/ Elapse \/ TurnBack

Spec == Init /\ [][Next]_vars

------------------------------------------------------------------------------
CallRecord ==
  [id : AnyId, key : Key, called : Nat, acked : BOOLEAN, answers : SUBSET AnyCall]

TypeOK ==
  /\ {bound, open, registered} \subseteq SUBSET Client
  /\ now \in Nat /\ steady \in BOOLEAN
  /\ sequence \in [Client -> Sequence]
  /\ burst \in [Client -> Nat]
  /\ calls \in [Client -> Seq(CallRecord)]
  /\ DOMAIN requests = Client
  /\ \A c \in Client :
       /\ DOMAIN requests[c] \subseteq AnyId
       /\ requests[c] \in [DOMAIN requests[c] -> DOMAIN calls[c]]
  /\ net \subseteq Message
  /\ failures \in Nat

\* Unless the clock was set back, no two calls have the same id, whoever makes them.
IdsDiffer ==
  steady =>
  \A c, d \in Client : \A i \in DOMAIN calls[c], j \in DOMAIN calls[d] :
    calls[c][i].id = calls[d][j].id => c = d /\ i = j

\* The server tells the last calls of a client apart by 32 bits of their ids, as many calls as
\* the sequence has values and whatever the clock does.
TruncatedIdsDiffer ==
  \A c \in Client : \A i, j \in DOMAIN calls[c] :
    i < j /\ j - i < SequenceRange => Low32(calls[c][i].id) # Low32(calls[c][j].id)

\* A request is in requests_, under the id of its call, until its answer has been
\* acknowledged: also if the send throws, in the call or in the ack.
RequestKept ==
  steady =>
  \A c \in Client : \A i \in DOMAIN calls[c] :
    IF calls[c][i].acked
      THEN calls[c][i].id \notin DOMAIN requests[c]
      ELSE calls[c][i].id \in DOMAIN requests[c] /\ requests[c][calls[c][i].id] = i

\* A callback gets the answer to the call it was given for, though the server may send it to
\* another client.
AnswerIsMine ==
  steady =>
  \A c \in Client : \A i \in DOMAIN calls[c] :
    calls[c][i].answers \subseteq {[client |-> c, nth |-> i]}

\* Who acknowledges an operation has made it and seen its answer: the server stops resending
\* for no other.
AckOfCalled ==
  \A m \in net : m.type = "ack" =>
    \E i \in DOMAIN calls[m.from] : calls[m.from][i].id = m.id /\ calls[m.from][i].called > 0

\* A callback is called again only as long as no ack was sent: do_send_ack may throw.
CalledUntilAcked ==
  [][\A c \in Client : \A i \in DOMAIN calls[c] :
       calls'[c][i].called > calls[c][i].called => ~calls[c][i].acked]_vars
==============================================================================
