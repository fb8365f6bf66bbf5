----------------------------- MODULE CacheServer -----------------------------
(***************************************************************************)
(* The message layer: clients (protobuf_message_client_impl.h) that send   *)
(* requests as UDP datagrams, and the server                               *)
(* (protobuf_message_server_impl.h) whose one thread runs                  *)
(*     while (true) { TimerQueue::tick(); group.listen(0.03); }            *)
(* Its handlers drive the managers of CacheStateManager.  A handler that   *)
(* throws is left where it throws; the loop catches and goes on.           *)
(*                                                                         *)
(* The heap is split in two: timer_queue holds the managers' timers,       *)
(* wait_acks the map of WaitCacheAckManager with the time left of each     *)
(* entry's timer.  tick() takes the earliest of both.  An ack timer that   *)
(* was deleted is dropped at once: nobody can tell.                        *)
(***************************************************************************)
EXTENDS CacheStateManager, FiniteSets

CONSTANTS
  Client,
  ReadOp,      \* ids of read requests
  Empty,       \* the value-initialized or moved-from string
  NoRequest,
  AckTimeout,  \* kDefaultTimeout of CacheWaitAcktManager, in clock units
  MaxLag,      \* how late, in clock units, tick() may find a timer
  TickFirst,   \* nothing is due when listen() delivers a datagram
  Lossy,       \* kinds of datagrams the network may lose
  Doubled,     \* kinds of datagrams the network may deliver twice
  MaxFaults,   \* bounds the datagrams lost or doubled
  MaxFlight    \* bounds the datagrams under way, a new request among them

ASSUME AckTimeoutAssumption == AckTimeout \in Nat \ {0}
ASSUME LagAssumption == MaxLag \in Nat /\ TickFirst \in BOOLEAN
ASSUME OperationAssumption == ReadOp \cap OpId = {} /\ Empty \notin OpId
ASSUME NoRequestAssumption == NoRequest \notin [client : Client, key : Key]
ASSUME NetworkAssumption ==
  /\ Lossy \cup Doubled \subseteq {"read", "update", "response", "ack"}
  /\ MaxFaults \in Nat /\ MaxFlight \in Nat

VARIABLES
  map,             \* the cache ids in map_ of the data center
  value,           \* value_
  temp_value,      \* temp_value_
  cache_data,      \* cache_data_ of CacheReadRequestOperation: the last value read
  timestamp,       \* timestamp_ of CacheReadRequestOperation: the time left until it
  defer_messages,  \* the ids in defer_messages_
  wait_acks,       \* map_ of CacheWaitAcktManager: op -> [left, message]
  stray,           \* timers of a WaitCacheAck that no longer exists
  undefined,       \* a callback of a destroyed object has run
  peer,            \* hostRemote and portRemote: who sent the last datagram
  net,             \* datagrams under way
  faults,          \* how many were lost or doubled
  requests,        \* what each client has asked for: op -> [client, key]
  told,            \* what the callback of each request was told, with the time left of it
  applied          \* how often each update was stored (history)

readVars == <<cache_data, timestamp>>
serverVars == <<map, value, temp_value, readVars, defer_messages, wait_acks, stray, peer>>
clientVars == <<requests, told>>
vars == <<managerVars, ticking, blocked, serverVars, undefined, net, faults, clientVars, applied>>

AnyOp == OpId \cup ReadOp
Kind(op) == IF op \in OpId THEN "update" ELSE "read"

\* copy tells the first datagram of a message from the second one and a doubled one.
Request(op, k, c) == [type |-> Kind(op), op |-> op, key |-> k, from |-> c, copy |-> 1]
Response(op, k, result, data, expire, c) ==
  [type |-> "response", op |-> op, key |-> k, result |-> result, data |-> data,
   expire |-> expire, to |-> c, copy |-> 1]
Ack(op, c) == [type |-> "ack", op |-> op, from |-> c, copy |-> 1]

\* What the callback of a request is given.
Answer(result, data, expire) == [result |-> result, data |-> data, expire |-> expire]
Unanswered == Answer("nothing", Empty, 0)
IsTold(op) == told[op] # Unanswered

\* A deadline that has passed tells nobody anything: it stays at 0.
Later(expire) == IF expire > 0 THEN expire - 1 ELSE 0
Aged(m) == IF m.type = "response" THEN [m EXCEPT !.expire = Later(@)] ELSE m

Init ==
  /\ ManagerInit
  /\ map = {}
  /\ value = [k \in Key |-> Empty]
  /\ temp_value = [k \in Key |-> Empty]
  /\ cache_data = Empty
  /\ timestamp = 0
  /\ defer_messages = {}
  /\ wait_acks = [op \in {} |-> Empty]
  /\ stray = {}
  /\ undefined = FALSE
  /\ peer \in Client
  /\ net = {}
  /\ faults = 0
  /\ requests = [op \in AnyOp |-> NoRequest]
  /\ told = [op \in AnyOp |-> Unanswered]
  /\ applied = [op \in OpId |-> 0]

------------------------------------------------------------------------------
(* The heap: managers' timers, timers of wait_acks and stray ones. *)

Lefts ==
  {timer_queue[i].left : i \in DOMAIN timer_queue}
    \cup {wait_acks[op].left : op \in DOMAIN wait_acks} \cup {s.left : s \in stray}

InFront(left) == left <= 0 /\ \A other \in Lefts : left <= other

AnyDue == \E left \in Lefts : left <= 0

\* listen() delivers a datagram between two ticks.  The bound on the heap leaves an address
\* for the callback of tick().
Listening ==
  /\ ~ticking /\ ~blocked /\ ~undefined
  /\ TickFirst => ~AnyDue
  /\ Cardinality(TimerId \ DOMAIN timer_queue) > 1

------------------------------------------------------------------------------
(* The clients. *)

\* read_cache_async and update_cache_async: a new id, an entry in requests_, a datagram.
SendRequest(c, op, k) ==
  /\ requests[op] = NoRequest
  /\ Cardinality(net) < MaxFlight
  /\ requests' = [requests EXCEPT ![op] = [client |-> c, key |-> k]]
  /\ net' = net \cup {Request(op, k, c)}
  /\ UNCHANGED <<managerVars, ticking, blocked, serverVars, undefined, faults, told, applied>>

\* requests_ of client c.
Pending(c) == {op \in AnyOp : requests[op] # NoRequest /\ requests[op].client = c /\ ~IsTold(op)}

\* on_receive: the callback of the request is called, an ack sent and the request erased; a
\* response without a request is dropped and not acknowledged.
ReceiveResponse(m) ==
  /\ m.type = "response"
  /\ IF m.op \in Pending(m.to)
       THEN /\ told' = [told EXCEPT ![m.op] = Answer(m.result, m.data, m.expire)]
            /\ net' = (net \ {m}) \cup {Ack(m.op, m.to)}
       ELSE /\ net' = net \ {m}
            /\ UNCHANGED told
  /\ UNCHANGED <<managerVars, ticking, blocked, serverVars, undefined, faults, requests, applied>>

------------------------------------------------------------------------------
(* The server's handlers. *)

\* Mutant: the response is sent and not registered for resending.
RespondOnce(message, rest) ==
  /\ net' = rest \cup {message}
  /\ UNCHANGED <<wait_acks, stray>>

\* register_wait_ack and do_send_cache_message to the last sender.  If the operation still
\* waits for an ack, emplace() fails: the new WaitCacheAck is destroyed, which empties the
\* message (nothing a client can use is sent), and its timer stays behind.
Respond(message, rest) ==
  IF message.op \in DOMAIN wait_acks
    THEN /\ stray' = stray \cup {[op |-> message.op, left |-> AckTimeout]}
         /\ net' = rest
         /\ UNCHANGED wait_acks
    ELSE /\ wait_acks' = AddTimer(wait_acks, message.op, [left |-> AckTimeout, message |-> message])
         /\ net' = rest \cup {message}
         /\ UNCHANGED stray

\* v is the id of an update, or Empty if a moved-from string is stored.
Store(k, v) ==
  /\ value' = [value EXCEPT ![k] = v]
  /\ applied' = [op \in OpId |-> IF op = v THEN applied[op] + 1 ELSE applied[op]]

\* Mutant: a read is answered with the value that waits.
ServeReadWaiting(m) ==
  LET read == IF current_state[m.key] = UpdateProtected THEN temp_value[m.key] ELSE value[m.key] IN
  /\ Listening /\ m.type = "read" /\ m.key \in map
  /\ peer' = m.from
  /\ ManagerRead(m.key, ReadId)
  /\ cache_data' = read
  /\ timestamp' = ReadExpire(m.key)
  /\ Respond(Response(m.op, m.key, "ok", read, timestamp', m.from), net \ {m})
  /\ UNCHANGED <<ticking, blocked, undefined, map, value, temp_value, defer_messages, faults,
                 clientVars, applied>>

\* CacheReadRequestOperation::on_process.  For a cache id there is no data for, the members
\* of the last read are sent.
ServeRead(m) ==
  /\ Listening /\ m.type = "read"
  /\ peer' = m.from
  /\ \/ /\ m.key \in map
        /\ ManagerRead(m.key, ReadId)
        /\ cache_data' = value[m.key]
        /\ timestamp' = ReadExpire(m.key)
        /\ Respond(Response(m.op, m.key, "ok", value[m.key], timestamp', m.from), net \ {m})
     \/ /\ m.key \notin map
        /\ Respond(Response(m.op, m.key, "nodata", cache_data, timestamp, m.from), net \ {m})
        /\ UNCHANGED <<managerVars, readVars>>
  /\ UNCHANGED <<ticking, blocked, undefined, map, value, temp_value, defer_messages, faults,
                 clientVars, applied>>

\* CacheUpdateRequestOperation::on_process: what is not deferred is answered.
AcceptUpdate(m) ==
  /\ ManagerUpdateOk(m.key)
  /\ Store(m.key, m.op)
  /\ Respond(Response(m.op, m.key, "ok", m.op, Lease, m.from), net \ {m})
  /\ UNCHANGED <<temp_value, defer_messages>>

\* When the lease of k ends that the update of k waits for.
Remaining(k) == IF expire_time[k] > 0 THEN expire_time[k] ELSE 0

\* Mutant: temp_value_ is set before the state machine is asked.
RetryAfterStoring(m) ==
  /\ current_state[m.key] = UpdateProtected
  /\ temp_value' = [temp_value EXCEPT ![m.key] = m.op]
  /\ Respond(Response(m.op, m.key, "retry", m.op, Remaining(m.key), m.from), net \ {m})
  /\ UNCHANGED <<managerVars, value, applied, defer_messages>>

RetryUpdate(m) ==
  /\ current_state[m.key] = UpdateProtected
  /\ Respond(Response(m.op, m.key, "retry", m.op, Remaining(m.key), m.from), net \ {m})
  /\ UNCHANGED <<managerVars, value, temp_value, applied, defer_messages>>

\* Mutant: a deferred update is answered "ok" at once.
DeferHastily(m) ==
  /\ ManagerUpdateDefer(m.key, m.op)
  /\ temp_value' = [temp_value EXCEPT ![m.key] = m.op]
  /\ defer_messages' = defer_messages \cup {m.op}
  /\ Respond(Response(m.op, m.key, "ok", m.op, Lease, m.from), net \ {m})
  /\ UNCHANGED <<value, applied>>

\* update_cache_center: a deferred request is kept and not answered.
DeferUpdate(m) ==
  /\ ManagerUpdateDefer(m.key, m.op)
  /\ temp_value' = [temp_value EXCEPT ![m.key] = m.op]
  /\ defer_messages' = defer_messages \cup {m.op}
  /\ net' = net \ {m}
  /\ UNCHANGED <<value, applied, wait_acks, stray>>

\* "timer is expire,should not run here": an exception leaves the request unanswered.
ThrowUpdate(m) ==
  /\ ManagerUpdateExpired(m.key, m.op)
  /\ net' = net \ {m}
  /\ UNCHANGED <<value, temp_value, applied, defer_messages, wait_acks, stray>>

ServeUpdate(m) ==
  /\ Listening /\ m.type = "update"
  /\ peer' = m.from
  /\ map' = map \cup {m.key}
  /\ AcceptUpdate(m) \/ RetryUpdate(m) \/ DeferUpdate(m) \/ ThrowUpdate(m)
  /\ UNCHANGED <<ticking, blocked, undefined, readVars, faults, clientVars>>

\* Mutant: the entry is erased and its timer is not deleted.
UnregisterKeepsTimer(op) ==
  /\ wait_acks' = PopTimer(wait_acks, op)
  /\ stray' = stray \cup {[op |-> o, left |-> wait_acks[o].left] : o \in {op} \cap DOMAIN wait_acks}

\* unregister_wait_ack: the entry, if there is one, is erased and its timer deleted.  (The
\* timer id is read from the erased node, whose bytes are still intact.)
UnregisterWaitAck(op) ==
  /\ wait_acks' = PopTimer(wait_acks, op)
  /\ UNCHANGED stray

\* CacheAckOperation::on_process.
ServeAck(m) ==
  /\ Listening /\ m.type = "ack"
  /\ peer' = m.from
  /\ net' = net \ {m}
  /\ UnregisterWaitAck(m.op)
  /\ UNCHANGED <<managerVars, ticking, blocked, undefined, map, value, temp_value, readVars,
                 defer_messages, faults, clientVars, applied>>

------------------------------------------------------------------------------
(* tick(). *)

Ticks(left) == ~blocked /\ ~undefined /\ InFront(left)

Continues == ticking' = AnyDue'

TickDeleted(i) ==
  /\ Ticks(timer_queue[i].left) /\ ManagerTickDeleted(i)
  /\ UNCHANGED <<serverVars, undefined, net, faults, clientVars, applied>>
  /\ Continues

TickIdle(i) ==
  /\ Ticks(timer_queue[i].left) /\ ManagerTickIdle(i)
  /\ UNCHANGED <<serverVars, undefined, net, faults, clientVars, applied>>
  /\ Continues

\* Mutant: the request is not erased from defer_messages_.
TickUpdateLeaks(i) ==
  LET k == timer_queue[i].key IN
  /\ Ticks(timer_queue[i].left)
  /\ op_id[k] \in defer_messages
  /\ ManagerTickUpdate(i, PopTimer(timer_queue, i))
  /\ Store(k, temp_value[k])
  /\ temp_value' = [temp_value EXCEPT ![k] = Empty]
  /\ Respond(Response(op_id[k], k, "ok", op_id[k], Lease, peer), net)
  /\ UNCHANGED <<undefined, map, readVars, defer_messages, peer, faults, clientVars>>
  /\ Continues

\* CacheElement::call_handle and update_handle: the kept request is answered to the last
\* sender.
TickUpdate(i) ==
  LET k == timer_queue[i].key IN
  /\ Ticks(timer_queue[i].left)
  /\ op_id[k] \in defer_messages
  /\ ManagerTickUpdate(i, PopTimer(timer_queue, i))
  /\ Store(k, temp_value[k])
  /\ temp_value' = [temp_value EXCEPT ![k] = Empty]
  /\ defer_messages' = defer_messages \ {op_id[k]}
  /\ Respond(Response(op_id[k], k, "ok", op_id[k], Lease, peer), net)
  /\ UNCHANGED <<undefined, map, readVars, peer, faults, clientVars>>
  /\ Continues

\* Mutant: temp_value_ is copied into value_, not moved.
TickThrowsCopies(i) ==
  LET k == timer_queue[i].key IN
  /\ Ticks(timer_queue[i].left)
  /\ op_id[k] \notin defer_messages
  /\ ManagerTickUpdate(i, timer_queue)
  /\ Store(k, temp_value[k])
  /\ ticking' = FALSE
  /\ UNCHANGED <<undefined, map, temp_value, readVars, defer_messages, wait_acks, stray, peer,
                 net, faults, clientVars>>

\* Mutant: value_ is taken from the operation remembered last, not from temp_value_.
TickThrowsByOpId(i) ==
  LET k == timer_queue[i].key IN
  /\ Ticks(timer_queue[i].left)
  /\ op_id[k] \notin defer_messages
  /\ ManagerTickUpdate(i, timer_queue)
  /\ Store(k, op_id[k])
  /\ temp_value' = [temp_value EXCEPT ![k] = Empty]
  /\ ticking' = FALSE
  /\ UNCHANGED <<undefined, map, readVars, defer_messages, wait_acks, stray, peer, net,
                 faults, clientVars>>

\* "defer_messages_ should not be null": the exception leaves tick() after the state and the
\* value have changed, with the timer still in front.
TickThrows(i) ==
  LET k == timer_queue[i].key IN
  /\ Ticks(timer_queue[i].left)
  /\ op_id[k] \notin defer_messages
  /\ ManagerTickUpdate(i, timer_queue)
  /\ Store(k, temp_value[k])
  /\ temp_value' = [temp_value EXCEPT ![k] = Empty]
  /\ ticking' = FALSE
  /\ UNCHANGED <<undefined, map, readVars, defer_messages, wait_acks, stray, peer, net,
                 faults, clientVars>>

TickBlocks(i) ==
  /\ Ticks(timer_queue[i].left) /\ ManagerTickBlocks(i)
  /\ ticking' = TRUE
  /\ UNCHANGED <<serverVars, undefined, net, faults, clientVars, applied>>

\* WaitCacheAck::timer_handle: the response is sent a second and last time, to the last
\* sender, and forgotten.
TickResend(op) ==
  /\ Ticks(wait_acks[op].left)
  /\ net' = net \cup {[wait_acks[op].message EXCEPT !.copy = 2, !.to = peer]}
  /\ wait_acks' = PopTimer(wait_acks, op)
  /\ UNCHANGED <<managerVars, blocked, undefined, map, value, temp_value, readVars,
                 defer_messages, stray, peer, faults, clientVars, applied>>
  /\ Continues

\* timer_handle of a destroyed WaitCacheAck.
TickStray(s) ==
  /\ Ticks(s.left)
  /\ undefined' = TRUE
  /\ UNCHANGED <<managerVars, ticking, blocked, serverVars, net, faults, clientVars, applied>>

------------------------------------------------------------------------------
(* The network and the clock. *)

Lose(m) ==
  /\ m.type \in Lossy /\ faults < MaxFaults
  /\ faults' = faults + 1
  /\ net' = net \ {m}
  /\ UNCHANGED <<managerVars, ticking, blocked, serverVars, undefined, clientVars, applied>>

Double(m) ==
  /\ m.type \in Doubled /\ faults < MaxFaults
  /\ faults' = faults + 1
  /\ net' = net \cup {[m EXCEPT !.copy = 3]}
  /\ UNCHANGED <<managerVars, ticking, blocked, serverVars, undefined, clientVars, applied>>

Elapse ==
  /\ ~blocked /\ ~undefined
  /\ \A left \in Lefts : left > -MaxLag
  /\ ManagerElapse
  /\ wait_acks' = [op \in DOMAIN wait_acks |->
                    [left |-> wait_acks[op].left - 1, message |-> Aged(wait_acks[op].message)]]
  /\ net' = {Aged(m) : m \in net}
  /\ timestamp' = Later(timestamp)
  /\ told' = [op \in AnyOp |-> [told[op] EXCEPT !.expire = Later(@)]]
  /\ stray' = {[s EXCEPT !.left = @ - 1] : s \in stray}
  /\ UNCHANGED <<ticking, blocked, undefined, map, value, temp_value, cache_data,
                 defer_messages, peer, faults, requests, applied>>

Tick ==
  \/ \E i \in DOMAIN timer_queue :
       TickDeleted(i) \/ TickIdle(i) \/ TickUpdate(i) \/ TickThrows(i) \/ TickBlocks(i)
  \/ \E op \in DOMAIN wait_acks : TickResend(op)
  \/ \E s \in stray : TickStray(s)

Serve == \E m \in net : ServeRead(m) \/ ServeUpdate(m) \/ ServeAck(m)

Next ==
  \/ \E c \in Client, op \in AnyOp, k \in Key : SendRequest(c, op, k)
  \/ \E m \in net : ReceiveResponse(m)
  \/ Serve
  \/ Tick
  \/ \E m \in net : Lose(m) \/ Double(m)
  \/ Elapse

Spec == Init /\ [][Next]_vars

\* The loop of the server runs, the clock runs, and a datagram that is neither lost nor
\* overtaken for ever is received.
Fairness ==
  /\ WF_vars(Tick) /\ WF_vars(Elapse)
  /\ \A op \in AnyOp :
       /\ WF_vars(\E m \in net : m.op = op /\ (ServeRead(m) \/ ServeUpdate(m)))
       /\ WF_vars(\E m \in net : m.op = op /\ ServeAck(m))
       /\ WF_vars(\E m \in net : m.op = op /\ ReceiveResponse(m))

FairSpec == Spec /\ Fairness

------------------------------------------------------------------------------
TypeOK ==
  /\ current_state \in [Key -> State]
  /\ timer_id \in [Key -> TimerId \cup {NoTimer}]
  /\ expire_time \in [Key -> Int]
  /\ op_id \in [Key -> OpId \cup {ReadId}]
  /\ IsQueue(timer_queue)
  /\ {ticking, blocked, undefined} \subseteq BOOLEAN
  /\ map \subseteq Key
  /\ {value, temp_value} \subseteq [Key -> OpId \cup {Empty}]
  /\ cache_data \in OpId \cup {Empty} /\ timestamp \in 0..Lease
  /\ defer_messages \subseteq OpId
  /\ DOMAIN wait_acks \subseteq AnyOp
  /\ peer \in Client
  /\ faults \in 0..MaxFaults
  /\ requests \in [AnyOp -> [client : Client, key : Key] \cup {NoRequest}]
  /\ told \in [AnyOp -> [result : {"nothing", "ok", "retry", "nodata"},
                         data : OpId \cup {Empty}, expire : 0..Lease]]
  /\ applied \in [OpId -> Nat]

\* A request is kept in defer_messages_ exactly as long as its element waits to apply it: it
\* is neither forgotten nor leaked.
DeferredHeld ==
  defer_messages = {op_id[k] : k \in {l \in Key : current_state[l] = UpdateProtected}}

\* The lease as the client sees it: as long as the deadline that a client was told lies ahead,
\* the data it was told is the value the server keeps.
ClientCopyCurrent ==
  \A op \in AnyOp :
    told[op].result = "ok" /\ told[op].expire > 0 => value[requests[op].key] = told[op].data

\* A client that was told "ok" has its update made.
OkApplied == \A op \in OpId : told[op].result = "ok" => applied[op] > 0

\* A client that was told "retry" may try again: its update was not made and never will be.
RetryNotApplied ==
  \A op \in OpId : told[op].result = "retry" => applied[op] = 0 /\ op \notin defer_messages

\* An update is made once, and an answered one is not made again.
AppliedOnce ==
  [][\A op \in OpId : applied'[op] > applied[op] => applied[op] = 0 /\ ~IsTold(op)]_vars

\* A WaitCacheAck lives as long as its timer, so its timer never calls a destroyed object.
NoStrayTimer == stray = {}

\* A response, the first and the resent one, goes to the client that asked.
ResponseToAsker ==
  \A m \in net : m.type = "response" => m.to = requests[m.op].client

\* Each request is answered, also if one response is lost on the way.
Answered ==
  \A op \in AnyOp : requests[op] # NoRequest ~> IsTold(op)

------------------------------------------------------------------------------
\* The requests nobody has served, the update an element waits to apply, and the answer to a
\* request that is under way or kept for resending.
Open == {op \in AnyOp : \E m \in net : m.type = Kind(op) /\ m.op = op}

Waiting == [k \in Key |-> IF current_state[k] = UpdateProtected THEN op_id[k] ELSE Empty]

UnderWay(op) ==
  {m \in net : m.type = "response" /\ m.op = op}
    \cup {wait_acks[o].message : o \in {op} \cap DOMAIN wait_acks}

\* A request that was asked and whose client still waits is somewhere: on its way to the server,
\* with the element that waits to make it, or answered, with an answer under way or kept for
\* resending.  One lost response, wherever it is lost, leaves nobody waiting for nothing.
NoneForgotten ==
  \A op \in AnyOp : requests[op] # NoRequest /\ ~IsTold(op) =>
    op \in Open \/ op \in defer_messages \/ UnderWay(op) # {}

\* Somebody was told, or may still be told, that the data of k is current for some time.
Copied(k) ==
  \E op \in AnyOp : \E a \in {told[op]} \cup UnderWay(op) :
    /\ requests[op] # NoRequest /\ requests[op].key = k
    /\ a.result = "ok" /\ a.expire > 0 /\ a.data = value[k]

\* At any lag and whatever the network does, the data that such a copy shows is replaced only
\* where an orphan was left: nothing else the server does breaks a promise.
CopyBrokenOnlyByOrphan ==
  [][\A k \in Key : Copied(k) /\ value'[k] # value[k] => Orphans # {}]_vars

\* No read, or no request, is delivered between the end of a lease and tick(); how late tick() may
\* be otherwise is left open.
NoLateRead == \A m \in net : ServeRead(m) => ~Overdue(m.key)
NoLateRequest == \A m \in net : ServeRead(m) \/ ServeUpdate(m) => ~Overdue(m.key)

ReadsInTime == [][NoLateRead]_vars
RequestsInTime == [][NoLateRequest]_vars

Answers ==
  [op \in AnyOp |-> {Answer(m.result, m.data, m.expire) : m \in UnderWay(op)}]

Service == INSTANCE LeasedService WITH
  LossyOp <- {op \in AnyOp : Kind(op) \in Lossy},
  open <- Open, val <- value, pend <- Waiting, answers <- Answers

\* The clients see what LeasedService promises: each request takes effect at most once, between
\* call and answer, and what an answer grants holds.
ServiceSpec == Service!Spec
==============================================================================
