-------------------------- MODULE PromptServerProofs --------------------------
(***************************************************************************)
(* What CacheServer promises if no read is delivered between the end of a  *)
(* lease and tick(): whatever the network loses, reorders or doubles.  At  *)
(* the end: CacheServer implements LeasedService.  A server for which      *)
(* nothing is due when listen() delivers a datagram is one of those.       *)
(***************************************************************************)
EXTENDS CacheServerProofs

(* The only live timer of an element is the one its manager waits for, and it is due when the
   manager believes. *)
Matched ==
  \A i \in DOMAIN timer_queue : timer_queue[i].repeat = 1 =>
    /\ timer_id[timer_queue[i].key] = i
    /\ current_state[timer_queue[i].key] # Idle
    /\ timer_queue[i].target = TargetOf(current_state[timer_queue[i].key])
    /\ timer_queue[i].left = expire_time[timer_queue[i].key]

(* An element that waits keeps the value of the update it will answer. *)
PendingKept == \A k \in Key : current_state[k] = UpdateProtected => temp_value[k] = op_id[k]

(* The element keeps the data, and its lease does not end before. *)
Covers(k, data, expire) ==
  current_state[k] # Idle /\ expire <= expire_time[k] /\ value[k] = data

Covered ==
  \A k \in Key, data \in Data, expire \in Ahead :
    Promised(k, data, expire) => Covers(k, data, expire)

PromptInv == (~blocked => Matched) /\ PendingKept /\ DeferredHeld /\ Covered

------------------------------------------------------------------------------
(* Steps in the abstract. *)

(* The element has no promise to keep, or keeps it. *)
KeepsWord(k) ==
  \/ current_state[k] = Idle
  \/ expire_time[k] <= 0
  \/ /\ current_state'[k] # Idle /\ expire_time[k] <= expire_time'[k]
     /\ value'[k] = value[k]

LEMMA CoveredStep ==
  ASSUME ServerTyped, ManagerTyped', Covered, \A k \in Key : KeepsWord(k),
         \A k \in Key, data \in Data, expire \in Ahead :
           Promised(k, data, expire)' => Promised(k, data, expire) \/ Covers(k, data, expire)'
  PROVE  Covered'
<1> SUFFICES ASSUME NEW k \in Key, NEW data \in Data, NEW expire \in Ahead,
                    Covers(k, data, expire)
             PROVE  Covers(k, data, expire)'
  BY DEF Covered
<1>1. expire \in Int /\ expire > 0 /\ expire_time[k] \in Int /\ expire_time'[k] \in Int
  BY LeaseAssumption DEF Ahead, ServerTyped, ManagerTyped
<1>2. QED BY <1>1 DEF KeepsWord, Covers

(* No element begins or ends to wait. *)
LEMMA WaitersStep ==
  ASSUME PendingKept, DeferredHeld, UNCHANGED <<temp_value, defer_messages>>,
         \A k \in Key : /\ current_state'[k] = UpdateProtected <=> current_state[k] = UpdateProtected
                        /\ current_state[k] = UpdateProtected => op_id'[k] = op_id[k]
  PROVE  PendingKept' /\ DeferredHeld'
<1>1. PendingKept'
  BY DEF PendingKept
<1>2. {op_id'[k] : k \in {l \in Key : current_state'[l] = UpdateProtected}}
        = {op_id[k] : k \in {l \in Key : current_state[l] = UpdateProtected}}
  OBVIOUS
<1>3. QED BY <1>1, <1>2 DEF DeferredHeld

(* A step of the network or of a client that leaves the managers alone. *)
LEMMA ServerIdle ==
  ASSUME ServerTyped, PromptInv, NothingPromised,
         UNCHANGED <<managerVars, blocked, value, temp_value, defer_messages>>
  PROVE  PromptInv'
<1>1. (~blocked => Matched)'
  BY DEF PromptInv, Matched, managerVars
<1>2. PendingKept' /\ DeferredHeld'
  BY WaitersStep DEF PromptInv, managerVars
<1>3. ManagerTyped'
  BY DEF managerVars, ServerTyped, ManagerTyped, IsQueue
<1>4. \A k \in Key : KeepsWord(k)
  BY LeaseAssumption DEF KeepsWord, managerVars, ServerTyped, ManagerTyped
<1>5. Covered'
  BY <1>3, <1>4, CoveredStep DEF PromptInv, NothingPromised
<1>6. QED BY <1>1, <1>2, <1>5 DEF PromptInv

------------------------------------------------------------------------------
(* The managers' timers. *)

(* start_expire(): q is the heap without the timer of a running callback.  What is live for k in
   it is stopped, so the new timer is alone. *)
LEMMA StartedMatched ==
  ASSUME ManagerTyped, Matched, NEW k \in Key, NEW target \in {Idle, Guaranteed}, NEW ms \in Int,
         NEW q, IsQueue(q), DOMAIN q \subseteq DOMAIN timer_queue,
         \A j \in DOMAIN q : q[j] = timer_queue[j],
         \A j \in DOMAIN q : q[j].key = k /\ q[j].repeat = 1 => StopsTimer(k) /\ timer_id[k] = j,
         StartExpire(k, target, ms, q),
         NEW s \in State, s # Idle, TargetOf(s) = target,
         current_state' = [current_state EXCEPT ![k] = s]
  PROVE  Matched' /\ expire_time' = [expire_time EXCEPT ![k] = ms]
<1>1. PICK i \in TimerId \ DOMAIN timer_queue : Started(k, target, ms, q, i)
  BY StartExpireFacts
<1>2. /\ timer_id'[k] = i /\ current_state'[k] = s /\ expire_time'[k] = ms
      /\ \A l \in Key \ {k} : /\ timer_id'[l] = timer_id[l] /\ expire_time'[l] = expire_time[l]
                              /\ current_state'[l] = current_state[l]
  BY <1>1 DEF Started, ManagerTyped
<1>3. ASSUME NEW j \in DOMAIN timer_queue', timer_queue'[j].repeat = 1
      PROVE  /\ timer_id'[timer_queue'[j].key] = j
             /\ current_state'[timer_queue'[j].key] # Idle
             /\ timer_queue'[j].target = TargetOf(current_state'[timer_queue'[j].key])
             /\ timer_queue'[j].left = expire_time'[timer_queue'[j].key]
  <2>1. CASE j = i
    BY <1>1, <1>2, <2>1 DEF Started
  <2>2. CASE j # i
    <3>1. j \in DOMAIN q /\ q[j] = timer_queue[j] /\ q[j] \in Timer
      BY <1>1, <2>2, QueueFacts DEF Started
    <3>2. ~(StopsTimer(k) /\ j = timer_id[k]) /\ timer_queue'[j] = timer_queue[j]
      <4>1. [q[j] EXCEPT !.repeat = 0].repeat = 0
        BY <3>1 DEF Timer
      <4>2. timer_queue'[j] = IF StopsTimer(k) /\ j = timer_id[k]
                                THEN [q[j] EXCEPT !.repeat = 0] ELSE q[j]
        BY <1>1, <3>1 DEF Started
      <4>3. QED BY <1>3, <3>1, <4>1, <4>2
    <3>3. timer_queue[j].key \in Key \ {k}
      BY <1>3, <3>1, <3>2 DEF Timer
    <3>4. QED BY <1>2, <1>3, <3>1, <3>2, <3>3 DEF Matched
  <2>3. QED BY <2>1, <2>2
<1>4. QED BY <1>1, <1>3 DEF Started, Matched

(* stop_expire() finds the timer of its element, if its deadline has not passed. *)
LEMMA HandlerStops ==
  ASSUME ServerTyped, Matched, NEW k \in Key, ~Overdue(k), current_state[k] # UpdateProtected,
         NEW j \in DOMAIN timer_queue, timer_queue[j].key = k, timer_queue[j].repeat = 1
  PROVE  StopsTimer(k) /\ timer_id[k] = j
<1>1. timer_id[k] = j /\ current_state[k] # Idle
  BY DEF Matched
<1>2. j # NoTimer
  BY QueueFacts, NoTimerAssumption DEF ServerTyped, ManagerTyped
<1>3. current_state[k] = Guaranteed
  BY <1>1, States DEF ServerTyped, ManagerTyped
<1>4. expire_time[k] > 0
  BY <1>3 DEF Overdue, ServerTyped, ManagerTyped
<1>5. QED BY <1>1, <1>2, <1>4 DEF StopsTimer

LEMMA HandlerMatched ==
  ASSUME ServerTyped, Matched, NEW k \in Key, ~Overdue(k), current_state[k] # UpdateProtected,
         NEW target \in {Idle, Guaranteed}, NEW ms \in Int, StartExpire(k, target, ms, timer_queue),
         NEW s \in State, s # Idle, TargetOf(s) = target,
         current_state' = [current_state EXCEPT ![k] = s]
  PROVE  Matched' /\ expire_time' = [expire_time EXCEPT ![k] = ms]
<1>1. ManagerTyped /\ IsQueue(timer_queue)
  BY DEF ServerTyped, ManagerTyped
<1>2. \A j \in DOMAIN timer_queue :
        timer_queue[j].key = k /\ timer_queue[j].repeat = 1 => StopsTimer(k) /\ timer_id[k] = j
  BY HandlerStops
<1>3. QED BY <1>1, <1>2, StartedMatched

LEMMA GuaranteedMatched ==
  ASSUME ServerTyped, Matched, NEW k \in Key, ~Overdue(k), current_state[k] # UpdateProtected,
         EnterGuaranteed(k, timer_queue)
  PROVE  /\ Matched'
         /\ current_state' = [current_state EXCEPT ![k] = Guaranteed]
         /\ expire_time' = [expire_time EXCEPT ![k] = Lease]
<1>1. Guaranteed \in State /\ Guaranteed # Idle /\ TargetOf(Guaranteed) = Idle
      /\ Idle \in {Idle, Guaranteed} /\ Lease \in Int
  BY LeaseAssumption DEF State, Guaranteed, Idle, UpdateProtected, TargetOf
<1>2. StartExpire(k, Idle, Lease, timer_queue)
      /\ current_state' = [current_state EXCEPT ![k] = Guaranteed]
  BY DEF EnterGuaranteed
<1>3. QED BY <1>1, <1>2, HandlerMatched

LEMMA SameMatched == Matched /\ UNCHANGED <<timer_queue, timer_id, current_state, expire_time>> => Matched'
BY DEF Matched

------------------------------------------------------------------------------
(* The server's handlers. *)

LEMMA ServeReadPrompt ==
  ASSUME ServerTyped, PromptInv, NEW m \in net, ServeRead(m), ~Overdue(m.key)
  PROVE  PromptInv'
<1> DEFINE k == m.key
<1>1. /\ m \in Requests /\ m.op \in AnyOp /\ m.op \notin OpId /\ k \in Key /\ m.from \in Client
      /\ m.type = "read"
  BY Kinds DEF ServeRead, ServerTyped, Requests
<1>2. ~blocked /\ Matched
  BY DEF ServeRead, Listening, PromptInv
<1>3. ServerTyped'
  BY ServeReadTyped
<1>4. UNCHANGED <<told, requests, value, temp_value, defer_messages, blocked>>
  BY DEF ServeRead, clientVars
<1>6. ASSUME NEW message \in Responses, Respond(message, net \ {m}),
             message.op = m.op, message.key = k,
             \A data \in Data, expire \in Ahead :
               Grants(message, data, expire) => Covers(k, data, expire)'
      PROVE  \A l \in Key, data \in Data, expire \in Ahead :
               Promised(l, data, expire)' => Promised(l, data, expire) \/ Covers(l, data, expire)'
  BY <1>4, <1>6, RespondNews
<1>7. ASSUME Matched', \A l \in Key : KeepsWord(l),
             \A l \in Key, data \in Data, expire \in Ahead :
               Promised(l, data, expire)' => Promised(l, data, expire) \/ Covers(l, data, expire)',
             \A l \in Key : /\ current_state'[l] = UpdateProtected <=> current_state[l] = UpdateProtected
                            /\ current_state[l] = UpdateProtected => op_id'[l] = op_id[l]
      PROVE  PromptInv'
  <2>1. PendingKept' /\ DeferredHeld'
    BY <1>4, <1>7, WaitersStep DEF PromptInv
  <2>2. Covered'
    BY <1>3, <1>7, CoveredStep DEF PromptInv, ServerTyped
  <2>3. QED BY <1>7, <2>1, <2>2 DEF PromptInv
<1>8. CASE UNCHANGED managerVars /\ (k \in map => current_state[k] = UpdateProtected)
  <2>1. Matched'
    BY <1>2, <1>8, SameMatched DEF managerVars
  <2>2. \A l \in Key : KeepsWord(l)
    BY <1>4, <1>8, LeaseAssumption DEF KeepsWord, managerVars, ServerTyped, ManagerTyped
  <2>3. \E message \in Responses :
          /\ Respond(message, net \ {m}) /\ message.op = m.op /\ message.key = k
          /\ \A data \in Data, expire \in Ahead : ~Grants(message, data, expire)
    <3>1. CASE m.key \in map
      <4>1. current_state[k] = UpdateProtected
        BY <1>8, <3>1
      <4>2. timestamp' = 0 /\ value[k] \in Data
        BY <1>1, <3>1, <4>1 DEF ServeRead, ReadExpire, ServerTyped, DataTyped, Data
      <4>3. Respond(Response(m.op, k, "ok", value[k], 0, m.from), net \ {m}) /\ 0 \in 0..Lease
        BY <3>1, <4>2, AheadTyped, LeaseAssumption DEF ServeRead
      <4>4. Response(m.op, k, "ok", value[k], 0, m.from) \in Responses
        BY <1>1, <4>2, <4>3, ResponseTyped DEF Data
      <4>5. QED BY <4>3, <4>4, AheadTyped DEF Response, Grants
    <3>2. CASE m.key \notin map
      <4>1. /\ Respond(Response(m.op, k, "nodata", cache_data, timestamp, m.from), net \ {m})
            /\ cache_data \in OpId \cup {Empty} /\ timestamp \in 0..Lease
        BY <3>2 DEF ServeRead, ServerTyped, DataTyped
      <4>2. Response(m.op, k, "nodata", cache_data, timestamp, m.from) \in Responses
        BY <1>1, <4>1, ResponseTyped
      <4>3. QED BY <4>1, <4>2 DEF Response, Grants
    <3>3. QED BY <3>1, <3>2
  <2>4. QED BY <1>6, <1>7, <1>8, <2>1, <2>2, <2>3 DEF managerVars
<1>9. CASE /\ EnterGuaranteed(k, timer_queue) /\ current_state[k] # UpdateProtected
           /\ op_id' \in {op_id, [op_id EXCEPT ![k] = ReadId]}
           /\ timestamp' = ReadExpire(k)
           /\ Respond(Response(m.op, k, "ok", value[k], timestamp', m.from), net \ {m})
  <2>1. /\ Matched'
        /\ current_state' = [current_state EXCEPT ![k] = Guaranteed]
        /\ expire_time' = [expire_time EXCEPT ![k] = Lease]
    BY <1>1, <1>2, <1>9, GuaranteedMatched
  <2>2. \A l \in Key : KeepsWord(l)
    BY <1>1, <1>4, <2>1, States, LeaseAssumption DEF KeepsWord, ServerTyped, ManagerTyped
  <2>3. timestamp' = Lease /\ value[k] \in OpId \cup {Empty} /\ Lease \in 0..Lease
    BY <1>1, <1>9, AheadTyped DEF ReadExpire, ServerTyped, DataTyped
  <2>4. Response(m.op, k, "ok", value[k], Lease, m.from) \in Responses
    BY <1>1, <2>3, ResponseTyped
  <2>5. \A data \in Data, expire \in Ahead : data = value[k] => Covers(k, data, expire)'
    BY <1>1, <1>4, <2>1, States, LeaseAssumption DEF Covers, Ahead, ServerTyped, ManagerTyped
  <2>6. \A l \in Key : /\ current_state'[l] = UpdateProtected <=> current_state[l] = UpdateProtected
                       /\ current_state[l] = UpdateProtected => op_id'[l] = op_id[l]
    BY <1>1, <1>9, <2>1, States DEF ServerTyped, ManagerTyped
  <2> DEFINE message == Response(m.op, k, "ok", value[k], Lease, m.from)
  <2>7. message.op = m.op /\ message.key = k /\ message.data = value[k]
    BY DEF Response
  <2>8. Respond(message, net \ {m})
    BY <1>9, <2>3
  <2> HIDE DEF message
  <2>9. message \in Responses
    BY <2>4 DEF message
  <2>10. \A data \in Data, expire \in Ahead :
           Grants(message, data, expire) => Covers(k, data, expire)'
    BY <2>5, <2>7 DEF Grants
  <2>11. QED BY <1>6, <1>7, <2>1, <2>2, <2>6, <2>7, <2>8, <2>9, <2>10
<1>10. QED
  <2>1. CASE m.key \notin map
    BY <1>8, <2>1 DEF ServeRead
  <2>2. CASE m.key \in map
    BY <1>8, <1>9, <2>2, States DEF ServeRead, ManagerRead
  <2>3. QED BY <2>1, <2>2

LEMMA ServeUpdatePrompt ==
  ASSUME ServerTyped, PromptInv, NEW m \in net, ServeUpdate(m)
  PROVE  PromptInv'
<1> DEFINE k == m.key
<1>1. /\ m \in Requests /\ m.op \in OpId /\ m.op \in AnyOp /\ k \in Key /\ m.from \in Client
      /\ m.type = "update"
  BY Kinds DEF ServeUpdate, ServerTyped, Requests
<1>2. ~blocked /\ Matched
  BY DEF ServeUpdate, Listening, PromptInv
<1>3. ServerTyped'
  BY ServeUpdateTyped
<1>4. UNCHANGED <<told, requests, blocked>>
  BY DEF ServeUpdate, clientVars
<1>6. ASSUME NEW message \in Responses, Respond(message, net \ {m}),
             message.op = m.op, message.key = k,
             \A data \in Data, expire \in Ahead :
               Grants(message, data, expire) => Covers(k, data, expire)'
      PROVE  \A l \in Key, data \in Data, expire \in Ahead :
               Promised(l, data, expire)' => Promised(l, data, expire) \/ Covers(l, data, expire)'
  BY <1>4, <1>6, RespondNews
<1>7. ASSUME net' = net \ {m}, UNCHANGED wait_acks
      PROVE  NothingPromised
  BY <1>4, <1>7, NoNews DEF NothingPromised
<1>8. ASSUME Matched', PendingKept', DeferredHeld', \A l \in Key : KeepsWord(l),
             \A l \in Key, data \in Data, expire \in Ahead :
               Promised(l, data, expire)' => Promised(l, data, expire) \/ Covers(l, data, expire)'
      PROVE  PromptInv'
  <2>1. Covered'
    BY <1>3, <1>8, CoveredStep DEF PromptInv, ServerTyped
  <2>2. QED BY <1>8, <2>1 DEF PromptInv
<1>9. CASE AcceptUpdate(m)
  <2>1. /\ current_state[k] = Idle /\ EnterGuaranteed(k, timer_queue)
        /\ UNCHANGED <<op_id, temp_value, defer_messages>>
        /\ value' = [value EXCEPT ![k] = m.op]
    BY <1>9 DEF AcceptUpdate, ManagerUpdateOk, Store
  <2>2. /\ Matched'
        /\ current_state' = [current_state EXCEPT ![k] = Guaranteed]
        /\ expire_time' = [expire_time EXCEPT ![k] = Lease]
    <3>1. ~Overdue(k) /\ current_state[k] # UpdateProtected
      BY <2>1, States DEF Overdue
    <3>2. QED BY <1>1, <1>2, <2>1, <3>1, GuaranteedMatched
  <2>3. \A l \in Key : KeepsWord(l)
    BY <1>1, <2>1, <2>2, States, LeaseAssumption DEF KeepsWord, ServerTyped, ManagerTyped, DataTyped
  <2>4. \A data \in Data, expire \in Ahead : data = m.op => Covers(k, data, expire)'
    BY <1>1, <2>1, <2>2, States, LeaseAssumption DEF Covers, Ahead, ServerTyped, ManagerTyped, DataTyped
  <2>5. \A l \in Key : /\ current_state'[l] = UpdateProtected <=> current_state[l] = UpdateProtected
                       /\ current_state[l] = UpdateProtected => op_id'[l] = op_id[l]
    BY <1>1, <2>1, <2>2, States DEF ServerTyped, ManagerTyped
  <2>6. PendingKept' /\ DeferredHeld'
    BY <2>1, <2>5, WaitersStep DEF PromptInv
  <2> DEFINE message == Response(m.op, k, "ok", m.op, Lease, m.from)
  <2>7. message.op = m.op /\ message.key = k /\ message.data = m.op
    BY DEF Response
  <2>8. Respond(message, net \ {m})
    BY <1>9 DEF AcceptUpdate
  <2>9. message \in Responses
    BY <1>1, AheadTyped, ResponseTyped
  <2> HIDE DEF message
  <2>10. \A data \in Data, expire \in Ahead :
           Grants(message, data, expire) => Covers(k, data, expire)'
    BY <2>4, <2>7 DEF Grants
  <2>11. QED BY <1>6, <1>8, <2>2, <2>3, <2>6, <2>7, <2>8, <2>9, <2>10
<1>10. CASE RetryUpdate(m)
  <2>1. UNCHANGED <<managerVars, value, temp_value, defer_messages>>
    BY <1>10 DEF RetryUpdate
  <2>2. Matched'
    BY <1>2, <2>1, SameMatched DEF managerVars
  <2>3. \A l \in Key : KeepsWord(l)
    BY <2>1, LeaseAssumption DEF KeepsWord, managerVars, ServerTyped, ManagerTyped
  <2>4. PendingKept' /\ DeferredHeld'
    BY <2>1, WaitersStep DEF PromptInv, managerVars
  <2> DEFINE message == Response(m.op, k, "retry", m.op, Remaining(k), m.from)
  <2>5. message.op = m.op /\ message.key = k /\ message.result = "retry"
    BY DEF Response
  <2>6. Respond(message, net \ {m})
    BY <1>10 DEF RetryUpdate
  <2>7. message \in Responses
    <3>1. Remaining(k) \in 0..Lease
      BY <1>1, LeaseAssumption DEF Remaining, ServerTyped, ManagerTyped
    <3>2. QED BY <1>1, <3>1, ResponseTyped
  <2> HIDE DEF message
  <2>8. \A data \in Data, expire \in Ahead : ~Grants(message, data, expire)
    BY <2>5 DEF Grants
  <2>9. QED BY <1>6, <1>8, <2>2, <2>3, <2>4, <2>5, <2>6, <2>7, <2>8
<1>11. CASE DeferUpdate(m)
  <2>1. /\ current_state[k] = Guaranteed /\ expire_time[k] \in Int /\ expire_time[k] > 0
        /\ StartExpire(k, Guaranteed, expire_time[k], timer_queue)
        /\ current_state' = [current_state EXCEPT ![k] = UpdateProtected]
        /\ op_id' = [op_id EXCEPT ![k] = m.op] /\ temp_value' = [temp_value EXCEPT ![k] = m.op]
        /\ defer_messages' = defer_messages \cup {m.op}
        /\ UNCHANGED <<value, wait_acks>> /\ net' = net \ {m}
    BY <1>1, <1>11 DEF DeferUpdate, ManagerUpdateDefer, EnterUpdateProtected, ServerTyped, ManagerTyped
  <2>2. Matched' /\ expire_time' = [expire_time EXCEPT ![k] = expire_time[k]]
    <3>1. ~Overdue(k) /\ current_state[k] # UpdateProtected
      BY <2>1, States DEF Overdue
    <3>2. QED BY <1>1, <1>2, <2>1, <3>1, States, HandlerMatched
  <2>3. /\ current_state'[k] = UpdateProtected /\ op_id'[k] = m.op /\ temp_value'[k] = m.op
        /\ \A l \in Key \ {k} : /\ current_state'[l] = current_state[l] /\ op_id'[l] = op_id[l]
                                /\ temp_value'[l] = temp_value[l]
    BY <1>1, <2>1 DEF ServerTyped, ManagerTyped, DataTyped
  <2>4. \A l \in Key : KeepsWord(l)
    BY <1>1, <2>1, <2>2, <2>3, States DEF KeepsWord, ServerTyped, ManagerTyped
  <2>5. PendingKept'
    BY <2>3 DEF PromptInv, PendingKept
  <2>6. DeferredHeld'
    <3> DEFINE waiting == {l \in Key : current_state[l] = UpdateProtected}
    <3>1. {l \in Key : current_state'[l] = UpdateProtected} = waiting \cup {k} /\ k \notin waiting
      BY <1>1, <2>1, <2>3, States
    <3>2. {op_id'[l] : l \in waiting \cup {k}} = {op_id[l] : l \in waiting} \cup {m.op}
      BY <2>3, <3>1
    <3>3. defer_messages = {op_id[l] : l \in waiting}
      BY DEF PromptInv, DeferredHeld
    <3>4. QED BY <2>1, <3>1, <3>2, <3>3 DEF DeferredHeld
  <2>7. QED BY <1>7, <1>8, <2>1, <2>2, <2>4, <2>5, <2>6 DEF NothingPromised
<1>12. CASE ThrowUpdate(m)
  <2>1. /\ current_state[k] = Guaranteed /\ op_id' = [op_id EXCEPT ![k] = m.op]
        /\ UNCHANGED <<current_state, timer_id, expire_time, timer_queue, value, temp_value,
                       defer_messages, wait_acks>>
        /\ net' = net \ {m}
    BY <1>12 DEF ThrowUpdate, ManagerUpdateExpired
  <2>2. Matched'
    BY <1>2, <2>1, SameMatched
  <2>3. \A l \in Key : KeepsWord(l)
    BY <2>1, LeaseAssumption DEF KeepsWord, ServerTyped, ManagerTyped
  <2>4. PendingKept' /\ DeferredHeld'
    <3>1. \A l \in Key : current_state[l] = UpdateProtected => op_id'[l] = op_id[l]
      BY <1>1, <2>1, States DEF ServerTyped, ManagerTyped
    <3>2. QED BY <2>1, <3>1, WaitersStep DEF PromptInv
  <2>5. QED BY <1>7, <1>8, <2>1, <2>2, <2>3, <2>4 DEF NothingPromised
<1>13. QED BY <1>9, <1>10, <1>11, <1>12 DEF ServeUpdate

LEMMA ServeAckPrompt ==
  ASSUME ServerTyped, PromptInv, NEW m \in net, ServeAck(m)
  PROVE  PromptInv'
BY ServeAckNews, ServerIdle DEF ServeAck

------------------------------------------------------------------------------
(* The clients and the network. *)

LEMMA ClientPrompt ==
  ASSUME ServerTyped, Keyed, PromptInv,
         \/ \E c \in Client, op \in AnyOp, k \in Key : SendRequest(c, op, k)
         \/ \E m \in net : ReceiveResponse(m) \/ Lose(m) \/ Double(m)
  PROVE  PromptInv'
<1>1. NothingPromised
  BY SendNews, ReceiveNews, NetworkNews
<1>2. UNCHANGED <<managerVars, blocked, value, temp_value, defer_messages>>
  BY DEF SendRequest, ReceiveResponse, Lose, Double, serverVars
<1>3. QED BY <1>1, <1>2, ServerIdle

------------------------------------------------------------------------------
(* tick(). *)

(* The live timer that tick() takes is the one the manager waits for, and no other is left. *)
LEMMA TakenTimer ==
  ASSUME ServerTyped, Matched, NEW i \in DOMAIN timer_queue, timer_queue[i].repeat = 1,
         NEW k, k = timer_queue[i].key
  PROVE  /\ k \in Key /\ timer_id[k] = i /\ current_state[k] # Idle
         /\ timer_queue[i].target = TargetOf(current_state[k])
         /\ timer_queue[i].left = expire_time[k]
         /\ \A j \in DOMAIN timer_queue \ {i} : timer_queue[j].key = k => timer_queue[j].repeat # 1
<1>1. k \in Key
  BY QueueFacts DEF ServerTyped, ManagerTyped, Timer
<1>2. \A j \in DOMAIN timer_queue :
        timer_queue[j].key = k /\ timer_queue[j].repeat = 1 => timer_id[k] = j
  BY DEF Matched
<1>3. QED BY <1>1, <1>2 DEF Matched

LEMMA RestFacts ==
  ASSUME ServerTyped, NEW i \in DOMAIN timer_queue
  PROVE  /\ IsQueue(PopTimer(timer_queue, i))
         /\ DOMAIN PopTimer(timer_queue, i) = DOMAIN timer_queue \ {i}
         /\ \A j \in DOMAIN timer_queue \ {i} : PopTimer(timer_queue, i)[j] = timer_queue[j]
BY PopTimerFacts DEF ServerTyped, ManagerTyped

(* A step of tick() at a manager's timer that answers nobody. *)
LEMMA TickQuiet ==
  ASSUME ServerTyped, ServerTyped', PromptInv,
         UNCHANGED <<op_id, serverVars, net, clientVars>>,
         (~blocked => Matched)', \A k \in Key : KeepsWord(k),
         \A k \in Key : current_state'[k] = UpdateProtected <=> current_state[k] = UpdateProtected
  PROVE  PromptInv'
<1>1. UNCHANGED <<op_id, wait_acks, net, told, requests, temp_value, defer_messages>>
  BY DEF serverVars, clientVars
<1>2. PendingKept' /\ DeferredHeld'
  BY <1>1, WaitersStep DEF PromptInv
<1>3. Covered'
  BY <1>1, NoNews, CoveredStep DEF PromptInv, ServerTyped
<1>4. QED BY <1>2, <1>3 DEF PromptInv

LEMMA TickDeletedPrompt ==
  ASSUME ServerTyped, ServerTyped', PromptInv, NEW i \in DOMAIN timer_queue, TickDeleted(i)
  PROVE  PromptInv'
<1>1. /\ ~blocked /\ timer_queue' = PopTimer(timer_queue, i)
      /\ UNCHANGED <<current_state, timer_id, expire_time, op_id, value, serverVars, net, clientVars>>
  BY DEF TickDeleted, ManagerTickDeleted, Ticks, serverVars
<1>2. Matched'
  <2>1. \A j \in DOMAIN timer_queue' : j \in DOMAIN timer_queue /\ timer_queue'[j] = timer_queue[j]
    BY <1>1, RestFacts
  <2>2. QED BY <1>1, <2>1 DEF PromptInv, Matched
<1>3. \A k \in Key : KeepsWord(k)
  BY <1>1, LeaseAssumption DEF KeepsWord, ServerTyped, ManagerTyped
<1>4. QED BY <1>1, <1>2, <1>3, TickQuiet

LEMMA TickIdlePrompt ==
  ASSUME ServerTyped, ServerTyped', PromptInv, NEW i \in DOMAIN timer_queue, TickIdle(i)
  PROVE  PromptInv'
<1> DEFINE k == timer_queue[i].key
<1>1. /\ ~blocked /\ Matched /\ timer_queue[i].left <= 0
      /\ timer_queue[i].repeat = 1 /\ timer_queue[i].target = Idle
      /\ timer_queue' = PopTimer(timer_queue, i)
      /\ timer_id' = [timer_id EXCEPT ![k] = NoTimer]
      /\ expire_time' = [expire_time EXCEPT ![k] = 0]
      /\ current_state' = [current_state EXCEPT ![k] = Idle]
      /\ UNCHANGED <<op_id, value, serverVars, net, clientVars>>
  BY DEF TickIdle, ManagerTickIdle, EnterIdle, Ticks, InFront, serverVars, PromptInv
<1>2. /\ k \in Key /\ current_state[k] = Guaranteed /\ expire_time[k] <= 0
      /\ \A j \in DOMAIN timer_queue \ {i} : timer_queue[j].key = k => timer_queue[j].repeat # 1
  BY <1>1, TakenTimer, States DEF ServerTyped, ManagerTyped
<1>3. /\ current_state'[k] = Idle
      /\ \A l \in Key \ {k} : /\ timer_id'[l] = timer_id[l] /\ expire_time'[l] = expire_time[l]
                              /\ current_state'[l] = current_state[l]
  BY <1>1, <1>2 DEF ServerTyped, ManagerTyped
<1>4. Matched'
  <2> SUFFICES ASSUME NEW j \in DOMAIN timer_queue', timer_queue'[j].repeat = 1
               PROVE  /\ timer_id'[timer_queue'[j].key] = j
                      /\ current_state'[timer_queue'[j].key] # Idle
                      /\ timer_queue'[j].target = TargetOf(current_state'[timer_queue'[j].key])
                      /\ timer_queue'[j].left = expire_time'[timer_queue'[j].key]
    BY DEF Matched
  <2>1. j \in DOMAIN timer_queue \ {i} /\ timer_queue'[j] = timer_queue[j]
    BY <1>1, RestFacts
  <2>2. timer_queue[j].key \in Key \ {k}
    BY <1>2, <2>1, QueueFacts DEF ServerTyped, ManagerTyped, Timer
  <2>3. QED BY <1>1, <1>3, <2>1, <2>2 DEF Matched
<1>5. \A l \in Key : KeepsWord(l)
  BY <1>1, <1>2, <1>3, LeaseAssumption DEF KeepsWord, ServerTyped, ManagerTyped
<1>6. \A l \in Key : current_state'[l] = UpdateProtected <=> current_state[l] = UpdateProtected
  BY <1>2, <1>3, States
<1>7. QED BY <1>1, <1>4, <1>5, <1>6, TickQuiet

LEMMA TickBlocksPrompt ==
  ASSUME ServerTyped, ServerTyped', PromptInv, NEW i \in DOMAIN timer_queue, TickBlocks(i)
  PROVE  PromptInv'
<1> DEFINE k == timer_queue[i].key
<1>1. /\ blocked'
      /\ \/ expire_time' = expire_time
         \/ expire_time' = [expire_time EXCEPT ![k] = Lease]
      /\ UNCHANGED <<current_state, op_id, value, serverVars, net, clientVars>>
  BY DEF TickBlocks, ManagerTickBlocks, serverVars
<1>2. \A l \in Key : KeepsWord(l)
  BY <1>1, LeaseAssumption DEF KeepsWord, ServerTyped, ManagerTyped
<1>3. QED BY <1>1, <1>2, TickQuiet

(* The callback of a deferred update: its element waits for it, so its request is there and nobody
   relies on the old value any more. *)
LEMMA TickUpdatePrompt ==
  ASSUME ServerTyped, ServerTyped', Keyed, PromptInv, NEW i \in DOMAIN timer_queue,
         TickUpdate(i) \/ TickThrows(i)
  PROVE  PromptInv'
<1>0. PICK k \in Key : k = timer_queue[i].key
  BY QueueFacts DEF ServerTyped, ManagerTyped, Timer
<1> DEFINE rest == PopTimer(timer_queue, i)
<1>1. /\ ~blocked /\ Matched /\ timer_queue[i].left <= 0
      /\ timer_queue[i].repeat = 1 /\ timer_queue[i].target = Guaranteed
  BY DEF TickUpdate, TickThrows, ManagerTickUpdate, Ticks, InFront, PromptInv
<1>2. /\ k \in Key /\ current_state[k] = UpdateProtected /\ expire_time[k] <= 0
      /\ \A j \in DOMAIN timer_queue \ {i} : timer_queue[j].key = k => timer_queue[j].repeat # 1
  BY <1>0, <1>1, TakenTimer, States DEF ServerTyped, ManagerTyped
<1>3. op_id[k] \in defer_messages /\ temp_value[k] = op_id[k]
  BY <1>2 DEF PromptInv, DeferredHeld, PendingKept
<1>4. /\ StartExpire(k, Idle, Lease, rest)
      /\ current_state' = [current_state EXCEPT ![k] = Guaranteed]
      /\ value' = [value EXCEPT ![k] = op_id[k]]
      /\ temp_value' = [temp_value EXCEPT ![k] = Empty]
      /\ defer_messages' = defer_messages \ {op_id[k]}
      /\ Respond(Response(op_id[k], k, "ok", op_id[k], Lease, peer), net)
      /\ UNCHANGED <<op_id, told, requests>>
  BY <1>0, <1>3 DEF TickUpdate, TickThrows, ManagerTickUpdate, EnterGuaranteed, Store, clientVars
<1>5. /\ op_id[k] \in OpId /\ op_id[k] \in AnyOp /\ Lease \in Int
      /\ \A l \in Key : op_id[l] \in OpId /\ op_id[l] = op_id[k] => l = k
  <2>1. op_id[k] \in OpId /\ op_id[k] \in AnyOp /\ Lease \in Int
    BY <1>3, Ops, LeaseAssumption DEF ServerTyped, DataTyped
  <2>2. \A l \in Key : op_id[l] = op_id[k] => requests[op_id[k]].key = l
    BY <2>1 DEF Keyed, Knows
  <2>3. QED BY <1>2, <2>1, <2>2
<1>6. Matched' /\ expire_time' = [expire_time EXCEPT ![k] = Lease]
  <2>1. /\ IsQueue(rest) /\ DOMAIN rest \subseteq DOMAIN timer_queue
        /\ \A j \in DOMAIN rest : rest[j] = timer_queue[j]
        /\ \A j \in DOMAIN rest : ~(rest[j].key = k /\ rest[j].repeat = 1)
    BY <1>2, RestFacts
  <2>2. /\ ManagerTyped /\ Idle \in {Idle, Guaranteed}
        /\ Guaranteed \in State /\ Guaranteed # Idle /\ TargetOf(Guaranteed) = Idle
    BY States DEF ServerTyped
  <2>3. \A j \in DOMAIN rest :
          rest[j].key = k /\ rest[j].repeat = 1 => StopsTimer(k) /\ timer_id[k] = j
    BY <2>1
  <2> HIDE DEF rest
  <2>4. QED BY <1>1, <1>4, <1>5, <2>1, <2>2, <2>3, StartedMatched
<1>7. /\ current_state'[k] = Guaranteed /\ expire_time'[k] = Lease
      /\ value'[k] = op_id[k] /\ temp_value'[k] = Empty
      /\ \A l \in Key \ {k} : /\ current_state'[l] = current_state[l]
                              /\ expire_time'[l] = expire_time[l]
                              /\ value'[l] = value[l] /\ temp_value'[l] = temp_value[l]
  BY <1>2, <1>4, <1>6 DEF ServerTyped, ManagerTyped, DataTyped
<1>8. PendingKept'
  BY <1>4, <1>7, States DEF PromptInv, PendingKept
<1>9. DeferredHeld'
  <2> DEFINE waiting == {l \in Key : current_state[l] = UpdateProtected}
  <2>1. {l \in Key : current_state'[l] = UpdateProtected} = waiting \ {k}
    BY <1>7, States
  <2>2. defer_messages = {op_id[l] : l \in waiting}
    BY DEF PromptInv, DeferredHeld
  <2>3. {op_id[l] : l \in waiting \ {k}} = {op_id[l] : l \in waiting} \ {op_id[k]}
    BY <1>2, <1>5
  <2>4. QED BY <1>4, <2>1, <2>2, <2>3 DEF DeferredHeld
<1> DEFINE message == Response(op_id[k], k, "ok", op_id[k], Lease, peer)
<1>10. message \in Responses /\ message.op = op_id[k] /\ message.key = k /\ message.data = op_id[k]
  <2>1. message \in Responses
    BY <1>2, <1>5, AheadTyped, ResponseTyped DEF ServerTyped, DataTyped
  <2>2. QED BY <2>1 DEF Response
<1>11. Respond(message, net)
  BY <1>4
<1> HIDE DEF message
<1>12. \A l \in Key : KeepsWord(l)
  BY <1>2, <1>7, LeaseAssumption DEF KeepsWord, ServerTyped, ManagerTyped
<1>13. \A data \in Data, expire \in Ahead : data = op_id[k] => Covers(k, data, expire)'
  BY <1>2, <1>7, States, LeaseAssumption DEF Covers, Ahead
<1>14. \A l \in Key, data \in Data, expire \in Ahead :
         Promised(l, data, expire)' => Promised(l, data, expire) \/ Covers(l, data, expire)'
  <2>1. \A data \in Data, expire \in Ahead :
          Grants(message, data, expire) => Covers(k, data, expire)'
    BY <1>10, <1>13 DEF Grants
  <2>2. QED BY <1>4, <1>10, <1>11, <2>1, RespondNews
<1>15. Covered'
  BY <1>12, <1>14, CoveredStep DEF PromptInv, ServerTyped
<1>16. QED BY <1>6, <1>8, <1>9, <1>15 DEF PromptInv

LEMMA TickPrompt ==
  ASSUME ServerTyped, Keyed, PromptInv, Tick
  PROVE  PromptInv'
<1>1. ServerTyped'
  BY TickTyped
<1>2. ASSUME NEW op \in DOMAIN wait_acks, TickResend(op) PROVE PromptInv'
  BY <1>2, TickResendNews, ServerIdle DEF TickResend
<1>3. ASSUME NEW s \in stray, TickStray(s) PROVE PromptInv'
  BY <1>3, NoNews, ServerIdle DEF TickStray, serverVars, clientVars, NothingPromised
<1>4. QED
  BY <1>1, <1>2, <1>3, TickDeletedPrompt, TickIdlePrompt, TickUpdatePrompt, TickBlocksPrompt DEF Tick

(* Timers, deadlines of the managers and of the promises count down together. *)
LEMMA ElapsePrompt ==
  ASSUME ServerTyped, PromptInv, Elapse
  PROVE  PromptInv'
<1>1. /\ ~blocked /\ Matched /\ ManagerElapse
      /\ UNCHANGED <<blocked, value, temp_value, defer_messages>>
      /\ UNCHANGED <<current_state, timer_id, op_id>>
  BY DEF Elapse, PromptInv, ManagerElapse
<1>2. \A k \in Key : /\ expire_time'[k] \in Int /\ expire_time[k] \in Int
                     /\ current_state[k] # Idle => expire_time'[k] = expire_time[k] - 1
  BY <1>1 DEF ManagerElapse, ServerTyped, ManagerTyped
<1>3. Matched'
  <2> SUFFICES ASSUME NEW j \in DOMAIN timer_queue', timer_queue'[j].repeat = 1
               PROVE  /\ timer_id'[timer_queue'[j].key] = j
                      /\ current_state'[timer_queue'[j].key] # Idle
                      /\ timer_queue'[j].target = TargetOf(current_state'[timer_queue'[j].key])
                      /\ timer_queue'[j].left = expire_time'[timer_queue'[j].key]
    BY DEF Matched
  <2>1. /\ j \in DOMAIN timer_queue /\ timer_queue[j] \in Timer
        /\ timer_queue'[j] = [timer_queue[j] EXCEPT !.left = timer_queue[j].left - 1]
    BY <1>1, ElapsedFacts, QueueFacts DEF ManagerElapse, ServerTyped, ManagerTyped
  <2>2. /\ timer_queue'[j].repeat = timer_queue[j].repeat
        /\ timer_queue'[j].key = timer_queue[j].key /\ timer_queue[j].key \in Key
        /\ timer_queue'[j].target = timer_queue[j].target
        /\ timer_queue'[j].left = timer_queue[j].left - 1
    BY <2>1 DEF Timer
  <2>3. QED BY <1>1, <1>2, <2>1, <2>2 DEF Matched
<1>4. PendingKept' /\ DeferredHeld'
  BY <1>1, WaitersStep DEF PromptInv
<1>5. Covered'
  <2> SUFFICES ASSUME NEW k \in Key, NEW data \in Data, NEW expire \in Ahead,
                      Promised(k, data, expire)'
               PROVE  Covers(k, data, expire)'
    BY DEF Covered
  <2>1. Covers(k, data, expire + 1)
    BY ElapseNews DEF PromptInv, Covered
  <2>2. expire \in Int
    BY LeaseAssumption DEF Ahead
  <2>3. QED BY <1>1, <1>2, <2>1, <2>2 DEF Covers
<1>6. QED BY <1>3, <1>4, <1>5 DEF PromptInv

------------------------------------------------------------------------------
LEMMA InitPrompt == Init => PromptInv
<1> SUFFICES ASSUME Init PROVE PromptInv
  OBVIOUS
<1>1. Matched
  BY DEF Init, ManagerInit, Matched
<1>2. \A k \in Key : current_state[k] = Idle /\ Idle # UpdateProtected /\ op_id[k] = ReadId
  BY States DEF Init, ManagerInit
<1>3. PendingKept /\ DeferredHeld
  <2>1. {op_id[k] : k \in {l \in Key : current_state[l] = UpdateProtected}} = {}
    BY <1>2
  <2>2. QED BY <1>2, <2>1 DEF Init, PendingKept, DeferredHeld
<1>4. Covered
  BY DEF Init, Covered, Promised, Grants, Unanswered, Answer
<1>5. QED BY <1>1, <1>3, <1>4 DEF PromptInv

LEMMA NextPrompt ==
  ServerTyped /\ Keyed /\ PromptInv /\ [Next]_vars /\ [NoLateRead]_vars => PromptInv'
<1> SUFFICES ASSUME ServerTyped, Keyed, PromptInv, [Next]_vars, [NoLateRead]_vars PROVE PromptInv'
  OBVIOUS
<1>1. CASE UNCHANGED vars
  BY <1>1, NoNews, ServerIdle DEF vars, serverVars, clientVars, NothingPromised
<1>2. CASE NoLateRead /\ Serve
  BY <1>2, ServeReadPrompt, ServeUpdatePrompt, ServeAckPrompt DEF Serve, NoLateRead
<1>3. QED BY <1>1, <1>2, ClientPrompt, TickPrompt, ElapsePrompt DEF Next

LEMMA InTimeServer == Spec /\ ReadsInTime => [](ServerTyped /\ LeaseInv /\ PromptInv)
<1>1. LeaseInv => Keyed
  BY DEF LeaseInv
<1>2. QED BY <1>1, InitPrompt, NextPrompt, LeaseInvariant, PTL DEF Spec, ReadsInTime

(* If nothing is due when listen() delivers a datagram, no request is late. *)
LEMMA PromptInTime == TickFirst => (Spec => RequestsInTime)
<1> SUFFICES ASSUME TickFirst PROVE Spec => RequestsInTime
  OBVIOUS
<1>1. ASSUME ServerTyped, LeaseInv PROVE NoLateRequest
  <2> SUFFICES ASSUME NEW m \in net, ServeRead(m) \/ ServeUpdate(m), Overdue(m.key) PROVE FALSE
    BY DEF NoLateRequest
  <2>1. m.key \in Key /\ ~blocked /\ ~AnyDue
    BY <1>1, Kinds DEF ServeRead, ServeUpdate, Listening, ServerTyped, Requests
  <2>2. OwnTimer(m.key) /\ current_state[m.key] # Idle
    BY <1>1, <2>1, States DEF LeaseInv, OwnTimers, Overdue
  <2>3. /\ timer_id[m.key] \in DOMAIN timer_queue
        /\ timer_queue[timer_id[m.key]].left = expire_time[m.key]
    BY <2>2 DEF OwnTimer
  <2>4. expire_time[m.key] \in Lefts
    BY <2>3 DEF Lefts
  <2>5. QED BY <2>1, <2>4 DEF AnyDue, Overdue
<1>2. QED BY <1>1, LeaseInvariant, PTL DEF Spec, RequestsInTime

LEMMA RequestsReads == RequestsInTime => ReadsInTime
<1>1. NoLateRequest => NoLateRead
  BY DEF NoLateRequest, NoLateRead
<1>2. QED BY <1>1, PTL DEF RequestsInTime, ReadsInTime

(* Unless a read was late, a request is kept in defer_messages_ exactly as long as its element waits
   to apply it, also if requests are doubled: the callback of a deferred update always finds it. *)
THEOREM DeferredHeldUnlessLate == Spec /\ ReadsInTime => []DeferredHeld
<1>1. PromptInv => DeferredHeld
  BY DEF PromptInv
<1>2. QED BY <1>1, InTimeServer, PTL

(* So it is whenever tick() runs before each datagram. *)
THEOREM DeferredHeldWhenPrompt == TickFirst => (Spec => []DeferredHeld)
BY DeferredHeldUnlessLate, PromptInTime, RequestsReads, PTL

(* Unless a read was late, a client may use the data it was told until the deadline it was told,
   however late, often or out of order the responses arrive, and whenever updates come. *)
THEOREM ClientCopyCurrentUnlessLate == Spec /\ ReadsInTime => []ClientCopyCurrent
<1>1. ServerTyped /\ LeaseInv /\ PromptInv => ClientCopyCurrent
  <2> SUFFICES ASSUME ServerTyped, LeaseInv, PromptInv,
                      NEW op \in AnyOp, told[op].result = "ok", told[op].expire > 0
               PROVE  value[requests[op].key] = told[op].data
    BY DEF ClientCopyCurrent
  <2>1. requests[op] # NoRequest
    BY DEF LeaseInv, Keyed
  <2>2. requests[op].key \in Key
    BY <2>1 DEF ServerTyped, DataTyped
  <2> DEFINE a == told[op]
  <2>3. a.data \in Data /\ a.expire \in Ahead /\ Promised(requests[op].key, a.data, a.expire)
    <3>1. a \in {told[op]} \cup UnderWay(op) /\ a.result = "ok" /\ a.expire > 0
      OBVIOUS
    <3> HIDE DEF a
    <3>2. QED BY <2>1, <3>1, AnswerPromised DEF LeaseInv
  <2>4. QED BY <2>2, <2>3 DEF PromptInv, Covered, Covers
<1>2. QED BY <1>1, InTimeServer, PTL

(* So it may whenever tick() runs before each datagram. *)
THEOREM ClientCopyCurrentWhenPrompt == TickFirst => (Spec => []ClientCopyCurrent)
BY ClientCopyCurrentUnlessLate, PromptInTime, RequestsReads, PTL

------------------------------------------------------------------------------
(* No client is told, or may still be told, "ok" before its update was made. *)
OkMade == \A op \in OpId : "ok" \in Given(op) => applied[op] > 0

LEMMA OkMadeStep ==
  ASSUME ServerTyped, OkMade, NEW made \in OpId \cup {Empty},
         applied' = [op \in OpId |-> IF op = made THEN applied[op] + 1 ELSE applied[op]],
         \A op \in OpId : "ok" \in Given(op)' => "ok" \in Given(op) \/ op = made
  PROVE  OkMade'
<1>1. \A op \in OpId : applied[op] \in Nat
  BY DEF ServerTyped, DataTyped
<1>2. QED BY <1>1 DEF OkMade

LEMMA OkMadeIdle ==
  ASSUME ServerTyped, OkMade, NothingGiven, UNCHANGED applied
  PROVE  OkMade'
BY Ops DEF OkMade, NothingGiven

LEMMA ServeOkMade ==
  ASSUME ServerTyped, OkMade, Serve
  PROVE  OkMade'
<1>1. ASSUME NEW m \in net, ServeRead(m) PROVE OkMade'
  <2>1. /\ m.op \notin OpId /\ \E r : GivenOnly(m.op, r)
        /\ applied' = applied
    BY <1>1, ServeReadGives DEF ServeRead
  <2>2. \A op \in OpId : Given(op)' \subseteq Given(op)
    BY <2>1, Ops DEF GivenOnly
  <2>3. QED BY <2>1, <2>2 DEF OkMade
<1>2. ASSUME NEW m \in net, ServeUpdate(m) PROVE OkMade'
  <2>1. m.op \in OpId
    BY <1>2, ServeUpdateGives
  <2>2. CASE AcceptUpdate(m)
    <3>1. GivenOnly(m.op, "ok") /\ Store(m.key, m.op)
      BY <1>2, <2>2, ServeUpdateGives DEF AcceptUpdate
    <3>2. \A op \in OpId : "ok" \in Given(op)' => "ok" \in Given(op) \/ op = m.op
      BY <3>1, Ops DEF GivenOnly
    <3>3. QED BY <2>1, <3>1, <3>2, OkMadeStep DEF Store
  <2>3. CASE RetryUpdate(m)
    <3>1. GivenOnly(m.op, "retry") /\ applied' = applied
      BY <1>2, <2>3, ServeUpdateGives DEF RetryUpdate
    <3>2. QED BY <3>1, Ops DEF GivenOnly, OkMade
  <2>4. CASE DeferUpdate(m) \/ ThrowUpdate(m)
    <3>1. NothingGiven /\ applied' = applied
      BY <1>2, <2>4, ServeUpdateGives DEF DeferUpdate, ThrowUpdate
    <3>2. QED BY <3>1, OkMadeIdle
  <2>5. QED BY <1>2, <2>2, <2>3, <2>4 DEF ServeUpdate
<1>3. ASSUME NEW m \in net, ServeAck(m) PROVE OkMade'
  <2>1. UNCHANGED <<told, applied>>
    BY <1>3 DEF ServeAck, clientVars
  <2>2. NothingGiven
    BY <1>3, <2>1, NetGivesNothing, PopAckFacts DEF ServeAck, UnregisterWaitAck
  <2>3. QED BY <2>1, <2>2, OkMadeIdle
<1>4. QED BY <1>1, <1>2, <1>3 DEF Serve

(* The element of a deferred update waits, so what it stores is the update it answers. *)
LEMMA CallbackFinds ==
  ASSUME ServerTyped, PromptInv, NEW i \in DOMAIN timer_queue, TickUpdate(i) \/ TickThrows(i),
         NEW k, k = timer_queue[i].key
  PROVE  /\ k \in Key /\ op_id[k] \in defer_messages /\ temp_value[k] = op_id[k]
         /\ ~TickThrows(i)
<1>1. ~blocked /\ timer_queue[i].repeat = 1 /\ timer_queue[i].target = Guaranteed
  BY DEF TickUpdate, TickThrows, Ticks, ManagerTickUpdate
<1>2. k \in Key /\ current_state[k] = UpdateProtected
  BY <1>1, TakenTimer, States DEF PromptInv, ServerTyped, ManagerTyped
<1>3. op_id[k] \in defer_messages /\ temp_value[k] = op_id[k]
  BY <1>2 DEF PromptInv, DeferredHeld, PendingKept
<1>4. QED BY <1>2, <1>3 DEF TickThrows

LEMMA TickOkMade ==
  ASSUME ServerTyped, PromptInv, OkMade, Tick
  PROVE  OkMade'
<1>0. UNCHANGED told
  BY DEF Tick, TickDeleted, TickIdle, TickBlocks, TickUpdate, TickThrows, TickResend, TickStray,
         clientVars
<1>1. ASSUME NEW i \in DOMAIN timer_queue, TickDeleted(i) \/ TickIdle(i) \/ TickBlocks(i)
      PROVE  OkMade'
  <2>1. NothingGiven /\ UNCHANGED applied
    BY <1>0, <1>1, NetGivesNothing DEF TickDeleted, TickIdle, TickBlocks, serverVars
  <2>2. QED BY <2>1, OkMadeIdle
<1>2. ASSUME NEW i \in DOMAIN timer_queue, TickUpdate(i) \/ TickThrows(i) PROVE OkMade'
  <2> DEFINE k == timer_queue[i].key
  <2>1. k \in Key /\ op_id[k] \in defer_messages /\ temp_value[k] = op_id[k] /\ TickUpdate(i)
    BY <1>2, CallbackFinds
  <2>2. /\ Store(k, op_id[k])
        /\ Respond(Response(op_id[k], k, "ok", op_id[k], Lease, peer), net)
    BY <2>1 DEF TickUpdate
  <2> HIDE DEF k
  <2>3. op_id[k] \in OpId /\ GivenOnly(op_id[k], "ok")
    BY <1>0, <2>1, <2>2, TickUpdateGives
  <2>4. \A op \in OpId : "ok" \in Given(op)' => "ok" \in Given(op) \/ op = op_id[k]
    BY <2>3, Ops DEF GivenOnly
  <2>5. QED BY <2>2, <2>3, <2>4, OkMadeStep DEF Store
<1>3. ASSUME NEW op \in DOMAIN wait_acks, TickResend(op) PROVE OkMade'
  BY <1>3, ResendGives, OkMadeIdle DEF TickResend
<1>4. ASSUME NEW s \in stray, TickStray(s) PROVE OkMade'
  BY <1>0, <1>4, NetGivesNothing, OkMadeIdle DEF TickStray, serverVars
<1>5. QED BY <1>1, <1>2, <1>3, <1>4 DEF Tick

LEMMA NextOkMade == ServerTyped /\ PromptInv /\ OkMade /\ [Next]_vars => OkMade'
<1> SUFFICES ASSUME ServerTyped, PromptInv, OkMade, [Next]_vars PROVE OkMade'
  OBVIOUS
<1>1. CASE UNCHANGED vars
  BY <1>1 DEF OkMade, Given, vars, serverVars, clientVars
<1>2. CASE \/ \E c \in Client, op \in AnyOp, k \in Key : SendRequest(c, op, k)
           \/ \E m \in net : ReceiveResponse(m) \/ Lose(m) \/ Double(m)
  <2>1. NothingGiven
    BY <1>2, ClientGives
  <2>2. applied' = applied
    BY <1>2 DEF SendRequest, ReceiveResponse, Lose, Double
  <2>3. QED BY <2>1, <2>2, OkMadeIdle
<1>3. CASE Elapse
  BY <1>3, ElapseGives, OkMadeIdle DEF Elapse
<1>4. QED BY <1>1, <1>2, <1>3, ServeOkMade, TickOkMade DEF Next

LEMMA InitOkMade == Init => OkMade
BY Ops DEF Init, OkMade, Given, Unanswered, Answer

(* Unless a read was late, a client that was told "ok" has its update made, also if the network
   delivers updates twice. *)
THEOREM OkAppliedUnlessLate == Spec /\ ReadsInTime => []OkApplied
<1>1. ServerTyped /\ OkMade => OkApplied
  BY Ops DEF OkMade, OkApplied, Given, ServerTyped, DataTyped
<1>2. QED BY <1>1, InitOkMade, NextOkMade, InTimeServer, PTL DEF Spec

(* So it has whenever tick() runs before each datagram. *)
THEOREM OkAppliedWhenPrompt == TickFirst => (Spec => []OkApplied)
BY OkAppliedUnlessLate, PromptInTime, RequestsReads, PTL

------------------------------------------------------------------------------
(* CacheServer implements LeasedService.  An element that is not idle has a value. *)

Valued ==
  \A k \in Key : /\ k \in map <=> value[k] # Empty
                 /\ current_state[k] # Idle => k \in map

LEMMA SameValued ==
  Valued /\ UNCHANGED <<map, value>>
         /\ (\A k \in Key : current_state'[k] # Idle => current_state[k] # Idle)
    => Valued'
BY DEF Valued

LEMMA ServeValued ==
  ASSUME ServerTyped, Valued, Serve
  PROVE  Valued'
<1>1. ASSUME NEW m \in net, ServeRead(m) PROVE Valued'
  <2>1. m.key \in Key /\ UNCHANGED <<map, value>>
    BY <1>1, Kinds DEF ServeRead, ServerTyped, Requests
  <2>2. CASE UNCHANGED managerVars
    BY <2>1, <2>2, SameValued DEF managerVars
  <2>3. CASE EnterGuaranteed(m.key, timer_queue) /\ m.key \in map
    BY <2>1, <2>3 DEF EnterGuaranteed, Valued, ServerTyped, ManagerTyped
  <2>4. QED BY <1>1, <2>2, <2>3 DEF ServeRead, ManagerRead
<1>2. ASSUME NEW m \in net, ServeUpdate(m) PROVE Valued'
  <2>1. m.key \in Key /\ m.op \in OpId /\ map' = map \cup {m.key} /\ m.op # Empty
    BY <1>2, Kinds, Ops DEF ServeUpdate, ServerTyped, Requests
  <2>2. CASE AcceptUpdate(m)
    <3>1. /\ current_state' = [current_state EXCEPT ![m.key] = Guaranteed]
          /\ value' = [value EXCEPT ![m.key] = m.op]
      BY <2>2 DEF AcceptUpdate, ManagerUpdateOk, EnterGuaranteed, Store
    <3>2. QED BY <2>1, <3>1 DEF Valued, ServerTyped, ManagerTyped, DataTyped
  <2>3. CASE RetryUpdate(m) \/ DeferUpdate(m) \/ ThrowUpdate(m)
    <3>1. /\ current_state[m.key] # Idle /\ UNCHANGED value
          /\ \A l \in Key : current_state'[l] # Idle => current_state[l] # Idle
      BY <2>1, <2>3, States
         DEF RetryUpdate, DeferUpdate, ThrowUpdate, ManagerUpdateDefer, EnterUpdateProtected,
             ManagerUpdateExpired, managerVars, ServerTyped, ManagerTyped
    <3>2. QED BY <2>1, <3>1, SameValued DEF Valued
  <2>4. QED BY <1>2, <2>2, <2>3 DEF ServeUpdate
<1>3. ASSUME NEW m \in net, ServeAck(m) PROVE Valued'
  BY <1>3, SameValued DEF ServeAck, managerVars
<1>4. QED BY <1>1, <1>2, <1>3 DEF Serve

LEMMA TickValued ==
  ASSUME ServerTyped, PromptInv, Valued, Tick
  PROVE  Valued'
<1>0. Matched /\ UNCHANGED map
  BY DEF Tick, TickDeleted, TickIdle, TickUpdate, TickThrows, TickBlocks, TickResend, TickStray,
         Ticks, serverVars, PromptInv
<1>1. ASSUME NEW i \in DOMAIN timer_queue, TickUpdate(i) \/ TickThrows(i) PROVE Valued'
  <2>0. PICK k \in Key : k = timer_queue[i].key
    BY QueueFacts DEF ServerTyped, ManagerTyped, Timer
  <2>1. /\ timer_queue[i].repeat = 1 /\ timer_queue[i].target = Guaranteed
    BY <1>1 DEF TickUpdate, TickThrows, ManagerTickUpdate
  <2>2. current_state[k] = UpdateProtected
    BY <1>0, <2>0, <2>1, TakenTimer, States DEF ServerTyped, ManagerTyped
  <2>3. op_id[k] \in defer_messages /\ temp_value[k] = op_id[k] /\ op_id[k] # Empty
    BY <2>2, Ops DEF PromptInv, DeferredHeld, PendingKept, ServerTyped, DataTyped
  <2>4. /\ current_state' = [current_state EXCEPT ![k] = Guaranteed]
        /\ value' = [value EXCEPT ![k] = op_id[k]]
    BY <1>1, <2>0, <2>3 DEF TickUpdate, TickThrows, ManagerTickUpdate, EnterGuaranteed, Store
  <2>5. QED BY <1>0, <2>2, <2>3, <2>4, States DEF Valued, ServerTyped, ManagerTyped, DataTyped
<1>2. ASSUME NEW i \in DOMAIN timer_queue, TickIdle(i) PROVE Valued'
  <2>1. timer_queue[i].key \in Key
    BY QueueFacts DEF ServerTyped, ManagerTyped, Timer
  <2>2. QED BY <1>0, <1>2, <2>1, SameValued
       DEF TickIdle, ManagerTickIdle, EnterIdle, serverVars, ServerTyped, ManagerTyped
<1>3. CASE UNCHANGED <<current_state, value>>
  BY <1>0, <1>3, SameValued
<1>4. QED BY <1>1, <1>2, <1>3
     DEF Tick, TickDeleted, ManagerTickDeleted, TickBlocks, ManagerTickBlocks, TickResend, TickStray,
         managerVars, serverVars

LEMMA NextValued == ServerTyped /\ PromptInv /\ Valued /\ [Next]_vars => Valued'
<1>1. ASSUME Valued, UNCHANGED <<current_state, map, value>> PROVE Valued'
  BY <1>1, SameValued
<1>2. QED BY <1>1, ServeValued, TickValued
     DEF Next, SendRequest, ReceiveResponse, Lose, Double, Elapse, ManagerElapse, managerVars,
         serverVars, vars

LEMMA InitValued == Init => Valued
BY DEF Init, ManagerInit, Valued

------------------------------------------------------------------------------
(* What a step of the server is to the clients. *)

SingleRequests == Doubled \cap {"read", "update"} = {}

ServerInv == ServerTyped /\ FateInv /\ LeaseInv /\ PromptInv /\ Valued

LEMMA SameWords ==
  /\ Service!AnyOp = AnyOp /\ Service!Unanswered = Unanswered
  /\ \A result, data, expire : Service!Answer(result, data, expire) = Answer(result, data, expire)
BY DEF Service!AnyOp, AnyOp, Service!Unanswered, Unanswered, Service!Answer, Answer

(* Nothing a client could see. *)
LEMMA OpenSame ==
  ASSUME \A n : n.type # "response" /\ n.type # "ack" => (n \in net' <=> n \in net)
  PROVE  Open' = Open
<1>1. \A op \in AnyOp : Kind(op) # "response" /\ Kind(op) # "ack"
  BY DEF Kind
<1>2. \A op \in AnyOp : (\E m \in net' : m.type = Kind(op) /\ m.op = op)
                          <=> (\E m \in net : m.type = Kind(op) /\ m.op = op)
  BY <1>1
<1>3. QED BY <1>2 DEF Open

LEMMA AnswersSame ==
  ASSUME \A n : n.type = "response" => (n \in net' <=> n \in net),
         UNCHANGED wait_acks
  PROVE  Answers' = Answers
<1>1. \A op \in AnyOp : {m \in net' : m.type = "response" /\ m.op = op}
                          = {m \in net : m.type = "response" /\ m.op = op}
  OBVIOUS
<1>2. \A op \in AnyOp : UnderWay(op)' = UnderWay(op)
  BY <1>1 DEF UnderWay
<1>3. QED BY <1>2 DEF Answers

(* The managers go on, the element of each key waits as before. *)
LEMMA WaitingSame ==
  ASSUME \A k \in Key : /\ current_state'[k] = UpdateProtected <=> current_state[k] = UpdateProtected
                        /\ current_state[k] = UpdateProtected => op_id'[k] = op_id[k]
  PROVE  Waiting' = Waiting
BY DEF Waiting

(* Answers change for one request. *)
LEMMA AnswersOfOne ==
  ASSUME NEW o \in AnyOp, \A op \in AnyOp \ {o} : UnderWay(op)' = UnderWay(op)
  PROVE  Answers' = [Answers EXCEPT ![o] = Answers'[o]]
BY DEF Answers

(* The first answer to a request. *)
LEMMA AnswersGiven ==
  ASSUME ServerTyped, NEW message \in Responses, Given(message.op) = {}, NEW rest,
         \A n : n.type = "response" => (n \in rest <=> n \in net), Respond(message, rest)
  PROVE  Answers' = [Answers EXCEPT ![message.op] =
                       {Answer(message.result, message.data, message.expire)}]
<1> DEFINE o == message.op
<1>1. o \in AnyOp /\ message.type = "response"
  BY DEF Responses
<1>2. /\ \A m \in net : ~(m.type = "response" /\ m.op = o)
      /\ o \notin DOMAIN wait_acks
  <2>1. \A m \in net : m.type = "response" => m.result \in {"ok", "retry", "nodata"}
    BY Kinds DEF ServerTyped, Responses
  <2>2. \A op \in DOMAIN wait_acks : wait_acks[op].message.result \in {"ok", "retry", "nodata"}
    BY DEF ServerTyped, NetTyped, Responses
  <2>3. QED BY <2>1, <2>2 DEF Given
<1>3. /\ net' = rest \cup {message}
      /\ wait_acks' = AddTimer(wait_acks, o, [left |-> AckTimeout, message |-> message])
  BY <1>2 DEF Respond
<1>4. /\ DOMAIN wait_acks' = DOMAIN wait_acks \cup {o} /\ wait_acks'[o].message = message
      /\ \A op \in DOMAIN wait_acks : wait_acks'[op] = wait_acks[op]
  BY <1>2, <1>3 DEF AddTimer
<1>5. UnderWay(o)' = {message}
  <2>1. {m \in net' : m.type = "response" /\ m.op = o} = {message}
    BY <1>1, <1>2, <1>3
  <2>2. {wait_acks'[op].message : op \in {o} \cap DOMAIN wait_acks'} = {message}
    BY <1>4
  <2>3. QED BY <2>1, <2>2 DEF UnderWay
<1>6. \A op \in AnyOp \ {o} : UnderWay(op)' = UnderWay(op)
  <2> SUFFICES ASSUME NEW op \in AnyOp \ {o} PROVE UnderWay(op)' = UnderWay(op)
    OBVIOUS
  <2>1. {m \in net' : m.type = "response" /\ m.op = op} = {m \in net : m.type = "response" /\ m.op = op}
    BY <1>3
  <2>2. {wait_acks'[p].message : p \in {op} \cap DOMAIN wait_acks'}
          = {wait_acks[p].message : p \in {op} \cap DOMAIN wait_acks}
    BY <1>4
  <2>3. QED BY <2>1, <2>2 DEF UnderWay
<1>7. Answers'[o] = {Answer(message.result, message.data, message.expire)}
  BY <1>1, <1>5 DEF Answers
<1>8. QED BY <1>1, <1>6, <1>7, AnswersOfOne

(* A request is served, so nobody may serve it again. *)
LEMMA OpenServed ==
  ASSUME ServerTyped, FateInv, SingleRequests, NEW m \in Sent,
         \A n : n.type # "response" /\ n.type # "ack" => (n \in net' <=> n \in net \ {m})
  PROVE  /\ m.op \in Open /\ Open' = Open \ {m.op}
         /\ Given(m.op) = {}
<1>1. m.op \in AnyOp /\ m.type = Kind(m.op) /\ m \in net
  BY SentOps DEF Sent, ServerTyped, NetTyped
<1>2. m.op \in Once
  BY <1>1 DEF SingleRequests, Once, Kind
<1>3. \A n \in Sent : n.op = m.op => n = m
  BY <1>2 DEF FateInv, SentFresh
<1>4. Given(m.op) = {}
  BY <1>2 DEF FateInv, SentFresh, Fresh
<1>5. \A op \in AnyOp : /\ Kind(op) \in {"read", "update"}
                        /\ Kind(op) # "response" /\ Kind(op) # "ack"
  BY DEF Kind
<1>6. \A op \in AnyOp : (\E n \in net' : n.type = Kind(op) /\ n.op = op)
                          <=> (\E n \in net : n.type = Kind(op) /\ n.op = op) /\ op # m.op
  <2> SUFFICES ASSUME NEW op \in AnyOp
               PROVE  (\E n \in net' : n.type = Kind(op) /\ n.op = op)
                        <=> (\E n \in net : n.type = Kind(op) /\ n.op = op) /\ op # m.op
    OBVIOUS
  <2>1. \A n : n.type = Kind(op) => (n \in net' <=> n \in net /\ n # m)
    BY <1>5
  <2>2. \A n \in net : n.type = Kind(op) => n \in Sent
    BY <1>5 DEF Sent
  <2>3. QED BY <1>1, <1>3, <2>1, <2>2
<1>7. m.op \in Open
  BY <1>1 DEF Open
<1>8. QED BY <1>4, <1>6, <1>7 DEF Open

(* Nobody relies on an element that is idle or whose lease has run out. *)
LEMMA Unleased ==
  ASSUME ServerTyped, Keyed, PromptInv, NEW k \in Key,
         current_state[k] = Idle \/ expire_time[k] <= 0
  PROVE  ~Service!Leased(k)
<1> SUFFICES ASSUME Service!Leased(k) PROVE FALSE
  OBVIOUS
<1>0. PICK op \in AnyOp :
        /\ requests[op] # NoRequest /\ requests[op].key = k
        /\ \E a \in Answers[op] \cup {told[op]} : a.result = "ok" /\ a.expire > 0
  BY SameWords DEF Service!Leased, Service!About
<1>1. PICK a \in {told[op]} \cup UnderWay(op) : a.result = "ok" /\ a.expire > 0
  <2>1. PICK b \in Answers[op] \cup {told[op]} : b.result = "ok" /\ b.expire > 0
    BY <1>0
  <2>2. CASE b \in Answers[op]
    <3>1. PICK m \in UnderWay(op) : b = Answer(m.result, m.data, m.expire)
      BY <2>2 DEF Answers
    <3>2. m.result = "ok" /\ m.expire > 0
      BY <2>1, <3>1 DEF Answer
    <3>3. QED BY <3>2
  <2>3. QED BY <2>1, <2>2
<1>2. a.data \in Data /\ a.expire \in Ahead /\ Promised(k, a.data, a.expire)
  BY <1>0, <1>1, AnswerPromised
<1>3. Covers(k, a.data, a.expire)
  BY <1>2 DEF PromptInv, Covered
<1>4. a.expire \in Int /\ a.expire > 0 /\ expire_time[k] \in Int
  BY <1>1, <1>2, LeaseAssumption DEF Ahead, ServerTyped, ManagerTyped
<1>5. QED BY <1>3, <1>4 DEF Covers

ServiceStep == Service!Next \/ UNCHANGED Service!vars

LEMMA WaitingFacts ==
  ServerInv => \A k \in Key : /\ Waiting[k] # Empty <=> current_state[k] = UpdateProtected
                              /\ current_state[k] = UpdateProtected => op_id[k] \in defer_messages
BY Ops DEF ServerInv, PromptInv, DeferredHeld, Waiting, ServerTyped, DataTyped

(* A request leaves the network, with an answer or without. *)
LEMMA Served ==
  ASSUME ServerInv, SingleRequests, NEW m \in Sent,
         \A n : n.type # "response" /\ n.type # "ack" => (n \in net' <=> n \in net \ {m})
  PROVE  /\ m.op \in AnyOp /\ m.key \in Key /\ Service!Serve(m.op, m.key)
         /\ Given(m.op) = {}
<1>1. m.op \in Open /\ Open' = Open \ {m.op} /\ Given(m.op) = {}
  BY OpenServed DEF ServerInv
<1>2. m \in net /\ m.op \in AnyOp /\ m.key \in Key /\ m.type # "ack"
  BY Kinds DEF ServerInv, ServerTyped, Sent, Requests
<1>3. requests[m.op] # NoRequest /\ requests[m.op].key = m.key
  BY <1>2 DEF ServerInv, LeaseInv, Keyed, Knows
<1>4. QED BY <1>1, <1>2, <1>3, SameWords DEF Service!Serve, Service!About

LEMMA Responded ==
  ASSUME ServerInv, SingleRequests, NEW m \in Sent, NEW message \in Responses,
         message.op = m.op, Respond(message, net \ {m})
  PROVE  /\ m.op \in AnyOp /\ m.key \in Key /\ Service!Serve(m.op, m.key)
         /\ Service!Give(m.op, Answer(message.result, message.data, message.expire))
<1>1. \A n : n.type # "response" /\ n.type # "ack" => (n \in net' <=> n \in net \ {m})
  BY DEF Respond, Responses
<1>2. m.op \in AnyOp /\ m.key \in Key /\ Service!Serve(m.op, m.key) /\ Given(m.op) = {}
  BY <1>1, Served
<1>3. \A n : n.type = "response" => (n \in net \ {m} <=> n \in net)
  BY DEF Sent
<1>4. QED BY <1>2, <1>3, AnswersGiven DEF ServerInv, Service!Give

LEMMA ServeReadServes ==
  ASSUME ServerInv, SingleRequests, NEW m \in net, ServeRead(m)
  PROVE  ServiceStep
<1>1. /\ m \in Sent /\ m.op \in AnyOp /\ m.op \notin OpId /\ m.key \in Key /\ m.from \in Client
      /\ m.op \in ReadOp
  BY Kinds DEF ServeRead, Sent, ServerInv, ServerTyped, Requests, AnyOp
<1>2. UNCHANGED <<requests, value, told, applied>>
  BY DEF ServeRead, clientVars
<1>3. CASE /\ m.key \in map /\ ManagerRead(m.key, ReadId) /\ timestamp' = ReadExpire(m.key)
           /\ Respond(Response(m.op, m.key, "ok", value[m.key], timestamp', m.from), net \ {m})
  <2>1. timestamp' = IF Waiting[m.key] = Empty THEN Lease ELSE 0
    BY <1>1, <1>3, WaitingFacts DEF ReadExpire
  <2>2. timestamp' \in 0..Lease /\ value[m.key] \in OpId \cup {Empty} /\ value[m.key] # Empty
    BY <1>1, <1>3, <2>1, LeaseAssumption DEF ServerInv, ServerTyped, DataTyped, Valued
  <2> DEFINE message == Response(m.op, m.key, "ok", value[m.key], timestamp', m.from)
  <2>3. /\ message \in Responses /\ message.op = m.op /\ message.result = "ok"
        /\ message.data = value[m.key] /\ message.expire = timestamp'
    BY <1>1, <2>2 DEF Response, Responses
  <2> HIDE DEF message
  <2>4. Respond(message, net \ {m})
    BY <1>3 DEF message
  <2>5. Service!Serve(m.op, m.key) /\ Service!Give(m.op, Answer("ok", value[m.key], timestamp'))
    BY <1>1, <2>3, <2>4, Responded
  <2>6. Waiting' = Waiting
    <3>1. \A k \in Key : /\ current_state'[k] = UpdateProtected <=> current_state[k] = UpdateProtected
                         /\ current_state[k] = UpdateProtected => op_id'[k] = op_id[k]
      BY <1>1, <1>3, States
         DEF ManagerRead, EnterGuaranteed, managerVars, ServerInv, ServerTyped, ManagerTyped
    <3>2. QED BY <3>1, WaitingSame
  <2>7. Service!Read(m.key, m.op)
    BY <1>2, <2>1, <2>2, <2>5, <2>6, SameWords DEF Service!Read
  <2>8. QED BY <1>1, <2>7 DEF ServiceStep, Service!Next
<1>4. CASE /\ m.key \notin map /\ UNCHANGED <<managerVars, readVars>>
           /\ Respond(Response(m.op, m.key, "nodata", cache_data, timestamp, m.from), net \ {m})
  <2> DEFINE message == Response(m.op, m.key, "nodata", cache_data, timestamp, m.from)
  <2>1. cache_data \in OpId \cup {Empty} /\ timestamp \in 0..Lease /\ value[m.key] = Empty
    BY <1>1, <1>4 DEF ServerInv, ServerTyped, DataTyped, Valued
  <2>2. /\ message \in Responses /\ message.op = m.op /\ message.result = "nodata"
        /\ message.data = cache_data /\ message.expire = timestamp
    BY <1>1, <2>1 DEF Response, Responses
  <2> HIDE DEF message
  <2>3. Respond(message, net \ {m})
    BY <1>4 DEF message
  <2>4. Service!Serve(m.op, m.key) /\ Service!Give(m.op, Answer("nodata", cache_data, timestamp))
    BY <1>1, <2>2, <2>3, Responded
  <2>5. Waiting' = Waiting
    BY <1>4, WaitingSame DEF managerVars
  <2>6. Service!ReadNothing(m.key, m.op)
    BY <1>2, <2>1, <2>4, <2>5, SameWords DEF Service!ReadNothing
  <2>7. QED BY <1>1, <2>6 DEF ServiceStep, Service!Next
<1>5. QED BY <1>3, <1>4 DEF ServeRead

(* The exception "timer is expire,should not run here" is for a late update. *)
LEMMA NoThrow ==
  ASSUME NEW m, ~Overdue(m.key) PROVE ~ThrowUpdate(m)
BY DEF ThrowUpdate, ManagerUpdateExpired, Overdue

LEMMA ServeUpdateServes ==
  ASSUME ServerInv, SingleRequests, NEW m \in net, ServeUpdate(m), ~Overdue(m.key)
  PROVE  ServiceStep
<1>1. m \in Sent /\ m.op \in OpId /\ m.key \in Key /\ m.from \in Client
  BY Kinds DEF ServeUpdate, Sent, ServerInv, ServerTyped, Requests
<1>2. UNCHANGED <<requests, told>>
  BY DEF ServeUpdate, clientVars
<1>3. ASSUME NEW result \in {"ok", "retry"}, NEW expire \in 0..Lease,
             Respond(Response(m.op, m.key, result, m.op, expire, m.from), net \ {m})
      PROVE  Service!Serve(m.op, m.key) /\ Service!Give(m.op, Answer(result, m.op, expire))
  <2> DEFINE message == Response(m.op, m.key, result, m.op, expire, m.from)
  <2>1. /\ message \in Responses /\ message.op = m.op /\ message.result = result
        /\ message.data = m.op /\ message.expire = expire
    BY <1>1, Ops DEF Response, Responses
  <2> HIDE DEF message
  <2>2. Respond(message, net \ {m})
    BY <1>3 DEF message
  <2>3. QED BY <1>1, <2>1, <2>2, Responded
<1>4. CASE AcceptUpdate(m)
  <2>1. Service!Serve(m.op, m.key) /\ Service!Give(m.op, Answer("ok", m.op, Lease))
    BY <1>3, <1>4, AheadTyped DEF AcceptUpdate
  <2>2. current_state[m.key] = Idle /\ Waiting[m.key] = Empty
    BY <1>1, <1>4, WaitingFacts, States DEF AcceptUpdate, ManagerUpdateOk
  <2>3. ~Service!Leased(m.key)
    BY <1>1, <2>2, Unleased DEF ServerInv, LeaseInv
  <2>4. /\ value' = [value EXCEPT ![m.key] = m.op]
        /\ applied' = [applied EXCEPT ![m.op] = @ + 1]
    BY <1>4 DEF AcceptUpdate, Store, ServerInv, ServerTyped, DataTyped
  <2>5. Waiting' = Waiting
    BY <1>1, <1>4, <2>2, WaitingSame, States
       DEF AcceptUpdate, ManagerUpdateOk, EnterGuaranteed, ServerInv, ServerTyped, ManagerTyped
  <2>6. Service!Make(m.key, m.op)
    BY <2>1, <2>3, <2>4, SameWords DEF Service!Make
  <2>7. Service!Write(m.key, m.op)
    BY <1>2, <2>1, <2>2, <2>5, <2>6 DEF Service!Write
  <2>8. QED BY <1>1, <2>7 DEF ServiceStep, Service!Next
<1>5. CASE RetryUpdate(m)
  <2>1. Remaining(m.key) \in 0..Lease /\ current_state[m.key] = UpdateProtected
    BY <1>1, <1>5, LeaseAssumption DEF RetryUpdate, Remaining, ServerInv, ServerTyped, ManagerTyped
  <2>2. Service!Serve(m.op, m.key) /\ Service!Give(m.op, Answer("retry", m.op, Remaining(m.key)))
    BY <1>3, <1>5, <2>1 DEF RetryUpdate
  <2>3. Waiting' = Waiting /\ UNCHANGED <<value, applied>>
    BY <1>5, WaitingSame DEF RetryUpdate, managerVars
  <2>4. Service!TurnAway(m.key, m.op)
    BY <1>1, <1>2, <2>1, <2>2, <2>3, WaitingFacts, SameWords DEF Service!TurnAway
  <2>5. QED BY <1>1, <2>4 DEF ServiceStep, Service!Next
<1>6. CASE DeferUpdate(m)
  <2>1. net' = net \ {m} /\ UNCHANGED <<value, applied, wait_acks>>
    BY <1>6 DEF DeferUpdate
  <2>2. Service!Serve(m.op, m.key)
    BY <1>1, <2>1, Served
  <2>3. Answers' = Answers
    BY <1>1, <2>1, AnswersSame DEF Sent
  <2>4. /\ current_state[m.key] = Guaranteed
        /\ current_state' = [current_state EXCEPT ![m.key] = UpdateProtected]
        /\ op_id' = [op_id EXCEPT ![m.key] = m.op]
    BY <1>6 DEF DeferUpdate, ManagerUpdateDefer, EnterUpdateProtected
  <2>5. Waiting[m.key] = Empty
    BY <1>1, <2>4, WaitingFacts, States
  <2>6. Waiting' = [Waiting EXCEPT ![m.key] = m.op]
    BY <1>1, <2>4 DEF Waiting, ServerInv, ServerTyped, ManagerTyped
  <2>7. Service!Accept(m.key, m.op)
    BY <1>2, <2>1, <2>2, <2>3, <2>5, <2>6 DEF Service!Accept
  <2>8. QED BY <1>1, <2>7 DEF ServiceStep, Service!Next
<1>7. ~ThrowUpdate(m)
  BY NoThrow
<1>8. QED BY <1>4, <1>5, <1>6, <1>7 DEF ServeUpdate

(* Answers to one request are forgotten. *)
LEMMA Forgotten ==
  ASSUME NEW o \in AnyOp,
         \A n : n.type = "response" =>
           (n \in net' => n \in net) /\ (n.op # o => (n \in net' <=> n \in net)),
         UNCHANGED wait_acks \/ wait_acks' = PopTimer(wait_acks, o)
  PROVE  \E rest \in SUBSET Answers[o] : Answers' = [Answers EXCEPT ![o] = rest]
<1>1. /\ DOMAIN wait_acks' \subseteq DOMAIN wait_acks
      /\ \A op \in DOMAIN wait_acks' : wait_acks'[op] = wait_acks[op]
      /\ \A op \in DOMAIN wait_acks : op # o => op \in DOMAIN wait_acks'
  BY DEF PopTimer, Restrict
<1>2. UnderWay(o)' \subseteq UnderWay(o)
  BY <1>1 DEF UnderWay
<1>3. \A op \in AnyOp \ {o} : UnderWay(op)' = UnderWay(op)
  <2> SUFFICES ASSUME NEW op \in AnyOp \ {o} PROVE UnderWay(op)' = UnderWay(op)
    OBVIOUS
  <2>1. {m \in net' : m.type = "response" /\ m.op = op} = {m \in net : m.type = "response" /\ m.op = op}
    OBVIOUS
  <2>2. {wait_acks'[p].message : p \in {op} \cap DOMAIN wait_acks'}
          = {wait_acks[p].message : p \in {op} \cap DOMAIN wait_acks}
    BY <1>1
  <2>3. QED BY <2>1, <2>2 DEF UnderWay
<1>4. Answers' = [Answers EXCEPT ![o] = Answers'[o]]
  BY <1>3, AnswersOfOne
<1>5. Answers'[o] \subseteq Answers[o]
  BY <1>2 DEF Answers
<1>6. QED BY <1>4, <1>5

LEMMA ServeAckServes ==
  ASSUME ServerInv, NEW m \in net, ServeAck(m)
  PROVE  ServiceStep
<1>1. m.op \in AnyOp /\ m.type = "ack"
  BY Kinds DEF ServeAck, ServerInv, ServerTyped
<1>2. /\ net' = net \ {m} /\ wait_acks' = PopTimer(wait_acks, m.op)
      /\ UNCHANGED <<managerVars, requests, value, told, applied>>
  BY DEF ServeAck, UnregisterWaitAck, clientVars
<1>3. \A n : n.type # "ack" => (n \in net' <=> n \in net)
  BY <1>1, <1>2
<1>4. Open' = Open
  BY <1>3, OpenSame
<1>5. Waiting' = Waiting
  BY <1>2, WaitingSame DEF managerVars
<1>6. \E rest \in SUBSET Answers[m.op] : Answers' = [Answers EXCEPT ![m.op] = rest]
  BY <1>1, <1>2, <1>3, Forgotten
<1>7. Service!Forget(m.op)
  BY <1>2, <1>4, <1>5, <1>6 DEF Service!Forget
<1>8. QED BY <1>1, <1>7, SameWords DEF ServiceStep, Service!Next

(* The first callback of a request is a Tell, a second or a dropped response a Forget. *)
LEMMA ReceiveServes ==
  ASSUME ServerInv, NEW m \in net, ReceiveResponse(m)
  PROVE  ServiceStep
<1>1. m.op \in AnyOp /\ m.type = "response"
  BY Kinds DEF ReceiveResponse, ServerInv, ServerTyped
<1>2. UNCHANGED <<managerVars, wait_acks, requests, value, applied>>
  BY DEF ReceiveResponse, serverVars
<1>3. \A n : /\ n.type # "response" /\ n.type # "ack" => (n \in net' <=> n \in net)
             /\ n.type = "response" => (n \in net' <=> n \in net \ {m})
  BY <1>1 DEF ReceiveResponse, Ack
<1>4. Open' = Open
  BY <1>3, OpenSame
<1>5. Waiting' = Waiting
  BY <1>2, WaitingSame DEF managerVars
<1>6. \E rest \in SUBSET Answers[m.op] : Answers' = [Answers EXCEPT ![m.op] = rest]
  BY <1>1, <1>2, <1>3, Forgotten
<1>7. CASE m.op \in Pending(m.to)
  <2> DEFINE answer == Answer(m.result, m.data, m.expire)
  <2>1. told[m.op] = Unanswered /\ told' = [told EXCEPT ![m.op] = answer]
    BY <1>7 DEF ReceiveResponse, Pending, IsTold
  <2>2. answer \in Answers[m.op]
    BY <1>1 DEF Answers, UnderWay
  <2>3. Service!Tell(m.op, answer)
    BY <1>2, <1>4, <1>5, <1>6, <2>1, <2>2, SameWords DEF Service!Tell
  <2>4. QED BY <1>1, <2>2, <2>3, SameWords DEF ServiceStep, Service!Next
<1>8. CASE m.op \notin Pending(m.to)
  <2>1. Service!Forget(m.op)
    BY <1>2, <1>4, <1>5, <1>6, <1>8 DEF ReceiveResponse, Service!Forget
  <2>2. QED BY <1>1, <2>1, SameWords DEF ServiceStep, Service!Next
<1>9. QED BY <1>7, <1>8

LEMMA SendServes ==
  ASSUME NEW c \in Client, NEW op \in AnyOp, NEW k \in Key, SendRequest(c, op, k)
  PROVE  ServiceStep
<1>1. /\ requests[op] = NoRequest
      /\ requests' = [requests EXCEPT ![op] = [client |-> c, key |-> k]]
      /\ net' = net \cup {Request(op, k, c)}
      /\ UNCHANGED <<managerVars, wait_acks, value, told, applied>>
  BY DEF SendRequest, serverVars
<1>2. /\ Request(op, k, c).op = op /\ Request(op, k, c).type = Kind(op)
      /\ Kind(op) # "response"
  BY DEF Request, Kind
<1>3. Answers' = Answers
  BY <1>1, <1>2, AnswersSame
<1>4. Open' = Open \cup {op}
  <2>1. \A o \in AnyOp : (\E n \in net' : n.type = Kind(o) /\ n.op = o)
                           <=> (\E n \in net : n.type = Kind(o) /\ n.op = o) \/ o = op
    BY <1>1, <1>2
  <2>2. QED BY <2>1 DEF Open
<1>5. Waiting' = Waiting
  BY <1>1, WaitingSame DEF managerVars
<1>6. Service!Call(c, op, k)
  BY <1>1, <1>3, <1>4, <1>5 DEF Service!Call
<1>7. QED BY <1>6, SameWords DEF ServiceStep, Service!Next

(* A second copy of a datagram of the server, or of an ack, says nothing new. *)
LEMMA AgainAnswered ==
  ASSUME ServerTyped, NEW op \in AnyOp, NEW m \in UnderWay(op), NEW n,
         n.type = "response", n.op = m.op,
         n.result = m.result, n.data = m.data, n.expire = m.expire,
         net' = net \cup {n},
         \/ UNCHANGED wait_acks
         \/ /\ wait_acks' = PopTimer(wait_acks, op)
            /\ op \in DOMAIN wait_acks /\ wait_acks[op].message = m
  PROVE  Answers' = Answers
<1> DEFINE Said(x) == Answer(x.result, x.data, x.expire)
<1>1. m.op = op /\ Said(n) = Said(m)
  BY DEF UnderWay, ServerTyped, NetTyped
<1>2. /\ DOMAIN wait_acks' \subseteq DOMAIN wait_acks
      /\ \A o \in DOMAIN wait_acks' : wait_acks'[o] = wait_acks[o]
      /\ \A o \in DOMAIN wait_acks : o # op => o \in DOMAIN wait_acks'
      /\ op \in DOMAIN wait_acks => op \in DOMAIN wait_acks' \/ wait_acks[op].message = m
  BY DEF PopTimer, Restrict
<1>3. ASSUME NEW o \in AnyOp PROVE {Said(x) : x \in UnderWay(o)'} = {Said(x) : x \in UnderWay(o)}
  <2>1. \A x \in UnderWay(o) : x \in UnderWay(o)' \/ (o = op /\ x = m /\ n \in UnderWay(o)')
    BY <1>1, <1>2 DEF UnderWay
  <2>2. \A x \in UnderWay(o)' : x \in UnderWay(o) \/ (o = op /\ x = n)
    BY <1>1, <1>2 DEF UnderWay
  <2> HIDE DEF Said
  <2>3. \A x \in UnderWay(o) : \E y \in UnderWay(o)' : Said(y) = Said(x)
    BY <1>1, <2>1
  <2>4. \A x \in UnderWay(o)' : \E y \in UnderWay(o) : Said(y) = Said(x)
    BY <1>1, <2>2
  <2>5. QED BY <2>3, <2>4
<1>4. QED BY <1>3 DEF Answers

LEMMA NetworkServes ==
  ASSUME ServerInv, SingleRequests, NEW m \in net, Lose(m) \/ Double(m)
  PROVE  ServiceStep
<1>1. m.op \in AnyOp /\ UNCHANGED <<managerVars, wait_acks, requests, value, told, applied>>
  BY Kinds DEF Lose, Double, serverVars, clientVars, ServerInv, ServerTyped
<1>2. Waiting' = Waiting
  BY <1>1, WaitingSame DEF managerVars
<1>3. CASE Lose(m) /\ m.type = "response"
  <2>1. net' = net \ {m}
    BY <1>3 DEF Lose
  <2>2. Open' = Open
    BY <1>3, <2>1, OpenSame
  <2>3. \E rest \in SUBSET Answers[m.op] : Answers' = [Answers EXCEPT ![m.op] = rest]
    BY <1>1, <1>3, <2>1, Forgotten
  <2>4. Service!Forget(m.op)
    BY <1>1, <1>2, <2>2, <2>3 DEF Service!Forget
  <2>5. QED BY <1>1, <2>4, SameWords DEF ServiceStep, Service!Next
<1>4. CASE Lose(m) /\ m.type \in {"read", "update"}
  <2>1. net' = net \ {m} /\ m.type \in Lossy /\ m \in Sent
    BY <1>4 DEF Lose, Sent
  <2>2. Answers' = Answers
    BY <1>1, <1>4, <2>1, AnswersSame
  <2>3. m.op \in Open /\ Open' = Open \ {m.op}
    BY <2>1, OpenServed DEF ServerInv
  <2>4. Kind(m.op) \in Lossy
    BY <1>4, <2>1 DEF ServerInv, ServerTyped, NetTyped
  <2>5. Service!Lost(m.op)
    BY <1>1, <1>2, <2>2, <2>3, <2>4 DEF Service!Lost
  <2>6. QED BY <1>1, <2>5, SameWords DEF ServiceStep, Service!Next
<1>5. CASE (Lose(m) \/ Double(m)) /\ m.type = "ack"
  <2>1. [m EXCEPT !.copy = 3].type = "ack"
    BY <1>5, Kinds DEF ServerInv, ServerTyped, Acks
  <2>2. \A n : n.type # "ack" => (n \in net' <=> n \in net)
    BY <1>5, <2>1 DEF Lose, Double
  <2>3. Open' = Open /\ Answers' = Answers
    BY <1>1, <2>2, OpenSame, AnswersSame
  <2>4. QED BY <1>1, <1>2, <2>3 DEF ServiceStep, Service!vars
<1>6. CASE Double(m) /\ m.type = "response"
  <2> DEFINE n == [m EXCEPT !.copy = 3]
  <2>1. /\ n.type = "response" /\ n.op = m.op
        /\ n.result = m.result /\ n.data = m.data /\ n.expire = m.expire
    BY <1>6, Kinds DEF ServerInv, ServerTyped, Responses
  <2>2. net' = net \cup {n}
    BY <1>6 DEF Double
  <2>3. m \in UnderWay(m.op)
    BY <1>6 DEF UnderWay
  <2> HIDE DEF n
  <2>4. Answers' = Answers
    BY <1>1, <2>1, <2>2, <2>3, AgainAnswered DEF ServerInv
  <2>5. Open' = Open
    BY <2>1, <2>2, OpenSame
  <2>6. QED BY <1>1, <1>2, <2>4, <2>5 DEF ServiceStep, Service!vars
<1>7. CASE Double(m) /\ m.type \in {"read", "update"}
  BY <1>7 DEF Double, SingleRequests
<1>8. m.type \in {"read", "update", "response", "ack"}
  BY DEF ServerInv, ServerTyped, NetTyped, Requests, Responses, Acks
<1>9. QED BY <1>3, <1>4, <1>5, <1>6, <1>7, <1>8

LEMMA TickUpdateServes ==
  ASSUME ServerInv, SingleRequests, NEW i \in DOMAIN timer_queue, TickUpdate(i) \/ TickThrows(i)
  PROVE  ServiceStep
<1>0. PICK k \in Key : k = timer_queue[i].key
  BY QueueFacts DEF ServerInv, ServerTyped, ManagerTyped, Timer
<1>1. /\ ~blocked /\ timer_queue[i].left <= 0
      /\ timer_queue[i].repeat = 1 /\ timer_queue[i].target = Guaranteed
      /\ current_state' = [current_state EXCEPT ![k] = Guaranteed]
      /\ UNCHANGED <<op_id, requests, told>>
      /\ Store(k, temp_value[k])
  BY <1>0 DEF TickUpdate, TickThrows, ManagerTickUpdate, EnterGuaranteed, Ticks, InFront, clientVars
<1>2. current_state[k] = UpdateProtected /\ expire_time[k] <= 0
  BY <1>0, <1>1, TakenTimer, States DEF ServerInv, ServerTyped, ManagerTyped, PromptInv
<1>3. op_id[k] \in defer_messages /\ op_id[k] \in OpId /\ temp_value[k] = op_id[k]
  BY <1>2, WaitingFacts DEF ServerInv, PromptInv, PendingKept, ServerTyped, DataTyped
<1>4. Respond(Response(op_id[k], k, "ok", op_id[k], Lease, peer), net)
  BY <1>0, <1>3 DEF TickUpdate, TickThrows
<1> DEFINE message == Response(op_id[k], k, "ok", op_id[k], Lease, peer)
<1>5. /\ message \in Responses /\ message.op = op_id[k] /\ message.type = "response"
      /\ message.result = "ok" /\ message.data = op_id[k] /\ message.expire = Lease
  BY <1>3, Ops, AheadTyped DEF Response, Responses, ServerInv, ServerTyped, DataTyped
<1> HIDE DEF message
<1>6. Given(op_id[k]) = {}
  <2>1. op_id[k] \in Once
    BY <1>3, Ops DEF SingleRequests
  <2>2. QED BY <1>3, <2>1 DEF ServerInv, FateInv, DeferredUnanswered
<1>7. Respond(message, net)
  BY <1>4 DEF message
<1>8. Service!Give(op_id[k], Answer("ok", op_id[k], Lease))
  BY <1>5, <1>6, <1>7, AnswersGiven DEF ServerInv, Service!Give
<1>9. Open' = Open
  BY <1>5, <1>7, OpenSame DEF Respond
<1>10. ~Service!Leased(k)
  BY <1>2, Unleased DEF ServerInv, LeaseInv
<1>11. /\ value' = [value EXCEPT ![k] = op_id[k]]
       /\ applied' = [applied EXCEPT ![op_id[k]] = @ + 1]
  BY <1>1, <1>3 DEF Store, ServerInv, ServerTyped, DataTyped
<1>12. Waiting[k] = op_id[k] /\ Waiting[k] # Empty
  BY <1>2, WaitingFacts DEF Waiting
<1>13. Waiting' = [Waiting EXCEPT ![k] = Empty]
  BY <1>1, States DEF Waiting, ServerInv, ServerTyped, ManagerTyped
<1>14. Service!Make(k, Waiting[k])
  BY <1>8, <1>10, <1>11, <1>12, SameWords DEF Service!Make
<1>15. Service!Commit(k)
  BY <1>1, <1>9, <1>12, <1>13, <1>14 DEF Service!Commit
<1>16. QED BY <1>15 DEF ServiceStep, Service!Next

LEMMA TickServes ==
  ASSUME ServerInv, SingleRequests, Tick
  PROVE  ServiceStep
<1>1. ASSUME NEW i \in DOMAIN timer_queue, TickDeleted(i) \/ TickIdle(i) \/ TickBlocks(i)
      PROVE  ServiceStep
  <2>1. UNCHANGED <<op_id, wait_acks, net, value, requests, told, applied>>
    BY <1>1 DEF TickDeleted, TickIdle, TickBlocks, ManagerTickDeleted, ManagerTickIdle,
                ManagerTickBlocks, serverVars, clientVars
  <2>2. \A k \in Key : current_state'[k] = UpdateProtected <=> current_state[k] = UpdateProtected
    <3>1. CASE TickIdle(i)
      <4> DEFINE k == timer_queue[i].key
      <4>1. /\ ~blocked /\ timer_queue[i].repeat = 1 /\ timer_queue[i].target = Idle
            /\ current_state' = [current_state EXCEPT ![k] = Idle]
        BY <3>1 DEF TickIdle, ManagerTickIdle, EnterIdle, Ticks
      <4>2. k \in Key /\ current_state[k] = Guaranteed
        BY <4>1, TakenTimer, States DEF ServerInv, PromptInv, ServerTyped, ManagerTyped
      <4>3. QED BY <4>1, <4>2, States DEF ServerInv, ServerTyped, ManagerTyped
    <3>2. CASE UNCHANGED current_state
      BY <3>2
    <3>3. QED BY <1>1, <3>1, <3>2
         DEF TickDeleted, TickBlocks, ManagerTickDeleted, ManagerTickBlocks
  <2>3. Open' = Open /\ Answers' = Answers /\ Waiting' = Waiting
    BY <2>1, <2>2, OpenSame, AnswersSame, WaitingSame
  <2>4. QED BY <2>1, <2>3 DEF ServiceStep, Service!vars
<1>2. ASSUME NEW op \in DOMAIN wait_acks, TickResend(op) PROVE ServiceStep
  <2> DEFINE m == wait_acks[op].message
             n == [m EXCEPT !.copy = 2, !.to = peer]
  <2>1. op \in AnyOp /\ m \in Responses /\ m.op = op
    BY DEF ServerInv, ServerTyped, NetTyped
  <2>2. /\ n.type = "response" /\ n.op = m.op
        /\ n.result = m.result /\ n.data = m.data /\ n.expire = m.expire
    BY <2>1 DEF Responses
  <2>3. m \in UnderWay(op)
    BY DEF UnderWay
  <2>4. /\ net' = net \cup {n} /\ wait_acks' = PopTimer(wait_acks, op)
        /\ UNCHANGED <<managerVars, requests, value, told, applied>>
    BY <1>2 DEF TickResend, clientVars
  <2>5. wait_acks[op].message = m
    OBVIOUS
  <2> HIDE DEF n, m
  <2>6. Answers' = Answers
    BY <2>1, <2>2, <2>3, <2>4, <2>5, AgainAnswered DEF ServerInv
  <2>7. Open' = Open
    BY <2>2, <2>4, OpenSame
  <2>8. Waiting' = Waiting
    BY <2>4, WaitingSame DEF managerVars
  <2>9. QED BY <2>4, <2>6, <2>7, <2>8 DEF ServiceStep, Service!vars
<1>3. ASSUME NEW s \in stray, TickStray(s) PROVE ServiceStep
  <2>1. UNCHANGED <<managerVars, wait_acks, net, value, requests, told, applied>>
    BY <1>3 DEF TickStray, serverVars, clientVars
  <2>2. Open' = Open /\ Answers' = Answers /\ Waiting' = Waiting
    BY <2>1, OpenSame, AnswersSame, WaitingSame DEF managerVars
  <2>3. QED BY <2>1, <2>2 DEF ServiceStep, Service!vars
<1>4. QED BY <1>1, <1>2, <1>3, TickUpdateServes DEF Tick

LEMMA ElapseServes ==
  ASSUME ServerInv, Elapse
  PROVE  ServiceStep
<1>1. /\ net' = {Aged(m) : m \in net}
      /\ wait_acks' = [op \in DOMAIN wait_acks |->
           [left |-> wait_acks[op].left - 1, message |-> Aged(wait_acks[op].message)]]
      /\ told' = [op \in AnyOp |-> [told[op] EXCEPT !.expire = Later(@)]]
      /\ UNCHANGED <<current_state, op_id, requests, value, applied>>
  BY DEF Elapse, ManagerElapse
<1>2. \A m \in net : /\ Aged(m).op = m.op /\ Aged(m).type = m.type
                     /\ m.type # "response" => Aged(m) = m
  BY AgedTyped DEF ServerInv, ServerTyped, NetTyped
<1>3. Waiting' = Waiting
  BY <1>1, WaitingSame
<1>4. Open' = Open
  <2>1. \A n : n.type # "response" /\ n.type # "ack" => (n \in net' <=> n \in net)
    BY <1>1, <1>2
  <2>2. QED BY <2>1, OpenSame
<1> DEFINE Said(x) == Answer(x.result, x.data, x.expire)
<1>5. ASSUME NEW op \in AnyOp
      PROVE  Answers'[op] = {Service!Aged(a) : a \in Answers[op]}
  <2>1. UnderWay(op)' = {Aged(m) : m \in UnderWay(op)}
    <3>1. {m \in net' : m.type = "response" /\ m.op = op}
            = {Aged(m) : m \in {n \in net : n.type = "response" /\ n.op = op}}
      BY <1>1, <1>2
    <3>2. {wait_acks'[o].message : o \in {op} \cap DOMAIN wait_acks'}
            = {Aged(m) : m \in {wait_acks[o].message : o \in {op} \cap DOMAIN wait_acks}}
      BY <1>1
    <3>3. QED BY <3>1, <3>2 DEF UnderWay
  <2>2. \A m \in UnderWay(op) : Said(Aged(m)) = Service!Aged(Said(m))
    <3> SUFFICES ASSUME NEW m \in UnderWay(op) PROVE Said(Aged(m)) = Service!Aged(Said(m))
      OBVIOUS
    <3>1. m \in Responses
      BY Kinds DEF UnderWay, ServerInv, ServerTyped, NetTyped
    <3>2. Aged(m) = [m EXCEPT !.expire = Later(m.expire)]
      BY <3>1 DEF Aged, Responses
    <3>3. /\ Aged(m).result = m.result /\ Aged(m).data = m.data
          /\ Aged(m).expire = Later(m.expire)
      BY <3>1, <3>2 DEF Responses
    <3>4. QED BY <3>3 DEF Service!Aged, Service!Later, Later, Answer
  <2>3. Answers[op] = {Said(m) : m \in UnderWay(op)} /\ Answers'[op] = {Said(m) : m \in UnderWay(op)'}
    BY DEF Answers
  <2> HIDE DEF Said
  <2>4. {Said(n) : n \in {Aged(m) : m \in UnderWay(op)}} = {Service!Aged(a) : a \in {Said(m) : m \in UnderWay(op)}}
    BY <2>2
  <2>5. QED BY <2>1, <2>3, <2>4
<1>6. Answers' = [op \in AnyOp |-> {Service!Aged(a) : a \in Answers[op]}]
  BY <1>5 DEF Answers
<1>7. told' = [op \in AnyOp |-> Service!Aged(told[op])]
  BY <1>1 DEF Service!Aged, Service!Later, Later
<1>8. Service!Elapse
  BY <1>1, <1>3, <1>4, <1>6, <1>7, SameWords DEF Service!Elapse
<1>9. QED BY <1>8 DEF ServiceStep, Service!Next

LEMMA NextServes ==
  ASSUME SingleRequests, ServerInv, [Next]_vars, [NoLateRequest]_vars
  PROVE  [Service!Next]_(Service!vars)
<1>1. CASE UNCHANGED vars
  <2>1. UNCHANGED <<current_state, op_id, wait_acks, net, value, requests, told, applied>>
    BY <1>1 DEF vars, managerVars, serverVars, clientVars
  <2>2. Open' = Open /\ Answers' = Answers /\ Waiting' = Waiting
    BY <2>1, OpenSame, AnswersSame, WaitingSame
  <2>3. QED BY <2>1, <2>2 DEF Service!vars
<1>2. CASE Next /\ NoLateRequest
  <2>1. \A m \in net : ServeUpdate(m) => ~Overdue(m.key)
    BY <1>2 DEF NoLateRequest
  <2>2. ServiceStep
    BY <1>2, <2>1, SendServes, ReceiveServes, ServeReadServes, ServeUpdateServes, ServeAckServes,
       TickServes, NetworkServes, ElapseServes DEF Next, Serve
  <2>3. QED BY <2>2 DEF ServiceStep
<1>3. QED BY <1>1, <1>2

LEMMA InitServes == Init => Service!Init
<1> SUFFICES ASSUME Init PROVE Service!Init
  OBVIOUS
<1>1. /\ net = {} /\ DOMAIN wait_acks = {} /\ \A k \in Key : current_state[k] = Idle
  BY DEF Init, ManagerInit
<1>2. Open = {} /\ Waiting = [k \in Key |-> Empty]
  BY <1>1, States DEF Open, Waiting
<1>3. Answers = [op \in AnyOp |-> {}]
  BY <1>1 DEF Answers, UnderWay
<1>4. QED BY <1>2, <1>3, SameWords DEF Init, Service!Init

(* If no request is late and the network doubles none, the server keeps the promise of
   LeasedService: acks, resends and timers are nothing to the clients but answers that take effect
   once, between call and answer, and leases that hold. *)
THEOREM ServiceKeptUnlessLate == SingleRequests => (Spec /\ RequestsInTime => ServiceSpec)
<1> SUFFICES ASSUME SingleRequests PROVE Spec /\ RequestsInTime => ServiceSpec
  OBVIOUS
<1>1. ServerTyped /\ FateInv /\ LeaseInv /\ PromptInv /\ Valued /\ [Next]_vars
        /\ [NoLateRequest]_vars => [Service!Next]_(Service!vars)
  BY NextServes DEF ServerInv
<1>2. Spec /\ RequestsInTime => []Valued
  BY InitValued, NextValued, InTimeServer, RequestsReads, PTL DEF Spec
<1>3. QED BY <1>1, <1>2, InitServes, FateInvariant, InTimeServer, RequestsReads, PTL
     DEF Spec, RequestsInTime, ServiceSpec, Service!Spec

(* So it does if tick() runs before each datagram. *)
THEOREM ServiceKeptWhenPrompt == TickFirst /\ SingleRequests => (Spec => ServiceSpec)
BY ServiceKeptUnlessLate, PromptInTime, PTL
================================================================================
