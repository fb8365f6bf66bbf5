------------------------ MODULE CacheStateManagerProofs ------------------------
(***************************************************************************)
(* What the operators of TimerHeap do to a heap, and what each transition  *)
(* of a manager leaves behind.                                             *)
(***************************************************************************)
EXTENDS CacheStateManager, TLAPS

LEMMA QueueFacts ==
  ASSUME NEW q, IsQueue(q)
  PROVE  /\ DOMAIN q \subseteq TimerId
         /\ \A i \in DOMAIN q : q[i] \in Timer
         /\ q = [i \in DOMAIN q |-> q[i]]
BY DEF IsQueue

LEMMA AddTimerFacts ==
  ASSUME NEW q, IsQueue(q), NEW i \in TimerId, NEW t \in Timer
  PROVE  /\ IsQueue(AddTimer(q, i, t))
         /\ DOMAIN AddTimer(q, i, t) = DOMAIN q \cup {i}
         /\ AddTimer(q, i, t)[i] = t
         /\ \A j \in DOMAIN q \ {i} : AddTimer(q, i, t)[j] = q[j]
<1>1. DOMAIN q \cup {i} \in SUBSET TimerId
  BY QueueFacts
<1>2. AddTimer(q, i, t) \in [DOMAIN q \cup {i} -> Timer]
  BY QueueFacts DEF AddTimer
<1>3. QED
  BY <1>1, <1>2 DEF IsQueue, AddTimer

LEMMA DelTimerFacts ==
  ASSUME NEW q, IsQueue(q), NEW i
  PROVE  /\ IsQueue(DelTimer(q, i))
         /\ DOMAIN DelTimer(q, i) = DOMAIN q
         /\ \A j \in DOMAIN q :
              DelTimer(q, i)[j] = IF j = i THEN [q[j] EXCEPT !.repeat = 0] ELSE q[j]
<1>1. DOMAIN q \in SUBSET TimerId
  BY QueueFacts
<1>2. \A t \in Timer : [t EXCEPT !.repeat = 0] \in Timer
  BY DEF Timer
<1>3. DelTimer(q, i) \in [DOMAIN q -> Timer]
  BY <1>2, QueueFacts DEF DelTimer
<1>4. QED
  BY <1>1, <1>3 DEF IsQueue, DelTimer

LEMMA PopTimerFacts ==
  ASSUME NEW q, IsQueue(q), NEW i
  PROVE  /\ IsQueue(PopTimer(q, i))
         /\ DOMAIN PopTimer(q, i) = DOMAIN q \ {i}
         /\ \A j \in DOMAIN q \ {i} : PopTimer(q, i)[j] = q[j]
<1>1. DOMAIN q \ {i} \in SUBSET TimerId
  BY QueueFacts
<1>2. PopTimer(q, i) \in [DOMAIN q \ {i} -> Timer]
  BY QueueFacts DEF PopTimer, Restrict
<1>3. QED
  BY <1>1, <1>2 DEF IsQueue, PopTimer, Restrict

LEMMA ElapsedFacts ==
  ASSUME NEW q, IsQueue(q)
  PROVE  /\ IsQueue(Elapsed(q))
         /\ DOMAIN Elapsed(q) = DOMAIN q
         /\ \A j \in DOMAIN q : Elapsed(q)[j] = [q[j] EXCEPT !.left = q[j].left - 1]
<1>1. DOMAIN q \in SUBSET TimerId
  BY QueueFacts
<1>2. \A t \in Timer : [t EXCEPT !.left = t.left - 1] \in Timer
  BY DEF Timer
<1>3. Elapsed(q) \in [DOMAIN q -> Timer]
  BY <1>2, QueueFacts DEF Elapsed
<1>4. QED
  BY <1>1, <1>3 DEF IsQueue, Elapsed

------------------------------------------------------------------------------
(* What start_expire() leaves behind. *)

LEMMA StopExpireFacts ==
  ASSUME NEW k \in Key, NEW q, IsQueue(q)
  PROVE  /\ IsQueue(StopExpire(k, q))
         /\ DOMAIN StopExpire(k, q) = DOMAIN q
         /\ \A j \in DOMAIN q :
              StopExpire(k, q)[j] = IF StopsTimer(k) /\ j = timer_id[k]
                                      THEN [q[j] EXCEPT !.repeat = 0] ELSE q[j]
BY DelTimerFacts DEF StopExpire

(* Timer i is new in the heap and the manager of k waits for it; q was there besides. *)
Started(k, target, ms, q, i) ==
  /\ IsQueue(timer_queue')
  /\ DOMAIN timer_queue' = DOMAIN q \cup {i}
  /\ timer_queue'[i] = [key |-> k, target |-> target, left |-> ms, repeat |-> 1]
  /\ \A j \in DOMAIN q :
       timer_queue'[j] = IF StopsTimer(k) /\ j = timer_id[k]
                           THEN [q[j] EXCEPT !.repeat = 0] ELSE q[j]
  /\ timer_id' = [timer_id EXCEPT ![k] = i]
  /\ expire_time' = [expire_time EXCEPT ![k] = ms]

LEMMA StartExpireFacts ==
  ASSUME NEW k \in Key, NEW target \in {Idle, Guaranteed}, NEW ms \in Int, NEW q, IsQueue(q),
         DOMAIN q \subseteq DOMAIN timer_queue, StartExpire(k, target, ms, q)
  PROVE  \E i \in TimerId \ DOMAIN timer_queue : Started(k, target, ms, q, i)
<1> DEFINE timer == [key |-> k, target |-> target, left |-> ms, repeat |-> 1]
           rest  == StopExpire(k, q)
<1>1. PICK i \in TimerId \ DOMAIN timer_queue :
        /\ timer_queue' = AddTimer(rest, i, timer)
        /\ timer_id' = [timer_id EXCEPT ![k] = i]
        /\ expire_time' = [expire_time EXCEPT ![k] = ms]
  BY DEF StartExpire
<1>2. timer \in Timer
  BY DEF Timer
<1>3. /\ IsQueue(rest)
      /\ DOMAIN rest = DOMAIN q
      /\ \A j \in DOMAIN q :
           rest[j] = IF StopsTimer(k) /\ j = timer_id[k]
                       THEN [q[j] EXCEPT !.repeat = 0] ELSE q[j]
  BY StopExpireFacts
<1>4. i \notin DOMAIN q /\ i \in TimerId
  BY <1>1
<1> HIDE DEF timer, rest
<1>5. /\ IsQueue(AddTimer(rest, i, timer))
      /\ DOMAIN AddTimer(rest, i, timer) = DOMAIN rest \cup {i}
      /\ AddTimer(rest, i, timer)[i] = timer
      /\ \A j \in DOMAIN rest \ {i} : AddTimer(rest, i, timer)[j] = rest[j]
  BY <1>2, <1>3, <1>4, AddTimerFacts
<1>6. /\ IsQueue(timer_queue')
      /\ DOMAIN timer_queue' = DOMAIN q \cup {i}
      /\ timer_queue'[i] = timer
  BY <1>1, <1>3, <1>5
<1>7. \A j \in DOMAIN q : timer_queue'[j] = rest[j]
  BY <1>1, <1>3, <1>4, <1>5
<1>8. Started(k, target, ms, q, i)
  BY <1>1, <1>3, <1>6, <1>7 DEF Started, timer
<1>9. QED BY <1>1, <1>8

LEMMA InitQueue == ManagerInit => IsQueue(timer_queue) /\ DOMAIN timer_queue = {}
BY DEF ManagerInit, IsQueue

------------------------------------------------------------------------------
(* The types of the managers' variables; no deadline is further away than a lease. *)

ManagerTyped ==
  /\ current_state \in [Key -> State]
  /\ timer_id \in [Key -> TimerId \cup {NoTimer}]
  /\ expire_time \in [Key -> Int]
  /\ \A k \in Key : expire_time[k] <= Lease
  /\ op_id \in [Key -> OpId \cup {ReadId}]
  /\ IsQueue(timer_queue)

LEMMA StartExpireTyped ==
  ASSUME ManagerTyped, NEW k \in Key, NEW target \in {Idle, Guaranteed}, NEW ms \in Int,
         ms <= Lease, NEW q, IsQueue(q), DOMAIN q \subseteq DOMAIN timer_queue,
         StartExpire(k, target, ms, q)
  PROVE  /\ IsQueue(timer_queue')
         /\ timer_id' \in [Key -> TimerId \cup {NoTimer}]
         /\ expire_time' \in [Key -> Int]
         /\ \A l \in Key : expire_time'[l] <= Lease
<1>1. PICK i \in TimerId \ DOMAIN timer_queue : Started(k, target, ms, q, i)
  BY StartExpireFacts
<1>2. QED BY <1>1 DEF Started, ManagerTyped

LEMMA EnterGuaranteedTyped ==
  ASSUME ManagerTyped, NEW k \in Key, NEW q, IsQueue(q), DOMAIN q \subseteq DOMAIN timer_queue,
         EnterGuaranteed(k, q), op_id' \in [Key -> OpId \cup {ReadId}]
  PROVE  ManagerTyped'
<1>1. StartExpire(k, Idle, Lease, q) /\ current_state' = [current_state EXCEPT ![k] = Guaranteed]
  BY DEF EnterGuaranteed
<1>2. Lease \in Int /\ Lease <= Lease /\ Idle \in {Idle, Guaranteed}
  BY LeaseAssumption
<1>3. /\ IsQueue(timer_queue')
      /\ timer_id' \in [Key -> TimerId \cup {NoTimer}]
      /\ expire_time' \in [Key -> Int]
      /\ \A l \in Key : expire_time'[l] <= Lease
  BY <1>1, <1>2, StartExpireTyped
<1>4. current_state' \in [Key -> State]
  BY <1>1 DEF ManagerTyped, State
<1>5. QED BY <1>3, <1>4 DEF ManagerTyped

LEMMA ManagerInitTyped == ManagerInit => ManagerTyped
BY InitQueue, LeaseAssumption DEF ManagerInit, ManagerTyped, State

LEMMA ManagerReadTyped ==
  ASSUME ManagerTyped, NEW k \in Key, ManagerRead(k, ReadId)
  PROVE  ManagerTyped'
<1>1. CASE current_state[k] = UpdateProtected /\ UNCHANGED managerVars
  BY <1>1 DEF managerVars, ManagerTyped, IsQueue
<1>2. CASE EnterGuaranteed(k, timer_queue) /\ op_id' \in {op_id, [op_id EXCEPT ![k] = ReadId]}
  BY <1>2, EnterGuaranteedTyped DEF ManagerTyped
<1>3. QED BY <1>1, <1>2 DEF ManagerRead

LEMMA ManagerUpdateTyped ==
  ASSUME ManagerTyped, NEW k \in Key, NEW op \in OpId,
         ManagerUpdateOk(k) \/ ManagerUpdateDefer(k, op) \/ ManagerUpdateExpired(k, op)
  PROVE  ManagerTyped'
<1>1. CASE ManagerUpdateOk(k)
  BY <1>1, EnterGuaranteedTyped DEF ManagerUpdateOk, ManagerTyped
<1>2. CASE ManagerUpdateDefer(k, op)
  <2>1. /\ IsQueue(timer_queue')
        /\ timer_id' \in [Key -> TimerId \cup {NoTimer}]
        /\ expire_time' \in [Key -> Int]
        /\ \A l \in Key : expire_time'[l] <= Lease
    BY <1>2, StartExpireTyped DEF ManagerUpdateDefer, EnterUpdateProtected, ManagerTyped
  <2>2. QED BY <1>2, <2>1 DEF ManagerUpdateDefer, EnterUpdateProtected, ManagerTyped, State
<1>3. CASE ManagerUpdateExpired(k, op)
  BY <1>3 DEF ManagerUpdateExpired, ManagerTyped, IsQueue
<1>4. QED BY <1>1, <1>2, <1>3

LEMMA UpdateOkTyped == ASSUME ManagerTyped, NEW k \in Key, ManagerUpdateOk(k) PROVE ManagerTyped'
BY EnterGuaranteedTyped DEF ManagerUpdateOk, ManagerTyped

LEMMA ManagerTickTyped ==
  ASSUME ManagerTyped, NEW i \in DOMAIN timer_queue, NEW q,
         q \in {timer_queue, PopTimer(timer_queue, i)},
         \/ ManagerTickDeleted(i) \/ ManagerTickIdle(i) \/ ManagerTickUpdate(i, q)
         \/ ManagerTickBlocks(i)
  PROVE  ManagerTyped' /\ timer_queue[i].key \in Key /\ UNCHANGED op_id
<1> DEFINE k == timer_queue[i].key
<1>1. k \in Key
  BY QueueFacts DEF Timer, ManagerTyped
<1>2. IsQueue(PopTimer(timer_queue, i)) /\ IsQueue(q) /\ DOMAIN q \subseteq DOMAIN timer_queue
  <2>1. IsQueue(timer_queue)
    BY DEF ManagerTyped
  <2>2. /\ IsQueue(PopTimer(timer_queue, i))
        /\ DOMAIN PopTimer(timer_queue, i) = DOMAIN timer_queue \ {i}
    BY <2>1, PopTimerFacts
  <2>3. QED BY <2>1, <2>2
<1>3. CASE ManagerTickDeleted(i)
  BY <1>1, <1>2, <1>3 DEF ManagerTickDeleted, ManagerTyped
<1>4. CASE ManagerTickIdle(i)
  BY <1>1, <1>2, <1>4, LeaseAssumption DEF ManagerTickIdle, EnterIdle, ManagerTyped, State
<1>5. CASE ManagerTickUpdate(i, q)
  BY <1>1, <1>2, <1>5, EnterGuaranteedTyped DEF ManagerTickUpdate, ManagerTyped
<1>6. CASE ManagerTickBlocks(i)
  BY <1>1, <1>6, LeaseAssumption DEF ManagerTickBlocks, ManagerTyped, IsQueue
<1>7. QED BY <1>1, <1>3, <1>4, <1>5, <1>6
     DEF ManagerTickDeleted, ManagerTickIdle, ManagerTickUpdate, ManagerTickBlocks

LEMMA ManagerElapseTyped ==
  ASSUME ManagerTyped, ManagerElapse
  PROVE  ManagerTyped' /\ UNCHANGED op_id
<1>1. IsQueue(timer_queue')
  BY ElapsedFacts DEF ManagerElapse, ManagerTyped
<1>2. expire_time' \in [Key -> Int] /\ \A k \in Key : expire_time'[k] <= Lease
  BY LeaseAssumption DEF ManagerElapse, ManagerTyped
<1>3. QED BY <1>1, <1>2 DEF ManagerElapse, ManagerTyped

------------------------------------------------------------------------------
(* The timer a manager waits for.  An element that is not idle has a live timer of its own, which
   leads out of the state it is in and is due at expire_time_. *)

OwnTimer(k) ==
  IF current_state[k] = Idle THEN timer_id[k] = NoTimer
  ELSE /\ timer_id[k] \in DOMAIN timer_queue
       /\ timer_queue[timer_id[k]] =
            [key |-> k, target |-> TargetOf(current_state[k]),
             left |-> expire_time[k], repeat |-> 1]

OwnTimers == \A k \in Key : OwnTimer(k)

LEMMA States == /\ Guaranteed # Idle /\ UpdateProtected # Idle /\ UpdateProtected # Guaranteed
                /\ State = {Idle, Guaranteed, UpdateProtected}
                /\ TargetOf(UpdateProtected) = Guaranteed /\ TargetOf(Guaranteed) = Idle
BY DEF State, Guaranteed, Idle, UpdateProtected, TargetOf

(* A key that a step leaves alone keeps its timer if the step deletes no timer of it. *)
LEMMA OwnTimerKept ==
  ASSUME NEW k \in Key, OwnTimer(k),
         current_state'[k] = current_state[k], timer_id'[k] = timer_id[k],
         expire_time'[k] = expire_time[k],
         \A j \in DOMAIN timer_queue :
           timer_queue[j].key = k /\ timer_queue[j].repeat = 1 =>
             j \in DOMAIN timer_queue' /\ timer_queue'[j] = timer_queue[j]
  PROVE  OwnTimer(k)'
<1>1. CASE current_state[k] = Idle
  BY <1>1 DEF OwnTimer
<1>2. CASE current_state[k] # Idle
  <2>1. /\ timer_queue[timer_id[k]].key = k
        /\ timer_queue[timer_id[k]].repeat = 1
        /\ timer_id[k] \in DOMAIN timer_queue
    BY <1>2 DEF OwnTimer
  <2>2. QED BY <1>2, <2>1 DEF OwnTimer
<1>3. QED BY <1>1, <1>2

(* The heap start_expire() for k works on: the whole heap, or the heap without a timer of k that
   tick() has popped. *)
Rest(k, q) ==
  /\ IsQueue(q) /\ DOMAIN q \subseteq DOMAIN timer_queue
  /\ \A j \in DOMAIN q : q[j] = timer_queue[j]
  /\ \A j \in DOMAIN timer_queue \ DOMAIN q : timer_queue[j].key = k

LEMMA WholeRest == ASSUME IsQueue(timer_queue), NEW k PROVE Rest(k, timer_queue)
BY DEF Rest

LEMMA PoppedRest ==
  ASSUME IsQueue(timer_queue), NEW i \in DOMAIN timer_queue, NEW k, k = timer_queue[i].key
  PROVE  Rest(k, PopTimer(timer_queue, i))
<1> DEFINE rest == PopTimer(timer_queue, i)
<1>1. /\ IsQueue(rest)
      /\ DOMAIN rest = DOMAIN timer_queue \ {i}
      /\ \A j \in DOMAIN timer_queue \ {i} : rest[j] = timer_queue[j]
  BY PopTimerFacts
<1> HIDE DEF rest
<1>2. Rest(k, rest)
  BY <1>1 DEF Rest
<1>3. QED BY <1>2 DEF rest

(* start_expire() for k deletes no timer of another key. *)
LEMMA StartedOthers ==
  ASSUME NEW k \in Key, OwnTimer(k), NEW target, NEW ms, NEW q, Rest(k, q),
         NEW i \in TimerId \ DOMAIN timer_queue, Started(k, target, ms, q, i),
         NEW j \in DOMAIN timer_queue, timer_queue[j].key # k
  PROVE  j \in DOMAIN timer_queue' /\ timer_queue'[j] = timer_queue[j]
<1>1. StopsTimer(k) => timer_queue[timer_id[k]].key = k
  BY DEF OwnTimer, StopsTimer
<1>2. j \in DOMAIN q /\ q[j] = timer_queue[j]
  BY DEF Rest
<1>3. QED BY <1>1, <1>2 DEF Started

(* The timer that start_expire() makes is the manager's own. *)
LEMMA StartedOwn ==
  ASSUME ManagerTyped, OwnTimers, NEW k \in Key, NEW state \in State \ {Idle}, NEW ms, NEW q, Rest(k, q),
         NEW i \in TimerId \ DOMAIN timer_queue, Started(k, TargetOf(state), ms, q, i),
         current_state' = [current_state EXCEPT ![k] = state]
  PROVE  OwnTimers'
<1>1. OwnTimer(k)'
  <2>1. current_state'[k] = state /\ timer_id'[k] = i /\ expire_time'[k] = ms
    BY DEF ManagerTyped, Started
  <2>2. i \in DOMAIN timer_queue' /\ timer_queue'[i] =
          [key |-> k, target |-> TargetOf(state), left |-> ms, repeat |-> 1]
    BY DEF Started
  <2>3. QED BY <2>1, <2>2 DEF OwnTimer
<1>2. ASSUME NEW l \in Key \ {k} PROVE OwnTimer(l)'
  <2>1. \A j \in DOMAIN timer_queue : timer_queue[j].key = l =>
          j \in DOMAIN timer_queue' /\ timer_queue'[j] = timer_queue[j]
    BY <1>2, StartedOthers DEF OwnTimers
  <2>2. /\ current_state'[l] = current_state[l]
        /\ timer_id'[l] = timer_id[l]
        /\ expire_time'[l] = expire_time[l]
    BY <1>2 DEF Started, ManagerTyped
  <2>3. QED BY <2>1, <2>2, OwnTimerKept DEF OwnTimers
<1>3. QED BY <1>1, <1>2 DEF OwnTimers

LEMMA EnterStarted ==
  ASSUME ManagerTyped, NEW k \in Key, NEW q, Rest(k, q),
         EnterGuaranteed(k, q) \/ (q = timer_queue /\ EnterUpdateProtected(k))
  PROVE  \E state \in State \ {Idle}, ms \in Int, i \in TimerId \ DOMAIN timer_queue :
           /\ Started(k, TargetOf(state), ms, q, i)
           /\ current_state' = [current_state EXCEPT ![k] = state]
           /\ state = Guaranteed => ms = Lease
           /\ state = UpdateProtected => ms = expire_time[k]
<1>1. CASE EnterGuaranteed(k, q)
  <2>1. Lease \in Int /\ Idle \in {Idle, Guaranteed}
    BY LeaseAssumption
  <2>2. PICK i \in TimerId \ DOMAIN timer_queue : Started(k, Idle, Lease, q, i)
    BY <1>1, <2>1, StartExpireFacts DEF EnterGuaranteed, Rest
  <2>3. Started(k, TargetOf(Guaranteed), Lease, q, i) /\ Guaranteed \in State \ {Idle}
    BY <2>2, States
  <2>4. current_state' = [current_state EXCEPT ![k] = Guaranteed]
    BY <1>1 DEF EnterGuaranteed
  <2>5. QED BY <2>1, <2>3, <2>4, States
<1>2. CASE q = timer_queue /\ EnterUpdateProtected(k)
  <2>1. expire_time[k] \in Int /\ Guaranteed \in {Idle, Guaranteed}
    BY DEF ManagerTyped
  <2>2. PICK i \in TimerId \ DOMAIN timer_queue : Started(k, Guaranteed, expire_time[k], q, i)
    BY <1>2, <2>1, StartExpireFacts DEF EnterUpdateProtected, Rest
  <2>3. Started(k, TargetOf(UpdateProtected), expire_time[k], q, i) /\ UpdateProtected \in State \ {Idle}
    BY <2>2, States
  <2>4. current_state' = [current_state EXCEPT ![k] = UpdateProtected]
    BY <1>2 DEF EnterUpdateProtected
  <2>5. QED BY <2>1, <2>3, <2>4, States
<1>3. QED BY <1>1, <1>2

(* read_op, update_op and the callback of a deferred update. *)
LEMMA EnterOwns ==
  ASSUME ManagerTyped, OwnTimers, NEW k \in Key, NEW q, Rest(k, q),
         EnterGuaranteed(k, q) \/ (q = timer_queue /\ EnterUpdateProtected(k))
  PROVE  OwnTimers'
BY EnterStarted, StartedOwn

LEMMA SameOwns ==
  OwnTimers /\ UNCHANGED <<current_state, timer_id, expire_time, timer_queue>> => OwnTimers'
BY DEF OwnTimers, OwnTimer

LEMMA TickDeletedOwns ==
  ASSUME ManagerTyped, OwnTimers, NEW i \in DOMAIN timer_queue, ManagerTickDeleted(i)
  PROVE  OwnTimers'
<1>1. /\ timer_queue[i].repeat = 0
      /\ timer_queue' = PopTimer(timer_queue, i)
      /\ UNCHANGED <<current_state, timer_id, expire_time>>
  BY DEF ManagerTickDeleted
<1>2. \A j \in DOMAIN timer_queue : timer_queue[j].repeat = 1 =>
        j \in DOMAIN timer_queue' /\ timer_queue'[j] = timer_queue[j]
  <2>1. /\ DOMAIN timer_queue' = DOMAIN timer_queue \ {i}
        /\ \A j \in DOMAIN timer_queue \ {i} : timer_queue'[j] = timer_queue[j]
    BY <1>1, PopTimerFacts DEF ManagerTyped
  <2>2. QED BY <1>1, <2>1
<1>3. QED BY <1>1, <1>2, OwnTimerKept DEF OwnTimers

LEMMA TickIdleOwns ==
  ASSUME ManagerTyped, OwnTimers, NEW i \in DOMAIN timer_queue, ManagerTickIdle(i)
  PROVE  OwnTimers'
<1>0. PICK k \in Key : k = timer_queue[i].key
  BY QueueFacts DEF ManagerTyped, Timer
<1>1. /\ timer_queue' = PopTimer(timer_queue, i)
      /\ timer_id' = [timer_id EXCEPT ![k] = NoTimer]
      /\ expire_time' = [expire_time EXCEPT ![k] = 0]
      /\ current_state' = [current_state EXCEPT ![k] = Idle]
  BY <1>0 DEF ManagerTickIdle, EnterIdle
<1>2. OwnTimer(k)'
  BY <1>1 DEF OwnTimer, ManagerTyped
<1>3. ASSUME NEW l \in Key \ {k} PROVE OwnTimer(l)'
  <2>1. \A j \in DOMAIN timer_queue : timer_queue[j].key = l =>
          j \in DOMAIN timer_queue' /\ timer_queue'[j] = timer_queue[j]
    <3>1. /\ DOMAIN timer_queue' = DOMAIN timer_queue \ {i}
          /\ \A j \in DOMAIN timer_queue \ {i} : timer_queue'[j] = timer_queue[j]
      BY <1>1, PopTimerFacts DEF ManagerTyped
    <3>2. QED BY <1>0, <1>3, <3>1
  <2>2. /\ current_state'[l] = current_state[l]
        /\ timer_id'[l] = timer_id[l]
        /\ expire_time'[l] = expire_time[l]
    BY <1>1, <1>3 DEF ManagerTyped
  <2>3. QED BY <2>1, <2>2, OwnTimerKept DEF OwnTimers
<1>4. QED BY <1>2, <1>3 DEF OwnTimers

LEMMA TickUpdateOwns ==
  ASSUME ManagerTyped, OwnTimers, NEW i \in DOMAIN timer_queue, NEW q,
         q \in {timer_queue, PopTimer(timer_queue, i)}, ManagerTickUpdate(i, q)
  PROVE  OwnTimers'
<1>0. PICK k \in Key : k = timer_queue[i].key
  BY QueueFacts DEF ManagerTyped, Timer
<1>1. EnterGuaranteed(k, q)
  BY <1>0 DEF ManagerTickUpdate
<1>2. Rest(k, q)
  BY <1>0, WholeRest, PoppedRest DEF ManagerTyped
<1>3. QED BY <1>1, <1>2, EnterOwns

LEMMA ElapseOwns ==
  ASSUME ManagerTyped, OwnTimers, ManagerElapse
  PROVE  OwnTimers'
<1>1. /\ timer_queue' = Elapsed(timer_queue) /\ IsQueue(timer_queue)
      /\ expire_time' = [k \in Key |-> IF current_state[k] = Idle THEN expire_time[k]
                                                            ELSE expire_time[k] - 1]
      /\ UNCHANGED <<current_state, timer_id>>
  BY DEF ManagerElapse, ManagerTyped
<1>2. SUFFICES ASSUME NEW l \in Key, OwnTimer(l) PROVE OwnTimer(l)'
  BY DEF OwnTimers
<1>3. CASE current_state[l] = Idle
  BY <1>1, <1>2, <1>3 DEF OwnTimer
<1>4. CASE current_state[l] # Idle
  <2>1. /\ timer_id[l] \in DOMAIN timer_queue'
        /\ timer_queue'[timer_id[l]] =
             [timer_queue[timer_id[l]] EXCEPT !.left = expire_time[l] - 1]
    BY <1>1, <1>2, <1>4, ElapsedFacts DEF OwnTimer
  <2>2. expire_time'[l] = expire_time[l] - 1
    BY <1>1, <1>4
  <2>3. QED BY <1>1, <1>2, <1>4, <2>1, <2>2 DEF OwnTimer
<1>5. QED BY <1>3, <1>4

------------------------------------------------------------------------------
(* A timer of k that will not call back for ms units of time. *)
Shelters(k, ms) ==
  \E j \in DOMAIN timer_queue :
    timer_queue[j].repeat = 1 /\ timer_queue[j].key = k /\ timer_queue[j].left >= ms

(* What lies ahead of somebody who relies on an element. *)
Ahead == 1..Lease

LEMMA AheadTyped == Lease \in Ahead /\ Ahead \subseteq 0..Lease /\ 0 \notin Ahead
BY LeaseAssumption DEF Ahead

LEMMA ShelterKept ==
  ASSUME ManagerTyped, NEW k, NEW ms \in Ahead, Shelters(k, ms),
         \A j \in DOMAIN timer_queue :
           timer_queue[j].key = k /\ timer_queue[j].repeat = 1 /\ timer_queue[j].left > 0 =>
             j \in DOMAIN timer_queue' /\ timer_queue'[j] = timer_queue[j]
  PROVE  Shelters(k, ms)'
<1>1. PICK j \in DOMAIN timer_queue :
        timer_queue[j].repeat = 1 /\ timer_queue[j].key = k /\ timer_queue[j].left >= ms
  BY DEF Shelters
<1>2. timer_queue[j].left \in Int /\ ms \in Int /\ ms > 0
  BY QueueFacts, LeaseAssumption DEF ManagerTyped, Timer, Ahead
<1>3. QED BY <1>1, <1>2 DEF Shelters

(* start_expire() shelters what the timer it deletes did: the new one ends no sooner. *)
LEMMA EnterShelters ==
  ASSUME ManagerTyped, OwnTimers, NEW k \in Key, NEW q,
         \/ q = timer_queue
         \/ \E i \in DOMAIN timer_queue :
              timer_queue[i].key = k /\ timer_queue[i].left <= 0 /\ q = PopTimer(timer_queue, i),
         EnterGuaranteed(k, q) \/ (q = timer_queue /\ EnterUpdateProtected(k))
  PROVE  /\ \A l \in Key, ms \in Ahead : Shelters(l, ms) => Shelters(l, ms)'
         /\ EnterGuaranteed(k, q) => Shelters(k, Lease)'
<1>0. /\ Rest(k, q)
      /\ \A j \in DOMAIN timer_queue \ DOMAIN q : timer_queue[j].left <= 0
  <2>1. IsQueue(timer_queue)
    BY DEF ManagerTyped
  <2>2. CASE q = timer_queue
    BY <2>1, <2>2, WholeRest
  <2>3. ASSUME NEW i \in DOMAIN timer_queue, timer_queue[i].key = k, timer_queue[i].left <= 0,
               q = PopTimer(timer_queue, i)
        PROVE  Rest(k, q) /\ \A j \in DOMAIN timer_queue \ DOMAIN q : timer_queue[j].left <= 0
    <3>1. Rest(k, q)
      BY <2>1, <2>3, PoppedRest
    <3>2. DOMAIN q = DOMAIN timer_queue \ {i}
      BY <2>1, <2>3, PopTimerFacts
    <3>3. QED BY <2>3, <3>1, <3>2
  <2>4. QED BY <2>2, <2>3
<1>1. PICK state \in State \ {Idle}, ms \in Int, i \in TimerId \ DOMAIN timer_queue :
        /\ Started(k, TargetOf(state), ms, q, i)
        /\ current_state' = [current_state EXCEPT ![k] = state]
        /\ state = Guaranteed => ms = Lease
        /\ state = UpdateProtected => ms = expire_time[k]
  BY <1>0, EnterStarted
<1>2. /\ i \in DOMAIN timer_queue' /\ timer_queue'[i].repeat = 1
      /\ timer_queue'[i].key = k /\ timer_queue'[i].left = ms
  BY <1>1 DEF Started
<1>3. expire_time[k] \in Int /\ expire_time[k] <= ms /\ Lease \in Int
  BY <1>1, States, LeaseAssumption DEF ManagerTyped
<1>4. ASSUME NEW l \in Key, NEW e \in Ahead, Shelters(l, e) PROVE Shelters(l, e)'
  <2>1. CASE l # k
    <3>1. \A j \in DOMAIN timer_queue : timer_queue[j].key = l =>
            j \in DOMAIN timer_queue' /\ timer_queue'[j] = timer_queue[j]
      BY <1>0, <1>1, <2>1, StartedOthers DEF OwnTimers
    <3>2. QED BY <1>4, <3>1, ShelterKept
  <2>2. CASE l = k
    <3>1. PICK j \in DOMAIN timer_queue :
            timer_queue[j].repeat = 1 /\ timer_queue[j].key = k /\ timer_queue[j].left >= e
      BY <1>4, <2>2 DEF Shelters
    <3>2. timer_queue[j].left \in Int /\ e \in Int /\ e > 0
      BY QueueFacts, LeaseAssumption DEF ManagerTyped, Timer, Ahead
    <3>3. j \in DOMAIN q /\ q[j] = timer_queue[j]
      BY <1>0, <3>1, <3>2 DEF Rest
    <3>4. CASE StopsTimer(k) /\ j = timer_id[k]
      <4>1. timer_queue[j].left = expire_time[k]
        <5>1. OwnTimer(k) /\ timer_id[k] # NoTimer
          BY <3>4 DEF OwnTimers, StopsTimer
        <5>2. QED BY <3>4, <5>1 DEF OwnTimer
      <4>2. ms >= e
        BY <1>3, <3>1, <3>2, <4>1
      <4>3. QED BY <1>2, <2>2, <4>2 DEF Shelters
    <3>5. CASE ~(StopsTimer(k) /\ j = timer_id[k])
      <4>1. j \in DOMAIN timer_queue' /\ timer_queue'[j] = timer_queue[j]
        BY <1>1, <3>3, <3>5 DEF Started
      <4>2. QED BY <2>2, <3>1, <4>1 DEF Shelters
    <3>6. QED BY <3>4, <3>5
  <2>3. QED BY <2>1, <2>2
<1>5. ASSUME EnterGuaranteed(k, q) PROVE Shelters(k, Lease)'
  <2>1. state = Guaranteed
    <3>1. current_state' = [current_state EXCEPT ![k] = Guaranteed]
      BY <1>5 DEF EnterGuaranteed
    <3>2. QED BY <1>1, <3>1 DEF ManagerTyped
  <2>2. QED BY <1>1, <1>2, <1>3, <2>1 DEF Shelters
<1>6. QED BY <1>4, <1>5

(* A timer that is due shelters nothing. *)
LEMMA PopShelters ==
  ASSUME ManagerTyped, NEW i \in DOMAIN timer_queue, timer_queue[i].left <= 0,
         timer_queue' = PopTimer(timer_queue, i), NEW k \in Key, NEW ms \in Ahead, Shelters(k, ms)
  PROVE  Shelters(k, ms)'
<1>1. /\ DOMAIN timer_queue' = DOMAIN timer_queue \ {i}
      /\ \A j \in DOMAIN timer_queue \ {i} : timer_queue'[j] = timer_queue[j]
      /\ timer_queue[i].left \in Int
  <2>1. IsQueue(timer_queue)
    BY DEF ManagerTyped
  <2>2. timer_queue[i] \in Timer
    BY <2>1, QueueFacts
  <2>3. timer_queue[i].left \in Int
    BY <2>2 DEF Timer
  <2>4. QED BY <2>1, <2>3, PopTimerFacts
<1>2. QED BY <1>1, ShelterKept

LEMMA ElapseShelters ==
  ASSUME ManagerTyped, ManagerElapse, NEW k \in Key, NEW ms \in Ahead, Shelters(k, ms + 1)
  PROVE  Shelters(k, ms)'
<1>1. PICK j \in DOMAIN timer_queue :
        timer_queue[j].repeat = 1 /\ timer_queue[j].key = k /\ timer_queue[j].left >= ms + 1
  BY DEF Shelters
<1>2. /\ timer_queue[j] \in Timer /\ timer_queue[j].left \in Int /\ ms \in Int
      /\ j \in DOMAIN timer_queue'
      /\ timer_queue'[j] = [timer_queue[j] EXCEPT !.left = timer_queue[j].left - 1]
  BY QueueFacts, ElapsedFacts, LeaseAssumption DEF ManagerElapse, ManagerTyped, Timer, Ahead
<1>3. /\ timer_queue'[j].repeat = 1 /\ timer_queue'[j].key = k
      /\ timer_queue'[j].left = timer_queue[j].left - 1
  BY <1>1, <1>2 DEF Timer
<1>4. timer_queue'[j].left >= ms
  BY <1>1, <1>2, <1>3
<1>5. QED BY <1>2, <1>3, <1>4 DEF Shelters

------------------------------------------------------------------------------
(* All the steps that whoever has managers takes with them, but for the passing of time. *)

ManagerHandles(k) ==
  \/ ManagerRead(k, ReadId)
  \/ ManagerUpdateOk(k)
  \/ \E op \in OpId : ManagerUpdateDefer(k, op) \/ ManagerUpdateExpired(k, op)

ManagerTicks(i) ==
  /\ timer_queue[i].left <= 0
  /\ \/ ManagerTickDeleted(i)
     \/ ManagerTickIdle(i)
     \/ \E q \in {timer_queue, PopTimer(timer_queue, i)} : ManagerTickUpdate(i, q)
     \/ ManagerTickBlocks(i)

ManagerActs ==
  \/ ~blocked /\ UNCHANGED blocked /\ \E k \in Key : ManagerHandles(k)
  \/ ~blocked /\ \E i \in DOMAIN timer_queue : ManagerTicks(i)
  \/ UNCHANGED <<managerVars, blocked>>

ManagerElapses == ~blocked /\ UNCHANGED blocked /\ ManagerElapse

LEMMA ManagerStepTyped == ManagerTyped /\ (ManagerActs \/ ManagerElapses) => ManagerTyped'
<1> SUFFICES ASSUME ManagerTyped, ManagerActs \/ ManagerElapses PROVE ManagerTyped'
  OBVIOUS
<1>1. ASSUME NEW k \in Key, ManagerHandles(k) PROVE ManagerTyped'
  BY <1>1, ManagerReadTyped, ManagerUpdateTyped, UpdateOkTyped DEF ManagerHandles
<1>2. ASSUME NEW i \in DOMAIN timer_queue, ManagerTicks(i) PROVE ManagerTyped'
  BY <1>2, ManagerTickTyped DEF ManagerTicks
<1>3. CASE UNCHANGED managerVars
  BY <1>3 DEF managerVars, ManagerTyped, IsQueue
<1>4. QED BY <1>1, <1>2, <1>3, ManagerElapseTyped DEF ManagerActs, ManagerElapses

LEMMA EnterCases ==
  ASSUME NEW k \in Key, ManagerHandles(k)
  PROVE  \/ EnterGuaranteed(k, timer_queue)
         \/ EnterUpdateProtected(k)
         \/ UNCHANGED <<current_state, timer_id, expire_time, timer_queue>>
BY DEF ManagerHandles, ManagerRead, ManagerUpdateOk, ManagerUpdateDefer, ManagerUpdateExpired, managerVars

(* However late tick() is, each manager waits for its own timer until the thread hangs. *)
LEMMA OwnTimersStep ==
  ManagerTyped /\ (~blocked => OwnTimers) /\ (ManagerActs \/ ManagerElapses)
    => (~blocked => OwnTimers)'
<1> SUFFICES ASSUME ManagerTyped, ~blocked => OwnTimers, ManagerActs \/ ManagerElapses, ~blocked'
             PROVE  OwnTimers'
  OBVIOUS
<1>1. ASSUME ~blocked, NEW k \in Key, ManagerHandles(k) PROVE OwnTimers'
  BY <1>1, EnterCases, EnterOwns, SameOwns, WholeRest DEF ManagerTyped
<1>2. ASSUME ~blocked, NEW i \in DOMAIN timer_queue, ManagerTicks(i) PROVE OwnTimers'
  BY <1>2, TickDeletedOwns, TickIdleOwns, TickUpdateOwns DEF ManagerTicks, ManagerTickBlocks
<1>3. CASE UNCHANGED <<managerVars, blocked>>
  BY <1>3, SameOwns DEF managerVars
<1>4. QED BY <1>1, <1>2, <1>3, ElapseOwns DEF ManagerActs, ManagerElapses

(* However late tick() is, no timer goes before it is due but for one that ends no sooner. *)
LEMMA ShelterStep ==
  ASSUME ManagerTyped, ~blocked => OwnTimers, ManagerActs,
         NEW l \in Key, NEW ms \in Ahead, Shelters(l, ms)
  PROVE  Shelters(l, ms)'
<1>0. UNCHANGED timer_queue => Shelters(l, ms)'
  BY DEF Shelters
<1>1. ASSUME ~blocked, NEW k \in Key, ManagerHandles(k) PROVE Shelters(l, ms)'
  BY <1>0, <1>1, EnterCases, EnterShelters
<1>2. ASSUME ~blocked, NEW i \in DOMAIN timer_queue, ManagerTicks(i) PROVE Shelters(l, ms)'
  <2>0. PICK k \in Key : k = timer_queue[i].key
    BY QueueFacts DEF ManagerTyped, Timer
  <2>1. CASE timer_queue' = PopTimer(timer_queue, i)
    BY <1>2, <2>1, PopShelters DEF ManagerTicks
  <2>2. ASSUME NEW q \in {timer_queue, PopTimer(timer_queue, i)}, EnterGuaranteed(k, q)
        PROVE  Shelters(l, ms)'
    BY <1>2, <2>0, <2>2, EnterShelters DEF ManagerTicks
  <2>3. QED BY <1>0, <1>2, <2>0, <2>1, <2>2
       DEF ManagerTicks, ManagerTickDeleted, ManagerTickIdle, EnterIdle, ManagerTickUpdate,
           ManagerTickBlocks
<1>3. CASE UNCHANGED <<managerVars, blocked>>
  BY <1>0, <1>3 DEF managerVars
<1>4. QED BY <1>1, <1>2, <1>3 DEF ManagerActs

(* A timer that shelters an element from being idle, or from the timer tick() is at, was left
   behind. *)
LEMMA ShelterOrphaned ==
  ASSUME IsQueue(timer_queue), NEW k \in Key, NEW ms \in Ahead, Shelters(k, ms),
         \/ timer_id[k] = NoTimer
         \/ \E i \in DOMAIN timer_queue :
              timer_queue[i].key = k /\ timer_queue[i].repeat = 1 /\ timer_queue[i].left <= 0
  PROVE  Orphans # {}
<1>1. PICK j \in DOMAIN timer_queue :
        timer_queue[j].repeat = 1 /\ timer_queue[j].key = k /\ timer_queue[j].left >= ms
  BY DEF Shelters
<1>2. timer_queue[j].left \in Int /\ ms \in Int /\ ms > 0 /\ j # NoTimer
  BY QueueFacts, LeaseAssumption, NoTimerAssumption DEF Timer, Ahead
<1>3. CASE timer_id[k] = NoTimer
  BY <1>1, <1>2, <1>3 DEF Orphans
<1>4. CASE \E i \in DOMAIN timer_queue :
             timer_queue[i].key = k /\ timer_queue[i].repeat = 1 /\ timer_queue[i].left <= 0
  <2>1. PICK i \in DOMAIN timer_queue :
          timer_queue[i].key = k /\ timer_queue[i].repeat = 1 /\ timer_queue[i].left <= 0
    BY <1>4
  <2>2. i # j
    BY <1>1, <1>2, <2>1
  <2>3. QED BY <1>1, <2>1, <2>2 DEF Orphans
<1>5. QED BY <1>3, <1>4
================================================================================
