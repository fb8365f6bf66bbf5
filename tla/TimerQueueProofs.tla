--------------------------- MODULE TimerQueueProofs ---------------------------
(***************************************************************************)
(* What TimerQueue promises one thread that calls tick() while any number  *)
(* of others add and delete timers.  Fronted says what slot 0 holds, also  *)
(* while push_heap or pop_heap moves timers; with it, the timer that the   *)
(* body of the loop finds in front has expired if the one it was entered   *)
(* for had (Found).                                                        *)
(***************************************************************************)
EXTENDS TimerQueue, FiniteSetTheorems, TLAPS

(* One thread in tick(), and room for every timer. *)
Alone == \A s, t \in Ticker : s = t
Roomy == IsFiniteSet(TimerId) /\ Cardinality(TimerId) <= Reserved

------------------------------------------------------------------------------
(* The timers. *)

IsQueue == DOMAIN timer_queue \subseteq TimerId /\ timer_queue \in [DOMAIN timer_queue -> Timer]

LEMMA TypedQueue ==
  TypeOK <=> /\ IsQueue
             /\ front \in TimerId \cup {NoTimer}
             /\ adding \in TimerId \cup {NoTimer}
             /\ capacity \in Nat
             /\ pc \in [Ticker -> {"out", "check", "locked", "moving", "lost"}]
             /\ dangling \subseteq Ticker
             /\ mine \in [User -> SUBSET TimerId]
<1>1. (\E ids \in SUBSET TimerId : timer_queue \in [ids -> Timer]) <=> IsQueue
  BY DEF IsQueue
<1>2. QED BY <1>1 DEF TypeOK

(* A vector that is not empty has a timer that is due first in slot 0, unless somebody is moving
   timers: add_timer leaves the slot empty only for a timer that is due before all others. *)
Settled == \A t \in Ticker : pc[t] # "moving"

Fronted ==
  /\ front # NoTimer => front \in DOMAIN timer_queue
  /\ adding # NoTimer => adding \in DOMAIN timer_queue
  /\ adding # NoTimer /\ front = NoTimer => Fronts(timer_queue) = {adding}
  /\ adding = NoTimer /\ front = NoTimer /\ Settled => DOMAIN timer_queue = {}
  /\ front # NoTimer /\ Settled => front \in Fronts(timer_queue)

(* What a new timer changes. *)
LEMMA Added ==
  ASSUME TypeOK, Fronted, NEW u \in User, NEW timeout \in 0..MaxTimeout, NEW repeat \in 1..MaxRepeat,
         AddPush(u, timeout, repeat)
  PROVE  /\ IsQueue' /\ Fronted'
         /\ front' \in TimerId \cup {NoTimer} /\ adding' \in TimerId
         /\ DOMAIN timer_queue' # {}
         /\ FrontExpired(timer_queue) => FrontExpired(timer_queue')
<1>1. PICK i \in TimerId \ DOMAIN timer_queue :
        /\ timer_queue' = AddTimer(timer_queue, i,
                            [left |-> timeout, timeout |-> timeout, repeat |-> repeat])
        /\ front' \in FrontInPush(timer_queue, i)
        /\ adding' = i
  BY DEF AddPush
<1>2. PICK new : new = [left |-> timeout, timeout |-> timeout, repeat |-> repeat]
  OBVIOUS
<1>3. new \in Timer /\ new.left \in Int
  BY <1>2, TimeoutAssumption DEF Timer
<1>4. IsQueue
  BY TypedQueue
<1>5. /\ DOMAIN timer_queue' = DOMAIN timer_queue \cup {i}
      /\ timer_queue'[i] = new
      /\ \A j \in DOMAIN timer_queue : timer_queue'[j] = timer_queue[j]
      /\ timer_queue' \in [DOMAIN timer_queue \cup {i} -> Timer]
  BY <1>1, <1>2, <1>3, <1>4 DEF AddTimer, IsQueue
<1>6. \A j \in DOMAIN timer_queue : timer_queue[j].left \in Int
  BY <1>4 DEF IsQueue, Timer
<1>7. IsQueue' /\ DOMAIN timer_queue' # {} /\ i # NoTimer
  BY <1>4, <1>5, NoTimerAssumption DEF IsQueue
<1>8. FrontExpired(timer_queue) => FrontExpired(timer_queue')
  BY <1>5 DEF FrontExpired
<1>9. CASE DOMAIN timer_queue = {}
  <2>1. front' = i \/ front' = NoTimer
    BY <1>1, <1>9 DEF FrontInPush
  <2>2. Fronts(timer_queue') = {i}
    BY <1>3, <1>5, <1>9 DEF Fronts
  <2>3. Fronted'
    BY <1>1, <1>5, <1>7, <2>1, <2>2 DEF Fronted
  <2>4. QED BY <1>1, <1>7, <1>8, <2>1, <2>3
<1>10. CASE DOMAIN timer_queue # {}
  <2>1. /\ front \in DOMAIN timer_queue
        /\ \A j \in DOMAIN timer_queue : timer_queue[front].left <= timer_queue[j].left
    BY <1>10 DEF Fronted, Fronts, AddPush, Unlocked, Settled
  <2>2. CASE new.left < timer_queue[front].left
    <3>1. front' = NoTimer
      BY <1>1, <1>5, <1>10, <2>2 DEF FrontInPush
    <3>2. \A j \in DOMAIN timer_queue : new.left < timer_queue[j].left
      BY <1>3, <1>6, <2>1, <2>2
    <3>3. Fronts(timer_queue') = {i}
      BY <1>3, <1>5, <1>6, <3>2 DEF Fronts
    <3>4. Fronted'
      BY <1>1, <1>5, <1>7, <3>1, <3>3 DEF Fronted
    <3>5. QED BY <1>1, <1>7, <1>8, <3>1, <3>4
  <2>3. CASE ~(new.left < timer_queue[front].left)
    <3>1. front' = front
      BY <1>1, <1>5, <1>10, <2>3 DEF FrontInPush
    <3>2. front \in TimerId /\ front # NoTimer
      BY <1>4, <2>1, NoTimerAssumption DEF IsQueue
    <3>3. front \in Fronts(timer_queue')
      BY <1>3, <1>5, <1>6, <2>1, <2>3 DEF Fronts
    <3>4. Fronted'
      BY <1>1, <1>5, <1>7, <2>1, <3>1, <3>2, <3>3 DEF Fronted
    <3>5. QED BY <1>1, <1>7, <1>8, <3>1, <3>2, <3>4
  <2>4. QED BY <2>2, <2>3
<1>11. QED BY <1>9, <1>10

(* What a deletion or the clock change: no timer is moved. *)
LEMMA Stays ==
  ASSUME TypeOK, Fronted, UNCHANGED <<front, adding, pc>>,
         (\E i : timer_queue' = DelTimer(timer_queue, i)) \/ timer_queue' = Elapsed(timer_queue)
  PROVE  /\ IsQueue' /\ Fronted'
         /\ DOMAIN timer_queue' = DOMAIN timer_queue
         /\ FrontExpired(timer_queue) => FrontExpired(timer_queue')
<1>1. IsQueue
  BY TypedQueue
<1>2. ASSUME NEW i, timer_queue' = DelTimer(timer_queue, i)
      PROVE  /\ IsQueue' /\ DOMAIN timer_queue' = DOMAIN timer_queue
             /\ \A j \in DOMAIN timer_queue : timer_queue'[j].left = timer_queue[j].left
  <2>1. DOMAIN timer_queue' = DOMAIN timer_queue
    BY <1>2 DEF DelTimer
  <2>2. ASSUME NEW j \in DOMAIN timer_queue
        PROVE  timer_queue'[j] \in Timer /\ timer_queue'[j].left = timer_queue[j].left
    <3>1. timer_queue[j] \in Timer
      BY <1>1 DEF IsQueue
    <3>2. timer_queue'[j] = timer_queue[j] \/ timer_queue'[j] = [timer_queue[j] EXCEPT !.repeat = 0]
      BY <1>2 DEF DelTimer
    <3>3. QED BY <3>1, <3>2, TimeoutAssumption DEF Timer
  <2>3. timer_queue' = [j \in DOMAIN timer_queue |-> timer_queue'[j]]
    BY <1>2, <2>1 DEF DelTimer
  <2>4. QED BY <1>1, <2>1, <2>2, <2>3 DEF IsQueue
<1>3. ASSUME timer_queue' = Elapsed(timer_queue)
      PROVE  /\ IsQueue' /\ DOMAIN timer_queue' = DOMAIN timer_queue
             /\ \A j \in DOMAIN timer_queue : timer_queue'[j].left = timer_queue[j].left - 1
  <2>1. DOMAIN timer_queue' = DOMAIN timer_queue
    BY <1>3 DEF Elapsed
  <2>2. ASSUME NEW j \in DOMAIN timer_queue
        PROVE  timer_queue'[j] \in Timer /\ timer_queue'[j].left = timer_queue[j].left - 1
    <3>1. timer_queue[j] \in Timer
      BY <1>1 DEF IsQueue
    <3>2. timer_queue'[j] = [timer_queue[j] EXCEPT !.left = timer_queue[j].left - 1]
      BY <1>3 DEF Elapsed
    <3>3. QED BY <3>1, <3>2 DEF Timer
  <2>3. timer_queue' = [j \in DOMAIN timer_queue |-> timer_queue'[j]]
    BY <1>3, <2>1 DEF Elapsed
  <2>4. QED BY <1>1, <2>1, <2>2, <2>3 DEF IsQueue
<1>4. \A j \in DOMAIN timer_queue : timer_queue[j].left \in Int
  BY <1>1 DEF IsQueue, Timer
<1>5. /\ IsQueue' /\ DOMAIN timer_queue' = DOMAIN timer_queue
      /\ \/ \A j \in DOMAIN timer_queue : timer_queue'[j].left = timer_queue[j].left
         \/ \A j \in DOMAIN timer_queue : timer_queue'[j].left = timer_queue[j].left - 1
  BY <1>2, <1>3
<1>6. ASSUME NEW a \in DOMAIN timer_queue, NEW b \in DOMAIN timer_queue
      PROVE  timer_queue'[a].left <= timer_queue'[b].left
               <=> timer_queue[a].left <= timer_queue[b].left
  BY <1>4, <1>5
<1>7. Fronts(timer_queue') = Fronts(timer_queue)
  BY <1>5, <1>6 DEF Fronts
<1>8. Fronted'
  BY <1>5, <1>7 DEF Fronted, Settled
<1>9. FrontExpired(timer_queue) => FrontExpired(timer_queue')
  BY <1>4, <1>5 DEF FrontExpired
<1>10. QED BY <1>5, <1>8, <1>9

(* What the body of the loop changes. *)
LEMMA Ran ==
  ASSUME TypeOK, Fronted, NEW t \in Ticker, TickRun(t)
  PROVE  /\ IsQueue' /\ Fronted' /\ mine' \in [User -> SUBSET TimerId]
         /\ front' \in TimerId \cup {NoTimer}
<1>1. IsQueue
  BY TypedQueue
<1>2. front \in DOMAIN timer_queue
  BY DEF Fronted, TickRun, Astray
<1>3. timer_queue[front] \in Timer /\ DOMAIN timer_queue \subseteq TimerId
  BY <1>1, <1>2 DEF IsQueue
<1>4. RunsLeft \in 0..MaxRepeat
  BY <1>3, TimeoutAssumption DEF RunsLeft, Timer
<1>5. IsQueue' /\ mine' \in [User -> SUBSET TimerId]
  <2>1. CASE RunsLeft = 0
    <3>1. timer_queue' = [j \in DOMAIN timer_queue \ {front} |-> timer_queue[j]]
      BY <2>1 DEF TickRun, PopTimer, Restrict
    <3>2. IsQueue'
      BY <1>1, <3>1 DEF IsQueue
    <3>3. mine' \in [User -> SUBSET TimerId]
      BY <2>1 DEF TickRun, TypeOK
    <3>4. QED BY <3>2, <3>3
  <2>2. CASE RunsLeft # 0
    <3>1. PICK again : again = [timer_queue[front] EXCEPT !.repeat = RunsLeft,
                                                         !.left = timer_queue[front].timeout]
      OBVIOUS
    <3>2. again \in Timer
      <4>1. timer_queue[front].timeout \in 0..MaxTimeout
        BY <1>3 DEF Timer
      <4>2. again = [left |-> timer_queue[front].timeout, timeout |-> timer_queue[front].timeout,
                     repeat |-> RunsLeft]
        BY <1>3, <3>1 DEF Timer
      <4>3. QED BY <1>4, <4>1, <4>2, TimeoutAssumption DEF Timer
    <3>3. timer_queue' = [timer_queue EXCEPT ![front] = again]
      BY <1>1, <1>2, <2>2, <3>1 DEF TickRun, IsQueue
    <3>4. IsQueue'
      BY <1>1, <1>2, <3>2, <3>3 DEF IsQueue
    <3>5. mine' \in [User -> SUBSET TimerId]
      BY <2>2 DEF TickRun, TypeOK
    <3>6. QED BY <3>4, <3>5
  <2>3. QED BY <2>1, <2>2
<1>6. DOMAIN timer_queue \ {front} \subseteq DOMAIN timer_queue'
  BY <1>1 DEF TickRun, PopTimer, Restrict, IsQueue
<1>7. front' # NoTimer => front' \in DOMAIN timer_queue' /\ front' \in TimerId
  <2>1. front' \in (DOMAIN timer_queue \ {front}) \cup {NoTimer}
    BY DEF TickRun, PopTimer, Restrict, Fronts
  <2>2. QED BY <1>3, <1>6, <2>1
<1>8. pc'[t] = "moving" /\ adding' = NoTimer
  BY DEF TickRun, GoTo, Unlocked, TypeOK
<1>9. Fronted'
  BY <1>7, <1>8 DEF Fronted, Settled
<1>10. QED BY <1>5, <1>7, <1>9

------------------------------------------------------------------------------
(* Where the ticker is. *)

(* A ticker inside tick() finds the vector not empty; if it found a timer expired, the one that
   is due first has expired. *)
Found ==
  \A t \in Ticker :
    /\ pc[t] \in {"check", "locked"} => DOMAIN timer_queue # {}
    /\ pc[t] = "locked" => FrontExpired(timer_queue)

(* The vector has not moved. *)
Unmoved == capacity >= Reserved /\ dangling = {}

QueueInv == TypeOK /\ Fronted /\ (Alone => Found) /\ (Roomy => Unmoved)

LEMMA QueueInit == Init => QueueInv
<1> SUFFICES ASSUME Init PROVE QueueInv
  OBVIOUS
<1>1. IsQueue
  BY DEF Init, IsQueue
<1>2. TypeOK
  BY <1>1, TypedQueue, ReservedAssumption DEF Init
<1>3. QED BY <1>2, ReservedAssumption DEF Init, QueueInv, Fronted, Found, Unmoved

(* With room for every timer, no timer that is added moves the vector. *)
LEMMA RoomStays ==
  ASSUME TypeOK, Roomy, Unmoved, NEW u \in User, NEW timeout \in 0..MaxTimeout,
         NEW repeat \in 1..MaxRepeat, AddPush(u, timeout, repeat)
  PROVE  UNCHANGED <<capacity, dangling>>
<1>1. PICK i \in TimerId : i \notin DOMAIN timer_queue
  BY DEF AddPush
<1>2. DOMAIN timer_queue \subseteq TimerId \ {i}
  BY <1>1, TypedQueue DEF IsQueue
<1>3. /\ IsFiniteSet(TimerId \ {i})
      /\ Cardinality(TimerId \ {i}) = Cardinality(TimerId) - 1
  BY <1>1, FS_RemoveElement DEF Roomy
<1>4. Cardinality(DOMAIN timer_queue) <= Cardinality(TimerId) - 1
  BY <1>2, <1>3, FS_Subset
<1>5. Cardinality(TimerId) \in Nat /\ Cardinality(DOMAIN timer_queue) \in Nat
  BY <1>2, <1>3, FS_Subset, FS_CardinalityType DEF Roomy
<1>6. Cardinality(DOMAIN timer_queue) < capacity
  BY <1>4, <1>5, ReservedAssumption DEF Roomy, Unmoved, TypeOK
<1>7. QED BY <1>6 DEF AddPush, Grow

LEMMA AddPushKeeps ==
  ASSUME QueueInv, NEW u \in User, NEW timeout \in 0..MaxTimeout, NEW repeat \in 1..MaxRepeat,
         AddPush(u, timeout, repeat)
  PROVE  QueueInv'
<1>1. TypeOK /\ Fronted
  BY DEF QueueInv
<1>2. /\ IsQueue' /\ Fronted'
      /\ front' \in TimerId \cup {NoTimer} /\ adding' \in TimerId
      /\ DOMAIN timer_queue' # {}
      /\ FrontExpired(timer_queue) => FrontExpired(timer_queue')
  BY <1>1, Added
<1>3. pc' = pc /\ mine' \in [User -> SUBSET TimerId]
  BY <1>1, TypedQueue DEF AddPush
<1>4. capacity' \in Nat /\ dangling' \subseteq Ticker
  BY <1>1, TypedQueue DEF AddPush, Grow
<1>5. TypeOK'
  BY <1>1, <1>2, <1>3, <1>4, TypedQueue DEF TypeOK, IsQueue
<1>6. Found => Found'
  BY <1>2, <1>3 DEF Found
<1>7. Roomy => Unmoved'
  BY <1>1, RoomStays DEF QueueInv, Unmoved
<1>8. QED BY <1>2, <1>5, <1>6, <1>7 DEF QueueInv, Alone, Roomy

LEMMA AddPlaceKeeps ==
  ASSUME QueueInv, AddPlace
  PROVE  QueueInv'
<1>1. /\ adding # NoTimer /\ adding' = NoTimer
      /\ front' = IF front = NoTimer THEN adding ELSE front
      /\ UNCHANGED <<timer_queue, capacity, pc, dangling, mine>>
  BY DEF AddPlace
<1>2. TypeOK'
  BY <1>1 DEF QueueInv, TypeOK
<1>3. Fronted'
  BY <1>1 DEF QueueInv, Fronted, Settled
<1>4. QED BY <1>1, <1>2, <1>3 DEF QueueInv, Found, Unmoved, Alone, Roomy

LEMMA StayKeeps ==
  ASSUME QueueInv, UNCHANGED <<front, adding, capacity, pc, dangling>>,
         mine' \in [User -> SUBSET TimerId],
         (\E i : timer_queue' = DelTimer(timer_queue, i)) \/ timer_queue' = Elapsed(timer_queue)
  PROVE  QueueInv'
<1>1. TypeOK /\ Fronted
  BY DEF QueueInv
<1>2. /\ IsQueue' /\ Fronted'
      /\ DOMAIN timer_queue' = DOMAIN timer_queue
      /\ FrontExpired(timer_queue) => FrontExpired(timer_queue')
  BY <1>1, Stays
<1>3. TypeOK'
  BY <1>1, <1>2, TypedQueue DEF TypeOK, IsQueue
<1>4. Found => Found'
  BY <1>2 DEF Found
<1>5. QED BY <1>2, <1>3, <1>4 DEF QueueInv, Unmoved, Alone, Roomy

(* A step of tick() that leaves the queue and what is in slot 0 alone. *)
LEMMA LookKeeps ==
  ASSUME QueueInv, NEW t \in Ticker, NEW label \in {"out", "check", "locked", "lost"},
         pc[t] # "moving", pc' = [pc EXCEPT ![t] = label],
         UNCHANGED <<timer_queue, front, adding, capacity, mine>>, dangling' \subseteq dangling,
         label \in {"check", "locked"} => DOMAIN timer_queue # {},
         label = "locked" => FrontExpired(timer_queue)
  PROVE  QueueInv'
<1>1. TypeOK /\ Fronted
  BY DEF QueueInv
<1>2. TypeOK'
  BY <1>1 DEF TypeOK
<1>3. Settled' <=> Settled
  BY <1>1 DEF Settled, TypeOK
<1>4. Fronted'
  BY <1>1, <1>3 DEF Fronted
<1>5. Found => Found'
  BY <1>1 DEF Found, TypeOK
<1>6. QED BY <1>2, <1>4, <1>5 DEF QueueInv, Unmoved, Alone, Roomy

LEMMA RunKeeps ==
  ASSUME QueueInv, NEW t \in Ticker, TickRun(t)
  PROVE  QueueInv'
<1>1. TypeOK /\ Fronted
  BY DEF QueueInv
<1>2. /\ IsQueue' /\ Fronted' /\ mine' \in [User -> SUBSET TimerId]
      /\ front' \in TimerId \cup {NoTimer}
  BY <1>1, Ran
<1>3. UNCHANGED <<adding, capacity, dangling>> /\ pc' = [pc EXCEPT ![t] = "moving"]
  BY DEF TickRun, GoTo
<1>4. TypeOK'
  BY <1>1, <1>2, <1>3, TypedQueue DEF TypeOK, IsQueue
<1>5. Alone => Found'
  BY <1>1, <1>3 DEF Alone, Found, TypeOK
<1>6. QED BY <1>2, <1>3, <1>4, <1>5 DEF QueueInv, Unmoved, Alone, Roomy

LEMMA PlaceKeeps ==
  ASSUME QueueInv, NEW t \in Ticker, TickPlace(t)
  PROVE  QueueInv'
<1>1. TypeOK /\ Fronted
  BY DEF QueueInv
<1>2. /\ UNCHANGED <<timer_queue, adding, capacity, mine>>
      /\ DOMAIN timer_queue = {} => front' = NoTimer
      /\ DOMAIN timer_queue # {} => front' \in Fronts(timer_queue)
      /\ dangling' \subseteq dangling
      /\ \/ front' = NoTimer /\ pc' = [pc EXCEPT ![t] = "out"]
         \/ front' # NoTimer /\ pc' = [pc EXCEPT ![t] = "check"]
  BY DEF TickPlace, SetFront, Loop, Leave, GoTo
<1>3. DOMAIN timer_queue # {} => front' \in TimerId /\ front' # NoTimer
  BY <1>1, <1>2, TypedQueue, NoTimerAssumption DEF Fronts, IsQueue
<1>4. TypeOK'
  BY <1>1, <1>2, <1>3 DEF TypeOK
<1>5. Fronted'
  BY <1>1, <1>2, <1>3 DEF Fronted, Fronts
<1>6. Found => Found'
  BY <1>1, <1>2 DEF Found, TypeOK
<1>7. QED BY <1>2, <1>4, <1>5, <1>6 DEF QueueInv, Unmoved, Alone, Roomy

LEMMA TickKeeps ==
  ASSUME QueueInv, NEW t \in Ticker, Tick(t)
  PROVE  QueueInv'
<1>1. TypeOK /\ Fronted
  BY DEF QueueInv
<1>2. CASE TickEnter(t)
  <2>1. DOMAIN timer_queue # {}
    <3>1. ASSUME DOMAIN timer_queue = {} PROVE FALSE
      <4>1. timer_queue = [i \in {} |-> NoTimer]
        BY <1>1, <3>1, TypedQueue DEF IsQueue
      <4>2. QED BY <1>2, <4>1 DEF TickEnter
    <3>2. QED BY <3>1
  <2>2. QED BY <1>2, <2>1, LookKeeps DEF TickEnter
<1>3. CASE TickAstray(t)
  BY <1>3, LookKeeps DEF TickAstray, GoTo
<1>4. CASE TickCheck(t)
  <2>1. front \in DOMAIN timer_queue
    BY <1>1, <1>4 DEF TickCheck, Astray, Fronted
  <2>2. CASE timer_queue[front].left <= 0
    <3>1. DOMAIN timer_queue # {} /\ FrontExpired(timer_queue)
      BY <2>1, <2>2 DEF FrontExpired
    <3>2. QED BY <1>4, <2>2, <3>1, LookKeeps DEF TickCheck, GoTo
  <2>3. CASE ~(timer_queue[front].left <= 0)
    BY <1>4, <2>3, LookKeeps DEF TickCheck, Leave
  <2>4. QED BY <2>2, <2>3
<1>5. CASE TickRun(t)
  BY <1>5, RunKeeps
<1>6. CASE TickPlace(t)
  BY <1>6, PlaceKeeps
<1>7. QED BY <1>2, <1>3, <1>4, <1>5, <1>6 DEF Tick

LEMMA QueueNext == QueueInv /\ [Next]_vars => QueueInv'
<1> SUFFICES ASSUME QueueInv, [Next]_vars PROVE QueueInv'
  OBVIOUS
<1>1. CASE \E u \in User, timeout \in 0..MaxTimeout, repeat \in 1..MaxRepeat :
             AddPush(u, timeout, repeat)
  BY <1>1, AddPushKeeps
<1>2. CASE AddPlace
  BY <1>2, AddPlaceKeeps
<1>3. CASE \E u \in User, i \in TimerId : Del(u, i)
  BY <1>3, StayKeeps DEF Del, QueueInv, TypeOK
<1>4. CASE \E t \in Ticker : Tick(t)
  BY <1>4, TickKeeps
<1>5. CASE Elapse
  BY <1>5, StayKeeps DEF Elapse, QueueInv, TypeOK
<1>6. CASE UNCHANGED vars
  BY <1>6 DEF vars, QueueInv, TypeOK, Fronted, Settled, Fronts, Alone, Roomy, Found, Unmoved
<1>7. QED BY <1>1, <1>2, <1>3, <1>4, <1>5, <1>6 DEF Next

LEMMA QueueInvariant == Spec => []QueueInv
BY QueueInit, QueueNext, PTL DEF Spec

(* Every reachable state is of the stated types, for any threads, timers and capacity. *)
THEOREM TimerTypeCorrect == Spec => []TypeOK
BY QueueInvariant, PTL DEF QueueInv

(* If one thread calls tick(), it finds what it looks at without the lock, except in the middle of
   an add_timer that puts a timer into slot 0 that is due before all others, and after one that
   moved the vector. *)
THEOREM AstrayOnlyInAddIfAlone == Spec => [](Alone => AstrayOnlyInAdd)
<1>1. ASSUME QueueInv, Alone, NEW t \in Ticker, pc[t] \in {"check", "locked"}, Astray(t),
             t \notin dangling
      PROVE  adding # NoTimer /\ Fronts(timer_queue) = {adding}
  <2>1. front = NoTimer
    BY <1>1 DEF Astray
  <2>2. DOMAIN timer_queue # {}
    BY <1>1 DEF QueueInv, Found
  <2>3. Settled
    BY <1>1 DEF Settled, Alone
  <2>4. QED BY <1>1, <2>1, <2>2, <2>3 DEF QueueInv, Fronted
<1>2. QueueInv => (Alone => AstrayOnlyInAdd)
  BY <1>1 DEF AstrayOnlyInAdd
<1>3. QED BY <1>2, QueueInvariant, PTL

(* If the vector has room for every timer, a tick() that is lost was lost to a timer on its way to
   slot 0: one thread in tick() cannot come to grief in a moment when no other is in add_timer. *)
THEOREM LostOnlyInAddIfRoomy ==
  Alone /\ Roomy => (Spec => [][\A t \in Ticker : TickAstray(t)
                                  => pc[t] = "check" /\ Fronts(timer_queue) = {adding}]_vars)
<1> SUFFICES ASSUME Alone, Roomy
             PROVE  Spec => [][\A t \in Ticker : TickAstray(t)
                                 => pc[t] = "check" /\ Fronts(timer_queue) = {adding}]_vars
  OBVIOUS
<1>1. ASSUME QueueInv, AstrayOnlyInAdd, NEW t \in Ticker, TickAstray(t)
      PROVE  pc[t] = "check" /\ Fronts(timer_queue) = {adding}
  BY <1>1 DEF QueueInv, Unmoved, AstrayOnlyInAdd, TickAstray, Unlocked
<1>2. ASSUME QueueInv, Alone => AstrayOnlyInAdd
      PROVE  [\A t \in Ticker : TickAstray(t)
                => pc[t] = "check" /\ Fronts(timer_queue) = {adding}]_vars
  BY <1>1, <1>2
<1>3. QED BY <1>2, QueueInvariant, AstrayOnlyInAddIfAlone, PTL DEF Spec

(* If one thread calls tick(), no timer runs before its time: a timer that another thread puts in
   front of the one that was found expired has expired as well.  (A tick() that is lost runs
   nothing in this model.) *)
THEOREM NeverEarlyIfAlone == Alone => (Spec => NeverEarly)
<1> SUFFICES ASSUME Alone PROVE Spec => NeverEarly
  OBVIOUS
<1>1. ASSUME QueueInv, NEW t \in Ticker, TickRun(t)
      PROVE  timer_queue[front].left <= 0
  <2>1. front \in Fronts(timer_queue)
    BY <1>1 DEF QueueInv, Fronted, TickRun, Unlocked, Settled, Astray
  <2>2. PICK j \in DOMAIN timer_queue : timer_queue[j].left <= 0
    BY <1>1 DEF QueueInv, Found, FrontExpired, TickRun
  <2>3. timer_queue[front].left <= timer_queue[j].left
    BY <2>1 DEF Fronts
  <2>4. timer_queue[front].left \in Int /\ timer_queue[j].left \in Int
    BY <1>1, <2>1, TypedQueue DEF QueueInv, IsQueue, Timer, Fronts
  <2>5. QED BY <2>2, <2>3, <2>4
<1>2. ASSUME QueueInv
      PROVE  [\A t \in Ticker : TickRun(t) /\ timer_queue[front].repeat > 0
                => timer_queue[front].left <= 0]_vars
  BY <1>1, <1>2
<1>3. QED BY <1>2, QueueInvariant, PTL DEF Spec, NeverEarly

------------------------------------------------------------------------------
(* Whose timers run. *)

(* A timer with a run left belongs to a user who has not deleted it. *)
Owned ==
  \A i \in DOMAIN timer_queue : timer_queue[i].repeat > 0 => \E u \in User : i \in mine[u]

LEMMA AddOwned ==
  ASSUME QueueInv, Owned, NEW u \in User, NEW timeout \in 0..MaxTimeout,
         NEW repeat \in 1..MaxRepeat, AddPush(u, timeout, repeat)
  PROVE  Owned'
<1>1. PICK i \in TimerId \ DOMAIN timer_queue :
        /\ timer_queue' = AddTimer(timer_queue, i,
                            [left |-> timeout, timeout |-> timeout, repeat |-> repeat])
        /\ mine' = [mine EXCEPT ![u] = @ \cup {i}]
  BY DEF AddPush
<1>2. \A v \in User : mine[v] \subseteq mine'[v]
  BY <1>1 DEF QueueInv, TypeOK
<1>3. i \in mine'[u]
  BY <1>1 DEF QueueInv, TypeOK
<1>4. ASSUME NEW j \in DOMAIN timer_queue', j # i
      PROVE  j \in DOMAIN timer_queue /\ timer_queue'[j] = timer_queue[j]
  BY <1>1, <1>4 DEF AddTimer
<1>5. QED BY <1>2, <1>3, <1>4 DEF Owned

LEMMA DelOwned ==
  ASSUME QueueInv, Owned, NEW u \in User, NEW i \in TimerId, Del(u, i)
  PROVE  Owned'
<1>1. timer_queue' = DelTimer(timer_queue, i) /\ mine' = [mine EXCEPT ![u] = @ \ {i}]
  BY DEF Del
<1>2. \A v \in User : mine[v] \ {i} \subseteq mine'[v]
  BY <1>1 DEF QueueInv, TypeOK
<1>3. ASSUME NEW j \in DOMAIN timer_queue', timer_queue'[j].repeat > 0
      PROVE  j \in DOMAIN timer_queue /\ j # i /\ timer_queue[j].repeat > 0
  <2>1. j \in DOMAIN timer_queue
    BY <1>1 DEF DelTimer
  <2>2. timer_queue[j] \in Timer
    BY <2>1, TypedQueue DEF QueueInv, IsQueue
  <2>3. timer_queue'[j] = IF j = i THEN [timer_queue[j] EXCEPT !.repeat = 0] ELSE timer_queue[j]
    BY <1>1, <2>1 DEF DelTimer
  <2>4. j # i
    BY <1>3, <2>2, <2>3 DEF Timer
  <2>5. QED BY <1>3, <2>1, <2>3, <2>4
<1>4. QED BY <1>2, <1>3 DEF Owned

LEMMA BodyOwned ==
  ASSUME QueueInv, Owned, NEW t \in Ticker, TickRun(t)
  PROVE  Owned'
<1>1. front \in DOMAIN timer_queue /\ IsQueue
  BY TypedQueue DEF QueueInv, Fronted, TickRun, Astray
<1>2. CASE RunsLeft = 0
  <2>1. timer_queue' = [j \in DOMAIN timer_queue \ {front} |-> timer_queue[j]]
    BY <1>2 DEF TickRun, PopTimer, Restrict
  <2>2. \A u \in User : mine'[u] = mine[u] \ {front}
    BY <1>2 DEF TickRun
  <2>3. QED BY <2>1, <2>2 DEF Owned
<1>3. CASE RunsLeft # 0
  <2>1. timer_queue[front].repeat > 0
    BY <1>3 DEF RunsLeft
  <2>2. /\ DOMAIN timer_queue' = DOMAIN timer_queue
        /\ \A j \in DOMAIN timer_queue : j # front => timer_queue'[j] = timer_queue[j]
    BY <1>3 DEF TickRun
  <2>3. mine' = mine
    BY <1>3 DEF TickRun
  <2>4. QED BY <1>1, <2>1, <2>2, <2>3 DEF Owned
<1>4. QED BY <1>2, <1>3

LEMMA ElapseOwned ==
  ASSUME QueueInv, Owned, Elapse
  PROVE  Owned'
<1>1. timer_queue' = Elapsed(timer_queue) /\ mine' = mine
  BY DEF Elapse
<1>2. ASSUME NEW j \in DOMAIN timer_queue'
      PROVE  j \in DOMAIN timer_queue /\ timer_queue'[j].repeat = timer_queue[j].repeat
  <2>1. j \in DOMAIN timer_queue
    BY <1>1 DEF Elapsed
  <2>2. timer_queue[j] \in Timer
    BY <2>1, TypedQueue DEF QueueInv, IsQueue
  <2>3. timer_queue'[j] = [timer_queue[j] EXCEPT !.left = timer_queue[j].left - 1]
    BY <1>1, <2>1 DEF Elapsed
  <2>4. QED BY <2>1, <2>2, <2>3 DEF Timer
<1>3. QED BY <1>1, <1>2 DEF Owned

LEMMA OwnedNext == QueueInv /\ Owned /\ [Next]_vars => Owned'
<1> SUFFICES ASSUME QueueInv, Owned, [Next]_vars PROVE Owned'
  OBVIOUS
<1>1. CASE \E u \in User, timeout \in 0..MaxTimeout, repeat \in 1..MaxRepeat :
             AddPush(u, timeout, repeat)
  BY <1>1, AddOwned
<1>2. CASE \E u \in User, i \in TimerId : Del(u, i)
  BY <1>2, DelOwned
<1>3. CASE \E t \in Ticker : Tick(t)
  BY <1>3, BodyOwned DEF Tick, TickEnter, TickAstray, TickCheck, TickPlace, Owned
<1>4. CASE Elapse
  BY <1>4, ElapseOwned
<1>5. CASE AddPlace \/ UNCHANGED vars
  BY <1>5 DEF AddPlace, vars, Owned
<1>6. QED BY <1>1, <1>2, <1>3, <1>4, <1>5 DEF Next

(* A callback runs only for a timer that somebody has not deleted, although it is found expired
   without the lock: for any number of threads in tick(). *)
THEOREM DeletedSilentAlways == Spec => DeletedSilent
<1>1. Init => Owned
  BY DEF Init, Owned
<1>2. ASSUME QueueInv, Owned
      PROVE  [\A t \in Ticker : TickRun(t) /\ timer_queue[front].repeat > 0
                => \E u \in User : front \in mine[u]]_vars
  BY <1>2 DEF QueueInv, Fronted, Owned, TickRun, Astray
<1>3. QED BY <1>1, <1>2, OwnedNext, QueueInvariant, PTL DEF Spec, DeletedSilent
==============================================================================
