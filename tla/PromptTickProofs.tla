-------------------------- MODULE PromptTickProofs --------------------------
(***************************************************************************)
(* CacheDataCenter with a caller whose operations come in time: none comes *)
(* between the end of a lease and tick().  stop_expire() then always finds *)
(* the old timer ahead of its deadline, no timer is left behind in the     *)
(* heap, and the data center does what LeasedStore promises.  A caller     *)
(* that runs tick() before each operation in the same millisecond is one   *)
(* of those.                                                               *)
(***************************************************************************)
EXTENDS CacheDataCenterProofs

(* What a restart of the timer of k leaves behind is a live timer of k that stop_expire() did
   not delete. *)
LEMMA StartedOrphans ==
  ASSUME NEW k \in Key, NEW target, NEW ms, NEW q, Rest(k, q), Orphans = {},
         NEW i \in TimerId \ DOMAIN timer_queue, Started(k, target, ms, q, i), TypeOK,
         NEW j \in Orphans'
  PROVE  j \in DOMAIN q /\ q[j].key = k /\ q[j].repeat = 1 /\ ~(StopsTimer(k) /\ timer_id[k] = j)
<1>1. j \in DOMAIN timer_queue' /\ timer_queue'[j].repeat = 1 /\ timer_id'[timer_queue'[j].key] # j
  BY DEF Orphans
<1>2. j # i
  BY <1>1 DEF Started, TypeOK
<1>3. j \in DOMAIN q
  BY <1>1, <1>2 DEF Started
<1>4. q[j] \in Timer /\ q[j] = timer_queue[j] /\ j \in DOMAIN timer_queue
  BY <1>3, QueueFacts DEF Rest
<1>5. ~(StopsTimer(k) /\ timer_id[k] = j)
  <2>1. SUFFICES ASSUME StopsTimer(k), timer_id[k] = j PROVE timer_queue'[j].repeat = 0
    BY <1>1
  <2>2. QED BY <1>3, <1>4, <2>1 DEF Started, Timer
<1>6. timer_queue'[j] = q[j]
  BY <1>3, <1>5 DEF Started
<1>7. q[j].key = k
  <2>1. SUFFICES ASSUME q[j].key # k PROVE FALSE
    OBVIOUS
  <2>2. timer_id[q[j].key] = j /\ q[j].key \in Key
    BY <1>1, <1>4, <1>6 DEF Orphans, Timer
  <2>3. timer_id'[q[j].key] = timer_id[q[j].key]
    BY <2>1, <2>2 DEF Started, TypeOK
  <2>4. QED BY <1>1, <1>6, <2>2, <2>3
<1>8. QED BY <1>1, <1>3, <1>5, <1>6, <1>7

(* Before an operation no deadline has passed. *)
LEMMA ReadyAhead ==
  ASSUME TickFirst, TypeOK, Ready, NEW k \in Key, OwnTimer(k), current_state[k] # Idle
  PROVE  expire_time[k] > 0 /\ StopsTimer(k)
<1>1. timer_id[k] \in DOMAIN timer_queue /\ timer_queue[timer_id[k]].left = expire_time[k]
  BY DEF OwnTimer
<1>2. ~(expire_time[k] <= 0)
  BY <1>1 DEF Ready, FrontExpired
<1>3. expire_time[k] \in Int /\ timer_id[k] \in TimerId
  BY <1>1, QueueFacts DEF TypeOK
<1>4. QED BY <1>2, <1>3, NoTimerAssumption DEF StopsTimer

LEMMA OrphansStep ==
  ASSUME TypeOK, LeaseTimed, Orphans = {}, [Next]_vars, NEW i \in Orphans'
  PROVE  \E k \in Key : i = timer_id[k] /\ Overdue(k) /\ ReadOp(k)
<1>q. IsQueue(timer_queue) /\ Lease \in Int
  BY LeaseAssumption DEF TypeOK
<1>u. ASSUME UNCHANGED <<timer_queue, timer_id>> PROVE Orphans' = {}
  BY <1>u DEF Orphans
(* An operation that restarts the timer of k. *)
<1>g. ASSUME NEW k \in Key, ~blocked, NEW target \in {Idle, Guaranteed}, NEW ms \in Int,
             StartExpire(k, target, ms, timer_queue)
      PROVE  i = timer_id[k] /\ current_state[k] # Idle /\ expire_time[k] <= 0
  <2>1. OwnTimer(k) /\ Rest(k, timer_queue)
    BY <1>g, <1>q, WholeRest, LeaseTimedIsOwn DEF OwnTimers
  <2>2. PICK n \in TimerId \ DOMAIN timer_queue : Started(k, target, ms, timer_queue, n)
    BY <1>g, <1>q, StartExpireFacts
  <2>3. /\ i \in DOMAIN timer_queue /\ timer_queue[i].key = k /\ timer_queue[i].repeat = 1
        /\ ~(StopsTimer(k) /\ timer_id[k] = i)
    BY <2>1, <2>2, StartedOrphans
  <2>4. timer_id[k] = i /\ i \in TimerId
    BY <1>q, <2>3, QueueFacts DEF Orphans
  <2>5. i # NoTimer /\ expire_time[k] \in Int
    BY <2>4, NoTimerAssumption DEF TypeOK
  <2>6. current_state[k] # Idle
    BY <2>1, <2>4, <2>5 DEF OwnTimer
  <2>7. ~(expire_time[k] > 0)
    BY <2>3, <2>4, <2>5 DEF StopsTimer
  <2>8. QED BY <2>4, <2>5, <2>6, <2>7
<1>e. ASSUME NEW k \in Key, ~blocked, EnterGuaranteed(k, timer_queue)
      PROVE  i = timer_id[k] /\ current_state[k] # Idle /\ expire_time[k] <= 0
  BY <1>e, <1>g, <1>q DEF EnterGuaranteed
<1>1. ASSUME NEW k \in Key, ReadOp(k) PROVE i = timer_id[k] /\ Overdue(k)
  <2>1. ~blocked /\ ManagerRead(k, ReadId)
    BY <1>1 DEF ReadOp, Ready
  <2>2. current_state[k] # UpdateProtected /\ EnterGuaranteed(k, timer_queue)
    BY <2>1, <1>u DEF ManagerRead, managerVars, Idle, Guaranteed, UpdateProtected
  <2>3. i = timer_id[k] /\ current_state[k] # Idle /\ expire_time[k] <= 0
    BY <2>1, <2>2, <1>e
  <2>4. QED BY <2>2, <2>3, States DEF Overdue, TypeOK
<1>2. ASSUME NEW k \in Key, NEW op \in OpId, UpdateOp(k, op) PROVE FALSE
  <2>0. ~blocked
    BY <1>2 DEF UpdateOp, UpdateOk, UpdateDefer, UpdateRetry, UpdateExpired, UpdateIllegal,
                Issue, Ready
  <2>1. CASE UpdateOk(k, op)
    BY <2>0, <2>1, <1>e DEF UpdateOk, ManagerUpdateOk
  <2>2. CASE UpdateDefer(k, op)
    <3>1. /\ StartExpire(k, Guaranteed, expire_time[k], timer_queue)
          /\ expire_time[k] \in Int /\ expire_time[k] > 0
      BY <2>2 DEF UpdateDefer, ManagerUpdateDefer, EnterUpdateProtected, TypeOK
    <3>2. expire_time[k] <= 0
      BY <2>0, <3>1, <1>g
    <3>3. QED BY <3>1, <3>2
  <2>3. CASE UpdateRetry(k, op)
    BY <2>3, <1>u DEF UpdateRetry, managerVars
  <2>4. CASE UpdateExpired(k, op)
    BY <2>4, <1>u DEF UpdateExpired, ManagerUpdateExpired
  <2>5. CASE UpdateIllegal(k, op)
    BY <2>5, <1>u DEF UpdateIllegal, managerVars
  <2>6. QED BY <1>2, <2>1, <2>2, <2>3, <2>4, <2>5 DEF UpdateOp
<1>3. ASSUME NEW t \in DOMAIN timer_queue, Tick(t) PROVE Orphans' = {}
  <2> DEFINE rest == PopTimer(timer_queue, t)
  <2>k. PICK k \in Key : k = timer_queue[t].key
    BY <1>q, QueueFacts DEF Timer
  <2>p. /\ DOMAIN rest = DOMAIN timer_queue \ {t}
        /\ \A j \in DOMAIN timer_queue \ {t} : rest[j] = timer_queue[j]
    BY <1>q, PopTimerFacts
  <2>r. Rest(k, rest)
    BY <1>q, <2>k, PoppedRest
  <2> HIDE DEF rest
  (* The timer of k has just been popped, so k has no other. *)
  <2>n. ASSUME timer_queue[t].repeat = 1, NEW j \in DOMAIN rest, rest[j].key = k,
               rest[j].repeat = 1
        PROVE  FALSE
    <3>1. j \in DOMAIN timer_queue /\ j # t /\ timer_queue[j] = rest[j]
      BY <2>n, <2>p
    <3>2. timer_id[k] = j /\ timer_id[k] = t
      BY <2>k, <2>n, <3>1 DEF Orphans
    <3>3. QED BY <3>1, <3>2
  <2>1. CASE TickDeleted(t)
    <3>1. timer_queue' = rest /\ timer_id' = timer_id
      BY <2>1 DEF TickDeleted, ManagerTickDeleted, rest
    <3>2. QED BY <2>p, <3>1 DEF Orphans
  <2>2. CASE TickIdle(t)
    <3>1. /\ timer_queue[t].repeat = 1 /\ timer_queue' = rest
          /\ timer_id' = [timer_id EXCEPT ![k] = NoTimer]
      BY <2>2, <2>k DEF TickIdle, ManagerTickIdle, EnterIdle, rest
    <3>2. SUFFICES ASSUME NEW j \in DOMAIN rest, rest[j].repeat = 1
                   PROVE  timer_id'[rest[j].key] = j
      BY <3>1 DEF Orphans
    <3>3. rest[j].key # k
      BY <2>n, <3>1, <3>2
    <3>4. timer_id[rest[j].key] = j
      BY <2>p, <3>2 DEF Orphans
    <3>5. QED BY <3>1, <3>3, <3>4 DEF TypeOK
  <2>3. CASE TickUpdate(t)
    <3>1. timer_queue[t].repeat = 1 /\ StartExpire(k, Idle, Lease, rest)
      BY <2>3, <2>k DEF TickUpdate, ManagerTickUpdate, EnterGuaranteed, rest
    <3>2. PICK n \in TimerId \ DOMAIN timer_queue : Started(k, Idle, Lease, rest, n)
      BY <1>q, <2>r, <3>1, StartExpireFacts DEF Rest
    <3>3. QED BY <2>r, <2>n, <3>1, <3>2, StartedOrphans
  <2>4. CASE TickBlocks(t)
    BY <2>4, <1>u DEF TickBlocks, ManagerTickBlocks
  <2>5. QED BY <1>3, <2>1, <2>2, <2>3, <2>4 DEF Tick
<1>4. ASSUME Elapse PROVE Orphans' = {}
  <2>1. timer_queue' = Elapsed(timer_queue) /\ timer_id' = timer_id
    BY <1>4 DEF Elapse, ManagerElapse
  <2>2. SUFFICES ASSUME NEW j \in DOMAIN timer_queue', timer_queue'[j].repeat = 1
                 PROVE  timer_id'[timer_queue'[j].key] = j
    BY DEF Orphans
  <2>3. /\ j \in DOMAIN timer_queue /\ timer_queue[j] \in Timer
        /\ timer_queue'[j] = [timer_queue[j] EXCEPT !.left = timer_queue[j].left - 1]
    BY <1>q, <2>1, <2>2, ElapsedFacts, QueueFacts
  <2>4. timer_queue'[j].repeat = timer_queue[j].repeat /\ timer_queue'[j].key = timer_queue[j].key
    BY <2>3 DEF Timer
  <2>5. QED BY <2>1, <2>2, <2>3, <2>4 DEF Orphans
<1>5. ASSUME UNCHANGED vars PROVE Orphans' = {}
  BY <1>5, <1>u DEF vars, managerVars
<1>6. QED BY <1>1, <1>2, <1>3, <1>4, <1>5 DEF Next

(* Only a read that comes between the end of a lease and tick() leaves the first timer behind. *)
THEOREM OrphanOnlyByLateReadAlways == Spec => OrphanOnlyByLateRead
<1>1. TypeOK /\ LeaseTimed /\ [Next]_vars =>
        [Orphans = {} => \A i \in Orphans' :
           \E k \in Key : i = timer_id[k] /\ Overdue(k) /\ ReadOp(k)]_vars
  BY OrphansStep
<1>2. QED BY <1>1, TypeCorrect, LeaseTimedAlways, PTL DEF Spec, OrphanOnlyByLateRead


------------------------------------------------------------------------------
(* LeaseHonoured, NoPhantomCallback and NoUpdateThrown for a caller whose reads come in time. *)

IInv ==
  /\ TypeOK
  /\ LeaseTimed
  /\ LeaseCovered
  /\ PendingKept
  /\ Orphans = {}

(* The callback of a deferred update: the element is the one that waits for it, nobody holds
   a guarantee on it, and its temp_value_ is the value of the update that is called back. *)
LEMMA CalledBack ==
  ASSUME IInv, NEW i \in DOMAIN timer_queue, TickUpdate(i), NEW k \in Key,
         k = timer_queue[i].key
  PROVE  /\ current_state[k] = UpdateProtected
         /\ op_id[k] \in OpId /\ outcome[op_id[k]] = "defer"
         /\ \A v \in Value : lease[k][v] = 0
         /\ current_state' = [current_state EXCEPT ![k] = Guaranteed]
         /\ op_id' = op_id
         /\ value' = [value EXCEPT ![k] = op_id[k]]
         /\ outcome' = [outcome EXCEPT ![op_id[k]] = "called"]
         /\ Promise(k, op_id[k], Lease)
<1>1. /\ TickTakes(i) /\ ~blocked
      /\ timer_queue[i].repeat = 1 /\ timer_queue[i].target = Guaranteed
  BY DEF TickUpdate, TickTakes, ManagerTickUpdate
<1>2. OwnTimer(k)
  BY <1>1, LeaseTimedIsOwn DEF OwnTimers, IInv
<1>3. timer_id[k] = i
  BY <1>1 DEF IInv, Orphans
<1>4. i \in TimerId /\ i # NoTimer
  BY QueueFacts, NoTimerAssumption DEF IInv, TypeOK
<1>5. current_state[k] = UpdateProtected
  <2>1. current_state[k] # Idle
    BY <1>2, <1>3, <1>4 DEF OwnTimer
  <2>2. TargetOf(current_state[k]) = Guaranteed
    BY <1>1, <1>2, <1>3, <2>1 DEF OwnTimer
  <2>3. QED BY <2>2 DEF TargetOf, Idle, Guaranteed
<1>6. op_id[k] \in OpId /\ temp_value[k] = op_id[k] /\ outcome[op_id[k]] = "defer"
  BY <1>5 DEF IInv, PendingKept
<1>7. \A v \in Value : lease[k][v] = 0
  BY <1>1, DueUnleased DEF IInv
<1>8. /\ current_state' = [current_state EXCEPT ![k] = Guaranteed]
      /\ op_id' = op_id
      /\ CallHandle(k)
  BY DEF TickUpdate, ManagerTickUpdate, EnterGuaranteed
<1>9. QED BY <1>5, <1>6, <1>7, <1>8 DEF CallHandle

LEMMA HonouredStep == IInv /\ LeaseHonoured /\ [Next]_vars => LeaseHonoured'
<1> SUFFICES ASSUME IInv, LeaseHonoured, [Next]_vars, NEW k \in Key, NEW v \in Value,
                    lease'[k][v] > 0
             PROVE  value'[k] = v
  BY DEF LeaseHonoured
<1>t. /\ TypeOK /\ Lease \in Nat
      /\ lease[k][v] \in Nat
      /\ lease[k][v] > 0 => value[k] = v
  BY LeaseAssumption DEF IInv, TypeOK, LeaseHonoured
<1>u. CASE UNCHANGED <<value, lease>>
  BY <1>u, <1>t
<1>1. ASSUME NEW l \in Key, ReadOp(l) PROVE value'[k] = v
  <2>1. Promise(l, value[l], ReadExpire(l)) /\ value' = value /\ ReadExpire(l) \in Nat
    BY <1>1, <1>t DEF ReadOp, ReadExpire
  <2>2. lease'[k][v] = lease[k][v] \/ (k = l /\ v = value[l])
    BY <2>1, <1>t, PromiseFacts DEF TypeOK
  <2>3. QED BY <2>1, <2>2, <1>t
<1>2. ASSUME NEW l \in Key, NEW op \in OpId, UpdateOp(l, op) PROVE value'[k] = v
  <2>1. CASE UpdateOk(l, op)
    <3>1. /\ ~blocked /\ current_state[l] = Idle
          /\ value' = [value EXCEPT ![l] = op]
          /\ Promise(l, op, Lease)
      BY <2>1 DEF UpdateOk, Issue, Ready, ManagerUpdateOk
    <3>2. \A w \in Value : lease[l][w] = 0
      BY <3>1, IdleUnleased DEF IInv
    <3>3. lease'[k][v] = lease[k][v] \/ (k = l /\ v = op)
      BY <3>1, <1>t, PromiseFacts DEF TypeOK
    <3>4. QED BY <3>1, <3>2, <3>3, <1>t DEF TypeOK
  <2>2. QED BY <1>2, <1>u, <2>1 DEF UpdateOp, UpdateDefer, UpdateRetry, UpdateExpired, UpdateIllegal
<1>3. ASSUME NEW i \in DOMAIN timer_queue, Tick(i) PROVE value'[k] = v
  <2>1. CASE TickUpdate(i)
    <3>1. PICK l \in Key : l = timer_queue[i].key
      BY <1>t, QueueFacts DEF TypeOK, Timer
    <3>2. /\ \A w \in Value : lease[l][w] = 0
          /\ value' = [value EXCEPT ![l] = op_id[l]]
          /\ Promise(l, op_id[l], Lease)
      BY <2>1, <3>1, CalledBack
    <3>3. lease'[k][v] = lease[k][v] \/ (k = l /\ v = op_id[l])
      BY <3>2, <1>t, PromiseFacts DEF TypeOK
    <3>4. QED BY <3>2, <3>3, <1>t DEF TypeOK
  <2>2. QED
    BY <1>3, <1>u, <2>1 DEF Tick, TickDeleted, TickIdle, TickBlocks, elementVars
<1>4. CASE Elapse
  BY <1>4, <1>t DEF Elapse
<1>5. CASE UNCHANGED vars
  BY <1>5, <1>u DEF vars, elementVars
<1>6. QED BY <1>1, <1>2, <1>3, <1>4, <1>5 DEF Next

LEMMA NoPhantomStep == IInv /\ NoPhantomCallback /\ [Next]_vars => NoPhantomCallback'
<1> SUFFICES ASSUME IInv, NoPhantomCallback, [Next]_vars PROVE NoPhantomCallback'
  OBVIOUS
<1>u. CASE UNCHANGED outcome
  BY <1>u DEF NoPhantomCallback
<1>o. ASSUME NEW op \in OpId, NEW result \in {"ok", "defer", "retry", "thrown", "called"},
             outcome' = [outcome EXCEPT ![op] = result]
      PROVE  NoPhantomCallback'
  BY <1>o DEF NoPhantomCallback, IInv, TypeOK
<1>1. ASSUME NEW l \in Key, NEW op \in OpId, UpdateOp(l, op) PROVE NoPhantomCallback'
  BY <1>1, <1>o DEF UpdateOp, UpdateOk, UpdateDefer, UpdateRetry, UpdateExpired, UpdateIllegal, Issue
<1>2. ASSUME NEW i \in DOMAIN timer_queue, Tick(i) PROVE NoPhantomCallback'
  <2>1. CASE TickUpdate(i)
    <3>1. PICK l \in Key : l = timer_queue[i].key
      BY QueueFacts DEF IInv, TypeOK, Timer
    <3>2. op_id[l] \in OpId /\ outcome' = [outcome EXCEPT ![op_id[l]] = "called"]
      BY <2>1, <3>1, CalledBack
    <3>3. QED BY <3>2, <1>o
  <2>2. QED BY <1>2, <1>u, <2>1 DEF Tick, TickDeleted, TickIdle, TickBlocks, elementVars
<1>3. QED
  BY <1>1, <1>2, <1>u DEF Next, ReadOp, Elapse, vars, elementVars

LEMMA NotThrownStep ==
  IInv /\ NoUpdateThrown /\ [Next]_vars /\ [NoLateOp]_vars => NoUpdateThrown'
<1> SUFFICES ASSUME IInv, NoUpdateThrown, [Next]_vars, [NoLateOp]_vars PROVE NoUpdateThrown'
  OBVIOUS
<1>u. CASE UNCHANGED outcome
  BY <1>u DEF NoUpdateThrown
<1>o. ASSUME NEW op \in OpId, NEW result \in {"ok", "defer", "retry", "called"},
             outcome' = [outcome EXCEPT ![op] = result]
      PROVE  NoUpdateThrown'
  BY <1>o DEF NoUpdateThrown, IInv, TypeOK
<1>1. ASSUME NEW l \in Key, NEW op \in OpId, UpdateOp(l, op) PROVE NoUpdateThrown'
  <2>1. CASE UpdateExpired(l, op)
    <3>1. Overdue(l) /\ outcome' # outcome
      BY <2>1 DEF UpdateExpired, Issue, ManagerUpdateExpired, Overdue, IInv, TypeOK
    <3>2. QED BY <1>1, <3>1 DEF NoLateOp, vars, elementVars
  <2>2. CASE UpdateIllegal(l, op)
    BY <2>2 DEF UpdateIllegal, Issue, NoUpdateThrown, IInv, TypeOK
  <2>3. QED
    BY <1>1, <1>o, <2>1, <2>2 DEF UpdateOp, UpdateOk, UpdateDefer, UpdateRetry, Issue
<1>2. ASSUME NEW i \in DOMAIN timer_queue, Tick(i) PROVE NoUpdateThrown'
  <2>1. CASE TickUpdate(i)
    <3>1. PICK l \in Key : l = timer_queue[i].key
      BY QueueFacts DEF IInv, TypeOK, Timer
    <3>2. op_id[l] \in OpId /\ outcome' = [outcome EXCEPT ![op_id[l]] = "called"]
      BY <2>1, <3>1, CalledBack
    <3>3. QED BY <3>2, <1>o
  <2>2. QED BY <1>2, <1>u, <2>1 DEF Tick, TickDeleted, TickIdle, TickBlocks, elementVars
<1>3. QED
  BY <1>1, <1>2, <1>u DEF Next, ReadOp, Elapse, vars, elementVars

------------------------------------------------------------------------------
LEMMA InTimeInvariant == Spec /\ ReadsInTime => []IInv
<1>1. Init => Orphans = {}
  BY InitQueue DEF Init, Orphans
<1>2. TypeOK /\ LeaseTimed /\ Orphans = {} /\ [Next]_vars /\ [NoLateRead]_vars
        => (Orphans = {})'
  <2> SUFFICES ASSUME TypeOK, LeaseTimed, Orphans = {}, [Next]_vars, [NoLateRead]_vars
               PROVE  Orphans' = {}
    OBVIOUS
  <2>1. CASE NoLateRead
    BY <2>1, OrphansStep DEF NoLateRead
  <2>2. CASE UNCHANGED vars
    BY <2>2 DEF vars, managerVars, Orphans
  <2>3. QED BY <2>1, <2>2
<1>3. Spec /\ ReadsInTime => [](Orphans = {})
  BY <1>1, <1>2, TypeCorrect, LeaseTimedAlways, PTL DEF Spec, ReadsInTime
<1>4. TypeOK /\ LeaseTimed /\ LeaseCovered /\ PendingKept /\ Orphans = {} => IInv
  BY DEF IInv
<1>5. QED
  BY <1>3, <1>4, TypeCorrect, LeaseTimedAlways, LeaseCoveredAlways, PendingKeptAlways, PTL

(* Nobody who holds a guarantee reads an old value, unless a read came between the end of a
   lease and tick(); updates may come when they like, and tick() as late as it likes. *)
THEOREM LeaseHonouredUnlessLate == Spec /\ ReadsInTime => []LeaseHonoured
<1>1. Init => LeaseHonoured
  BY DEF Init, LeaseHonoured
<1>2. QED BY <1>1, HonouredStep, InTimeInvariant, PTL DEF Spec

(* Nor is a callback made for an operation that is not waiting for one. *)
THEOREM NoPhantomUnlessLate == Spec /\ ReadsInTime => []NoPhantomCallback
<1>1. Init => NoPhantomCallback
  BY DEF Init, NoPhantomCallback
<1>2. QED BY <1>1, NoPhantomStep, InTimeInvariant, PTL DEF Spec

(* A caller that runs tick() before each operation is never late. *)
LEMMA PromptInTime == TickFirst => (Spec => OpsInTime /\ ReadsInTime)
<1> SUFFICES ASSUME TickFirst PROVE Spec => OpsInTime /\ ReadsInTime
  OBVIOUS
<1>1. TypeOK /\ LeaseTimed => NoLateOp
  <2> SUFFICES ASSUME TypeOK, LeaseTimed, NEW k \in Key,
                      ReadOp(k) \/ (\E op \in OpId : UpdateOp(k, op)), Overdue(k)
               PROVE  FALSE
    BY DEF NoLateOp
  <2>1. Ready
    BY DEF ReadOp, UpdateOp, UpdateOk, UpdateDefer, UpdateRetry, UpdateExpired, UpdateIllegal,
           Issue
  <2>2. OwnTimer(k)
    BY <2>1, LeaseTimedIsOwn DEF OwnTimers, Ready
  <2>3. QED BY <2>1, <2>2, States, ReadyAhead DEF Overdue, TypeOK
<1>2. NoLateOp => NoLateRead
  BY DEF NoLateOp, NoLateRead
<1>3. QED
  BY <1>1, <1>2, TypeCorrect, LeaseTimedAlways, PTL DEF Spec, OpsInTime, ReadsInTime

(* With tick() before each operation, then, nobody who holds a guarantee reads an old value. *)
THEOREM LeaseHonouredWhenPrompt == TickFirst => (Spec => []LeaseHonoured)
BY PromptInTime, LeaseHonouredUnlessLate, PTL

(* Then no callback is made for an operation that is not waiting for one. *)
THEOREM NoPhantomWhenPrompt == TickFirst => (Spec => []NoPhantomCallback)
BY PromptInTime, NoPhantomUnlessLate, PTL

(* Then "timer is expire,should not run here" is right: that line is never reached. *)
THEOREM NotThrownWhenPrompt == TickFirst => (Spec => []NoUpdateThrown)
<1>1. Init => NoUpdateThrown
  BY DEF Init, NoUpdateThrown
<1>2. Spec /\ OpsInTime /\ ReadsInTime => []NoUpdateThrown
  BY <1>1, NotThrownStep, InTimeInvariant, PTL DEF Spec, OpsInTime
<1>3. QED BY <1>2, PromptInTime, PTL

------------------------------------------------------------------------------
(* The data center implements LeasedStore: every step is a step of the abstract store or changes
   nothing there. *)

(* An element in map_ has a value, and whoever reads it before the deadline of its lease is
   told to rely on it until then. *)
Held ==
  \A k \in Key :
    /\ k \in map => value[k] \in OpId
    /\ current_state[k] # Idle =>
         k \in map /\ (~blocked => lease[k][value[k]] >= expire_time[k])

HeldAt(k) ==
  /\ k \in map => value[k] \in OpId
  /\ current_state[k] # Idle =>
       k \in map /\ (~blocked => lease[k][value[k]] >= expire_time[k])

LEMMA HeldIsHeldAt == Held <=> \A k \in Key : HeldAt(k)
BY DEF Held, HeldAt

(* A key whose manager and element a step leaves alone. *)
LEMMA HeldKept ==
  ASSUME NEW k \in Key, HeldAt(k), blocked' = blocked,
         k \in map' => k \in map, k \in map => k \in map',
         current_state'[k] = current_state[k], expire_time'[k] = expire_time[k],
         value'[k] = value[k], lease'[k][value[k]] = lease[k][value[k]]
  PROVE  HeldAt(k)'
BY DEF HeldAt

(* What a lease of full length leaves in the manager of k. *)
LEMMA EnteredFacts ==
  ASSUME TypeOK, NEW k \in Key, NEW q, Rest(k, q), EnterGuaranteed(k, q)
  PROVE  /\ current_state' = [current_state EXCEPT ![k] = Guaranteed]
         /\ expire_time' = [expire_time EXCEPT ![k] = Lease]
<1>1. Lease \in Int /\ Idle \in {Idle, Guaranteed}
  BY LeaseAssumption
<1>2. PICK i \in TimerId \ DOMAIN timer_queue : Started(k, Idle, Lease, q, i)
  BY <1>1, StartExpireFacts DEF EnterGuaranteed, Rest
<1>3. QED BY <1>2 DEF Started, EnterGuaranteed

(* A lease of full length starts on the value v of k, and its holder is told so. *)
LEMMA HeldGranted ==
  ASSUME TypeOK, LeaseCovered, Held, NEW k \in Key, NEW v \in OpId, NEW q, Rest(k, q),
         EnterGuaranteed(k, q), Promise(k, v, Lease), value' = [value EXCEPT ![k] = v],
         map' = map \cup {k}, blocked' = blocked
  PROVE  Held'
<1>1. /\ current_state' = [current_state EXCEPT ![k] = Guaranteed]
      /\ expire_time' = [expire_time EXCEPT ![k] = Lease]
  BY EnteredFacts
<1>2. v \in Value /\ Lease \in Nat /\ lease[k][v] \in Nat
  BY LeaseAssumption DEF Value, TypeOK
<1>3. lease'[k][v] >= Lease
  BY <1>2, PromiseFacts DEF TypeOK
<1>4. value'[k] = v /\ expire_time'[k] = Lease
  BY <1>1 DEF TypeOK
<1>5. HeldAt(k)'
  BY <1>3, <1>4 DEF HeldAt
<1>6. ASSUME NEW l \in Key \ {k} PROVE HeldAt(l)'
  <2>1. value[l] \in Value
    BY DEF TypeOK
  <2>2. /\ current_state'[l] = current_state[l]
        /\ expire_time'[l] = expire_time[l]
        /\ value'[l] = value[l]
        /\ lease'[l][value[l]] = lease[l][value[l]]
    BY <1>1, <1>2, <1>6, <2>1, PromiseFacts DEF TypeOK
  <2>3. HeldAt(l)
    BY HeldIsHeldAt
  <2>4. QED BY <1>6, <2>2, <2>3, HeldKept
<1>7. QED BY <1>5, <1>6, HeldIsHeldAt DEF Held, HeldAt

LEMMA HeldStep == IInv /\ Held /\ [Next]_vars => Held'
<1> SUFFICES ASSUME IInv, Held, [Next]_vars PROVE Held'
  OBVIOUS
<1>t. TypeOK /\ LeaseCovered /\ Lease \in Nat
  BY LeaseAssumption DEF IInv
<1>u. ASSUME UNCHANGED <<current_state, expire_time, value, lease, blocked>>,
             \A k \in Key : k \in map' => k \in map \/ current_state[k] # Idle,
             map \subseteq map'
      PROVE  Held'
  BY <1>u DEF Held
<1>1. ASSUME NEW k \in Key, ReadOp(k) PROVE Held'
  <2>1. /\ k \in map /\ ManagerRead(k, ReadId)
        /\ Promise(k, value[k], ReadExpire(k))
        /\ UNCHANGED <<blocked, map, value>>
        /\ value[k] \in OpId
    BY <1>1 DEF ReadOp, Held
  <2>2. CASE current_state[k] = UpdateProtected
    <3>1. UNCHANGED <<current_state, expire_time>> /\ ReadExpire(k) = 0
      BY <2>1, <2>2 DEF ManagerRead, managerVars, ReadExpire, UpdateProtected, Idle, Guaranteed
    <3>2. \A l \in Key, w \in Value : lease'[l][w] = lease[l][w]
      BY <2>1, <3>1, <1>t, PromiseFacts DEF TypeOK
    <3>3. \A l \in Key : value[l] \in Value
      BY <1>t DEF TypeOK
    <3>4. QED BY <2>1, <3>1, <3>2, <3>3 DEF Held
  <2>3. CASE current_state[k] # UpdateProtected
    <3>1. EnterGuaranteed(k, timer_queue) /\ ReadExpire(k) = Lease
      BY <2>1, <2>3 DEF ManagerRead, ReadExpire
    <3>2. value' = [value EXCEPT ![k] = value[k]] /\ map' = map \cup {k}
      BY <2>1, <1>t DEF TypeOK
    <3>3. Rest(k, timer_queue)
      BY <1>t, WholeRest DEF TypeOK
    <3>4. QED BY <1>t, <2>1, <3>1, <3>2, <3>3, HeldGranted
  <2>4. QED BY <2>2, <2>3
<1>2. ASSUME NEW k \in Key, NEW op \in OpId, UpdateOp(k, op) PROVE Held'
  <2>1. CASE UpdateOk(k, op)
    <3>1. Rest(k, timer_queue)
      BY <1>t, WholeRest DEF TypeOK
    <3>2. QED BY <1>t, <2>1, <3>1, HeldGranted DEF UpdateOk, Issue, ManagerUpdateOk
  <2>2. CASE UpdateDefer(k, op)
    <3>1. /\ current_state[k] = Guaranteed /\ k \in map /\ map' = map
          /\ StartExpire(k, Guaranteed, expire_time[k], timer_queue)
          /\ current_state' = [current_state EXCEPT ![k] = UpdateProtected]
          /\ UNCHANGED <<blocked, value, lease>>
      BY <2>2 DEF UpdateDefer, Issue, ManagerUpdateDefer, EnterUpdateProtected, Held, Idle, Guaranteed
    <3>2. PICK i \in TimerId \ DOMAIN timer_queue :
            Started(k, Guaranteed, expire_time[k], timer_queue, i)
      BY <1>t, <3>1, StartExpireFacts DEF TypeOK
    <3>3. expire_time' = expire_time
      BY <1>t, <3>2 DEF Started, TypeOK
    <3>4. \A l \in Key : current_state'[l] # Idle => current_state[l] # Idle
      BY <1>t, <3>1 DEF TypeOK, Idle, Guaranteed, UpdateProtected
    <3>5. QED BY <3>1, <3>3, <3>4 DEF Held
  <2>3. CASE UpdateRetry(k, op)
    BY <2>3, <1>u DEF UpdateRetry, Issue, managerVars, Idle, UpdateProtected
  <2>4. CASE UpdateExpired(k, op)
    BY <2>4, <1>u DEF UpdateExpired, Issue, ManagerUpdateExpired, Idle, Guaranteed
  <2>5. CASE UpdateIllegal(k, op)
    BY <2>5, <1>u DEF UpdateIllegal, Issue, managerVars
  <2>6. QED BY <1>2, <2>1, <2>2, <2>3, <2>4, <2>5 DEF UpdateOp
<1>3. ASSUME NEW i \in DOMAIN timer_queue, Tick(i) PROVE Held'
  <2>k. PICK k \in Key : k = timer_queue[i].key
    BY <1>t, QueueFacts DEF TypeOK, Timer
  <2>1. CASE TickDeleted(i)
    BY <2>1, <1>u DEF TickDeleted, ManagerTickDeleted, elementVars
  <2>2. CASE TickIdle(i)
    <3>1. /\ current_state' = [current_state EXCEPT ![k] = Idle]
          /\ expire_time' = [expire_time EXCEPT ![k] = 0]
          /\ UNCHANGED <<blocked, map, value, lease>>
      BY <2>2, <2>k DEF TickIdle, ManagerTickIdle, EnterIdle, elementVars
    <3>2. \A l \in Key : current_state'[l] # Idle =>
            current_state[l] # Idle /\ expire_time'[l] = expire_time[l]
      BY <1>t, <3>1 DEF TypeOK
    <3>3. QED BY <3>1, <3>2 DEF Held
  <2>3. CASE TickUpdate(i)
    <3>1. /\ current_state[k] = UpdateProtected
          /\ op_id[k] \in OpId
          /\ value' = [value EXCEPT ![k] = op_id[k]]
          /\ Promise(k, op_id[k], Lease)
      BY <2>3, <2>k, CalledBack
    <3>2. EnterGuaranteed(k, PopTimer(timer_queue, i)) /\ UNCHANGED <<blocked, map>>
      BY <2>3, <2>k DEF TickUpdate, ManagerTickUpdate, CallHandle
    <3>3. map' = map \cup {k}
      BY <3>1, <3>2 DEF Held, Idle, UpdateProtected
    <3>4. Rest(k, PopTimer(timer_queue, i))
      BY <1>t, <2>k, PoppedRest DEF TypeOK
    <3>5. QED BY <1>t, <3>1, <3>2, <3>3, <3>4, HeldGranted
  <2>4. CASE TickBlocks(i)
    BY <2>4 DEF TickBlocks, ManagerTickBlocks, elementVars, Held
  <2>5. QED BY <1>3, <2>1, <2>2, <2>3, <2>4 DEF Tick
<1>4. ASSUME Elapse PROVE Held'
  <2>1. /\ UNCHANGED <<blocked, map, value, current_state>>
        /\ ~blocked
        /\ expire_time' = [k \in Key |-> IF current_state[k] = Idle THEN expire_time[k]
                                                              ELSE expire_time[k] - 1]
        /\ lease' = [k \in Key |-> [v \in Value |->
                      IF lease[k][v] > 0 THEN lease[k][v] - 1 ELSE 0]]
    BY <1>4 DEF Elapse, ManagerElapse
  <2>2. ASSUME NEW l \in Key PROVE HeldAt(l)'
    <3>1. /\ HeldAt(l) /\ value[l] \in Value
          /\ lease[l][value[l]] \in Nat /\ expire_time[l] \in Int
      BY <1>t, HeldIsHeldAt DEF TypeOK
    <3>2. lease'[l][value[l]] =
            IF lease[l][value[l]] > 0 THEN lease[l][value[l]] - 1 ELSE 0
      BY <2>1, <3>1
    <3>3. CASE current_state[l] # Idle
      <4>1. expire_time'[l] = expire_time[l] - 1 /\ lease[l][value[l]] >= expire_time[l]
        BY <2>1, <3>1, <3>3 DEF HeldAt
      <4>2. lease'[l][value[l]] >= expire_time'[l]
        BY <3>1, <3>2, <4>1
      <4>3. QED BY <2>1, <3>1, <4>2 DEF HeldAt
    <3>4. CASE current_state[l] = Idle
      BY <2>1, <3>1, <3>4 DEF HeldAt
    <3>5. QED BY <3>3, <3>4
  <2>3. QED BY <2>2, HeldIsHeldAt DEF Held, HeldAt
<1>5. CASE UNCHANGED vars
  BY <1>5, <1>u DEF vars, managerVars, elementVars
<1>6. QED BY <1>1, <1>2, <1>3, <1>4, <1>5 DEF Next

------------------------------------------------------------------------------
(* Facts about the mapping. *)

LEMMA PromiseFull ==
  ASSUME TypeOK, LeaseCovered, NEW k \in Key, NEW v \in Value, Promise(k, v, Lease)
  PROVE  Store!Grant(k, v)
<1>1. lease[k][v] \in Nat /\ lease[k][v] <= Lease /\ Lease \in Nat
  BY LeaseAssumption DEF TypeOK, LeaseCovered
<1>2. (IF Lease > lease[k][v] THEN Lease ELSE lease[k][v]) = Lease
  BY <1>1
<1>3. QED BY <1>2 DEF Promise, Store!Grant

LEMMA WaitingKept ==
  ASSUME TypeOK, NEW k \in Key, NEW state \in State \ {UpdateProtected},
         current_state[k] # UpdateProtected, current_state' = [current_state EXCEPT ![k] = state],
         \A l \in Key \ {k} : op_id'[l] = op_id[l]
  PROVE  Waiting' = Waiting
<1>1. ASSUME NEW l \in Key
      PROVE  (IF current_state'[l] = UpdateProtected THEN op_id'[l] ELSE Empty)
               = (IF current_state[l] = UpdateProtected THEN op_id[l] ELSE Empty)
  BY DEF TypeOK
<1>2. QED BY <1>1 DEF Waiting

(* With a lease to honour, an element that is not idle is leased, and an idle one is not. *)
LEMMA LeasedFacts ==
  ASSUME IInv, Held, ~blocked, NEW k \in Key
  PROVE  /\ current_state[k] = Idle => ~Store!Leased(k)
         /\ current_state[k] # Idle /\ expire_time[k] > 0 => Store!Leased(k)
<1>1. ASSUME current_state[k] = Idle PROVE ~Store!Leased(k)
  <2>1. \A v \in Value : lease[k][v] = 0
    BY <1>1, IdleUnleased DEF IInv
  <2>2. QED BY <2>1 DEF Store!Leased, Store!Value, Value
<1>2. ASSUME current_state[k] # Idle, expire_time[k] > 0 PROVE Store!Leased(k)
  <2>1. value[k] \in Value /\ lease[k][value[k]] \in Nat /\ expire_time[k] \in Int
    BY DEF IInv, TypeOK
  <2>2. lease[k][value[k]] >= expire_time[k]
    BY <1>2 DEF Held
  <2>3. lease[k][value[k]] > 0
    BY <1>2, <2>1, <2>2
  <2>4. QED BY <2>1, <2>3 DEF Store!Leased, Store!Value, Value
<1>3. QED BY <1>1, <1>2

(* The callback of a lease that ends meets no update that waits. *)
LEMMA LeaseEnds ==
  ASSUME IInv, NEW i \in DOMAIN timer_queue, TickIdle(i), NEW k \in Key,
         k = timer_queue[i].key
  PROVE  current_state[k] # UpdateProtected
<1>1. ~blocked /\ timer_queue[i].repeat = 1 /\ timer_queue[i].target = Idle
  BY DEF TickIdle, TickTakes, ManagerTickIdle
<1>2. OwnTimer(k) /\ timer_id[k] = i
  BY <1>1, LeaseTimedIsOwn DEF OwnTimers, IInv, Orphans
<1>3. QED
  BY <1>1, <1>2 DEF OwnTimer, TargetOf, Idle, Guaranteed, UpdateProtected

------------------------------------------------------------------------------
LEMMA StoreStep ==
  IInv /\ Held /\ [Next]_vars /\ [NoLateOp]_vars => [Store!Next]_(Store!vars)
<1> SUFFICES ASSUME IInv, Held, [Next]_vars, [NoLateOp]_vars
             PROVE  Store!Next \/ UNCHANGED <<value, Waiting, lease, outcome>>
  BY DEF Store!vars
<1>t. TypeOK /\ LeaseTimed /\ LeaseCovered /\ Lease \in Nat
  BY LeaseAssumption DEF IInv
<1>s. /\ Guaranteed # UpdateProtected /\ Idle # UpdateProtected /\ Guaranteed # Idle
      /\ Guaranteed \in State /\ Idle \in State
  BY DEF Guaranteed, Idle, UpdateProtected, State
<1>w. \A k \in Key : Waiting[k] = IF current_state[k] = UpdateProtected THEN op_id[k] ELSE Empty
  BY DEF Waiting
<1>e. ASSUME NEW k \in Key, current_state[k] # UpdateProtected PROVE Waiting[k] = Empty
  BY <1>e, <1>w
<1>p. ASSUME NEW k \in Key, current_state[k] = UpdateProtected
      PROVE  Waiting[k] = op_id[k] /\ op_id[k] \in OpId /\ Waiting[k] # Empty
  BY <1>p, <1>w, EmptyAssumption DEF IInv, PendingKept
<1>u. ASSUME UNCHANGED <<current_state, op_id>> PROVE Waiting' = Waiting
  BY <1>u DEF Waiting
<1>1. ASSUME NEW k \in Key, ReadOp(k)
      PROVE  Store!Next \/ UNCHANGED <<value, Waiting, lease, outcome>>
  <2>1. /\ k \in map /\ ManagerRead(k, ReadId)
        /\ Promise(k, value[k], ReadExpire(k))
        /\ UNCHANGED <<value, outcome>>
        /\ value[k] \in OpId
    BY <1>1 DEF ReadOp, Held
  <2>2. CASE current_state[k] = UpdateProtected
    <3>1. UNCHANGED <<current_state, op_id>> /\ ReadExpire(k) = 0
      BY <2>1, <2>2, <1>s DEF ManagerRead, managerVars, ReadExpire
    <3>2. lease[k][value[k]] \in Nat /\ ~(0 > lease[k][value[k]])
      BY <1>t DEF TypeOK
    <3>3. lease' = lease
      BY <2>1, <3>1, <3>2, <1>t DEF Promise, TypeOK
    <3>4. QED BY <2>1, <3>1, <3>3, <1>u
  <2>3. CASE current_state[k] # UpdateProtected
    <3>1. /\ current_state' = [current_state EXCEPT ![k] = Guaranteed]
          /\ ReadExpire(k) = Lease
          /\ op_id' = op_id \/ op_id' = [op_id EXCEPT ![k] = ReadId]
      BY <2>1, <2>3 DEF ManagerRead, ReadExpire, EnterGuaranteed
    <3>2. Waiting' = Waiting
      BY <2>3, <3>1, <1>t, <1>s, WaitingKept DEF TypeOK
    <3>3. Store!Grant(k, value[k])
      BY <2>1, <3>1, <1>t, PromiseFull DEF Value
    <3>4. Store!Read(k)
      BY <2>1, <2>3, <3>2, <3>3, <1>e, EmptyAssumption DEF Store!Read
    <3>5. QED BY <3>4 DEF Store!Next
  <2>4. QED BY <2>2, <2>3
<1>2. ASSUME NEW k \in Key, NEW op \in OpId, UpdateOp(k, op) PROVE Store!Next
  <2>0. ~blocked /\ outcome' # outcome
    BY <1>2, <1>t DEF UpdateOp, UpdateOk, UpdateDefer, UpdateRetry, UpdateExpired, UpdateIllegal,
                Issue, Ready, TypeOK
  <2>f. /\ current_state[k] = Idle => ~Store!Leased(k)
        /\ current_state[k] = Guaranteed => expire_time[k] > 0 /\ Store!Leased(k)
    <3>1. ~Overdue(k)
      BY <1>2, <2>0 DEF NoLateOp, vars, elementVars
    <3>2. QED BY <2>0, <3>1, <1>t, <1>s, LeasedFacts DEF Overdue, TypeOK
  <2>1. CASE UpdateOk(k, op)
    <3>1. /\ outcome[op] = "none" /\ outcome' = [outcome EXCEPT ![op] = "ok"]
          /\ current_state[k] = Idle
          /\ current_state' = [current_state EXCEPT ![k] = Guaranteed]
          /\ op_id' = op_id
          /\ value' = [value EXCEPT ![k] = op]
          /\ Promise(k, op, Lease)
      BY <2>1 DEF UpdateOk, Issue, ManagerUpdateOk, EnterGuaranteed
    <3>2. Waiting' = Waiting
      BY <3>1, <1>t, <1>s, WaitingKept
    <3>3. Store!Grant(k, op)
      BY <3>1, <1>t, PromiseFull DEF Value
    <3>4. Store!Write(k, op)
      BY <2>f, <3>1, <3>2, <3>3, <1>e, <1>s DEF Store!Write, Store!Told
    <3>5. QED BY <3>4 DEF Store!Next
  <2>2. CASE UpdateDefer(k, op)
    <3>1. /\ outcome[op] = "none" /\ outcome' = [outcome EXCEPT ![op] = "defer"]
          /\ current_state[k] = Guaranteed
          /\ current_state' = [current_state EXCEPT ![k] = UpdateProtected]
          /\ op_id' = [op_id EXCEPT ![k] = op]
          /\ UNCHANGED <<value, lease>>
      BY <2>2 DEF UpdateDefer, Issue, ManagerUpdateDefer, EnterUpdateProtected
    <3>2. Waiting' = [Waiting EXCEPT ![k] = op]
      BY <3>1, <1>t, <1>s DEF TypeOK, Waiting
    <3>3. Store!Accept(k, op)
      BY <2>f, <3>1, <3>2, <1>e, <1>s DEF Store!Accept, Store!Told
    <3>4. QED BY <3>3 DEF Store!Next
  <2>3. CASE UpdateRetry(k, op)
    <3>1. /\ outcome[op] = "none" /\ outcome' = [outcome EXCEPT ![op] = "retry"]
          /\ current_state[k] = UpdateProtected
          /\ UNCHANGED <<current_state, op_id, value, lease>>
      BY <2>3 DEF UpdateRetry, Issue, managerVars
    <3>2. Store!TurnAway(k, op)
      BY <3>1, <1>p, <1>u DEF Store!TurnAway, Store!Told
    <3>3. QED BY <3>2 DEF Store!Next
  <2>4. CASE UpdateExpired(k, op)
    BY <2>4, <2>f, <1>t, <1>s DEF UpdateExpired, ManagerUpdateExpired, TypeOK
  <2>5. CASE UpdateIllegal(k, op)
    <3>1. /\ outcome[op] = "none" /\ outcome' = [outcome EXCEPT ![op] = "thrown"]
          /\ current_state[k] # Idle
          /\ UNCHANGED <<current_state, op_id, value, lease>>
      BY <2>5 DEF UpdateIllegal, Issue, managerVars
    <3>2. Store!Refuse(k, op)
      BY <2>f, <3>1, <1>p, <1>u, <1>t, States DEF TypeOK, Store!Refuse, Store!Told
    <3>3. QED BY <3>2 DEF Store!Next
  <2>6. QED BY <1>2, <2>1, <2>2, <2>3, <2>4, <2>5 DEF UpdateOp
<1>3. ASSUME NEW i \in DOMAIN timer_queue, Tick(i)
      PROVE  Store!Next \/ UNCHANGED <<value, Waiting, lease, outcome>>
  <2>k. PICK k \in Key : k = timer_queue[i].key
    BY <1>t, QueueFacts DEF TypeOK, Timer
  <2>1. CASE TickDeleted(i)
    BY <2>1, <1>u DEF TickDeleted, ManagerTickDeleted, elementVars
  <2>2. CASE TickIdle(i)
    <3>1. /\ current_state' = [current_state EXCEPT ![k] = Idle]
          /\ UNCHANGED <<op_id, value, lease, outcome>>
      BY <2>2, <2>k DEF TickIdle, ManagerTickIdle, EnterIdle, elementVars
    <3>2. Waiting' = Waiting
      BY <2>2, <2>k, <3>1, <1>t, <1>s, LeaseEnds, WaitingKept
    <3>3. QED BY <3>1, <3>2
  <2>3. CASE TickUpdate(i)
    <3>1. /\ current_state[k] = UpdateProtected
          /\ op_id[k] \in OpId
          /\ \A v \in Value : lease[k][v] = 0
          /\ current_state' = [current_state EXCEPT ![k] = Guaranteed]
          /\ op_id' = op_id
          /\ value' = [value EXCEPT ![k] = op_id[k]]
          /\ outcome' = [outcome EXCEPT ![op_id[k]] = "called"]
          /\ Promise(k, op_id[k], Lease)
      BY <2>3, <2>k, CalledBack
    <3>2. ~Store!Leased(k)
      BY <3>1 DEF Store!Leased, Store!Value, Value
    <3>3. Waiting' = [Waiting EXCEPT ![k] = Empty]
      BY <3>1, <1>t, <1>s DEF TypeOK, Waiting
    <3>4. Store!Grant(k, op_id[k])
      BY <3>1, <1>t, PromiseFull DEF Value
    <3>5. Waiting[k] = op_id[k] /\ Waiting[k] # Empty
      BY <3>1, <1>p
    <3>6. Store!Commit(k)
      BY <3>1, <3>2, <3>3, <3>4, <3>5 DEF Store!Commit, Store!Told
    <3>7. QED BY <3>6 DEF Store!Next
  <2>4. CASE TickBlocks(i)
    BY <2>4, <1>u DEF TickBlocks, ManagerTickBlocks, elementVars
  <2>5. QED BY <1>3, <2>1, <2>2, <2>3, <2>4 DEF Tick
<1>4. ASSUME Elapse PROVE Store!Next
  <2>1. Store!Elapse
    BY <1>4, <1>u DEF Elapse, ManagerElapse, Store!Elapse, Store!Value, Value
  <2>2. QED BY <2>1 DEF Store!Next
<1>5. CASE UNCHANGED vars
  BY <1>5, <1>u DEF vars, managerVars, elementVars
<1>6. QED BY <1>1, <1>2, <1>3, <1>4, <1>5 DEF Next

(* The data center implements the leased store step by step, unless an operation comes between
   the end of a lease and tick(); that an accepted update is made in the end is left to TLC. *)
THEOREM StoreImplementedUnlessLate == Spec /\ OpsInTime => Store!Safety
<1>1. Init => Store!Init
  <2>1. Init => Waiting = [k \in Key |-> Empty]
    BY DEF Init, ManagerInit, Waiting, Idle, UpdateProtected
  <2>2. QED BY <2>1 DEF Init, Store!Init, Store!Value, Value
<1>2. Init => Held
  BY DEF Init, ManagerInit, Held
<1>3. OpsInTime => ReadsInTime
  <2>1. NoLateOp => NoLateRead
    BY DEF NoLateOp, NoLateRead
  <2>2. QED BY <2>1, PTL DEF OpsInTime, ReadsInTime
<1>4. Spec /\ OpsInTime => []Held
  BY <1>2, <1>3, HeldStep, InTimeInvariant, PTL DEF Spec
<1>5. QED
  BY <1>1, <1>3, <1>4, StoreStep, InTimeInvariant, PTL DEF Spec, OpsInTime, Store!Safety

(* So it does whenever tick() runs first. *)
THEOREM StoreImplemented == TickFirst => (Spec => Store!Safety)
BY PromptInTime, StoreImplementedUnlessLate, PTL
==============================================================================
