------------------------ MODULE CacheDataCenterProofs ------------------------
(***************************************************************************)
(* Proofs about CacheDataCenter.                                           *)
(***************************************************************************)
EXTENDS CacheDataCenter, CacheStateManagerProofs

(* What a step of the data center is to the managers. *)
LEMMA NextManages == [Next]_vars => ManagerActs \/ (Elapse /\ ManagerElapses)
<1> SUFFICES ASSUME [Next]_vars PROVE ManagerActs \/ (Elapse /\ ManagerElapses)
  OBVIOUS
<1>1. ASSUME NEW k \in Key, ReadOp(k) PROVE ManagerActs
  BY <1>1 DEF ReadOp, Ready, ManagerActs, ManagerHandles
<1>2. ASSUME NEW k \in Key, NEW op \in OpId, UpdateOp(k, op) PROVE ManagerActs
  BY <1>2 DEF UpdateOp, UpdateOk, UpdateDefer, UpdateRetry, UpdateExpired, UpdateIllegal, Issue,
              Ready, ManagerActs, ManagerHandles
<1>3. ASSUME NEW i \in DOMAIN timer_queue, Tick(i) PROVE ManagerActs
  BY <1>3 DEF Tick, TickDeleted, TickIdle, TickUpdate, TickBlocks, TickTakes, ManagerActs,
              ManagerTicks
<1>4. QED BY <1>1, <1>2, <1>3 DEF Next, Elapse, ManagerElapses, vars, ManagerActs

LEMMA ManagerInvariant == Spec => []ManagerTyped
<1>1. Init => ManagerTyped
  BY ManagerInitTyped DEF Init
<1>2. QED BY <1>1, NextManages, ManagerStepTyped, PTL DEF Spec

LEMMA PromiseType ==
  ASSUME lease \in [Key -> [Value -> Nat]], NEW k \in Key, NEW v, NEW ms \in Nat, Promise(k, v, ms)
  PROVE  lease' \in [Key -> [Value -> Nat]]
BY DEF Promise

(* The variables that are not the managers'. *)
ElementTyped ==
  /\ ticking \in BOOLEAN /\ blocked \in BOOLEAN
  /\ map \subseteq Key
  /\ value \in [Key -> Value]
  /\ temp_value \in [Key -> Value]
  /\ lease \in [Key -> [Value -> Nat]]
  /\ outcome \in [OpId \cup {ReadId} -> Outcome]

LEMMA ElementTypedStep == ManagerTyped /\ ElementTyped /\ [Next]_vars => ElementTyped'
<1> SUFFICES ASSUME ManagerTyped, ElementTyped, [Next]_vars PROVE ElementTyped'
  OBVIOUS
<1>0. Lease \in Nat /\ 0 \in Nat /\ OpId \subseteq Value
  BY LeaseAssumption DEF Value
<1>1. ASSUME NEW k \in Key, ReadOp(k) PROVE ElementTyped'
  <2>1. ReadExpire(k) \in Nat
    BY <1>0 DEF ReadExpire
  <2>2. QED BY <1>1, <2>1, PromiseType DEF ReadOp, ElementTyped
<1>2. ASSUME NEW k \in Key, NEW op \in OpId, UpdateOp(k, op) PROVE ElementTyped'
  <2>1. /\ ticking' \in BOOLEAN /\ blocked' \in BOOLEAN /\ map' \subseteq Key
        /\ outcome' \in [OpId \cup {ReadId} -> Outcome]
    BY <1>2 DEF UpdateOp, UpdateOk, UpdateDefer, UpdateRetry, UpdateExpired, UpdateIllegal, Issue,
                ElementTyped, Outcome
  <2>2. value' \in [Key -> Value] /\ temp_value' \in [Key -> Value]
    BY <1>0, <1>2 DEF UpdateOp, UpdateOk, UpdateDefer, UpdateRetry, UpdateExpired, UpdateIllegal,
                      ElementTyped
  <2>3. lease' \in [Key -> [Value -> Nat]]
    BY <1>0, <1>2, PromiseType
       DEF UpdateOp, UpdateOk, UpdateDefer, UpdateRetry, UpdateExpired, UpdateIllegal, ElementTyped
  <2>4. QED BY <2>1, <2>2, <2>3 DEF ElementTyped
<1>3. ASSUME NEW i \in DOMAIN timer_queue, Tick(i) PROVE ElementTyped'
  <2>1. PICK k \in Key : k = timer_queue[i].key
    BY QueueFacts DEF ManagerTyped, Timer
  <2>2. ASSUME TickContinues PROVE ticking' \in BOOLEAN
    BY <2>2, Zenon DEF TickContinues, FrontExpired
  <2>3. CASE UNCHANGED elementVars
    BY <1>3, <2>2, <2>3
       DEF Tick, TickDeleted, TickIdle, TickUpdate, TickBlocks, ManagerTickDeleted, ManagerTickIdle,
           ManagerTickUpdate, ManagerTickBlocks, elementVars, ElementTyped
  <2>4. CASE TickUpdate(i)
    <3>1. lease' \in [Key -> [Value -> Nat]]
      BY <1>0, <2>1, <2>4, PromiseType DEF TickUpdate, CallHandle, ElementTyped
    <3>2. QED
      BY <2>1, <2>2, <2>4, <3>1
         DEF TickUpdate, ManagerTickUpdate, CallHandle, ElementTyped, ManagerTyped, Value, Outcome
  <2>5. QED BY <1>3, <2>3, <2>4 DEF Tick, TickDeleted, TickIdle, TickBlocks
<1>4. QED BY <1>1, <1>2, <1>3 DEF Next, Elapse, vars, elementVars, ElementTyped

LEMMA ElementInvariant == Spec => [](ManagerTyped /\ ElementTyped)
<1>1. Init => ElementTyped
  <2> SUFFICES ASSUME Init PROVE ElementTyped
    OBVIOUS
  <2>1. ticking \in BOOLEAN /\ blocked \in BOOLEAN
    BY DEF Init, ManagerInit
  <2>2. lease \in [Key -> [Value -> Nat]]
    BY DEF Init
  <2>3. QED BY <2>1, <2>2 DEF Init, ElementTyped, Value, Outcome
<1>2. QED BY <1>1, ManagerInvariant, ElementTypedStep, PTL DEF Spec

LEMMA TypedFacts == ManagerTyped /\ ElementTyped => TypeOK
BY DEF ManagerTyped, ElementTyped, TypeOK

(* Every variable keeps its type. *)
THEOREM TypeCorrect == Spec => []TypeOK
BY ElementInvariant, TypedFacts, PTL

------------------------------------------------------------------------------
LEMMA LeaseTimedIsOwn == LeaseTimed <=> (~blocked => OwnTimers)
BY DEF LeaseTimed, OwnTimers, OwnTimer

(* No element is ever stuck in a lease: cache_state_manager.h keeps timer_id_, expire_time_
   and current_state_ in step with the heap, with any number of keys and timers. *)
THEOREM LeaseTimedAlways == Spec => []LeaseTimed
<1>1. Init => LeaseTimed
  BY DEF Init, ManagerInit, LeaseTimed
<1>2. ManagerTyped /\ LeaseTimed /\ [Next]_vars => LeaseTimed'
  <2>1. ManagerTyped /\ LeaseTimed /\ [Next]_vars => (~blocked => OwnTimers)'
    BY NextManages, OwnTimersStep, LeaseTimedIsOwn
  <2>2. QED BY <2>1 DEF LeaseTimed, OwnTimers, OwnTimer
<1>3. QED BY <1>1, <1>2, ManagerInvariant, PTL DEF Spec

------------------------------------------------------------------------------
(* What somebody relies on is sheltered by a timer. *)

Covered(k, v) == lease[k][v] = 0 \/ \E ms \in Ahead : lease[k][v] = ms /\ Shelters(k, ms)

LEMMA LeaseCoveredFacts == TypeOK /\ LeaseCovered => \A k \in Key, v \in Value : Covered(k, v)
<1> SUFFICES ASSUME TypeOK, LeaseCovered, NEW k \in Key, NEW v \in Value, lease[k][v] # 0
             PROVE  Covered(k, v)
  BY DEF Covered
<1>1. lease[k][v] \in Ahead
  BY LeaseAssumption DEF TypeOK, LeaseCovered, Ahead
<1>2. Shelters(k, lease[k][v])
  BY <1>1 DEF LeaseCovered, Shelters, Ahead
<1>3. QED BY <1>1, <1>2 DEF Covered

LEMMA PromiseFacts ==
  ASSUME lease \in [Key -> [Value -> Nat]], NEW k \in Key, NEW v, NEW ms \in Nat,
         Promise(k, v, ms), NEW l \in Key, NEW w \in Value
  PROVE  lease'[l][w] = IF l = k /\ w = v /\ ms > lease[k][v] THEN ms ELSE lease[l][w]
BY DEF Promise

(* A guarantee is old, or comes with a lease of full length. *)
LEMMA LeaseNews ==
  ASSUME ManagerTyped, ElementTyped, LeaseTimed, [Next]_vars, ~Elapse,
         NEW k \in Key, NEW v \in Value
  PROVE  lease'[k][v] \in {lease[k][v], 0} \/ (lease'[k][v] = Lease /\ Shelters(k, Lease)')
<1>0. Lease \in Nat /\ 0 \in Nat /\ (~blocked => OwnTimers)
  BY LeaseAssumption, LeaseTimedIsOwn
<1>1. ASSUME NEW l \in Key, ReadOp(l)
      PROVE  lease'[k][v] \in {lease[k][v], 0} \/ (lease'[k][v] = Lease /\ Shelters(k, Lease)')
  <2>1. ~blocked /\ ManagerRead(l, ReadId) /\ Promise(l, value[l], ReadExpire(l))
    BY <1>1 DEF ReadOp, Ready
  <2>2. CASE current_state[l] = UpdateProtected
    BY <1>0, <2>1, <2>2, PromiseFacts DEF ElementTyped, ReadExpire
  <2>3. CASE current_state[l] # UpdateProtected
    <3>1. EnterGuaranteed(l, timer_queue) /\ ReadExpire(l) = Lease
      BY <2>1, <2>3 DEF ManagerRead, ReadExpire
    <3>2. QED BY <1>0, <2>1, <3>1, PromiseFacts, EnterShelters DEF ElementTyped
  <2>4. QED BY <2>2, <2>3
<1>2. ASSUME NEW l \in Key, NEW op \in OpId, UpdateOp(l, op)
      PROVE  lease'[k][v] \in {lease[k][v], 0} \/ (lease'[k][v] = Lease /\ Shelters(k, Lease)')
  <2>1. CASE UpdateOk(l, op)
    <3>1. ~blocked /\ EnterGuaranteed(l, timer_queue) /\ Promise(l, op, Lease)
      BY <2>1 DEF UpdateOk, Issue, Ready, ManagerUpdateOk
    <3>2. QED BY <1>0, <3>1, PromiseFacts, EnterShelters DEF ElementTyped
  <2>2. QED BY <1>2, <2>1 DEF UpdateOp, UpdateDefer, UpdateRetry, UpdateExpired, UpdateIllegal
<1>3. ASSUME NEW i \in DOMAIN timer_queue, Tick(i)
      PROVE  lease'[k][v] \in {lease[k][v], 0} \/ (lease'[k][v] = Lease /\ Shelters(k, Lease)')
  <2>1. PICK l \in Key : l = timer_queue[i].key
    BY QueueFacts DEF ManagerTyped, Timer
  <2>2. CASE TickUpdate(i)
    <3>1. /\ ~blocked /\ timer_queue[i].left <= 0
          /\ EnterGuaranteed(l, PopTimer(timer_queue, i))
          /\ UNCHANGED lease \/ Promise(l, op_id[l], Lease)
      BY <2>1, <2>2 DEF TickUpdate, TickTakes, ManagerTickUpdate, CallHandle
    <3>2. QED BY <1>0, <2>1, <3>1, PromiseFacts, EnterShelters DEF ElementTyped
  <2>3. QED BY <1>3, <2>2 DEF Tick, TickDeleted, TickIdle, TickBlocks, elementVars
<1>4. QED BY <1>1, <1>2, <1>3 DEF Next, vars, elementVars

(* LeaseCovered is inductive. *)
LEMMA CoveredStep ==
  ManagerTyped /\ ElementTyped /\ LeaseTimed /\ LeaseCovered /\ [Next]_vars => LeaseCovered'
<1> SUFFICES ASSUME ManagerTyped, ElementTyped, LeaseTimed, LeaseCovered, [Next]_vars,
                    NEW k \in Key, NEW v \in Value
             PROVE  Covered(k, v)'
  BY LeaseAssumption DEF LeaseCovered, Covered, Shelters, Ahead
<1>1. Covered(k, v)
  BY TypedFacts, LeaseCoveredFacts
<1>2. CASE Elapse
  <2>1. lease'[k][v] = IF lease[k][v] > 0 THEN lease[k][v] - 1 ELSE 0
    BY <1>2 DEF Elapse
  <2>2. CASE lease[k][v] \in {0, 1}
    BY <2>1, <2>2 DEF Covered
  <2>3. ASSUME NEW ms \in Ahead, lease[k][v] = ms + 1, Shelters(k, ms + 1) PROVE Covered(k, v)'
    <3>1. lease'[k][v] = ms
      BY <2>1, <2>3, LeaseAssumption DEF Ahead
    <3>2. QED BY <1>2, <2>3, <3>1, ElapseShelters DEF Elapse, Covered
  <2>4. \A e \in Ahead : e = 1 \/ (e - 1 \in Ahead /\ e = (e - 1) + 1)
    BY LeaseAssumption DEF Ahead
  <2>5. QED BY <1>1, <2>2, <2>3, <2>4 DEF Covered
<1>3. CASE ~Elapse
  <2>1. ManagerActs /\ (~blocked => OwnTimers)
    BY <1>3, NextManages, LeaseTimedIsOwn
  <2>2. CASE lease'[k][v] = lease[k][v]
    BY <1>1, <2>1, <2>2, ShelterStep DEF Covered
  <2>3. QED BY <1>3, <2>2, LeaseNews, AheadTyped DEF Covered
<1>4. QED BY <1>2, <1>3

(* Every guarantee the cache gives out is covered by a timer, however late tick() runs. *)
THEOREM LeaseCoveredAlways == Spec => []LeaseCovered
<1>1. Init => LeaseCovered
  BY LeaseAssumption DEF Init, LeaseCovered
<1>2. QED BY <1>1, ElementInvariant, LeaseTimedAlways, CoveredStep, PTL DEF Spec

------------------------------------------------------------------------------
(* Without an orphan, an element that changes its value is under no guarantee. *)
LEMMA DueUnleased ==
  ASSUME TypeOK, LeaseCovered, Orphans = {}, NEW i \in DOMAIN timer_queue, TickTakes(i),
         timer_queue[i].repeat = 1, NEW k \in Key, k = timer_queue[i].key
  PROVE  \A v \in Value : lease[k][v] = 0
BY LeaseCoveredFacts, ShelterOrphaned DEF Covered, TypeOK, TickTakes

LEMMA IdleUnleased ==
  ASSUME TypeOK, LeaseTimed, LeaseCovered, Orphans = {}, ~blocked, NEW k \in Key,
         current_state[k] = Idle
  PROVE  \A v \in Value : lease[k][v] = 0
<1>1. timer_id[k] = NoTimer
  BY LeaseTimedIsOwn DEF OwnTimers, OwnTimer
<1>2. QED BY <1>1, LeaseCoveredFacts, ShelterOrphaned DEF Covered, TypeOK

LEMMA BrokenStep ==
  ASSUME TypeOK, LeaseTimed, LeaseCovered, [Next]_vars,
         NEW k \in Key, NEW v \in Value, lease[k][v] > 0, value[k] = v, value'[k] # v
  PROVE  Orphans # {}
<1> SUFFICES ASSUME Orphans = {} PROVE FALSE
  OBVIOUS
<1>0. lease[k][v] # 0
  BY DEF TypeOK
<1>1. ASSUME NEW l \in Key, NEW op \in OpId, UpdateOk(l, op) PROVE FALSE
  <2>1. ~blocked /\ current_state[l] = Idle /\ value' = [value EXCEPT ![l] = op]
    BY <1>1 DEF UpdateOk, Issue, Ready, ManagerUpdateOk
  <2>2. l = k
    BY <2>1 DEF TypeOK
  <2>3. QED BY <1>0, <2>1, <2>2, IdleUnleased
<1>2. ASSUME NEW i \in DOMAIN timer_queue, TickUpdate(i) PROVE FALSE
  <2>1. PICK l \in Key : l = timer_queue[i].key
    BY QueueFacts DEF TypeOK, Timer
  <2>2. /\ TickTakes(i) /\ timer_queue[i].repeat = 1
        /\ value' = [value EXCEPT ![l] = temp_value[l]]
    BY <1>2, <2>1 DEF TickUpdate, ManagerTickUpdate, CallHandle
  <2>3. l = k
    BY <2>2 DEF TypeOK
  <2>4. QED BY <1>0, <2>1, <2>2, <2>3, DueUnleased
<1>3. QED
  BY <1>1, <1>2
     DEF Next, ReadOp, UpdateOp, UpdateDefer, UpdateRetry, UpdateExpired, UpdateIllegal, Tick,
         TickDeleted, TickIdle, TickBlocks, Elapse, vars, elementVars

(* The only way to change a value somebody holds a lease on is a timer that stop_expire()
   left in the heap (cache_state_manager.h:166-171), whatever the keys, operations and
   delays. *)
THEOREM LeaseBrokenOnlyByOrphanAlways == Spec => LeaseBrokenOnlyByOrphan
<1>1. TypeOK /\ LeaseTimed /\ LeaseCovered /\ [Next]_vars =>
        [\A k \in Key, v \in Value :
           lease[k][v] > 0 /\ value[k] = v /\ value'[k] # v => Orphans # {}]_vars
  BY BrokenStep
<1>2. QED
  BY <1>1, TypeCorrect, LeaseTimedAlways, LeaseCoveredAlways, PTL
     DEF Spec, LeaseBrokenOnlyByOrphan

------------------------------------------------------------------------------
(* PendingKept is inductive by itself: it needs no timer. *)

Pending(k) ==
  /\ current_state[k] = UpdateProtected =>
       op_id[k] \in OpId /\ temp_value[k] = op_id[k] /\ outcome[op_id[k]] = "defer"
  /\ op_id[k] \in OpId =>
       outcome[op_id[k]] # "none" /\ \A l \in Key \ {k} : op_id[l] # op_id[k]

LEMMA PendingKeptIsPending == PendingKept <=> \A k \in Key : Pending(k)
BY DEF PendingKept, Pending

(* The update op gets its first outcome, and no manager takes its id. *)
LEMMA PendingIssued ==
  ASSUME TypeOK, PendingKept, NEW op \in OpId, outcome[op] = "none",
         NEW result \in Outcome \ {"none"}, outcome' = [outcome EXCEPT ![op] = result],
         UNCHANGED <<op_id, temp_value>>,
         \A l \in Key : current_state'[l] = UpdateProtected => current_state[l] = UpdateProtected
  PROVE  PendingKept'
<1>1. ASSUME NEW l \in Key PROVE Pending(l)'
  <2>1. Pending(l)
    BY PendingKeptIsPending
  <2>2. op_id[l] # op
    BY <2>1 DEF Pending
  <2>3. outcome'[op_id[l]] = outcome[op_id[l]]
    BY <2>2 DEF TypeOK
  <2>4. QED BY <2>1, <2>3 DEF Pending
<1>2. QED BY <1>1, PendingKeptIsPending DEF PendingKept, Pending

(* The manager of k takes the id of the new update op. *)
LEMMA PendingTaken ==
  ASSUME TypeOK, PendingKept, NEW k \in Key, NEW op \in OpId, outcome[op] = "none",
         NEW result \in Outcome \ {"none"}, outcome' = [outcome EXCEPT ![op] = result],
         op_id' = [op_id EXCEPT ![k] = op],
         \A l \in Key \ {k} : /\ current_state'[l] = current_state[l]
                              /\ temp_value'[l] = temp_value[l],
         current_state'[k] = UpdateProtected => temp_value'[k] = op /\ result = "defer"
  PROVE  PendingKept'
<1>1. ASSUME NEW l \in Key PROVE op_id[l] # op
  BY <1>1 DEF PendingKept
<1>2. /\ op_id'[k] = op
      /\ outcome'[op] = result
      /\ \A l \in Key \ {k} : op_id'[l] = op_id[l] /\ outcome'[op_id[l]] = outcome[op_id[l]]
  BY <1>1 DEF TypeOK
<1>3. Pending(k)'
  BY <1>1, <1>2 DEF Pending
<1>4. ASSUME NEW l \in Key \ {k} PROVE Pending(l)'
  <2>1. Pending(l)
    BY PendingKeptIsPending
  <2>2. \A m \in Key \ {l} : op_id'[l] \in OpId => op_id'[m] # op_id'[l]
    BY <1>1, <1>2, <2>1 DEF Pending
  <2>3. QED BY <1>2, <2>1, <2>2 DEF Pending
<1>5. QED BY <1>3, <1>4, PendingKeptIsPending DEF PendingKept, Pending

LEMMA PendingStep == TypeOK /\ PendingKept /\ [Next]_vars => PendingKept'
<1> SUFFICES ASSUME TypeOK, PendingKept, [Next]_vars PROVE PendingKept'
  OBVIOUS
<1>u. ASSUME UNCHANGED <<current_state, op_id, temp_value, outcome>> PROVE PendingKept'
  BY <1>u DEF PendingKept
<1>s. /\ Guaranteed # UpdateProtected /\ Idle # UpdateProtected
      /\ {"ok", "defer", "retry", "thrown"} \subseteq Outcome \ {"none"}
  BY DEF Guaranteed, Idle, UpdateProtected, Outcome
<1>1. ASSUME NEW k \in Key, ReadOp(k) PROVE PendingKept'
  <2>1. ManagerRead(k, ReadId) /\ UNCHANGED <<temp_value, outcome>>
    BY <1>1 DEF ReadOp
  <2>2. CASE UNCHANGED <<op_id, current_state>>
    BY <2>1, <2>2, <1>u
  <2>3. CASE /\ current_state' = [current_state EXCEPT ![k] = Guaranteed]
             /\ UNCHANGED op_id \/ op_id' = [op_id EXCEPT ![k] = ReadId]
    <3>1. ASSUME NEW l \in Key PROVE Pending(l)'
      <4>1. Pending(l)
        BY PendingKeptIsPending
      <4>2. /\ op_id'[l] = op_id[l] \/ (op_id'[l] = ReadId /\ l = k)
            /\ \A m \in Key : op_id'[m] = op_id[m] \/ op_id'[m] = ReadId
            /\ current_state'[l] = UpdateProtected => l # k /\ current_state[l] = UpdateProtected
        BY <2>3, <1>s DEF TypeOK
      <4>3. QED BY <2>1, <4>1, <4>2, ReadIdAssumption DEF Pending
    <3>2. QED BY <3>1, PendingKeptIsPending DEF PendingKept, Pending
  <2>4. QED BY <2>1, <2>2, <2>3 DEF ManagerRead, EnterGuaranteed, managerVars
<1>2. ASSUME NEW k \in Key, NEW op \in OpId, UpdateOp(k, op) PROVE PendingKept'
  <2>1. CASE UpdateOk(k, op)
    <3>1. /\ outcome[op] = "none" /\ outcome' = [outcome EXCEPT ![op] = "ok"]
          /\ UNCHANGED <<op_id, temp_value>>
          /\ current_state' = [current_state EXCEPT ![k] = Guaranteed]
      BY <2>1 DEF UpdateOk, Issue, ManagerUpdateOk, EnterGuaranteed
    <3>2. \A l \in Key : current_state'[l] = UpdateProtected => current_state[l] = UpdateProtected
      BY <3>1, <1>s DEF TypeOK
    <3>3. QED BY <3>1, <3>2, <1>s, PendingIssued
  <2>2. CASE UpdateDefer(k, op)
    <3>1. /\ outcome[op] = "none" /\ outcome' = [outcome EXCEPT ![op] = "defer"]
          /\ op_id' = [op_id EXCEPT ![k] = op]
          /\ temp_value' = [temp_value EXCEPT ![k] = op]
          /\ current_state' = [current_state EXCEPT ![k] = UpdateProtected]
      BY <2>2 DEF UpdateDefer, Issue, ManagerUpdateDefer, EnterUpdateProtected
    <3>2. /\ temp_value'[k] = op
          /\ \A l \in Key \ {k} : /\ current_state'[l] = current_state[l]
                                  /\ temp_value'[l] = temp_value[l]
      BY <3>1 DEF TypeOK
    <3>3. QED BY <3>1, <3>2, <1>s, PendingTaken
  <2>3. CASE UpdateRetry(k, op)
    BY <2>3, <1>s, PendingIssued DEF UpdateRetry, Issue, managerVars
  <2>4. CASE UpdateExpired(k, op)
    <3>1. /\ outcome[op] = "none" /\ outcome' = [outcome EXCEPT ![op] = "thrown"]
          /\ op_id' = [op_id EXCEPT ![k] = op]
          /\ UNCHANGED <<temp_value, current_state>>
          /\ current_state[k] # UpdateProtected
      BY <2>4, <1>s DEF UpdateExpired, Issue, ManagerUpdateExpired
    <3>2. QED BY <3>1, <1>s, PendingTaken
  <2>5. CASE UpdateIllegal(k, op)
    BY <2>5, <1>s, PendingIssued DEF UpdateIllegal, Issue, managerVars
  <2>6. QED BY <1>2, <2>1, <2>2, <2>3, <2>4, <2>5 DEF UpdateOp
<1>3. ASSUME NEW i \in DOMAIN timer_queue, Tick(i) PROVE PendingKept'
  <2>k. PICK k \in Key : k = timer_queue[i].key
    BY QueueFacts DEF TypeOK, Timer
  <2>1. CASE TickDeleted(i)
    BY <2>1, <1>u DEF TickDeleted, ManagerTickDeleted, elementVars
  <2>2. CASE TickIdle(i)
    <3>1. /\ current_state' = [current_state EXCEPT ![k] = Idle]
          /\ UNCHANGED <<op_id, temp_value, outcome>>
      BY <2>2, <2>k DEF TickIdle, ManagerTickIdle, EnterIdle, elementVars
    <3>2. ASSUME NEW l \in Key PROVE Pending(l)'
      <4>1. current_state'[l] = UpdateProtected => current_state[l] = UpdateProtected
        BY <3>1, <1>s DEF TypeOK
      <4>2. QED BY <3>1, <4>1, PendingKeptIsPending DEF Pending
    <3>3. QED BY <3>2, PendingKeptIsPending DEF PendingKept, Pending
  <2>3. CASE TickUpdate(i)
    <3>1. /\ current_state' = [current_state EXCEPT ![k] = Guaranteed]
          /\ UNCHANGED op_id
          /\ temp_value' = [temp_value EXCEPT ![k] = Empty]
          /\ \/ outcome' = [outcome EXCEPT ![op_id[k]] = "called"]
             \/ outcome' = [outcome EXCEPT ![op_id[k]] = "phantom"]
      BY <2>3, <2>k DEF TickUpdate, ManagerTickUpdate, EnterGuaranteed, CallHandle
    <3>2. Pending(k)'
      <4>1. current_state'[k] # UpdateProtected /\ outcome'[op_id[k]] \in {"called", "phantom"}
        BY <3>1, <1>s DEF TypeOK
      <4>2. QED BY <3>1, <4>1, PendingKeptIsPending DEF Pending
    <3>3. ASSUME NEW l \in Key \ {k} PROVE Pending(l)'
      <4>1. Pending(l) /\ current_state'[l] = current_state[l] /\ temp_value'[l] = temp_value[l]
        BY <3>1, PendingKeptIsPending DEF TypeOK
      <4>2. op_id[l] \in OpId => outcome'[op_id[l]] = outcome[op_id[l]]
        BY <3>1, <4>1 DEF Pending, TypeOK
      <4>3. QED BY <3>1, <4>1, <4>2 DEF Pending
    <3>4. QED BY <3>2, <3>3, PendingKeptIsPending DEF PendingKept, Pending
  <2>4. CASE TickBlocks(i)
    BY <2>4, <1>u DEF TickBlocks, ManagerTickBlocks, elementVars
  <2>5. QED BY <1>3, <2>1, <2>2, <2>3, <2>4 DEF Tick
<1>4. CASE Elapse
  BY <1>4, <1>u DEF Elapse, ManagerElapse
<1>5. CASE UNCHANGED vars
  BY <1>5, <1>u DEF vars, managerVars, elementVars
<1>6. QED BY <1>1, <1>2, <1>3, <1>4, <1>5 DEF Next

(* A deferred update keeps its value and its id until it is called back. *)
THEOREM PendingKeptAlways == Spec => []PendingKept
<1>1. Init => PendingKept
  BY ReadIdAssumption DEF Init, ManagerInit, PendingKept, Idle, UpdateProtected
<1>2. QED BY <1>1, TypeCorrect, PendingStep, PTL DEF Spec

------------------------------------------------------------------------------
(* What becomes of an update that waits. *)

StillWaits(k) ==
  /\ current_state'[k] = UpdateProtected
  /\ op_id'[k] = op_id[k] /\ temp_value'[k] = temp_value[k]
  /\ expire_time'[k] <= expire_time[k]

IsMade(k) ==
  /\ expire_time[k] <= 0
  /\ value'[k] = op_id[k] /\ outcome'[op_id[k]] = "called"

(* An element that a step leaves alone goes on waiting. *)
LEMMA WaitsOn ==
  ASSUME TypeOK, NEW k \in Key, current_state[k] = UpdateProtected,
         current_state'[k] = current_state[k], op_id'[k] = op_id[k],
         temp_value'[k] = temp_value[k], expire_time'[k] = expire_time[k]
  PROVE  StillWaits(k)
BY DEF StillWaits, TypeOK

(* start_expire() for l is nothing to another element. *)
LEMMA StartedElsewhere ==
  ASSUME TypeOK, NEW l \in Key, NEW target \in {Idle, Guaranteed}, NEW ms \in Int, NEW q, Rest(l, q),
         StartExpire(l, target, ms, q), NEW state, current_state' = [current_state EXCEPT ![l] = state],
         NEW k \in Key, k # l
  PROVE  current_state'[k] = current_state[k] /\ expire_time'[k] = expire_time[k]
<1>1. PICK i \in TimerId \ DOMAIN timer_queue : Started(l, target, ms, q, i)
  BY StartExpireFacts DEF Rest
<1>2. QED BY <1>1 DEF Started, TypeOK

LEMMA EnteredElsewhere ==
  ASSUME TypeOK, NEW l \in Key, NEW q, Rest(l, q), EnterGuaranteed(l, q), NEW k \in Key, k # l
  PROVE  current_state'[k] = current_state[k] /\ expire_time'[k] = expire_time[k]
<1>1. Lease \in Int /\ Idle \in {Idle, Guaranteed}
  BY LeaseAssumption
<1>2. QED BY <1>1, StartedElsewhere DEF EnterGuaranteed

(* Without orphans the timer that calls back for k is the one k waits for. *)
LEMMA OwnTimerCalls ==
  ASSUME LeaseTimed, ~blocked, Orphans = {}, NEW i \in DOMAIN timer_queue, timer_queue[i].repeat = 1,
         NEW k \in Key, timer_queue[i].key = k, current_state[k] = UpdateProtected
  PROVE  timer_queue[i].target = Guaranteed /\ timer_queue[i].left = expire_time[k]
<1>1. timer_id[k] = i
  BY DEF Orphans
<1>2. OwnTimer(k) /\ UpdateProtected # Idle
  BY LeaseTimedIsOwn DEF OwnTimers, UpdateProtected, Idle
<1>3. timer_queue[i] = [key |-> k, target |-> TargetOf(UpdateProtected),
                        left |-> expire_time[k], repeat |-> 1]
  BY <1>1, <1>2 DEF OwnTimer
<1>4. QED BY <1>3 DEF TargetOf, UpdateProtected, Guaranteed

LEMMA WaitStep ==
  ASSUME TypeOK, LeaseTimed, PendingKept, [Next]_vars,
         NEW k \in Key, current_state[k] = UpdateProtected, Orphans = {}, ~blocked'
  PROVE  StillWaits(k) \/ IsMade(k)
<1>0. UpdateProtected # Idle /\ UpdateProtected # Guaranteed /\ Idle # Guaranteed
  BY DEF UpdateProtected, Idle, Guaranteed
<1>1. ASSUME NEW l \in Key, ReadOp(l) PROVE StillWaits(k)
  <2>1. temp_value' = temp_value /\ ManagerRead(l, ReadId)
    BY <1>1 DEF ReadOp
  <2>2. CASE UNCHANGED managerVars
    BY <2>1, <2>2, WaitsOn DEF managerVars
  <2>3. CASE current_state[l] # UpdateProtected /\ EnterGuaranteed(l, timer_queue)
    <3>1. l # k
      BY <2>3
    <3>2. op_id'[k] = op_id[k]
      BY <2>1, <2>3, <3>1 DEF ManagerRead, TypeOK
    <3>3. QED BY <2>1, <2>3, <3>1, <3>2, WholeRest, EnteredElsewhere, WaitsOn DEF TypeOK
  <2>4. QED BY <1>0, <2>1, <2>2, <2>3 DEF ManagerRead
<1>2. ASSUME NEW l \in Key, NEW op \in OpId, UpdateOp(l, op) PROVE StillWaits(k)
  <2>1. CASE UpdateOk(l, op)
    <3>1. l # k
      BY <1>0, <2>1 DEF UpdateOk, ManagerUpdateOk
    <3>2. op_id' = op_id /\ temp_value' = temp_value /\ EnterGuaranteed(l, timer_queue)
      BY <2>1 DEF UpdateOk, ManagerUpdateOk
    <3>3. QED BY <3>1, <3>2, WholeRest, EnteredElsewhere, WaitsOn DEF TypeOK
  <2>2. CASE UpdateDefer(l, op)
    <3>1. l # k
      BY <1>0, <2>2 DEF UpdateDefer, ManagerUpdateDefer
    <3>2. op_id'[k] = op_id[k] /\ temp_value'[k] = temp_value[k]
      BY <2>2, <3>1 DEF UpdateDefer, ManagerUpdateDefer, TypeOK
    <3>3. /\ StartExpire(l, Guaranteed, expire_time[l], timer_queue)
          /\ current_state' = [current_state EXCEPT ![l] = UpdateProtected]
      BY <2>2 DEF UpdateDefer, ManagerUpdateDefer, EnterUpdateProtected
    <3>4. expire_time[l] \in Int /\ Rest(l, timer_queue)
      BY WholeRest DEF TypeOK
    <3>5. QED BY <3>1, <3>2, <3>3, <3>4, StartedElsewhere, WaitsOn
  <2>3. CASE UpdateRetry(l, op)
    BY <2>3, WaitsOn DEF UpdateRetry, managerVars
  <2>4. CASE UpdateExpired(l, op)
    <3>1. l # k
      BY <1>0, <2>4 DEF UpdateExpired, ManagerUpdateExpired
    <3>2. QED BY <2>4, <3>1, WaitsOn DEF UpdateExpired, ManagerUpdateExpired, TypeOK
  <2>5. CASE UpdateIllegal(l, op)
    BY <2>5, WaitsOn DEF UpdateIllegal, managerVars
  <2>6. QED BY <1>2, <2>1, <2>2, <2>3, <2>4, <2>5 DEF UpdateOp
<1>3. ASSUME NEW i \in DOMAIN timer_queue, Tick(i) PROVE StillWaits(k) \/ IsMade(k)
  <2>0. PICK l \in Key : l = timer_queue[i].key
    BY QueueFacts DEF TypeOK, Timer
  <2>1. CASE TickDeleted(i)
    BY <2>1, WaitsOn DEF TickDeleted, ManagerTickDeleted, elementVars
  <2>2. CASE TickIdle(i)
    <3>1. /\ ~blocked /\ timer_queue[i].repeat = 1 /\ timer_queue[i].target = Idle
          /\ current_state' = [current_state EXCEPT ![l] = Idle]
          /\ expire_time' = [expire_time EXCEPT ![l] = 0]
          /\ UNCHANGED <<op_id, temp_value>>
      BY <2>0, <2>2 DEF TickIdle, TickTakes, ManagerTickIdle, EnterIdle, elementVars
    <3>2. l # k
      BY <1>0, <2>0, <3>1, OwnTimerCalls
    <3>3. QED BY <3>1, <3>2, WaitsOn DEF TypeOK
  <2>3. CASE TickUpdate(i)
    <3>1. /\ ~blocked /\ timer_queue[i].left <= 0 /\ timer_queue[i].repeat = 1
          /\ EnterGuaranteed(l, PopTimer(timer_queue, i)) /\ op_id' = op_id
          /\ value' = [value EXCEPT ![l] = temp_value[l]]
          /\ temp_value' = [temp_value EXCEPT ![l] = Empty]
      BY <2>0, <2>3 DEF TickUpdate, TickTakes, ManagerTickUpdate, CallHandle
    <3>2. CASE l # k
      BY <2>0, <3>1, <3>2, PoppedRest, EnteredElsewhere, WaitsOn DEF TypeOK
    <3>3. CASE l = k
      <4>1. expire_time[k] <= 0
        BY <2>0, <3>1, <3>3, OwnTimerCalls
      <4>2. op_id[k] \in OpId /\ temp_value[k] = op_id[k] /\ outcome[op_id[k]] = "defer"
        BY DEF PendingKept
      <4>3. outcome' = [outcome EXCEPT ![op_id[k]] = "called"]
        BY <2>0, <2>3, <3>3, <4>2 DEF TickUpdate, CallHandle
      <4>4. QED BY <3>1, <3>3, <4>1, <4>2, <4>3 DEF IsMade, TypeOK
    <3>4. QED BY <3>2, <3>3
  <2>4. CASE TickBlocks(i)
    BY <2>4 DEF TickBlocks, ManagerTickBlocks
  <2>5. QED BY <1>3, <2>1, <2>2, <2>3, <2>4 DEF Tick
<1>4. CASE Elapse
  BY <1>0, <1>4 DEF Elapse, ManagerElapse, StillWaits, TypeOK
<1>5. CASE UNCHANGED vars
  BY <1>5, WaitsOn DEF vars, managerVars, elementVars
<1>6. QED BY <1>1, <1>2, <1>3, <1>4, <1>5 DEF Next

(* Unless a timer was left in the heap, or the callback blocks, an update that waits is made, at
   its deadline or later, and neither dropped, replaced nor put off by reads, updates of its key
   or of other keys and the timers of other elements, however late tick() runs. *)
THEOREM WaitKeptUnlessOrphanAlways == Spec => WaitKeptUnlessOrphan
<1>1. TypeOK /\ LeaseTimed /\ PendingKept /\ [Next]_vars =>
        [\A k \in Key : current_state[k] = UpdateProtected =>
           \/ /\ current_state'[k] = UpdateProtected
              /\ op_id'[k] = op_id[k] /\ temp_value'[k] = temp_value[k]
              /\ expire_time'[k] <= expire_time[k]
           \/ /\ expire_time[k] <= 0
              /\ value'[k] = op_id[k] /\ outcome'[op_id[k]] = "called"
           \/ Orphans # {} \/ blocked']_vars
  BY WaitStep DEF StillWaits, IsMade
<1>2. QED
  BY <1>1, TypeCorrect, LeaseTimedAlways, PendingKeptAlways, PTL
     DEF Spec, WaitKeptUnlessOrphan
==============================================================================
