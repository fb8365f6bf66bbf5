--------------------------- MODULE CacheDataCenter ---------------------------
(***************************************************************************)
(* CacheDataCenter and CacheElement (cache_data_center.h): the values      *)
(* behind the lease state machines, in one thread that calls read_op,      *)
(* update_op and TimerQueue::tick() one after the other, as the loop of    *)
(* sample/server.cc does.                                                  *)
(*                                                                         *)
(* Every update writes a value of its own, so a value is the id of the     *)
(* update that wrote it.  lease and outcome are history variables: what    *)
(* callers were told.                                                      *)
(***************************************************************************)
EXTENDS CacheStateManager, FiniteSets

CONSTANTS
  Empty,      \* the value-initialized or moved-from string
  ZeroOp,     \* the operation id 0, an OpId in the configurations that use it
  MaxLag,     \* how late, in clock units, tick() may find a timer
  TickFirst   \* the caller runs tick() in the same millisecond before each operation

ASSUME EmptyAssumption == Empty \notin OpId \cup {ReadId}
ASSUME MaxLagAssumption == MaxLag \in Nat
ASSUME TickFirstAssumption == TickFirst \in BOOLEAN

VARIABLES
  map,         \* the cache ids in map_
  value,       \* value_
  temp_value,  \* temp_value_
  lease,       \* lease[k][v]: for how long somebody holds a guarantee that k is v
  outcome      \* what became of each update, and of callbacks made under a read's id

elementVars == <<map, value, temp_value, lease, outcome>>
vars == <<managerVars, ticking, blocked, elementVars>>

Value == OpId \cup {Empty}

\* "none": not issued; "ok", "defer", "retry": the OpResult; "thrown": an exception left
\* update_op; "called": the deferred update was called back; "phantom": a callback was
\* made for an operation that was not waiting for one.
Outcome == {"none", "ok", "defer", "retry", "thrown", "called", "phantom"}

TypeOK ==
  /\ current_state \in [Key -> State]
  /\ timer_id \in [Key -> TimerId \cup {NoTimer}]
  /\ expire_time \in [Key -> Int]
  /\ op_id \in [Key -> OpId \cup {ReadId}]
  /\ IsQueue(timer_queue)
  /\ ticking \in BOOLEAN
  /\ blocked \in BOOLEAN
  /\ map \subseteq Key
  /\ value \in [Key -> Value]
  /\ temp_value \in [Key -> Value]
  /\ lease \in [Key -> [Value -> Nat]]
  /\ outcome \in [OpId \cup {ReadId} -> Outcome]

Init ==
  /\ ManagerInit
  /\ map = {}
  /\ value = [k \in Key |-> Empty]
  /\ temp_value = [k \in Key |-> Empty]
  /\ lease = [k \in Key |-> [v \in Value |-> 0]]
  /\ outcome = [op \in OpId \cup {ReadId} |-> "none"]

------------------------------------------------------------------------------
\* The thread is between two calls.  The heap is bounded by TimerId: a call starts only
\* if it leaves an address for the callback of tick().
Ready ==
  /\ ~ticking /\ ~blocked
  /\ TickFirst => ~FrontExpired(timer_queue)
  /\ Cardinality(TimerId \ DOMAIN timer_queue) > 1

Promise(k, v, ms) == lease' = [lease EXCEPT ![k][v] = IF ms > @ THEN ms ELSE @]

\* CacheDataCenter::read_op of an element there is; kOperationErrorNoData changes nothing.
ReadOp(k) ==
  /\ Ready /\ k \in map
  /\ ManagerRead(k, ReadId)
  /\ Promise(k, value[k], ReadExpire(k))
  /\ UNCHANGED <<ticking, blocked, map, value, temp_value, outcome>>

\* update_op emplaces the element first, whatever the result will be.
Issue(k, op, result) ==
  /\ Ready
  /\ outcome[op] = "none"
  /\ map' = map \cup {k}
  /\ outcome' = [outcome EXCEPT ![op] = result]
  /\ UNCHANGED <<ticking, blocked>>

UpdateOk(k, op) ==
  /\ Issue(k, op, "ok")
  /\ ManagerUpdateOk(k)
  /\ value' = [value EXCEPT ![k] = op]
  /\ Promise(k, op, Lease)
  /\ UNCHANGED temp_value

UpdateDefer(k, op) ==
  /\ op # ZeroOp
  /\ Issue(k, op, "defer")
  /\ ManagerUpdateDefer(k, op)
  /\ temp_value' = [temp_value EXCEPT ![k] = op]
  /\ UNCHANGED <<value, lease>>

UpdateRetry(k, op) ==
  /\ op # ZeroOp
  /\ Issue(k, op, "retry")
  /\ current_state[k] = UpdateProtected
  /\ UNCHANGED <<managerVars, value, temp_value, lease>>

\* "timer is expire,should not run here"
UpdateExpired(k, op) ==
  /\ op # ZeroOp
  /\ Issue(k, op, "thrown")
  /\ ManagerUpdateExpired(k, op)
  /\ UNCHANGED <<value, temp_value, lease>>

\* "update_op with error argument": id 0 is refused in every state but Idle.
UpdateIllegal(k, op) ==
  /\ op = ZeroOp
  /\ Issue(k, op, "thrown")
  /\ current_state[k] # Idle
  /\ UNCHANGED <<managerVars, value, temp_value, lease>>

------------------------------------------------------------------------------
TickDeleted(i) ==
  /\ TickTakes(i) /\ ManagerTickDeleted(i) /\ TickContinues
  /\ UNCHANGED elementVars

TickIdle(i) ==
  /\ TickTakes(i) /\ ManagerTickIdle(i) /\ TickContinues
  /\ UNCHANGED elementVars

\* Mutant: value_ is taken from the operation remembered last, not from temp_value_.
CallHandleByOpId(k) ==
  /\ value' = [value EXCEPT ![k] = op_id[k]]
  /\ temp_value' = [temp_value EXCEPT ![k] = Empty]
  /\ IF outcome[op_id[k]] = "defer"
       THEN /\ outcome' = [outcome EXCEPT ![op_id[k]] = "called"]
            /\ Promise(k, op_id[k], Lease)
       ELSE /\ outcome' = [outcome EXCEPT ![op_id[k]] = "phantom"]
            /\ UNCHANGED lease
  /\ UNCHANGED map

\* CacheElement::call_handle: temp_value_ is moved into value_, and the caller's handler
\* gets kOperationOk with the new lease for the operation the manager remembers.
CallHandle(k) ==
  /\ value' = [value EXCEPT ![k] = temp_value[k]]
  /\ temp_value' = [temp_value EXCEPT ![k] = Empty]
  /\ IF outcome[op_id[k]] = "defer"
       THEN /\ outcome' = [outcome EXCEPT ![op_id[k]] = "called"]
            /\ Promise(k, op_id[k], Lease)
       ELSE /\ outcome' = [outcome EXCEPT ![op_id[k]] = "phantom"]
            /\ UNCHANGED lease
  /\ UNCHANGED map

TickUpdate(i) ==
  /\ TickTakes(i) /\ ManagerTickUpdate(i, PopTimer(timer_queue, i)) /\ TickContinues
  /\ CallHandle(timer_queue[i].key)

TickBlocks(i) ==
  /\ TickTakes(i) /\ ManagerTickBlocks(i)
  /\ ticking' = TRUE
  /\ UNCHANGED elementVars

\* Time passes, and no timer waits longer than MaxLag for the next tick().
Elapse ==
  /\ ~blocked
  /\ \A i \in DOMAIN timer_queue : timer_queue[i].left > -MaxLag
  /\ ManagerElapse
  /\ lease' = [k \in Key |-> [v \in Value |->
                 IF lease[k][v] > 0 THEN lease[k][v] - 1 ELSE 0]]
  /\ UNCHANGED <<ticking, blocked, map, value, temp_value, outcome>>

Tick(i) == TickDeleted(i) \/ TickIdle(i) \/ TickUpdate(i) \/ TickBlocks(i)

UpdateOp(k, op) ==
  \/ UpdateOk(k, op)
  \/ UpdateDefer(k, op)
  \/ UpdateRetry(k, op)
  \/ UpdateExpired(k, op)
  \/ UpdateIllegal(k, op)

Next ==
  \/ \E k \in Key : ReadOp(k)
  \/ \E k \in Key, op \in OpId : UpdateOp(k, op)
  \/ \E i \in DOMAIN timer_queue : Tick(i)
  \/ Elapse

Spec == Init /\ [][Next]_vars

\* The loop of the server calls tick() again and again, and the clock runs.
Fairness == WF_vars(\E i \in DOMAIN timer_queue : Tick(i)) /\ WF_vars(Elapse)

FairSpec == Spec /\ Fairness

------------------------------------------------------------------------------
\* An element that is not idle waits for a live timer of its own, which is due exactly at
\* expire_time_ and leads out of the state it is in: no element is stuck in a lease.
LeaseTimed ==
  ~blocked => \A k \in Key :
    IF current_state[k] = Idle THEN timer_id[k] = NoTimer
    ELSE /\ timer_id[k] \in DOMAIN timer_queue
         /\ timer_queue[timer_id[k]] =
              [key |-> k, target |-> TargetOf(current_state[k]),
               left |-> expire_time[k], repeat |-> 1]

\* Whatever tick() is late for, a guarantee given to somebody is covered by a timer that
\* will not call back before the guarantee has ended.
LeaseCovered ==
  \A k \in Key, v \in Value :
    /\ lease[k][v] <= Lease
    /\ lease[k][v] > 0 => \E i \in DOMAIN timer_queue :
                            /\ timer_queue[i].repeat = 1 /\ timer_queue[i].key = k
                            /\ timer_queue[i].left >= lease[k][v]

\* A deferred update is not mixed up with another operation: its value and its id are kept
\* together until it is called back, and no two elements remember the same update.
PendingKept ==
  \A k \in Key :
    /\ current_state[k] = UpdateProtected =>
         op_id[k] \in OpId /\ temp_value[k] = op_id[k] /\ outcome[op_id[k]] = "defer"
    /\ op_id[k] \in OpId =>
         outcome[op_id[k]] # "none" /\ \A l \in Key \ {k} : op_id[l] # op_id[k]

\* Somebody who was told that k is v until some time is still right before that time.
LeaseHonoured ==
  \A k \in Key, v \in Value : lease[k][v] > 0 => value[k] = v

\* However late tick() runs, a value changes under a lease only if a timer was left behind
\* in the queue by an operation that came between its deadline and tick().
LeaseBrokenOnlyByOrphan ==
  [][\A k \in Key, v \in Value :
       lease[k][v] > 0 /\ value[k] = v /\ value'[k] # v => Orphans # {}]_vars

\* However late tick() runs, the first timer to be left behind in the queue is one that a read
\* leaves there, when it comes between the end of the lease and tick(): no update and no
\* callback does it, and no read that comes in time.
OrphanOnlyByLateRead ==
  [][Orphans = {} => \A i \in Orphans' :
       \E k \in Key : i = timer_id[k] /\ Overdue(k) /\ ReadOp(k)]_vars

\* However late tick() runs, an update that waits is not lost, and readers do not put it off: a
\* step leaves its element waiting for it, until no later deadline, or makes it and calls back,
\* after that deadline and not before, unless a timer was left behind in the queue or the step
\* blocks the thread for good.
WaitKeptUnlessOrphan ==
  [][\A k \in Key : current_state[k] = UpdateProtected =>
       \/ /\ current_state'[k] = UpdateProtected
          /\ op_id'[k] = op_id[k] /\ temp_value'[k] = temp_value[k]
          /\ expire_time'[k] <= expire_time[k]
       \/ /\ expire_time[k] <= 0
          /\ value'[k] = op_id[k] /\ outcome'[op_id[k]] = "called"
       \/ Orphans # {} \/ blocked']_vars

\* A callback is made for an update that waits for it, and once.
NoPhantomCallback == \A op \in OpId \cup {ReadId} : outcome[op] # "phantom"

\* An update with a proper id gets an OpResult: no update ends in an exception.
NoUpdateThrown == \A op \in OpId \ {ZeroOp} : outcome[op] # "thrown"

\* A caller whose reads, or all of whose operations, never come between the end of a lease and
\* tick(); how late tick() may be otherwise is left open.
NoLateRead == \A k \in Key : ReadOp(k) => ~Overdue(k)
NoLateOp == \A k \in Key : ReadOp(k) \/ (\E op \in OpId : UpdateOp(k, op)) => ~Overdue(k)

ReadsInTime == [][NoLateRead]_vars
OpsInTime == [][NoLateOp]_vars

\* A deferred update is called back: readers cannot renew the lease in front of it.
DeferredIsCalled ==
  \A op \in OpId : outcome[op] = "defer" ~> outcome[op] = "called"

------------------------------------------------------------------------------
\* The abstract store's pend: the update that waits is the one the protected state remembers.
Waiting == [k \in Key |-> IF current_state[k] = UpdateProtected THEN op_id[k] ELSE Empty]

Store == INSTANCE LeasedStore WITH
  Op <- OpId \cup {ReadId}, val <- value, pend <- Waiting

\* The data center does what LeasedStore promises.
StoreSpec == Store!Spec
==============================================================================
