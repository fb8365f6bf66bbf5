-------------------------- MODULE CacheStateManager --------------------------
(***************************************************************************)
(* CacheStateManager (cache_state_manager.h): the lease state machine of   *)
(* each cache element, and the one timer queue that drives all of them.    *)
(* This module has the managers' state and their transitions; the machine  *)
(* that calls them is CacheDataCenter.                                     *)
(*                                                                         *)
(* Deadlines are relative to get_time_stamp(): expire_time[k] and a        *)
(* timer's left count down as time passes.  The clock reads of one handler *)
(* are taken as one instant.                                               *)
(***************************************************************************)
EXTENDS TimerHeap

CONSTANTS
  Key,       \* cache ids, one manager each
  OpId,      \* ids of update operations
  ReadId,    \* stands for the id of any read operation
  TimerId,   \* addresses the allocator may give an EventTimer (bounds the heap)
  NoTimer,   \* timer_id_ = 0
  Lease,     \* kDefaultExpireMillisecond, in clock units
  Relock     \* what locking mutex_ a second time in the same thread may do

ASSUME LeaseAssumption == Lease \in Nat \ {0}
ASSUME NoTimerAssumption == NoTimer \notin TimerId
ASSUME ReadIdAssumption == ReadId \notin OpId
ASSUME RelockAssumption == Relock \subseteq {"blocks", "proceeds"}

VARIABLES
  current_state,   \* current_state_ of each manager
  timer_id,        \* timer_id_: the timer the manager believes it waits for
  expire_time,     \* expire_time_ - get_time_stamp()
  op_id,           \* op_id_: passed to the callback of a deferred update
  timer_queue,     \* TimerQueue::timer_queue_
  ticking,         \* tick() is inside its loop
  blocked          \* the thread waits for mutex_ that it holds itself

managerVars == <<current_state, timer_id, expire_time, op_id, timer_queue>>

Idle            == "kCacheIdle"
Guaranteed      == "kCacheGuaranteed"
UpdateProtected == "kCacheUpdateProtected"
State           == {Idle, Guaranteed, UpdateProtected}

\* A manager's timer: its callback first does set_cache_state(target).
Timer == [key : Key, target : {Idle, Guaranteed}, left : Int, repeat : {0, 1}]

\* A heap at some moment: the addresses in use are any of TimerId.
IsQueue(queue) == \E ids \in SUBSET TimerId : queue \in [ids -> Timer]

\* The callback that belongs to a state: where its expiry leads.
TargetOf(state) == IF state = UpdateProtected THEN Guaranteed ELSE Idle

ManagerInit ==
  /\ current_state = [k \in Key |-> Idle]
  /\ timer_id = [k \in Key |-> NoTimer]
  /\ expire_time = [k \in Key |-> 0]
  /\ op_id = [k \in Key |-> ReadId]
  /\ timer_queue = [i \in {} |-> NoTimer]
  /\ ticking = FALSE
  /\ blocked = FALSE

------------------------------------------------------------------------------
\* Mutant: stop_expire() left out.
NeverStops(k) == FALSE

\* stop_expire() deletes the manager's timer unless its deadline has passed.
StopsTimer(k) == timer_id[k] # NoTimer /\ expire_time[k] > 0

StopExpire(k, queue) == IF StopsTimer(k) THEN DelTimer(queue, timer_id[k]) ELSE queue

\* Mutant: start_expire() stops the timer after timer_id_ has been renewed.
AddThenStop(k, target, ms, queue) ==
  \E i \in TimerId \ DOMAIN timer_queue :
    /\ timer_queue' = DelTimer(AddTimer(queue, i,
                        [key |-> k, target |-> target, left |-> ms, repeat |-> 1]), i)
    /\ timer_id' = [timer_id EXCEPT ![k] = i]
    /\ expire_time' = [expire_time EXCEPT ![k] = ms]

\* start_expire(): the old timer is stopped and a new one added under an address that
\* is not in use; queue is what the caller leaves in the heap besides.
StartExpire(k, target, ms, queue) ==
  \E i \in TimerId \ DOMAIN timer_queue :
    /\ timer_queue' = AddTimer(StopExpire(k, queue), i,
                        [key |-> k, target |-> target, left |-> ms, repeat |-> 1])
    /\ timer_id' = [timer_id EXCEPT ![k] = i]
    /\ expire_time' = [expire_time EXCEPT ![k] = ms]

\* set_cache_state(kCacheIdle), from the callback of a Guaranteed timer.
EnterIdle(k, queue) ==
  /\ timer_queue' = queue
  /\ timer_id' = [timer_id EXCEPT ![k] = NoTimer]
  /\ expire_time' = [expire_time EXCEPT ![k] = 0]
  /\ current_state' = [current_state EXCEPT ![k] = Idle]

\* set_cache_state(kCacheGuaranteed): a lease of full length starts.
EnterGuaranteed(k, queue) ==
  /\ StartExpire(k, Idle, Lease, queue)
  /\ current_state' = [current_state EXCEPT ![k] = Guaranteed]

\* Mutant: the wait ends a millisecond before the lease.
WaitTooShort(k) ==
  /\ expire_time[k] > 0
  /\ StartExpire(k, Guaranteed, expire_time[k] - 1, timer_queue)
  /\ current_state' = [current_state EXCEPT ![k] = UpdateProtected]

\* set_cache_state(kCacheUpdateProtected): waits for what is left of the lease.
EnterUpdateProtected(k) ==
  /\ expire_time[k] > 0
  /\ StartExpire(k, Guaranteed, expire_time[k], timer_queue)
  /\ current_state' = [current_state EXCEPT ![k] = UpdateProtected]

------------------------------------------------------------------------------
\* Mutant: a read is remembered while an update waits.
ReadAlwaysRemembered(k, op) ==
  \/ /\ current_state[k] # UpdateProtected
     /\ EnterGuaranteed(k, timer_queue)
     /\ op_id' = [op_id EXCEPT ![k] = op]
  \/ /\ current_state[k] = UpdateProtected
     /\ op_id' = [op_id EXCEPT ![k] = op]
     /\ UNCHANGED <<current_state, timer_id, expire_time, timer_queue>>

\* Mutant: a read renews the lease also while an update waits.
ReadAlwaysRenews(k, op) ==
  /\ EnterGuaranteed(k, timer_queue)
  /\ UNCHANGED op_id

\* read_op of the three states.
ManagerRead(k, op) ==
  \/ /\ current_state[k] = Idle
     /\ EnterGuaranteed(k, timer_queue)
     /\ UNCHANGED op_id
  \/ /\ current_state[k] = Guaranteed
     /\ op_id' = [op_id EXCEPT ![k] = op]
     /\ EnterGuaranteed(k, timer_queue)
  \/ /\ current_state[k] = UpdateProtected
     /\ UNCHANGED managerVars

\* Mutant: read_op answers with a guarantee in every state.
AlwaysLease(k) == Lease

\* The expire time read_op returns: no guarantee while an update waits.
ReadExpire(k) == IF current_state[k] = UpdateProtected THEN 0 ELSE Lease

\* Mutant: an update is made in every state but UpdateProtected.
UpdateUnlessProtected(k) ==
  /\ current_state[k] # UpdateProtected
  /\ EnterGuaranteed(k, timer_queue)
  /\ UNCHANGED op_id

\* update_op in CacheIdleState: kOperationOk.
ManagerUpdateOk(k) ==
  /\ current_state[k] = Idle
  /\ EnterGuaranteed(k, timer_queue)
  /\ UNCHANGED op_id

\* update_op in CacheGuaranteedState: kOperationDefer.
ManagerUpdateDefer(k, op) ==
  /\ current_state[k] = Guaranteed
  /\ op_id' = [op_id EXCEPT ![k] = op]
  /\ EnterUpdateProtected(k)

\* update_op in CacheGuaranteedState once the deadline has passed: enter_state() throws
\* "timer is expire,should not run here" after op_id_ was set.
ManagerUpdateExpired(k, op) ==
  /\ current_state[k] = Guaranteed
  /\ expire_time[k] <= 0
  /\ op_id' = [op_id EXCEPT ![k] = op]
  /\ UNCHANGED <<current_state, timer_id, expire_time, timer_queue>>

------------------------------------------------------------------------------
\* One iteration of the loop of tick(): timer i is in front and has expired.
TickTakes(i) ==
  /\ ~blocked
  /\ i \in Fronts(timer_queue)
  /\ timer_queue[i].left <= 0

\* The loop goes on as long as the new front has expired.
TickContinues == ticking' = FrontExpired(timer_queue')

\* A deleted timer is dropped without its callback.
ManagerTickDeleted(i) ==
  /\ timer_queue[i].repeat = 0
  /\ timer_queue' = PopTimer(timer_queue, i)
  /\ UNCHANGED <<current_state, timer_id, expire_time, op_id, blocked>>

\* The callback of CacheGuaranteedState: back to Idle.
ManagerTickIdle(i) ==
  /\ timer_queue[i].repeat = 1 /\ timer_queue[i].target = Idle
  /\ EnterIdle(timer_queue[i].key, PopTimer(timer_queue, i))
  /\ UNCHANGED <<op_id, blocked>>

\* The callback of CacheUpdateProtectedState locks mutex_ again in add_timer while tick()
\* holds it.  Where that proceeds, a new lease starts; left is the queue it leaves.
ManagerTickUpdate(i, left) ==
  /\ timer_queue[i].repeat = 1 /\ timer_queue[i].target = Guaranteed
  /\ "proceeds" \in Relock
  /\ EnterGuaranteed(timer_queue[i].key, left)
  /\ UNCHANGED <<op_id, blocked>>

\* Where it blocks, the thread hangs in start_expire: in del_timer if there is a timer to
\* stop, else in add_timer with expire_time_ already renewed.
ManagerTickBlocks(i) ==
  LET k == timer_queue[i].key IN
  /\ timer_queue[i].repeat = 1 /\ timer_queue[i].target = Guaranteed
  /\ "blocks" \in Relock
  /\ blocked' = TRUE
  /\ expire_time' = IF StopsTimer(k) THEN expire_time ELSE [expire_time EXCEPT ![k] = Lease]
  /\ UNCHANGED <<current_state, timer_id, op_id, timer_queue>>

\* A millisecond passes; expire_time_ = 0 of an idle manager is no deadline.
ManagerElapse ==
  /\ timer_queue' = Elapsed(timer_queue)
  /\ expire_time' = [k \in Key |-> IF current_state[k] = Idle THEN expire_time[k]
                                                            ELSE expire_time[k] - 1]
  /\ UNCHANGED <<current_state, timer_id, op_id>>

------------------------------------------------------------------------------
\* Timers that will still call back although no manager waits for them.
Orphans ==
  {i \in DOMAIN timer_queue :
     timer_queue[i].repeat = 1 /\ timer_id[timer_queue[i].key] # i}

\* The lease of k has ended and tick() has not come yet: stop_expire() would not delete its
\* timer any more, and an update would throw.
Overdue(k) == current_state[k] = Guaranteed /\ expire_time[k] <= 0
==============================================================================
