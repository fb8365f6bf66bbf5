# A verification of the lease cache

TLA+ models of `cache_system_of_lease_mechanism`, the TLC runs that check them and the
theorems TLAPS proves about them. Paths below are relative to the repository.

## The system

A server keeps a value per cache id and gives out *leases*: whoever reads or updates a value
is told until when it will not change. An update that meets a lease is deferred until the
lease has run out. One timer queue drives the leases and the resending of responses.

| component | state | operations | how it interacts |
|---|---|---|---|
| `TimerQueue` (`timer_queue.h/.cc`) | `timer_queue_`, a heap of timers in a vector; `mutex_` | `add_timer`, `del_timer` (marks), `tick` | one instance for the process; `tick` calls the callbacks of the managers and of the wait-acks while it holds `mutex_` |
| `CacheStateManager` (`cache_state_manager.h`) | `current_state_`, `timer_id_`, `expire_time_`, `op_id_`, `callhandle_` | `read_op`, `update_op`, the callbacks of the timers of `kCacheGuaranteed` and `kCacheUpdateProtected` | adds and deletes timers; calls the element back |
| `CacheElement`, `CacheDataCenter` (`cache_data_center.h`) | `value_`, `temp_value_`, `call_`; `map_` | `read_op`, `update_op`, `call_handle` | asks its manager, then stores the value or keeps it |
| message server (`protobuf_message_server_impl.h`) | `defer_messages_`, the wait-ack map, the last read's data | handlers of read, update and ack; `update_handle`; `WaitCacheAck::timer_handle` | called by `listen()` and by `tick()`; sends to the last sender |
| message client (`message_client.h`, `protobuf_message_client_impl.h`) | `impl_`, `requests_` | `read_cache_async`, `update_cache_async`, `on_receive` | UDP datagrams; acknowledges each response it can match, after the callback |
| `SnowFlake` (`snowflake.h`) | `sequence` | `generate_uniform_id` | ids of the client's requests |
| socket group, message format, logging, samples, build | | | I/O; `sample/server.cc` is the loop `tick(); listen(0.03);` |

What is hard here: `tick()` is late by up to 30 ms or more, so every handler may run between
a deadline and the timer that belongs to it; timer ids are addresses and are reused;
callbacks run under a lock they take again and may throw out of `tick()`; datagrams are lost
and doubled; a response is sent to the last sender; `tick()` looks at the vector without the
lock; the client sends between changes of its own state, and a send may throw; ids are cut from
a clock that is not steady, from masks that overlap, and to 32 bits on the way. `PROJECT.json` lists each hazard at
its line.

What makes the components correct:

* lease machine: nobody sees a value change before the deadline he was told; a deferred update
  is made, once, with its own value and id; no element is stuck;
* server: every request is answered, truthfully; an update is made once; a request is kept
  exactly while it waits; a response goes to the client that asked;
* client: ids differ; a request is kept until it is acknowledged and its callback gets its own
  answer; what the callback was told is true until the deadline it was told;
* timer queue: a timer runs in its time, not before, and in the end; `tick()` is safe beside
  other threads.

## The modules

| module | what it is |
|---|---|
| `TimerHeap` | the heap as a value: `AddTimer`, `DelTimer`, `PopTimer`, `Fronts`, `FrontExpired`, `Elapsed` |
| `CacheStateManager` | the managers' variables and transitions, one operator per method, and the body of the loop of `tick()` for their timers |
| `CacheDataCenter` | the managers with values, called from one thread; the history variables `lease` and `outcome` hold what callers were told |
| `LeasedStore` | the abstract promise: leases, a waiting update, no timers. `CacheDataCenter` implements it (`StoreSpec`) |
| `CacheServer` | clients, network and the server's handlers on top of `CacheStateManager` |
| `LeasedService` | the abstract promise to the clients: requests served at one moment, answers on their way, values that do not change while an answer allows to use them; no timers, acks or resends. `CacheServer` implements it (`ServiceSpec`) |
| `TimerQueue` | `tick()` step by step against `add_timer` and `del_timer` of other threads |
| `SnowFlake` | the ids, with the masks of the machine id as arithmetic and the 32 bits the server keeps |
| `MessageClient` | clients: the start of their sockets, calls, `on_receive`, sends that throw, a clock that may be set back |
| `MC...` | symmetry sets and constants for TLC |
| `CacheStateManagerProofs` | lemmas about the heap and the managers, for both modules that have them |
| `CacheDataCenterProofs`, `PromptTickProofs` | theorems about the data center, for any lag of `tick()` and for operations that come in time |
| `CacheServerProofs`, `PromptServerProofs`, `NoneForgottenProofs` | theorems about the server, for any lag, for requests that come in time, and for one client on a network with a single fault |
| `TimerQueueProofs`, `MessageClientProofs` | theorems about the queue and the clients |

How state and actions correspond to the code:

* **Time** is counted down: `expire_time[k]` is `expire_time_ - get_time_stamp()` and a
  timer's `left` is the same of its own deadline. A timer is due at 0 and overdue below.
  `Elapse` is one unit of time. All clock reads of one handler are one instant. In the code
  `expire_time_` of a manager and the deadline of its timer are two reads of the clock, so the
  timer may be due a millisecond after `expire_time_`: where a property says "until the deadline"
  or "in time", the code is as exact as that millisecond.
* **Timer ids.** A timer is an element of the function `timer_queue`, under the address it
  has. An address is free again once the timer is popped; a new timer takes *any* free one.
  `std::push_heap`/`pop_heap` leave the order of equal deadlines open, and so does `Fronts`.
* **Methods.** `ManagerRead`, `ManagerUpdateOk`, `ManagerUpdateDefer`, `ManagerUpdateExpired`
  are the disjuncts of `read_op` and `update_op` over the three states, with
  `StartExpire`/`StopExpire` inside. `EnterUpdateProtected` is enabled only where
  `enter_state` does not throw; `ManagerUpdateExpired` is the throw, after `op_id_` was set.
* **tick().** One iteration of its loop is one action. `ticking` says that the loop goes on,
  and no handler runs in between.
* **The second lock.** The callback of a deferred update calls `add_timer` while `tick()`
  holds the same `std::mutex`, which the standard leaves undefined. `Relock` names what may
  happen: `"blocks"` (the thread hangs with the state it has reached) or `"proceeds"` (a lock
  that does nothing, as in a program that is not linked with the thread library).
  `"proceeds"` also takes it that the vector has spare capacity at that moment: otherwise the
  reference `tick()` holds dangles, which `TimerQueue` shows for another thread's `add_timer`.
* **A late tick().** `MaxLag` bounds by how much a timer may be overdue. `TickFirst = TRUE` says that
  `tick()` runs in the same unit of time before each operation; `FALSE` is the sample server,
  where `listen()` waits in between.
* **Values.** Each update writes a value of its own, named by the update. `Empty` is the
  moved-from or initial string. All reads share the id `ReadId` in `op_id`: the callback of a
  read's id finds no request.
* **The network** is a set of datagrams, received in any order. `Lossy`/`Doubled` name the kinds that may
  be lost or doubled, `MaxFaults` how often, `MaxFlight` how many may be under way when a
  request is sent. `copy` tells the first response, the resent one and a doubled one apart.
* **Server.** `wait_acks` holds the entries of the wait-ack map with the time left of their
  timers; `stray` the timers whose `WaitCacheAck` was destroyed because `emplace` found the
  id in use (its callback is a use after free, and the model stops there: `undefined`).
  `peer` is the remote address of the socket. A response carries the deadline `expire`, which
  counts down in the network, in a kept response and with the client; a deadline that has passed
  stays at 0. `told` is what the callback of a request was given. A callback that throws (`TickThrows`) leaves its
  timer in front.
* **TimerQueue.** `tick()` asks without the lock whether the vector is empty and takes its reference
  (`TickEnter`), and compares the deadline (`TickCheck`). `push_heap` and `pop_heap` move `unique_ptr`s, so slot 0
  is null for a while although the lock is held: `add_timer` is `AddPush` and
  `AddPlace`, the body of the loop `TickRun` and `TickPlace`, and between the two `front` may be `NoTimer`. `adding`
  is the timer on its way up; nobody else gets the lock meanwhile (`Unlocked`). The first timer of an empty vector may
  be moved out and back too, as libstdc++ does. `Grow` follows the capacity of the vector; `dangling` names the tickers
  whose reference was left in the old buffer. What `tick()` does at a null slot or in a freed buffer is undefined:
  `TickAstray` takes it to `"lost"`, where it is not followed any further.
* **Ids.** The time stamp, `machine_id_` and the sequence fill bits of their own, so an id is a
  record. `MachineId` is the arithmetic of the two masks, for all ids of 8 bits.
  `SequenceRange` stands for the 4096 values of the sequence, `TimeRange` for the 1024 values of
  the bits of the time stamp that are left in 32 bits.
* **Clients.** A call is named by its client and its number. `calls` is a history: the id, how
  often the callback was called and with the answer to which call, whether the ack was sent.
  `requests[c]` is `requests_`, and `emplace` keeps the entry that is there. All clients read one
  clock; `TurnBack` sets it back, and `steady` tells the properties that it never was. A send
  throws always before `initialize` and perhaps after it. The server is anybody who answers a
  request, again and again, to the client that sent it or to another one, which covers what
  `CacheServerWrongPeer` shows of the real server. `Cut` names the cache ids whose data the C string or
  the packet size cuts: their responses fail `Whole` and are dropped.

## The runs

`CHECK_DEADLOCK FALSE` stands where a thread may hang, `tick()` may be lost or the addresses of the
bounded heap may be used up.

| run | question | bounds |
|---|---|---|
| `DataCenterLag` | what holds however late `tick()` is, and if a thread hangs: `LeaseTimed`, `LeaseCovered`, `PendingKept`, `LeaseBrokenOnlyByOrphan`, `WaitKeptUnlessOrphan`, `OrphanOnlyByLateRead` | 2 keys, 3 updates (one with id 0), 5 timers, lease 2, lag 1 |
| `DataCenterPrompt` | with a prompt `tick()`: `LeaseHonoured`, `NoPhantomCallback`, `NoUpdateThrown`, `DeferredIsCalled`, and `LeasedStore` is implemented, its fairness included | 2 keys, 3 updates, 4 timers |
| `DataCenterBroken` | violated: `LeaseHonoured` with a late `tick()` | 1 key, 2 updates |
| `DataCenterHang` | violated: `DeferredIsCalled` where a second lock blocks | 1 key, 2 updates |
| `CacheServerOneClient` | `DeferredHeld`, `RetryNotApplied`, `NoStrayTimer`, `ClientCopyCurrent`, and `LeasedService` is implemented, over a network that loses a response or an ack or doubles a response | 1 key, 3 updates, 1 read, 4 timers, 2 datagrams under way, prompt `tick()` |
| `CacheServerAnswered` | `Answered` (liveness) with a lost response, and `NoneForgotten`, its safety part | 2 updates, 1 read, 4 timers, 2 datagrams under way, lease 1 |
| `CacheServerLag` | late `tick()`, doubled read, hanging and throwing callbacks: `OkApplied`, `AppliedOnce`, `CopyBrokenOnlyByOrphan` | 2 updates, 2 reads, 5 timers, lease 1 |
| `CacheServerWrongPeer` | violated: `ResponseToAsker` with two clients, no faults | 2 clients |
| `TimerQueueThreads` | `AstrayOnlyInAdd`, `NeverEarly`, `DeletedSilent`, `TimerServed` with one ticker, two users and a vector that grows twice | 3 timers, timeouts 0..1, repeat 1..2, capacity 1 at first |
| `TimerQueueMoves` | violated: `ReferenceStays`, with spare capacity | 1 ticker, 1 user, 3 timers |
| `MessageClientTwo` | `IdsDiffer`, `TruncatedIdsDiffer`, `RequestKept`, `AnswerIsMine`, `AckOfCalled`, `CalledUntilAcked` against any server | 2 clients (data centers 0 and 4), 3 calls, 2 keys (one cut), 2 datagrams under way, 1 send that throws, a clock of 2 values |
| `MessageClientNear` | violated: `IdsDiffer` for the data centers 0 and 1 | 2 clients, 2 calls |

Why the bounds are enough to be interesting: an update is only deferred after another one
made the value and its lease, and only turned away while a second one waits, so 3 updates
give all three results; `CacheServerAnswered` has 2, one of them deferred (an update that is turned away is answered at
once, like a read). 4 addresses hold a live timer, the deleted one it replaced, the
timer a late operation left behind, and one for the callback of `tick()`; the passing runs with
a late `tick()` have a fifth, for the timer whose callback has thrown. A lease of 2 leaves a moment inside it.
A lag of 1 puts operations between a deadline and its timer.
Two keys let an address move from one element to another. In `MessageClientTwo` a sequence of 2
values wraps within 3 calls, a time stamp cut to one value (`TimeRange = 1`) leaves the sequence alone
to tell the cut ids apart, and a second value of the clock lets it be set back.

What the violated runs show:

* `stop_expire()` does not delete a timer whose deadline has passed. If a read comes
  before `tick()`, the old timer stays, fires during the *next* lease, sets the element to
  `kCacheIdle`, and an update is made under that lease (`DataCenterBroken`). `CacheServerLag`
  passes through two more consequences: an update in that gap throws "timer is expire,should not
  run here" (`ThrowUpdate`), and a read that overwrites `op_id_` while an update waits makes
  `update_handle` throw out of `tick()`, with the timer still in front (`TickThrows`).
* The callback of a deferred update locks `mutex_` twice (`DataCenterHang`).
* The server's socket answers the last sender (`CacheServerWrongPeer`).
* `tick()` looks at slot 0 without the lock. While another thread's `push_heap` moves a timer up that is due before
  the front one, the `unique_ptr` there is null, and `expired()` reads through it (`TimerQueueMoves`). No capacity helps
  against that. A vector that has to grow is the second way: the reference is left in a freed buffer. There is no third
  for one ticking thread (`AstrayOnlyInAdd`, which `TimerQueueThreads` checks with a vector that grows), so `tick()` is
  safe beside `del_timer`, and would be beside `add_timer` if it took the reference and looked under the lock.
* The mask of `machine_id_` drops the two low bits of `datacenter_id` and the six low bits of
  `worker_id`, so the clients 0 and 1 generate the same ids (`MessageClientNear`).

Where the ids of two clients meet and a response goes to the wrong one, its callback is called with
the answer to a call of another client (the mutant of `AnswerIsMine`).

`doc/cache_data_states.PNG` has an edge *expire* from `write_protected` to `Idle` that the
code of the state does not have; a timer left behind takes it.

**Fairness.** The server's loop calls `tick()` again and again and the clock runs: weak fairness of the tick
actions and of `Elapse`. In `CacheServer` a datagram that stays in the network is received in the end (weak
fairness per request id and kind); sending a request and losing or doubling a datagram have none. In
`TimerQueue` a ticker goes on and `add_timer` returns. That `tick()` gets the lock is not assumed beyond weak
fairness: endless `add_timer` need the addresses that only `tick()` frees. `TimerServed` leaves out a `tick()`
that is lost, which serves nobody. No fairness is given to clients' operations, so a liveness property holds
against clients that stop, and against readers that never do.

## What is proved

TLAPS proves the following for all values of the constants that satisfy the `ASSUME`s (a lease is
positive, `ReadId` is no update, `NoTimer` is no address, `Empty` is no operation, `NoRequest` no request): any
number of keys, updates, addresses, clients and datagrams, any lease and lag.

* `CacheStateManagerProofs` has no theorem to report but the lemmas both systems built on the managers share. A
  system's step is, for the managers, one of `ManagerActs` or `ManagerElapses` (`NextManages` in the modules
  below). Each keeps `OwnTimers`: an element that is not idle has a live timer of its own, which leads out of its
  state and is
  due at `expire_time_`. Each keeps `Shelters(k, ms)`, that a live timer of `k` is not due for `ms`:
  `start_expire()` only
  deletes it for one that ends no sooner. And a timer that shelters an element that is idle, or whose due timer
  `tick()` is
  at, is an orphan (`ShelterOrphaned`).
* `CacheDataCenterProofs`: `TypeCorrect`, `LeaseTimedAlways`, `LeaseCoveredAlways`,
  `PendingKeptAlways`, `LeaseBrokenOnlyByOrphanAlways`, `WaitKeptUnlessOrphanAlways`. They hold for a late `tick()` and
  for both outcomes of the second lock. An invariant needs another's help: that a lease is
  sheltered is only kept because the timer of a state is the manager's own, so
  that deleting it deletes no other's. The action property follows: values change in an idle element or at its due
  timer, where the shelter of a lease is an orphan. An update that waits ends its wait for the same reason only by
  being made: every other way out of `kCacheUpdateProtected` is the callback of another timer of
  the element, which is an orphan.
* `PromptTickProofs` asks who leaves the first orphan: `OrphanOnlyByLateReadAlways` says that it is a read of
  an element that is `Overdue`, between the end of its lease and `tick()`. No update does (it throws there, and
  elsewhere `stop_expire()` deletes), and no callback. So the theorems need not assume that `tick()` is prompt, only
  that no read, or no operation, falls into that gap: `ReadsInTime` and `OpsInTime` are formulas `[][...]_vars` that
  say so of a behaviour, and leave the lag open. With `ReadsInTime`, `IInv` (the invariants above and
  `Orphans = {}`) is inductive (`InTimeInvariant`); hence `LeaseHonouredUnlessLate` and `NoPhantomUnlessLate`.
  `StoreImplementedUnlessLate` is the refinement, `Spec /\ OpsInTime => Store!Safety`: it
  maps `pend[k]` to the `op_id_` of an element in `kCacheUpdateProtected` and `Empty` elsewhere; initial
  states map to initial states and every step to a step or a stutter. `Held` is the extra
  invariant: a reader of an element that is not idle was told to rely on its value until the
  deadline, so a lease of the abstract store runs exactly as long as the timer. A late update would be
  refused although no lease is left, so here updates must be in time, too.
  `PromptInTime` closes the circle to the runs: with `TickFirst` every operation is in time, hence
  `LeaseHonouredWhenPrompt`, `NoPhantomWhenPrompt`, `NotThrownWhenPrompt` and `StoreImplemented`.
* `CacheServerProofs`: `ServerTypeCorrect` holds for any server and network. The other theorems hold for a
  late `tick()`, for callbacks that throw and for lost, reordered and doubled responses and acks;
  they exclude that the network doubles an update (`OkAppliedUnlessDoubled`,
  `RetryNotAppliedUnlessDoubled`, `AppliedOnceUnlessDoubled`) or any request
  (`NoStrayTimerUnlessDoubled`, which also says that no destroyed object is called). The
  invariant `FateInv` says that each operation is in one place: `Fresh` as long as it is not asked for or its
  request is under way; then waiting in `temp_value`, not made and not answered; then
  answered (`Given`: a response under way, one kept for resending, or one received). `Once` restricts
  it to the operations whose request is not doubled. The proof first shows that six kinds of abstract
  steps (`QuietStep`, `ReadStep`, `AnsweredStep`, `DeferStep`, `CallbackStep`, `SendStep`) keep
  `FateInv`, then that each action is one of them. `NoStrayTimer` follows: what is not yet given has no
  entry in `wait_acks`, so `emplace` never finds one.
  `CopyBrokenOnlyByOrphanAlways` has no hypothesis at all: at any lag, on any network, doubled updates and wrong peers
  included, the data a client was told, or may still be told, is current is replaced only where an orphan is. Its
  invariant `LeaseInv` joins `OwnTimers` with `Keyed` (whatever the server and the network know of an operation is
  about the
  cache id that was asked for) and `Sheltered` (each deadline that was told, is under way or is kept for
  resending is sheltered by a timer of the element). The value itself is not covered by the invariant, and could
  not be: a late `tick()` may have replaced it before.
* `PromptServerProofs` has the same for the server, where `ReadsInTime` and `RequestsInTime` speak of the reads,
  or the reads and updates, that `listen()` delivers. With `ReadsInTime`: `DeferredHeldUnlessLate` and
  `ClientCopyCurrentUnlessLate`, on any network, doubled requests included, and for both outcomes of the second
  lock. `PromptInv` needs four parts, and `Keyed`. `Matched`: a live timer is the one its manager waits for and due when
  the manager believes, since a handler in time deletes the one it replaces.
  `PendingKept`: `temp_value_` of a waiting element is the value of the update in `op_id_`. `DeferredHeld`,
  which needs `Keyed` (an operation is about one cache id): two waiting elements never share
  a request, so erasing one does not lose the other. `Covered`: a deadline somebody was
  told, or that is under way or kept for resending, lies within the lease of an element that still
  has the data. Values change only in an idle element, or when the deadline has passed.
* `OkAppliedUnlessLate`, in the same module: an update that is answered *ok* was made, also where the
  network doubles updates, which `OkAppliedUnlessDoubled` excludes. `FateInv` is of no use then, as
  an operation may be in two places; `OkMade` (an *ok* anybody is given was made) is inductive with `PromptInv`
  instead: the *ok* of a deferred update is sent by the callback of the element that has just stored
  the value kept for it (`PendingKept`).
* `PromptServerProofs` also proves `ServiceKeptUnlessLate`: if no request is late (`RequestsInTime`) and the
  network doubles none (`SingleRequests`), `CacheServer` implements `LeasedService`. The refinement maps `open` to
  the requests that are still in the network, `pend[k]` to the `op_id_` of an element in `kCacheUpdateProtected`,
  and `answers[op]` to what the responses to `op` say that are under way or kept for resending. So a
  resent or doubled response, an ack and every timer but that of a deferred update are stutters or
  an answer that is forgotten. `ServerInv` joins the invariants above (`FateInv` for "served once",
  `PromptInv` for "the value may change") with `Valued`: an element that is not idle has a value. One
  lemma per action gives the abstract step. A late update gets an exception instead of an answer, which
  `LeasedService` does not have.
* `NoneForgottenProofs`: `NoneForgottenUnlessLate`. A request that has no answer yet still has a way to get
  one: it is under way, or it waits in the server, or a response is on its way or kept for resending. This is what
  a lost datagram could really destroy, and the safety part of `Answered`. It needs all its hypotheses: no late
  request (a late update throws, and after a late read a deferred one may be lost), one client (the server answers
  the last sender, `CacheServerWrongPeer`), no request lost or doubled (the client does not send again) and one
  fault, because the server sends a response twice and no more. The inductive invariant is `AllSecure` with
  `AcksTold`: as long as no fault has
  happened an answered request has its answer twice (`Twice`: the first response, and the entry of
  `wait_acks` or the resent response), so that a single fault leaves one; and an ack is only under way for a
  request whose callback has been called, so that it erases no response that is needed.
* For `TickFirst`, which the passing runs of the server except `CacheServerLag` assume, `PromptInTime` says that every
  request is in time: an element that is not idle has a timer due at `expire_time_` (`OwnTimers`), and nothing is
  due when `listen()` delivers. So each of these theorems has a corollary, `...WhenPrompt`. The loop of
  `sample/server.cc` only comes close to `TickFirst`, as it waits up to 30 ms in `listen()`; the
  `...UnlessLate` theorems hold of each of its runs in which no request falls into the gap.
* `TimerQueueProofs`: `TimerTypeCorrect` for any threads and capacity; `AstrayOnlyInAddIfAlone` and
  `NeverEarlyIfAlone` for one thread in `tick()`; `LostOnlyInAddIfRoomy` if the vector has room for all timers as well.
  The invariant `QueueInv` has three parts. `Fronted`: unless somebody is moving timers, `front` is one of the earliest
  timers, or the heap is empty; `add_timer` leaves slot 0 null only for a timer that is due before all others.
  `Found`: a ticker past `TickEnter` has a heap that is not empty, and one past `TickCheck` an
  earliest timer that has expired, since another thread can only add to the heap. `Unmoved`: with room, no
  reference dangles. With room only the look without the lock can fail, and only while another thread is in the middle
  of an `add_timer` of an earlier timer: the body of the loop always finds a timer. A `tick()` that
  is lost runs nothing in the model, so `NeverEarlyIfAlone` needs no room. `DeletedSilentAlways` holds for any
  number of threads and any capacity: a callback only runs for a timer somebody still has, not after `del_timer`
  has returned and not more often than asked
  for. Its invariant `Owned` says that a timer in the heap that is not marked is one a user still has, although
  addresses are used again.
* `MessageClientProofs`: `ClientTypeCorrect`, `MachineIdsMeet`, `TruncatedIdsDifferAlways`,
  `AckOfCalledAlways`, `CalledUntilAckedAlways` hold for all clients, keys and ranges and a clock
  that is set back at will. `Window` counts sequences: two calls less than `SequenceRange` apart differ in
  their sequence by as many steps as lie between them. `Linked` ties `requests_` to `calls`, and
  `Genuine` the datagrams to the calls they are about. `IdsDifferIfApart`,
  `AnswerIsMineIfApart` and `RequestKeptIfApart` assume `Apart` (machine ids differ, and
  no client makes more calls in a millisecond than the sequence has values) and speak of a clock that
  has been steady so far. `InTime` says that the calls of this millisecond are the last `burst[c]`
  ones, so two equal ids would lie in one window. From ids that differ follows that an entry of
  `requests_` and a response with its id belong to one call.

Only model-checked: liveness (`DeferredIsCalled`, `Answered`, `TimerServed`, the fairness part of
`StoreSpec`), since the prover handles neither ENABLED nor fairness. For `Answered` and `DeferredIsCalled` the safety
they rest on is proved: no request is forgotten (`NoneForgottenUnlessLate`), and a wait ends by being
made (`WaitKeptUnlessOrphanAlways`). What is left to the model checker is that the enabled step is taken.

## Not modelled

* Serialization, magic numbers and the checks of `header_available`; message types without a
  handler: none of them changes state. The cut of deadlines to 32 bits, which the client's 32-bit
  difference undoes.
* netLink, a library that is not in the repository, and with it the order of sockets in one
  `listen()`; logging; build files; checks for null arguments.
* Several threads inside a `CacheElement` or the map of the data center:
  `std::string` and `std::map` are read and written without a lock there, so the outcomes are
  undefined and nothing could be stated of them; the sample programs have one thread.
* A send of the server that throws: an exception out of `do_send_cache_message` would leave the handler, or `tick()`
  with the timer still in front, as a throwing callback does (`TickThrows`).
* Two threads in `tick()` are in `TimerQueue` but not in the runs: both may find the same timer expired. The
  theorems that need a single one say so (`Alone`).
* The contents of memory after it was freed: the model stops at a use after free, except for
  the wait-ack and deferred entries that are erased one line before they are read, whose bytes
  are taken as intact.
* The clients of `CacheServer` have ids that differ; what becomes of ids that meet is shown for
  `MessageClient`, against any server, and not for the two together.

## Plan

The modules above are what was planned, each with its runs and theorems. A next step would be
`CacheServer` over `MessageClient` in place of its own clients, so that ids that meet reach the server.
