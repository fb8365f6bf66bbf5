------------------------------ MODULE TimerQueue ------------------------------
(***************************************************************************)
(* TimerQueue (timer_queue.h, timer_queue.cc) called from several threads. *)
(* add_timer, del_timer and the body of the loop of tick() hold mutex_.    *)
(* tick() asks without it whether the vector is empty, takes a reference   *)
(* to slot 0, and looks there whether the timer has expired.  push_heap    *)
(* and pop_heap move unique_ptrs, and leave slot 0 null for a while: each  *)
(* is two steps, and what tick() does without the lock may come between.   *)
(* A tick() that looks at a null slot or into a buffer that was freed is   *)
(* lost.  A callback that calls the queue again is the subject of          *)
(* CacheStateManager; here a callback only runs.                           *)
(***************************************************************************)
EXTENDS TimerHeap, FiniteSets

CONSTANTS
  Ticker,      \* threads that call tick() in a loop
  User,        \* threads that call add_timer and del_timer
  TimerId,     \* addresses the allocator may give an EventTimer (bounds the heap)
  NoTimer,     \* slot 0 of an empty vector, or a unique_ptr that was moved from
  MaxTimeout,  \* bounds timeout_ms
  MaxRepeat,   \* bounds repeat
  MaxLag,      \* how late, in clock units, the front timer may be
  Reserved     \* the capacity the vector has from earlier use

ASSUME TimeoutAssumption == MaxTimeout \in Nat /\ MaxRepeat \in Nat \ {0} /\ MaxLag \in Nat
ASSUME NoTimerAssumption == NoTimer \notin TimerId
ASSUME ReservedAssumption == Reserved \in Nat

VARIABLES
  timer_queue,  \* timer_queue_, a heap of TimerHeap
  front,        \* the timer in slot 0
  adding,       \* the timer add_timer is moving up, as long as it holds mutex_
  capacity,     \* of the vector
  pc,           \* where each ticker is in tick()
  dangling,     \* tickers whose reference is into a buffer that was freed
  mine          \* the timers each user added and has neither deleted nor seen finish

vars == <<timer_queue, front, adding, capacity, pc, dangling, mine>>

Timer == [left : Int, timeout : 0..MaxTimeout, repeat : 0..MaxRepeat]

Init ==
  /\ timer_queue = [i \in {} |-> NoTimer]
  /\ front = NoTimer
  /\ adding = NoTimer
  /\ capacity = Reserved
  /\ pc = [t \in Ticker |-> "out"]
  /\ dangling = {}
  /\ mine = [u \in User |-> {}]

------------------------------------------------------------------------------
\* Nobody holds mutex_.
Unlocked == adding = NoTimer /\ \A t \in Ticker : pc[t] # "moving"

\* What push_heap leaves in slot 0 until timer i has its place: nothing, if i is due before
\* the front timer, which has moved down.  The only timer may be moved out and back.
FrontInPush(queue, i) ==
  IF DOMAIN queue = {} THEN {i, NoTimer}
  ELSE IF timer_queue'[i].left < queue[front].left THEN {NoTimer} ELSE {front}

\* emplace_back: a full vector moves to a buffer of twice the size.
Grow ==
  IF Cardinality(DOMAIN timer_queue) < capacity
    THEN UNCHANGED <<capacity, dangling>>
    ELSE /\ capacity' = IF capacity = 0 THEN 1 ELSE 2 * capacity
         /\ dangling' = dangling \cup {t \in Ticker : pc[t] # "out"}

\* add_timer up to the moves of push_heap.
AddPush(u, timeout, repeat) ==
  /\ Unlocked
  /\ \E i \in TimerId \ DOMAIN timer_queue :
       /\ timer_queue' = AddTimer(timer_queue, i,
                           [left |-> timeout, timeout |-> timeout, repeat |-> repeat])
       /\ front' \in FrontInPush(timer_queue, i)
       /\ adding' = i
       /\ mine' = [mine EXCEPT ![u] = @ \cup {i}]
  /\ Grow
  /\ UNCHANGED pc

\* push_heap puts the new timer in its place; add_timer returns.
AddPlace ==
  /\ adding # NoTimer
  /\ front' = IF front = NoTimer THEN adding ELSE front
  /\ adding' = NoTimer
  /\ UNCHANGED <<timer_queue, capacity, pc, dangling, mine>>

\* Mutant: one run of the timer is cancelled, not all of them.
DelOne(u, i) ==
  /\ Unlocked /\ i \in mine[u]
  /\ timer_queue' = [timer_queue EXCEPT ![i].repeat = @ - 1]
  /\ mine' = [mine EXCEPT ![u] = @ \ {i}]
  /\ UNCHANGED <<front, adding, capacity, pc, dangling>>

Del(u, i) ==
  /\ Unlocked /\ i \in mine[u]
  /\ timer_queue' = DelTimer(timer_queue, i)
  /\ mine' = [mine EXCEPT ![u] = @ \ {i}]
  /\ UNCHANGED <<front, adding, capacity, pc, dangling>>

------------------------------------------------------------------------------
\* tick() finds the vector not empty and takes the reference, without the lock.
TickEnter(t) ==
  /\ pc[t] = "out"
  /\ timer_queue # [i \in {} |-> NoTimer]
  /\ pc' = [pc EXCEPT ![t] = "check"]
  /\ UNCHANGED <<timer_queue, front, adding, capacity, dangling, mine>>

Leave(t) == pc' = [pc EXCEPT ![t] = "out"] /\ dangling' = dangling \ {t}

GoTo(t, label) == pc' = [pc EXCEPT ![t] = label] /\ UNCHANGED dangling

\* The reference leads into a freed buffer or to a slot without a timer.
Astray(t) == t \in dangling \/ front = NoTimer

\* timer->expired() or timer->repeat_ of a timer that is not there: tick() is lost.
TickAstray(t) ==
  /\ pc[t] = "check" \/ (pc[t] = "locked" /\ Unlocked)
  /\ Astray(t)
  /\ GoTo(t, "lost")
  /\ UNCHANGED <<timer_queue, front, adding, capacity, mine>>

\* while (timer->expired()), without the lock.
TickCheck(t) ==
  /\ pc[t] = "check" /\ ~Astray(t)
  /\ IF timer_queue[front].left <= 0 THEN GoTo(t, "locked") ELSE Leave(t)
  /\ UNCHANGED <<timer_queue, front, adding, capacity, mine>>

\* Mutant: repeat_ is decremented also if the timer was deleted.
RunsLeftAlways == timer_queue[front].repeat - 1

\* Mutant: repeat_ is not decremented if more runs are due.
RunsLeftSame == IF timer_queue[front].repeat > 1 THEN timer_queue[front].repeat ELSE 0

\* if (timer->repeat_ > 0) { callback; repeat_--; }
RunsLeft == IF timer_queue[front].repeat > 0 THEN timer_queue[front].repeat - 1 ELSE 0

\* The body of the loop, with the lock, up to the moves of pop_heap and push_heap: it works on
\* slot 0 as it is now, and the slot is null, or has the next timer, until they are done.  The
\* owner of a timer learns from the last callback that it is gone.
TickRun(t) ==
  /\ pc[t] = "locked" /\ Unlocked /\ ~Astray(t)
  /\ IF RunsLeft = 0
       THEN /\ timer_queue' = PopTimer(timer_queue, front)
            /\ mine' = [u \in User |-> mine[u] \ {front}]
       ELSE /\ timer_queue' = [timer_queue EXCEPT ![front].repeat = RunsLeft,
                                                  ![front].left = timer_queue[front].timeout]
            /\ UNCHANGED mine
  /\ front' \in Fronts(PopTimer(timer_queue, front)) \cup {NoTimer}
  /\ GoTo(t, "moving")
  /\ UNCHANGED <<adding, capacity>>

\* Any timer that is due first may be in slot 0 after pop_heap and push_heap.
SetFront ==
  IF DOMAIN timer_queue = {} THEN front' = NoTimer ELSE front' \in Fronts(timer_queue)

\* Mutant: the condition of the loop is not looked at again.
LoopUnchecked(t) == IF front' = NoTimer THEN Leave(t) ELSE GoTo(t, "locked")

\* Mutant: an empty vector does not end the loop.
LoopOnEmpty(t) == GoTo(t, "check")

\* if (timer_queue_.empty()) break;
Loop(t) == IF front' = NoTimer THEN Leave(t) ELSE GoTo(t, "check")

\* The end of the body.
TickPlace(t) ==
  /\ pc[t] = "moving"
  /\ SetFront
  /\ Loop(t)
  /\ UNCHANGED <<timer_queue, adding, capacity, mine>>

Elapse ==
  /\ \A i \in DOMAIN timer_queue : timer_queue[i].left > -MaxLag
  /\ timer_queue' = Elapsed(timer_queue)
  /\ UNCHANGED <<front, adding, capacity, pc, dangling, mine>>

Tick(t) == TickEnter(t) \/ TickAstray(t) \/ TickCheck(t) \/ TickRun(t) \/ TickPlace(t)

Next ==
  \/ \E u \in User, timeout \in 0..MaxTimeout, repeat \in 1..MaxRepeat :
       AddPush(u, timeout, repeat)
  \/ AddPlace
  \/ \E u \in User, i \in TimerId : Del(u, i)
  \/ \E t \in Ticker : Tick(t)
  \/ Elapse

Spec == Init /\ [][Next]_vars

\* Tickers call tick() in a loop, add_timer returns, and the clock runs.  That a ticker gets
\* the lock in the end is no assumption: it frees the addresses that more add_timer need.
FairSpec ==
  Spec /\ WF_vars(Elapse) /\ WF_vars(AddPlace) /\ \A t \in Ticker : WF_vars(Tick(t))

------------------------------------------------------------------------------
TypeOK ==
  /\ \E ids \in SUBSET TimerId : timer_queue \in [ids -> Timer]
  /\ front \in TimerId \cup {NoTimer}
  /\ adding \in TimerId \cup {NoTimer}
  /\ capacity \in Nat
  /\ pc \in [Ticker -> {"out", "check", "locked", "moving", "lost"}]
  /\ dangling \subseteq Ticker
  /\ mine \in [User -> SUBSET TimerId]

\* What tick() looks at is there, whatever it does itself and other threads delete: it is only
\* lost to an add_timer, one that has moved the vector while tick() was inside, or one that is
\* just now putting a timer into slot 0 that is due before all others.
AstrayOnlyInAdd ==
  \A t \in Ticker :
    pc[t] \in {"check", "locked"} /\ Astray(t)
      => t \in dangling \/ (adding # NoTimer /\ Fronts(timer_queue) = {adding})

\* The claim of timer_queue.h that the timer is threadsafe, for tick(): where it has found a
\* timer it finds one until it has looked at it.
ReferenceStays ==
  [][\A t \in Ticker :
       pc[t] = "check" /\ pc'[t] = "check" /\ ~Astray(t) => ~Astray(t)']_vars

\* A callback runs when the timeout of its timer has passed, not before: the timer that is
\* run is the timer that was found expired, or one that is due before it.
NeverEarly ==
  [][\A t \in Ticker : TickRun(t) /\ timer_queue[front].repeat > 0
       => timer_queue[front].left <= 0]_vars

\* A callback runs only for a timer that somebody still has: not after del_timer, also if the
\* timer was found expired before, and not more often than it was asked for.
DeletedSilent ==
  [][\A t \in Ticker : TickRun(t) /\ timer_queue[front].repeat > 0
       => \E u \in User : front \in mine[u]]_vars

\* A timer that is waited for leaves the heap, unless tick() is lost: it has run as often as it
\* should, or was deleted, however many timers other threads add.
TimerServed ==
  \A i \in TimerId :
    i \in DOMAIN timer_queue ~> i \notin DOMAIN timer_queue \/ \E t \in Ticker : pc[t] = "lost"
===============================================================================
