------------------------------ MODULE TimerHeap ------------------------------
(***************************************************************************)
(* TimerQueue::timer_queue_, the heap of EventTimers, as a value: a        *)
(* function from the addresses in use (a timer id is the timer's address)  *)
(* to timers.  A timer is a record with at least                           *)
(*    left    milliseconds until expire_time_, negative once it is overdue *)
(*    repeat  repeat_, the runs still due; 0 marks a deleted timer         *)
(* std::push_heap and std::pop_heap keep a timer with the least            *)
(* expire_time_ in front and leave the order of equal ones open: Fronts is *)
(* the set of timers that may stand there.  Time is counted down in the    *)
(* timers and not up in a clock, which keeps the queue finite.             *)
(***************************************************************************)
EXTENDS Integers, Functions

\* add_timer: emplace_back and push_heap under the address i.
AddTimer(queue, i, timer) ==
  [j \in DOMAIN queue \cup {i} |-> IF j = i THEN timer ELSE queue[j]]

\* del_timer: the loop marks the timer with this id, if there is one; the timer
\* stays in the heap until tick() finds it in front.
DelTimer(queue, i) ==
  [j \in DOMAIN queue |-> IF j = i THEN [queue[j] EXCEPT !.repeat = 0] ELSE queue[j]]

\* pop_heap and pop_back of the front timer i.
PopTimer(queue, i) == Restrict(queue, DOMAIN queue \ {i})

\* The timers that may be timer_queue_.front().
Fronts(queue) ==
  {i \in DOMAIN queue : \A j \in DOMAIN queue : queue[i].left <= queue[j].left}

\* Mutant: > for >= in EventTimer::expired().
FrontOverdue(queue) == \E i \in DOMAIN queue : queue[i].left < 0

\* EventTimer::expired() of the front timer, the loop condition of tick(): it has the least
\* deadline, so it has expired if any has.
FrontExpired(queue) == \E i \in DOMAIN queue : queue[i].left <= 0

\* One millisecond passes.
Elapsed(queue) == [i \in DOMAIN queue |-> [queue[i] EXCEPT !.left = @ - 1]]
==============================================================================
