---------------------------- MODULE MCTimerQueue ----------------------------
(* TimerQueue for TLC. *)
EXTENDS TimerQueue, TLC

\* Addresses and threads are interchangeable.
Symmetry == Permutations(TimerId) \cup Permutations(User) \cup Permutations(Ticker)
==============================================================================
