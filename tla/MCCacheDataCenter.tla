-------------------------- MODULE MCCacheDataCenter --------------------------
(* CacheDataCenter for TLC. *)
EXTENDS CacheDataCenter, TLC

\* Addresses and the ids of ordinary updates are interchangeable.
Symmetry == Permutations(TimerId) \cup Permutations(OpId \ {ZeroOp})
==============================================================================
