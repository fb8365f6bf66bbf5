---------------------------- MODULE MCCacheServer ----------------------------
(* CacheServer for TLC. *)
EXTENDS CacheServer, TLC

\* Addresses and the ids of requests are interchangeable.
Symmetry == Permutations(TimerId) \cup Permutations(OpId) \cup Permutations(ReadOp)
==============================================================================
