--------------------------- MODULE MCMessageClient ---------------------------
(* MessageClient for TLC. *)
EXTENDS MessageClient, TLC

CONSTANTS c1, c2

\* Two machines: the lowest datacenter ids that the mask tells apart.
FarDatacenter == c1 :> 0 @@ c2 :> 4
\* Two machines with ids the mask does not tell apart.
NearDatacenter == c1 :> 0 @@ c2 :> 1
\* One worker on each machine.
OneWorker == c1 :> 0 @@ c2 :> 0
==============================================================================
