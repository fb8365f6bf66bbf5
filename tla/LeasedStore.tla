----------------------------- MODULE LeasedStore -----------------------------
(***************************************************************************)
(* What the cache promises, without timers: a value that somebody holds a  *)
(* lease on does not change; an update that meets a lease is accepted and  *)
(* made when every lease has run out; while it waits nobody gets a new     *)
(* lease and every other update is turned away.                            *)
(***************************************************************************)
EXTENDS Naturals

CONSTANTS
  Key,
  OpId,     \* updates; each writes a value of its own
  Op,       \* the operations outcome is kept for, OpId among them
  Empty,    \* no value
  Lease     \* the length of a lease

VARIABLES
  val,      \* the value of each key: the update that wrote it
  pend,     \* the update that waits for the leases of a key, or Empty
  lease,    \* lease[k][v]: how long v is still guaranteed to somebody
  outcome   \* what each update was told

vars == <<val, pend, lease, outcome>>

Value == OpId \cup {Empty}

Init ==
  /\ val = [k \in Key |-> Empty]
  /\ pend = [k \in Key |-> Empty]
  /\ lease = [k \in Key |-> [v \in Value |-> 0]]
  /\ outcome = [op \in Op |-> "none"]

Leased(k) == \E v \in Value : lease[k][v] > 0

Told(op, result) == outcome' = [outcome EXCEPT ![op] = result]

Grant(k, v) == lease' = [lease EXCEPT ![k][v] = Lease]

\* A read of a key no update waits for extends the guarantee on its value.
Read(k) ==
  /\ pend[k] = Empty
  /\ val[k] # Empty
  /\ Grant(k, val[k])
  /\ UNCHANGED <<val, pend, outcome>>

\* An update of a key without leases is made at once.
Write(k, op) ==
  /\ outcome[op] = "none" /\ Told(op, "ok")
  /\ pend[k] = Empty /\ ~Leased(k)
  /\ val' = [val EXCEPT ![k] = op]
  /\ Grant(k, op)
  /\ UNCHANGED pend

\* An update of a leased key is accepted for later.
Accept(k, op) ==
  /\ outcome[op] = "none" /\ Told(op, "defer")
  /\ pend[k] = Empty /\ Leased(k)
  /\ pend' = [pend EXCEPT ![k] = op]
  /\ UNCHANGED <<val, lease>>

\* A second update of the key has to be retried.
TurnAway(k, op) ==
  /\ outcome[op] = "none" /\ Told(op, "retry")
  /\ pend[k] # Empty
  /\ UNCHANGED <<val, pend, lease>>

\* An ill-formed update of a leased key is refused.
Refuse(k, op) ==
  /\ outcome[op] = "none" /\ Told(op, "thrown")
  /\ Leased(k) \/ pend[k] # Empty
  /\ UNCHANGED <<val, pend, lease>>

\* The accepted update is made once no lease is left, and its client gets a new one.
Commit(k) ==
  /\ pend[k] # Empty /\ ~Leased(k)
  /\ val' = [val EXCEPT ![k] = pend[k]]
  /\ pend' = [pend EXCEPT ![k] = Empty]
  /\ Grant(k, pend[k])
  /\ Told(pend[k], "called")

Elapse ==
  /\ lease' = [k \in Key |-> [v \in Value |->
                 IF lease[k][v] > 0 THEN lease[k][v] - 1 ELSE 0]]
  /\ UNCHANGED <<val, pend, outcome>>

Next ==
  \/ \E k \in Key : Read(k) \/ Commit(k)
  \/ \E k \in Key, op \in OpId : Write(k, op) \/ Accept(k, op) \/ TurnAway(k, op) \/ Refuse(k, op)
  \/ Elapse

Safety == Init /\ [][Next]_vars

\* An accepted update is made in the end.
Spec == Safety /\ \A k \in Key : WF_vars(Commit(k)) /\ WF_vars(Elapse)
==============================================================================
