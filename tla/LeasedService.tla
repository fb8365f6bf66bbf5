---------------------------- MODULE LeasedService ----------------------------
(***************************************************************************)
(* What the server promises its clients, without timers, acks and resends: *)
(* a request is served at most once, at one moment between the call and    *)
(* its answer, and the answer says what was true at that moment; a value   *)
(* that some answer, told or on its way, allows to be used does not        *)
(* change.  Answers may get lost, and so may the requests in LossyOp.      *)
(***************************************************************************)
EXTENDS Naturals

CONSTANTS
  Client, Key,
  OpId,       \* updates; each writes a value of its own
  ReadOp,     \* reads
  LossyOp,    \* requests that may get lost
  Empty,      \* no value
  NoRequest,
  Lease       \* the length of a lease

VARIABLES
  requests,   \* what was asked for: op -> [client, key]
  open,       \* requests that were not served yet
  val,        \* the value of each key: the update that wrote it
  pend,       \* the update that waits for the leases of a key, or Empty
  answers,    \* answers on their way: at most one for each request
  told,       \* what each client was told, with the time left of it
  applied     \* how often each update was made

vars == <<requests, open, val, pend, answers, told, applied>>

AnyOp == OpId \cup ReadOp

Answer(result, data, expire) == [result |-> result, data |-> data, expire |-> expire]
Unanswered == Answer("nothing", Empty, 0)

Init ==
  /\ requests = [op \in AnyOp |-> NoRequest]
  /\ open = {}
  /\ val = [k \in Key |-> Empty]
  /\ pend = [k \in Key |-> Empty]
  /\ answers = [op \in AnyOp |-> {}]
  /\ told = [op \in AnyOp |-> Unanswered]
  /\ applied = [op \in OpId |-> 0]

Call(c, op, k) ==
  /\ requests[op] = NoRequest
  /\ requests' = [requests EXCEPT ![op] = [client |-> c, key |-> k]]
  /\ open' = open \cup {op}
  /\ UNCHANGED <<val, pend, answers, told, applied>>

Lost(op) ==
  /\ op \in open \cap LossyOp
  /\ open' = open \ {op}
  /\ UNCHANGED <<requests, val, pend, answers, told, applied>>

------------------------------------------------------------------------------
(* The moment a request is served. *)

About(k) == {op \in AnyOp : requests[op] # NoRequest /\ requests[op].key = k}

\* Somebody may use the value of k, or will learn that he may.
Leased(k) ==
  \E op \in About(k) : \E a \in answers[op] \cup {told[op]} : a.result = "ok" /\ a.expire > 0

Serve(op, k) == op \in open \cap About(k) /\ open' = open \ {op}

Give(op, answer) == answers' = [answers EXCEPT ![op] = {answer}]

Make(k, op) ==
  /\ ~Leased(k)
  /\ val' = [val EXCEPT ![k] = op]
  /\ applied' = [applied EXCEPT ![op] = @ + 1]
  /\ Give(op, Answer("ok", op, Lease))

\* A read of a key no update waits for gets a lease.
Read(k, op) ==
  /\ Serve(op, k) /\ val[k] # Empty
  /\ Give(op, Answer("ok", val[k], IF pend[k] = Empty THEN Lease ELSE 0))
  /\ UNCHANGED <<requests, val, pend, told, applied>>

\* The answer without a value says nothing else.
ReadNothing(k, op) ==
  /\ Serve(op, k) /\ val[k] = Empty
  /\ \E data \in OpId \cup {Empty}, expire \in 0..Lease : Give(op, Answer("nodata", data, expire))
  /\ UNCHANGED <<requests, val, pend, told, applied>>

Write(k, op) ==
  /\ Serve(op, k) /\ pend[k] = Empty
  /\ Make(k, op)
  /\ UNCHANGED <<requests, pend, told>>

\* An update is accepted for later, and not answered.
Accept(k, op) ==
  /\ Serve(op, k) /\ pend[k] = Empty
  /\ pend' = [pend EXCEPT ![k] = op]
  /\ UNCHANGED <<requests, val, answers, told, applied>>

TurnAway(k, op) ==
  /\ Serve(op, k) /\ pend[k] # Empty
  /\ \E expire \in 0..Lease : Give(op, Answer("retry", op, expire))
  /\ UNCHANGED <<requests, val, pend, told, applied>>

\* The accepted update is made once no lease is left.
Commit(k) ==
  /\ pend[k] # Empty
  /\ Make(k, pend[k])
  /\ pend' = [pend EXCEPT ![k] = Empty]
  /\ UNCHANGED <<requests, open, told>>

------------------------------------------------------------------------------
(* Answers. *)

\* A client is told at most once; the answer may arrive again.
Tell(op, answer) ==
  /\ answer \in answers[op] /\ told[op] = Unanswered
  /\ told' = [told EXCEPT ![op] = answer]
  /\ \E rest \in SUBSET answers[op] : answers' = [answers EXCEPT ![op] = rest]
  /\ UNCHANGED <<requests, open, val, pend, applied>>

Forget(op) ==
  /\ \E rest \in SUBSET answers[op] : answers' = [answers EXCEPT ![op] = rest]
  /\ UNCHANGED <<requests, open, val, pend, told, applied>>

\* Time passes; a deadline that has passed stays at 0.
Later(expire) == IF expire > 0 THEN expire - 1 ELSE 0
Aged(answer) == [answer EXCEPT !.expire = Later(@)]

Elapse ==
  /\ answers' = [op \in AnyOp |-> {Aged(a) : a \in answers[op]}]
  /\ told' = [op \in AnyOp |-> Aged(told[op])]
  /\ UNCHANGED <<requests, open, val, pend, applied>>

Next ==
  \/ \E c \in Client, k \in Key, op \in AnyOp : Call(c, op, k)
  \/ \E k \in Key, op \in ReadOp : Read(k, op) \/ ReadNothing(k, op)
  \/ \E k \in Key, op \in OpId : Write(k, op) \/ Accept(k, op) \/ TurnAway(k, op)
  \/ \E k \in Key : Commit(k)
  \/ \E op \in AnyOp : Lost(op) \/ Forget(op) \/ \E answer \in answers[op] : Tell(op, answer)
  \/ Elapse

Spec == Init /\ [][Next]_vars
==============================================================================
