----------------------------- MODULE AtLeastOnce -----------------------------
(***************************************************************************)
(* What durable events promise (apps/docs/guide/data-jobs.md, "Delivery    *)
(* contract"), without outbox, queue, lease or worker: an event committed  *)
(* with its business transaction is delivered to a handler up to           *)
(* MaxAttempts times, to one handler at a time; it is completed only after *)
(* a handler returned and given up only after the last attempt.            *)
(***************************************************************************)
EXTENDS Integers

CONSTANTS Events, MaxAttempts

VARIABLES
  committed,   \* events whose business transaction committed
  deliveries,  \* how often each event was handed to a worker
  executing,   \* events that a worker works on now
  returned,    \* events some handler run of which returned
  outcome      \* what the platform has recorded of each event

vars == <<committed, deliveries, executing, returned, outcome>>

Outcomes == {"open", "completed", "dead"}

Init ==
  /\ committed = {}
  /\ deliveries = [e \in Events |-> 0]
  /\ executing = {}
  /\ returned = {}
  /\ outcome = [e \in Events |-> "open"]

Commit(e) ==
  /\ e \notin committed
  /\ committed' = committed \cup {e}
  /\ UNCHANGED <<deliveries, executing, returned, outcome>>

\* The delivery may be lost before the worker learns of it.
Deliver(e) ==
  /\ e \in committed \ executing
  /\ outcome[e] = "open" /\ deliveries[e] < MaxAttempts
  /\ deliveries' = [deliveries EXCEPT ![e] = @ + 1]
  /\ executing' \in {executing, executing \cup {e}}
  /\ UNCHANGED <<committed, returned, outcome>>

Return(e) ==
  /\ e \in executing
  /\ returned' = returned \cup {e}
  /\ UNCHANGED <<committed, deliveries, executing, outcome>>

May(e, o) ==
  CASE o = "completed" -> e \in returned
    [] o = "dead"      -> deliveries[e] = MaxAttempts
    [] o = "open"      -> outcome[e] = "open" \/ deliveries[e] < MaxAttempts

\* The attempt ends or its outcome is recorded; when answers are lost an
\* outcome may be recorded after the attempt, and recorded anew.
Conclude(e) ==
  /\ deliveries[e] > 0
  /\ \E o \in Outcomes :
       /\ May(e, o)
       /\ outcome' = [outcome EXCEPT ![e] = o]
  /\ executing' \in {executing, executing \ {e}}
  /\ UNCHANGED <<committed, deliveries, returned>>

Next == \E e \in Events : Commit(e) \/ Deliver(e) \/ Return(e) \/ Conclude(e)

Spec == Init /\ [][Next]_vars
=============================================================================
