------------------------------ MODULE TaskPool ------------------------------
(***************************************************************************)
(* services/function-host/src/pool.ts: run() limits how many tasks are     *)
(* under way. JavaScript runs one microtask at a time, to its next await;  *)
(* a microtask queue that is empty lets the event loop take its next turn. *)
(* The model keeps that order: a slot that finally frees is taken by the   *)
(* waiter it wakes only when the waiter's own microtask comes up.          *)
(***************************************************************************)
EXTENDS Integers, Sequences, FiniteSets

CONSTANTS
  Tasks,        \* the calls of run()
  Concurrency,  \* constructor argument
  MaxBurst,     \* promises that one turn of the event loop may settle
  Prompt,       \* tasks whose promise is settled when task() returns it
  Chained       \* calls made by a caller that awaited an earlier call

ASSUME PoolAssumption ==
  /\ IsFiniteSet(Tasks)
  /\ Concurrency \in Nat \ {0}
  /\ MaxBurst \in Nat \ {0}
  /\ Prompt \subseteq Tasks
  /\ Chained \subseteq Tasks

VARIABLES
  active,   \* this.active
  queue,    \* this.queue: the waiting calls
  ready,    \* the microtask queue: a call stands for its next microtask
  phase,    \* how far each call is
  barged    \* ghost: calls that took a slot meant for a woken waiter

vars == <<active, queue, ready, phase, barged>>

Phases == {"new", "called", "waiting", "woken", "running", "settled", "done"}

In(p) == {t \in Tasks : phase[t] = p}

\* Tasks under way: task() was called, finally has not run.
Running == In("running") \cup In("settled")

TypeOK ==
  /\ active \in Nat
  /\ queue \in Seq(Tasks)
  /\ ready \in Seq(Tasks)
  /\ phase \in [Tasks -> Phases]
  /\ barged \in Nat

Init ==
  /\ active = 0
  /\ queue = <<>>
  /\ ready = <<>>
  /\ phase = [t \in Tasks |-> "new"]
  /\ barged = 0

-----------------------------------------------------------------------------
\* One turn of the event loop settles promises: those of tasks under way, and
\* those that callers await before they call run().
Bursts == {s \in UNION {[1 .. n -> Tasks] : n \in 1 .. MaxBurst} :
             \A i, j \in DOMAIN s : s[i] = s[j] => i = j}

Turn(s) ==
  /\ ready = <<>>
  /\ \A i \in DOMAIN s : s[i] \in (In("new") \ Chained) \cup In("running")
  /\ ready' = s
  /\ phase' = [t \in Tasks |->
                 IF \E i \in DOMAIN s : s[i] = t
                   THEN IF phase[t] = "new" THEN "called" ELSE "settled"
                   ELSE phase[t]]
  /\ UNCHANGED <<active, queue, barged>>

-----------------------------------------------------------------------------
AtHead(t, p) == ready # <<>> /\ Head(ready) = t /\ phase[t] = p

\* Mutants (named Bad...): plausible mistakes that the properties must catch.
BadBegin(t) ==               \* a start that is not counted
  /\ UNCHANGED active
  /\ ready' = Tail(ready) /\ phase' = [phase EXCEPT ![t] = "running"]

\* this.active += 1; await task()
Begin(t) ==
  /\ active' = active + 1
  /\ IF t \in Prompt
       THEN ready' = Append(Tail(ready), t) /\ phase' = [phase EXCEPT ![t] = "settled"]
       ELSE ready' = Tail(ready) /\ phase' = [phase EXCEPT ![t] = "running"]

BadFull == active > Concurrency       \* room for one more
BadFullEarly == active >= Concurrency - 1   \* one slot is never used

Full == active >= Concurrency

\* run(): wait in the queue when the pool is full ...
Wait(t) ==
  /\ AtHead(t, "called")
  /\ Full
  /\ queue' = Append(queue, t)
  /\ ready' = Tail(ready)
  /\ phase' = [phase EXCEPT ![t] = "waiting"]
  /\ UNCHANGED <<active, barged>>

\* ... or start at once, also when a woken waiter has not counted itself yet.
StartNow(t) ==
  /\ AtHead(t, "called")
  /\ ~Full
  /\ Begin(t)
  /\ barged' = IF In("woken") = {} THEN barged ELSE barged + 1
  /\ UNCHANGED queue

\* The waiter's promise was resolved: it starts without a second look.
Resume(t) ==
  /\ AtHead(t, "woken")
  /\ Begin(t)
  /\ UNCHANGED <<queue, barged>>

BadWake == {}                \* a task that rejects does not reach the shift()

\* this.queue.shift()?.()
Wake == IF queue = <<>> THEN {} ELSE {Head(queue)}

\* finally: free the slot and wake the longest waiter, whose microtask is next
\* after those that are ready already.
Leave(t, again) ==
  /\ AtHead(t, "settled")
  /\ active' = active - 1
  /\ queue' = IF Wake = {} THEN queue ELSE Tail(queue)
  /\ phase' = [u \in Tasks |-> CASE u = t       -> "done"
                                 [] u \in Wake  -> "woken"
                                 [] u \in again -> "called"
                                 [] OTHER       -> phase[u]]
  /\ UNCHANGED barged

Behind == IF Wake = {} THEN Tail(ready) ELSE Append(Tail(ready), Head(queue))

Return(t) ==
  /\ Leave(t, {})
  /\ ready' = Behind

\* The caller goes on after its await, and calls run() again.
ReturnAndCall(t, u) ==
  /\ u \in Chained \cap In("new")
  /\ Leave(t, {u})
  /\ ready' = Append(Behind, u)

Microtask(t) ==
  \/ Wait(t) \/ StartNow(t) \/ Resume(t)
  \/ Return(t) \/ \E u \in Tasks : ReturnAndCall(t, u)

Next == (\E s \in Bursts : Turn(s)) \/ (\E t \in Tasks : Microtask(t))

Spec == Init /\ [][Next]_vars

\* The event loop runs what is ready, and every task settles in the end:
\* runChild's timer resolves its promise if nothing else does.
Fairness ==
  /\ WF_vars(\E t \in Tasks : Microtask(t))
  /\ \A t \in Tasks : WF_vars(\E s \in Bursts : t \in In("running") /\ s[1] = t /\ Turn(s))

FairSpec == Spec /\ Fairness
-----------------------------------------------------------------------------
(* Properties                                                              *)

\* "never runs more than the configured concurrency" (pool.test.ts).
Bounded == Cardinality(Running) <= Concurrency

\* What run() really keeps: the pool is over its limit only by the calls that
\* came between the resolve() of a waiter and that waiter's microtask, and
\* found the slot still free.
OnlyBargingExceeds == Cardinality(Running) <= Concurrency + barged

\* No waiter is forgotten: as long as calls wait, every slot is in use or is
\* on its way to a waiter that was woken, also after tasks that rejected.
NoWaiterForgotten ==
  queue # <<>> => Cardinality(Running) + Cardinality(In("woken")) >= Concurrency

\* Every call gets its turn and finishes, whatever barges in.
EveryCallRuns == \A t \in Tasks : phase[t] = "called" ~> phase[t] = "done"
-----------------------------------------------------------------------------
(* The inductive invariant behind them                                     *)

\* The function host's use of the pool: requests and messages of children come
\* one to a turn of the event loop, and no request handler calls run() twice.
HostUse == MaxBurst = 1 /\ Chained = {}

PoolInv ==
  /\ active = Cardinality(Running)
  /\ active + Cardinality(In("woken")) <= Concurrency + barged
  /\ queue # <<>> => active + Cardinality(In("woken")) >= Concurrency

\* The queue lists calls that wait, each of them once.
QueueInv ==
  /\ \A i \in DOMAIN queue : phase[queue[i]] = "waiting"
  /\ \A i, j \in DOMAIN queue : queue[i] = queue[j] => i = j

IInv == TypeOK /\ PoolInv /\ QueueInv

\* In the function host's use a woken waiter is alone in the microtask queue.
HostInv ==
  /\ Len(ready) <= 1
  /\ \A t \in In("woken") : ready = <<t>>
  /\ barged = 0
=============================================================================
