----------------------------- MODULE Invocation -----------------------------
(***************************************************************************)
(* What happens to a call that Admission let in: the second half of        *)
(* POST /v1/invoke (services/gateway/src/server.ts) with its table of      *)
(* idempotency keys (store.ts), the function host that runs the call in a  *)
(* child process (function-host/src/server.ts, runner.ts), and the         *)
(* function's transaction in the application database.  A retry is a call  *)
(* of its own with the key of an earlier one.                              *)
(***************************************************************************)
EXTENDS Integers, FiniteSets

CONSTANTS
  Calls,      \* admitted calls
  Keys,       \* (project, subject, operation, idempotencyKey)
  NoKey,      \* of a call without an idempotencyKey
  Inputs,     \* digests of the requests
  KeyOf,
  InputOf,
  Slots,      \* concurrency of the host's pool
  MaxFaults,  \* bound on failing statements and lost processes
  None        \* no value yet

ASSUME InvocationAssumption ==
  /\ KeyOf \in [Calls -> Keys \cup {NoKey}]
  /\ InputOf \in [Calls -> Inputs]
  /\ NoKey \notin Keys /\ None \notin Calls
  /\ \A i \in Inputs, c \in Calls : [input |-> i, of |-> c] # None
  /\ \A c \in Calls \cup {None}, s \in {"ok", "cached", "conflict", "failed"} :
       [status |-> s, of |-> c] # None
  /\ IsFiniteSet(Calls) /\ Slots \in Nat \ {0} /\ MaxFaults \in Nat

VARIABLES
  pc,        \* where the Gateway's handler of each call is
  reply,     \* what the caller was answered
  answer,    \* the host's HTTP response
  cache,     \* the table idempotency
  late,      \* INSERTs into it whose answer was lost and that may still execute
  host,      \* the call in the host's pool
  child,     \* its child process
  message,   \* the child's message to the host
  sent,      \* COMMITs on the way to the application database
  effects,   \* calls whose transaction has been committed
  promised,  \* ghost: calls received after a success for their key was answered
  faults     \* ghost: failures so far

gateway == <<pc, reply, cache, late, promised>>
process == <<host, child, message>>
vars == <<gateway, process, answer, sent, effects, faults>>

Row == [input : Inputs, of : Calls]
Reply == [status : {"ok", "cached", "conflict", "failed"}, of : Calls \cup {None}]
Outcomes == {"none", "ok", "void", "error"}
Handling == {"lookup", "connect", "fetch", "audit", "store", "stored"}

TypeOK ==
  /\ pc \in [Calls -> Handling \cup {"new", "done", "lost"}]
  /\ reply \in [Calls -> Reply \cup {None}]
  /\ answer \in [Calls -> Outcomes]
  /\ cache \in [Keys -> Row \cup {None}]
  /\ late \subseteq Calls
  /\ host \in [Calls -> {"none", "waiting", "running", "over"}]
  /\ child \in [Calls -> {"none", "begun", "committing", "over"}]
  /\ message \in [Calls -> Outcomes]
  /\ sent \subseteq Calls
  /\ effects \subseteq Calls
  /\ promised \subseteq Calls
  /\ faults \in 0 .. MaxFaults

Init ==
  /\ pc = [c \in Calls |-> "new"]
  /\ reply = [c \in Calls |-> None]
  /\ answer = [c \in Calls |-> "none"]
  /\ cache = [k \in Keys |-> None]
  /\ late = {}
  /\ host = [c \in Calls |-> "none"]
  /\ child = [c \in Calls |-> "none"]
  /\ message = [c \in Calls |-> "none"]
  /\ sent = {}
  /\ effects = {}
  /\ promised = {}
  /\ faults = 0

-----------------------------------------------------------------------------
(* The Gateway before the call                                             *)
Goto(c, place) == pc' = [pc EXCEPT ![c] = place] /\ UNCHANGED reply

Answer(c, status, of) ==
  /\ pc' = [pc EXCEPT ![c] = "done"]
  /\ reply' = [reply EXCEPT ![c] = [status |-> status, of |-> of]]

Fault == faults < MaxFaults /\ faults' = faults + 1
NoFault == UNCHANGED faults

HasKey(c) == KeyOf[c] # NoKey

Succeeded(c) == reply[c] # None /\ reply[c].status \in {"ok", "cached"}

\* Somebody with the same key was told of a success.
Answered(c) == \E b \in Calls : KeyOf[b] = KeyOf[c] /\ Succeeded(b)

Receive(c) ==
  /\ pc[c] = "new"
  /\ Goto(c, IF HasKey(c) THEN "lookup" ELSE "connect")
  /\ promised' = IF HasKey(c) /\ Answered(c) THEN promised \cup {c} ELSE promised
  /\ NoFault /\ UNCHANGED <<cache, late, answer, process, sent, effects>>

\* Mutants (named Bad...): plausible mistakes that the properties must catch.
BadLookupFailed(c) == Goto(c, "connect")   \* run it when the lookup fails

\* The catch around cachedResponse() takes every error for a conflict.
LookupFailed(c) == Answer(c, "conflict", None)

\* cachedResponse(): the stored response, a conflict, or nothing yet.
Lookup(c) ==
  /\ pc[c] = "lookup"
  /\ \/ /\ cache[KeyOf[c]] = None
        /\ Goto(c, "connect")
        /\ NoFault
     \/ /\ cache[KeyOf[c]] # None /\ cache[KeyOf[c]].input = InputOf[c]
        /\ Answer(c, "cached", cache[KeyOf[c]].of)
        /\ NoFault
     \/ /\ cache[KeyOf[c]] # None /\ cache[KeyOf[c]].input # InputOf[c]
        /\ LookupFailed(c)
        /\ NoFault
     \/ /\ Fault
        /\ LookupFailed(c)
  /\ UNCHANGED <<cache, late, promised, answer, process, sent, effects>>

\* connection(), then fetch(): the host's handler takes the call to its pool.
Fetch(c) ==
  /\ pc[c] = "connect"
  /\ Goto(c, "fetch")
  /\ host' = [host EXCEPT ![c] = "waiting"]
  /\ NoFault /\ UNCHANGED <<cache, late, promised, answer, child, message, sent, effects>>

-----------------------------------------------------------------------------
(* The function host and its child processes                               *)
InPool(p) == {c \in Calls : host[c] = p}

Start(c) ==
  /\ host[c] = "waiting"
  /\ Cardinality(InPool("running")) < Slots
  /\ host' = [host EXCEPT ![c] = "running"]
  /\ child' = [child EXCEPT ![c] = "begun"]
  /\ NoFault /\ UNCHANGED <<gateway, answer, message, sent, effects>>

\* The handler reaches the end of its transaction.
SendCommit(c) ==
  /\ child[c] = "begun"
  /\ child' = [child EXCEPT ![c] = "committing"]
  /\ sent' = sent \cup {c}
  /\ NoFault /\ UNCHANGED <<gateway, answer, host, message, effects>>

\* The database executes a COMMIT, or rolls back; the child may be gone.
EndTransaction(c) ==
  /\ c \in sent
  /\ sent' = sent \ {c}
  /\ effects' \in {effects, effects \cup {c}}
  /\ NoFault /\ UNCHANGED <<gateway, answer, process>>

Send(c, m) ==
  /\ child' = [child EXCEPT ![c] = "over"]
  /\ message' = [message EXCEPT ![c] = m]
  /\ NoFault /\ UNCHANGED <<gateway, answer, host, sent, effects>>

\* executeInvocation() has a result, which may be undefined.
Return(c) ==
  /\ child[c] = "committing" /\ c \notin sent /\ c \in effects
  /\ \E m \in {"ok", "void"} : Send(c, m)

\* It has an error: bad input, an exception, a lost connection, or a result
\* that does not match the declared output after all was committed.
Throw(c) ==
  /\ child[c] \in {"begun", "committing"}
  /\ Send(c, "error")

\* It rejects, or the child dies: no message at all.
Vanish(c) ==
  /\ child[c] \in {"begun", "committing"}
  /\ Send(c, "none")

\* resolve(): frees the slot and answers the Gateway, if it still listens.
Resolve(c, outcome) ==
  /\ host' = [host EXCEPT ![c] = "over"]
  /\ answer' = [answer EXCEPT ![c] = IF pc[c] = "fetch" THEN outcome ELSE "none"]
  /\ child' = [child EXCEPT ![c] = "over"]
  /\ NoFault /\ UNCHANGED <<gateway, message, sent, effects>>

MessageArrives(c) ==
  /\ host[c] = "running" /\ message[c] # "none"
  /\ Resolve(c, message[c])

BadTimedOut == "ok"           \* resolves with an empty result
TimedOut == "error"

BadTimeout(c) ==              \* the timer does not resolve the promise
  /\ host[c] = "running" /\ message[c] # "none"
  /\ Resolve(c, TimedOut)

\* The timer of runChild(), also when a message is on its way: SIGKILL.  The
\* event 'error' of the child has the same effect.
Timeout(c) ==
  /\ host[c] = "running"
  /\ Resolve(c, TimedOut)

\* The host is restarted: its pool is gone, and its children with it.
HostRestarts ==
  /\ Fault
  /\ InPool("waiting") \cup InPool("running") # {}
  /\ host' = [c \in Calls |-> IF host[c] = "none" THEN "none" ELSE "over"]
  /\ child' = [c \in Calls |-> IF child[c] = "none" THEN "none" ELSE "over"]
  /\ UNCHANGED <<gateway, answer, message, sent, effects>>

-----------------------------------------------------------------------------
(* The Gateway after the call                                              *)
AnswerArrives(c) ==
  /\ pc[c] = "fetch" /\ answer[c] # "none"
  /\ Goto(c, "audit")
  /\ NoFault /\ UNCHANGED <<cache, late, promised, answer, process, sent, effects>>

\* AbortSignal.timeout() or a lost connection: 500.  The host goes on.
GiveUp(c) ==
  /\ pc[c] = "fetch"
  /\ Answer(c, "failed", None)
  /\ NoFault /\ UNCHANGED <<cache, late, promised, answer, process, sent, effects>>

BadAudited(c) ==              \* replies before the result is stored
  Answer(c, IF answer[c] = "error" THEN "failed" ELSE "ok", IF answer[c] = "error" THEN None ELSE c)

\* After the audit: an error is passed on, a result is stored under its key.
Audited(c) ==
  CASE answer[c] = "error" -> Answer(c, "failed", None)
    [] answer[c] # "error" /\ HasKey(c) -> Goto(c, "store")
    [] answer[c] # "error" /\ ~HasKey(c) -> Answer(c, "ok", c)

Audit(c) ==
  /\ pc[c] = "audit"
  /\ Audited(c)
  /\ NoFault /\ UNCHANGED <<cache, late, promised, answer, process, sent, effects>>

BadStored(c) ==               \* ON CONFLICT DO UPDATE
  [cache EXCEPT ![KeyOf[c]] = [input |-> InputOf[c], of |-> c]]
BadStoredEmpty(c) ==          \* a row without its response
  [cache EXCEPT ![KeyOf[c]] = [input |-> InputOf[c], of |-> None]]

\* storeResponse(): ON CONFLICT DO NOTHING.
Stored(c) ==
  IF cache[KeyOf[c]] = None
    THEN [cache EXCEPT ![KeyOf[c]] = [input |-> InputOf[c], of |-> c]]
    ELSE cache

\* JSON.stringify(undefined) is NULL, which the NOT NULL column refuses.
Store(c) ==
  /\ pc[c] = "store" /\ answer[c] = "ok"
  /\ Goto(c, "stored")
  /\ cache' = Stored(c)
  /\ NoFault /\ UNCHANGED <<late, promised, answer, process, sent, effects>>

StoreRefused(c) ==
  /\ pc[c] = "store" /\ answer[c] = "void"
  /\ Answer(c, "failed", None)
  /\ NoFault /\ UNCHANGED <<cache, late, promised, answer, process, sent, effects>>

ReplyResult(c) ==
  /\ pc[c] = "stored"
  /\ Answer(c, "ok", c)
  /\ NoFault /\ UNCHANGED <<cache, late, promised, answer, process, sent, effects>>

\* An INSERT that was sent when its client is lost may be executed after all.
MaySendLate(c) ==
  late' \in {late} \cup (IF pc[c] = "store" /\ answer[c] = "ok" THEN {late \cup {c}} ELSE {})

\* A statement fails, or its answer is lost: 500.
StatementFails(c) ==
  /\ Fault
  /\ pc[c] \in {"connect", "audit", "store", "stored"}
  /\ Answer(c, "failed", None)
  /\ MaySendLate(c)
  /\ UNCHANGED <<cache, promised, answer, process, sent, effects>>

\* The Gateway is restarted: its handlers, one or more, never reply.
GatewayLoses(c) ==
  /\ Fault
  /\ pc[c] \in Handling
  /\ Goto(c, "lost")
  /\ MaySendLate(c)
  /\ UNCHANGED <<cache, promised, answer, process, sent, effects>>

LateStore(c) ==
  /\ c \in late
  /\ late' = late \ {c}
  /\ cache' = Stored(c)
  /\ NoFault /\ UNCHANGED <<pc, reply, promised, answer, process, sent, effects>>

-----------------------------------------------------------------------------
Handler(c) ==
  \/ Lookup(c) \/ Fetch(c) \/ AnswerArrives(c) \/ Audit(c)
  \/ Store(c) \/ StoreRefused(c) \/ ReplyResult(c)

Next ==
  \/ \E c \in Calls : Receive(c) \/ Handler(c) \/ GiveUp(c) \/ StatementFails(c) \/ GatewayLoses(c)
  \/ \E c \in Calls : Start(c) \/ SendCommit(c) \/ Return(c) \/ Throw(c) \/ Vanish(c)
  \/ \E c \in Calls : EndTransaction(c) \/ LateStore(c) \/ MessageArrives(c) \/ Timeout(c)
  \/ HostRestarts

Spec == Init /\ [][Next]_vars

\* Statements of the platform database come to an end, the pool starts what
\* waits while it has a slot, and the two timers fire: as long as any of these
\* can happen, one of them does.  No call needs more, as calls take finitely many
\* steps.
Fairness ==
  WF_vars(\E c \in Calls : Handler(c) \/ Start(c) \/ Timeout(c) \/ GiveUp(c))

FairSpec == Spec /\ Fairness
-----------------------------------------------------------------------------
(* Properties                                                              *)

\* A success is final: a call received after a success for its key was answered
\* never runs, in spite of failed lookups, of restarts and of executions of the
\* same key that are still under way.
NeverAgain == \A c \in promised : host[c] = "none" /\ c \notin effects

\* A success is the result of a transaction that was committed, the caller's
\* own or one for the same key and the same input; never that of a call that
\* timed out, threw or was killed.
SuccessIsCommitted ==
  \A c \in Calls : Succeeded(c) =>
    LET b == reply[c].of IN
      /\ b \in effects
      /\ b = c \/ (HasKey(c) /\ KeyOf[b] = KeyOf[c] /\ InputOf[b] = InputOf[c])

\* Retries agree: what one caller was given from the table is what every later
\* one will find there, although calls that raced each have their own result.
RetriesAgree ==
  \A c \in Calls : reply[c] # None /\ reply[c].status = "cached" =>
    cache[KeyOf[c]] = [input |-> InputOf[c], of |-> reply[c].of]

\* What a caller sees of it all: the abstract specification of calls, with the
\* rows of the table for the results that are kept.
Contract == INSTANCE AnsweredCalls WITH
  asked    <- {c \in Calls : pc[c] # "new"},
  bound    <- promised,
  ran      <- effects,
  kept     <- [k \in Keys |-> IF cache[k] = None THEN None ELSE cache[k].of],
  answered <- {c \in Calls : reply[c] # None},
  given    <- [c \in Calls |-> IF Succeeded(c) THEN reply[c].of ELSE None]

\* Every behaviour of Gateway, host and database, with their faults, keeps it.
KeepsContract == Contract!Spec

\* Every call gets an answer or its Gateway is gone; and no call waits for a slot
\* of the pool, or keeps one, for ever, whatever its child does.
EveryCallEnds ==
  <>[](\A c \in Calls : pc[c] \notin Handling /\ host[c] \in {"none", "over"})
-----------------------------------------------------------------------------
(* The inductive invariant behind the first three                          *)

\* A call that the host has not seen left no trace; a result was committed.
RunInv ==
  \A c \in Calls :
    /\ pc[c] \in {"new", "lookup", "connect"} => host[c] = "none"
    /\ host[c] = "none" => child[c] = "none" /\ c \notin sent \cup effects
    /\ message[c] \in {"ok", "void"} => c \in effects
    /\ answer[c] \in {"ok", "void"} => c \in effects
    /\ answer[c] # "none" => host[c] = "over"

\* What the places of the Gateway's handler, and its replies, stand for.
HandlerInv ==
  \A c \in Calls :
    /\ pc[c] = "lookup" => HasKey(c)
    /\ pc[c] = "audit" => answer[c] # "none"
    /\ pc[c] \in {"store", "stored"} => HasKey(c) /\ answer[c] \in {"ok", "void"}
    /\ pc[c] = "stored" => cache[KeyOf[c]] # None
    /\ reply[c] # None => pc[c] = "done"
    /\ reply[c] # None /\ reply[c].status = "cached" => HasKey(c)
    /\ Succeeded(c) /\ HasKey(c) => cache[KeyOf[c]] # None

\* A row, also one to come, holds the committed result of a call of its key
\* and input.
CacheInv ==
  /\ \A k \in Keys : cache[k] # None =>
       /\ cache[k].of \in effects
       /\ KeyOf[cache[k].of] = k
       /\ InputOf[cache[k].of] = cache[k].input
  /\ \A c \in late : HasKey(c) /\ c \in effects

\* A call received after a success finds a row, and does not go on.
PromiseInv ==
  \A c \in promised :
    /\ HasKey(c) /\ cache[KeyOf[c]] # None
    /\ pc[c] \in {"lookup", "done", "lost"} /\ host[c] = "none"

IInv ==
  /\ TypeOK /\ RunInv /\ HandlerInv /\ CacheInv /\ PromiseInv
  /\ SuccessIsCommitted /\ RetriesAgree
=============================================================================
