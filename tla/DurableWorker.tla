---------------------------- MODULE DurableWorker ----------------------------
(***************************************************************************)
(* services/worker/src/worker.ts: the processes that move events from the  *)
(* application's outbox table to the platform's runtime_queue table and    *)
(* run one queued job at a time.                                           *)
(*                                                                         *)
(* A worker is a loop of one cycle:                                        *)
(*   transferOutbox  one transaction of the APPLICATION database that      *)
(*                   locks a batch of unpublished rows, copies each one to *)
(*                   the PLATFORM database with an autocommitted INSERT,   *)
(*                   and marks it published;                               *)
(*   consumeOne      a platform transaction that claims a job, the handler,*)
(*                   and one fenced statement that settles the job.        *)
(* The two databases share no transaction; several workers run at once;    *)
(* any statement may fail, or its answer may be lost while the server      *)
(* still executes it; a process may be killed between any two of them.     *)
(***************************************************************************)
EXTENDS Integers, FiniteSets

CONSTANTS
  Events,        \* event ids
  Workers,       \* worker processes of one project
  CreatedAt,     \* outbox created_at: when the publishing transaction began
  BatchLimit,    \* LIMIT of the outbox query (20 in the code)
  MaxAttempts,   \* runtime_queue.max_attempts: always its DEFAULT (8)
  Malformable,   \* events whose payload the platform INSERT may refuse
  NoJob,         \* the worker has no job in hand
  Faults,        \* the kinds of fault that may happen
  MaxFaults      \* how many of them, in all

FaultKinds == {"transfer", "claim", "settle", "crash", "stop"}

ASSUME ConstantsAssumption ==
  /\ CreatedAt \in [Events -> Nat]
  /\ BatchLimit \in Nat \ {0}
  /\ MaxAttempts \in Nat \ {0}
  /\ Malformable \subseteq Events
  /\ Faults \subseteq FaultKinds
  /\ MaxFaults \in Nat

VARIABLES
  outbox,     \* _archetype_outbox: "none" before the business commit
  malformed,  \* committed events whose payload cannot be copied
  queue,      \* runtime_queue, a row per event
  inserted,   \* number of rows inserted so far: the clock of queue.created_at
  letters,    \* dead_letters, by event id
  late,       \* statements whose answer was lost and that may still execute
  pc,         \* where each worker is in its cycle
  batch,      \* outbox rows locked by the worker's open transaction
  todo,       \* those of the batch still to be copied
  job,        \* the job that consumeOne works on
  stopping,   \* stop() was called
  faults,     \* faults so far: those that may cost a job, and the others
  handled     \* ghost: events some handler run of which returned

store == <<outbox, malformed, queue, inserted, letters, late>>
local == <<pc, batch, todo, job, stopping>>
vars  == <<store, local, faults, handled>>

-----------------------------------------------------------------------------
Row == [status    : {"absent", "pending", "running", "completed", "dead"},
        attempts  : Nat,
        token     : Nat,
        lease     : {"none", "live", "expired"},
        available : BOOLEAN,
        at        : Nat]

NoRow == [status |-> "absent", attempts |-> 0, token |-> 0,
          lease |-> "none", available |-> TRUE, at |-> 0]

Job == [event : Events, attempts : Nat, token : Nat]

\* An UPDATE runtime_queue ... WHERE event_id = .. AND fencing_token = ..
Statement == [event : Events, token : Nat, status : {"completed", "pending"}]

Places == {"down", "cycle", "copying", "consume", "claiming",
           "handling", "acking", "failing"}

TypeOK ==
  /\ outbox \in [Events -> {"none", "unpublished", "published"}]
  /\ malformed \subseteq Malformable
  /\ queue \in [Events -> Row]
  /\ inserted \in Nat
  /\ letters \subseteq Events
  /\ late \subseteq Statement
  /\ pc \in [Workers -> Places]
  /\ batch \in [Workers -> SUBSET Events]
  /\ todo \in [Workers -> SUBSET Events]
  /\ job \in [Workers -> Job \cup {NoJob}]
  /\ stopping \in [Workers -> BOOLEAN]
  /\ faults \in [costly : 0 .. MaxFaults, harmless : 0 .. MaxFaults]
  /\ handled \subseteq Events

Init ==
  /\ outbox = [e \in Events |-> "none"]
  /\ malformed = {}
  /\ queue = [e \in Events |-> NoRow]
  /\ inserted = 0
  /\ letters = {}
  /\ late = {}
  /\ pc = [w \in Workers |-> "down"]
  /\ batch = [w \in Workers |-> {}]
  /\ todo = [w \in Workers |-> {}]
  /\ job = [w \in Workers |-> NoJob]
  /\ stopping = [w \in Workers |-> FALSE]
  /\ faults = [costly |-> 0, harmless |-> 0]
  /\ handled = {}

-----------------------------------------------------------------------------
Queued == {e \in Events : queue[e].status # "absent"}

\* Workers past the COMMIT of a claim: they own the job until they settle it.
Executing == {"handling", "acking", "failing"}

Holds(w, e) == pc[w] \in Executing /\ job[w].event = e

\* Rows locked by an open outbox transaction, or by a claim not yet committed.
OutboxLocked == UNION {batch[w] : w \in Workers}
RowLocked(e) == \E w \in Workers : pc[w] = "claiming" /\ job[w].event = e

Cost(kind) == IF kind \in {"claim", "settle", "crash"} THEN "costly" ELSE "harmless"

Fault(kind) ==
  /\ kind \in Faults
  /\ faults.costly + faults.harmless < MaxFaults
  /\ faults' = [faults EXCEPT ![Cost(kind)] = @ + 1]

Goto(w, place) == pc' = [pc EXCEPT ![w] = place]

\* Leave the cycle: what is left of the job in hand is forgotten.
Forget(w, place) ==
  /\ Goto(w, place)
  /\ job' = [job EXCEPT ![w] = NoJob]

EndTransfer(w, place) ==
  /\ Goto(w, place)
  /\ batch' = [batch EXCEPT ![w] = {}]
  /\ todo' = [todo EXCEPT ![w] = {}]

-----------------------------------------------------------------------------
(* The application: a function's transaction commits together with the     *)
(* outbox row that its events.publish inserted.                            *)
CommitEvent(e) ==
  /\ outbox[e] = "none"
  /\ outbox' = [outbox EXCEPT ![e] = "unpublished"]
  /\ malformed' \in {malformed} \cup {malformed \cup ({e} \cap Malformable)}
  /\ UNCHANGED <<queue, inserted, letters, late, local, faults, handled>>

-----------------------------------------------------------------------------
(* run(): start, the loop's test, stop() on a signal, and SIGKILL.          *)
Start(w) ==
  /\ pc[w] = "down"
  /\ Goto(w, "cycle")
  /\ stopping' = [stopping EXCEPT ![w] = FALSE]
  /\ UNCHANGED <<store, batch, todo, job, faults, handled>>

Stop(w) ==
  /\ pc[w] # "down" /\ ~stopping[w]
  /\ Fault("stop")
  /\ stopping' = [stopping EXCEPT ![w] = TRUE]
  /\ UNCHANGED <<store, pc, batch, todo, job, handled>>

BadLeaveLoop(w) ==           \* process.exit() in the signal handler
  /\ pc[w] \in {"cycle", "handling"} /\ stopping[w]
  /\ Goto(w, "down")
  /\ UNCHANGED <<store, batch, todo, job, stopping, faults, handled>>

LeaveLoop(w) ==
  /\ pc[w] = "cycle" /\ stopping[w]
  /\ Goto(w, "down")
  /\ UNCHANGED <<store, batch, todo, job, stopping, faults, handled>>

\* The servers release the locks of a killed process and roll back its
\* transactions; a statement already sent is covered by the ...Lost actions.
Crash(w) ==
  /\ pc[w] # "down"
  /\ Fault("crash")
  /\ EndTransfer(w, "down")
  /\ job' = [job EXCEPT ![w] = NoJob]
  /\ stopping' = [stopping EXCEPT ![w] = FALSE]
  /\ UNCHANGED <<store, handled>>

-----------------------------------------------------------------------------
(* transferOutbox()                                                        *)

\* ORDER BY created_at LIMIT .. FOR UPDATE SKIP LOCKED over unpublished rows.
OldestBatches(free) ==
  {S \in SUBSET free :
     /\ S = free \/ Cardinality(S) = BatchLimit
     /\ Cardinality(S) <= BatchLimit
     /\ \A e \in S, f \in free \ S : CreatedAt[e] <= CreatedAt[f]}

SelectBatch(w) ==
  /\ pc[w] = "cycle" /\ ~stopping[w]
  /\ LET free == {e \in Events : outbox[e] = "unpublished"} \ OutboxLocked
     IN \E S \in OldestBatches(free) :
          /\ batch' = [batch EXCEPT ![w] = S]
          /\ todo' = [todo EXCEPT ![w] = S]
  /\ Goto(w, "copying")
  /\ UNCHANGED <<store, job, stopping, faults, handled>>

\* Mutants (named Bad...): plausible mistakes that the properties must catch.
BadInsertedStatus(e) ==      \* a misspelt status
  IF e \in Queued
    THEN queue
    ELSE [queue EXCEPT ![e] = [NoRow EXCEPT !.status = "queued", !.at = inserted]]

BadInsertedOverwrites(e) ==  \* ON CONFLICT DO UPDATE instead of DO NOTHING
  [queue EXCEPT ![e] = [NoRow EXCEPT !.status = "pending", !.at = inserted]]

\* The head of the batch: INSERT .. ON CONFLICT DO NOTHING, autocommitted.
\* The UPDATE of published_at stays inside the open application transaction.
Inserted(e) ==
  IF e \in Queued
    THEN queue
    ELSE [queue EXCEPT ![e] = [NoRow EXCEPT !.status = "pending", !.at = inserted]]

CopyEvent(w, e) ==
  /\ pc[w] = "copying" /\ e \in todo[w]
  /\ \A f \in todo[w] : CreatedAt[e] <= CreatedAt[f]
  /\ e \notin malformed
  /\ queue' = Inserted(e)
  /\ inserted' = IF e \in Queued THEN inserted ELSE inserted + 1
  /\ todo' = [todo EXCEPT ![w] = @ \ {e}]
  /\ UNCHANGED <<outbox, malformed, letters, late, pc, batch, job, stopping, faults, handled>>

\* JSON.parse or the INSERT throws: roll back and skip consumeOne.
CopyThrows(w, e) ==
  /\ pc[w] = "copying" /\ e \in todo[w]
  /\ \A f \in todo[w] : CreatedAt[e] <= CreatedAt[f]
  /\ e \in malformed
  /\ EndTransfer(w, "cycle")
  /\ UNCHANGED <<store, job, stopping, faults, handled>>

Published(w) == [e \in Events |-> IF e \in batch[w] THEN "published" ELSE outbox[e]]

BadCommitTransfer(w) ==      \* the loop does not await its inserts
  /\ pc[w] = "copying"
  /\ outbox' = Published(w)
  /\ EndTransfer(w, "consume")
  /\ UNCHANGED <<malformed, queue, inserted, letters, late, job, stopping, faults, handled>>

CommitTransfer(w) ==
  /\ pc[w] = "copying" /\ todo[w] = {}
  /\ outbox' = Published(w)
  /\ EndTransfer(w, "consume")
  /\ UNCHANGED <<malformed, queue, inserted, letters, late, job, stopping, faults, handled>>

\* The COMMIT took effect but its answer was lost: the cycle fails.
CommitTransferLost(w) ==
  /\ pc[w] = "copying" /\ todo[w] = {}
  /\ Fault("transfer")
  /\ outbox' = Published(w)
  /\ EndTransfer(w, "cycle")
  /\ UNCHANGED <<malformed, queue, inserted, letters, late, job, stopping, handled>>

TransferFails(w) ==
  /\ pc[w] = "copying"
  /\ Fault("transfer")
  /\ EndTransfer(w, "cycle")
  /\ UNCHANGED <<store, job, stopping, handled>>

-----------------------------------------------------------------------------
(* consumeOne(): the claim                                                 *)
BadClaimable(e) ==           \* reclaims an expired lease, which nothing renews
  /\ queue[e].status \in {"pending", "running"}
  /\ queue[e].available
  /\ queue[e].lease # "live"

Claimable(e) ==
  /\ queue[e].status = "pending"
  /\ queue[e].available
  /\ queue[e].lease # "live"

BadCandidates == {e \in Events : Claimable(e)}   \* no FOR UPDATE SKIP LOCKED

Candidates == {e \in Events : Claimable(e) /\ ~RowLocked(e)}

SelectJob(w) ==
  /\ pc[w] = "consume"
  /\ \E e \in Candidates :
       /\ \A f \in Candidates : queue[e].at <= queue[f].at
       /\ job' = [job EXCEPT ![w] = [event    |-> e,
                                     attempts |-> queue[e].attempts + 1,
                                     token    |-> queue[e].token + 1]]
  /\ Goto(w, "claiming")
  /\ UNCHANGED <<store, batch, todo, stopping, faults, handled>>

NoJobToClaim(w) ==
  /\ pc[w] = "consume"
  /\ Candidates = {}
  /\ Goto(w, "cycle")
  /\ UNCHANGED <<store, batch, todo, job, stopping, faults, handled>>

Claimed(w) ==
  LET e == job[w].event
  IN  [queue EXCEPT ![e].status = "running", ![e].lease = "live",
                    ![e].attempts = job[w].attempts, ![e].token = job[w].token]

CommitClaim(w) ==
  /\ pc[w] = "claiming"
  /\ queue' = Claimed(w)
  /\ Goto(w, "handling")
  /\ UNCHANGED <<outbox, malformed, inserted, letters, late,
                 batch, todo, job, stopping, faults, handled>>

\* The claim fails at any statement (nothing applied), or its COMMIT was
\* applied and the answer lost: either way consumeOne throws.
ClaimFails(w) ==
  /\ pc[w] \in {"consume", "claiming"}
  /\ Fault("claim")
  /\ Forget(w, "cycle")
  /\ UNCHANGED <<store, batch, todo, stopping, handled>>

CommitClaimLost(w) ==
  /\ pc[w] = "claiming"
  /\ Fault("claim")
  /\ queue' = Claimed(w)
  /\ Forget(w, "cycle")
  /\ UNCHANGED <<outbox, malformed, inserted, letters, late, batch, todo, stopping, handled>>

-----------------------------------------------------------------------------
(* consumeOne(): the handler, and the statement that settles the job       *)
HandlerReturns(w) ==
  /\ pc[w] = "handling"
  /\ handled' = handled \cup {job[w].event}
  /\ Goto(w, "acking")
  /\ UNCHANGED <<store, batch, todo, job, stopping, faults>>

BadHandlerThrows(w) ==       \* a swallowed error is acknowledged
  /\ pc[w] = "handling"
  /\ Goto(w, "acking")
  /\ UNCHANGED <<store, batch, todo, job, stopping, faults, handled>>

\* No deployment, a bad digest, no worker for the topic, input that does not
\* parse, or a handler that throws (possibly after its effects).
HandlerThrows(w) ==
  /\ pc[w] = "handling"
  /\ Goto(w, "failing")
  /\ UNCHANGED <<store, batch, todo, job, stopping, faults, handled>>

\* The queue after  UPDATE .. SET status, lease_until = NULL [, available_at]
\* WHERE event_id = e AND fencing_token = token.
SettledRow(row, status) ==
  [row EXCEPT !.status = status, !.lease = "none",
              !.available = IF status = "pending" THEN FALSE ELSE row.available]

BadSettledUnfenced(e, token, status) ==   \* no AND fencing_token = ..
  [queue EXCEPT ![e] = SettledRow(queue[e], status)]

BadSettledKeepsRunning(e, token, status) ==   \* the retry does not reset the status
  IF queue[e].token = token
    THEN [queue EXCEPT ![e] = SettledRow(queue[e], IF status = "pending" THEN "running"
                                                                         ELSE status)]
    ELSE queue

Settled(e, token, status) ==
  IF queue[e].token = token
    THEN [queue EXCEPT ![e] = SettledRow(queue[e], status)]
    ELSE queue

Settle(w, status) ==
  /\ ~RowLocked(job[w].event)
  /\ queue' = Settled(job[w].event, job[w].token, status)

\* The answer is lost: the statement executes now, later or never.
SendLate(w, status) ==
  late' = late \cup {[event |-> job[w].event, token |-> job[w].token, status |-> status]}

Ack(w) ==
  /\ pc[w] = "acking"
  /\ Settle(w, "completed")
  /\ Forget(w, "cycle")
  /\ UNCHANGED <<outbox, malformed, inserted, letters, late,
                 batch, todo, stopping, faults, handled>>

\* The acknowledgement throws inside the try block: the job is failed.
AckLost(w) ==
  /\ pc[w] = "acking"
  /\ Fault("settle")
  /\ SendLate(w, "completed")
  /\ Goto(w, "failing")
  /\ UNCHANGED <<outbox, malformed, queue, inserted, letters,
                 batch, todo, job, stopping, handled>>

BadExhausted(w) == job[w].attempts > MaxAttempts   \* one attempt too many

Exhausted(w) == job[w].attempts >= MaxAttempts

Reschedule(w) ==
  /\ pc[w] = "failing" /\ ~Exhausted(w)
  /\ Settle(w, "pending")
  /\ Forget(w, "cycle")
  /\ UNCHANGED <<outbox, malformed, inserted, letters, late,
                 batch, todo, stopping, faults, handled>>

RescheduleLost(w) ==
  /\ pc[w] = "failing" /\ ~Exhausted(w)
  /\ Fault("settle")
  /\ SendLate(w, "pending")
  /\ Forget(w, "cycle")
  /\ UNCHANGED <<outbox, malformed, queue, inserted, letters,
                 batch, todo, stopping, handled>>

\* One transaction: the letter (not fenced) and the fenced status.
DeadLetter(w) ==
  /\ pc[w] = "failing" /\ Exhausted(w)
  /\ letters' = letters \cup {job[w].event}
  /\ Settle(w, "dead")
  /\ Forget(w, "cycle")
  /\ UNCHANGED <<outbox, malformed, inserted, late, batch, todo, stopping, faults, handled>>

DeadLetterFails(w) ==
  /\ pc[w] = "failing" /\ Exhausted(w)
  /\ Fault("settle")
  /\ Forget(w, "cycle")
  /\ UNCHANGED <<store, batch, todo, stopping, handled>>

-----------------------------------------------------------------------------
(* The database servers: time, and statements that outlive their client.   *)
BackoffElapses(e) ==
  /\ ~queue[e].available
  /\ queue' = [queue EXCEPT ![e].available = TRUE]
  /\ UNCHANGED <<outbox, malformed, inserted, letters, late, local, faults, handled>>

LeaseExpires(e) ==
  /\ queue[e].lease = "live"
  /\ queue' = [queue EXCEPT ![e].lease = "expired"]
  /\ UNCHANGED <<outbox, malformed, inserted, letters, late, local, faults, handled>>

LateStatement(s) ==
  /\ s \in late
  /\ ~RowLocked(s.event)
  /\ queue' = Settled(s.event, s.token, s.status)
  /\ late' = late \ {s}
  /\ UNCHANGED <<outbox, malformed, inserted, letters, local, faults, handled>>

-----------------------------------------------------------------------------
\* What a worker does when nothing fails.
Transfer(w) ==
  \/ SelectBatch(w)
  \/ \E e \in Events : CopyEvent(w, e) \/ CopyThrows(w, e)
  \/ CommitTransfer(w)

Consume(w) ==
  \/ SelectJob(w) \/ NoJobToClaim(w) \/ CommitClaim(w)
  \/ HandlerReturns(w) \/ HandlerThrows(w)
  \/ Ack(w) \/ Reschedule(w) \/ DeadLetter(w)

Run(w) == Start(w) \/ LeaveLoop(w) \/ Transfer(w) \/ Consume(w)

Misfortune(w) ==
  \/ Stop(w) \/ Crash(w)
  \/ CommitTransferLost(w) \/ TransferFails(w)
  \/ ClaimFails(w) \/ CommitClaimLost(w)
  \/ AckLost(w) \/ RescheduleLost(w) \/ DeadLetterFails(w)

Next ==
  \/ \E e \in Events : CommitEvent(e) \/ BackoffElapses(e) \/ LeaseExpires(e)
  \/ \E w \in Workers : Run(w) \/ Misfortune(w)
  \/ \E s \in late : LateStatement(s)

Spec == Init /\ [][Next]_vars

\* A started process keeps running, a stopped container is restarted
\* (restart: unless-stopped), handlers settle, and time passes.
Fairness ==
  /\ \A w \in Workers : WF_vars(Run(w))
  /\ \A e \in Events : WF_vars(BackoffElapses(e)) /\ WF_vars(LeaseExpires(e))

FairSpec == Spec /\ Fairness
-----------------------------------------------------------------------------
(* Properties                                                              *)

\* The two databases commit separately: a row marked published in the
\* application's outbox has its job in the platform's queue, whatever crashed
\* in between, and a job never appears for a business transaction that did
\* not commit (transferOutbox inserts before it marks, and marks in one commit).
NoEventLost ==
  \A e \in Events :
    /\ outbox[e] = "published" => e \in Queued
    /\ e \in Queued => outbox[e] # "none"

\* Two workers never run the same job at the same time, although nothing renews
\* the 30-second lease while a handler runs longer than it.
SingleExecutor ==
  \A w1, w2 \in Workers, e \in Events : Holds(w1, e) /\ Holds(w2, e) => w1 = w2

\* A worker that has a job in hand carries the row's current fencing token, so
\* its settling statement is never refused, and the row cannot be claimed away
\* from it: no lost answer or late statement makes the row pending under it.
HolderIsCurrent ==
  \A w \in Workers, e \in Events :
    Holds(w, e) => /\ queue[e].token = job[w].token
                   /\ queue[e].status \in {"running", "completed"}

\* A dead letter is final: it exists exactly when the job is dead (or when the
\* acknowledgement of its last attempt, believed lost, arrived after all), the
\* attempts are used up, and nobody can claim or run the job again.
DeadLetterFinal ==
  \A e \in Events :
    /\ queue[e].status = "dead" => e \in letters
    /\ e \in letters =>
         /\ queue[e].status \in {"dead", "completed"}
         /\ queue[e].attempts = MaxAttempts
         /\ \A w \in Workers : ~Holds(w, e)

\* Stale workers cannot acknowledge a newer lease: while a worker runs an
\* attempt, only that worker, or a statement of that very attempt, changes the
\* status of the row, whichever older statements are still under way.
OnlyOwnerSettles ==
  [][\A w \in Workers, e \in Events :
       Holds(w, e) /\ queue'[e].status # queue[e].status =>
         \/ pc'[w] # pc[w]
         \/ \E s \in late \ late' : s.event = e /\ s.token = job[w].token]_vars

\* What a user of events.publish sees of it all: the abstract specification of
\* at-least-once delivery, with the row's attempts for deliveries.
Delivery == INSTANCE AtLeastOnce WITH
  committed  <- {e \in Events : outbox[e] # "none"},
  deliveries <- [e \in Events |-> queue[e].attempts],
  executing  <- {e \in Events : \E w \in Workers : Holds(w, e)},
  returned   <- handled,
  outcome    <- [e \in Events |->
                   IF queue[e].status \in {"completed", "dead"} THEN queue[e].status ELSE "open"]

\* Every behaviour of the workers, faults included, is at-least-once delivery.
ImplementsDelivery == Delivery!Spec

\* A job that is 'running' in the table and in no worker's hands.
Stranded ==
  {e \in Events : queue[e].status = "running" /\ \A w \in Workers : ~Holds(w, e)}

\* A committed payload that cannot be copied: every cycle that meets it fails.
Blocked == \E e \in malformed : outbox[e] = "unpublished"

\* Every committed event is in the end completed or dead-lettered, and failing
\* transfers, or stops in the middle of a cycle, only delay it.  The exceptions
\* are the two that MCWorkerDocs holds against the documentation, and no more
\* than these: one malformed payload blocks everything, and a crash, or a lost
\* claim or settling statement, strands one job at most.
EventuallySettled ==
  <>[](\/ Blocked
       \/ /\ \A e \in Events :
               \/ outbox[e] = "none" \/ queue[e].status \in {"completed", "dead"}
               \/ e \in Stranded
          /\ Cardinality(Stranded) <= faults.costly)
-----------------------------------------------------------------------------
(* The inductive invariant behind the safety properties                    *)

\* What is in a transaction's batch was committed, and copied unless still to do.
BatchInv ==
  \A w \in Workers :
    /\ todo[w] \subseteq batch[w]
    /\ pc[w] # "copying" => batch[w] = {}
    /\ \A e \in batch[w] : outbox[e] # "none"
    /\ batch[w] \ todo[w] \subseteq Queued

\* attempts and fencing_token move together; a pending job has attempts left.
RowInv ==
  \A e \in Events :
    /\ queue[e].token = queue[e].attempts
    /\ queue[e].attempts <= MaxAttempts
    /\ queue[e].status = "absent" => queue[e] = NoRow
    /\ queue[e].status = "pending" => queue[e].attempts < MaxAttempts
    /\ queue[e].status \in {"running", "completed", "dead"} => queue[e].attempts > 0

\* An uncommitted claim locks a pending row and is the only one to do so.
ClaimInv ==
  \A w \in Workers : pc[w] = "claiming" =>
    /\ job[w] \in Job
    /\ queue[job[w].event].status = "pending"
    /\ job[w].token = queue[job[w].event].token + 1
    /\ job[w].attempts = queue[job[w].event].attempts + 1
    /\ \A v \in Workers : pc[v] = "claiming" /\ job[v].event = job[w].event => v = w

\* A job in hand is the current attempt of its row, and nobody else's.
HoldInv ==
  \A w \in Workers : pc[w] \in Executing =>
    /\ job[w] \in Job
    /\ queue[job[w].event].status \in {"running", "completed"}
    /\ job[w].token = queue[job[w].event].token
    /\ job[w].attempts = queue[job[w].event].attempts
    /\ job[w].event \notin letters
    /\ pc[w] = "acking" => job[w].event \in handled
    /\ \A v \in Workers : Holds(v, job[w].event) => v = w

\* A late reschedule of the current attempt finds nobody working on it.
LateInv ==
  \A s \in late :
    /\ 0 < s.token /\ s.token <= queue[s.event].token
    /\ s.status = "completed" => s.event \in handled
    /\ s.status = "pending" => s.token < MaxAttempts
    /\ s.status = "pending" /\ s.token = queue[s.event].token =>
         \A w \in Workers : ~Holds(w, s.event)

LetterInv ==
  \A e \in Events :
    /\ queue[e].status = "dead" => e \in letters
    /\ e \in letters => /\ queue[e].status \in {"dead", "completed"}
                        /\ queue[e].attempts = MaxAttempts

\* A job is recorded as completed only if some run of its handler returned,
\* also when the acknowledgement arrives long after the job was failed.
CompletedWasHandled ==
  \A e \in Events : queue[e].status = "completed" => e \in handled

IInv ==
  /\ TypeOK /\ BatchInv /\ NoEventLost /\ RowInv /\ ClaimInv
  /\ HoldInv /\ LateInv /\ LetterInv /\ CompletedWasHandled
=============================================================================
