# Verification of archetype-quick-browser

TLA+ models of the parts of this repository whose correctness depends on the
order of things: a browser calls functions of a web site's own server through a
Gateway, the functions run in child processes and publish durable events, and
workers deliver the events, which the Gateway streams back to the browser.
Administrators deploy the functions through the Gateway's control plane. TLC
checks the models on small instances; TLAPS proves the safety properties of all
modelled components for every instance.

Paths below are relative to the repository. `G` stands for
`services/gateway/src/server.ts`, `ST` for `services/gateway/src/store.ts`, `W` for
`services/worker/src/worker.ts`, `FH` for `services/function-host/src/`, `RC` for
`apps/browser/src/main/runtime-client.ts` and `C` for `controller.ts` beside it.

    page -> preload -> browser main process        apps/browser
                              | signed HTTP
                           Gateway  ---------- platform PostgreSQL
                              | HTTP               |
                        function host              |
                              | fork + IPC         |
                           runner ---- application database
                                          |        |
                                        worker(s): outbox -> runtime_queue -> handler

## 1. Inventory

| Component | State it keeps | Operations | Interacts through | What is hard | What makes it correct |
|---|---|---|---|---|---|
| Durable worker (`W`) | outbox rows and `runtime_queue`, `dead_letters` rows; the job in hand | `transferOutbox`, `consumeOne`, `run`, `stop` | two databases that share no transaction; other workers through row locks | crashes between two commits, lost answers, several workers, a lease nobody renews | nothing lost, one executor per job, fenced settlement, dead letters final, everything settled |
| Outbox and platform tables (`packages/db-adapters`) | `_archetype_outbox`, platform schema | `events.publish` inside a transaction, schema creation under an advisory lock | SQL | atomicity of event and business change | an event exists exactly when its transaction committed |
| Gateway: admission (`G` 243-295, `ST` 252-293, `capability.ts`) | sessions, `replay_nonces`; the clock | `POST /v1/capabilities`, first half of `POST /v1/invoke` | copies of a signed request; awaits on the database between checks | late and repeated copies, sweep of nonces, sign-out between checks | a signed call passes once; a sign-out is final |
| Gateway: invocation (`G` 297-320, `ST` 295-311) | table `idempotency` | lookup, `fetch` of the host, audit, `storeResponse`, reply | HTTP to the host, SQL | check-then-run without a lock, timeouts on both sides, restarts, lost answers | a success is true and final; retries agree; every call ends |
| Function host (`FH` `pool.ts`, `server.ts`, `runner.ts`) | `active`, `queue`; child, timer and message of each call | `TaskPool.run`, `runChild`, `executeInvocation` | promises, IPC, SIGKILL | microtask order, a timer that races message and COMMIT, children that vanish | the limit holds, no waiter is forgotten, a killed call is no success |
| Gateway: event stream (`G` 323-371, `ST` 322-334) | cursor `since`, `afterId`, `seen` of each stream | polling loop, reconnection by the browser every 55 s | reads `runtime_queue` while workers insert | rows become visible out of `created_at` order, gap between two streams | each event once per subscription, none passed over but those committed behind the cursor, nothing to another subject |
| Gateway: sign-in (`auth.ts`) | sign-in transactions in memory | start, callback, poll | identity provider, browser polling | restart, double completion, a browser that dies or signs out meanwhile | no session is out of its user's reach without a known reason; a sign-out ends the session it read |
| Gateway: control plane (`control-auth.ts`, `G`, `ST`) | organizations, members, roles, login transactions, projects | login, invite, role change, project settings | console, SQL | role checked before an await, used after it; redirects followed twice; founders inserted again at a restart | writes only by those who may; one session per login; roles change by request only |
| Gateway: deployments (`G` 52-62, `runner.ts` 9-13) | artifact files, `deployments` row | `activateDeployment`, `readFile` in runner and worker | file system shared with host and worker | the file of the same digest rewritten in place while it is read; row switched after it | code that runs has the digest of a deployment that was activated |
| Browser: runtime client and secret store (`runtime-client.ts`) | secrets file, device keys, sessions, abort controllers | sign-in polling, `invoke`, `subscribe`, `persist` | Gateway, file system | concurrent `persist` through one temporary file, crashes between its two steps | the file is whole, and current when nothing is under way |
| Browser: tabs, subscriptions, preload (`controller.ts`, `index.ts`, `runtime-page.ts`) | tabs, subscriptions of each page | navigate, subscribe, unsubscribe, cancel | IPC between processes, navigation events | navigations that start, commit or stop while messages are under way | the window shows the active tab; no stream that nobody can cancel; listeners and streams agree |
| Example: order claim | orders, inventory reservations | `claimOrder`, `allocateInventory` | functions and workers | retries after lost answers | one claimant per order, one reservation per claim |
| Address rules, protocol, SDK, CLI, generated client, console, renderer, docs site | - | pure functions, scripts, views | - | - | covered by unit tests, not modelled |

`PROJECT.json` lists every component with its status and every hazard with its
line and the properties that would catch it.

## 2. Modules

| Module | Models | Kind |
|---|---|---|
| `DurableWorker` | `W`, with outbox and queue | detailed specification |
| `AtLeastOnce` | what `apps/docs/guide/data-jobs.md` promises of delivery | abstract specification |
| `MCDurableWorker`, `MCWorkerDocs` | instances for TLC; statements of the documentation | model checking |
| `DurableWorkerProofs` | safety, and `DurableWorker` implements `AtLeastOnce` | proofs |
| `TaskPool`, `TaskPoolProofs` | `FH` `pool.ts` | specification and proofs |
| `Admission`, `MCAdmission`, `AdmissionProofs` | capabilities, sessions, nonces, first half of `/v1/invoke` | specification, instance, proofs |
| `Invocation`, `MCInvocation`, `InvocationProofs` | second half of `/v1/invoke`, host, child, transaction | specification, instance, proofs |
| `AnsweredCalls` | what callers of functions are promised, retries included (`apps/docs/guide/self-hosting.md`) | abstract specification |
| `EventStream`, `MCEventStream`, `MCEventDocs`, `EventStreamProofs` | `/v1/events`, `eventsSince`, the browser's loop of streams; a statement of the documentation | specification, instances, proofs |
| `ControlPlane`, `MCControlPlane`, `ControlPlaneProofs` | `control-auth.ts`, `/v1/control`, `/v1/admin`, deployments and their use by the runner | specification, instance, proofs |
| `SecureStore` | the browser's file of secrets | part of `SignIn` |
| `SignIn`, `MCSignIn`, `SignInProofs` | `auth.ts`, `/v1/auth`, `/v1/session`, the browser's side of them | specification (extends `SecureStore`), instance, proofs |
| `BrowserWindow`, `MCBrowserWindow`, `MCWindowDocs`, `BrowserWindowProofs` | `controller.ts`, subscriptions of `index.ts`, preload; a statement of the documentation | specification, instances, proofs |

In each specification the definitions whose names begin with `Bad` are plausible
mistakes of the code. They are not part of the specification; each one, put in
the place of the definition after it, breaks a property (`mutants` in
`PROJECT.json`), which shows that the property depends on that code.

### DurableWorker

A worker is a place `pc[w]` in the cycle of `run()`. One action is one statement or
one await of the code:

- `SelectBatch` is the locking SELECT on the outbox (oldest first, skipping rows
  locked by others); `CopyEvent` one autocommitted INSERT into the queue, in the
  order of the batch; `CommitTransfer` the COMMIT that publishes the batch.
- `SelectJob` is the locking SELECT on the queue, `CommitClaim` the claim's
  COMMIT: until then the row is locked and unchanged.
- `HandlerReturns` and `HandlerThrows` are the handler; the second also stands
  for a missing deployment, a wrong digest and input that does not parse.
- `Ack`, `Reschedule` and `DeadLetter` are the statements that settle the job, with
  their fencing tokens.
- `Crash` is SIGKILL, `Stop` a signal, `LeaveLoop` the end of the loop. Every
  statement may fail, and those that matter have a form whose answer is lost:
  `CommitTransferLost` and `CommitClaimLost` were applied; what `AckLost` and
  `RescheduleLost` sent is kept in `late` and may execute at any later time
  (`LateStatement`), before, while or after somebody else works on the job.

Abstractions: a payload is sound or one of `Malformable`; a lease is live or
expired and a back-off is over or not, with no clock; handlers have no state.
`inserted` counts the rows of the queue and stands for `created_at`. `faults` counts
those that may leave a claimed job without a worker (`costly`) apart from the others. `AtLeastOnce` counts a
claim as a delivery, also one whose answer the worker never saw.

### TaskPool

`run()` at the granularity of microtasks. `ready` is the microtask queue of
Node.js: a call stands in it for its next microtask. `Turn` takes a turn of the
event loop, which settles up to `MaxBurst` promises; it is enabled only when
`ready` is empty. `Leave` is the `finally` block: it frees the slot and appends the
waiter that `queue.shift()?.()` wakes behind what is ready already; `Resume` is
that waiter's own microtask, which adds itself to `active` without a second look.
`StartNow` may come in between; `barged` counts those calls.

### Admission

Time is a natural number; the Gateway and the platform database read one clock
(they run in one compose project), browsers any clock of their own (`stamp`). A
copy of a request (`Copies`) is what reaches the Gateway: the same signed call
(`req[d]`) may arrive several times, at any time. Every await of the handler
separates two actions:

`Receive` (timestamp, digest, signature) - `UseNonce` (INSERT) - `Sweep` (DELETE) -
`ReadSession` - `CheckTicket`.

`SignIn`, `EndSession` and `Tick` come in between. Digest, signature and the
project's allowed origins are taken to be right; what makes them fail is
`Abandon`. `IssueTicket` is one action: a session that ends between its lookup and
the signature gives a ticket as if it had ended just after.

`MaxDelay` bounds the time from the freshness check to the INSERT of the nonce. The
code has no such bound: a request may wait for a connection of the pool. It is
the assumption of the theorem.

### Invocation

A call that was admitted, from the lookup of its idempotency key to its reply. A
key stands for the primary key (project, subject, operation, key) of the table; an
input for the digest, which covers the input, the key and the time limit. A
retry is another call with the same key. The variables follow the processes:
`pc`, `reply`, `cache`, `late` for the Gateway and its table, `host` for the pool and
the timer, `child` and `message` for the runner, `sent` and `effects` for the
application database.

- `Lookup` has the four outcomes of the try block; `LookupFailed` is its catch.
- `Timeout` may come before, while or after the transaction is committed, and
  also when the message is on its way; `EndTransaction` may come after SIGKILL.
- `GiveUp` is the abort of the Gateway's fetch: the host is not told. Its moment
  is left open, which covers every relation of the two time limits.
- `Vanish` is a runner without a message: `executeInvocation` rejects (there is no
  catch in `runner.ts:46`), or the process dies.
- `StatementFails`, `GatewayLoses`, `HostRestarts` are faults; an INSERT that was
  sent when its client was lost is kept in `late` and may execute later.

`Contract` reads `AnsweredCalls` in this state: the transactions in `effects` are
what `ran`, the rows of the table what is `kept`, and a reply that is a success is
what was `given`. `KeepsContract` says that faults and races do not alter this: a caller is
given a result only of a call that ran, its own or the one that is kept for its key and
input, a result that is kept stays, and a call made after a success does not run.

A function is one transaction; a result is named by the call that produced it.
The pool starts any waiting call, where the code starts the longest waiter:
`TaskPool` keeps that order. `StoreRefused`: a function that returns `undefined` is
stored as NULL, which the column refuses.

### EventStream

One subscription. `ReadToken` and `Open` are a turn of `streamEvents()` in the browser
up to the Gateway's first poll, `Poll` a turn of the Gateway's loop, `Close` the end of
a response that the browser follows with the next stream, `End` an error or an
unsubscription, after which there is none. Workers `Insert` rows, which get their
`created_at` then, and `CommitRow` makes them visible, in any order. `SignIn` and
`EndSession` belong to the browser and are not told to the stream.

Time counts the units in which rows are stamped, `Ms` of them to a millisecond. The
cursor is a JavaScript `Date`: `Trunc` rounds down, both at the start and in
`CursorAt`, so `After` selects rows of the cursor's millisecond again, and `seen`
keeps them from being sent again. `Selected`, `First` and `Fresh` are the WHERE, the
ORDER BY with LIMIT and the `continue` of the code. `Lag` is the difference between
the clock of the Gateway and that of the database. A poll takes no time, and a ticket
is taken to be good (`Admission`).

### ControlPlane

Each write request is a place `pc[r]`: `ReadSession` - `ReadRole` - `Write` (or `OpenFile` -
`FillFile` - `SetDeployment`) - `Audit`, one action for each await, with `Fail` and `Restart`
between any two. `Commands` are the writes: a membership, a new project, its settings
(origins and OIDC are one kind, the database another, since the admin route audits
only the latter), a deployment. A request of `Automation` carries the admin token and
skips session and role. Logins are rows that `Consume` deletes and returns in one
statement; a callback makes its session in `Exchange` or never.

An artifact is a file per project and digest: `absent`, `whole`, or the request that
truncated it and has not filled it. When two requests write the same digest, what
the first wrote before the second's truncation is gone, and the file is whole when
the second has filled it: `FillFile` allows both outcomes for the one that was overtaken.
A run `Send`s the row's digest, `Verify`s the file and `Import`s it. Each organization
has one project; the organization of the environment is any (`Restart(o)`).
`had` records what the sender of a request had at some time since it came; it
watches every step, so it is updated in `Next`.

### SecureStore and SignIn

`SecureStore` is the memory, the temporary file and the file, with every call of
`persist()` a process of its own: `Open` (truncates the temporary file), `WriteData`,
`Rename`, or `PersistFails` at any of them - nobody waits for the promise. Descriptors
follow their file through a rename, so that a write may land in the file itself.
`mishap` remembers that two overlapped or one failed; a `persist()` that is alone from
its start to its end clears it. Only the session of one scope is modelled; a new
device key is a `persist()` with the token unchanged (`NewKey`).

`SignIn` extends it. `Return` is the provider's redirect with an attempt's state, which may
be followed more than once. The handler awaits the INSERT of the session
(`InsertSession`: its row is committed) before it writes the token over what the
transaction held (`Complete`: the answer has arrived). In between polls, expiry and
sign-outs go on, and the answer may be lost: `AnswerLost` is a handler that throws
and leaves the transaction open. Its row may be there already (`strayed`) or come
later (`adrift`, then `strayed`), as after a restart of the Gateway. `PollDelivers` gives
the token to the browser, `CheckSession` is the call of `session()` that follows, with
the token the memory holds by then; it returns null after any answer that is not ok.
A sign-out is `SignOut` - `Delete`, `DeleteRefused` or `DeleteLost` - `Clear`. Both processes may
die at any time; the Gateway loses its transactions, the browser its polling.
`let` records the tokens that the memory let go of other than by their own sign-out.
Encryption by `safeStorage` is taken to be available.

### BrowserWindow

A tab has an address (`url`, `state.url` of the code) and contents of its own (`shown`,
`pending`, `loading`), which Electron tells the main process about: `StartNavigation` is
`did-start-navigation`, which clears the subscriptions; `Commit` is `did-navigate`; the old
document may still send messages between the two, and stays if the navigation ends
without a commit. `StopLoading` is `did-stop-loading` with `sync()`. `Listen` and `Unlisten` are
the preload's set of listeners; `mail` is what it sent and the main process has not
received. `cut` are topics whose stream a navigation within the page cancelled, and
`inherited` streams of a document that was replaced after it subscribed; the second is
finding 4. A stream runs until its `cancel` is called; that it may end by itself
is `EventStream`'s subject. A closed tab's name stands for a later tab.

## 3. Runs

| Run | Instance | Shows |
|---|---|---|
| `worker` | 2 workers, 2 events (one may be malformed), 2 attempts, batches of 2, any 2 faults of all kinds, with fairness; 541 265 states | the safety properties; every behaviour is a behaviour of `AtLeastOnce` (with it, what is completed was handled); every committed event is settled, but for the two exceptions of findings 1 and 2 |
| `docs_lease` | 1 worker, 1 event, 1 crash | violated: see findings |
| `docs_malformed` | 1 worker, 2 events, the older one malformed | violated: see findings |
| `pool` | 6 calls, 2 slots, 2 promises in a turn, prompt and chained calls; 7 008 states | the limit is exceeded by barging only; no waiter is forgotten; every call runs |
| `admission` | 1 call, 3 copies, window 1, delay 1, retention 3, clock to 5; copies symmetric; 270 596 states | one copy passes at most; a sign-out is final |
| `invocation` | 3 calls with one key, two of them the same request, 2 slots, 1 fault, with fairness; calls with the same request symmetric; 648 427 states | success is final and true; retries agree; every behaviour is a behaviour of `AnsweredCalls`; every call ends and gives its slot back |
| `event_stream` | 3 events of one of 2 users with a session each, 2 units to a millisecond, polls and streams 2 and 3 units long, pages of 2, clock to 4; 3 958 999 states | no event twice, none passed over, no page full of old rows, none to another user's session but from a stream its user left open |
| `docs_events` | the instance of `event_stream` | violated: see findings |
| `control_plane` | 2 organizations, a founder and a colleague, 2 logins and 3 callbacks, 4 commands, 2 requests, 1 run; requests symmetric; 440 224 states | one session per login, permitted writes only, roles by request only, what is active and what runs was deployed |
| `sign_in` | 1 attempt, 2 tokens, 2 overlapping persists, 2 polls; all symmetric; 2 287 772 states | the file of secrets is current; lost sessions are explained; sign-outs revoke |
| `browser_window` | 2 tabs, 1 page, 1 topic, 3 streams, 2 listeners, 3 messages; tabs and streams symmetric; 174 345 states | the right view, no stream that leaks, listeners served |
| `docs_navigation` | the instance of `browser_window` | violated: see findings |

### Why the bounds are enough

- *Workers.* Two are the least that can compete; the properties relate at most two
  workers and one event, and the second event gives the batch and the order of the
  queue something to choose; a batch may hold a sound and a malformed one. Two
  attempts give a first, a last and a retry. Two faults allow the worst chain found:
  an acknowledgement is lost, a reschedule is lost, and both execute late under
  another worker's attempt; and they let both jobs be stranded, or one of them while
  a worker is stopped. The proofs cover every other size and number of faults.
- *Pool.* A barging call needs a running task, a waiter and itself; six calls on two
  slots let it happen twice and with every kind of call.
- *Admission.* A replay needs two copies; the third is the one whose `Sweep`
  removes the nonce in between. Time constants are the smallest for which all
  three of window, delay and retention matter, and the instance has the equality
  `2 * Window + MaxDelay = Retention`; with a retention of 2, `NoReplay` fails. The
  clock runs past one full retention.
- *Invocation.* `RetriesAgree` needs two executions that race and a reader between
  their two INSERTs, `NeverAgain` a success and a later call; both fit in three calls,
  and on two slots one of them has to wait. A call without a key takes a shorter way,
  which the proofs include: there the keys are any.
- *EventStream.* A cursor that is rounded down re-reads at most `Ms - 1` units, so two
  units to a millisecond are the least that differ from one. Three rows make a page of
  2 overflow, also with rows that were sent already, and may all fall into one
  millisecond. The clock lets a stream be polled twice, closed and opened
  again. `Lag` is 0 here: the theorem `DeliveredOnce` covers others. The users sign in in
  either order, so that a stream may be of the user whom the events do not name, or
  be open still when its user has left and the other has signed in; the clock outlasts
  it. Without the user in the WHERE clause, or without the deadline, `DeliveredToItsUser`
  fails.
- *ControlPlane.* Two requests race for the file and for a role; the first two
  commands can give and take a role, one of them the founder's own, so that a
  restart has somebody to promote again. The third callback carries the state of
  the first. The second organization is where a role must not count.
- *SignIn.* Two tokens are two redirects of the attempt, whose rows and answers may come
  in either order, or not at all; two persists overlap in every way that the proof's
  parts distinguish. Two polls give one in vain and one that
  delivers, or a time-out. More attempts are the theorems' part.
- *BrowserWindow.* Two tabs have a neighbour; three streams let one be replaced while
  the other tab has its own; two listeners have a first and a last; three messages
  let a page unsubscribe and subscribe again behind an unsubscription under way.

### Fairness

- *Workers*: `restart: unless-stopped` in `infra/docker/compose.yml` restarts a
  process that ended; the loop of `run()` continues after every error; back-offs
  and leases are times in the database. Handlers are assumed to settle: nothing
  in `W` bounds their time (`W:125`). Crashes and lost claims or settlements
  are allowed, and `EventuallySettled` excepts the jobs they strand, one for each at most,
  since the code does not recover those (finding `docs_lease`); it excepts, too, what
  a malformed payload keeps `Blocked` (finding `docs_malformed`).
- *Pool*: the microtask queue is run until it is empty; each task's promise
  settles because `runChild` has a timer.
- *Invocation*: database calls end with an answer or an error, the pool starts
  what waits, `setTimeout` and `AbortSignal.timeout` fire. One weak condition is
  enough - as long as any of these can happen, one of them does -, since a call takes
  finitely many steps. It names no call, so that equal calls may be symmetric in a
  run with liveness. Children need no fairness: they may hang or vanish.

The other specifications state safety only and assume no fairness.

`CHECK_DEADLOCK FALSE` stands where finitely many calls, or a subscription, are all
over in the end.

## 4. Proofs

All theorems are of the form `Spec => ...` for arbitrary constants that satisfy the
module's named assumption; where one needs more of the constants (`RetentionCovers`,
`HostUse`) its statement says so. Each rests on an inductive invariant `IInv`, which TLC
checked on the instances as well. Every invariant, action property and refinement
that a passing run checks is a theorem.

- **`DurableWorkerProofs`.** The safety properties are not inductive: that nobody
  else runs a job follows from what the row, open claims and late statements may
  look like. `IInv` says that a batch was committed and copied up to `todo`; that
  tokens and attempts move together; that an uncommitted claim is the only one on
  a pending row and one ahead of it; that a job in hand is its row's current
  attempt (`HoldInv`); and that a late reschedule *of the current attempt* finds
  nobody working on it (`LateInv`), which is what keeps a lost answer from making
  a row pending under its owner. `OnlyOwnerSettles` is an action property proved from it.
  `Implements` is `Spec => Delivery!Spec` with `deliveries` mapped to the row's attempts and
  `outcome` to its status: every step, faults included, is a commit, a delivery, a
  return, a conclusion or a stutter.
- **`TaskPoolProofs`.** `active` counts the tasks under way, and `active` plus the woken
  waiters lies between `Concurrency` (while calls wait) and `Concurrency + barged`.
  `HostIsBounded`: under `HostUse` (one promise settled per turn, nobody calls `run()`
  twice), which is how `FH/server.ts` uses it - one request or one IPC message per
  callback -, a woken waiter is alone in the microtask queue and the limit holds.
- **`AdmissionProofs`.** Under `RetentionCovers` (`2 * Window + MaxDelay <= Retention`) no
  signed call passes twice: an accepted nonce is in the table or older than
  `Retention`, and a copy that is still fresh was checked within `Window` of the same
  stamp and at most `MaxDelay` ago. With the code's 120 s and 10 minutes the
  assumption says that the INSERT is done within 360 s of the check. The inductive
  invariant and the types hold without it, `AcceptedOnce` is where it is used, and
  `SignOutsAreFinal` needs none either: a copy received after the end of its session either
  finds none, and is then nobody's, or was checked against a ticket of somebody
  anonymous (`StaleInv`); the ticket's subject and the session's must agree.
- **`InvocationProofs`.** A promised call is one received after a success for its key;
  it finds a row (rows are never removed) and so never reaches the host. A row, also
  one in `late`, holds the result of a committed call of its key and input.
  `Implements` is `Spec => Contract!Spec`: a COMMIT is a `Run` (the invariant says that
  nobody promised a success commits), an INSERT, on time or late, is a `Keep` or a stutter,
  a reply is a `Succeed` or a `Fail`; everything else stutters. That a call's own success
  needs a row for its key follows from the order of `storeResponse` and reply.
- **`EventStreamProofs`.** The cursor of an open stream is a whole millisecond, at or
  after where it started, and everything in `seen` is no younger than the last
  poll (`CursorInv`). `OnceInv` is what carries over from stream to stream: whatever
  the listener has that is not in `seen` is older than the present cursor's start,
  since a stream cannot end before a pause of `Interval` has passed - this is
  where `ClocksAgree` (`Lag + Ms <= Interval`; 500 ms in the code) is needed.
  `NothingPassedOver` holds because a poll that leaves a selected row behind leaves the
  cursor before it. Rounding has lemmas of its own. `NeverStuck` needs two facts more:
  `SentInv`, that what was sent is of the cursor's millisecond or an earlier one, so that
  what a poll selects again shares the cursor's millisecond, and that less than a page of
  rows shares it, which is `~Crowded`. Of the rows to be sent one has none before it
  that is to be sent (`Foremost`: strict inclusion is well-founded on finite sets); all
  rows before it are selected again, so that it has a place in the page.
- **`ControlPlaneProofs`.** `LoginInv`: a consumed transaction is gone and was consumed
  once. `PermissionInv`: what a request has passed, its sender had. `FileInv`: an
  incomplete file names a deployment of its own digest that is not finished, which
  with `RowInv` and `RunInv` - nothing once whole becomes absent - gives the two
  properties of deployments. One lemma per group of actions and part.
- **`SignInProofs`.** `SoleInv`: a `persist()` alone since its start writes what the memory
  holds, into a temporary file that is its own. `KnownInv`: every token anywhere was
  made by the Gateway, for the attempt it is kept with. With `OutInv` these make
  `OrphansExplained` inductive: a session whose row is inserted and whose answer is under
  way is within reach as long as its attempt polls (`ReachableStep`), and what explains a
  session out of reach stays true (`ExplainedStays`). The store's steps are proved about once (`StoreNext`),
  whatever of sign-in they are part of.

- **`BrowserWindowProofs`.** A name that is not of an open tab has nothing left
  (`ClosedInv`), or it would bring its subscriptions to the tab opened next under it.
  Contents behind one of the browser's own addresses are `hidden` (`HiddenInv`), with which
  the attached view is always the active tab's. `StreamInv`: subscriptions and running
  streams are inverse to each other, so that replacing, clearing and closing cancel all
  that they forget. `MailInv`: the last message about a topic on its way from a page
  tells whether the page still listens; when it is received the page's listeners and
  its subscription agree, unless a navigation came between (`cut`, `inherited`). The order of
  the tabs has lemmas of its own (`Opening`, `Closing`, `HasNeighbour`).

Model-checked only: liveness (`EventuallySettled`, `EveryCallRuns`, `EveryCallEnds`), which
needs fairness and ENABLED.

## 5. Findings

1. *A worker that dies with a job leaves it `running` for ever* (`W:99`). The
   documentation says that leased jobs are recovered. `docs_lease`.
2. *One payload that cannot be copied stops the delivery of the whole project* (`W:78`).
   `docs_malformed`.
3. *A stream goes on after its session* (`G:327`). The session is looked up when a stream is
   opened, and until its 55 seconds are over the user's events are delivered, to whoever
   uses the browser by then. The documentation says that events are filtered to the
   active session before delivery. `docs_events`; what does hold is `DeliveredToItsUser`.
4. *A subscription may outlive its page* (`index.ts:96`). Subscriptions are cleared when a
   navigation starts; one that the old page makes before the new document is committed
   runs on, and after a reload its events reach a page that did not subscribe. The
   documentation says that navigation invalidates subscriptions. `docs_navigation`; what
   does hold is `ListenersServed`, with the streams in question (`inherited`) as an exception,
   and that each can still be cancelled (`NoStreamLeaks`).

Seen while modelling; the models allow each, or a property names it as the
exception that it is:

- `maxAttempts` of `defineWorker` is never read (`W:130`): the column's default, 8, holds
  for all workers, where `apps/docs/guide/data-jobs.md:39` speaks of `maxAttempts`.
- A pool may run more tasks than its limit (`FH/pool.ts:10`) when a call's microtask lies
  between the release of a slot and the start of the waiter it woke
  (`OnlyBargingExceeds`); the host's present use excludes it (`HostIsBounded`).
- A failed lookup is answered as a conflict of keys (`G:302`, `LookupFailed`). A function
  that returns `undefined` cannot be called with a key (`G:319`). A call whose fetch was
  aborted still runs when its turn in the pool comes (`G:314`). Calls with one key
  that overlap all run (`G:300`), and each is answered with its own result.
- A row that is committed after a younger one was sent is never streamed (`G:363`): `late`
  in `NothingPassedOver`. Nor is one that comes between two streams, or earlier than
  the Gateway's clock at the start. Any error ends a subscription silently (`RC:195`).
- A stream stands still while a full page of rows shares the cursor's millisecond
  (`ST:330`): `Crowded` in `NeverStuck`.
- A redirect that is followed twice makes two sessions, and the first stays valid for
  eight hours with nobody to end it (`auth.ts:45`); a sign-in that times out, a
  Gateway that restarts, or an INSERT whose answer is lost (`auth.ts:60`) leaves one
  too: the disjuncts of `OrphansExplained`. Sign-out
  does not look at the status of its DELETE (`RC:109`). Without encryption by the
  operating system a sign-in never succeeds (`RC:52`).
- Two changes of the secrets at a time may leave a file that does not parse, and with
  it no secrets at the next start (`RC:58`): `mishap` in `StoredIsCurrent`.
- A write of the control plane may come after its sender's role or session was taken
  away (`G:165`), and an organization may be left without an owner (`ST:153`).
- Deploying the digest that is active truncates its file while functions read it
  (`G:58`), and a failure at that point leaves it so: the second disjunct of
  `ActiveIsWhole`, and `reopened` in `RunsWhatWasDeployed`.
- Navigation within a page cancels its subscriptions and the page does not learn of it
  (`index.ts:96`): `cut` in `ListenersServed`.
- When loading stops after the user has gone to one of the browser's own pages, `sync()`
  puts the old address back over a window without a view (`C:121`): `hidden`.
- `index.ts:60` sends the completion of a call to whatever page its tab shows by then; a
  second window on macOS registers its handlers again, which throws (`index.ts:110`).
- A poll for a sign-in that a restart forgot is answered like one that may still
  succeed, and goes on for its ten minutes (`auth.ts:73`, `PollInVain`).
- A function that ends a subscription twice (`runtime-page.ts:24`) sends an unsubscribe for
  listeners that came later; an answer of a discovery may come after the tab has moved
  on (`C:126`); an audit row may be missing after its write (`G:168`). These are outside
  the models.

## 6. Plan

Done, in the order of importance: `DurableWorker` with `AtLeastOnce`; `TaskPool`;
`Admission`; `Invocation` with `AnsweredCalls`; `EventStream`; `ControlPlane` with deployments;
`SecureStore` and `SignIn`; `BrowserWindow`; their proofs.

Left:

1. A composition of `Admission` and `Invocation`: one execution per signed call.
2. `OrderClaim` on top of `DurableWorker`: one claimant, one reservation, with repeated
   deliveries and retried calls.
3. `refreshRuntime()` and the results of invocations across navigation.

## 7. Not modelled, and why

Cryptography (signatures, HMAC tickets, envelope encryption) is taken to be right;
HTTP parsing, schemas and URL rules are pure and unit-tested; views, the CLI, the
documentation site and code generation hold no state that others race with. The
order-claim example is an application of the SDK; the delivery it relies on is
`DurableWorker`'s. Schema creation runs under an advisory lock before anything else.
Within the modelled parts: more than one transaction per function, functions that
leave processes behind, clock drift between Gateway and database (but in `EventStream`),
the contents of audit rows and of project settings, several projects of one
organization, several scopes in the store of secrets, and two windows.
