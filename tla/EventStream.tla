----------------------------- MODULE EventStream -----------------------------
(***************************************************************************)
(* One subscription of a browser to a topic: streamEvents() of             *)
(* runtime-client.ts, which opens one event stream after another, and      *)
(* GET /v1/events of the Gateway (services/gateway/src/server.ts), which   *)
(* polls runtime_queue (store.ts, eventsSince) while workers insert rows.  *)
(* A row carries the time at which its INSERT began, in microseconds, and  *)
(* becomes visible when the INSERT is committed; the cursor of a stream is *)
(* a Date of JavaScript, in milliseconds.                                  *)
(***************************************************************************)
EXTENDS Integers, FiniteSets

CONSTANTS
  Events,      \* event ids, numbers in the order of the UUIDs
  Users,
  For,         \* the user that each event's payload names
  Sessions,
  Owner,       \* the user that signs in for each session
  None,        \* no value
  Ms,          \* units of time in a millisecond
  Interval,    \* between two polls (500 ms)
  Lifetime,    \* of a stream (55 s)
  Lag,         \* by how much the Gateway's clock is behind the database's
  Limit,       \* rows per poll (100)
  MaxTime      \* bound on the clock

ASSUME EventStreamAssumption ==
  /\ Events \subseteq Nat \ {0} /\ IsFiniteSet(Events)
  /\ For \in [Events -> Users] /\ Owner \in [Sessions -> Users]
  /\ None \notin Users \cup Sessions /\ None \notin Int
  /\ Ms \in Nat \ {0} /\ Interval \in Nat \ {0} /\ Lifetime \in Nat /\ Lag \in Int
  /\ Limit \in Nat \ {0} /\ MaxTime \in Nat

VARIABLES
  now,        \* the clock of the platform database
  at,         \* created_at of each row
  visible,    \* rows whose INSERT is committed
  session,    \* the session that the browser holds and the Gateway knows
  used,       \* sessions so far
  phase,      \* where streamEvents() is
  token,      \* the session it goes by
  openedAt,   \* when the present or last stream was opened
  polledAt,   \* when it was polled last
  since, afterId, seen,  \* the cursor of the stream, and what it has sent
  start,      \* ghost: where the cursor started
  late,       \* ghost: rows that became visible behind the cursor
  delivered,  \* how often each event was given to the listener
  leftAt      \* ghost: when each user's last session ended

table == <<at, visible>>
browser == <<session, used, leftAt>>
cursor == <<since, afterId, seen, start>>
stream == <<phase, token, openedAt, polledAt>>
vars == <<now, table, browser, cursor, stream, late, delivered>>

Times == 0 .. MaxTime
Rows == {e \in Events : at[e] # None}
Trunc(t) == t - (t % Ms)

TypeOK ==
  /\ now \in Times
  /\ at \in [Events -> Times \cup {None}]
  /\ visible \subseteq Rows
  /\ session \in Sessions \cup {None}
  /\ used \subseteq Sessions
  /\ phase \in {"between", "connecting", "open", "over"}
  /\ token \in Sessions \cup {None}
  /\ openedAt \in Times /\ polledAt \in Int
  /\ since \in Int /\ start \in Int /\ afterId \in Nat
  /\ seen \subseteq visible
  /\ late \subseteq visible
  /\ delivered \in [Events -> Nat]
  /\ leftAt \in [Users -> Times \cup {None}]

Init ==
  /\ now = 0
  /\ at = [e \in Events |-> None]
  /\ visible = {}
  /\ session = None
  /\ used = {}
  /\ phase = "between"
  /\ token = None
  /\ openedAt = 0 /\ polledAt = -Interval
  /\ since = 0 /\ start = 0 /\ afterId = 0 /\ seen = {}
  /\ late = {}
  /\ delivered = [e \in Events |-> 0]
  /\ leftAt = [u \in Users |-> None]

-----------------------------------------------------------------------------
(* Sessions of the browser, and rows inserted by workers                   *)
SignIn(s) ==
  /\ session = None /\ s \notin used
  /\ session' = s
  /\ used' = used \cup {s}
  /\ UNCHANGED <<now, table, cursor, stream, late, delivered, leftAt>>

\* The subscription is not told, in the browser or in the Gateway.
EndSession ==
  /\ session # None
  /\ session' = None
  /\ leftAt' = [leftAt EXCEPT ![Owner[session]] = now]
  /\ UNCHANGED <<now, table, cursor, stream, late, delivered, used>>

\* created_at is NOW(), the start of the worker's transaction.
Insert(e) ==
  /\ at[e] = None
  /\ at' = [at EXCEPT ![e] = now]
  /\ UNCHANGED <<now, visible, browser, cursor, stream, late, delivered>>

\* created_at > $3 OR (created_at = $3 AND event_id > $4)
After(e) == at[e] > since \/ (at[e] = since /\ e > afterId)

CommitRow(e) ==
  /\ e \in Rows \ visible
  /\ visible' = visible \cup {e}
  /\ late' = IF phase = "open" /\ ~After(e) THEN late \cup {e} ELSE late
  /\ UNCHANGED <<now, at, browser, cursor, stream, delivered>>

-----------------------------------------------------------------------------
(* The browser's loop                                                      *)

\* The token is read anew for every stream; without one the loop throws.
ReadToken ==
  /\ phase = "between"
  /\ token' = session
  /\ phase' = IF session = None THEN "over" ELSE "connecting"
  /\ UNCHANGED <<now, table, browser, cursor, openedAt, polledAt, late, delivered>>

\* Session and ticket are good (the checks take less than a unit of time); the
\* cursor starts at the Gateway's new Date().
Open ==
  /\ phase = "connecting" /\ session = token
  /\ phase' = "open"
  /\ openedAt' = now
  /\ since' = Trunc(now - Lag) /\ start' = since'
  /\ afterId' = 0 /\ seen' = {} /\ late' = {}
  /\ UNCHANGED <<now, table, browser, token, polledAt, delivered>>

\* The response ends, and its handler's variables with it.
Leave(p) ==
  /\ phase' = p
  /\ openedAt' = 0 /\ polledAt' = -Interval
  /\ since' = 0 /\ start' = 0 /\ afterId' = 0 /\ seen' = {} /\ late' = {}
  /\ UNCHANGED <<now, table, browser, token, delivered>>

\* Unsubscribed; or any error: a refusal, or a lost connection.  It is not retried.
End == phase \in {"connecting", "open"} /\ Leave("over")

-----------------------------------------------------------------------------
(* The Gateway's loop                                                      *)
Before(e, f) == at[e] < at[f] \/ (at[e] = at[f] /\ e < f)

\* Mutants (named Bad...): plausible mistakes that the properties must catch.
BadFresh(S) == S                                   \* seen is not looked up
BadFirst(S) ==                                     \* ORDER BY event_id
  {e \in S : Cardinality({f \in S : f < e}) < Limit}
BadCursorAt(e) == since                            \* the cursor stays
BadExpired == FALSE                                \* no deadline
BadSelected == {e \in Rows : For[e] = Owner[token] /\ After(e)}  \* READ UNCOMMITTED
BadSelectedForAll == {e \in visible : After(e)}    \* whoever the payload names

Selected == {e \in visible : For[e] = Owner[token] /\ After(e)}

\* ORDER BY created_at, event_id LIMIT n
First(S) == {e \in S : Cardinality({f \in S : Before(f, e)}) < Limit}

Fresh(S) == S \ seen

\* new Date(event.createdAt)
CursorAt(e) == Trunc(at[e])

Expired == now - openedAt >= Lifetime

\* The first turn of the loop of a stream, or a turn after its pause.
AtTurn == phase = "open" /\ (polledAt < openedAt \/ now - polledAt >= Interval)

\* One turn of the loop: the rows are read, and what is new is written.
Poll ==
  /\ AtTurn /\ ~Expired
  /\ polledAt' = now
  /\ LET new == Fresh(First(Selected)) IN
       /\ seen' = seen \cup new
       /\ delivered' = [e \in Events |-> IF e \in new THEN delivered[e] + 1 ELSE delivered[e]]
       /\ \/ new = {} /\ UNCHANGED <<since, afterId>>
          \/ \E e \in new :
               /\ \A f \in new : ~Before(e, f)
               /\ since' = CursorAt(e) /\ afterId' = e
  /\ UNCHANGED <<now, table, browser, start, phase, token, openedAt, late>>

\* The deadline has passed, or the query fails: the response ends either way,
\* and the browser's loop goes on with the next stream.
Close == AtTurn /\ Leave("between")

Tick ==
  /\ now < MaxTime
  /\ now' = now + 1
  /\ UNCHANGED <<table, browser, cursor, stream, late, delivered>>

Next ==
  \/ \E s \in Sessions : SignIn(s)
  \/ \E e \in Events : Insert(e) \/ CommitRow(e)
  \/ EndSession \/ ReadToken \/ Open \/ End \/ Poll \/ Close \/ Tick

Spec == Init /\ [][Next]_vars
-----------------------------------------------------------------------------
(* Properties                                                              *)

\* No event reaches the listener twice, although the cursor is coarser than the
\* times it is compared with and every stream starts again at the Gateway's
\* clock: the pause before a stream ends outweighs rounding and lag.
ClocksAgree == Lag + Ms <= Interval
OncePerSubscription == ClocksAgree => \A e \in Events : delivered[e] <= 1

\* Within a stream no row of the user's is passed over by the moving cursor,
\* but one whose INSERT was committed behind it.
NothingPassedOver ==
  phase = "open" =>
    \A e \in visible \ seen :
      For[e] = Owner[token] /\ at[e] > start /\ ~After(e) => e \in late

\* A page or more of the user's rows share the millisecond of the cursor.
Crowded == Cardinality({e \in Selected : Trunc(at[e]) = since}) >= Limit

\* Rows that are re-read, because the cursor is rounded down, do not fill the
\* page: a poll that has something to send sends something, whatever was sent
\* before, and stands still only on a millisecond with a page of rows of its own.
NeverStuck ==
  phase = "open" /\ Fresh(Selected) # {} => Fresh(First(Selected)) # {} \/ Crowded

\* An event reaches the listener only while the user it names is signed in, or
\* left less than the lifetime of a stream ago, whoever has signed in since.  The
\* documentation promises more (MCEventDocs); this is what the code keeps to.
DeliveredToItsUser ==
  [][\A e \in Events : delivered'[e] > delivered[e] =>
       \/ session # None /\ Owner[session] = For[e]
       \/ leftAt[For[e]] # None /\ now - leftAt[For[e]] < Lifetime]_vars
=============================================================================
