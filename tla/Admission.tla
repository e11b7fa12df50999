------------------------------ MODULE Admission ------------------------------
(***************************************************************************)
(* What the Gateway asks of a signed call before it runs it: the first     *)
(* half of POST /v1/invoke (services/gateway/src/server.ts), with the      *)
(* tickets of POST /v1/capabilities, the sessions and the nonces of        *)
(* store.ts.  The network may deliver a call late or more than once; each  *)
(* copy is a request of its own, and the handler awaits the database       *)
(* between its checks, so copies, sign-outs and time come in between.      *)
(***************************************************************************)
EXTENDS Integers, FiniteSets

CONSTANTS
  Calls,         \* calls of navigator.archetype.invoke, signed by a browser
  Copies,        \* requests that reach the Gateway
  Sessions,      \* session tokens
  Users,
  Owner,         \* the user that signed in for each session
  AuthRequired,  \* calls of operations deployed with auth 'required'
  Anonymous,     \* the subject of a call without a session
  None,          \* no value yet
  Window,        \* how far a timestamp may be from the Gateway's clock (120 s)
  Retention,     \* how long a nonce is kept (10 minutes)
  MaxDelay,      \* bound on the time between the freshness check and the INSERT
  TicketLife,    \* of a capability (60 s)
  MaxTime        \* bound on the clock

ASSUME AdmissionAssumption ==
  /\ Owner \in [Sessions -> Users]
  /\ AuthRequired \subseteq Calls
  /\ Anonymous \notin Users
  /\ None \notin Int /\ None \notin Calls /\ None \notin Sessions
  /\ Window \in Nat /\ Retention \in Nat /\ MaxDelay \in Nat
  /\ TicketLife \in Nat /\ MaxTime \in Nat

VARIABLES
  now,        \* the clock of the Gateway and of the platform database
  stamp,      \* timestamp of each call, by the browser's own clock
  token,      \* the session token that the browser sends with it
  ticket,     \* its capability: a subject and a time of expiry
  live,       \* sessions in the table
  ended,      \* ghost: sessions revoked or expired
  nonces,     \* replay_nonces
  pc,         \* where the handler of each copy is
  req,        \* the call that the copy carries
  checkedAt,  \* when its timestamp was checked
  subject,    \* whom its session belongs to
  usedAt,     \* ghost: when its nonce was accepted
  stale       \* ghost: copies received after their session had ended

browser == <<stamp, token, ticket>>
handler == <<pc, req, checkedAt, subject, usedAt, stale>>
vars == <<now, browser, live, ended, nonces, handler>>

Times == 0 .. MaxTime
Tokens == Sessions \cup {None}
Subjects == Users \cup {Anonymous}
Ticket == [subject : Subjects, expires : Nat]
Nonce == [call : Calls, at : Times]
Places == {"idle", "fresh", "sweeping", "session", "ticket", "admitted", "refused"}

TypeOK ==
  /\ now \in Times
  /\ stamp \in [Calls -> Times \cup {None}]
  /\ token \in [Calls -> Tokens]
  /\ ticket \in [Calls -> Ticket \cup {None}]
  /\ live \subseteq Sessions
  /\ ended \subseteq Sessions
  /\ nonces \subseteq Nonce
  /\ pc \in [Copies -> Places]
  /\ req \in [Copies -> Calls \cup {None}]
  /\ checkedAt \in [Copies -> Times \cup {None}]
  /\ subject \in [Copies -> Subjects]
  /\ usedAt \in [Copies -> Times \cup {None}]
  /\ stale \subseteq Copies

Init ==
  /\ now = 0
  /\ stamp = [c \in Calls |-> None]
  /\ token = [c \in Calls |-> None]
  /\ ticket = [c \in Calls |-> None]
  /\ live = {}
  /\ ended = {}
  /\ nonces = {}
  /\ pc = [d \in Copies |-> "idle"]
  /\ req = [d \in Copies |-> None]
  /\ checkedAt = [d \in Copies |-> None]
  /\ subject = [d \in Copies |-> Anonymous]
  /\ usedAt = [d \in Copies |-> None]
  /\ stale = {}

-----------------------------------------------------------------------------
(* Sessions, and the browsers' side of invoke()                            *)

SignIn(s) ==
  /\ s \notin live \cup ended
  /\ live' = live \cup {s}
  /\ UNCHANGED <<now, browser, ended, nonces, handler>>

\* DELETE /v1/session, or expires_at passes.
EndSession(s) ==
  /\ s \in live
  /\ live' = live \ {s}
  /\ ended' = ended \cup {s}
  /\ UNCHANGED <<now, browser, nonces, handler>>

\* Mutants (named Bad...): plausible mistakes that the properties must catch.
BadSubjectOf(c) ==           \* no fallback for a call without a session
  IF token[c] \in live THEN Owner[token[c]] ELSE None

\* store.session(token)?.subject ?? anonymous
SubjectOf(c) == IF token[c] \in live THEN Owner[token[c]] ELSE Anonymous

\* The browser signs with its own clock and takes along the token it has.
Sign(c) ==
  /\ stamp[c] = None
  /\ \E t \in Times : stamp' = [stamp EXCEPT ![c] = t]
  /\ \E s \in live \cup ended \cup {None} : token' = [token EXCEPT ![c] = s]
  /\ UNCHANGED <<now, ticket, live, ended, nonces, handler>>

IssueTicket(c) ==
  /\ stamp[c] # None /\ ticket[c] = None
  /\ c \in AuthRequired => SubjectOf(c) # Anonymous
  /\ ticket' = [ticket EXCEPT ![c] = [subject |-> SubjectOf(c), expires |-> now + TicketLife]]
  /\ UNCHANGED <<now, stamp, token, live, ended, nonces, handler>>

-----------------------------------------------------------------------------
(* The handler of one copy                                                 *)
Goto(d, place) == pc' = [pc EXCEPT ![d] = place]

InWindow(c) == now - stamp[c] <= Window /\ stamp[c] - now <= Window

\* The timestamp, the digest and the signature are checked before any await.
Receive(d, c) ==
  /\ pc[d] = "idle" /\ ticket[c] # None
  /\ req' = [req EXCEPT ![d] = c]
  /\ stale' = IF token[c] \in ended THEN stale \cup {d} ELSE stale
  /\ IF InWindow(c)
       THEN Goto(d, "fresh") /\ checkedAt' = [checkedAt EXCEPT ![d] = now]
       ELSE Goto(d, "refused") /\ UNCHANGED checkedAt
  /\ UNCHANGED <<now, browser, live, ended, nonces, subject, usedAt>>

Used(c) == \E n \in nonces : n.call = c

\* useNonce(): INSERT INTO replay_nonces, in a transaction of its own.
UseNonce(d) ==
  /\ pc[d] = "fresh" /\ ~Used(req[d])
  /\ nonces' = nonces \cup {[call |-> req[d], at |-> now]}
  /\ usedAt' = [usedAt EXCEPT ![d] = now]
  /\ Goto(d, "sweeping")
  /\ UNCHANGED <<now, browser, live, ended, req, checkedAt, subject, stale>>

\* Error 23505: the nonce is there already.
NonceRefused(d) ==
  /\ pc[d] = "fresh" /\ Used(req[d])
  /\ Goto(d, "refused")
  /\ UNCHANGED <<now, browser, live, ended, nonces, req, checkedAt, subject, usedAt, stale>>

\* The statement fails, or it was executed and its answer is lost: 500.
NonceFails(d) ==
  /\ pc[d] = "fresh"
  /\ nonces' \in {nonces} \cup
                 (IF Used(req[d]) THEN {} ELSE {nonces \cup {[call |-> req[d], at |-> now]}})
  /\ Goto(d, "refused")
  /\ UNCHANGED <<now, browser, live, ended, req, checkedAt, subject, usedAt, stale>>

BadKept == {n \in nonces : n.at + Window >= now}   \* kept for one window only

\* DELETE .. WHERE created_at < NOW() - Retention
Kept == {n \in nonces : n.at + Retention >= now}

Sweep(d) ==
  /\ pc[d] = "sweeping"
  /\ nonces' = Kept
  /\ Goto(d, "session")
  /\ UNCHANGED <<now, browser, live, ended, req, checkedAt, subject, usedAt, stale>>

\* A database read or the DELETE fails, or the project, its origin or the
\* operation is not there (any more).
Abandon(d) ==
  /\ pc[d] \in {"sweeping", "session", "ticket"}
  /\ Goto(d, "refused")
  /\ UNCHANGED <<now, browser, live, ended, nonces, req, checkedAt, subject, usedAt, stale>>

\* Project and deployment were read before; the session is read now.
ReadSession(d) ==
  /\ pc[d] = "session"
  /\ subject' = [subject EXCEPT ![d] = SubjectOf(req[d])]
  /\ IF req[d] \in AuthRequired /\ SubjectOf(req[d]) = Anonymous
       THEN Goto(d, "refused")
       ELSE Goto(d, "ticket")
  /\ UNCHANGED <<now, browser, live, ended, nonces, req, checkedAt, usedAt, stale>>

BadPermitted(d) == now < ticket[req[d]].expires   \* the subject is not compared

\* verifyCapability()
Permitted(d) ==
  /\ now < ticket[req[d]].expires
  /\ ticket[req[d]].subject = subject[d]

CheckTicket(d) ==
  /\ pc[d] = "ticket"
  /\ IF Permitted(d) THEN Goto(d, "admitted") ELSE Goto(d, "refused")
  /\ UNCHANGED <<now, browser, live, ended, nonces, req, checkedAt, subject, usedAt, stale>>

-----------------------------------------------------------------------------
\* Time passes; the assumption is that a connection to the database is had,
\* and the INSERT done, within MaxDelay of the check.
Tick ==
  /\ now < MaxTime
  /\ \A d \in Copies : pc[d] = "fresh" => now - checkedAt[d] < MaxDelay
  /\ now' = now + 1
  /\ UNCHANGED <<browser, live, ended, nonces, handler>>

Handle(d) ==
  \/ \E c \in Calls : Receive(d, c)
  \/ UseNonce(d) \/ NonceRefused(d) \/ NonceFails(d) \/ Sweep(d)
  \/ Abandon(d) \/ ReadSession(d) \/ CheckTicket(d)

Next ==
  \/ \E s \in Sessions : SignIn(s) \/ EndSession(s)
  \/ \E c \in Calls : Sign(c) \/ IssueTicket(c)
  \/ \E d \in Copies : Handle(d)
  \/ Tick

Spec == Init /\ [][Next]_vars
-----------------------------------------------------------------------------
(* Properties                                                              *)

\* Replays are refused (docs/security.md): of all the copies of a signed call
\* at most one passes the nonce, although nonces are swept while copies are
\* under way and timestamps may be as far in the future as in the past.
NoReplay ==
  \A d1, d2 \in Copies :
    usedAt[d1] # None /\ usedAt[d2] # None /\ req[d1] = req[d2] => d1 = d2

\* What makes it so: the retention covers the window on both sides and the
\* delay between the check of the timestamp and the INSERT of the nonce.
RetentionCovers == 2 * Window + MaxDelay <= Retention

\* A sign-out is final: a call whose ticket was issued to a user is not run,
\* neither for that user nor anonymously, when it is received after the end
\* of the session it was signed with, however fresh its ticket still is.
SignOutFinal ==
  \A d \in Copies :
    pc[d] = "admitted" /\ ticket[req[d]].subject # Anonymous => d \notin stale
-----------------------------------------------------------------------------
(* The inductive invariant, with which NoReplay is inductive               *)

\* A copy that passed the freshness check is within the window of its stamp;
\* until its nonce is inserted it is at most MaxDelay old.
CheckInv ==
  \A d \in Copies :
    /\ pc[d] = "fresh" \/ usedAt[d] # None =>
         /\ req[d] \in Calls /\ stamp[req[d]] \in Times /\ checkedAt[d] \in Times
         /\ checkedAt[d] - stamp[req[d]] <= Window
         /\ stamp[req[d]] - checkedAt[d] <= Window
    /\ pc[d] = "fresh" =>
         checkedAt[d] <= now /\ now - checkedAt[d] <= MaxDelay /\ usedAt[d] = None
    /\ pc[d] = "idle" => usedAt[d] = None

\* The nonce of a copy that passed is in the table, or older than Retention.
NonceInv ==
  \A d \in Copies : usedAt[d] # None =>
    /\ checkedAt[d] <= usedAt[d] /\ usedAt[d] <= now
    /\ [call |-> req[d], at |-> usedAt[d]] \in nonces \/ now - usedAt[d] > Retention

\* A call was signed before its ticket was issued.
SignedInv == \A c \in Calls : ticket[c] # None => stamp[c] \in Times

IInv == TypeOK /\ CheckInv /\ NonceInv /\ SignedInv
=============================================================================
