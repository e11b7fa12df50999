--------------------------- MODULE AdmissionProofs ---------------------------
(***************************************************************************)
(* Proofs about Admission, for any number of calls, copies and sessions    *)
(* and any values of the time constants: when the retention of nonces      *)
(* covers both sides of the window and the delay of the INSERT, no signed  *)
(* call passes the nonce twice; and, whatever the retention, a sign-out is *)
(* final for the calls received after it.                                  *)
(***************************************************************************)
EXTENDS Admission, TLAPS

USE AdmissionAssumption DEF AdmissionAssumption

\* The initial state satisfies the inductive invariant.
LEMMA InitInv == Init => IInv
BY DEF Init, IInv, TypeOK, CheckInv, NonceInv, SignedInv, Times, Tokens, Subjects, Places

\* A subject is a user or nobody.
LEMMA SubjectType ==
  ASSUME TypeOK, NEW c \in Calls
  PROVE  SubjectOf(c) \in Subjects
BY DEF TypeOK, SubjectOf, Subjects, Tokens

-----------------------------------------------------------------------------
(* The invariant's parts, step by step                                     *)

\* Types, for every step.
LEMMA TypeStep ==
  ASSUME IInv, Next
  PROVE  TypeOK'
<1> USE DEF IInv, TypeOK, Times, Tokens
<1>1. ASSUME NEW s \in Sessions, SignIn(s) \/ EndSession(s) PROVE TypeOK'
  BY <1>1 DEF SignIn, EndSession, browser, handler
<1>2. ASSUME NEW c \in Calls, Sign(c) PROVE TypeOK'
  BY <1>2 DEF Sign, handler
<1>3. ASSUME NEW c \in Calls, IssueTicket(c) PROVE TypeOK'
  <2>1. [subject |-> SubjectOf(c), expires |-> now + TicketLife] \in Ticket
    BY SubjectType DEF Ticket
  <2> QED
    BY <1>3, <2>1 DEF IssueTicket, handler
<1>4. ASSUME NEW d \in Copies, Handle(d) PROVE TypeOK'
  <2> USE DEF Goto, Places, browser
  <2>1. ASSUME NEW c \in Calls, Receive(d, c) PROVE TypeOK'
    <3>1. pc' \in [Copies -> Places] /\ checkedAt' \in [Copies -> Times \cup {None}]
      BY <2>1 DEF Receive
    <3> QED
      BY <2>1, <3>1 DEF Receive
  <2>2. ASSUME pc[d] = "fresh" PROVE [call |-> req[d], at |-> now] \in Nonce
    BY <2>2 DEF Nonce, CheckInv
  <2>3. CASE UseNonce(d)
    BY <2>2, <2>3 DEF UseNonce
  <2>4. CASE NonceRefused(d)
    BY <2>4 DEF NonceRefused
  <2>5. CASE NonceFails(d)
    BY <2>2, <2>5 DEF NonceFails
  <2>6. CASE Sweep(d)
    BY <2>6 DEF Sweep, Kept
  <2>7. CASE Abandon(d)
    BY <2>7 DEF Abandon
  <2>8. CASE ReadSession(d)
    <3>1. pc' \in [Copies -> Places]
      BY <2>8 DEF ReadSession
    <3>2. SubjectOf(req[d]) \in Subjects
      BY DEF SubjectOf, Subjects
    <3> QED
      BY <2>8, <3>1, <3>2 DEF ReadSession
  <2>9. CASE CheckTicket(d)
    BY <2>9 DEF CheckTicket
  <2> QED
    BY <1>4, <2>1, <2>3, <2>4, <2>5, <2>6, <2>7, <2>8, <2>9 DEF Handle
<1>5. CASE Tick
  BY <1>5 DEF Tick, browser, handler
<1> QED
  BY <1>1, <1>2, <1>3, <1>4, <1>5 DEF Next

\* Steps of browsers and sessions leave the copies alone and keep stamps.
LEMMA BrowserStep ==
  ASSUME IInv, (\E s \in Sessions : SignIn(s) \/ EndSession(s)) \/ (\E c \in Calls : Sign(c) \/ IssueTicket(c))
  PROVE  CheckInv' /\ NonceInv' /\ SignedInv'
<1>1. /\ now' = now /\ nonces' = nonces /\ pc' = pc /\ req' = req
      /\ checkedAt' = checkedAt /\ usedAt' = usedAt
      /\ \A c \in Calls : stamp[c] # None => stamp'[c] = stamp[c]
  BY DEF IInv, TypeOK, SignIn, EndSession, Sign, IssueTicket, browser, handler
<1>2. \A c \in Calls : stamp[c] \in Times => stamp'[c] = stamp[c]
  BY <1>1 DEF Times
<1>3. CheckInv'
  BY <1>1, <1>2 DEF IInv, CheckInv
<1>4. NonceInv'
  BY <1>1 DEF IInv, NonceInv
<1>5. SignedInv'
  BY <1>2 DEF IInv, TypeOK, SignedInv, SignIn, EndSession, Sign, IssueTicket, browser, handler
<1> QED
  BY <1>3, <1>4, <1>5

\* A copy that is received has a stamp within the window.
LEMMA ReceiveStep ==
  ASSUME IInv, NEW d \in Copies, NEW c \in Calls, Receive(d, c)
  PROVE  CheckInv' /\ NonceInv' /\ SignedInv'
<1> USE DEF IInv, TypeOK
<1>1. /\ usedAt[d] = None /\ now' = now /\ stamp' = stamp /\ ticket' = ticket
      /\ nonces' = nonces /\ usedAt' = usedAt
  BY DEF Receive, CheckInv, browser
<1>2. req'[d] = c /\ \A e \in Copies \ {d} : req'[e] = req[e] /\ pc'[e] = pc[e] /\ checkedAt'[e] = checkedAt[e]
  BY DEF Receive, Goto
<1>3. CheckInv'
  <2>1. stamp[c] \in Times
    BY DEF Receive, SignedInv
  <2>2. CASE InWindow(c)
    <3>1. pc'[d] = "fresh" /\ checkedAt'[d] = now
      BY <2>2 DEF Receive, Goto
    <3> QED
      BY <1>1, <1>2, <2>1, <2>2, <3>1 DEF CheckInv, InWindow, Times
  <2>3. CASE ~InWindow(c)
    <3>1. pc'[d] = "refused"
      BY <2>3 DEF Receive, Goto
    <3> QED
      BY <1>1, <1>2, <3>1 DEF CheckInv
  <2> QED
    BY <2>2, <2>3
<1>4. NonceInv'
  BY <1>1, <1>2 DEF NonceInv
<1> QED
  BY <1>1, <1>3, <1>4 DEF SignedInv

\* A nonce that is accepted is in the table, and its copy was fresh.
LEMMA UseNonceStep ==
  ASSUME IInv, NEW d \in Copies, UseNonce(d)
  PROVE  CheckInv' /\ NonceInv' /\ SignedInv'
<1> USE DEF IInv, TypeOK
<1>1. /\ pc[d] = "fresh"
      /\ nonces' = nonces \cup {[call |-> req[d], at |-> now]}
      /\ usedAt' = [usedAt EXCEPT ![d] = now]
      /\ pc' = [pc EXCEPT ![d] = "sweeping"]
      /\ now' = now /\ stamp' = stamp /\ ticket' = ticket /\ req' = req /\ checkedAt' = checkedAt
  BY DEF UseNonce, Goto, browser
<1>2. /\ req[d] \in Calls /\ stamp[req[d]] \in Times /\ checkedAt[d] \in Times
      /\ checkedAt[d] - stamp[req[d]] <= Window
      /\ stamp[req[d]] - checkedAt[d] <= Window
      /\ now - checkedAt[d] <= MaxDelay /\ checkedAt[d] <= now
  BY <1>1 DEF CheckInv
<1>3. usedAt'[d] = now /\ pc'[d] = "sweeping" /\ \A e \in Copies \ {d} : usedAt'[e] = usedAt[e] /\ pc'[e] = pc[e]
  BY <1>1
<1>4. CheckInv'
  BY <1>1, <1>2, <1>3 DEF CheckInv
<1>5. NonceInv'
  BY <1>1, <1>2, <1>3 DEF NonceInv, Times
<1> QED
  BY <1>1, <1>4, <1>5 DEF SignedInv

\* A sweep takes away only nonces that are older than Retention.
LEMMA SweepStep ==
  ASSUME IInv, NEW d \in Copies, Sweep(d)
  PROVE  CheckInv' /\ NonceInv' /\ SignedInv'
<1> USE DEF IInv, TypeOK
<1>1. /\ pc[d] = "sweeping" /\ pc' = [pc EXCEPT ![d] = "session"] /\ nonces' = Kept
      /\ now' = now /\ stamp' = stamp /\ ticket' = ticket /\ req' = req
      /\ checkedAt' = checkedAt /\ usedAt' = usedAt
  BY DEF Sweep, Goto, browser
<1>2. CheckInv'
  BY <1>1 DEF CheckInv
<1>3. NonceInv'
  <2>1. ASSUME NEW e \in Copies, usedAt[e] # None,
               [call |-> req[e], at |-> usedAt[e]] \in nonces, ~(now - usedAt[e] > Retention)
        PROVE  [call |-> req[e], at |-> usedAt[e]] \in Kept
    BY <2>1 DEF Kept, Times
  <2> QED
    BY <1>1, <2>1 DEF NonceInv
<1> QED
  BY <1>1, <1>2, <1>3 DEF SignedInv

\* The handler's other steps only move on, or leave a nonce behind.
LEMMA OtherStep ==
  ASSUME IInv, NEW d \in Copies,
         NonceRefused(d) \/ NonceFails(d) \/ Abandon(d) \/ ReadSession(d) \/ CheckTicket(d)
  PROVE  CheckInv' /\ NonceInv' /\ SignedInv'
<1> USE DEF IInv, TypeOK
<1>1. /\ now' = now /\ stamp' = stamp /\ ticket' = ticket /\ req' = req
      /\ checkedAt' = checkedAt /\ usedAt' = usedAt /\ nonces \subseteq nonces'
  BY DEF NonceRefused, NonceFails, Abandon, ReadSession, CheckTicket, browser
<1>2. /\ pc'[d] \notin {"fresh", "idle"} /\ pc[d] # "idle"
      /\ \A e \in Copies \ {d} : pc'[e] = pc[e]
  BY DEF NonceRefused, NonceFails, Abandon, ReadSession, CheckTicket, Goto
<1>3. CheckInv'
  BY <1>1, <1>2 DEF CheckInv
<1>4. NonceInv'
  BY <1>1 DEF NonceInv
<1> QED
  BY <1>1, <1>3, <1>4 DEF SignedInv

\* Time does not pass for a copy that has waited for MaxDelay.
LEMMA TickStep ==
  ASSUME IInv, Tick
  PROVE  CheckInv' /\ NonceInv' /\ SignedInv'
<1> USE DEF IInv, TypeOK
<1>1. /\ now' = now + 1 /\ stamp' = stamp /\ ticket' = ticket /\ nonces' = nonces
      /\ pc' = pc /\ req' = req /\ checkedAt' = checkedAt /\ usedAt' = usedAt
      /\ \A d \in Copies : pc[d] = "fresh" => now - checkedAt[d] < MaxDelay
  BY DEF Tick, browser, handler
<1>2. CheckInv'
  BY <1>1 DEF CheckInv, Times
<1>3. NonceInv'
  <2>1. \A d \in Copies : usedAt[d] # None => usedAt[d] \in Times
    OBVIOUS
  <2> QED
    BY <1>1, <2>1 DEF NonceInv, Times
<1> QED
  BY <1>1, <1>2, <1>3 DEF SignedInv

-----------------------------------------------------------------------------
(* The theorems                                                            *)

\* The inductive invariant holds, whatever the retention.
THEOREM Invariant == Spec => []IInv
<1>1. IInv /\ [Next]_vars => IInv'
  <2> SUFFICES ASSUME IInv, [Next]_vars PROVE IInv'
    OBVIOUS
  <2>1. CASE Next
    <3>1. TypeOK'
      BY <2>1, TypeStep
    <3>2. CheckInv' /\ NonceInv' /\ SignedInv'
      BY <2>1, BrowserStep, ReceiveStep, UseNonceStep, SweepStep, OtherStep, TickStep DEF Next, Handle
    <3> QED
      BY <3>1, <3>2 DEF IInv
  <2>2. CASE UNCHANGED vars
    BY <2>2 DEF vars, browser, handler, IInv, TypeOK, CheckInv, NonceInv, SignedInv
  <2> QED
    BY <2>1, <2>2
<1> QED
  BY InitInv, <1>1, PTL DEF Spec

\* Every variable keeps its type.
THEOREM TypeCorrect == Spec => []TypeOK
<1>1. IInv => TypeOK
  BY DEF IInv
<1> QED
  BY Invariant, <1>1, PTL

\* The heart of the argument: a nonce is accepted for a call that no other
\* copy has passed for, because an accepted nonce is swept only when every
\* copy of its call is too old to be fresh.
LEMMA AcceptedOnce ==
  ASSUME RetentionCovers, IInv, NEW d \in Copies, UseNonce(d), NEW e \in Copies, usedAt[e] # None
  PROVE  req[e] # req[d]
<1> USE DEF IInv, TypeOK
<1> SUFFICES ASSUME req[e] = req[d] PROVE FALSE
  OBVIOUS
<1>1. pc[d] = "fresh" /\ ~Used(req[d])
  BY DEF UseNonce
<1>2. /\ stamp[req[d]] \in Times /\ checkedAt[d] \in Times
      /\ checkedAt[d] - stamp[req[d]] <= Window
      /\ now - checkedAt[d] <= MaxDelay
  BY <1>1 DEF CheckInv
<1>3. usedAt[e] \in Times /\ checkedAt[e] \in Times
  BY DEF CheckInv
<1>4. [call |-> req[e], at |-> usedAt[e]] \notin nonces
  BY <1>1 DEF Used
<1>5. now - usedAt[e] > Retention /\ checkedAt[e] <= usedAt[e]
  BY <1>4 DEF NonceInv
<1>6. stamp[req[d]] - checkedAt[e] <= Window
  BY DEF CheckInv
<1> QED
  BY <1>2, <1>3, <1>5, <1>6 DEF RetentionCovers, Times

\* No step lets a second copy of a call pass.
LEMMA ReplayStep ==
  ASSUME RetentionCovers, IInv, NoReplay, [Next]_vars
  PROVE  NoReplay'
<1> USE DEF IInv, TypeOK
<1>1. ASSUME NEW d \in Copies, UseNonce(d) PROVE NoReplay'
  <2>1. usedAt' = [usedAt EXCEPT ![d] = now] /\ req' = req
    BY <1>1 DEF UseNonce
  <2>2. \A e \in Copies : usedAt[e] # None => req[e] # req[d]
    BY <1>1, AcceptedOnce
  <2> QED
    BY <2>1, <2>2 DEF NoReplay
<1>2. ASSUME NEW d \in Copies, NEW c \in Calls, Receive(d, c) PROVE NoReplay'
  <2>1. /\ usedAt[d] = None /\ usedAt' = usedAt
        /\ \A e \in Copies \ {d} : req'[e] = req[e]
    BY <1>2 DEF Receive, CheckInv
  <2> QED
    BY <2>1 DEF NoReplay
<1>3. CASE usedAt' = usedAt /\ req' = req
  BY <1>3 DEF NoReplay
<1> QED
  BY <1>1, <1>2, <1>3 DEF Next, Handle, SignIn, EndSession, Sign, IssueTicket, NonceRefused, NonceFails,
    Sweep, Abandon, ReadSession, CheckTicket, Tick, browser, handler, vars

\* Replays are refused: 2 * Window + MaxDelay <= Retention suffices.
THEOREM ReplaysAreRefused == ASSUME RetentionCovers PROVE Spec => []NoReplay
<1>1. Init => NoReplay
  BY DEF Init, NoReplay
<1>2. IInv /\ NoReplay /\ [Next]_vars => NoReplay'
  BY RetentionCovers, ReplayStep
<1> QED
  BY Invariant, <1>1, <1>2, PTL DEF Spec

-----------------------------------------------------------------------------
(* Sign-outs                                                               *)

\* A copy received after its session ended finds nobody signed in, so that only
\* a ticket of nobody's admits it; the call's token and ticket stay as they are.
StaleInv ==
  /\ DOMAIN stamp = Calls /\ DOMAIN token = Calls /\ DOMAIN ticket = Calls
  /\ DOMAIN pc = Copies /\ DOMAIN req = Copies /\ DOMAIN subject = Copies
  /\ stale \subseteq Copies /\ live \cap ended = {}
  /\ \A c \in Calls : ticket[c] # None => stamp[c] # None
  /\ \A d \in stale :
       /\ pc[d] # "idle" /\ req[d] \in Calls
       /\ ticket[req[d]] # None /\ token[req[d]] \in ended
       /\ pc[d] = "ticket" => subject[d] = Anonymous
       /\ pc[d] = "admitted" => ticket[req[d]].subject = Anonymous

\* What sessions and browsers do leaves the stale copies as they are.
LEMMA StaleOutside ==
  ASSUME StaleInv,
         \/ \E s \in Sessions : SignIn(s) \/ EndSession(s)
         \/ \E c \in Calls : Sign(c) \/ IssueTicket(c)
         \/ Tick
  PROVE  StaleInv'
<1>1. /\ UNCHANGED handler /\ ended \subseteq ended' /\ live' \cap ended' = {}
      /\ DOMAIN stamp' = Calls /\ DOMAIN token' = Calls /\ DOMAIN ticket' = Calls
  BY DEF StaleInv, SignIn, EndSession, Sign, IssueTicket, Tick, browser
<1>2. \A c \in Calls : ticket[c] # None => ticket'[c] = ticket[c] /\ token'[c] = token[c]
  BY DEF StaleInv, SignIn, EndSession, Sign, IssueTicket, Tick, browser
<1>3. \A c \in Calls : ticket'[c] # None => stamp'[c] # None
  BY DEF StaleInv, SignIn, EndSession, Sign, IssueTicket, Tick, browser, Times
<1> QED
  BY <1>1, <1>2, <1>3 DEF StaleInv, handler

\* The handler sees to it that a stale copy is treated as nobody's.
LEMMA StaleHandled ==
  ASSUME StaleInv, NEW d \in Copies, Handle(d)
  PROVE  StaleInv'
<1>1. /\ UNCHANGED <<stamp, token, ticket, live, ended>>
      /\ DOMAIN pc' = Copies /\ DOMAIN req' = Copies /\ DOMAIN subject' = Copies
  BY DEF StaleInv, Handle, Receive, UseNonce, NonceRefused, NonceFails, Sweep, Abandon, ReadSession, CheckTicket,
    Goto, browser
<1>2. \A e \in Copies \ {d} : pc'[e] = pc[e] /\ req'[e] = req[e] /\ subject'[e] = subject[e] /\ (e \in stale' => e \in stale)
  BY DEF StaleInv, Handle, Receive, UseNonce, NonceRefused, NonceFails, Sweep, Abandon, ReadSession, CheckTicket, Goto
<1>3. stale' \subseteq Copies
  BY DEF StaleInv, Handle, Receive, UseNonce, NonceRefused, NonceFails, Sweep, Abandon, ReadSession, CheckTicket
<1>4. ASSUME d \in stale'
      PROVE  /\ pc'[d] # "idle" /\ req'[d] \in Calls
             /\ ticket[req'[d]] # None /\ token[req'[d]] \in ended
             /\ pc'[d] = "ticket" => subject'[d] = Anonymous
             /\ pc'[d] = "admitted" => ticket[req'[d]].subject = Anonymous
  <2>1. ASSUME NEW c \in Calls, Receive(d, c)
        PROVE  /\ pc'[d] \in {"fresh", "refused"} /\ req'[d] = c
               /\ ticket[c] # None /\ token[c] \in ended
    BY <1>4, <2>1 DEF StaleInv, Receive, Goto
  <2>2. CASE ReadSession(d)
    <3>1. d \in stale /\ subject'[d] = SubjectOf(req[d]) /\ pc'[d] \in {"refused", "ticket"} /\ req' = req
      BY <1>4, <2>2 DEF StaleInv, ReadSession, Goto
    <3>2. SubjectOf(req[d]) = Anonymous
      BY <3>1 DEF StaleInv, SubjectOf
    <3> QED
      BY <3>1, <3>2 DEF StaleInv
  <2>3. CASE CheckTicket(d)
    BY <1>4, <2>3 DEF StaleInv, CheckTicket, Permitted, Goto
  <2>4. CASE UseNonce(d) \/ NonceRefused(d) \/ NonceFails(d) \/ Sweep(d) \/ Abandon(d)
    BY <1>4, <2>4 DEF StaleInv, UseNonce, NonceRefused, NonceFails, Sweep, Abandon, Goto
  <2> QED
    BY <2>1, <2>2, <2>3, <2>4 DEF Handle
<1> QED
  BY <1>1, <1>2, <1>3, <1>4 DEF StaleInv

\* No call with a user's ticket is run when it comes after that session's end.
THEOREM SignOutsAreFinal == Spec => []SignOutFinal
<1>1. Init => StaleInv
  BY DEF Init, StaleInv
<1>2. StaleInv /\ [Next]_vars => StaleInv'
  <2>1. ASSUME StaleInv, UNCHANGED vars PROVE StaleInv'
    BY <2>1 DEF StaleInv, vars, browser, handler
  <2> QED
    BY <2>1, StaleOutside, StaleHandled DEF Next
<1>3. StaleInv => SignOutFinal
  BY DEF StaleInv, SignOutFinal
<1> QED
  BY <1>1, <1>2, <1>3, PTL DEF Spec
=============================================================================
