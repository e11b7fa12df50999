--------------------------- MODULE EventStreamProofs ---------------------------
(***************************************************************************)
(* Proofs about EventStream, for any rows, users, sessions, clocks and     *)
(* page size.  The cursor is always the start of a millisecond and never   *)
(* goes back; what the listener has of an earlier stream is older than the *)
(* start of the present one, by the pause before a stream ends; what it    *)
(* has of the present one is in seen, and none of that is of a later       *)
(* millisecond than the cursor's.                                          *)
(***************************************************************************)
EXTENDS EventStream, FiniteSetTheorems, TLAPS

USE EventStreamAssumption DEF EventStreamAssumption, Times

ClockInv ==
  /\ \A e \in Rows : at[e] <= now
  /\ openedAt <= now /\ polledAt <= now

\* The cursor of an open stream.
CursorInv ==
  phase = "open" =>
    /\ start = Trunc(openedAt - Lag) /\ since = Trunc(since) /\ start <= since
    /\ \A e \in seen : at[e] <= polledAt /\ openedAt <= polledAt

\* The rows that the listener has, apart from those of the present stream, are old.
OnceInv ==
  ClocksAgree =>
    \A e \in Events : delivered[e] > 0 =>
      /\ e \in visible /\ delivered[e] = 1
      /\ phase \in {"between", "connecting"} => at[e] <= now - Interval
      /\ phase = "open" /\ e \notin seen => at[e] <= openedAt - Interval /\ at[e] < start

\* The user of a stream has not been gone for longer than the stream is open.
UserInv ==
  /\ phase \in {"connecting", "open"} => token \in Sessions
  /\ phase = "open" =>
       session = token \/ (leftAt[Owner[token]] # None /\ leftAt[Owner[token]] >= openedAt)

IInv == TypeOK /\ ClockInv /\ CursorInv /\ OnceInv /\ NothingPassedOver /\ UserInv

\* What was sent is of the cursor's millisecond or of an earlier one.
SentInv == phase = "open" => \A e \in seen : Trunc(at[e]) <= since

-----------------------------------------------------------------------------
(* Rounding                                                                *)

\* Rounding down gives a multiple of the unit, less than one unit away.
LEMMA Rounding ==
  ASSUME NEW t \in Int
  PROVE  /\ Trunc(t) \in Int /\ Trunc(t) <= t /\ t < Trunc(t) + Ms
         /\ Trunc(t) = Ms * (t \div Ms) /\ t \div Ms \in Int
BY DEF Trunc

\* It keeps the order, and leaves what is rounded alone.
LEMMA RoundingOrder ==
  ASSUME NEW s \in Int, NEW t \in Int, s <= t
  PROVE  Trunc(s) <= Trunc(t)
<1> DEFINE p == s \div Ms
           q == t \div Ms
<1>1. /\ p \in Int /\ q \in Int /\ Trunc(s) = Ms * p /\ Trunc(t) = Ms * q
      /\ Ms * p <= s /\ t < Ms * q + Ms
  BY Rounding
<1> HIDE DEF p, q
<1>2. p <= q
  <2> SUFFICES ASSUME q + 1 <= p PROVE FALSE
    BY <1>1
  <2>1. Ms * (q + 1) <= Ms * p
    BY <1>1
  <2>2. Ms * (q + 1) = Ms * q + Ms
    BY <1>1
  <2> QED
    BY <1>1, <2>1, <2>2
<1>3. Ms * p <= Ms * q
  BY <1>1, <1>2
<1> QED
  BY <1>1, <1>3

LEMMA RoundingTwice ==
  ASSUME NEW t \in Int
  PROVE  Trunc(Trunc(t)) = Trunc(t)
<1> DEFINE p == t \div Ms
           r == Trunc(t) \div Ms
<1>1. p \in Int /\ Trunc(t) \in Int /\ Trunc(t) = Ms * p
  BY Rounding
<1>2. r \in Int /\ Trunc(Trunc(t)) = Ms * r /\ Ms * r <= Ms * p /\ Ms * p < Ms * r + Ms
  BY <1>1, Rounding
<1> HIDE DEF p, r
<1>3. p = r
  <2>1. ASSUME p + 1 <= r PROVE FALSE
    <3>1. Ms * (p + 1) <= Ms * r /\ Ms * (p + 1) = Ms * p + Ms
      BY <1>1, <1>2, <2>1
    <3> QED
      BY <1>1, <1>2, <3>1
  <2>2. ASSUME r + 1 <= p PROVE FALSE
    <3>1. Ms * (r + 1) <= Ms * p /\ Ms * (r + 1) = Ms * r + Ms
      BY <1>1, <1>2, <2>2
    <3> QED
      BY <1>1, <1>2, <3>1
  <2> QED
    BY <1>1, <1>2, <2>1, <2>2
<1> QED
  BY <1>1, <1>2, <1>3

-----------------------------------------------------------------------------
\* The initial states satisfy the inductive invariant.
LEMMA InitInv == Init => IInv
BY DEF Init, IInv, TypeOK, Rows, ClockInv, CursorInv, OnceInv, NothingPassedOver, UserInv

-----------------------------------------------------------------------------
(* Steps outside the Gateway's loop                                        *)

\* Rows do not lose their time, and a row that is not visible was not sent.
LEMMA TableStep ==
  ASSUME IInv, NEW e \in Events, Insert(e) \/ CommitRow(e)
  PROVE  IInv'
<1> USE DEF IInv
<1>1. CASE Insert(e)
  <2>1. /\ \A f \in Events : f # e => at'[f] = at[f]
        /\ at[e] = None /\ at'[e] = now /\ at' \in [Events -> Times \cup {None}]
        /\ UNCHANGED <<now, visible, browser, cursor, stream, late, delivered>>
    BY <1>1 DEF TypeOK, Insert
  <2>2. e \notin visible /\ Rows \subseteq Rows' /\ \A f \in visible : at'[f] = at[f]
    BY <2>1 DEF TypeOK, Rows
  <2>3. TypeOK'
    BY <2>1, <2>2 DEF TypeOK, browser, cursor, stream
  <2>4. ClockInv' /\ CursorInv' /\ UserInv'
    BY <2>1, <2>2 DEF TypeOK, Rows, ClockInv, CursorInv, UserInv, browser, cursor, stream
  <2>5. OnceInv'
    BY <2>1, <2>2 DEF TypeOK, Rows, OnceInv, ClocksAgree, browser, cursor, stream
  <2>6. NothingPassedOver'
    BY <2>1, <2>2 DEF TypeOK, Rows, NothingPassedOver, After, browser, cursor, stream
  <2> QED
    BY <2>3, <2>4, <2>5, <2>6
<1>2. CASE CommitRow(e)
  <2>1. /\ e \in Rows \ visible /\ visible' = visible \cup {e}
        /\ late' = IF phase = "open" /\ ~After(e) THEN late \cup {e} ELSE late
        /\ UNCHANGED <<now, at, browser, cursor, stream, delivered>>
    BY <1>2 DEF CommitRow
  <2>2. TypeOK'
    BY <2>1 DEF TypeOK, Rows, browser, cursor, stream
  <2>3. ClockInv' /\ CursorInv' /\ UserInv'
    BY <2>1 DEF TypeOK, Rows, ClockInv, CursorInv, UserInv, browser, cursor, stream
  <2>4. OnceInv'
    BY <2>1 DEF TypeOK, OnceInv, ClocksAgree, browser, cursor, stream
  <2>5. NothingPassedOver'
    BY <2>1 DEF TypeOK, NothingPassedOver, After, browser, cursor, stream
  <2> QED
    BY <2>2, <2>3, <2>4, <2>5
<1> QED
  BY <1>1, <1>2

\* What is not in the future now is not in the future later.
LEMMA ClockKept ==
  ASSUME TypeOK, ClockInv, now' \in Times, now <= now', UNCHANGED <<at, openedAt, polledAt>>
  PROVE  ClockInv'
<1>1. now \in Int /\ now' \in Int /\ openedAt \in Int /\ polledAt \in Int
  BY DEF TypeOK
<1>2. Rows' = Rows
  BY DEF Rows
<1>3. ASSUME NEW e \in Rows PROVE at[e] \in Int
  <2>1. e \in Events /\ at[e] # None
    BY DEF Rows
  <2>2. at[e] \in Times \cup {None}
    BY <2>1 DEF TypeOK
  <2> QED
    BY <2>1, <2>2
<1> QED
  BY <1>1, <1>2, <1>3 DEF ClockInv

\* Sessions come and go, and time passes, without the stream's being told.
LEMMA AroundStep ==
  ASSUME IInv, (\E s \in Sessions : SignIn(s)) \/ EndSession \/ Tick
  PROVE  IInv'
<1> USE DEF IInv
<1>1. /\ now' \in Times /\ now <= now'
      /\ UNCHANGED <<table, cursor, stream, late, delivered>>
  BY DEF TypeOK, SignIn, EndSession, Tick
<1>2. TypeOK'
  BY <1>1 DEF TypeOK, SignIn, EndSession, Tick, Rows, table, browser, cursor, stream
<1>3. ClockInv' /\ CursorInv'
  <2>1. ClockInv'
    BY <1>1, ClockKept DEF table, stream
  <2>2. CursorInv'
    BY <1>1 DEF CursorInv, table, cursor, stream
  <2> QED
    BY <2>1, <2>2
<1>4. OnceInv'
  BY <1>1 DEF TypeOK, OnceInv, ClocksAgree, Rows, table, cursor, stream
<1>5. NothingPassedOver'
  BY <1>1 DEF NothingPassedOver, After, table, cursor, stream
<1>6. UserInv'
  BY <1>1 DEF TypeOK, ClockInv, UserInv, SignIn, EndSession, Tick, browser, stream
<1> QED
  BY <1>2, <1>3, <1>4, <1>5, <1>6

\* A new stream's cursor is past everything that the listener has.
LEMMA OpenStep ==
  ASSUME IInv, ReadToken \/ Open
  PROVE  IInv'
<1> USE DEF IInv
<1>1. CASE ReadToken
  <2>1. TypeOK' /\ ClockInv' /\ CursorInv' /\ UserInv'
    BY <1>1 DEF TypeOK, ReadToken, Rows, ClockInv, CursorInv, UserInv, table, browser, cursor
  <2>2. OnceInv' /\ NothingPassedOver'
    BY <1>1 DEF TypeOK, ReadToken, OnceInv, ClocksAgree, NothingPassedOver, table, cursor
  <2> QED
    BY <2>1, <2>2
<1>2. CASE Open
  <2>1. /\ phase = "connecting" /\ session = token /\ phase' = "open" /\ openedAt' = now
        /\ since' = Trunc(now - Lag) /\ start' = since' /\ afterId' = 0 /\ seen' = {} /\ late' = {}
        /\ UNCHANGED <<now, at, visible, session, used, leftAt, token, polledAt, delivered>>
    BY <1>2 DEF Open, table, browser
  <2>2. now - Lag \in Int /\ since' \in Int /\ since' = Trunc(since') /\ now - Lag < since' + Ms
    BY <2>1, Rounding, RoundingTwice DEF TypeOK
  <2>3. TypeOK' /\ UserInv'
    BY <2>1, <2>2 DEF TypeOK, Rows, UserInv
  <2>4. CursorInv'
    BY <2>1, <2>2 DEF CursorInv
  <2>5. ClockInv'
    <3>1. \A e \in Rows' : at'[e] <= now'
      BY <2>1 DEF ClockInv, Rows
    <3>2. openedAt' <= now' /\ polledAt' <= now'
      BY <2>1 DEF TypeOK, ClockInv
    <3> QED
      BY <3>1, <3>2 DEF ClockInv
  <2>6. OnceInv'
    BY <2>1, <2>2 DEF TypeOK, Rows, OnceInv, ClocksAgree
  <2>7. NothingPassedOver'
    BY <2>1 DEF NothingPassedOver, After
  <2> QED
    BY <2>3, <2>4, <2>5, <2>6, <2>7
<1> QED
  BY <1>1, <1>2

\* What the listener has when a stream ends is as old as the pause before.
LEMMA LeaveStep ==
  ASSUME IInv, End \/ Close
  PROVE  IInv'
<1> USE DEF IInv
<1>1. /\ phase' \in {"over", "between"} /\ polledAt' = -Interval /\ openedAt' = 0
      /\ since' = 0 /\ start' = 0 /\ afterId' = 0 /\ seen' = {} /\ late' = {}
      /\ UNCHANGED <<now, table, browser, token, delivered>>
      /\ phase' = "between" => AtTurn
  BY DEF End, Close, Leave
<1>2. TypeOK' /\ ClockInv' /\ CursorInv' /\ NothingPassedOver' /\ UserInv'
  BY <1>1 DEF TypeOK, Rows, ClockInv, CursorInv, NothingPassedOver, UserInv, table, browser
<1>3. OnceInv'
  <2> SUFFICES ASSUME ClocksAgree, NEW e \in Events, delivered[e] > 0
               PROVE  e \in visible /\ delivered[e] = 1 /\ (phase' = "between" => at[e] <= now - Interval)
    BY <1>1 DEF OnceInv, ClocksAgree, table
  <2>1. e \in visible /\ delivered[e] = 1 /\ at[e] \in Times
    BY DEF TypeOK, OnceInv, Rows
  <2>2. ASSUME phase' = "between" PROVE at[e] <= now - Interval
    <3>1. phase = "open" /\ openedAt <= now /\ (polledAt < openedAt \/ now - polledAt >= Interval)
      BY <1>1, <2>2 DEF AtTurn, ClockInv
    <3>2. CASE e \in seen
      BY <2>1, <3>1, <3>2 DEF TypeOK, CursorInv
    <3>3. CASE e \notin seen
      BY <2>1, <3>1, <3>3 DEF TypeOK, OnceInv
    <3> QED
      BY <3>2, <3>3
  <2> QED
    BY <2>1, <2>2
<1> QED
  BY <1>2, <1>3

-----------------------------------------------------------------------------
(* A turn of the Gateway's loop                                            *)

\* A page with a row has every row that is to be sent before it.
LEMMA PageIsPrefix ==
  ASSUME TypeOK, NEW e \in Selected, NEW f \in First(Selected), Before(e, f)
  PROVE  e \in First(Selected)
<1> DEFINE P(x) == {y \in Selected : Before(y, x)}
<1>1. Selected \subseteq Events /\ f \in Selected
  BY DEF TypeOK, Selected, First, Rows
<1>2. IsFiniteSet(P(f)) /\ P(e) \subseteq P(f)
  <2>1. IsFiniteSet(Selected)
    BY <1>1, FS_Subset
  <2>2. P(e) \subseteq P(f)
    <3> SUFFICES ASSUME NEW y \in Selected, Before(y, e) PROVE Before(y, f)
      OBVIOUS
    <3>1. /\ y \in Int /\ e \in Int /\ f \in Int
          /\ at[y] \in Int /\ at[e] \in Int /\ at[f] \in Int
      BY <1>1 DEF TypeOK, Selected, Rows
    <3> QED
      BY <3>1 DEF Before
  <2> QED
    BY <2>1, <2>2, FS_Subset
<1>3. Cardinality(P(e)) <= Cardinality(P(f)) /\ IsFiniteSet(P(e))
  BY <1>2, FS_Subset
<1>4. Cardinality(P(e)) \in Nat /\ Cardinality(P(f)) \in Nat
  BY <1>2, <1>3, FS_CardinalityType
<1>5. Cardinality(P(f)) < Limit
  BY DEF First
<1>6. Cardinality(P(e)) < Limit
  BY <1>3, <1>4, <1>5
<1> QED
  BY <1>6 DEF First

\* A turn keeps the invariant: what is sent is after the cursor and not seen, and
\* what the cursor passes is sent.
LEMMA PollStep ==
  ASSUME IInv, Poll
  PROVE  IInv'
<1> USE DEF IInv
<1> DEFINE new == Fresh(First(Selected))
<1>1. /\ phase = "open" /\ polledAt' = now /\ seen' = seen \cup new
      /\ delivered' = [e \in Events |-> IF e \in new THEN delivered[e] + 1 ELSE delivered[e]]
      /\ UNCHANGED <<now, at, visible, session, used, leftAt, start, phase, token, openedAt, late>>
  BY DEF Poll, AtTurn, table, browser
<1>2. \A e \in new : /\ e \in visible /\ e \notin seen /\ e \in Events /\ For[e] = Owner[token] /\ After(e)
                     /\ at[e] \in Times /\ at[e] <= now /\ e \in Selected /\ e \in First(Selected)
  BY DEF Fresh, First, Selected, TypeOK, Rows, ClockInv
<1> HIDE DEF new
<1>3. \A e \in new : e \in Nat /\ at[e] \in Int /\ since <= at[e]
  <2> SUFFICES ASSUME NEW e \in new PROVE e \in Nat /\ at[e] \in Int /\ since <= at[e]
    OBVIOUS
  <2>1. e \in Nat
    BY <1>2
  <2>2. at[e] \in Int
    BY <1>2
  <2>3. since \in Int
    BY DEF TypeOK
  <2> QED
    BY <1>2, <2>1, <2>2, <2>3 DEF After
<1>4. \/ since' = since /\ afterId' = afterId
      \/ \E e \in new : since' = Trunc(at[e]) /\ afterId' = e
  BY DEF Poll, CursorAt, new
<1>5. since' \in Int /\ afterId' \in Nat /\ since <= since' /\ since' = Trunc(since')
  <2>1. CASE since' = since /\ afterId' = afterId
    BY <1>1, <2>1 DEF TypeOK, CursorInv
  <2>2. ASSUME NEW e \in new, since' = Trunc(at[e]), afterId' = e
        PROVE  since' \in Int /\ afterId' \in Nat /\ since <= since' /\ since' = Trunc(since')
    <3>1. at[e] \in Int /\ since \in Int /\ since <= at[e] /\ since = Trunc(since) /\ e \in Nat
      BY <1>1, <1>3, <2>2 DEF TypeOK, CursorInv
    <3>2. Trunc(since) <= Trunc(at[e]) /\ Trunc(at[e]) \in Int /\ Trunc(Trunc(at[e])) = Trunc(at[e])
      BY <3>1, RoundingOrder, Rounding, RoundingTwice
    <3> QED
      BY <2>2, <3>1, <3>2
  <2> QED
    BY <1>4, <2>1, <2>2
<1>6. TypeOK'
  <2>1. delivered' \in [Events -> Nat] /\ seen' \subseteq visible
    BY <1>1, <1>2 DEF TypeOK
  <2> QED
    BY <1>1, <1>5, <2>1 DEF TypeOK, Rows
<1>7. ClockInv' /\ UserInv'
  BY <1>1 DEF TypeOK, ClockInv, UserInv, Rows
<1>8. CursorInv'
  <2>1. \A e \in seen' : at[e] <= now /\ openedAt <= now
    BY <1>1, <1>2 DEF TypeOK, ClockInv, Rows
  <2>2. start <= since'
    BY <1>1, <1>5 DEF TypeOK, CursorInv
  <2> QED
    BY <1>1, <1>5, <2>1, <2>2 DEF CursorInv
<1>9. OnceInv'
  <2>1. ASSUME ClocksAgree, NEW e \in new PROVE delivered[e] = 0
    <3>1. delivered[e] \in Nat /\ at[e] \in Int /\ start <= since /\ since \in Int /\ start \in Int /\ since <= at[e]
      BY <1>1, <1>2, <1>3 DEF TypeOK, CursorInv
    <3>2. delivered[e] > 0 => at[e] < start
      BY <1>1, <1>2, <2>1 DEF OnceInv
    <3> QED
      BY <3>1, <3>2
  <2> QED
    BY <1>1, <1>2, <2>1 DEF TypeOK, OnceInv, ClocksAgree
<1>10. NothingPassedOver'
  <2> SUFFICES ASSUME NEW e \in visible \ seen', For[e] = Owner[token], at[e] > start, ~After(e)'
               PROVE  e \in late
    BY <1>1 DEF NothingPassedOver
  <2>1. CASE ~After(e)
    BY <1>1, <2>1 DEF NothingPassedOver
  <2>2. CASE After(e)
    <3>1. e \in Selected /\ e \notin seen /\ e \notin new /\ e \in Nat /\ at[e] \in Int
      BY <1>1, <2>2 DEF TypeOK, Selected, Rows
    <3>2. PICK f \in new : since' = Trunc(at[f]) /\ afterId' = f
      BY <1>1, <1>4, <2>2 DEF After
    <3>3. at[f] \in Int /\ f \in Nat /\ Trunc(at[f]) \in Int /\ Trunc(at[f]) <= at[f] /\ f # e
      BY <1>3, <3>1, Rounding
    <3>4. Before(e, f)
      BY <1>1, <3>1, <3>2, <3>3 DEF After, Before
    <3>5. e \in First(Selected)
      BY <1>2, <3>1, <3>4, PageIsPrefix
    <3> QED
      BY <3>1, <3>5 DEF new, Fresh
  <2> QED
    BY <2>1, <2>2
<1> QED
  BY <1>6, <1>7, <1>8, <1>9, <1>10

-----------------------------------------------------------------------------
(* A poll is not filled with what was sent                                 *)
LEMMA RowTimes ==
  ASSUME TypeOK
  PROVE  /\ \A f \in Rows : f \in Events /\ f \in Nat /\ at[f] \in Int
         /\ Selected \subseteq Rows /\ seen \subseteq Rows
<1>1. ASSUME NEW f \in Rows PROVE f \in Events /\ f \in Nat /\ at[f] \in Int
  <2>1. f \in Events /\ at[f] # None /\ at[f] \in Times \cup {None}
    BY DEF Rows, TypeOK
  <2> QED
    BY <2>1
<1>2. Selected \subseteq Rows /\ seen \subseteq Rows
  BY DEF TypeOK, Selected
<1> QED
  BY <1>1, <1>2

\* The cursor takes the millisecond of the last row that is sent.
LEMMA SentStep ==
  ASSUME IInv, SentInv, [Next]_vars
  PROVE  SentInv'
<1> SUFFICES ASSUME phase' = "open", NEW e \in seen' PROVE Trunc(at'[e]) <= since'
  BY DEF SentInv
<1>1. CASE Poll
  <2> DEFINE new == Fresh(First(Selected))
  <2>1. /\ phase = "open" /\ seen' = seen \cup new /\ UNCHANGED at
        /\ \/ new = {} /\ since' = since
           \/ \E f \in new : (\A g \in new : ~Before(f, g)) /\ since' = Trunc(at[f])
    BY <1>1 DEF Poll, AtTurn, CursorAt, table
  <2>2. new \subseteq Selected /\ \A f \in seen \cup Selected : at[f] \in Int
    BY RowTimes DEF IInv, Fresh, First
  <2> HIDE DEF new
  <2>3. since \in Int /\ since' \in Int /\ since <= since'
    <3>1. CASE since' = since
      BY <3>1 DEF IInv, TypeOK
    <3>2. ASSUME NEW f \in new, since' = Trunc(at[f]) PROVE since \in Int /\ since' \in Int /\ since <= since'
      <4>1. at[f] \in Int /\ since \in Int /\ since = Trunc(since) /\ After(f)
        BY <2>1, <2>2, <3>2 DEF IInv, TypeOK, CursorInv, Selected
      <4>2. since <= at[f]
        BY <4>1 DEF After
      <4>3. Trunc(since) <= Trunc(at[f]) /\ Trunc(at[f]) \in Int
        BY <4>1, <4>2, Rounding, RoundingOrder
      <4> QED
        BY <3>2, <4>1, <4>3
    <3> QED
      BY <2>1, <3>1, <3>2
  <2>4. CASE e \in seen
    <3>1. Trunc(at[e]) \in Int /\ Trunc(at[e]) <= since
      BY <2>1, <2>2, <2>4, Rounding DEF SentInv
    <3> QED
      BY <2>1, <2>3, <3>1
  <2>5. CASE e \in new
    <3>1. PICK f \in new : ~Before(f, e) /\ since' = Trunc(at[f])
      BY <2>1, <2>5
    <3>2. at[f] \in Int /\ at[e] \in Int /\ at[e] <= at[f]
      BY <2>2, <2>5, <3>1 DEF Before
    <3> QED
      BY <2>1, <3>1, <3>2, RoundingOrder
  <2> QED
    BY <2>1, <2>4, <2>5
<1>2. CASE phase = "open" /\ UNCHANGED <<seen, since>> /\ \A f \in seen : at'[f] = at[f]
  BY <1>2 DEF SentInv
<1>3. \/ Poll \/ seen' = {}
      \/ phase = "open" /\ UNCHANGED <<seen, since>> /\ \A f \in seen : at'[f] = at[f]
  <2>1. ASSUME NEW f \in Events, Insert(f)
        PROVE  phase = "open" /\ UNCHANGED <<seen, since>> /\ \A g \in seen : at'[g] = at[g]
    BY <2>1 DEF IInv, TypeOK, Insert, Rows, cursor, stream
  <2>2. ASSUME NEW f \in Events, CommitRow(f)
        PROVE  phase = "open" /\ UNCHANGED <<seen, since>> /\ \A g \in seen : at'[g] = at[g]
    BY <2>2 DEF CommitRow, cursor, stream
  <2> QED
    BY <2>1, <2>2 DEF Next, SignIn, EndSession, ReadToken, Open, End, Close, Leave, Tick, vars, table, cursor, stream
<1> QED
  BY <1>1, <1>2, <1>3

\* Of the rows that are to be sent one has none before it that is to be sent too.
LEMMA Foremost ==
  ASSUME TypeOK, Fresh(Selected) # {}
  PROVE  \E e \in Fresh(Selected) : \A f \in Selected : Before(f, e) => f \in seen
<1> DEFINE P(e) == {f \in Selected : Before(f, e)}
           T == {P(e) : e \in Fresh(Selected)}
           R == StrictSubsetOrdering(Selected)
<1>1. \A e \in Selected : e \in Events /\ e \in Nat /\ at[e] \in Int
  <2>1. /\ \A f \in Rows : f \in Events /\ f \in Nat /\ at[f] \in Int
        /\ Selected \subseteq Rows
    BY RowTimes
  <2> QED
    BY ONLY <2>1
<1>2. IsFiniteSet(Selected) /\ Fresh(Selected) \subseteq Selected
  <2>1. Selected \subseteq Events
    BY <1>1
  <2> QED
    BY <2>1, FS_Subset DEF Fresh
<1>3. PICK m \in T : \A n \in T : <<n, m>> \notin R
  <2>1. IsWellFoundedOn(R, FiniteSubsetsOf(Selected)) /\ FiniteSubsetsOf(Selected) = SUBSET Selected
    BY <1>2, FS_StrictSubsetOrderingWellFounded, FS_FiniteSubsetsOfFinite
  <2>2. T \subseteq SUBSET Selected /\ T # {}
    <3>1. PICK x \in Fresh(Selected) : TRUE
      OBVIOUS
    <3>2. P(x) \in T
      BY <3>1
    <3>3. \A y : P(y) \subseteq Selected
      OBVIOUS
    <3> QED
      BY <3>2, <3>3
  <2> HIDE DEF T, R
  <2>3. IsWellFoundedOn(R, SUBSET Selected)
    BY <2>1
  <2> QED
    BY <2>2, <2>3, WFMin
<1>4. PICK e \in Fresh(Selected) : m = P(e)
  OBVIOUS
<1>5. ASSUME NEW f \in Selected, Before(f, e), f \notin seen PROVE FALSE
  <2>1. f \in Fresh(Selected) /\ P(f) \in T
    BY <1>5 DEF Fresh
  <2>2. f \in P(e) /\ f \notin P(f)
    BY <1>1, <1>5 DEF Before
  <2>3. P(f) \subseteq P(e)
    <3> SUFFICES ASSUME NEW g \in Selected, Before(g, f) PROVE Before(g, e)
      OBVIOUS
    <3> QED
      BY <1>1, <1>2, <1>5 DEF Before
  <2>4. <<P(f), P(e)>> \in R
    BY <2>2, <2>3 DEF StrictSubsetOrdering
  <2> QED
    BY <1>3, <1>4, <2>1, <2>4
<1> QED
  BY <1>4, <1>5

\* What is read again shares the cursor's millisecond.
LEMMA RereadIsShared ==
  ASSUME IInv, SentInv, phase = "open", NEW f \in Selected \cap seen
  PROVE  Trunc(at[f]) = since
<1>1. f \in Rows /\ at[f] \in Int /\ since \in Int /\ since = Trunc(since) /\ since <= at[f]
  <2>1. f \in Rows /\ at[f] \in Int /\ since \in Int /\ since = Trunc(since) /\ After(f)
    BY RowTimes DEF IInv, TypeOK, CursorInv, Selected
  <2> QED
    BY <2>1 DEF After
<1>2. Trunc(since) <= Trunc(at[f]) /\ Trunc(at[f]) <= since /\ Trunc(at[f]) \in Int
  BY <1>1, Rounding, RoundingOrder DEF SentInv
<1> QED
  BY <1>1, <1>2

LEMMA Unfilled == IInv /\ SentInv => NeverStuck
<1> SUFFICES ASSUME IInv, SentInv, phase = "open", ~Crowded, Fresh(Selected) # {}
             PROVE  Fresh(First(Selected)) # {}
  BY DEF NeverStuck
<1>1. PICK e \in Fresh(Selected) : \A f \in Selected : Before(f, e) => f \in seen
  BY Foremost DEF IInv
<1> DEFINE P == {f \in Selected : Before(f, e)}
           M == {f \in Selected : Trunc(at[f]) = since}
<1>2. P \subseteq M
  BY <1>1, RereadIsShared
<1>3. IsFiniteSet(M) /\ Cardinality(M) \in Nat
  <2>1. M \subseteq Events
    BY DEF IInv, TypeOK, Selected, Rows
  <2> QED
    BY <2>1, EventStreamAssumption, FS_Subset, FS_CardinalityType
<1>4. Cardinality(M) < Limit
  BY <1>3, EventStreamAssumption DEF Crowded
<1> HIDE DEF P, M
<1>5. Cardinality(P) <= Cardinality(M) /\ Cardinality(P) \in Nat
  BY <1>2, <1>3, FS_Subset, FS_CardinalityType
<1>6. Cardinality(P) < Limit
  BY <1>3, <1>4, <1>5, EventStreamAssumption
<1> QED
  BY <1>6 DEF P, Fresh, First

-----------------------------------------------------------------------------
(* Theorems                                                                *)

\* The invariant is inductive.
LEMMA InvStep ==
  ASSUME IInv, [Next]_vars
  PROVE  IInv'
<1>1. CASE Next
  BY <1>1, TableStep, AroundStep, OpenStep, LeaveStep, PollStep DEF Next
<1>2. CASE UNCHANGED vars
  BY <1>2 DEF vars, table, browser, cursor, stream, IInv, TypeOK, Rows, ClockInv, CursorInv, OnceInv, ClocksAgree,
    NothingPassedOver, After, UserInv
<1> QED
  BY <1>1, <1>2

\* The inductive invariant holds in every reachable state.
LEMMA Inductive == Spec => []IInv
BY InitInv, InvStep, PTL DEF Spec

\* Every variable keeps to its type.
THEOREM TypeCorrect == Spec => []TypeOK
<1>1. IInv => TypeOK
  BY DEF IInv
<1> QED
  BY <1>1, Inductive, PTL

\* A listener is given no event twice, over all the streams of its subscription.
THEOREM DeliveredOnce == Spec => []OncePerSubscription
<1>1. IInv => OncePerSubscription
  BY DEF IInv, TypeOK, OnceInv, OncePerSubscription
<1> QED
  BY <1>1, Inductive, PTL

\* The cursor of a stream passes over no row of its user's that was visible to it.
THEOREM CursorMissesNothing == Spec => []NothingPassedOver
<1>1. IInv => NothingPassedOver
  BY DEF IInv
<1> QED
  BY <1>1, Inductive, PTL

\* An event is given to a listener only while its user is signed in, or for the
\* rest of the stream that was open when that user left.
THEOREM GivenToItsUser == Spec => DeliveredToItsUser
<1>1. ASSUME IInv, [Next]_vars
      PROVE  [\A e \in Events : delivered'[e] > delivered[e] =>
                \/ session # None /\ Owner[session] = For[e]
                \/ leftAt[For[e]] # None /\ now - leftAt[For[e]] < Lifetime]_vars
  <2>1. CASE UNCHANGED delivered
    BY <1>1, <2>1 DEF IInv, TypeOK
  <2>2. CASE Poll
    <3> SUFFICES ASSUME NEW e \in Events, delivered'[e] > delivered[e]
                 PROVE  \/ session # None /\ Owner[session] = For[e]
                        \/ leftAt[For[e]] # None /\ now - leftAt[For[e]] < Lifetime
      OBVIOUS
    <3>1. phase = "open" /\ now - openedAt < Lifetime
      BY <1>1, <2>2 DEF IInv, TypeOK, Poll, AtTurn, Expired
    <3>2. e \in Fresh(First(Selected))
      <4> DEFINE new == Fresh(First(Selected))
      <4>1. delivered' = [x \in Events |-> IF x \in new THEN delivered[x] + 1 ELSE delivered[x]]
        BY <2>2 DEF Poll
      <4> HIDE DEF new
      <4>2. e \in new
        BY <1>1, <4>1 DEF IInv, TypeOK
      <4> QED
        BY <4>2 DEF new
    <3>3. For[e] = Owner[token] /\ token \in Sessions
      BY <1>1, <3>1, <3>2 DEF Fresh, First, Selected, IInv, UserInv
    <3>4. CASE session = token
      BY <3>3, <3>4
    <3>5. CASE leftAt[Owner[token]] # None /\ leftAt[Owner[token]] >= openedAt
      BY <1>1, <3>1, <3>3, <3>5 DEF IInv, TypeOK
    <3> QED
      BY <1>1, <3>1, <3>4, <3>5 DEF IInv, UserInv
  <2>3. UNCHANGED delivered \/ Poll
    BY <1>1 DEF Next, SignIn, EndSession, Insert, CommitRow, ReadToken, Open, End, Close, Leave, Tick, vars
  <2> QED
    BY <2>1, <2>2, <2>3
<1> QED
  BY <1>1, Inductive, PTL DEF Spec, DeliveredToItsUser

\* A stream that has something to send sends something, unless a page of rows
\* shares the millisecond of its cursor.
THEOREM PagesAreNotFilled == Spec => []NeverStuck
<1>1. Init => SentInv
  BY DEF Init, SentInv
<1>2. IInv /\ SentInv /\ [Next]_vars => SentInv'
  BY SentStep
<1> QED
  BY <1>1, <1>2, Inductive, Unfilled, PTL DEF Spec
=============================================================================
