-------------------------------- MODULE SignIn --------------------------------
(***************************************************************************)
(* End-user sign-in: signIn(), signOut() and session() of the browser's    *)
(* runtime-client.ts, the transactions of the Gateway's AuthService        *)
(* (auth.ts), which live in its memory, and the sessions of store.ts.      *)
(* The provider's redirect may be followed more than once, both processes  *)
(* may die, and sign-ins and sign-outs may overlap.                        *)
(***************************************************************************)
EXTENDS Naturals, SecureStore

CONSTANTS
  Attempts,  \* calls of signIn()
  MaxPolls   \* polls of an attempt (600, a second apart)

ASSUME SignInAssumption ==
  /\ MaxPolls \in Nat /\ None \notin Attempts
  /\ {"none", "open", "lost"} \cap Tokens = {}

VARIABLES
  at,       \* where each attempt is
  polls,    \* how often it has polled
  tx,       \* its transaction in the Gateway: a token once it is completed
  made,     \* sessions being made: each redirect makes one, for an attempt's state,
            \* and "adrift" or "strayed" once its handler is gone, before its row or after
  whose,    \* that attempt
  live,     \* sessions in the table
  out,      \* signOut(): where it is, and the token it read
  let       \* ghost: tokens that the memory let go of, but for a sign-out of their own

signing == <<at, polls, tx, made, whose, live, out, let>>
vars == <<store, signing>>

Ended == {"in", "failed", "timeout"}
Stored == {"inserted", "made", "strayed"}    \* its row has been inserted

TypeOK ==
  /\ StoreTypeOK
  /\ at \in [Attempts -> {"idle", "polling", "checking"} \cup Ended]
  /\ polls \in [Attempts -> 0 .. MaxPolls]
  /\ tx \in [Attempts -> Tokens \cup {"none", "open", "lost"}]
  /\ made \in [Tokens -> {"idle", "exchanging", "failed", "adrift"} \cup Stored]
  /\ whose \in [Tokens -> Attempts \cup {None}]
  /\ live \subseteq {t \in Tokens : made[t] \in Stored}
  /\ out \in [at : {"idle", "deleting", "clearing"}, token : Secrets]
  /\ let \subseteq Tokens

Init ==
  /\ StoreInit
  /\ at = [a \in Attempts |-> "idle"]
  /\ polls = [a \in Attempts |-> 0]
  /\ tx = [a \in Attempts |-> "none"]
  /\ made = [t \in Tokens |-> "idle"]
  /\ whose = [t \in Tokens |-> None]
  /\ live = {}
  /\ out = [at |-> "idle", token |-> None]
  /\ let = {}

-----------------------------------------------------------------------------
(* The Gateway                                                             *)

\* GET /v1/auth/dev or /callback: required(state), and the exchange begins.
Return(t, a) ==
  /\ made[t] = "idle" /\ tx[a] \notin {"none", "lost"}
  /\ made' = [made EXCEPT ![t] = "exchanging"]
  /\ whose' = [whose EXCEPT ![t] = a]
  /\ UNCHANGED <<store, at, polls, tx, live, out, let>>

\* The INSERT of createSession is committed, be it after its handler is gone.
InsertSession(t) ==
  /\ made[t] \in {"exchanging", "adrift"}
  /\ made' = [made EXCEPT ![t] = IF @ = "exchanging" THEN "inserted" ELSE "strayed"]
  /\ live' = live \cup {t}
  /\ UNCHANGED <<store, at, polls, tx, whose, out, let>>

\* Its answer arrives: transaction.sessionToken = session.token.
Complete(t) ==
  /\ made[t] = "inserted"
  /\ made' = [made EXCEPT ![t] = "made"]
  /\ tx' = IF tx[whose[t]] = "lost" THEN tx ELSE [tx EXCEPT ![whose[t]] = t]
  /\ UNCHANGED <<store, at, polls, whose, live, out, let>>

ExchangeFails(t) ==
  /\ made[t] = "exchanging"
  /\ made' = [made EXCEPT ![t] = "failed"]
  /\ UNCHANGED <<store, at, polls, tx, whose, live, out, let>>

Abandoned(t) ==
  CASE made[t] = "exchanging" -> "adrift"
    [] made[t] = "inserted" -> "strayed"
    [] OTHER -> made[t]

\* The connection is lost: createSession throws, whether or not the INSERT was or
\* will be committed, and the transaction stays open.
AnswerLost(t) ==
  /\ made[t] \in {"exchanging", "inserted"}
  /\ made' = [made EXCEPT ![t] = Abandoned(t)]
  /\ UNCHANGED <<store, at, polls, tx, whose, live, out, let>>

\* Ten minutes have passed.
TransactionExpires(a) ==
  /\ tx[a] \notin {"none", "lost"}
  /\ tx' = [tx EXCEPT ![a] = "lost"]
  /\ UNCHANGED <<store, at, polls, made, whose, live, out, let>>

SessionExpires(t) ==
  /\ t \in live
  /\ live' = live \ {t}
  /\ UNCHANGED <<store, at, polls, tx, made, whose, out, let>>

GatewayRestarts ==
  /\ tx' = [a \in Attempts |-> IF tx[a] = "none" THEN "none" ELSE "lost"]
  /\ made' = [t \in Tokens |-> Abandoned(t)]
  /\ UNCHANGED <<store, at, polls, whose, live, out, let>>

-----------------------------------------------------------------------------
(* The browser                                                             *)

\* Mutants (named Bad...): plausible mistakes that the properties must catch.
BadDelivered(a) == None                            \* the token is not passed on
BadRevoked == live                                 \* the memory is cleared only

Go(a, p) == at' = [at EXCEPT ![a] = p]

\* POST /v1/auth/start; the sign-in page opens outside the browser.
Start(a) ==
  /\ at[a] = "idle"
  /\ Go(a, "polling")
  /\ tx' = [tx EXCEPT ![a] = "open"]
  /\ UNCHANGED <<store, polls, made, whose, live, out, let>>

Counted(a) == [polls EXCEPT ![a] = @ + 1]

\* Pending, or an answer that is not ok: the next poll is a second later.
PollInVain(a) ==
  /\ at[a] = "polling" /\ polls[a] < MaxPolls
  /\ polls' = Counted(a)
  /\ UNCHANGED <<store, at, tx, made, whose, live, out, let>>

Delivered(a) == tx[a]

PollDelivers(a) ==
  /\ at[a] = "polling" /\ polls[a] < MaxPolls
  /\ tx[a] \in Tokens
  /\ polls' = Counted(a)
  /\ SetSession(Delivered(a))
  /\ let' = let \cup ({memory} \ {None, memory'})
  /\ Go(a, "checking")
  /\ UNCHANGED <<tx, made, whose, live, out>>

\* session(), with the token that the memory holds by now: null unless it is live
\* and the answer is ok.
CheckSession(a) ==
  /\ at[a] = "checking"
  /\ \E p \in {"in", "polling"} : (p = "in" => memory \in live) /\ Go(a, p)
  /\ UNCHANGED <<store, polls, tx, made, whose, live, out, let>>

TimeOut(a) ==
  /\ at[a] = "polling" /\ polls[a] = MaxPolls
  /\ Go(a, "timeout")
  /\ UNCHANGED <<store, polls, tx, made, whose, live, out, let>>

\* A fetch throws, or the page could not be opened.
AttemptFails(a) ==
  /\ at[a] \in {"polling", "checking"}
  /\ Go(a, "failed")
  /\ UNCHANGED <<store, polls, tx, made, whose, live, out, let>>

SignOut ==
  /\ out.at = "idle"
  /\ out' = [at |-> IF memory = None THEN "clearing" ELSE "deleting", token |-> memory]
  /\ UNCHANGED <<store, at, polls, tx, made, whose, live, let>>

Revoked == live \ {out.token}

\* DELETE /v1/session; the answer's status is not looked at.
Delete ==
  /\ out.at = "deleting"
  /\ out' = [out EXCEPT !.at = "clearing"]
  /\ live' = Revoked
  /\ UNCHANGED <<store, at, polls, tx, made, whose, let>>

DeleteRefused ==
  /\ out.at = "deleting"
  /\ out' = [out EXCEPT !.at = "clearing"]
  /\ let' = let \cup {out.token}
  /\ UNCHANGED <<store, at, polls, tx, made, whose, live>>

\* fetch throws, whether or not the DELETE was received: the token is kept.
DeleteLost ==
  /\ out.at = "deleting"
  /\ out' = [at |-> "idle", token |-> None]
  /\ live' \in {live, Revoked}
  /\ UNCHANGED <<store, at, polls, tx, made, whose, let>>

\* Whatever token the memory holds by now.
Clear ==
  /\ out.at = "clearing"
  /\ SetSession(None)
  /\ out' = [at |-> "idle", token |-> None]
  /\ let' = let \cup ({memory} \ {None, out.token})
  /\ UNCHANGED <<at, polls, tx, made, whose, live>>

NewKey == SetSession(memory) /\ UNCHANGED signing

BrowserRestarts ==
  /\ StoreRestart
  /\ at' = [a \in Attempts |-> IF at[a] \in {"polling", "checking"} THEN "failed" ELSE at[a]]
  /\ out' = [at |-> "idle", token |-> None]
  /\ let' = let \cup ({memory, out.token} \ {None, memory'})
  /\ UNCHANGED <<polls, tx, made, whose, live>>

-----------------------------------------------------------------------------
Gateway ==
  \/ \E t \in Tokens : (\E a \in Attempts : Return(t, a)) \/ InsertSession(t) \/ Complete(t)
  \/ \E a \in Attempts : TransactionExpires(a)
  \/ \E t \in Tokens : SessionExpires(t)

Browser ==
  \/ \E a \in Attempts : Start(a) \/ PollInVain(a) \/ PollDelivers(a) \/ CheckSession(a) \/ TimeOut(a)
  \/ SignOut \/ Delete \/ Clear \/ NewKey
  \/ \E p \in Persists : (Open(p) \/ WriteData(p) \/ Rename(p)) /\ UNCHANGED signing

Misfortune ==
  \/ \E t \in Tokens : ExchangeFails(t) \/ AnswerLost(t)
  \/ \E a \in Attempts : AttemptFails(a)
  \/ DeleteRefused \/ DeleteLost
  \/ GatewayRestarts \/ BrowserRestarts
  \/ \E p \in Persists : PersistFails(p) /\ UNCHANGED signing

Next == Gateway \/ Browser \/ Misfortune

Spec == Init /\ [][Next]_vars
-----------------------------------------------------------------------------
(* Properties                                                              *)

Reachable(t) ==
  \/ memory = t \/ out.token = t
  \/ (made[t] = "inserted" \/ tx[whose[t]] = t) /\ at[whose[t]] = "polling"

\* A live session is beyond the reach of its user only if its sign-in ended
\* without it, the transaction was lost or completed twice, the Gateway never
\* heard that its row was inserted, or the memory let go of it: for another
\* sign-in, at a crash, or for a sign-out that was refused or had read another
\* token.
OrphansExplained ==
  \A t \in live : ~Reachable(t) =>
    \/ at[whose[t]] \in {"failed", "timeout"} \/ tx[whose[t]] = "lost"
    \/ \E u \in Tokens \ {t} : made[u] = "made" /\ whose[u] = whose[t]
    \/ made[t] = "strayed" \/ t \in let

\* Once a sign-out clears the memory, the session it read is over, unless the
\* Gateway refused to end it.
SignOutRevokes == out.at = "clearing" => out.token \notin live \ let
=============================================================================
