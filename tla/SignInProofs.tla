----------------------------- MODULE SignInProofs -----------------------------
(***************************************************************************)
(* Proofs about SignIn and the SecureStore it works on, for any number of  *)
(* tokens, sign-ins and overlapping persists.  The file is what the memory *)
(* is because a persist that has the temporary file for itself from its    *)
(* start to its end leaves nothing of the others; and a session that its   *)
(* user can no longer reach was let go of by one of the ways listed.       *)
(***************************************************************************)
EXTENDS SignIn, TLAPS

USE SecureStoreAssumption, SignInAssumption
    DEF SecureStoreAssumption, SignInAssumption, Secrets, Contents

\* A persist that is alone writes what the memory holds.
SoleInv ==
  sole # None =>
    /\ stage[sole] # "idle" /\ \A q \in Persists \ {sole} : stage[q] = "idle"
    /\ snap[sole] = memory
    /\ stage[sole] = "write" => fd[sole] = "temp" /\ temp = "empty"
    /\ stage[sole] = "rename" => temp = memory

\* Without a mishap a persist under way is alone, and the file is whole.
StoreInv ==
  ~mishap =>
    /\ Quiet \/ sole # None
    /\ file \notin {"empty", "garbled"}
    /\ Quiet => Loaded = memory

Made == {t \in Tokens : made[t] = "made"}

\* Every token that is kept anywhere is one that the Gateway made, and a
\* transaction knows only sessions of its own.
KnownInv ==
  /\ {memory, out.token} \subseteq Made \cup {None}
  /\ {temp, file} \cap Tokens \subseteq Made
  /\ \A p \in Persists : snap[p] \in Made \cup {None}
  /\ \A t \in Tokens : made[t] # "idle" => whose[t] \in Attempts /\ at[whose[t]] # "idle"
  /\ \A a \in Attempts : at[a] = "idle" <=> tx[a] = "none"
  /\ \A a \in Attempts : tx[a] \in Tokens => tx[a] \in Made /\ whose[tx[a]] = a
  /\ \A a \in Attempts : at[a] \in {"checking", "in"} => \E t \in Made : whose[t] = a

\* Where a sign-out is, and the memory it works on.
OutInv ==
  /\ out.at = "idle" => out.token = None
  /\ out.at = "deleting" => out.token # None /\ (memory = out.token \/ out.token \in let)
  /\ SignOutRevokes

IInv == TypeOK /\ SoleInv /\ StoreInv /\ KnownInv /\ OutInv /\ OrphansExplained

\* The initial state satisfies the inductive invariant.
LEMMA InitInv == Init => IInv
<1> SUFFICES ASSUME Init PROVE IInv
  OBVIOUS
<1>1. TypeOK
  <2>1. StoreTypeOK
    BY DEF Init, StoreInit, StoreTypeOK
  <2>2. polls \in [Attempts -> 0 .. MaxPolls]
    BY DEF Init
  <2> QED
    BY <2>1, <2>2 DEF Init, TypeOK
<1>2. SoleInv /\ StoreInv
  BY DEF Init, StoreInit, SoleInv, StoreInv, Quiet, Loaded
<1>3. KnownInv /\ OutInv /\ OrphansExplained
  BY DEF Init, StoreInit, KnownInv, Made, OutInv, SignOutRevokes, OrphansExplained
<1> QED
  BY <1>1, <1>2, <1>3 DEF IInv

-----------------------------------------------------------------------------
(* The store by itself                                                     *)
Persist(p) == Open(p) \/ WriteData(p) \/ Rename(p) \/ PersistFails(p)

StoreNext ==
  \/ \E t \in Secrets : SetSession(t)
  \/ \E p \in Persists : Persist(p)
  \/ StoreRestart
  \/ UNCHANGED store

\* The store's variables keep their types.
LEMMA StoreType ==
  ASSUME StoreTypeOK, StoreNext
  PROVE  StoreTypeOK'
<1> USE DEF StoreTypeOK
<1>1. ASSUME NEW t \in Secrets, SetSession(t) PROVE StoreTypeOK'
  BY <1>1 DEF SetSession
<1>2. ASSUME NEW p \in Persists, Open(p) PROVE StoreTypeOK'
  BY <1>2 DEF Open, Target
<1>3. ASSUME NEW p \in Persists, WriteData(p) PROVE StoreTypeOK'
  BY <1>3 DEF WriteData, Over
<1>4. ASSUME NEW p \in Persists, Rename(p) PROVE StoreTypeOK'
  <2>1. fd' \in [Persists -> {"none", "temp", "file", "gone"}]
    BY <1>4 DEF Rename, Renamed
  <2> QED
    BY <1>4, <2>1 DEF Rename
<1>5. ASSUME NEW p \in Persists, PersistFails(p) PROVE StoreTypeOK'
  BY <1>5 DEF PersistFails
<1>6. CASE StoreRestart
  BY <1>6 DEF StoreRestart, Loaded
<1>7. CASE UNCHANGED store
  BY <1>7 DEF store
<1> QED
  BY <1>1, <1>2, <1>3, <1>4, <1>5, <1>6, <1>7 DEF StoreNext, Persist

\* A persist that is alone is undisturbed, and its rename makes the file current.
LEMMA StoreStep ==
  ASSUME StoreTypeOK, SoleInv, StoreInv, StoreNext
  PROVE  SoleInv' /\ StoreInv'
<1> USE DEF StoreTypeOK
<1>1. ASSUME NEW t \in Secrets, SetSession(t) PROVE SoleInv' /\ StoreInv'
  <2>1. PICK p \in Persists :
          /\ stage[p] = "idle" /\ memory' = t /\ stage' = [stage EXCEPT ![p] = "open"]
          /\ snap' = [snap EXCEPT ![p] = t] /\ sole' = (IF Quiet THEN p ELSE None)
          /\ mishap' = (mishap \/ ~Quiet) /\ UNCHANGED <<temp, file, fd>>
    BY <1>1 DEF SetSession
  <2>2. SoleInv'
    BY <2>1 DEF SoleInv, Quiet
  <2>3. StoreInv'
    BY <2>1 DEF StoreInv, Quiet
  <2> QED
    BY <2>2, <2>3
<1>2. ASSUME NEW p \in Persists, Open(p) PROVE SoleInv' /\ StoreInv'
  <2>1. /\ stage[p] = "open" /\ stage' = [stage EXCEPT ![p] = "write"] /\ fd' = [fd EXCEPT ![p] = "temp"]
        /\ temp' = "empty" /\ UNCHANGED <<file, memory, snap, sole, mishap>>
    BY <1>2 DEF Open, Target
  <2>2. SoleInv'
    BY <2>1 DEF SoleInv
  <2>3. StoreInv'
    BY <2>1 DEF StoreInv, SoleInv, Quiet
  <2> QED
    BY <2>2, <2>3
<1>3. ASSUME NEW p \in Persists, WriteData(p) PROVE SoleInv' /\ StoreInv'
  <2>1. /\ stage[p] = "write" /\ stage' = [stage EXCEPT ![p] = "rename"] /\ fd' = [fd EXCEPT ![p] = "none"]
        /\ UNCHANGED <<memory, snap, sole, mishap>>
        /\ sole = p => temp' = snap[p] /\ file' = file
    BY <1>3 DEF WriteData, Over, SoleInv
  <2>2. sole # None => sole = p
    BY <2>1 DEF SoleInv
  <2>3. SoleInv'
    BY <2>1, <2>2 DEF SoleInv
  <2>4. StoreInv'
    BY <2>1, <2>2 DEF StoreInv, SoleInv, Quiet
  <2> QED
    BY <2>3, <2>4
<1>4. ASSUME NEW p \in Persists, Rename(p) PROVE SoleInv' /\ StoreInv'
  <2>1. /\ stage[p] = "rename" /\ stage' = [stage EXCEPT ![p] = "idle"]
        /\ file' = temp /\ mishap' = (mishap /\ sole # p) /\ sole' = None /\ memory' = memory
    BY <1>4 DEF Rename
  <2>2. ~mishap' => sole = p
    BY <2>1 DEF StoreInv, SoleInv, Quiet
  <2>3. sole = p => file' = memory /\ Quiet'
    BY <2>1 DEF SoleInv, Quiet
  <2> QED
    BY <2>1, <2>2, <2>3 DEF SoleInv, StoreInv, Loaded
<1>5. ASSUME NEW p \in Persists, PersistFails(p) PROVE SoleInv' /\ StoreInv'
  BY <1>5 DEF PersistFails, SoleInv, StoreInv
<1>6. CASE StoreRestart
  BY <1>6 DEF StoreRestart, SoleInv, StoreInv, Quiet, Loaded
<1>7. CASE UNCHANGED store
  BY <1>7 DEF store, SoleInv, StoreInv, Quiet, Loaded
<1> QED
  BY <1>1, <1>2, <1>3, <1>4, <1>5, <1>6, <1>7 DEF StoreNext, Persist

\* The store invents no token: what it keeps it kept before, or holds in memory.
LEMMA StoreKeeps ==
  ASSUME StoreTypeOK, StoreNext, NEW S,
         memory \in S \cup {None}, {temp, file} \cap Tokens \subseteq S,
         \A p \in Persists : snap[p] \in S \cup {None}, memory' \in S \cup {None}
  PROVE  {temp', file'} \cap Tokens \subseteq S /\ \A p \in Persists : snap'[p] \in S \cup {None}
<1> USE DEF StoreTypeOK
<1>1. ASSUME NEW t \in Secrets, SetSession(t)
      PROVE  {temp', file'} \cap Tokens \subseteq S /\ \A p \in Persists : snap'[p] \in S \cup {None}
  BY <1>1 DEF SetSession
<1>2. ASSUME NEW q \in Persists, Persist(q)
      PROVE  {temp', file'} \cap Tokens \subseteq S /\ \A p \in Persists : snap'[p] \in S \cup {None}
  BY <1>2 DEF Persist, Open, Target, WriteData, Over, Rename, PersistFails
<1>3. CASE StoreRestart
  BY <1>3 DEF StoreRestart
<1>4. CASE UNCHANGED store
  BY <1>4 DEF store
<1> QED
  BY <1>1, <1>2, <1>3, <1>4 DEF StoreNext

-----------------------------------------------------------------------------
(* Types                                                                   *)

\* Whatever happens, the store makes a step of its own, or none.
LEMMA IsStoreStep ==
  ASSUME TypeOK, Next
  PROVE  StoreNext
BY DEF TypeOK, StoreTypeOK, Next, Gateway, Browser, Misfortune, Return, InsertSession, Complete, TransactionExpires, SessionExpires,
  Start, PollInVain, PollDelivers, Delivered, CheckSession, TimeOut, SignOut, Delete, Clear, NewKey, ExchangeFails, AnswerLost, Abandoned,
  AttemptFails, DeleteRefused, DeleteLost, GatewayRestarts, BrowserRestarts, StoreNext, Persist, signing

\* Every step keeps the types.
LEMMA TypeStep ==
  ASSUME TypeOK, OutInv, Next
  PROVE  TypeOK'
<1> USE DEF TypeOK
<1>1. StoreTypeOK'
  BY StoreType, IsStoreStep
<1>2. memory' \in Secrets
  BY <1>1 DEF StoreTypeOK
<1>3. CASE Gateway
  <2>1. ASSUME NEW t \in Tokens, NEW a \in Attempts, Return(t, a) PROVE TypeOK'
    BY <1>1, <2>1 DEF Return, Stored
  <2>2. ASSUME NEW t \in Tokens, InsertSession(t) \/ Complete(t) PROVE TypeOK'
    <3>1. /\ made' \in [Tokens -> {"idle", "exchanging", "failed", "adrift"} \cup Stored]
          /\ live' \subseteq {u \in Tokens : made'[u] \in Stored}
      BY <2>2 DEF InsertSession, Complete, Stored
    <3>2. tx' \in [Attempts -> Tokens \cup {"none", "open", "lost"}]
      BY <2>2 DEF InsertSession, Complete
    <3> QED
      BY <1>1, <2>2, <3>1, <3>2 DEF InsertSession, Complete
  <2>3. ASSUME NEW a \in Attempts, TransactionExpires(a) PROVE TypeOK'
    BY <1>1, <2>3 DEF TransactionExpires
  <2>4. ASSUME NEW t \in Tokens, SessionExpires(t) PROVE TypeOK'
    BY <1>1, <2>4 DEF SessionExpires
  <2> QED
    BY <1>3, <2>1, <2>2, <2>3, <2>4 DEF Gateway
<1>4. CASE Browser
  <2>1. ASSUME NEW a \in Attempts, Start(a) \/ CheckSession(a) \/ TimeOut(a) PROVE TypeOK'
    BY <1>1, <2>1 DEF Start, CheckSession, TimeOut, Go, Ended
  <2>2. ASSUME NEW a \in Attempts, PollInVain(a) PROVE TypeOK'
    BY <1>1, <2>2 DEF PollInVain, Counted
  <2>3. ASSUME NEW a \in Attempts, PollDelivers(a) PROVE TypeOK'
    <3>1. polls' \in [Attempts -> 0 .. MaxPolls]
      BY <2>3 DEF PollDelivers, Counted
    <3>2. let' \subseteq Tokens
      BY <2>3 DEF PollDelivers, StoreTypeOK
    <3> QED
      BY <1>1, <2>3, <3>1, <3>2 DEF PollDelivers, Go, Ended
  <2>4. CASE SignOut \/ Delete
    BY <1>1, <2>4 DEF SignOut, Delete, Revoked, StoreTypeOK
  <2>5. CASE Clear
    BY <1>1, <2>5 DEF Clear, StoreTypeOK
  <2>6. CASE UNCHANGED signing
    BY <1>1, <2>6 DEF signing
  <2> QED
    BY <1>4, <2>1, <2>2, <2>3, <2>4, <2>5, <2>6 DEF Browser, NewKey
<1>5. CASE Misfortune
  <2>1. ASSUME NEW t \in Tokens, ExchangeFails(t) \/ AnswerLost(t) PROVE TypeOK'
    BY <1>1, <2>1 DEF ExchangeFails, AnswerLost, Abandoned, Stored
  <2>2. ASSUME NEW a \in Attempts, AttemptFails(a) PROVE TypeOK'
    BY <1>1, <2>2 DEF AttemptFails, Go, Ended
  <2>3. CASE DeleteRefused
    <3>1. out.token \in Tokens
      BY <2>3 DEF DeleteRefused, OutInv
    <3> QED
      BY <1>1, <2>3, <3>1 DEF DeleteRefused
  <2>4. CASE DeleteLost
    BY <1>1, <2>4 DEF DeleteLost, Revoked
  <2>5. CASE GatewayRestarts
    <3>1. /\ tx' \in [Attempts -> Tokens \cup {"none", "open", "lost"}]
          /\ made' \in [Tokens -> {"idle", "exchanging", "failed", "adrift"} \cup Stored]
      BY <2>5 DEF GatewayRestarts, Abandoned, Stored
    <3>2. \A t \in live : made'[t] \in Stored
      BY <2>5 DEF GatewayRestarts, Abandoned, Stored
    <3> QED
      BY <1>1, <2>5, <3>1, <3>2 DEF GatewayRestarts
  <2>6. CASE BrowserRestarts
    <3>1. at' \in [Attempts -> {"idle", "polling", "checking"} \cup Ended]
      BY <2>6 DEF BrowserRestarts, Ended
    <3>2. let' \subseteq Tokens
      BY <2>6 DEF BrowserRestarts, StoreTypeOK
    <3> QED
      BY <1>1, <2>6, <3>1, <3>2 DEF BrowserRestarts
  <2>7. CASE UNCHANGED signing
    BY <1>1, <2>7 DEF signing
  <2> QED
    BY <1>5, <2>1, <2>2, <2>3, <2>4, <2>5, <2>6, <2>7 DEF Misfortune
<1> QED
  BY <1>3, <1>4, <1>5 DEF Next

-----------------------------------------------------------------------------
(* What is known of tokens                                                 *)

\* Sessions that were made stay made, and for the attempt they were made for.
LEMMA MadeStays ==
  ASSUME TypeOK, Next
  PROVE  Made \subseteq Made' /\ \A t \in Made : whose'[t] = whose[t]
BY DEF TypeOK, Made, Next, Gateway, Browser, Misfortune, Return, InsertSession, Complete, TransactionExpires, SessionExpires,
  Start, PollInVain, PollDelivers, CheckSession, TimeOut, SignOut, Delete, Clear, NewKey, ExchangeFails, AnswerLost, Abandoned,
  AttemptFails, DeleteRefused, DeleteLost, GatewayRestarts, BrowserRestarts, signing

\* The memory takes only a token that is kept already, or that was delivered.
LEMMA MemoryStep ==
  ASSUME TypeOK, KnownInv, Next
  PROVE  {memory', out'.token} \subseteq Made \cup {None}
<1> USE DEF TypeOK, StoreTypeOK, KnownInv
<1>1. ASSUME NEW a \in Attempts, PollDelivers(a) PROVE {memory', out'.token} \subseteq Made \cup {None}
  <2>1. memory' = tx[a] /\ out' = out /\ tx[a] \in Tokens
    BY <1>1 DEF PollDelivers, Delivered, SetSession
  <2> QED
    BY <2>1
<1>2. CASE NewKey \/ Clear \/ SignOut \/ DeleteLost
  BY <1>2 DEF NewKey, Clear, SignOut, DeleteLost, SetSession, store, signing
<1>3. CASE BrowserRestarts
  BY <1>3 DEF BrowserRestarts, StoreRestart, Loaded
<1>4. CASE Delete \/ DeleteRefused
  BY <1>4 DEF Delete, DeleteRefused, store
<1>5. CASE memory' = memory /\ out' = out
  BY <1>5
<1> QED
  BY <1>1, <1>2, <1>3, <1>4, <1>5 DEF Next, Gateway, Browser, Misfortune, Return, InsertSession, Complete, TransactionExpires,
    SessionExpires, Start, PollInVain, CheckSession, TimeOut, ExchangeFails, AnswerLost, Abandoned, AttemptFails, GatewayRestarts,
    Open, WriteData, Rename, PersistFails, store, signing

\* A transaction and its attempt.
TxInv ==
  /\ \A t \in Tokens : made[t] # "idle" => whose[t] \in Attempts /\ at[whose[t]] # "idle"
  /\ \A a \in Attempts : at[a] = "idle" <=> tx[a] = "none"
  /\ \A a \in Attempts : tx[a] \in Tokens => tx[a] \in Made /\ whose[tx[a]] = a
  /\ \A a \in Attempts : at[a] \in {"checking", "in"} => \E t \in Made : whose[t] = a

\* A transaction keeps to its attempt.
LEMMA TxStep ==
  ASSUME TypeOK, TxInv, Next
  PROVE  TxInv'
<1> USE DEF TypeOK, TxInv
<1>1. ASSUME NEW t \in Tokens, NEW a \in Attempts, Return(t, a) PROVE TxInv'
  <2>1. /\ made[t] = "idle" /\ at[a] # "idle" /\ UNCHANGED <<at, tx>>
        /\ made' = [made EXCEPT ![t] = "exchanging"] /\ whose' = [whose EXCEPT ![t] = a]
    BY <1>1 DEF Return
  <2> QED
    BY <2>1 DEF Made
<1>2. ASSUME NEW t \in Tokens, Complete(t) PROVE TxInv'
  <2>1. /\ made[t] = "inserted" /\ whose[t] \in Attempts /\ UNCHANGED <<at, whose>>
        /\ made' = [made EXCEPT ![t] = "made"]
        /\ tx' = tx \/ tx' = [tx EXCEPT ![whose[t]] = t]
    BY <1>2 DEF Complete
  <2> QED
    BY <2>1 DEF Made
<1>3. ASSUME NEW a \in Attempts, Start(a) PROVE TxInv'
  BY <1>3 DEF Start, Go, Made
<1>4. ASSUME NEW a \in Attempts, PollDelivers(a) PROVE TxInv'
  BY <1>4 DEF PollDelivers, Go, Made
<1>5. ASSUME NEW a \in Attempts, CheckSession(a) \/ TimeOut(a) \/ AttemptFails(a) PROVE TxInv'
  <2>1. /\ UNCHANGED <<tx, made, whose>>
        /\ \E p \in {"in", "polling", "timeout", "failed"} :
             at' = [at EXCEPT ![a] = p] /\ (p = "in" => at[a] = "checking")
        /\ at[a] # "idle"
    BY <1>5 DEF CheckSession, TimeOut, AttemptFails, Go
  <2> QED
    BY <2>1 DEF Made
<1>6. ASSUME NEW a \in Attempts, TransactionExpires(a) PROVE TxInv'
  BY <1>6 DEF TransactionExpires, Made
<1>7. CASE GatewayRestarts
  BY <1>7 DEF GatewayRestarts, Abandoned, Made
<1>8. CASE BrowserRestarts
  BY <1>8 DEF BrowserRestarts, Made
<1>9. ASSUME NEW t \in Tokens, InsertSession(t) \/ ExchangeFails(t) \/ AnswerLost(t) PROVE TxInv'
  <2>1. /\ made[t] \notin {"idle", "made"} /\ UNCHANGED <<at, tx, whose>>
        /\ \E m \in {"inserted", "strayed", "failed", "adrift"} : made' = [made EXCEPT ![t] = m]
    BY <1>9 DEF InsertSession, ExchangeFails, AnswerLost, Abandoned
  <2> QED
    BY <2>1 DEF Made
<1>10. CASE UNCHANGED <<at, tx, made, whose>>
  BY <1>10 DEF Made
<1> QED
  BY <1>1, <1>2, <1>3, <1>4, <1>5, <1>6, <1>7, <1>8, <1>9, <1>10 DEF Next, Gateway, Browser, Misfortune,
    SessionExpires, PollInVain, SignOut, Delete, Clear, NewKey, DeleteRefused, DeleteLost, signing

\* Every step keeps what is known of tokens.
LEMMA KnownStep ==
  ASSUME TypeOK, KnownInv, Next
  PROVE  KnownInv'
<1>1. {memory', out'.token} \subseteq Made \cup {None}
  BY MemoryStep
<1>2. {temp', file'} \cap Tokens \subseteq Made /\ \A p \in Persists : snap'[p] \in Made \cup {None}
  BY <1>1, IsStoreStep, StoreKeeps DEF TypeOK, KnownInv
<1>3. TxInv'
  BY TxStep DEF KnownInv, TxInv
<1> QED
  BY <1>1, <1>2, <1>3, MadeStays DEF KnownInv, TxInv

-----------------------------------------------------------------------------
(* Sign-outs                                                               *)

\* A session that is inserted is none that a sign-out has read, and what a sign-out
\* reads it ends, or is told of.
LEMMA OutStep ==
  ASSUME TypeOK, KnownInv, OutInv, Next
  PROVE  OutInv'
<1> USE DEF TypeOK, StoreTypeOK, OutInv, SignOutRevokes
<1>1. ASSUME NEW t \in Tokens, InsertSession(t) PROVE OutInv'
  <2>1. out.token # t
    BY <1>1 DEF KnownInv, Made, InsertSession
  <2> QED
    BY <1>1, <2>1 DEF InsertSession, store
<1>2. ASSUME NEW a \in Attempts, PollDelivers(a) PROVE OutInv'
  BY <1>2 DEF PollDelivers
<1>3. CASE SignOut \/ Delete \/ DeleteRefused \/ DeleteLost
  BY <1>3 DEF SignOut, Delete, Revoked, DeleteRefused, DeleteLost, store
<1>4. CASE Clear \/ BrowserRestarts
  BY <1>4 DEF Clear, BrowserRestarts
<1>5. CASE memory' = memory /\ out' = out /\ let' = let /\ live' \subseteq live
  BY <1>5
<1> QED
  BY <1>1, <1>2, <1>3, <1>4, <1>5 DEF Next, Gateway, Browser, Misfortune, Return, Complete, TransactionExpires,
    SessionExpires, Start, PollInVain, CheckSession, TimeOut, NewKey, SetSession, ExchangeFails, AnswerLost, AttemptFails,
    GatewayRestarts, Open, WriteData, Rename, PersistFails, store, signing

-----------------------------------------------------------------------------
(* Sessions out of reach                                                   *)
Explained(t) ==
  \/ at[whose[t]] \in {"failed", "timeout"} \/ tx[whose[t]] = "lost"
  \/ \E u \in Tokens \ {t} : made[u] = "made" /\ whose[u] = whose[t]
  \/ made[t] = "strayed" \/ t \in let

\* A session whose row was inserted keeps its attempt, and is heard of once or never.
LEMMA RowStays ==
  ASSUME TypeOK, Next, NEW t \in Tokens, made[t] \in Stored
  PROVE  whose'[t] = whose[t] /\ (made[t] = "strayed" => made'[t] = "strayed")
BY DEF TypeOK, Stored, Next, Gateway, Browser, Misfortune, Return, InsertSession, Complete, TransactionExpires, SessionExpires,
  Start, PollInVain, PollDelivers, CheckSession, TimeOut, SignOut, Delete, Clear, NewKey, ExchangeFails, AnswerLost, Abandoned,
  AttemptFails, DeleteRefused, DeleteLost, GatewayRestarts, BrowserRestarts, signing

\* What happened to a session once goes on having happened.
LEMMA ExplainedStays ==
  ASSUME TypeOK, KnownInv, Next, NEW t \in Tokens, made[t] \in Stored, Explained(t)
  PROVE  Explained(t)'
<1>1. whose'[t] = whose[t] /\ whose[t] \in Attempts
  BY RowStays DEF KnownInv, Stored
<1>2. CASE at[whose[t]] \in {"failed", "timeout"}
  <2>1. at'[whose[t]] = at[whose[t]]
    BY <1>1, <1>2 DEF TypeOK, Next, Gateway, Browser, Misfortune, Return, InsertSession, Complete, TransactionExpires, SessionExpires,
      Start, PollInVain, PollDelivers, CheckSession, TimeOut, SignOut, Delete, Clear, NewKey, ExchangeFails, AnswerLost, Abandoned,
      AttemptFails, DeleteRefused, DeleteLost, GatewayRestarts, BrowserRestarts, Go, signing
  <2> QED
    BY <1>1, <1>2, <2>1 DEF Explained
<1>3. CASE tx[whose[t]] = "lost"
  <2>1. at[whose[t]] # "idle"
    BY <1>1, <1>3 DEF KnownInv
  <2>2. tx'[whose[t]] = "lost"
    BY <1>1, <1>3, <2>1 DEF TypeOK, Next, Gateway, Browser, Misfortune, Return, InsertSession, Complete, TransactionExpires,
      SessionExpires, Start, PollInVain, PollDelivers, CheckSession, TimeOut, SignOut, Delete, Clear, NewKey, ExchangeFails, AnswerLost, Abandoned,
      AttemptFails, DeleteRefused, DeleteLost, GatewayRestarts, BrowserRestarts, signing
  <2> QED
    BY <1>1, <2>2 DEF Explained
<1>4. ASSUME NEW u \in Tokens \ {t}, made[u] = "made", whose[u] = whose[t] PROVE Explained(t)'
  BY <1>1, <1>4, MadeStays DEF Made, Explained
<1>5. CASE t \in let
  <2>1. let \subseteq let'
    BY DEF Next, Gateway, Browser, Misfortune, Return, InsertSession, Complete, TransactionExpires, SessionExpires,
      Start, PollInVain, PollDelivers, CheckSession, TimeOut, SignOut, Delete, Clear, NewKey, ExchangeFails, AnswerLost, Abandoned,
      AttemptFails, DeleteRefused, DeleteLost, GatewayRestarts, BrowserRestarts, signing
  <2> QED
    BY <1>5, <2>1 DEF Explained
<1>6. CASE made[t] = "strayed"
  BY <1>6, RowStays DEF Explained
<1> QED
  BY <1>2, <1>3, <1>4, <1>5, <1>6 DEF Explained

\* A session that was within reach still is, or what takes it away is listed.
LEMMA ReachableStep ==
  ASSUME TypeOK, TypeOK', KnownInv, OutInv, Next, NEW t \in live, t \in live', Reachable(t)
  PROVE  Reachable(t)' \/ Explained(t)'
<1> USE DEF TypeOK
<1>0. t \in Tokens /\ made[t] \in Stored /\ whose'[t] = whose[t] /\ whose[t] \in Attempts /\ t # None
  BY RowStays DEF KnownInv, Stored
<1>1. ASSUME NEW u \in Tokens, Complete(u) PROVE Reachable(t)' \/ Explained(t)'
  <2>1. /\ made[u] = "inserted" /\ made' = [made EXCEPT ![u] = "made"]
        /\ UNCHANGED <<memory, at, whose, out>> /\ whose[u] \in Attempts
        /\ tx' = IF tx[whose[u]] = "lost" THEN tx ELSE [tx EXCEPT ![whose[u]] = u]
    BY <1>1 DEF Complete, store, KnownInv
  <2>2. CASE u = t
    BY <1>0, <2>1, <2>2 DEF Reachable, Explained
  <2>3. CASE u # t /\ whose[u] = whose[t]
    BY <1>0, <2>1, <2>3 DEF Explained
  <2>4. CASE whose[u] # whose[t]
    BY <1>0, <2>1, <2>4 DEF Reachable
  <2> QED
    BY <2>2, <2>3, <2>4
<1>2. ASSUME NEW a \in Attempts, PollDelivers(a) PROVE Reachable(t)' \/ Explained(t)'
  <2>1. /\ memory' = tx[a] /\ let' = let \cup ({memory} \ {None, memory'}) /\ at' = [at EXCEPT ![a] = "checking"]
        /\ UNCHANGED <<tx, whose, out, made>>
    BY <1>2 DEF PollDelivers, Delivered, SetSession, Go
  <2>2. tx[a] \in Tokens /\ made[tx[a]] = "made" /\ whose[tx[a]] = a
    BY <1>2 DEF PollDelivers, KnownInv, Made
  <2>3. CASE made[t] = "inserted" /\ whose[t] = a
    BY <1>0, <2>1, <2>2, <2>3 DEF Explained
  <2>4. CASE ~(made[t] = "inserted" /\ whose[t] = a)
    BY <1>0, <2>1, <2>4 DEF Reachable, Explained
  <2> QED
    BY <2>3, <2>4
<1>3. ASSUME NEW a \in Attempts, TimeOut(a) \/ AttemptFails(a) PROVE Reachable(t)' \/ Explained(t)'
  <2>1. /\ UNCHANGED <<memory, tx, whose, out, made>>
        /\ at' = [at EXCEPT ![a] = "timeout"] \/ at' = [at EXCEPT ![a] = "failed"]
    BY <1>3 DEF TimeOut, AttemptFails, Go, store
  <2> QED
    BY <1>0, <2>1 DEF Reachable, Explained
<1>4. ASSUME NEW a \in Attempts, Start(a) \/ CheckSession(a) PROVE Reachable(t)' \/ Explained(t)'
  <2>1. /\ UNCHANGED <<memory, whose, out, made>>
        /\ at[a] # "polling" /\ \E p \in {"in", "polling"} : at' = [at EXCEPT ![a] = p]
        /\ tx' = tx \/ (at[a] = "idle" /\ tx' = [tx EXCEPT ![a] = "open"])
    BY <1>4 DEF Start, CheckSession, Go, store
  <2> QED
    BY <1>0, <2>1 DEF Reachable
<1>5. ASSUME NEW a \in Attempts, TransactionExpires(a) PROVE Reachable(t)' \/ Explained(t)'
  BY <1>0, <1>5 DEF TransactionExpires, Reachable, Explained, store
<1>6. CASE GatewayRestarts
  <2>1. tx[whose[t]] # "none"
    BY <1>0 DEF KnownInv, Stored
  <2> QED
    BY <1>0, <1>6, <2>1 DEF GatewayRestarts, Explained
<1>7. CASE SignOut \/ Delete \/ DeleteRefused \/ DeleteLost
  BY <1>0, <1>7 DEF SignOut, Delete, Revoked, DeleteRefused, DeleteLost, Reachable, Explained, OutInv, store
<1>8. CASE Clear \/ BrowserRestarts
  BY <1>0, <1>8 DEF Clear, SetSession, BrowserRestarts, Reachable, Explained, OutInv, SignOutRevokes
<1>9. CASE UNCHANGED <<memory, out, at, tx, whose, made>>
  BY <1>0, <1>9 DEF Reachable
<1>10. CASE NewKey \/ \E p \in Persists : Persist(p) /\ UNCHANGED signing
  BY <1>9, <1>10 DEF NewKey, SetSession, Persist, Open, WriteData, Rename, PersistFails, signing
<1>11. CASE \E u \in Tokens : (\E a \in Attempts : Return(u, a)) \/ InsertSession(u) \/ ExchangeFails(u) \/ AnswerLost(u)
  <2>1. PICK u \in Tokens : (\E a \in Attempts : Return(u, a)) \/ InsertSession(u) \/ ExchangeFails(u) \/ AnswerLost(u)
    BY <1>11
  <2>2. CASE u = t
    <3>1. AnswerLost(t) /\ made[t] = "inserted"
      BY <1>0, <2>1, <2>2 DEF Return, InsertSession, ExchangeFails, AnswerLost, Stored
    <3> QED
      BY <1>0, <3>1 DEF AnswerLost, Abandoned, Explained
  <2>3. CASE u # t
    <3>1. UNCHANGED <<memory, out, at, tx>> /\ made'[t] = made[t]
      BY <1>0, <2>1, <2>3 DEF Return, InsertSession, ExchangeFails, AnswerLost, store
    <3> QED
      BY <1>0, <3>1 DEF Reachable
  <2> QED
    BY <2>2, <2>3
<1>12. CASE (\E u \in Tokens : SessionExpires(u)) \/ (\E a \in Attempts : PollInVain(a))
  BY <1>9, <1>12 DEF SessionExpires, PollInVain, store
<1> QED
  BY <1>1, <1>2, <1>3, <1>4, <1>5, <1>6, <1>7, <1>8, <1>9, <1>10, <1>11, <1>12 DEF Next, Gateway, Browser, Misfortune, Persist

\* Every step keeps what is said of sessions out of reach.
LEMMA OrphanStep ==
  ASSUME TypeOK, TypeOK', KnownInv, OutInv, OrphansExplained, Next
  PROVE  OrphansExplained'
<1> SUFFICES ASSUME NEW t \in live' PROVE Reachable(t)' \/ Explained(t)'
  BY DEF OrphansExplained, Explained
<1>1. CASE t \in live
  <2>1. t \in Tokens /\ made[t] \in Stored
    BY <1>1 DEF TypeOK
  <2>2. Reachable(t) \/ Explained(t)
    BY <1>1 DEF OrphansExplained, Explained
  <2> QED
    BY <1>1, <2>1, <2>2, ExplainedStays, ReachableStep
<1>2. ASSUME InsertSession(t), t \in Tokens PROVE Reachable(t)' \/ Explained(t)'
  <2> DEFINE a == whose[t]
  <2>1. /\ made[t] \in {"exchanging", "adrift"} /\ UNCHANGED <<at, whose>> /\ a \in Attempts /\ at[a] # "idle"
        /\ made' = [made EXCEPT ![t] = IF @ = "exchanging" THEN "inserted" ELSE "strayed"]
    BY <1>2 DEF InsertSession, KnownInv
  <2>2. made'[t] \in {"inserted", "strayed"}
    BY <2>1 DEF TypeOK
  <2>3. at[a] \in {"checking", "in"} => \E u \in Tokens \ {t} : made'[u] = "made" /\ whose[u] = a
    <3>1. at[a] \in {"checking", "in"} => \E u \in Made : whose[u] = a
      BY <2>1 DEF KnownInv
    <3> QED
      BY <2>1, <3>1, MadeStays DEF Made
  <2>4. at[a] \in {"polling", "checking", "in", "failed", "timeout"}
    BY <2>1 DEF TypeOK, Ended
  <2> QED
    BY <2>1, <2>2, <2>3, <2>4 DEF Reachable, Explained
<1>3. t \in live \/ (InsertSession(t) /\ t \in Tokens)
  BY DEF Next, Gateway, Browser, Misfortune, Return, InsertSession, Complete, TransactionExpires, SessionExpires,
    Start, PollInVain, PollDelivers, CheckSession, TimeOut, SignOut, Delete, Revoked, Clear, NewKey, ExchangeFails, AnswerLost, Abandoned,
    AttemptFails, DeleteRefused, DeleteLost, GatewayRestarts, BrowserRestarts, signing
<1> QED
  BY <1>1, <1>2, <1>3

-----------------------------------------------------------------------------
(* Theorems                                                                *)

\* The invariant is inductive.
LEMMA InvStep ==
  ASSUME IInv, [Next]_vars
  PROVE  IInv'
<1>1. CASE Next
  <2>1. TypeOK'
    BY <1>1, TypeStep DEF IInv
  <2>2. SoleInv' /\ StoreInv'
    BY <1>1, IsStoreStep, StoreStep DEF IInv, TypeOK
  <2>3. KnownInv' /\ OutInv'
    BY <1>1, KnownStep, OutStep DEF IInv
  <2>4. OrphansExplained'
    BY <1>1, <2>1, OrphanStep DEF IInv
  <2> QED
    BY <2>1, <2>2, <2>3, <2>4 DEF IInv
<1>2. CASE UNCHANGED vars
  <2> USE <1>2 DEF vars, store, signing, IInv
  <2>1. TypeOK'
    BY DEF TypeOK, StoreTypeOK
  <2>2. SoleInv' /\ StoreInv'
    BY DEF SoleInv, StoreInv, Quiet, Loaded
  <2>3. KnownInv' /\ OutInv'
    BY DEF KnownInv, Made, OutInv, SignOutRevokes
  <2>4. OrphansExplained'
    BY DEF OrphansExplained, Reachable
  <2> QED
    BY <2>1, <2>2, <2>3, <2>4
<1> QED
  BY <1>1, <1>2

\* The inductive invariant holds in every reachable state.
LEMMA Inductive == Spec => []IInv
BY InitInv, InvStep, PTL DEF Spec

\* Every variable keeps to its type.
THEOREM TypeCorrect == Spec => []TypeOK
<1>1. IInv => TypeOK
  BY DEF IInv
<1> QED
  BY <1>1, Inductive, PTL

\* The file of secrets is whole and current, unless persists overlapped or failed
\* and none has had it for itself since.
THEOREM FileIsCurrent == Spec => []StoredIsCurrent
<1>1. IInv => StoredIsCurrent
  BY DEF IInv, StoreInv, StoredIsCurrent
<1> QED
  BY <1>1, Inductive, PTL

\* A live session that nobody can end any more was lost in one of the ways listed.
THEOREM NoOtherOrphans == Spec => []OrphansExplained
<1>1. IInv => OrphansExplained
  BY DEF IInv
<1> QED
  BY <1>1, Inductive, PTL

\* A sign-out that goes through ends the session it read.
THEOREM SignOutsRevoke == Spec => []SignOutRevokes
<1>1. IInv => SignOutRevokes
  BY DEF IInv, OutInv
<1> QED
  BY <1>1, Inductive, PTL
=============================================================================
