-------------------------- MODULE ControlPlaneProofs --------------------------
(***************************************************************************)
(* Proofs about ControlPlane, for any organizations, subjects, commands,   *)
(* logins, requests and runs.  The inductive invariant has a part for each *)
(* of the three things the properties are about: logins, permissions and   *)
(* artifacts; each part is kept by a lemma of its own.                     *)
(***************************************************************************)
EXTENDS ControlPlane, TLAPS

USE ControlPlaneAssumption DEF ControlPlaneAssumption, Digests

Past == {"write", "filling", "row", "audit", "answered"}

\* A transaction that a callback has consumed is gone, and consumed by no other.
LoginInv ==
  LET took == {k \in Callbacks : callback[k] = "exchanging" \/ k \in made} IN
    /\ \A k \in took : login[Carries[k]] = "gone"
    /\ \A k, m \in took : Carries[k] = Carries[m] => k = m
    /\ \A k \in made : callback[k] = "over"

\* What a request has passed, its sender had.
Permitted(r) ==
  /\ pc[r] \in {"session", "role"} => by[r] \in Callbacks
  /\ pc[r] # "idle" => command[r] \in Commands
  /\ pc[r] = "role" => "session" \in had[r]
  /\ pc[r] \in Past \/ r \in applied => by[r] = Automation \/ had[r] = {"session", "role"}
  /\ r \in applied => pc[r] \in {"audit", "answered", "failed"}

PermissionInv == \A r \in Requests : Permitted(r)

\* A file names the request that opened it last and has not filled it.
FileInv ==
  /\ \A r \in Requests : pc[r] \in {"filling", "row"} => command[r].kind = "deploy"
  /\ \A r \in Requests : pc[r] \in {"filling", "row"} => Artifact(r) # "absent"
  /\ \A o \in Orgs, d \in Digests : file[o][d] \in Requests =>
       /\ Deploys(file[o][d], o, d) /\ file[o][d] \notin applied
       /\ pc[file[o][d]] \in {"filling", "failed"}

RowInv ==
  \A o \in Orgs : row[o] # None =>
    /\ file[o][row[o]] # "absent"
    /\ \E r \in applied : Deploys(r, o, row[o])

RunInv ==
  \A n \in Runs : run[n].at \in {"sent", "verified", "ran", "torn"} =>
    /\ run[n].org \in Orgs /\ run[n].digest \in Digests
    /\ \E r \in applied : Deploys(r, run[n].org, run[n].digest)
    /\ run[n].at = "verified" /\ n \notin reopened => Content(n) = "whole"
    /\ run[n].at = "torn" => n \in reopened

IInv == TypeOK /\ LoginInv /\ PermissionInv /\ FileInv /\ RowInv /\ RunInv

\* The initial states satisfy the inductive invariant.
LEMMA InitInv == Init => IInv
<1> SUFFICES ASSUME Init PROVE IInv
  OBVIOUS
<1>1. TypeOK
  BY DEF Init, TypeOK, Job, Places, Roles
<1>2. LoginInv /\ PermissionInv /\ FileInv /\ RowInv /\ RunInv
  BY DEF Init, LoginInv, PermissionInv, Permitted, FileInv, RowInv, RunInv, Past
<1> QED
  BY <1>1, <1>2 DEF IInv

-----------------------------------------------------------------------------
(* Types                                                                   *)

\* A restart keeps roles, or founds them.
LEMMA BootstrapType ==
  ASSUME TypeOK, NEW o \in Orgs
  PROVE  Bootstrapped(o) \in [Orgs -> [Subjects -> Roles \cup {None}]]
BY DEF TypeOK, Bootstrapped, Roles

\* A step of a login or of a session keeps the types.
LEMMA IdentityType ==
  ASSUME IInv, Next,
         \/ \E l \in Logins : Begin(l) \/ LoginExpires(l)
         \/ \E k \in Callbacks : Consume(k) \/ Exchange(k) \/ EndSession(k)
  PROVE  TypeOK'
<1>1. had' \in [Requests -> SUBSET {"session", "role"}]
  BY DEF IInv, TypeOK, Next, Has
<1>2. TypeOK
  BY DEF IInv
<1>3. CASE \E l \in Logins : Begin(l) \/ LoginExpires(l)
  BY <1>1, <1>2, <1>3 DEF TypeOK, Begin, LoginExpires, handler, artifacts, execution
<1>4. ASSUME NEW k \in Callbacks, Consume(k) PROVE TypeOK'
  <2>1. login' \in [Logins -> {"unused", "open", "gone"}] /\ callback' \in [Callbacks -> {"idle", "exchanging", "over"}]
    BY <1>2, <1>4 DEF TypeOK, Consume, Consumed
  <2> QED
    BY <1>1, <1>2, <1>4, <2>1 DEF TypeOK, Consume, handler, artifacts, execution
<1>5. ASSUME NEW k \in Callbacks, Exchange(k) PROVE TypeOK'
  BY <1>1, <1>2, <1>5 DEF TypeOK, Exchange, NewSession, handler, artifacts, execution
<1>6. ASSUME NEW k \in Callbacks, EndSession(k) PROVE TypeOK'
  BY <1>1, <1>2, <1>6 DEF TypeOK, EndSession, handler, artifacts, execution
<1> QED
  BY <1>3, <1>4, <1>5, <1>6

\* A step of a request keeps the types.
LEMMA RequestType ==
  ASSUME IInv, Next, NEW r \in Requests,
         \/ \E c \in Commands, k \in made \cup {Automation} : Receive(r, c, k)
         \/ ReadSession(r) \/ ReadRole(r) \/ Write(r) \/ OpenFile(r) \/ FillFile(r)
         \/ SetDeployment(r) \/ Audit(r) \/ Fail(r)
  PROVE  TypeOK'
<1>1. had' \in [Requests -> SUBSET {"session", "role"}]
  BY DEF IInv, TypeOK, Next, Has
<1>2. TypeOK /\ PermissionInv /\ FileInv
  BY DEF IInv
<1>3. CASE \E c \in Commands, k \in made \cup {Automation} : Receive(r, c, k)
  <2> PICK c \in Commands, k \in made \cup {Automation} : Receive(r, c, k)
    BY <1>3
  <2>1. pc' \in [Requests -> Places]
    BY <1>2 DEF TypeOK, Receive, Goto, Places
  <2>2. command' \in [Requests -> Commands \cup {None}]
    BY <1>2 DEF TypeOK, Receive
  <2>3. by' \in [Requests -> Callbacks \cup {Automation, None}]
    BY <1>2 DEF TypeOK, Receive
  <2> QED
    BY <1>1, <1>2, <2>1, <2>2, <2>3 DEF TypeOK, Receive, identity, artifacts, execution
<1>4. CASE ReadSession(r) \/ ReadRole(r) \/ Audit(r) \/ Fail(r)
  <2>1. pc' \in [Requests -> Places]
    BY <1>2, <1>4 DEF TypeOK, ReadSession, ReadRole, Audit, Fail, Goto, Places
  <2> QED
    BY <1>1, <1>2, <1>4, <2>1 DEF TypeOK, ReadSession, ReadRole, Audit, Fail, identity, artifacts, execution
<1>5. CASE Write(r)
  <2>1. pc' \in [Requests -> Places]
    BY <1>2, <1>5 DEF TypeOK, Write, AfterWrite, Goto, Places
  <2>2. command[r] \in Commands
    BY <1>2, <1>5 DEF PermissionInv, Permitted, Write
  <2>3. roles' \in [Orgs -> [Subjects -> Roles \cup {None}]]
    BY <1>2, <1>5, <2>2 DEF TypeOK, Write
  <2> QED
    BY <1>1, <1>2, <1>5, <2>1, <2>3 DEF TypeOK, Write, identity, artifacts, execution
<1>6. CASE OpenFile(r) \/ FillFile(r)
  <2>1. pc' \in [Requests -> Places]
    BY <1>2, <1>6 DEF TypeOK, OpenFile, FillFile, Goto, Places
  <2>2. command[r] \in Commands /\ command[r].kind = "deploy"
    BY <1>2, <1>6 DEF PermissionInv, Permitted, FileInv, OpenFile, FillFile
  <2>3. file' \in [Orgs -> [Digests -> {"absent", "whole"} \cup Requests]]
    <3>1. CASE OpenFile(r)
      BY <1>2, <2>2, <3>1 DEF TypeOK, OpenFile
    <3>2. CASE FillFile(r)
      <4>1. CASE file' = file
        BY <1>2, <4>1 DEF TypeOK
      <4>2. CASE file' = [file EXCEPT ![command[r].org][command[r].digest] = "whole"]
        BY <1>2, <2>2, <4>2 DEF TypeOK
      <4> QED
        BY <3>2, <4>1, <4>2 DEF FillFile
    <3> QED
      BY <1>6, <3>1, <3>2
  <2>4. reopened' \subseteq Runs
    BY <1>2, <1>6 DEF TypeOK, OpenFile, FillFile, execution
  <2> QED
    BY <1>1, <1>2, <1>6, <2>1, <2>3, <2>4 DEF TypeOK, OpenFile, FillFile, identity, execution
<1>7. CASE SetDeployment(r)
  <2>1. pc' \in [Requests -> Places]
    BY <1>2, <1>7 DEF TypeOK, SetDeployment, AfterWrite, Goto, Places
  <2>2. command[r] \in Commands /\ command[r].kind = "deploy"
    BY <1>2, <1>7 DEF PermissionInv, Permitted, FileInv, SetDeployment
  <2>3. row' \in [Orgs -> Digests \cup {None}]
    BY <1>2, <1>7, <2>2 DEF TypeOK, SetDeployment
  <2> QED
    BY <1>1, <1>2, <1>7, <2>1, <2>3 DEF TypeOK, SetDeployment, identity, execution
<1> QED
  BY <1>3, <1>4, <1>5, <1>6, <1>7

\* A restart, and a step of a function run, keep the types.
LEMMA RunType ==
  ASSUME IInv, Next,
         \/ \E o \in Orgs : Restart(o)
         \/ \E n \in Runs, o \in Orgs : Send(n, o)
         \/ \E n \in Runs : Verify(n) \/ Import(n)
  PROVE  TypeOK'
<1>1. had' \in [Requests -> SUBSET {"session", "role"}]
  BY DEF IInv, TypeOK, Next, Has
<1>2. TypeOK
  BY DEF IInv
<1>3. ASSUME NEW o \in Orgs, Restart(o) PROVE TypeOK'
  <2>1. roles' \in [Orgs -> [Subjects -> Roles \cup {None}]]
    BY <1>2, <1>3, BootstrapType DEF Restart
  <2>2. pc' \in [Requests -> Places]
    BY <1>2, <1>3 DEF TypeOK, Restart, Places
  <2> QED
    BY <1>1, <1>2, <1>3, <2>1, <2>2 DEF TypeOK, Restart, artifacts, execution
<1>4. ASSUME NEW n \in Runs, NEW o \in Orgs, Send(n, o) PROVE TypeOK'
  <2>1. [at |-> "sent", org |-> o, digest |-> row[o]] \in Job
    BY <1>2 DEF TypeOK, Job
  <2> QED
    BY <1>1, <1>2, <1>4, <2>1 DEF TypeOK, Send, identity, handler, artifacts
<1>5. ASSUME NEW n \in Runs, Verify(n) \/ Import(n) PROVE TypeOK'
  <2>1. run' \in [Runs -> Job]
    <3>1. run[n] \in Job /\ run \in [Runs -> Job]
      BY <1>2 DEF TypeOK
    <3>2. PICK p \in {"idle", "sent", "verified", "ran", "torn", "refused"} :
            run' = [run EXCEPT ![n].at = p]
      BY <1>5 DEF Verify, Import
    <3>3. [run[n] EXCEPT !.at = p] \in Job
      BY <3>1 DEF Job
    <3> QED
      BY <3>1, <3>2, <3>3
  <2> QED
    BY <1>1, <1>2, <1>5, <2>1 DEF TypeOK, Verify, Import, identity, handler, artifacts
<1> QED
  BY <1>3, <1>4, <1>5

\* Every step keeps the types.
LEMMA TypeStep ==
  ASSUME IInv, Next
  PROVE  TypeOK'
BY IdentityType, RequestType, RunType DEF Next, Step

-----------------------------------------------------------------------------
(* Logins                                                                  *)

\* Every step keeps what is known of transactions, callbacks and sessions.
LEMMA LoginStep ==
  ASSUME TypeOK, LoginInv, Next
  PROVE  LoginInv'
<1>1. CASE UNCHANGED <<login, callback, made>>
  BY <1>1 DEF LoginInv
<1>2. ASSUME NEW l \in Logins, Begin(l) \/ LoginExpires(l) PROVE LoginInv'
  <2>1. UNCHANGED <<callback, made>>
    BY <1>2 DEF Begin, LoginExpires
  <2>2. \A k \in Callbacks : login[Carries[k]] = "gone" => login'[Carries[k]] = "gone"
    BY <1>2 DEF TypeOK, Begin, LoginExpires
  <2> QED
    BY <2>1, <2>2 DEF LoginInv
<1>3. ASSUME NEW k \in Callbacks, Consume(k) PROVE LoginInv'
  <2>1. CASE login[Carries[k]] = "open"
    <3>1. /\ login' = [login EXCEPT ![Carries[k]] = "gone"] /\ UNCHANGED made
          /\ callback' = [callback EXCEPT ![k] = "exchanging"] /\ callback[k] = "idle"
      BY <1>3, <2>1 DEF Consume, Consumed
    <3> QED
      BY <2>1, <3>1 DEF TypeOK, LoginInv
  <2>2. CASE login[Carries[k]] = "gone"
    <3>1. /\ UNCHANGED <<login, made>>
          /\ callback' = [callback EXCEPT ![k] = "over"] /\ callback[k] = "idle"
      BY <1>3, <2>2 DEF Consume
    <3> QED
      BY <2>2, <3>1 DEF TypeOK, LoginInv
  <2> QED
    BY <1>3, <2>1, <2>2 DEF Consume
<1>4. ASSUME NEW k \in Callbacks, Exchange(k) PROVE LoginInv'
  <2>1. /\ UNCHANGED login /\ made' \subseteq made \cup {k}
        /\ callback' = [callback EXCEPT ![k] = "over"] /\ callback[k] = "exchanging"
    BY <1>4 DEF Exchange, NewSession
  <2> QED
    BY <2>1 DEF TypeOK, LoginInv
<1>5. ASSUME NEW k \in Callbacks, EndSession(k) PROVE LoginInv'
  BY <1>1, <1>5 DEF EndSession
<1>6. ASSUME NEW o \in Orgs, Restart(o) PROVE LoginInv'
  <2>1. /\ UNCHANGED <<login, made>>
        /\ \A k \in Callbacks : /\ callback'[k] = "exchanging" => callback[k] = "exchanging"
                                /\ callback[k] = "over" => callback'[k] = "over"
    BY <1>6 DEF TypeOK, Restart
  <2> QED
    BY <2>1 DEF TypeOK, LoginInv
<1>7. ASSUME \/ \E r \in Requests, c \in Commands, k \in made \cup {Automation} : Receive(r, c, k)
             \/ \E r \in Requests : \/ ReadSession(r) \/ ReadRole(r) \/ Write(r) \/ OpenFile(r)
                                    \/ FillFile(r) \/ SetDeployment(r) \/ Audit(r) \/ Fail(r)
             \/ \E n \in Runs, o \in Orgs : Send(n, o)
             \/ \E n \in Runs : Verify(n) \/ Import(n)
      PROVE  LoginInv'
  BY <1>1, <1>7 DEF identity, Receive, ReadSession, ReadRole, Write, OpenFile, FillFile, SetDeployment,
    Audit, Fail, Send, Verify, Import
<1> QED
  BY <1>2, <1>3, <1>4, <1>5, <1>6, <1>7 DEF Next, Step

-----------------------------------------------------------------------------
(* Permissions                                                             *)

\* What a sender had, it keeps having had, and what it has now is added.
LEMMA HadGrows ==
  ASSUME TypeOK, Next, NEW r \in Requests
  PROVE  had[r] \subseteq had'[r] /\ Has(r)' \subseteq had'[r] /\ had'[r] \subseteq {"session", "role"}
BY DEF TypeOK, Next, Has

\* A request that no step moves keeps its part of the invariant.
LEMMA StillPermitted ==
  ASSUME TypeOK, TypeOK', PermissionInv, Next, NEW r \in Requests,
         pc'[r] = pc[r] \/ (pc'[r] = "failed" /\ pc[r] # "idle"), command'[r] = command[r],
         by'[r] = by[r], r \in applied' <=> r \in applied
  PROVE  Permitted(r)'
BY HadGrows DEF PermissionInv, Permitted, Past

\* Every step keeps what is known of permissions.
LEMMA PermissionStep ==
  ASSUME TypeOK, TypeOK', PermissionInv, Next
  PROVE  PermissionInv'
<1>1. CASE UNCHANGED handler
  <2>1. \A r \in Requests : Permitted(r)'
    BY <1>1, StillPermitted DEF handler
  <2> QED
    BY <2>1 DEF PermissionInv
<1>2. ASSUME NEW q \in Requests, NEW c \in Commands, NEW k \in made \cup {Automation}, Receive(q, c, k)
      PROVE  PermissionInv'
  <2>1. /\ pc[q] = "idle" /\ UNCHANGED applied
        /\ pc' = [pc EXCEPT ![q] = IF k = Automation THEN "write" ELSE "session"]
        /\ command' = [command EXCEPT ![q] = c] /\ by' = [by EXCEPT ![q] = k]
    BY <1>2 DEF Receive, Goto
  <2>2. k = Automation \/ k \in Callbacks
    BY DEF TypeOK
  <2>3. \A r \in Requests \ {q} : Permitted(r)'
    BY <2>1, StillPermitted DEF TypeOK
  <2>4. Permitted(q)'
    BY <2>1, <2>2 DEF TypeOK, PermissionInv, Permitted, Past
  <2> QED
    BY <2>3, <2>4 DEF PermissionInv
<1>3. ASSUME NEW q \in Requests, ReadSession(q) PROVE PermissionInv'
  <2>1. /\ pc[q] = "session" /\ UNCHANGED <<command, by, applied, live>>
        /\ pc' = [pc EXCEPT ![q] = IF by[q] \in live THEN "role" ELSE "failed"]
    BY <1>3 DEF ReadSession, Goto, IsLive, identity
  <2>2. by[q] \in live => "session" \in had'[q]
    <3>1. by[q] \in live => "session" \in Has(q)'
      BY <2>1 DEF TypeOK, PermissionInv, Permitted, Has
    <3> QED
      BY <3>1, HadGrows
  <2>3. \A r \in Requests \ {q} : Permitted(r)'
    BY <2>1, StillPermitted DEF TypeOK
  <2>4. Permitted(q)'
    BY <2>1, <2>2 DEF TypeOK, PermissionInv, Permitted, Past
  <2> QED
    BY <2>3, <2>4 DEF PermissionInv
<1>4. ASSUME NEW q \in Requests, ReadRole(q) PROVE PermissionInv'
  <2>1. /\ pc[q] = "role" /\ UNCHANGED <<command, by, applied, roles>>
        /\ pc' = [pc EXCEPT ![q] =
                    IF Needs(command[q]) \in Permissions(ActorRole(q)) THEN "write" ELSE "failed"]
    BY <1>4 DEF ReadRole, Goto
  <2>2. Needs(command[q]) \in Permissions(ActorRole(q)) => had'[q] = {"session", "role"}
    <3>1. Needs(command[q]) \in Permissions(ActorRole(q)) => "role" \in Has(q)'
      BY <2>1 DEF TypeOK, PermissionInv, Permitted, Has, ActorRole
    <3> QED
      BY <2>1, <3>1, HadGrows DEF PermissionInv, Permitted
  <2>3. \A r \in Requests \ {q} : Permitted(r)'
    BY <2>1, StillPermitted DEF TypeOK
  <2>4. Permitted(q)'
    BY <2>1, <2>2 DEF TypeOK, PermissionInv, Permitted, Past
  <2> QED
    BY <2>3, <2>4 DEF PermissionInv
<1>5. ASSUME NEW q \in Requests, Write(q) \/ SetDeployment(q) PROVE PermissionInv'
  <2>1. /\ pc[q] \in {"write", "row"} /\ UNCHANGED <<command, by>> /\ applied' = applied \cup {q}
        /\ pc' = [pc EXCEPT ![q] = AfterWrite(q)]
    BY <1>5 DEF Write, SetDeployment, Goto
  <2>2. AfterWrite(q) \in {"audit", "answered"}
    BY DEF AfterWrite
  <2>3. \A r \in Requests \ {q} : Permitted(r)'
    BY <2>1, StillPermitted DEF TypeOK
  <2>4. Permitted(q)'
    BY <2>1, <2>2, HadGrows DEF TypeOK, PermissionInv, Permitted, Past
  <2> QED
    BY <2>3, <2>4 DEF PermissionInv
<1>6. ASSUME NEW q \in Requests, OpenFile(q) \/ FillFile(q) \/ Audit(q) \/ Fail(q) PROVE PermissionInv'
  <2>1. /\ UNCHANGED <<command, by, applied>>
        /\ \E p \in {"filling", "row", "answered", "failed"} :
             /\ pc' = [pc EXCEPT ![q] = p]
             /\ p = "filling" => pc[q] = "write"
             /\ p = "row" => pc[q] = "filling"
             /\ p = "answered" => pc[q] = "audit"
             /\ p = "failed" => pc[q] # "idle"
    BY <1>6 DEF OpenFile, FillFile, Audit, Fail, Goto
  <2>2. \A r \in Requests \ {q} : Permitted(r)'
    BY <2>1, StillPermitted DEF TypeOK
  <2>3. Permitted(q)'
    <3>1. PICK p \in {"filling", "row", "answered", "failed"} :
             /\ pc' = [pc EXCEPT ![q] = p]
             /\ p = "filling" => pc[q] = "write"
             /\ p = "row" => pc[q] = "filling"
             /\ p = "answered" => pc[q] = "audit"
             /\ p = "failed" => pc[q] # "idle"
      BY <2>1
    <3>2. pc'[q] = p /\ Permitted(q) /\ had[q] \subseteq had'[q] /\ had'[q] \subseteq {"session", "role"}
      BY <3>1, HadGrows DEF TypeOK, PermissionInv
    <3> QED
      BY <2>1, <3>1, <3>2 DEF Permitted, Past
  <2> QED
    BY <2>2, <2>3 DEF PermissionInv
<1>7. ASSUME NEW o \in Orgs, Restart(o) PROVE PermissionInv'
  <2>1. /\ UNCHANGED <<command, by, applied>>
        /\ \A r \in Requests : pc'[r] = pc[r] \/ (pc'[r] = "failed" /\ pc[r] # "idle")
    BY <1>7 DEF TypeOK, Restart
  <2> QED
    BY <2>1, StillPermitted DEF PermissionInv
<1>8. ASSUME \/ \E l \in Logins : Begin(l) \/ LoginExpires(l)
             \/ \E k \in Callbacks : Consume(k) \/ Exchange(k) \/ EndSession(k)
             \/ \E n \in Runs, o \in Orgs : Send(n, o)
             \/ \E n \in Runs : Verify(n) \/ Import(n)
      PROVE  PermissionInv'
  BY <1>1, <1>8 DEF Begin, LoginExpires, Consume, Exchange, EndSession, Send, Verify, Import
<1> QED
  BY <1>2, <1>3, <1>4, <1>5, <1>6, <1>7, <1>8 DEF Next, Step

-----------------------------------------------------------------------------
(* Artifacts                                                               *)

\* A command stays with its request, and a write that took place stays written.
LEMMA CommandStays ==
  ASSUME TypeOK, Next
  PROVE  /\ \A r \in Requests : pc[r] # "idle" => command'[r] = command[r]
         /\ applied \subseteq applied' /\ reopened \subseteq reopened'
BY DEF TypeOK, Next, Step, Begin, LoginExpires, Consume, Exchange, EndSession, Receive, ReadSession, ReadRole,
  Write, OpenFile, FillFile, SetDeployment, Audit, Fail, Restart, Send, Verify, Import,
  handler, artifacts, execution

\* What was deployed stays deployed.
LEMMA DeployedStays ==
  ASSUME TypeOK, PermissionInv, Next, NEW o, NEW d, \E r \in applied : Deploys(r, o, d)
  PROVE  \E r \in applied' : Deploys(r, o, d)'
<1> PICK r \in applied : Deploys(r, o, d)
  OBVIOUS
<1>1. r \in Requests /\ pc[r] # "idle"
  BY DEF TypeOK, PermissionInv, Permitted
<1> QED
  BY <1>1, CommandStays DEF Deploys

\* What a step may do to an artifact: a request that deploys it opens it, or fills it.
FileMoves(o, d) ==
  \/ file'[o][d] = file[o][d]
  \/ file'[o][d] = "whole"
  \/ \E r \in Requests : OpenFile(r) /\ Deploys(r, o, d) /\ file'[o][d] = r

LEMMA FileStep ==
  ASSUME TypeOK, PermissionInv, FileInv, Next, NEW o \in Orgs, NEW d \in Digests
  PROVE  FileMoves(o, d)
<1>1. CASE UNCHANGED file
  BY <1>1 DEF FileMoves
<1>2. ASSUME NEW q \in Requests, OpenFile(q) PROVE FileMoves(o, d)
  <2>1. /\ command[q] \in Commands /\ command[q].kind = "deploy"
        /\ file' = [file EXCEPT ![command[q].org][command[q].digest] = q]
    BY <1>2 DEF OpenFile, PermissionInv, Permitted
  <2>2. CASE command[q].org = o /\ command[q].digest = d
    BY <1>2, <2>1, <2>2 DEF TypeOK, FileMoves, Deploys
  <2>3. CASE ~(command[q].org = o /\ command[q].digest = d)
    BY <2>1, <2>3 DEF TypeOK, FileMoves
  <2> QED
    BY <2>2, <2>3
<1>3. ASSUME NEW q \in Requests, FillFile(q) PROVE FileMoves(o, d)
  <2>1. CASE file' = [file EXCEPT ![command[q].org][command[q].digest] = "whole"]
    BY <1>3, <2>1 DEF TypeOK, FileMoves
  <2> QED
    BY <1>1, <1>3, <2>1 DEF FillFile
<1> QED
  BY <1>1, <1>2, <1>3 DEF Next, Step, Begin, LoginExpires, Consume, Exchange, EndSession, Receive, ReadSession,
    ReadRole, Write, SetDeployment, Audit, Fail, Restart, Send, Verify, Import, artifacts

\* Every step keeps what is known of the deployments' rows.
LEMMA RowStep ==
  ASSUME TypeOK, TypeOK', PermissionInv, FileInv, RowInv, Next
  PROVE  RowInv'
<1> SUFFICES ASSUME NEW o \in Orgs, row'[o] # None
             PROVE  file'[o][row'[o]] # "absent" /\ \E r \in applied' : Deploys(r, o, row[o])'
  BY DEF RowInv
<1>1. row'[o] \in Digests
  BY DEF TypeOK
<1>2. file[o][row'[o]] # "absent" => file'[o][row'[o]] # "absent"
  BY <1>1, FileStep DEF FileMoves
<1>3. CASE row'[o] = row[o]
  BY <1>2, <1>3, DeployedStays DEF RowInv, Deploys
<1>4. ASSUME NEW q \in Requests, SetDeployment(q), row'[o] # row[o]
      PROVE  file[o][row'[o]] # "absent" /\ \E r \in applied' : Deploys(r, o, row[o])'
  <2>1. /\ pc[q] = "row" /\ row' = [row EXCEPT ![command[q].org] = command[q].digest]
        /\ command[q] \in Commands /\ command[q].kind = "deploy"
        /\ applied' = applied \cup {q} /\ command' = command
    BY <1>4 DEF SetDeployment, PermissionInv, Permitted, FileInv
  <2>2. command[q].org = o /\ command[q].digest = row'[o]
    BY <1>4, <2>1 DEF TypeOK
  <2>3. file[o][row'[o]] # "absent"
    BY <2>1, <2>2 DEF FileInv, Artifact
  <2>4. q \in applied' /\ Deploys(q, o, row[o])'
    BY <2>1, <2>2 DEF Deploys
  <2> QED
    BY <2>3, <2>4
<1>5. row'[o] = row[o] \/ \E q \in Requests : SetDeployment(q)
  BY DEF Next, Step, Begin, LoginExpires, Consume, Exchange, EndSession, Receive, ReadSession, ReadRole, Write,
    OpenFile, FillFile, Audit, Fail, Restart, Send, Verify, Import, artifacts
<1> QED
  BY <1>2, <1>3, <1>4, <1>5

\* A request comes to the row of its deployment only through the file.
LEMMA FillsFirst ==
  ASSUME TypeOK, Next, NEW r \in Requests, pc'[r] \in {"filling", "row"}
  PROVE  pc[r] \in {"filling", "row"} \/ OpenFile(r)
<1>1. CASE UNCHANGED pc
  BY <1>1
<1>2. CASE \E q \in Requests, c \in Commands, k \in made \cup {Automation} : Receive(q, c, k)
  BY <1>2 DEF TypeOK, Receive, Goto
<1>3. ASSUME NEW q \in Requests,
             \/ ReadSession(q) \/ ReadRole(q) \/ Write(q) \/ OpenFile(q) \/ FillFile(q)
             \/ SetDeployment(q) \/ Audit(q) \/ Fail(q)
      PROVE  pc[r] \in {"filling", "row"} \/ OpenFile(r)
  <2>1. CASE q = r
    BY <1>3, <2>1 DEF TypeOK, ReadSession, ReadRole, Write, FillFile, SetDeployment, Audit, Fail, Goto, AfterWrite
  <2>2. CASE q # r
    <3>1. pc'[r] = pc[r]
      BY <1>3, <2>2 DEF TypeOK, ReadSession, ReadRole, Write, OpenFile, FillFile, SetDeployment, Audit, Fail, Goto
    <3> QED
      BY <3>1
  <2> QED
    BY <2>1, <2>2
<1>4. CASE \E o \in Orgs : Restart(o)
  BY <1>4 DEF TypeOK, Restart
<1> QED
  BY <1>1, <1>2, <1>3, <1>4 DEF Next, Step, Begin, LoginExpires, Consume, Exchange, EndSession, Send, Verify,
    Import, handler

\* A request whose file is not whole fills it, fails, or stays where it is.
LEMMA OpenerMoves ==
  ASSUME TypeOK, PermissionInv, FileInv, Next, NEW o \in Orgs, NEW d \in Digests,
         file[o][d] \in Requests, file'[o][d] = file[o][d]
  PROVE  pc'[file[o][d]] \in {"filling", "failed"} /\ file[o][d] \notin applied'
<1> DEFINE q == file[o][d]
<1>1. q \in Requests /\ Deploys(q, o, d) /\ q \notin applied /\ pc[q] \in {"filling", "failed"}
  BY DEF FileInv
<1>2. ASSUME FillFile(q) PROVE FALSE
  <2>1. command[q].org = o /\ command[q].digest = d
    BY <1>1 DEF Deploys
  <2>2. CASE file' = [file EXCEPT ![command[q].org][command[q].digest] = "whole"]
    <3>1. file' = [file EXCEPT ![o][d] = "whole"]
      BY <2>1, <2>2
    <3>2. o \in DOMAIN file /\ d \in DOMAIN file[o]
      BY DEF TypeOK
    <3>3. file'[o][d] = "whole"
      BY <3>1, <3>2
    <3> QED
      BY <3>3
  <2>3. CASE Overtaken(q)
    BY <2>1, <2>3 DEF Overtaken, Artifact
  <2> QED
    BY <1>2, <2>2, <2>3 DEF FillFile
<1>3. CASE UNCHANGED <<pc, applied>>
  BY <1>1, <1>3
<1>4. CASE \E r \in Requests, c \in Commands, k \in made \cup {Automation} : Receive(r, c, k)
  BY <1>1, <1>4 DEF TypeOK, Receive, Goto
<1>5. ASSUME NEW r \in Requests,
             \/ ReadSession(r) \/ ReadRole(r) \/ Write(r) \/ OpenFile(r) \/ FillFile(r)
             \/ SetDeployment(r) \/ Audit(r) \/ Fail(r)
      PROVE  pc'[q] \in {"filling", "failed"} /\ q \notin applied'
  <2>1. CASE r = q
    BY <1>1, <1>2, <1>5, <2>1 DEF TypeOK, ReadSession, ReadRole, Write, OpenFile, SetDeployment, Audit, Fail, Goto
  <2>2. CASE r # q
    <3>1. pc'[q] = pc[q]
      BY <1>1, <1>5, <2>2 DEF TypeOK, ReadSession, ReadRole, Write, OpenFile, FillFile, SetDeployment, Audit, Fail, Goto
    <3>2. q \notin applied'
      BY <1>1, <1>5, <2>2 DEF ReadSession, ReadRole, Write, OpenFile, FillFile, SetDeployment, Audit, Fail
    <3> QED
      BY <1>1, <3>1, <3>2
  <2> QED
    BY <2>1, <2>2
<1>6. CASE \E p \in Orgs : Restart(p)
  BY <1>1, <1>6 DEF TypeOK, Restart
<1> QED
  BY <1>3, <1>4, <1>5, <1>6 DEF Next, Step, Begin, LoginExpires, Consume, Exchange, EndSession,
    Send, Verify, Import, handler

\* Every step keeps what is known of the files.
LEMMA FileInvStep ==
  ASSUME TypeOK, TypeOK', PermissionInv, FileInv, Next
  PROVE  FileInv'
<1>1. ASSUME NEW r \in Requests, pc'[r] \in {"filling", "row"}
      PROVE  command'[r].kind = "deploy" /\ Artifact(r)' # "absent"
  <2>1. CASE pc[r] \in {"filling", "row"}
    <3>1. /\ command'[r] = command[r] /\ command[r] \in Commands /\ command[r].kind = "deploy"
          /\ Artifact(r) # "absent"
      BY <2>1, CommandStays DEF PermissionInv, Permitted, FileInv
    <3>2. FileMoves(command[r].org, command[r].digest)
      BY <3>1, FileStep
    <3>3. Artifact(r)' # "absent"
      BY <3>1, <3>2 DEF FileMoves, Artifact
    <3> QED
      BY <3>1, <3>3
  <2>2. CASE OpenFile(r)
    <3>1. command'[r] = command[r] /\ command[r] \in Commands /\ command[r].kind = "deploy"
      BY <2>2 DEF PermissionInv, Permitted, OpenFile
    <3>2. Artifact(r)' = r
      BY <2>2, <3>1 DEF TypeOK, Artifact, OpenFile
    <3> QED
      BY <3>1, <3>2
  <2> QED
    BY <1>1, <2>1, <2>2, FillsFirst
<1>2. ASSUME NEW o \in Orgs, NEW d \in Digests, file'[o][d] \in Requests
      PROVE  /\ Deploys(file[o][d], o, d)' /\ file'[o][d] \notin applied'
             /\ pc'[file'[o][d]] \in {"filling", "failed"}
  <2>1. FileMoves(o, d) /\ file'[o][d] # "whole"
    BY <1>2, FileStep
  <2>2. CASE file'[o][d] = file[o][d]
    <3>1. Deploys(file[o][d], o, d) /\ pc[file[o][d]] # "idle" /\ file[o][d] \in Requests
      BY <1>2, <2>2 DEF FileInv
    <3>2. Deploys(file[o][d], o, d)'
      BY <2>2, <3>1, CommandStays DEF Deploys
    <3> QED
      BY <2>2, <3>1, <3>2, OpenerMoves
  <2>3. ASSUME NEW r \in Requests, OpenFile(r), Deploys(r, o, d), file'[o][d] = r
        PROVE  Deploys(r, o, d)' /\ r \notin applied' /\ pc'[r] = "filling"
    BY <2>3 DEF TypeOK, PermissionInv, Permitted, OpenFile, Goto, Deploys
  <2> QED
    BY <2>1, <2>2, <2>3 DEF FileMoves
<1> QED
  BY <1>1, <1>2 DEF FileInv

-----------------------------------------------------------------------------
(* Function runs                                                           *)

\* What is known of one run.
RunFollows(n) ==
  run[n].at \in {"sent", "verified", "ran", "torn"} =>
    /\ run[n].org \in Orgs /\ run[n].digest \in Digests
    /\ \E r \in applied : Deploys(r, run[n].org, run[n].digest)
    /\ run[n].at = "verified" /\ n \notin reopened => Content(n) = "whole"
    /\ run[n].at = "torn" => n \in reopened

\* A run that does not move keeps following: its artifact is opened in its sight.
LEMMA StillFollows ==
  ASSUME TypeOK, PermissionInv, FileInv, RunInv, Next, NEW n \in Runs, run'[n] = run[n]
  PROVE  RunFollows(n)'
<1> SUFFICES ASSUME run[n].at \in {"sent", "verified", "ran", "torn"}
             PROVE  RunFollows(n)'
  BY DEF RunFollows
<1> DEFINE o == run[n].org
           d == run[n].digest
<1>1. o \in Orgs /\ d \in Digests /\ \E r \in applied : Deploys(r, o, d)
  BY DEF RunInv
<1>2. \E r \in applied' : Deploys(r, o, d)'
  BY <1>1, DeployedStays
<1>3. ASSUME run[n].at = "verified", n \notin reopened'
      PROVE  file'[o][d] = "whole"
  <2>1. file[o][d] = "whole"
    BY <1>3, CommandStays DEF RunInv, Content
  <2>2. ASSUME NEW r \in Requests, OpenFile(r), Deploys(r, o, d) PROVE FALSE
    <3>1. run[n] = [at |-> "verified", org |-> o, digest |-> d]
      BY <1>3 DEF TypeOK, Job
    <3> QED
      BY <1>3, <2>2, <3>1 DEF OpenFile, Deploys
  <2> QED
    BY <1>1, <2>1, <2>2, FileStep DEF FileMoves
<1>4. run[n].at = "torn" => n \in reopened'
  BY CommandStays DEF RunInv
<1> QED
  BY <1>1, <1>2, <1>3, <1>4 DEF RunFollows, Content, Deploys

\* Every step keeps what is known of the runs.
LEMMA RunStep ==
  ASSUME TypeOK, TypeOK', PermissionInv, FileInv, RowInv, RunInv, Next
  PROVE  RunInv'
<1> SUFFICES ASSUME NEW n \in Runs PROVE RunFollows(n)'
  BY DEF RunInv, RunFollows
<1>1. CASE run'[n] = run[n]
  BY <1>1, StillFollows
<1>2. ASSUME NEW o \in Orgs, Send(n, o) PROVE RunFollows(n)'
  <2>1. run'[n] = [at |-> "sent", org |-> o, digest |-> row[o]] /\ row[o] # None
    BY <1>2 DEF TypeOK, Send
  <2>2. row[o] \in Digests /\ \E r \in applied : Deploys(r, o, row[o])
    BY <2>1 DEF TypeOK, RowInv
  <2>3. UNCHANGED <<applied, command>>
    BY <1>2 DEF Send, handler
  <2> QED
    BY <2>1, <2>2, <2>3 DEF RunFollows, Deploys
<1>3. ASSUME Verify(n) \/ Import(n) PROVE RunFollows(n)'
  <2>1. UNCHANGED <<applied, command, file, reopened>>
    BY <1>3 DEF Verify, Import, handler, artifacts
  <2>2. /\ run[n] \in Job /\ run[n].at \in {"sent", "verified"}
        /\ run'[n].org = run[n].org /\ run'[n].digest = run[n].digest
        /\ run'[n].at \in {"verified", "ran", "torn", "refused"}
        /\ run'[n].at = "verified" => Content(n) = "whole"
        /\ run'[n].at = "torn" => run[n].at = "verified" /\ Content(n) # "whole"
    BY <1>3 DEF TypeOK, Job, Verify, Import, Verified
  <2> QED
    BY <2>1, <2>2 DEF RunInv, RunFollows, Content, Deploys
<1>4. run'[n] = run[n] \/ (\E o \in Orgs : Send(n, o)) \/ Verify(n) \/ Import(n)
  <2>1. \/ run' = run
        \/ \E m \in Runs : (\E o \in Orgs : Send(m, o)) \/ Verify(m) \/ Import(m)
    <3>1. ASSUME \/ \E l \in Logins : Begin(l) \/ LoginExpires(l)
                 \/ \E k \in Callbacks : Consume(k) \/ Exchange(k) \/ EndSession(k)
                 \/ \E r \in Requests, c \in Commands, k \in made \cup {Automation} : Receive(r, c, k)
          PROVE  run' = run
      BY <3>1 DEF Begin, LoginExpires, Consume, Exchange, EndSession, Receive, execution
    <3>2. ASSUME \/ \E r \in Requests :
                       \/ ReadSession(r) \/ ReadRole(r) \/ Write(r) \/ OpenFile(r) \/ FillFile(r)
                       \/ SetDeployment(r) \/ Audit(r) \/ Fail(r)
                 \/ \E o \in Orgs : Restart(o)
          PROVE  run' = run
      BY <3>2 DEF ReadSession, ReadRole, Write, OpenFile, FillFile, SetDeployment, Audit, Fail, Restart, execution
    <3> QED
      BY <3>1, <3>2, Zenon DEF Next, Step
  <2>2. ASSUME NEW m \in Runs \ {n}, (\E o \in Orgs : Send(m, o)) \/ Verify(m) \/ Import(m)
        PROVE  run'[n] = run[n]
    BY <2>2 DEF TypeOK, Send, Verify, Import
  <2> QED
    BY <2>1, <2>2
<1> QED
  BY <1>1, <1>2, <1>3, <1>4

-----------------------------------------------------------------------------
(* Theorems                                                                *)

\* The invariant is inductive.
LEMMA InvStep ==
  ASSUME IInv, [Next]_vars
  PROVE  IInv'
<1>1. CASE Next
  <2>1. TypeOK'
    BY <1>1, TypeStep
  <2>2. LoginInv' /\ PermissionInv'
    BY <1>1, <2>1, LoginStep, PermissionStep DEF IInv
  <2>3. FileInv' /\ RowInv' /\ RunInv'
    BY <1>1, <2>1, FileInvStep, RowStep, RunStep DEF IInv
  <2> QED
    BY <2>1, <2>2, <2>3 DEF IInv
<1>2. CASE UNCHANGED vars
  <2> USE <1>2 DEF vars, identity, handler, artifacts, execution, IInv
  <2>1. TypeOK'
    BY DEF TypeOK
  <2>2. LoginInv'
    BY DEF LoginInv
  <2>3. PermissionInv'
    BY DEF PermissionInv, Permitted
  <2>4. FileInv'
    BY DEF FileInv, Artifact, Deploys
  <2>5. RowInv'
    BY DEF RowInv, Deploys
  <2>6. RunInv'
    BY DEF RunInv, Content, Deploys
  <2> QED
    BY <2>1, <2>2, <2>3, <2>4, <2>5, <2>6
<1> QED
  BY <1>1, <1>2

\* The inductive invariant holds in every reachable state.
LEMMA Inductive == Spec => []IInv
BY InitInv, InvStep, PTL DEF Spec

\* Every variable keeps to its type, whatever is asked for and whatever fails.
THEOREM TypeCorrect == Spec => []TypeOK
<1>1. IInv => TypeOK
  BY DEF IInv
<1> QED
  BY <1>1, Inductive, PTL

\* DELETE ... RETURNING lets one callback through: a login makes one session.
THEOREM LoginsMakeOneSession == Spec => []OneSessionPerLogin
<1>1. IInv => OneSessionPerLogin
  BY DEF IInv, TypeOK, LoginInv, OneSessionPerLogin
<1> QED
  BY <1>1, Inductive, PTL

\* Every write was preceded by its sender's session and permission.
THEOREM WritesArePermitted == Spec => []OnlyPermittedWrites
<1>1. IInv => OnlyPermittedWrites
  BY DEF IInv, TypeOK, PermissionInv, Permitted, OnlyPermittedWrites
<1> QED
  BY <1>1, Inductive, PTL

\* The artifact of an active deployment is whole, or a request that writes it again
\* has not come to its end.
THEOREM ActiveDeploymentIsWhole == Spec => []ActiveIsWhole
<1>1. ASSUME IInv PROVE ActiveIsWhole
  <2> SUFFICES ASSUME NEW o \in Orgs, row[o] # None
               PROVE  /\ \E r \in applied : Deploys(r, o, row[o])
                      /\ \/ file[o][row[o]] = "whole"
                         \/ \E r \in Requests \ applied : file[o][row[o]] = r /\ pc[r] \in {"filling", "failed"}
    BY DEF ActiveIsWhole
  <2>1. row[o] \in Digests
    BY <1>1 DEF IInv, TypeOK
  <2>2. file[o][row[o]] \in {"absent", "whole"} \cup Requests
    <3>1. file \in [Orgs -> [Digests -> {"absent", "whole"} \cup Requests]]
      BY <1>1 DEF IInv, TypeOK
    <3> HIDE DEF Digests
    <3> QED
      BY <2>1, <3>1
  <2> QED
    BY <1>1, <2>1, <2>2 DEF IInv, RowInv, FileInv
<1> QED
  BY <1>1, Inductive, PTL

\* A function run imports an artifact that was deployed, and a torn one only when
\* the same digest was opened for writing between its two reads.
THEOREM RunsImportDeployments == Spec => []RunsWhatWasDeployed
<1>1. IInv => RunsWhatWasDeployed
  BY DEF IInv, RunInv, RunsWhatWasDeployed
<1> QED
  BY <1>1, Inductive, PTL

\* A role that is held changes only by a member request that is being written.
THEOREM RolesAreManaged == Spec => MembershipIsManaged
<1>1. ASSUME IInv, [Next]_vars
      PROVE  [\A o \in Orgs, s \in Subjects :
                roles'[o][s] # roles[o][s] =>
                  \/ roles[o][s] = None /\ s \in Founders
                  \/ \E r \in applied' \ applied :
                       command[r].kind = "member" /\ command[r].org = o /\ command[r].subject = s]_vars
  <2>1. CASE UNCHANGED roles
    BY <2>1
  <2>2. ASSUME NEW p \in Orgs, Restart(p), NEW o \in Orgs, NEW s \in Subjects, roles'[o][s] # roles[o][s]
        PROVE  roles[o][s] = None /\ s \in Founders
    BY <1>1, <2>2 DEF IInv, TypeOK, Restart, Bootstrapped
  <2>3. ASSUME NEW q \in Requests, Write(q), NEW o \in Orgs, NEW s \in Subjects, roles'[o][s] # roles[o][s]
        PROVE  \E r \in applied' \ applied :
                 command[r].kind = "member" /\ command[r].org = o /\ command[r].subject = s
    <3>1. q \notin applied /\ applied' = applied \cup {q}
      BY <1>1, <2>3 DEF IInv, PermissionInv, Permitted, Write
    <3>2. command[q].kind = "member" /\ command[q].org = o /\ command[q].subject = s
      BY <1>1, <2>3 DEF IInv, TypeOK, PermissionInv, Permitted, Write
    <3> QED
      BY <3>1, <3>2
  <2>4. UNCHANGED roles \/ (\E p \in Orgs : Restart(p)) \/ (\E q \in Requests : Write(q))
    BY <1>1 DEF Next, Step, Begin, LoginExpires, Consume, Exchange, EndSession, Receive, ReadSession,
      ReadRole, OpenFile, FillFile, SetDeployment, Audit, Fail, Send, Verify, Import, vars
  <2> QED
    BY <2>1, <2>2, <2>3, <2>4
<1> QED
  BY <1>1, Inductive, PTL DEF Spec, MembershipIsManaged
=============================================================================
