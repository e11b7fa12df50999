----------------------------- MODULE ControlPlane -----------------------------
(***************************************************************************)
(* The Gateway's control plane: administrator logins (control-auth.ts),    *)
(* organization roles, and the writes of /v1/control and /v1/admin of      *)
(* services/gateway/src/server.ts, with the tables of store.ts.  A handler *)
(* awaits the session, the role, the write and the audit row in turn, so   *)
(* requests, logouts and restarts come in between.  A deployment is a file *)
(* and a row; function-host/src/runner.ts reads the file twice, once for   *)
(* its digest and once to import it.  Each organization has one project.   *)
(***************************************************************************)
EXTENDS Integers, FiniteSets

CONSTANTS
  Orgs, Subjects,
  Founders,    \* ARCHETYPE_CONTROL_BOOTSTRAP_SUBJECTS
  Logins,      \* login transactions
  Callbacks,   \* returns from the identity provider; each may make a session
  Carries,     \* the transaction whose state each callback carries
  Who,         \* the subject that the provider names for it
  Commands,    \* the writes that are asked for
  Requests, Runs,
  Automation,  \* a request with the admin token, in place of a session
  None

Roles == {"owner", "admin", "developer", "operator", "auditor"}
Kinds == {"member", "create", "configure", "database", "deploy"}

ASSUME ControlPlaneAssumption ==
  /\ Founders \subseteq Subjects
  /\ Carries \in [Callbacks -> Logins] /\ Who \in [Callbacks -> Subjects]
  /\ \A c \in Commands : c.kind \in Kinds /\ c.org \in Orgs
  /\ \A c \in Commands : c.kind = "member" => c.subject \in Subjects /\ c.role \in Roles
  /\ Automation \notin Callbacks
  /\ "absent" \notin Requests /\ "whole" \notin Requests
  /\ None \notin Roles /\ None \notin Commands /\ None \notin Callbacks /\ None \notin Orgs
  /\ None \notin {c.digest : c \in {d \in Commands : d.kind = "deploy"}}

VARIABLES
  login,     \* state of each transaction
  callback,  \* where each callback's handler is
  live,      \* sessions, by the callback that made them
  roles,     \* control_memberships
  file,      \* the artifact on disk of each organization's project and digest: absent,
             \* whole, or incomplete since a request opened it
  row,       \* deployments: the digest of each project
  pc, command, by,  \* each request: where its handler is, its command and sender
  run,       \* each function run: where it is, its project and the digest it was sent
  reopened,  \* ghost: runs whose artifact was opened for writing since they verified it
  made,      \* ghost: callbacks that made a session
  applied,   \* ghost: requests whose write took place
  had        \* ghost: what the sender of each request had since it came

identity == <<login, callback, live, made>>
handler == <<pc, command, by, applied>>
artifacts == <<file, row>>
execution == <<run, reopened>>
vars == <<identity, handler, roles, artifacts, execution, had>>

Digests == {c.digest : c \in {d \in Commands : d.kind = "deploy"}}
Job == [at : {"idle", "sent", "verified", "ran", "torn", "refused"},
        org : Orgs \cup {None}, digest : Digests \cup {None}]
Places == {"idle", "session", "role", "write", "filling", "row", "audit", "answered", "failed"}

TypeOK ==
  /\ login \in [Logins -> {"unused", "open", "gone"}]
  /\ callback \in [Callbacks -> {"idle", "exchanging", "over"}]
  /\ live \subseteq made /\ made \subseteq Callbacks
  /\ roles \in [Orgs -> [Subjects -> Roles \cup {None}]]
  /\ file \in [Orgs -> [Digests -> {"absent", "whole"} \cup Requests]]
  /\ row \in [Orgs -> Digests \cup {None}]
  /\ applied \subseteq Requests
  /\ pc \in [Requests -> Places]
  /\ command \in [Requests -> Commands \cup {None}]
  /\ by \in [Requests -> Callbacks \cup {Automation, None}]
  /\ run \in [Runs -> Job] /\ reopened \subseteq Runs
  /\ had \in [Requests -> SUBSET {"session", "role"}]

-----------------------------------------------------------------------------
(* Roles                                                                   *)
Reads == {"organization:read", "project:read", "audit:read"}
Permissions(role) ==
  CASE role \in {"owner", "admin"} -> Reads \cup {"member", "create", "configure", "deploy"}
    [] role = "developer" -> Reads \cup {"configure", "deploy"}
    [] role = "operator" -> Reads \cup {"configure"}
    [] role = "auditor" -> Reads
    [] role = None -> {}

\* The permission that a command asks for.
Needs(c) == IF c.kind = "database" THEN "configure" ELSE c.kind

\* Mutants (named Bad...): plausible mistakes that the properties must catch.
BadBootstrapped(o) ==                              \* DO UPDATE for DO NOTHING
  [roles EXCEPT ![o] = [s \in Subjects |-> IF s \in Founders THEN "owner" ELSE roles[o][s]]]
BadConsumed(l) == login                            \* SELECT for DELETE ... RETURNING
BadActorRole(r) ==                                 \* of any organization
  LET held == {roles[o][Who[by[r]]] : o \in Orgs} \ {None} IN
    IF held = {} THEN None ELSE CHOOSE x \in held : TRUE
BadOvertaken(r) == TRUE                            \* a failing write is ignored
BadVerified(n) == TRUE                             \* the digest is not compared
BadNewSession(k) == live' = live \cup {k} /\ UNCHANGED made  \* of no login

\* INSERT ... ON CONFLICT DO NOTHING for each founder.
Bootstrapped(o) ==
  [roles EXCEPT ![o] = [s \in Subjects |->
     IF s \in Founders /\ roles[o][s] = None THEN "owner" ELSE roles[o][s]]]

Init ==
  /\ login = [l \in Logins |-> "unused"]
  /\ callback = [k \in Callbacks |-> "idle"]
  /\ live = {} /\ made = {}
  /\ \E o \in Orgs : roles = [p \in Orgs |-> [s \in Subjects |->
                                IF p = o /\ s \in Founders THEN "owner" ELSE None]]
  /\ file = [o \in Orgs |-> [d \in Digests |-> "absent"]]
  /\ row = [o \in Orgs |-> None]
  /\ applied = {}
  /\ pc = [r \in Requests |-> "idle"]
  /\ command = [r \in Requests |-> None]
  /\ by = [r \in Requests |-> None]
  /\ run = [n \in Runs |-> [at |-> "idle", org |-> None, digest |-> None]] /\ reopened = {}
  /\ had = [r \in Requests |-> {}]

-----------------------------------------------------------------------------
(* Logins and sessions                                                     *)
Begin(l) ==
  /\ login[l] = "unused"
  /\ login' = [login EXCEPT ![l] = "open"]
  /\ UNCHANGED <<callback, live, made, handler, roles, artifacts, execution>>

\* NOW() passes expires_at.
LoginExpires(l) ==
  /\ login[l] = "open"
  /\ login' = [login EXCEPT ![l] = "gone"]
  /\ UNCHANGED <<callback, live, made, handler, roles, artifacts, execution>>

Consumed(l) == [login EXCEPT ![l] = "gone"]

\* DELETE ... RETURNING: without a row the callback is refused.
Consume(k) ==
  /\ callback[k] = "idle"
  /\ \/ /\ login[Carries[k]] = "open"
        /\ login' = Consumed(Carries[k])
        /\ callback' = [callback EXCEPT ![k] = "exchanging"]
     \/ /\ login[Carries[k]] = "gone"
        /\ callback' = [callback EXCEPT ![k] = "over"]
        /\ UNCHANGED login
  /\ UNCHANGED <<live, made, handler, roles, artifacts, execution>>

NewSession(k) == live' = live \cup {k} /\ made' = made \cup {k}

\* The code is exchanged and the ID token verified, or one of them fails.
Exchange(k) ==
  /\ callback[k] = "exchanging"
  /\ callback' = [callback EXCEPT ![k] = "over"]
  /\ NewSession(k) \/ UNCHANGED <<live, made>>
  /\ UNCHANGED <<login, handler, roles, artifacts, execution>>

\* Logged out, or expired after eight hours.
EndSession(k) ==
  /\ k \in live
  /\ live' = live \ {k}
  /\ UNCHANGED <<login, callback, made, handler, roles, artifacts, execution>>

-----------------------------------------------------------------------------
(* A write: one step for each await of its handler                         *)
Goto(r, p) == pc' = [pc EXCEPT ![r] = p]

Receive(r, c, k) ==
  /\ pc[r] = "idle"
  /\ k = Automation => c.kind # "member"
  /\ Goto(r, IF k = Automation THEN "write" ELSE "session")
  /\ command' = [command EXCEPT ![r] = c]
  /\ by' = [by EXCEPT ![r] = k]
  /\ UNCHANGED <<identity, applied, roles, artifacts, execution>>

IsLive(r) == by[r] \in live

ReadSession(r) ==
  /\ pc[r] = "session"
  /\ Goto(r, IF IsLive(r) THEN "role" ELSE "failed")
  /\ UNCHANGED <<identity, command, by, applied, roles, artifacts, execution>>

\* The role in the organization itself, or in that of the project.
ActorRole(r) == roles[command[r].org][Who[by[r]]]

ReadRole(r) ==
  /\ pc[r] = "role"
  /\ Goto(r, IF Needs(command[r]) \in Permissions(ActorRole(r)) THEN "write" ELSE "failed")
  /\ UNCHANGED <<identity, command, by, applied, roles, artifacts, execution>>

\* An administrator's write is audited; automation's, of a database or a deployment.
IsAudited(c, k) == k # Automation \/ c.kind \in {"database", "deploy"}

AfterWrite(r) == IF IsAudited(command[r], by[r]) THEN "audit" ELSE "answered"

\* One statement: INSERT ... ON CONFLICT DO UPDATE of a membership, INSERT of a
\* project or UPDATE of its settings.
Write(r) ==
  /\ pc[r] = "write" /\ command[r].kind # "deploy"
  /\ roles' = IF command[r].kind = "member"
                THEN [roles EXCEPT ![command[r].org][command[r].subject] = command[r].role]
                ELSE roles
  /\ applied' = applied \cup {r}
  /\ Goto(r, AfterWrite(r))
  /\ UNCHANGED <<identity, command, by, artifacts, execution>>

Artifact(r) == file[command[r].org][command[r].digest]

\* writeFile truncates the file,
OpenFile(r) ==
  /\ pc[r] = "write" /\ command[r].kind = "deploy"
  /\ file' = [file EXCEPT ![command[r].org][command[r].digest] = r]
  /\ reopened' = reopened \cup {n \in Runs :
       run[n] = [at |-> "verified", org |-> command[r].org, digest |-> command[r].digest]}
  /\ Goto(r, "filling")
  /\ UNCHANGED <<identity, command, by, applied, roles, row, run>>

\* and fills it; what was written before another request truncated it is missing,
\* until that request has filled it.
Overtaken(r) == Artifact(r) # r

FillFile(r) ==
  /\ pc[r] = "filling"
  /\ \/ file' = [file EXCEPT ![command[r].org][command[r].digest] = "whole"]
     \/ Overtaken(r) /\ UNCHANGED file
  /\ Goto(r, "row")
  /\ UNCHANGED <<identity, command, by, applied, roles, row, execution>>

SetDeployment(r) ==
  /\ pc[r] = "row"
  /\ row' = [row EXCEPT ![command[r].org] = command[r].digest]
  /\ applied' = applied \cup {r}
  /\ Goto(r, AfterWrite(r))
  /\ UNCHANGED <<identity, command, by, roles, file, execution>>

\* The row of audit_log, of which nothing here depends, is inserted.
Audit(r) ==
  /\ pc[r] = "audit"
  /\ Goto(r, "answered")
  /\ UNCHANGED <<identity, command, by, applied, roles, artifacts, execution>>

\* An await that throws: nothing is undone.
Fail(r) ==
  /\ pc[r] \notin {"idle", "answered", "failed"}
  /\ Goto(r, "failed")
  /\ UNCHANGED <<identity, command, by, applied, roles, artifacts, execution>>

\* The process dies and starts again, for the organization of its environment.
Restart(o) ==
  /\ pc' = [r \in Requests |-> IF pc[r] \in {"idle", "answered"} THEN pc[r] ELSE "failed"]
  /\ callback' = [k \in Callbacks |-> IF callback[k] = "exchanging" THEN "over" ELSE callback[k]]
  /\ roles' = Bootstrapped(o)
  /\ UNCHANGED <<login, live, made, command, by, applied, artifacts, execution>>

-----------------------------------------------------------------------------
(* A function run                                                          *)

\* The Gateway reads the deployment's row and sends it to the function host.
Send(n, o) ==
  /\ run[n].at = "idle" /\ row[o] # None
  /\ run' = [run EXCEPT ![n] = [at |-> "sent", org |-> o, digest |-> row[o]]]
  /\ UNCHANGED <<identity, handler, roles, artifacts, reopened>>

Content(n) == file[run[n].org][run[n].digest]

Verified(n) == Content(n) = "whole"

Verify(n) ==
  /\ run[n].at = "sent"
  /\ run' = [run EXCEPT ![n].at = IF Verified(n) THEN "verified" ELSE "refused"]
  /\ UNCHANGED <<identity, handler, roles, artifacts, reopened>>

\* import() reads the file once more.
Import(n) ==
  /\ run[n].at = "verified"
  /\ run' = [run EXCEPT ![n].at = IF Content(n) = "whole" THEN "ran" ELSE "torn"]
  /\ UNCHANGED <<identity, handler, roles, artifacts, reopened>>

-----------------------------------------------------------------------------
Step ==
  \/ \E l \in Logins : Begin(l) \/ LoginExpires(l)
  \/ \E k \in Callbacks : Consume(k) \/ Exchange(k) \/ EndSession(k)
  \/ \E r \in Requests, c \in Commands, k \in made \cup {Automation} : Receive(r, c, k)
  \/ \E r \in Requests :
       \/ ReadSession(r) \/ ReadRole(r) \/ Write(r) \/ OpenFile(r) \/ FillFile(r)
       \/ SetDeployment(r) \/ Audit(r) \/ Fail(r)
  \/ \E o \in Orgs : Restart(o)
  \/ \E n \in Runs, o \in Orgs : Send(n, o)
  \/ \E n \in Runs : Verify(n) \/ Import(n)

\* What the sender has at this moment: a live session, and the permission.
Has(r) ==
  {h \in {"session", "role"} :
     /\ pc[r] # "idle" /\ by[r] # Automation
     /\ h = "session" => by[r] \in live
     /\ h = "role" => Needs(command[r]) \in Permissions(roles[command[r].org][Who[by[r]]])}

Next == Step /\ had' = [r \in Requests |-> had[r] \cup Has(r)']

Spec == Init /\ [][Next]_vars
-----------------------------------------------------------------------------
(* Properties                                                              *)

\* A login makes one session at most, however often the provider's redirect is
\* followed and whatever fails.
OneSessionPerLogin ==
  \A k, m \in made : Carries[k] = Carries[m] => k = m

\* A write is made only for automation, or for an administrator whose session
\* was alive and who held the permission in that very organization at some time
\* since the request came - not necessarily at the same time, nor still.
OnlyPermittedWrites ==
  \A r \in applied : by[r] = Automation \/ had[r] = {"session", "role"}

\* A membership that exists changes only by a member request that is being
\* written; no start of the Gateway gives a demoted founder the role back.
MembershipIsManaged ==
  [][\A o \in Orgs, s \in Subjects :
       roles'[o][s] # roles[o][s] =>
         \/ roles[o][s] = None /\ s \in Founders
         \/ \E r \in applied' \ applied :
              command[r].kind = "member" /\ command[r].org = o /\ command[r].subject = s]_vars

Deploys(r, o, d) ==
  command[r] # None /\ command[r].kind = "deploy" /\ command[r].org = o /\ command[r].digest = d

\* The active deployment is one that was written, and its artifact is whole -
\* unless another request is writing the same digest again, or was cut short.
ActiveIsWhole ==
  \A o \in Orgs : row[o] # None =>
    /\ \E r \in applied : Deploys(r, o, row[o])
    /\ \/ file[o][row[o]] = "whole"
       \/ \E r \in Requests \ applied : file[o][row[o]] = r /\ pc[r] \in {"filling", "failed"}

\* A run imports what was deployed to its project, and the whole of it unless the
\* same digest was written again between its two reads of the file.
RunsWhatWasDeployed ==
  \A n \in Runs : run[n].at \in {"ran", "torn"} =>
    /\ \E r \in applied : Deploys(r, run[n].org, run[n].digest)
    /\ run[n].at = "torn" => n \in reopened
=============================================================================
