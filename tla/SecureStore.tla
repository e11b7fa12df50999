----------------------------- MODULE SecureStore -----------------------------
(***************************************************************************)
(* The browser's store of secrets: SecureStore of runtime-client.ts.  Every *)
(* change starts a persist() that nothing waits for: it writes a snapshot  *)
(* of the memory to a temporary file, always the same one, and renames it. *)
(* Of the secrets the session of one scope is modelled; a new device key   *)
(* starts a persist() as well.                                             *)
(***************************************************************************)
CONSTANTS
  Tokens,    \* session tokens
  Persists,  \* calls of persist() that may be under way together
  None       \* no token

ASSUME SecureStoreAssumption ==
  /\ None \notin Tokens \cup Persists
  /\ {"absent", "empty", "garbled"} \cap (Tokens \cup {None}) = {}

VARIABLES
  memory,   \* this.data: the session it holds
  temp,     \* content of the temporary file
  file,     \* content of runtime-secrets.json
  stage,    \* what each persist() does next
  fd,       \* the file that its descriptor is of, under the name it has now
  snap,     \* what it writes
  sole,     \* ghost: the persist() that has been alone since it began
  mishap    \* ghost: one overlapped another or failed, and none has been alone since

store == <<memory, temp, file, stage, fd, snap, sole, mishap>>

Secrets == Tokens \cup {None}
Contents == Secrets \cup {"absent", "empty", "garbled"}

StoreTypeOK ==
  /\ memory \in Secrets
  /\ temp \in Contents /\ file \in Contents
  /\ stage \in [Persists -> {"idle", "open", "write", "rename"}]
  /\ fd \in [Persists -> {"none", "temp", "file", "gone"}]
  /\ snap \in [Persists -> Secrets]
  /\ sole \in Persists \cup {None}
  /\ mishap \in BOOLEAN

StoreInit ==
  /\ memory = None
  /\ temp = "absent" /\ file = "absent"
  /\ stage = [p \in Persists |-> "idle"]
  /\ fd = [p \in Persists |-> "none"]
  /\ snap = [p \in Persists |-> None]
  /\ sole = None /\ mishap = FALSE

Quiet == \A p \in Persists : stage[p] = "idle"

\* Mutants (named Bad...): plausible mistakes that the properties must catch.
BadLoaded == file                                  \* an unreadable file, as it is
BadTarget(p) == "file"                             \* no temporary file

\* setSession(token), and identity() with the token it finds.
SetSession(token) ==
  \E p \in Persists :
    /\ stage[p] = "idle"
    /\ memory' = token
    /\ stage' = [stage EXCEPT ![p] = "open"]
    /\ snap' = [snap EXCEPT ![p] = token]
    /\ sole' = IF Quiet THEN p ELSE None
    /\ mishap' = (mishap \/ ~Quiet)
    /\ UNCHANGED <<temp, file, fd>>

Target(p) == "temp"

\* writeFile: opened and truncated, or created,
Open(p) ==
  /\ stage[p] = "open"
  /\ stage' = [stage EXCEPT ![p] = "write"]
  /\ fd' = [fd EXCEPT ![p] = Target(p)]
  /\ temp' = IF Target(p) = "temp" THEN "empty" ELSE temp
  /\ file' = IF Target(p) = "file" THEN "empty" ELSE file
  /\ UNCHANGED <<memory, snap, sole, mishap>>

\* and written from its start, over what another descriptor wrote: of a longer
\* content the end remains.
Over(content, p) ==
  IF content \in {"empty", snap[p]} THEN {snap[p]} ELSE {snap[p], "garbled"}

WriteData(p) ==
  /\ stage[p] = "write"
  /\ stage' = [stage EXCEPT ![p] = "rename"]
  /\ fd' = [fd EXCEPT ![p] = "none"]
  /\ temp' \in IF fd[p] = "temp" THEN Over(temp, p) ELSE {temp}
  /\ file' \in IF fd[p] = "file" THEN Over(file, p) ELSE {file}
  /\ UNCHANGED <<memory, snap, sole, mishap>>

\* Descriptors stay with their file; a file that is replaced has no name left.
Renamed(name) == CASE name = "temp" -> "file" [] name = "file" -> "gone" [] OTHER -> name

Rename(p) ==
  /\ stage[p] = "rename" /\ temp # "absent"
  /\ stage' = [stage EXCEPT ![p] = "idle"]
  /\ file' = temp /\ temp' = "absent"
  /\ fd' = [q \in Persists |-> Renamed(fd[q])]
  /\ mishap' = (mishap /\ sole # p)
  /\ sole' = None
  /\ snap' = [snap EXCEPT ![p] = None]
  /\ UNCHANGED memory

\* No space or no permission, or the temporary file is gone: nobody is told.
PersistFails(p) ==
  /\ stage[p] # "idle"
  /\ stage' = [stage EXCEPT ![p] = "idle"]
  /\ fd' = [fd EXCEPT ![p] = "none"]
  /\ mishap' = TRUE /\ sole' = None
  /\ snap' = [snap EXCEPT ![p] = None]
  /\ UNCHANGED <<memory, temp, file>>

Loaded == IF file \in Tokens THEN file ELSE None

\* The browser is killed and started again: initialize().
StoreRestart ==
  /\ memory' = Loaded
  /\ stage' = [p \in Persists |-> "idle"]
  /\ fd' = [p \in Persists |-> "none"]
  /\ snap' = [p \in Persists |-> None]
  /\ sole' = None
  /\ UNCHANGED <<temp, file, mishap>>
-----------------------------------------------------------------------------
(* Properties                                                              *)

\* However often the browser is killed, what it will read is a whole snapshot,
\* and the memory itself when no persist() is under way - unless two of them
\* overlapped or one failed, and no later one had the file for itself.
StoredIsCurrent ==
  ~mishap => /\ file \notin {"empty", "garbled"}
             /\ Quiet => Loaded = memory
=============================================================================
