---------------------------- MODULE AnsweredCalls ----------------------------
(***************************************************************************)
(* What a call of a function promises its caller                           *)
(* (apps/docs/guide/self-hosting.md, "in-flight functions fail and can be  *)
(* retried with an idempotency key"), without Gateway, host or table: a    *)
(* call runs or not, whatever its caller is told; a success is the result  *)
(* of a call that ran; and the first result that is kept for a key is the  *)
(* only one that calls which ask after a success are ever given.           *)
(***************************************************************************)
CONSTANTS Calls, Keys, NoKey, KeyOf, InputOf, None

VARIABLES
  asked,     \* calls that were made
  bound,     \* of these, the ones made after a success with the same key
  ran,       \* calls whose effects are there
  kept,      \* the call whose result is kept for each key
  answered,  \* calls whose callers have been answered
  given      \* the call whose result each caller was given, or None: a failure

vars == <<asked, bound, ran, kept, answered, given>>

Init ==
  /\ asked = {} /\ bound = {} /\ ran = {} /\ answered = {}
  /\ kept = [k \in Keys |-> None]
  /\ given = [c \in Calls |-> None]

Keyed(c) == KeyOf[c] # NoKey

Ask(c) ==
  /\ c \notin asked
  /\ asked' = asked \cup {c}
  /\ bound' = IF Keyed(c) /\ \E b \in Calls : KeyOf[b] = KeyOf[c] /\ given[b] # None
                THEN bound \cup {c} ELSE bound
  /\ UNCHANGED <<ran, kept, answered, given>>

\* Also after its caller was told of a failure.
Run(c) ==
  /\ c \in asked \ bound
  /\ ran' = ran \cup {c}
  /\ UNCHANGED <<asked, bound, kept, answered, given>>

Keep(c) ==
  /\ c \in ran /\ Keyed(c) /\ kept[KeyOf[c]] = None
  /\ kept' = [kept EXCEPT ![KeyOf[c]] = c]
  /\ UNCHANGED <<asked, bound, ran, answered, given>>

\* A call's own result, once there is one to keep; or the one that is kept.
May(c, b) ==
  \/ b = c /\ c \in ran /\ (Keyed(c) => kept[KeyOf[c]] # None)
  \/ Keyed(c) /\ kept[KeyOf[c]] = b /\ b \in ran /\ InputOf[b] = InputOf[c]

Succeed(c) ==
  /\ c \in asked \ answered
  /\ \E b \in Calls : May(c, b) /\ given' = [given EXCEPT ![c] = b]
  /\ answered' = answered \cup {c}
  /\ UNCHANGED <<asked, bound, ran, kept>>

Fail(c) ==
  /\ c \in asked \ answered
  /\ answered' = answered \cup {c}
  /\ UNCHANGED <<asked, bound, ran, kept, given>>

Next == \E c \in Calls : Ask(c) \/ Run(c) \/ Keep(c) \/ Succeed(c) \/ Fail(c)

Spec == Init /\ [][Next]_vars
=============================================================================
