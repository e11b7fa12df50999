------------------------------ MODULE MCEventDocs ------------------------------
(* What the documentation says of event streams and the code does not do.     *)
EXTENDS MCEventStream

\* "Gateway filters them to the active session before delivery"
\* (apps/docs/guide/data-jobs.md); streams "require a matching session and filter
\* event payloads to the current subject" (apps/docs/security.md): an event is
\* delivered only while the user it names is the one who is signed in.
DeliveredToActiveSession ==
  [][\A e \in Events : delivered'[e] > delivered[e] =>
       session # None /\ Owner[session] = For[e]]_vars
=============================================================================
