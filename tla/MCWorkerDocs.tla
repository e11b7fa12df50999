---------------------------- MODULE MCWorkerDocs ----------------------------
(* What the documentation says of the workers and the code does not do.     *)
EXTENDS MCDurableWorker

\* "leased jobs are recovered from PostgreSQL" when a Worker restarts
\* (apps/docs/guide/self-hosting.md): a job whose lease ran out is settled.
LeasedJobRecovered ==
  \A e \in Events :
    queue[e].status = "running" /\ queue[e].lease = "expired"
      ~> queue[e].status \in {"completed", "dead"}

\* "Workers receive at-least-once delivery" (apps/docs/guide/data-jobs.md): an
\* event with a sound payload is settled whatever other events carry.
SoundEventDelivered ==
  \A e \in Events \ Malformable :
    outbox[e] = "unpublished" ~> queue[e].status \in {"completed", "dead"}
=============================================================================
