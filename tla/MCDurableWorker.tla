--------------------------- MODULE MCDurableWorker ---------------------------
(* Small instances of DurableWorker for TLC: events are numbers, and the    *)
(* transaction that published the smaller number began first.               *)
EXTENDS DurableWorker

MCCreatedAt == [e \in Events |-> e]
=============================================================================
