------------------------- MODULE DurableWorkerProofs -------------------------
(* Machine-checked proofs about DurableWorker, for every set of events and   *)
(* workers, every retry limit and any number of faults of every kind.        *)
EXTENDS DurableWorker, TLAPS

-----------------------------------------------------------------------------
\* A fault is counted and never exceeds its bound.
LEMMA FaultType ==
  ASSUME TypeOK, NEW kind, Fault(kind)
  PROVE  faults' \in [costly : 0 .. MaxFaults, harmless : 0 .. MaxFaults]
BY ConstantsAssumption DEF TypeOK, Fault, Cost

\* The fenced UPDATE leaves the attempt and its token alone.
LEMMA SettledRowFields ==
  ASSUME NEW row \in Row, NEW status \in {"pending", "completed", "dead"}
  PROVE  /\ SettledRow(row, status) \in Row
         /\ SettledRow(row, status).status = status
         /\ SettledRow(row, status).token = row.token
         /\ SettledRow(row, status).attempts = row.attempts
<1>1. CASE status = "pending"
  BY <1>1 DEF SettledRow, Row
<1>2. CASE status # "pending"
  BY <1>2 DEF SettledRow, Row
<1> QED
  BY <1>1, <1>2

\* The fenced UPDATE yields rows again, whatever token it carries.
LEMMA SettledType ==
  ASSUME TypeOK, NEW e \in Events, NEW token \in Nat,
         NEW status \in {"pending", "completed", "dead"}
  PROVE  Settled(e, token, status) \in [Events -> Row]
BY SettledRowFields DEF TypeOK, Settled

\* ON CONFLICT DO NOTHING yields rows again.
LEMMA InsertedType ==
  ASSUME TypeOK, NEW e \in Events
  PROVE  Inserted(e) \in [Events -> Row]
BY DEF TypeOK, Inserted, Row, NoRow

\* The claim yields rows again.
LEMMA ClaimedType ==
  ASSUME TypeOK, NEW w \in Workers, job[w] \in Job
  PROVE  Claimed(w) \in [Events -> Row]
<1> DEFINE e == job[w].event
           row == [queue[e] EXCEPT !.status = "running", !.lease = "live",
                                   !.attempts = job[w].attempts, !.token = job[w].token]
<1>1. e \in Events /\ job[w].attempts \in Nat /\ job[w].token \in Nat
  BY DEF Job
<1>2. queue \in [Events -> Row] /\ queue[e] \in Row
  BY <1>1 DEF TypeOK
<1>3. row \in Row
  BY <1>1, <1>2 DEF Row
<1>4. Claimed(w) = [queue EXCEPT ![e] = row]
  BY <1>1, <1>2 DEF Claimed, Row
<1> QED
  BY <1>1, <1>2, <1>3, <1>4

\* A worker that claims, or has claimed, has a job in hand: without it the
\* statements of consumeOne would have no row to name.
HasJob == \A w \in Workers : pc[w] \in Executing \cup {"claiming"} => job[w] \in Job

TypeInv == TypeOK /\ HasJob

LEMMA TypeInit == Init => TypeInv
BY ConstantsAssumption DEF Init, TypeInv, TypeOK, HasJob, Row, NoRow, Places, Executing

LEMMA TypeRun ==
  ASSUME TypeInv, NEW w \in Workers, Run(w)
  PROVE  TypeInv'
<1> USE DEF TypeInv, HasJob
<1>1. CASE Start(w)
  BY <1>1 DEF TypeOK, Start, Goto, Executing, Places, store
<1>2. CASE LeaveLoop(w)
  BY <1>2 DEF TypeOK, LeaveLoop, Goto, Executing, Places, store
<1>3. CASE SelectBatch(w)
  BY <1>3 DEF TypeOK, SelectBatch, OldestBatches, Goto, Executing, Places, store
<1>4. ASSUME NEW e \in Events, CopyEvent(w, e) PROVE TypeInv'
  <2>1. queue' \in [Events -> Row]
    BY <1>4, InsertedType DEF CopyEvent
  <2> QED
    BY <1>4, <2>1 DEF TypeOK, CopyEvent
<1>5. ASSUME NEW e \in Events, CopyThrows(w, e) PROVE TypeInv'
  BY <1>5 DEF TypeOK, CopyThrows, EndTransfer, Goto, Executing, Places, store
<1>6. CASE CommitTransfer(w)
  BY <1>6 DEF TypeOK, CommitTransfer, Published, EndTransfer, Goto, Executing, Places
<1>7. CASE SelectJob(w)
  BY <1>7 DEF TypeOK, SelectJob, Candidates, Goto, Executing, Places, store, Job, Row
<1>8. CASE NoJobToClaim(w)
  BY <1>8 DEF TypeOK, NoJobToClaim, Goto, Executing, Places, store
<1>9. CASE CommitClaim(w)
  <2>1. queue' \in [Events -> Row]
    BY <1>9, ClaimedType DEF CommitClaim
  <2> QED
    BY <1>9, <2>1 DEF TypeOK, CommitClaim, Goto, Executing, Places
<1>10. CASE HandlerReturns(w)
  BY <1>10 DEF TypeOK, HandlerReturns, Goto, Executing, Places, Job, store
<1>11. CASE HandlerThrows(w)
  BY <1>11 DEF TypeOK, HandlerThrows, Goto, Executing, Places, store
<1>12. CASE Ack(w)
  <2>1. queue' \in [Events -> Row]
    BY <1>12, SettledType DEF Ack, Settle, Job, Executing
  <2> QED
    BY <1>12, <2>1 DEF TypeOK, Ack, Forget, Goto, Executing, Places
<1>13. CASE Reschedule(w)
  <2>1. queue' \in [Events -> Row]
    BY <1>13, SettledType DEF Reschedule, Settle, Job, Executing
  <2> QED
    BY <1>13, <2>1 DEF TypeOK, Reschedule, Forget, Goto, Executing, Places
<1>14. CASE DeadLetter(w)
  <2>1. queue' \in [Events -> Row]
    BY <1>14, SettledType DEF DeadLetter, Settle, Job, Executing
  <2> QED
    BY <1>14, <2>1 DEF TypeOK, DeadLetter, Forget, Goto, Executing, Places, Job
<1> QED
  BY <1>1, <1>2, <1>3, <1>4, <1>5, <1>6, <1>7, <1>8, <1>9, <1>10, <1>11, <1>12, <1>13, <1>14
  DEF Run, Transfer, Consume

LEMMA TypeMisfortune ==
  ASSUME TypeInv, NEW w \in Workers, Misfortune(w)
  PROVE  TypeInv'
<1> USE DEF TypeInv, HasJob
<1>1. CASE Stop(w)
  BY <1>1, FaultType DEF TypeOK, Stop, Executing, store
<1>2. CASE Crash(w)
  BY <1>2, FaultType DEF TypeOK, Crash, EndTransfer, Goto, Executing, Places, store
<1>3. CASE CommitTransferLost(w)
  BY <1>3, FaultType
  DEF TypeOK, CommitTransferLost, Published, EndTransfer, Goto, Executing, Places
<1>4. CASE TransferFails(w)
  BY <1>4, FaultType DEF TypeOK, TransferFails, EndTransfer, Goto, Executing, Places, store
<1>5. CASE ClaimFails(w)
  BY <1>5, FaultType DEF TypeOK, ClaimFails, Forget, Goto, Executing, Places, store
<1>6. CASE CommitClaimLost(w)
  <2>1. queue' \in [Events -> Row]
    BY <1>6, ClaimedType DEF CommitClaimLost
  <2> QED
    BY <1>6, <2>1, FaultType DEF TypeOK, CommitClaimLost, Forget, Goto, Executing, Places
<1>7. CASE AckLost(w)
  <2>1. late' \subseteq Statement
    BY <1>7 DEF AckLost, SendLate, TypeOK, Statement, Job, Executing
  <2> QED
    BY <1>7, <2>1, FaultType DEF TypeOK, AckLost, Goto, Executing, Places
<1>8. CASE RescheduleLost(w)
  <2>1. late' \subseteq Statement
    BY <1>8 DEF RescheduleLost, SendLate, TypeOK, Statement, Job, Executing
  <2> QED
    BY <1>8, <2>1, FaultType DEF TypeOK, RescheduleLost, Forget, Goto, Executing, Places
<1>9. CASE DeadLetterFails(w)
  BY <1>9, FaultType DEF TypeOK, DeadLetterFails, Forget, Goto, Executing, Places, store
<1> QED
  BY <1>1, <1>2, <1>3, <1>4, <1>5, <1>6, <1>7, <1>8, <1>9 DEF Misfortune

LEMMA TypeWorld ==
  ASSUME TypeInv,
         NEW e \in Events,
         CommitEvent(e) \/ BackoffElapses(e) \/ LeaseExpires(e)
  PROVE  TypeInv'
<1> USE DEF TypeInv, HasJob
<1>1. CASE CommitEvent(e)
  BY <1>1, ConstantsAssumption DEF TypeOK, CommitEvent, local
<1>2. CASE BackoffElapses(e)
  BY <1>2 DEF TypeOK, BackoffElapses, local, Row
<1>3. CASE LeaseExpires(e)
  BY <1>3 DEF TypeOK, LeaseExpires, local, Row
<1> QED
  BY <1>1, <1>2, <1>3

LEMMA TypeLate ==
  ASSUME TypeInv, NEW s \in late, LateStatement(s)
  PROVE  TypeInv'
<1>1. s.event \in Events /\ s.token \in Nat /\ s.status \in {"completed", "pending"}
  BY DEF TypeInv, TypeOK, Statement
<1>2. queue' \in [Events -> Row]
  BY <1>1, SettledType DEF TypeInv, LateStatement
<1> QED
  BY <1>2 DEF TypeInv, TypeOK, HasJob, LateStatement, local

\* Every variable keeps its type, and consumeOne never settles without a job.
THEOREM TypeCorrect == Spec => [](TypeOK /\ HasJob)
<1>1. TypeInv /\ [Next]_vars => TypeInv'
  <2> SUFFICES ASSUME TypeInv, [Next]_vars PROVE TypeInv'
    OBVIOUS
  <2>1. CASE UNCHANGED vars
    BY <2>1 DEF TypeInv, TypeOK, HasJob, vars, store, local
  <2> QED
    BY <2>1, TypeRun, TypeMisfortune, TypeWorld, TypeLate DEF Next
<1> QED
  BY <1>1, TypeInit, PTL DEF Spec, TypeInv
-----------------------------------------------------------------------------
(* What the three kinds of UPDATE and the INSERT do to the rows of the queue. *)

LEMMA SettledEffect ==
  ASSUME TypeOK, NEW e \in Queued, NEW token \in Nat,
         NEW status \in {"pending", "completed", "dead"},
         queue' = Settled(e, token, status)
  PROVE  /\ \A f \in Events : /\ queue'[f].token = queue[f].token
                              /\ queue'[f].attempts = queue[f].attempts
                              /\ f # e => queue'[f] = queue[f]
         /\ queue[e].token = token => queue'[e].status = status
         /\ queue[e].token # token => queue' = queue
         /\ Queued' = Queued
<1>1. e \in Events /\ queue[e] \in Row /\ queue[e].status # "absent"
  BY DEF TypeOK, Queued
<1>2. CASE queue[e].token # token
  BY <1>2 DEF Settled, Queued
<1>3. CASE queue[e].token = token
  <2>1. queue' = [queue EXCEPT ![e] = SettledRow(queue[e], status)]
    BY <1>3 DEF Settled
  <2>2. \A f \in Events : queue'[f] = IF f = e THEN SettledRow(queue[e], status) ELSE queue[f]
    BY <2>1 DEF TypeOK
  <2> QED
    BY <1>1, <1>3, <2>2, SettledRowFields DEF Queued
<1> QED
  BY <1>2, <1>3

LEMMA ClaimedEffect ==
  ASSUME TypeOK, NEW w \in Workers, job[w] \in Job, queue' = Claimed(w)
  PROVE  LET e == job[w].event IN
         /\ e \in Events
         /\ queue'[e].status = "running"
         /\ queue'[e].token = job[w].token
         /\ queue'[e].attempts = job[w].attempts
         /\ \A f \in Events : f # e => queue'[f] = queue[f]
BY DEF TypeOK, Claimed, Job, Row

LEMMA InsertedEffect ==
  ASSUME TypeOK, NEW e \in Events, queue' = Inserted(e)
  PROVE  /\ \A f \in Events : f # e => queue'[f] = queue[f]
         /\ e \in Queued => queue' = queue
         /\ e \notin Queued => queue'[e].status = "pending" /\ queue'[e].attempts = 0
                                                           /\ queue'[e].token = 0
         /\ Queued' = Queued \cup {e}
BY DEF TypeOK, Inserted, Queued, NoRow, Row


-----------------------------------------------------------------------------
(* Steps that leave both databases alone.                                  *)
LEMMA KeepQuiet ==
  ASSUME IInv, TypeOK', NEW w \in Workers,
         \/ Start(w) \/ LeaveLoop(w) \/ NoJobToClaim(w) \/ HandlerThrows(w) \/ Stop(w)
         \/ Crash(w) \/ TransferFails(w) \/ ClaimFails(w) \/ DeadLetterFails(w)
         \/ \E e \in Events : CopyThrows(w, e)
  PROVE  IInv'
<1> USE DEF IInv, TypeOK
<1>1. /\ UNCHANGED <<store, handled>>
      /\ \A v \in Workers \ {w} : /\ pc'[v] = pc[v] /\ job'[v] = job[v]
                                   /\ batch'[v] = batch[v] /\ todo'[v] = todo[v]
      /\ pc'[w] \in Executing => /\ pc[w] \in Executing /\ job'[w] = job[w]
                                 /\ pc'[w] \in {pc[w], "failing"}
      /\ pc'[w] = "claiming" => pc[w] = "claiming" /\ job'[w] = job[w]
      /\ \/ batch'[w] = {} /\ todo'[w] = {}
         \/ /\ batch'[w] = batch[w] /\ todo'[w] = todo[w]
            /\ pc'[w] = pc[w] \/ pc[w] # "copying"
  <2>1. CASE Start(w)
    BY <2>1 DEF Start, Goto, store, BatchInv, Executing
  <2>2. CASE LeaveLoop(w)
    BY <2>2 DEF LeaveLoop, Goto, store, BatchInv, Executing
  <2>3. CASE NoJobToClaim(w)
    BY <2>3 DEF NoJobToClaim, Goto, store, BatchInv, Executing
  <2>4. CASE HandlerThrows(w)
    BY <2>4 DEF HandlerThrows, Goto, store, BatchInv, Executing
  <2>5. CASE Stop(w)
    BY <2>5 DEF Stop, store, BatchInv, Executing
  <2>6. CASE Crash(w)
    BY <2>6 DEF Crash, EndTransfer, Goto, store, BatchInv, Executing
  <2>7. CASE TransferFails(w)
    BY <2>7 DEF TransferFails, EndTransfer, Goto, store, BatchInv, Executing
  <2>8. CASE ClaimFails(w)
    BY <2>8 DEF ClaimFails, Forget, Goto, store, BatchInv, Executing
  <2>9. CASE DeadLetterFails(w)
    BY <2>9 DEF DeadLetterFails, Forget, Goto, store, BatchInv, Executing
  <2>10. CASE \E e \in Events : CopyThrows(w, e)
    BY <2>10 DEF CopyThrows, EndTransfer, Goto, store, Executing
  <2> QED
    BY <2>1, <2>2, <2>3, <2>4, <2>5, <2>6, <2>7, <2>8, <2>9, <2>10
<1>2. BatchInv'
  BY <1>1 DEF BatchInv, Queued, store
<1>3. ClaimInv'
  BY <1>1 DEF ClaimInv, store
<1>4. HoldInv'
  BY <1>1 DEF HoldInv, Holds, Executing, store
<1>5. LateInv'
  BY <1>1 DEF LateInv, Holds, store
<1>6. NoEventLost' /\ RowInv' /\ LetterInv' /\ CompletedWasHandled'
  BY <1>1 DEF NoEventLost, RowInv, LetterInv, CompletedWasHandled, Queued, store
<1> QED
  BY <1>2, <1>3, <1>4, <1>5, <1>6

-----------------------------------------------------------------------------
(* transferOutbox                                                          *)
LEMMA KeepSelectBatch ==
  ASSUME IInv, TypeOK', NEW w \in Workers, SelectBatch(w)
  PROVE  IInv'
<1> USE DEF IInv, TypeOK
<1>1. /\ UNCHANGED <<store, job, handled>>
      /\ pc[w] = "cycle" /\ pc' = [pc EXCEPT ![w] = "copying"]
      /\ todo' = [todo EXCEPT ![w] = batch'[w]]
      /\ \A v \in Workers \ {w} : batch'[v] = batch[v]
      /\ \A e \in batch'[w] : outbox[e] # "none"
  BY DEF SelectBatch, OldestBatches, Goto
<1>2. BatchInv'
  BY <1>1 DEF BatchInv, Queued, store
<1>3. ClaimInv' /\ HoldInv' /\ LateInv'
  BY <1>1 DEF ClaimInv, HoldInv, LateInv, Holds, Executing, store
<1>4. NoEventLost' /\ RowInv' /\ LetterInv' /\ CompletedWasHandled'
  BY <1>1 DEF NoEventLost, RowInv, LetterInv, CompletedWasHandled, Queued, store
<1> QED
  BY <1>2, <1>3, <1>4

\* Marking the batch is safe because every row of it was copied before.
LEMMA KeepPublish ==
  ASSUME IInv, TypeOK', NEW w \in Workers, CommitTransfer(w) \/ CommitTransferLost(w)
  PROVE  IInv'
<1> USE DEF IInv, TypeOK
<1>1. /\ UNCHANGED <<queue, letters, late, job, handled>>
      /\ outbox' = Published(w)
      /\ pc[w] = "copying" /\ todo[w] = {}
      /\ \E place \in {"consume", "cycle"} : EndTransfer(w, place)
  BY DEF CommitTransfer, CommitTransferLost
<1>2. BatchInv'
  BY <1>1 DEF BatchInv, Queued, Published, EndTransfer, Goto
<1>3. NoEventLost'
  BY <1>1 DEF NoEventLost, BatchInv, Queued, Published
<1>4. ClaimInv' /\ HoldInv' /\ LateInv'
  BY <1>1 DEF ClaimInv, HoldInv, LateInv, Holds, Executing, EndTransfer, Goto
<1>5. RowInv' /\ LetterInv' /\ CompletedWasHandled'
  BY <1>1 DEF RowInv, LetterInv, CompletedWasHandled
<1> QED
  BY <1>2, <1>3, <1>4, <1>5

\* A second copy of an event leaves its row alone; a first copy is a new
\* pending row, on which no worker and no late statement can bear.
LEMMA KeepCopyEvent ==
  ASSUME IInv, TypeOK', NEW w \in Workers, NEW e \in Events, CopyEvent(w, e)
  PROVE  IInv'
<1> USE DEF IInv
<1>1. /\ UNCHANGED <<outbox, letters, late, pc, batch, job, handled>>
      /\ todo' = [todo EXCEPT ![w] = @ \ {e}]
      /\ e \in todo[w] /\ pc[w] = "copying" /\ e \in batch[w] /\ outbox[e] # "none"
  BY DEF CopyEvent, BatchInv
<1>2. /\ \A f \in Events : f # e => queue'[f] = queue[f]
      /\ e \in Queued => queue' = queue
      /\ e \notin Queued => queue'[e].status = "pending" /\ queue'[e].attempts = 0
                                                        /\ queue'[e].token = 0
      /\ Queued' = Queued \cup {e}
  BY InsertedEffect DEF CopyEvent
<1>3. BatchInv'
  BY <1>1, <1>2 DEF BatchInv, TypeOK
<1>4. NoEventLost'
  BY <1>1, <1>2 DEF NoEventLost
<1>5. CASE e \in Queued
  BY <1>1, <1>2, <1>3, <1>4, <1>5
  DEF RowInv, ClaimInv, HoldInv, LateInv, LetterInv, CompletedWasHandled, Holds
<1>6. CASE e \notin Queued
  <2>1. /\ queue[e].status = "absent"
        /\ e \notin letters
        /\ \A v \in Workers : pc[v] \in Executing \cup {"claiming"} => job[v].event # e
        /\ \A s \in late : s.event # e
    BY <1>6, ConstantsAssumption
    DEF Queued, LetterInv, ClaimInv, HoldInv, LateInv, RowInv, NoRow, TypeOK, Statement
  <2>2. RowInv'
    BY <1>1, <1>2, <1>6, ConstantsAssumption DEF RowInv
  <2>3. ClaimInv'
    BY <1>1, <1>2, <2>1 DEF ClaimInv, Job
  <2>4. HoldInv'
    BY <1>1, <1>2, <2>1 DEF HoldInv, Holds, Job
  <2>5. LateInv'
    BY <1>1, <1>2, <2>1 DEF LateInv, Holds, TypeOK, Statement
  <2>6. LetterInv' /\ CompletedWasHandled'
    BY <1>1, <1>2, <1>6, <2>1 DEF LetterInv, CompletedWasHandled
  <2> QED
    BY <1>3, <1>4, <2>2, <2>3, <2>4, <2>5, <2>6
<1> QED
  BY <1>5, <1>6

-----------------------------------------------------------------------------
(* consumeOne: the claim                                                   *)
LEMMA KeepSelectJob ==
  ASSUME IInv, TypeOK', NEW w \in Workers, SelectJob(w)
  PROVE  IInv'
<1> USE DEF IInv, TypeOK
<1>1. /\ UNCHANGED <<store, batch, todo, handled>>
      /\ pc[w] = "consume" /\ pc' = [pc EXCEPT ![w] = "claiming"]
  BY DEF SelectJob, Goto
<1>2. PICK e \in Events :
        /\ queue[e].status = "pending" /\ ~RowLocked(e)
        /\ job' = [job EXCEPT ![w] = [event    |-> e,
                                      attempts |-> queue[e].attempts + 1,
                                      token    |-> queue[e].token + 1]]
  BY DEF SelectJob, Candidates, Claimable
<1>3. job'[w] \in Job /\ job'[w].event = e
  BY <1>2 DEF Job, Row
<1>4. ClaimInv'
  BY <1>1, <1>2, <1>3 DEF ClaimInv, RowLocked, store
<1>5. HoldInv' /\ LateInv'
  BY <1>1, <1>2 DEF HoldInv, LateInv, Holds, Executing, store
<1>6. BatchInv' /\ NoEventLost' /\ RowInv' /\ LetterInv' /\ CompletedWasHandled'
  BY <1>1 DEF BatchInv, NoEventLost, RowInv, LetterInv, CompletedWasHandled, Queued, store
<1> QED
  BY <1>4, <1>5, <1>6

\* A claimed row was pending, so nobody held it; its new token outdates every
\* late statement.
LEMMA KeepClaim ==
  ASSUME IInv, TypeOK', NEW w \in Workers, CommitClaim(w) \/ CommitClaimLost(w)
  PROVE  IInv'
<1> USE DEF IInv
<1> DEFINE e == job[w].event
<1>1. /\ UNCHANGED <<outbox, letters, late, batch, todo, handled>>
      /\ pc[w] = "claiming"
      /\ \A v \in Workers \ {w} : pc'[v] = pc[v] /\ job'[v] = job[v]
      /\ \/ pc'[w] = "handling" /\ job'[w] = job[w]
         \/ pc'[w] = "cycle"
  BY DEF CommitClaim, CommitClaimLost, Goto, Forget, TypeOK
<1>2. /\ job[w] \in Job /\ e \in Events
      /\ queue[e].status = "pending"
      /\ job[w].token = queue[e].token + 1
      /\ job[w].attempts = queue[e].attempts + 1
      /\ queue[e].attempts \in Nat /\ queue[e].token \in Nat
      /\ \A v \in Workers \ {w} : pc[v] = "claiming" => job[v].event # e
  BY <1>1 DEF ClaimInv, Job, TypeOK, Row
<1>3. /\ queue'[e].status = "running"
      /\ queue'[e].token = job[w].token
      /\ queue'[e].attempts = job[w].attempts
      /\ \A f \in Events : f # e => queue'[f] = queue[f]
  BY <1>2, ClaimedEffect DEF CommitClaim, CommitClaimLost
<1>4. e \notin letters /\ \A v \in Workers : ~Holds(v, e)
  BY <1>2 DEF LetterInv, HoldInv, Holds
<1> HIDE DEF e
<1>5. Queued' = Queued
  BY <1>2, <1>3 DEF Queued
<1>6. BatchInv'
  BY <1>1, <1>5 DEF BatchInv
<1>7. NoEventLost'
  BY <1>1, <1>5 DEF NoEventLost
<1>8. RowInv'
  BY <1>2, <1>3, ConstantsAssumption DEF RowInv, TypeOK
<1>9. ClaimInv'
  BY <1>1, <1>2, <1>3 DEF ClaimInv, Job
<1>10. HoldInv'
  BY <1>1, <1>2, <1>3, <1>4 DEF HoldInv, Holds, Executing, Job, e
<1>11. LateInv'
  <2> SUFFICES ASSUME NEW s \in late
               PROVE  /\ 0 < s.token /\ s.token <= queue'[s.event].token
                      /\ s.status = "completed" => s.event \in handled
                      /\ s.status = "pending" => s.token < MaxAttempts
                      /\ s.status = "pending" /\ s.token = queue'[s.event].token =>
                           \A v \in Workers : ~Holds(v, s.event)'
    BY <1>1 DEF LateInv
  <2>1. s.event \in Events /\ s.token \in Nat
    BY DEF TypeOK, Statement
  <2>2. CASE s.event = e
    BY <1>1, <1>2, <1>3, <2>1, <2>2 DEF LateInv
  <2>3. CASE s.event # e
    BY <1>1, <1>3, <2>1, <2>3 DEF LateInv, Holds, Executing, e
  <2> QED
    BY <2>2, <2>3
<1>12. LetterInv'
  BY <1>1, <1>3, <1>4 DEF LetterInv
<1>13. CompletedWasHandled'
  BY <1>1, <1>3 DEF CompletedWasHandled
<1> QED
  BY <1>6, <1>7, <1>8, <1>9, <1>10, <1>11, <1>12, <1>13

-----------------------------------------------------------------------------
(* consumeOne: the handler and the settling statement                      *)
LEMMA KeepHandlerReturns ==
  ASSUME IInv, TypeOK', NEW w \in Workers, HandlerReturns(w)
  PROVE  IInv'
<1> USE DEF IInv, TypeOK
<1>1. /\ UNCHANGED <<store, batch, todo, job>>
      /\ pc[w] = "handling" /\ pc' = [pc EXCEPT ![w] = "acking"]
      /\ handled' = handled \cup {job[w].event}
  BY DEF HandlerReturns, Goto
<1>2. BatchInv' /\ NoEventLost' /\ RowInv' /\ ClaimInv' /\ LetterInv'
  BY <1>1 DEF BatchInv, NoEventLost, RowInv, ClaimInv, LetterInv, Queued, store
<1>3. HoldInv'
  BY <1>1 DEF HoldInv, Holds, Executing, store
<1>4. LateInv' /\ CompletedWasHandled'
  BY <1>1 DEF LateInv, CompletedWasHandled, Holds, Executing, store
<1> QED
  BY <1>2, <1>3, <1>4

\* What a settling statement of the job in hand does: it is never fenced off.
LEMMA SettleMatches ==
  ASSUME IInv, NEW w \in Workers, pc[w] \in {"acking", "failing"},
         NEW status \in {"pending", "completed", "dead"}, Settle(w, status)
  PROVE  LET e == job[w].event IN
         /\ e \in Queued /\ e \notin letters
         /\ ~RowLocked(e)
         /\ queue[e].token = job[w].token /\ queue[e].attempts = job[w].attempts
         /\ \A v \in Workers : Holds(v, e) => v = w
         /\ \A f \in Events : /\ queue'[f].token = queue[f].token
                              /\ queue'[f].attempts = queue[f].attempts
                              /\ f # e => queue'[f] = queue[f]
         /\ queue'[e].status = status
         /\ Queued' = Queued
<1> DEFINE e == job[w].event
<1>1. /\ e \in Queued /\ job[w].token \in Nat /\ e \notin letters
      /\ queue[e].token = job[w].token /\ queue[e].attempts = job[w].attempts
      /\ \A v \in Workers : Holds(v, e) => v = w
  BY DEF IInv, HoldInv, Executing, Job, Queued
<1>2. ~RowLocked(e) /\ queue' = Settled(e, job[w].token, status)
  BY DEF Settle
<1>3. TypeOK
  BY DEF IInv
<1> HIDE DEF e
<1>4. /\ \A f \in Events : /\ queue'[f].token = queue[f].token
                           /\ queue'[f].attempts = queue[f].attempts
                           /\ f # e => queue'[f] = queue[f]
      /\ queue[e].token = job[w].token => queue'[e].status = status
      /\ Queued' = Queued
  BY <1>1, <1>2, <1>3, SettledEffect
<1> QED
  BY <1>1, <1>2, <1>4 DEF e

\* The worker settles its job and lets go of it.
LEMMA KeepSettle ==
  ASSUME IInv, TypeOK', NEW w \in Workers, Ack(w) \/ Reschedule(w) \/ DeadLetter(w)
  PROVE  IInv'
<1> USE DEF IInv
<1> DEFINE e == job[w].event
<1>1. PICK status \in {"completed", "pending", "dead"} :
        /\ Settle(w, status)
        /\ status = "completed" => pc[w] = "acking"
        /\ status = "pending" => ~Exhausted(w)
        /\ status = "dead" => Exhausted(w)
        /\ letters' = IF status = "dead" THEN letters \cup {e} ELSE letters
  BY DEF Ack, Reschedule, DeadLetter
<1>2. /\ UNCHANGED <<outbox, late, batch, todo, handled>>
      /\ pc[w] \in {"acking", "failing"} /\ pc'[w] = "cycle"
      /\ \A v \in Workers \ {w} : pc'[v] = pc[v] /\ job'[v] = job[v]
  BY DEF Ack, Reschedule, DeadLetter, Forget, Goto, TypeOK
<1>3. /\ e \in Queued /\ e \notin letters /\ e \in Events
      /\ ~RowLocked(e)
      /\ queue[e].token = job[w].token /\ queue[e].attempts = job[w].attempts
      /\ \A v \in Workers : Holds(v, e) => v = w
      /\ \A f \in Events : /\ queue'[f].token = queue[f].token
                           /\ queue'[f].attempts = queue[f].attempts
                           /\ f # e => queue'[f] = queue[f]
      /\ queue'[e].status = status
      /\ Queued' = Queued
  BY <1>1, <1>2, SettleMatches DEF Queued
<1>4. /\ queue[e].attempts \in Nat /\ 0 < queue[e].attempts
      /\ queue[e].attempts <= MaxAttempts
      /\ status = "pending" => queue[e].attempts < MaxAttempts
      /\ status = "dead" => queue[e].attempts = MaxAttempts
      /\ status = "completed" => e \in handled
  <2>1. /\ queue[e].attempts \in Nat /\ 0 < queue[e].attempts
        /\ queue[e].attempts <= MaxAttempts
    BY <1>2, <1>3 DEF RowInv, HoldInv, Executing, TypeOK, Row
  <2>2. /\ status = "pending" => queue[e].attempts < MaxAttempts
        /\ status = "dead" => queue[e].attempts = MaxAttempts
    BY <1>1, <1>3, <2>1, ConstantsAssumption DEF Exhausted
  <2>3. status = "completed" => e \in handled
    BY <1>1 DEF HoldInv, Executing
  <2> QED
    BY <2>1, <2>2, <2>3
<1> HIDE DEF e
<1>5. BatchInv' /\ NoEventLost'
  BY <1>2, <1>3 DEF BatchInv, NoEventLost
<1>6. RowInv'
  BY <1>3, <1>4 DEF RowInv, Queued
<1>7. ClaimInv'
  BY <1>2, <1>3 DEF ClaimInv, Job, RowLocked
<1>8. HoldInv'
  BY <1>1, <1>2, <1>3 DEF HoldInv, Holds, Executing, Job, e
<1>9. LateInv'
  BY <1>2, <1>3 DEF LateInv, Holds, Executing, TypeOK, Statement
<1>10. LetterInv'
  BY <1>1, <1>3, <1>4 DEF LetterInv
<1>11. CompletedWasHandled'
  BY <1>2, <1>3, <1>4 DEF CompletedWasHandled
<1> QED
  BY <1>5, <1>6, <1>7, <1>8, <1>9, <1>10, <1>11

-----------------------------------------------------------------------------
(* Lost answers and late statements                                        *)

\* The lost statement names the current attempt. A lost reschedule leaves the
\* row without a holder; a lost acknowledgement was preceded by the handler.
LEMMA KeepLost ==
  ASSUME IInv, TypeOK', NEW w \in Workers, AckLost(w) \/ RescheduleLost(w)
  PROVE  IInv'
<1> USE DEF IInv
<1> DEFINE e == job[w].event
<1>1. PICK status \in {"completed", "pending"} :
        /\ late' = late \cup {[event |-> e, token |-> job[w].token, status |-> status]}
        /\ status = "completed" => pc[w] = "acking" /\ pc'[w] = "failing" /\ job'[w] = job[w]
        /\ status = "pending" => pc[w] = "failing" /\ pc'[w] = "cycle" /\ ~Exhausted(w)
  BY DEF AckLost, RescheduleLost, SendLate, Forget, Goto, TypeOK
<1>2. /\ UNCHANGED <<outbox, queue, letters, batch, todo, handled>>
      /\ \A v \in Workers \ {w} : pc'[v] = pc[v] /\ job'[v] = job[v]
  BY DEF AckLost, RescheduleLost, Forget, Goto, TypeOK
<1>3. /\ job[w] \in Job /\ e \in Events
      /\ queue[e].token = job[w].token /\ job[w].token = job[w].attempts
      /\ 0 < job[w].token /\ job[w].token \in Nat
      /\ pc[w] = "acking" => e \in handled
      /\ \A v \in Workers : Holds(v, e) => v = w
  BY <1>1 DEF HoldInv, RowInv, Executing, Job, TypeOK, Row
<1>4. BatchInv'
  BY <1>1, <1>2 DEF BatchInv, Queued
<1>5. ClaimInv'
  BY <1>1, <1>2 DEF ClaimInv
<1>6. HoldInv'
  BY <1>1, <1>2 DEF HoldInv, Holds, Executing
<1>7. LateInv'
  <2>1. ASSUME NEW s \in late
        PROVE  /\ 0 < s.token /\ s.token <= queue'[s.event].token
               /\ s.status = "completed" => s.event \in handled'
               /\ s.status = "pending" => s.token < MaxAttempts
               /\ s.status = "pending" /\ s.token = queue'[s.event].token =>
                    \A v \in Workers : ~Holds(v, s.event)'
    BY <1>1, <1>2 DEF LateInv, Holds, Executing
  <2>2. /\ status = "completed" => e \in handled
        /\ status = "pending" =>
             /\ job[w].token < MaxAttempts
             /\ \A v \in Workers : ~(pc'[v] \in Executing /\ job'[v].event = e)
    BY <1>1, <1>2, <1>3, ConstantsAssumption DEF Holds, Executing, Exhausted
  <2> QED
    BY <1>1, <1>2, <1>3, <2>1, <2>2 DEF LateInv, Holds
<1>8. NoEventLost' /\ RowInv' /\ LetterInv' /\ CompletedWasHandled'
  BY <1>2 DEF NoEventLost, RowInv, LetterInv, CompletedWasHandled, Queued
<1> QED
  BY <1>4, <1>5, <1>6, <1>7, <1>8

\* A late statement either is fenced off, or speaks of the current attempt: a
\* late acknowledgement is true, a late reschedule disturbs no holder.
LEMMA KeepLate ==
  ASSUME IInv, TypeOK', NEW s \in late, LateStatement(s)
  PROVE  IInv'
<1> USE DEF IInv
<1> DEFINE e == s.event
<1>1. /\ UNCHANGED <<outbox, letters, pc, batch, todo, job, handled>>
      /\ late' = late \ {s}
      /\ queue' = Settled(e, s.token, s.status)
      /\ ~RowLocked(e)
  BY DEF LateStatement, local
<1>2. /\ e \in Events /\ s.token \in Nat /\ s.status \in {"completed", "pending"}
      /\ 0 < s.token /\ s.token <= queue[e].token
      /\ s.status = "completed" => e \in handled
      /\ s.status = "pending" => s.token < MaxAttempts
      /\ s.status = "pending" /\ s.token = queue[e].token => \A w \in Workers : ~Holds(w, e)
  BY DEF LateInv, TypeOK, Statement
<1>3. e \in Queued
  BY <1>2 DEF Queued, RowInv, NoRow
<1> HIDE DEF e
<1>4. /\ \A f \in Events : /\ queue'[f].token = queue[f].token
                           /\ queue'[f].attempts = queue[f].attempts
                           /\ f # e => queue'[f] = queue[f]
      /\ queue[e].token = s.token => queue'[e].status = s.status
      /\ queue[e].token # s.token => queue' = queue
      /\ Queued' = Queued
  BY <1>1, <1>2, <1>3, SettledEffect
<1>5. BatchInv' /\ NoEventLost'
  BY <1>1, <1>4 DEF BatchInv, NoEventLost
<1>6. RowInv'
  BY <1>2, <1>3, <1>4 DEF RowInv, Queued
<1>7. ClaimInv'
  BY <1>1, <1>4 DEF ClaimInv, Job, RowLocked
<1>8. HoldInv'
  BY <1>1, <1>2, <1>4 DEF HoldInv, Holds, Executing, Job
<1>9. LateInv'
  BY <1>1, <1>4 DEF LateInv, Holds, TypeOK, Statement
<1>10. LetterInv'
  BY <1>1, <1>2, <1>4 DEF LetterInv, RowInv, TypeOK, Row
<1>11. CompletedWasHandled'
  BY <1>1, <1>2, <1>4 DEF CompletedWasHandled
<1> QED
  BY <1>5, <1>6, <1>7, <1>8, <1>9, <1>10, <1>11

\* Time alone changes neither the status nor the attempt of a row.
LEMMA TimeEffect ==
  ASSUME TypeOK, NEW f \in Events, BackoffElapses(f) \/ LeaseExpires(f)
  PROVE  \A e \in Events : /\ queue'[e].status = queue[e].status
                           /\ queue'[e].token = queue[e].token
                           /\ queue'[e].attempts = queue[e].attempts
BY DEF BackoffElapses, LeaseExpires, TypeOK, Row

LEMMA KeepWorld ==
  ASSUME IInv, TypeOK', NEW e \in Events,
         CommitEvent(e) \/ BackoffElapses(e) \/ LeaseExpires(e)
  PROVE  IInv'
<1> USE DEF IInv, TypeOK
<1>1. CASE CommitEvent(e)
  BY <1>1 DEF CommitEvent, local, BatchInv, NoEventLost, RowInv, ClaimInv, HoldInv,
              LateInv, LetterInv, CompletedWasHandled, Queued, Holds
<1>2. CASE BackoffElapses(e) \/ LeaseExpires(e)
  <2>1. /\ UNCHANGED <<outbox, letters, late, pc, batch, todo, job, handled>>
        /\ \A f \in Events : /\ queue'[f].status = queue[f].status
                             /\ queue'[f].token = queue[f].token
                             /\ queue'[f].attempts = queue[f].attempts
                             /\ queue[f].status = "absent" => queue'[f] = queue[f]
    BY <1>2 DEF BackoffElapses, LeaseExpires, local, RowInv, NoRow, Row
  <2>2. Queued' = Queued
    BY <2>1 DEF Queued
  <2>3. BatchInv' /\ NoEventLost' /\ RowInv' /\ LetterInv' /\ CompletedWasHandled'
    BY <2>1, <2>2 DEF BatchInv, NoEventLost, RowInv, LetterInv, CompletedWasHandled
  <2>4. ClaimInv' /\ HoldInv' /\ LateInv'
    BY <2>1 DEF ClaimInv, HoldInv, LateInv, Holds, Executing, Job, Statement
  <2> QED
    BY <2>2, <2>3, <2>4
<1> QED
  BY <1>1, <1>2

-----------------------------------------------------------------------------
LEMMA InvInit == Init => IInv
BY TypeInit, ConstantsAssumption
DEF TypeInv, Init, IInv, BatchInv, NoEventLost, RowInv, ClaimInv, HoldInv, LateInv,
    LetterInv, CompletedWasHandled, Queued, NoRow, Executing

LEMMA InvNext ==
  ASSUME IInv, [Next]_vars
  PROVE  IInv'
<1>1. TypeInv
  BY DEF IInv, TypeInv, HasJob, ClaimInv, HoldInv
<1>2. CASE UNCHANGED vars
  BY <1>2 DEF vars, store, local, IInv, TypeOK, BatchInv, NoEventLost, RowInv, ClaimInv,
              HoldInv, LateInv, LetterInv, CompletedWasHandled, Queued, Holds
<1>3. ASSUME NEW w \in Workers, Run(w) PROVE IInv'
  <2>1. TypeOK'
    BY <1>1, <1>3, TypeRun DEF TypeInv
  <2> QED
    BY <1>3, <2>1, KeepQuiet, KeepSelectBatch, KeepPublish, KeepCopyEvent, KeepSelectJob,
       KeepClaim, KeepHandlerReturns, KeepSettle
    DEF Run, Transfer, Consume
<1>4. ASSUME NEW w \in Workers, Misfortune(w) PROVE IInv'
  <2>1. TypeOK'
    BY <1>1, <1>4, TypeMisfortune DEF TypeInv
  <2> QED
    BY <1>4, <2>1, KeepQuiet, KeepPublish, KeepClaim, KeepLost DEF Misfortune
<1>5. ASSUME NEW e \in Events, CommitEvent(e) \/ BackoffElapses(e) \/ LeaseExpires(e)
      PROVE  IInv'
  BY <1>1, <1>5, TypeWorld, KeepWorld DEF TypeInv
<1>6. ASSUME NEW s \in late, LateStatement(s) PROVE IInv'
  BY <1>1, <1>6, TypeLate, KeepLate DEF TypeInv
<1> QED
  BY <1>2, <1>3, <1>4, <1>5, <1>6 DEF Next

\* The inductive invariant holds in every reachable state.
THEOREM Invariant == Spec => []IInv
<1>1. IInv /\ [Next]_vars => IInv'
  BY InvNext
<1> QED
  BY <1>1, InvInit, PTL DEF Spec

-----------------------------------------------------------------------------
(* The properties, each from the invariant                                 *)

\* No committed event is lost between the two databases, and no job exists
\* without its committed event.
THEOREM NoEventIsLost == Spec => []NoEventLost
<1>1. IInv => NoEventLost
  BY DEF IInv
<1> QED
  BY <1>1, Invariant, PTL

\* At most one worker runs a job at any time.
THEOREM OneExecutor == Spec => []SingleExecutor
<1>1. IInv => SingleExecutor
  BY DEF IInv, HoldInv, SingleExecutor, Holds
<1> QED
  BY <1>1, Invariant, PTL

\* The job in hand is the row's current attempt.
THEOREM HoldersAreCurrent == Spec => []HolderIsCurrent
<1>1. IInv => HolderIsCurrent
  BY DEF IInv, HoldInv, HolderIsCurrent, Holds
<1> QED
  BY <1>1, Invariant, PTL

\* A dead letter is final.
THEOREM DeadLettersAreFinal == Spec => []DeadLetterFinal
<1>1. IInv => DeadLetterFinal
  BY DEF IInv, HoldInv, LetterInv, DeadLetterFinal, Holds
<1> QED
  BY <1>1, Invariant, PTL

\* No statement of an older attempt settles the attempt that a worker runs.
THEOREM OwnersSettle == Spec => OnlyOwnerSettles
<1> DEFINE Act == \A w \in Workers, e \in Events :
       Holds(w, e) /\ queue'[e].status # queue[e].status =>
         \/ pc'[w] # pc[w]
         \/ \E s \in late \ late' : s.event = e /\ s.token = job[w].token
<1>1. IInv /\ [Next]_vars => [Act]_vars
  <2> SUFFICES ASSUME IInv, [Next]_vars,
                      NEW w \in Workers, NEW e \in Events, Holds(w, e),
                      queue'[e].status # queue[e].status, pc'[w] = pc[w]
               PROVE  \E s \in late \ late' : s.event = e /\ s.token = job[w].token
    OBVIOUS
  <2> USE DEF IInv
  <2>1. /\ job[w].event = e /\ e \in Queued /\ queue[e].status # "pending"
        /\ queue[e].token = job[w].token
        /\ \A v \in Workers : Holds(v, e) => v = w
    BY DEF Holds, HoldInv, Queued
  <2>2. queue' # queue
    OBVIOUS
  <2>3. CASE \E s \in late : LateStatement(s)
    <3>1. PICK s \in late : LateStatement(s)
      BY <2>3
    <3>2. s.event \in Events /\ queue' = Settled(s.event, s.token, s.status) /\ late' = late \ {s}
      BY <3>1 DEF LateStatement, TypeOK, Statement
    <3>3. s.event = e /\ s.token = queue[e].token
      BY <3>2 DEF Settled
    <3> QED
      BY <2>1, <3>2, <3>3
  <2>4. ASSUME NEW v \in Workers, Run(v) \/ Misfortune(v) PROVE FALSE
    <3>1. CASE CommitClaim(v) \/ CommitClaimLost(v)
      <4>1. job[v] \in Job /\ queue[job[v].event].status = "pending" /\ queue' = Claimed(v)
        BY <3>1 DEF CommitClaim, CommitClaimLost, ClaimInv
      <4>2. \A f \in Events : f # job[v].event => queue'[f] = queue[f]
        BY <4>1, ClaimedEffect
      <4> QED
        BY <2>1, <4>1, <4>2
    <3>2. CASE Ack(v) \/ Reschedule(v) \/ DeadLetter(v)
      <4>1. /\ pc[v] \in {"acking", "failing"} /\ pc'[v] = "cycle"
            /\ \E status \in {"pending", "completed", "dead"} : Settle(v, status)
        BY <3>2 DEF Ack, Reschedule, DeadLetter, Forget, Goto, TypeOK
      <4>2. \A f \in Events : f # job[v].event => queue'[f] = queue[f]
        BY <4>1, SettleMatches
      <4>3. Holds(v, e)
        BY <4>1, <4>2 DEF Holds, Executing
      <4> QED
        BY <2>1, <4>1, <4>3
    <3>3. CASE \E f \in Events : CopyEvent(v, f)
      <4>1. PICK f \in Events : queue' = Inserted(f)
        BY <3>3 DEF CopyEvent
      <4> QED
        BY <2>1, <4>1, InsertedEffect
    <3>4. CASE UNCHANGED queue
      BY <2>2, <3>4
    <3> QED
      BY <2>4, <3>1, <3>2, <3>3, <3>4
      DEF Run, Transfer, Consume, Misfortune, Start, LeaveLoop, SelectBatch, CopyThrows,
          CommitTransfer, SelectJob, NoJobToClaim, HandlerReturns, HandlerThrows, Stop, Crash,
          CommitTransferLost, TransferFails, ClaimFails, AckLost, RescheduleLost,
          DeadLetterFails, store
  <2>5. ASSUME NEW f \in Events, CommitEvent(f) \/ BackoffElapses(f) \/ LeaseExpires(f)
        PROVE  FALSE
    <3>1. CASE CommitEvent(f)
      BY <2>2, <3>1 DEF CommitEvent
    <3>2. CASE BackoffElapses(f) \/ LeaseExpires(f)
      BY <3>2, TimeEffect
    <3> QED
      BY <2>5, <3>1, <3>2
  <2>6. CASE UNCHANGED vars
    BY <2>2, <2>6 DEF vars, store
  <2> QED
    BY <2>3, <2>4, <2>5, <2>6 DEF Next
<1> QED
  BY <1>1, Invariant, PTL DEF Spec, OnlyOwnerSettles

-----------------------------------------------------------------------------
(* Refinement: the outbox, the queue and the workers, with crashes, lost      *)
(* answers and late statements, implement at-least-once delivery.             *)

\* The abstract state that a state of the workers stands for.
Committed == {e \in Events : outbox[e] # "none"}
Attempts  == [e \in Events |-> queue[e].attempts]
Running   == {e \in Events : \E w \in Workers : Holds(w, e)}
Outcome   == [e \in Events |->
                IF queue[e].status \in {"completed", "dead"} THEN queue[e].status ELSE "open"]

AbstractStep == [Delivery!Next]_(Delivery!vars)

\* A step stutters when it changes none of what the abstraction shows.
LEMMA Stutter ==
  ASSUME UNCHANGED <<Committed, Attempts, Running, handled, Outcome>>
  PROVE  AbstractStep
BY DEF AbstractStep, Delivery!vars, Committed, Attempts, Running, Outcome

\* A step that ends or records an attempt is the abstract Conclude.
LEMMA Concludes ==
  ASSUME NEW e \in Events,
         Attempts[e] > 0,
         UNCHANGED <<Committed, Attempts, handled>>,
         NEW o \in Delivery!Outcomes, Delivery!May(e, o),
         Outcome' = [Outcome EXCEPT ![e] = o],
         Running' \in {Running, Running \ {e}}
  PROVE  AbstractStep
<1>1. Delivery!Conclude(e)
  BY DEF Delivery!Conclude, Committed, Attempts, Running, Outcome
<1> QED
  BY <1>1 DEF AbstractStep, Delivery!Next

\* The queue shows its attempts and outcomes through the fields of its rows.
LEMMA SameQueue ==
  ASSUME \A e \in Events : /\ queue'[e].status = queue[e].status
                           /\ queue'[e].attempts = queue[e].attempts
  PROVE  UNCHANGED <<Attempts, Outcome>>
BY DEF Attempts, Outcome

LEMMA SameHolders ==
  ASSUME TypeOK, TypeOK', NEW w \in Workers,
         \A v \in Workers \ {w} : pc'[v] = pc[v] /\ job'[v] = job[v],
         \A e \in Events : Holds(w, e)' <=> Holds(w, e)
  PROVE  UNCHANGED Running
BY DEF Running, Holds

\* When the only holder of e lets go of it, e is no longer executing.
LEMMA LetsGo ==
  ASSUME IInv, NEW w \in Workers, pc[w] \in Executing, pc'[w] \notin Executing,
         \A v \in Workers \ {w} : pc'[v] = pc[v] /\ job'[v] = job[v]
  PROVE  /\ job[w].event \in Events
         /\ Running' = Running \ {job[w].event}
<1>1. /\ job[w].event \in Events
      /\ \A v \in Workers : Holds(v, job[w].event) => v = w
  BY DEF IInv, HoldInv, Job
<1>2. ASSUME NEW e \in Events PROVE e \in Running' <=> e \in Running \ {job[w].event}
  <2>1. CASE e = job[w].event
    BY <1>1, <2>1 DEF Running, Holds
  <2>2. CASE e # job[w].event
    BY <1>1, <2>2 DEF Running, Holds
  <2> QED
    BY <2>1, <2>2
<1> QED
  BY <1>1, <1>2 DEF Running

\* What the invariant says of a job in hand: its attempt is the row's, and the
\* outcome on record may stay as it is.
LEMMA InHand ==
  ASSUME IInv, NEW w \in Workers, pc[w] \in Executing
  PROVE  LET e == job[w].event IN
         /\ e \in Events /\ Attempts[e] = job[w].attempts /\ Attempts[e] > 0
         /\ Outcome[e] \in Delivery!Outcomes
         /\ Delivery!May(e, Outcome[e])
<1> DEFINE e == job[w].event
<1>1. /\ e \in Events /\ queue[e].status \in {"running", "completed"}
      /\ queue[e].attempts = job[w].attempts
      /\ queue[e].attempts > 0
      /\ queue[e].status = "completed" => e \in handled
  BY DEF IInv, HoldInv, RowInv, Job, CompletedWasHandled
<1> QED
  BY <1>1 DEF Attempts, Outcome, Delivery!Outcomes, Delivery!May

-----------------------------------------------------------------------------
LEMMA QuietImplements ==
  ASSUME IInv, IInv', NEW w \in Workers,
         \/ Start(w) \/ Stop(w) \/ LeaveLoop(w) \/ SelectBatch(w) \/ CommitTransfer(w)
         \/ CommitTransferLost(w) \/ TransferFails(w) \/ SelectJob(w) \/ NoJobToClaim(w)
         \/ ClaimFails(w) \/ HandlerThrows(w) \/ AckLost(w)
         \/ \E e \in Events : CopyThrows(w, e)
  PROVE  AbstractStep
<1> USE DEF IInv, TypeOK
<1>1. /\ UNCHANGED <<queue, handled>>
      /\ \A v \in Workers \ {w} : pc'[v] = pc[v] /\ job'[v] = job[v]
      /\ pc[w] \in Executing => pc'[w] \in Executing /\ job'[w] = job[w]
      /\ pc'[w] \in Executing => pc[w] \in Executing
      /\ \A e \in Events : outbox'[e] = "none" <=> outbox[e] = "none"
  <2>1. CASE Start(w) \/ Stop(w) \/ LeaveLoop(w) \/ SelectBatch(w) \/ NoJobToClaim(w)
    BY <2>1 DEF Start, Stop, LeaveLoop, SelectBatch, NoJobToClaim, Goto, Executing, store
  <2>2. CASE CommitTransfer(w) \/ CommitTransferLost(w)
    BY <2>2 DEF CommitTransfer, CommitTransferLost, EndTransfer, Published, Goto,
                Executing, BatchInv
  <2>3. CASE TransferFails(w) \/ \E e \in Events : CopyThrows(w, e)
    BY <2>3 DEF TransferFails, CopyThrows, EndTransfer, Goto, Executing, store
  <2>4. CASE SelectJob(w) \/ ClaimFails(w) \/ HandlerThrows(w) \/ AckLost(w)
    BY <2>4 DEF SelectJob, ClaimFails, HandlerThrows, AckLost, Forget, Goto, Executing, store
  <2> QED
    BY <2>1, <2>2, <2>3, <2>4
<1>2. UNCHANGED Running
  BY <1>1, SameHolders DEF Holds
<1>3. UNCHANGED <<Committed, Attempts, Outcome>>
  BY <1>1 DEF Committed, Attempts, Outcome
<1> QED
  BY <1>1, <1>2, <1>3, Stutter

LEMMA CopyImplements ==
  ASSUME IInv, IInv', NEW w \in Workers, NEW e \in Events, CopyEvent(w, e)
  PROVE  AbstractStep
<1>1. UNCHANGED <<Attempts, Outcome>>
  <2>1. \A f \in Events : f # e => queue'[f] = queue[f]
    BY InsertedEffect DEF CopyEvent, IInv
  <2>2. CASE e \in Queued
    BY <2>2, InsertedEffect DEF CopyEvent, IInv, Attempts, Outcome
  <2>3. CASE e \notin Queued
    <3>1. queue'[e].status = "pending" /\ queue'[e].attempts = 0
      BY <2>3, InsertedEffect DEF CopyEvent, IInv
    <3>2. queue[e].status = "absent" /\ queue[e].attempts = 0
      BY <2>3 DEF IInv, RowInv, NoRow, Queued
    <3> QED
      BY <2>1, <3>1, <3>2 DEF Attempts, Outcome
  <2> QED
    BY <2>2, <2>3
<1>2. UNCHANGED <<Committed, Running, handled>>
  BY DEF CopyEvent, Committed, Running, Holds
<1> QED
  BY <1>1, <1>2, Stutter

\* A committed claim is a delivery, whether or not the worker learns of it.
LEMMA ClaimImplements ==
  ASSUME IInv, IInv', NEW w \in Workers, CommitClaim(w) \/ CommitClaimLost(w)
  PROVE  AbstractStep
<1>1. /\ pc[w] = "claiming" /\ queue' = Claimed(w) /\ UNCHANGED <<outbox, handled>>
      /\ \A v \in Workers \ {w} : pc'[v] = pc[v] /\ job'[v] = job[v]
      /\ \/ pc'[w] = "handling" /\ job'[w] = job[w]
         \/ pc'[w] = "cycle"
  BY DEF CommitClaim, CommitClaimLost, Goto, Forget, IInv, TypeOK
<1>2. PICK e \in Events :
      /\ job[w] \in Job /\ e = job[w].event /\ queue[e].status = "pending"
      /\ job[w].attempts = queue[e].attempts + 1 /\ queue[e].attempts < MaxAttempts
      /\ outbox[e] # "none"
      /\ \A v \in Workers : ~Holds(v, e)
  BY <1>1 DEF IInv, ClaimInv, Job, RowInv, NoEventLost, Queued, HoldInv, Holds
<1>3. /\ queue'[e].status = "running"
      /\ queue'[e].attempts = queue[e].attempts + 1
      /\ \A f \in Events : f # e => queue'[f] = queue[f]
  BY <1>1, <1>2, ClaimedEffect DEF IInv
<1>4. Attempts' = [Attempts EXCEPT ![e] = @ + 1] /\ UNCHANGED Outcome
  BY <1>2, <1>3 DEF Attempts, Outcome
<1>5. Running' \in {Running, Running \cup {e}}
  <2>1. CASE pc'[w] = "handling" /\ job'[w] = job[w]
    BY <1>1, <1>2, <2>1 DEF Running, Holds, Executing
  <2>2. CASE pc'[w] = "cycle"
    BY <1>1, <2>2 DEF Running, Holds, Executing
  <2> QED
    BY <1>1, <2>1, <2>2
<1>6. e \in Committed /\ e \notin Running /\ Outcome[e] = "open" /\ Attempts[e] < MaxAttempts
  BY <1>2 DEF Committed, Running, Outcome, Attempts
<1>7. UNCHANGED <<Committed, handled>>
  BY <1>1 DEF Committed
<1>8. Delivery!Deliver(e)
  BY <1>4, <1>5, <1>6, <1>7
  DEF Delivery!Deliver, Committed, Attempts, Running, Outcome
<1> QED
  BY <1>2, <1>8 DEF AbstractStep, Delivery!Next

LEMMA ReturnImplements ==
  ASSUME IInv, IInv', NEW w \in Workers, HandlerReturns(w)
  PROVE  AbstractStep
<1>1. /\ pc[w] = "handling" /\ pc' = [pc EXCEPT ![w] = "acking"]
      /\ handled' = handled \cup {job[w].event}
      /\ UNCHANGED <<outbox, queue, job>>
  BY DEF HandlerReturns, Goto, store
<1>2. job[w].event \in Events
  BY <1>1 DEF IInv, HoldInv, Executing, Job
<1>3. job[w].event \in Running
  BY <1>1, <1>2 DEF Running, Holds, Executing
<1>4. UNCHANGED Running
  BY <1>1, SameHolders DEF Holds, Executing, IInv, TypeOK
<1>5. UNCHANGED <<Committed, Attempts, Outcome>>
  BY <1>1 DEF Committed, Attempts, Outcome
<1>6. Delivery!Return(job[w].event)
  BY <1>1, <1>3, <1>4, <1>5 DEF Delivery!Return, Committed, Attempts, Running, Outcome
<1> QED
  BY <1>2, <1>6 DEF AbstractStep, Delivery!Next

LEMMA SettleImplements ==
  ASSUME IInv, IInv', NEW w \in Workers, Ack(w) \/ Reschedule(w) \/ DeadLetter(w)
  PROVE  AbstractStep
<1> DEFINE e == job[w].event
<1>1. PICK status \in {"completed", "pending", "dead"} :
        /\ Settle(w, status)
        /\ status = "completed" => pc[w] = "acking"
        /\ status = "pending" => ~Exhausted(w)
        /\ status = "dead" => Exhausted(w)
  BY DEF Ack, Reschedule, DeadLetter
<1>2. /\ UNCHANGED <<outbox, handled>>
      /\ pc[w] \in {"acking", "failing"} /\ pc'[w] = "cycle"
      /\ \A v \in Workers \ {w} : pc'[v] = pc[v] /\ job'[v] = job[v]
  BY DEF Ack, Reschedule, DeadLetter, Forget, Goto, IInv, TypeOK
<1>3. /\ \A f \in Events : /\ queue'[f].attempts = queue[f].attempts
                           /\ f # e => queue'[f] = queue[f]
      /\ queue'[e].status = status
  BY <1>1, <1>2, SettleMatches
<1>4. /\ e \in Events /\ Attempts[e] = job[w].attempts /\ Attempts[e] > 0
      /\ queue[e].attempts \in Nat /\ queue[e].attempts <= MaxAttempts
      /\ status = "completed" => e \in handled
  BY <1>1, <1>2, InHand DEF Executing, IInv, HoldInv, RowInv, TypeOK, Row
<1>5. Running' = Running \ {e}
  BY <1>2, LetsGo DEF Executing
<1> DEFINE o == IF status = "pending" THEN "open" ELSE status
<1>6. Delivery!May(e, o) /\ o \in Delivery!Outcomes
  <2>1. /\ Attempts[e] = queue[e].attempts
        /\ status = "pending" => Attempts[e] < MaxAttempts
        /\ status = "dead" => Attempts[e] = MaxAttempts
    BY <1>1, <1>4, ConstantsAssumption DEF Exhausted, Attempts
  <2> HIDE DEF e
  <2> QED
    BY <1>4, <2>1 DEF Delivery!May, Delivery!Outcomes, Attempts
<1> HIDE DEF e
<1>7. UNCHANGED <<Committed, Attempts, handled>> /\ Outcome' = [Outcome EXCEPT ![e] = o]
  BY <1>2, <1>3, <1>4 DEF Committed, Attempts, Outcome
<1> HIDE DEF o
<1> QED
  BY <1>4, <1>5, <1>6, <1>7, Concludes

\* The worker lets go of its job without settling it.
LEMMA AbandonImplements ==
  ASSUME IInv, IInv', NEW w \in Workers, Crash(w) \/ RescheduleLost(w) \/ DeadLetterFails(w)
  PROVE  AbstractStep
<1>1. /\ UNCHANGED <<outbox, queue, handled>>
      /\ pc'[w] \notin Executing
      /\ \A v \in Workers \ {w} : pc'[v] = pc[v] /\ job'[v] = job[v]
  BY DEF Crash, RescheduleLost, DeadLetterFails, Forget, EndTransfer, Goto, Executing,
         store, IInv, TypeOK
<1>2. UNCHANGED <<Committed, Attempts, Outcome, handled>>
  BY <1>1 DEF Committed, Attempts, Outcome
<1>3. CASE pc[w] \in Executing
  <2> DEFINE e == job[w].event
  <2>1. /\ e \in Events /\ Attempts[e] > 0
        /\ Outcome[e] \in Delivery!Outcomes /\ Delivery!May(e, Outcome[e])
        /\ Running' = Running \ {e}
    BY <1>1, <1>3, InHand, LetsGo
  <2> HIDE DEF e
  <2>2. Outcome' = [Outcome EXCEPT ![e] = Outcome[e]]
    BY <1>2, <2>1 DEF Outcome
  <2> QED
    BY <1>2, <2>1, <2>2, Concludes
<1>4. CASE pc[w] \notin Executing
  <2>1. UNCHANGED Running
    BY <1>1, <1>4 DEF Running, Holds
  <2> QED
    BY <1>2, <2>1, Stutter
<1> QED
  BY <1>3, <1>4

LEMMA LateImplements ==
  ASSUME IInv, IInv', NEW s \in late, LateStatement(s)
  PROVE  AbstractStep
<1> DEFINE e == s.event
<1>1. /\ UNCHANGED <<outbox, pc, job, handled>>
      /\ queue' = Settled(e, s.token, s.status)
  BY DEF LateStatement, local
<1>2. /\ e \in Events /\ s.token \in Nat /\ s.status \in {"completed", "pending"}
      /\ 0 < s.token /\ s.token <= queue[e].token
      /\ s.status = "completed" => e \in handled
      /\ s.status = "pending" => s.token < MaxAttempts
  BY DEF IInv, LateInv, TypeOK, Statement
<1>3. e \in Queued /\ queue[e].attempts = queue[e].token
  BY <1>2 DEF Queued, IInv, RowInv, NoRow
<1> HIDE DEF e
<1>4. UNCHANGED <<Committed, Running, handled>>
  BY <1>1 DEF Committed, Running, Holds
<1>5. CASE queue[e].token # s.token
  <2>1. queue' = queue
    BY <1>1, <1>5 DEF Settled
  <2> QED
    BY <1>4, <2>1, SameQueue, Stutter
<1>6. CASE queue[e].token = s.token
  <2> DEFINE o == IF s.status = "pending" THEN "open" ELSE s.status
  <2>1. /\ \A f \in Events : /\ queue'[f].attempts = queue[f].attempts
                             /\ f # e => queue'[f] = queue[f]
        /\ queue'[e].status = s.status
    BY <1>1, <1>2, <1>3, <1>6, SettledEffect DEF IInv
  <2>2. Delivery!May(e, o) /\ o \in Delivery!Outcomes /\ Attempts[e] > 0
    BY <1>2, <1>3, <1>6 DEF Delivery!May, Delivery!Outcomes, Attempts
  <2>3. UNCHANGED Attempts /\ Outcome' = [Outcome EXCEPT ![e] = o]
    BY <1>2, <2>1 DEF Attempts, Outcome
  <2> HIDE DEF o
  <2> QED
    BY <1>2, <1>4, <2>2, <2>3, Concludes
<1> QED
  BY <1>5, <1>6

LEMMA WorldImplements ==
  ASSUME IInv, IInv', NEW e \in Events,
         CommitEvent(e) \/ BackoffElapses(e) \/ LeaseExpires(e)
  PROVE  AbstractStep
<1>1. CASE CommitEvent(e)
  <2>1. UNCHANGED <<Attempts, Running, handled, Outcome>>
    BY <1>1 DEF CommitEvent, local, Attempts, Running, Holds, Outcome
  <2>2. e \notin Committed /\ Committed' = Committed \cup {e}
    BY <1>1 DEF CommitEvent, Committed, IInv, TypeOK
  <2>3. Delivery!Commit(e)
    BY <2>1, <2>2 DEF Delivery!Commit, Committed, Attempts, Running, Outcome
  <2> QED
    BY <2>3 DEF AbstractStep, Delivery!Next
<1>2. CASE BackoffElapses(e) \/ LeaseExpires(e)
  <2>1. UNCHANGED <<Attempts, Outcome>>
    BY <1>2, TimeEffect, SameQueue DEF IInv
  <2>2. UNCHANGED <<Committed, Running, handled>>
    BY <1>2 DEF BackoffElapses, LeaseExpires, local, Committed, Running, Holds
  <2> QED
    BY <2>1, <2>2, Stutter
<1> QED
  BY <1>1, <1>2

-----------------------------------------------------------------------------
\* The workers implement at-least-once delivery: an event is delivered only
\* after its business transaction committed, to one worker at a time and at most
\* MaxAttempts times, it is completed only if a handler returned and given up
\* only after the last attempt -- under every crash and lost answer.
THEOREM Implements == Spec => ImplementsDelivery
<1>1. Init => Delivery!Init
  BY DEF Init, Delivery!Init, NoRow, Holds, Executing
<1>2. IInv /\ IInv' /\ [Next]_vars => AbstractStep
  <2> SUFFICES ASSUME IInv, IInv', [Next]_vars PROVE AbstractStep
    OBVIOUS
  <2>1. CASE UNCHANGED vars
    BY <2>1, Stutter
    DEF vars, store, local, Committed, Attempts, Running, Holds, Outcome
  <2>2. ASSUME NEW w \in Workers, Run(w) \/ Misfortune(w) PROVE AbstractStep
    BY <2>2, QuietImplements, CopyImplements, ClaimImplements, ReturnImplements,
       SettleImplements, AbandonImplements
    DEF Run, Transfer, Consume, Misfortune
  <2> QED
    BY <2>1, <2>2, LateImplements, WorldImplements DEF Next
<1> QED
  BY <1>1, <1>2, Invariant, PTL DEF Spec, ImplementsDelivery, Delivery!Spec, AbstractStep
=============================================================================
