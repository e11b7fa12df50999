-------------------------- MODULE InvocationProofs --------------------------
(***************************************************************************)
(* Proofs about Invocation, for any calls, keys, inputs, number of slots   *)
(* and number of faults.                                                   *)
(***************************************************************************)
EXTENDS Invocation, TLAPS

USE InvocationAssumption DEF InvocationAssumption, Succeeded

\* The initial state satisfies the inductive invariant.
LEMMA InitInv == Init => IInv
BY DEF Init, IInv, TypeOK, RunInv, HandlerInv, CacheInv, PromiseInv, SuccessIsCommitted, RetriesAgree,
       Row, Reply, Outcomes, Handling

-----------------------------------------------------------------------------
(* Types                                                                   *)

\* A reply has the type of a reply.
LEMMA AnswerType ==
  ASSUME TypeOK, NEW c \in Calls, NEW st \in {"ok", "cached", "conflict", "failed"},
         NEW b \in Calls \cup {None}, Answer(c, st, b)
  PROVE  /\ pc' \in [Calls -> Handling \cup {"new", "done", "lost"}]
         /\ reply' \in [Calls -> Reply \cup {None}]
<1>1. [status |-> st, of |-> b] \in Reply
  BY DEF Reply
<1> QED
  BY <1>1 DEF Answer, TypeOK

LEMMA GotoType ==
  ASSUME TypeOK, NEW c \in Calls, NEW p \in Handling \cup {"lost"}, Goto(c, p)
  PROVE  /\ pc' \in [Calls -> Handling \cup {"new", "done", "lost"}]
         /\ reply' \in [Calls -> Reply \cup {None}]
BY DEF Goto, TypeOK

\* storeResponse() adds a row or none, and changes none.
LEMMA StoredEffect ==
  ASSUME TypeOK, NEW c \in Calls, HasKey(c), cache' = Stored(c)
  PROVE  /\ \A k \in Keys : cache[k] # None => cache'[k] = cache[k]
         /\ \A k \in Keys : cache[k] = None /\ cache'[k] # None =>
              k = KeyOf[c] /\ cache'[k] = [input |-> InputOf[c], of |-> c]
         /\ cache'[KeyOf[c]] # None
         /\ cache' \in [Keys -> Row \cup {None}]
<1>1. KeyOf[c] \in Keys /\ [input |-> InputOf[c], of |-> c] \in Row
  BY DEF HasKey, Row
<1> QED
  BY <1>1 DEF TypeOK, Stored

\* Steps of the Gateway's handler keep the types.
LEMMA GatewayTypes ==
  ASSUME IInv, NEW c \in Calls,
         Receive(c) \/ Handler(c) \/ GiveUp(c) \/ StatementFails(c) \/ GatewayLoses(c)
  PROVE  TypeOK'
<1>0. TypeOK /\ HandlerInv
  BY DEF IInv
<1> USE <1>0
<1> DEFINE PcReply == /\ pc' \in [Calls -> Handling \cup {"new", "done", "lost"}]
                      /\ reply' \in [Calls -> Reply \cup {None}]
<1>1. faults' \in 0 .. MaxFaults
  BY DEF TypeOK, Receive, Handler, Lookup, Fetch, AnswerArrives, Audit, Store, StoreRefused, ReplyResult,
         GiveUp, StatementFails, GatewayLoses, Fault, NoFault
<1>2. CASE Receive(c)
  <2>1. PcReply
    BY <1>2, GotoType DEF Receive, Handling
  <2> QED
    BY <1>1, <1>2, <2>1 DEF Receive, TypeOK, process
<1>3. CASE Lookup(c)
  <2>1. cache[KeyOf[c]] # None => cache[KeyOf[c]].of \in Calls
    BY <1>3 DEF Lookup, HandlerInv, HasKey, TypeOK, Row
  <2>2. PcReply
    BY <1>3, <2>1, GotoType, AnswerType DEF Lookup, LookupFailed, Handling
  <2> QED
    BY <1>1, <1>3, <2>2 DEF Lookup, TypeOK, process
<1>4. CASE Fetch(c)
  <2>1. PcReply
    BY <1>4, GotoType DEF Fetch, Handling
  <2> QED
    BY <1>1, <1>4, <2>1 DEF Fetch, TypeOK
<1>5. CASE AnswerArrives(c)
  <2>1. PcReply
    BY <1>5, GotoType DEF AnswerArrives, Handling
  <2> QED
    BY <1>1, <1>5, <2>1 DEF AnswerArrives, TypeOK, process
<1>6. CASE Audit(c)
  <2>1. PcReply
    BY <1>6, GotoType, AnswerType DEF Audit, Audited, Handling
  <2> QED
    BY <1>1, <1>6, <2>1 DEF Audit, TypeOK, process
<1>7. CASE Store(c)
  <2>1. PcReply
    BY <1>7, GotoType DEF Store, Handling
  <2>2. cache' \in [Keys -> Row \cup {None}]
    BY <1>7, StoredEffect DEF Store, HandlerInv
  <2> QED
    BY <1>1, <1>7, <2>1, <2>2 DEF Store, TypeOK, process
<1>8. CASE StoreRefused(c) \/ ReplyResult(c) \/ GiveUp(c) \/ StatementFails(c)
  <2>1. PcReply
    BY <1>8, AnswerType DEF StoreRefused, ReplyResult, GiveUp, StatementFails
  <2> QED
    BY <1>1, <1>8, <2>1
       DEF StoreRefused, ReplyResult, GiveUp, StatementFails, MaySendLate, TypeOK, process
<1>9. CASE GatewayLoses(c)
  <2>1. PcReply
    BY <1>9, GotoType DEF GatewayLoses
  <2> QED
    BY <1>1, <1>9, <2>1 DEF GatewayLoses, MaySendLate, TypeOK, process
<1> QED
  BY <1>2, <1>3, <1>4, <1>5, <1>6, <1>7, <1>8, <1>9 DEF Handler

\* So do those of the host and of the children.
LEMMA HostTypes ==
  ASSUME TypeOK, NEW c \in Calls,
         \/ Start(c) \/ SendCommit(c) \/ Return(c) \/ Throw(c) \/ Vanish(c)
         \/ EndTransaction(c) \/ MessageArrives(c) \/ Timeout(c) \/ HostRestarts
  PROVE  TypeOK'
<1> USE DEF TypeOK, Outcomes, gateway, process, NoFault, Fault
<1>1. CASE Start(c) \/ SendCommit(c) \/ EndTransaction(c)
  BY <1>1 DEF Start, SendCommit, EndTransaction
<1>2. CASE Return(c) \/ Throw(c) \/ Vanish(c)
  BY <1>2 DEF Return, Throw, Vanish, Send
<1>3. CASE MessageArrives(c) \/ Timeout(c)
  BY <1>3 DEF MessageArrives, Timeout, Resolve, TimedOut
<1>4. CASE HostRestarts
  BY <1>4 DEF HostRestarts
<1> QED
  BY <1>1, <1>2, <1>3, <1>4

-----------------------------------------------------------------------------
(* The Gateway's steps: only Receive promises, only Store adds a row       *)

Rest == RunInv /\ HandlerInv /\ CacheInv /\ PromiseInv /\ SuccessIsCommitted /\ RetriesAgree

\* An INSERT left on its way has a committed result to store.
LateIsTrue(c) == late' = late \/ (late' = late \cup {c} /\ HasKey(c) /\ c \in effects)

\* Moving on, without a reply and without touching the table.
LEMMA MoveStep ==
  ASSUME IInv, TypeOK', NEW c \in Calls, NEW p \in Handling \cup {"lost"}, Goto(c, p),
         cache' = cache, answer' = answer, sent' = sent, effects' = effects,
         LateIsTrue(c),
         child' = child, message' = message,
         pc[c] # "done",
         p = "lookup" => HasKey(c) /\ pc[c] = "new",
         p = "audit" => answer[c] # "none",
         p = "store" => HasKey(c) /\ answer[c] \in {"ok", "void"},
         p # "stored",
         p \in {"lookup", "connect", "fetch"} => host[c] = "none",
         \A d \in Calls \ {c} : host'[d] = host[d],
         p # "fetch" => host'[c] = host[c],
         p = "fetch" => host'[c] = "waiting",
         promised' \subseteq promised \cup {c},
         c \in promised' => HasKey(c) /\ cache[KeyOf[c]] # None /\ p \in {"lookup", "lost"} /\ host[c] = "none"
  PROVE  Rest'
<1> USE DEF IInv, TypeOK
<1>1. /\ pc'[c] = p /\ reply' = reply /\ reply[c] = None
      /\ \A d \in Calls \ {c} : pc'[d] = pc[d]
  BY DEF Goto, HandlerInv
<1>2. RunInv'
  BY <1>1 DEF RunInv, Handling
<1>3. HandlerInv'
  BY <1>1 DEF HandlerInv, HasKey
<1>4. CacheInv' /\ SuccessIsCommitted' /\ RetriesAgree'
  BY <1>1 DEF CacheInv, LateIsTrue, SuccessIsCommitted, RetriesAgree, HasKey
<1>5. PromiseInv'
  BY <1>1 DEF PromiseInv, HasKey
<1> QED
  BY <1>2, <1>3, <1>4, <1>5 DEF Rest

\* A reply, without touching the table.
LEMMA ReplyStep ==
  ASSUME IInv, TypeOK', NEW c \in Calls, NEW st \in {"ok", "cached", "conflict", "failed"},
         NEW b \in Calls \cup {None}, Answer(c, st, b),
         cache' = cache, answer' = answer, sent' = sent, effects' = effects,
         LateIsTrue(c),
         process' = process, promised' = promised,
         pc[c] \notin {"new", "done"},
         st = "ok" => b = c /\ c \in effects /\ (HasKey(c) => cache[KeyOf[c]] # None),
         st = "cached" => HasKey(c) /\ cache[KeyOf[c]] # None
                          /\ cache[KeyOf[c]].input = InputOf[c] /\ b = cache[KeyOf[c]].of
  PROVE  Rest'
<1> USE DEF IInv, TypeOK
<1>1. /\ pc'[c] = "done" /\ reply'[c] # None /\ reply'[c].status = st /\ reply'[c].of = b
      /\ \A d \in Calls \ {c} : pc'[d] = pc[d] /\ reply'[d] = reply[d]
      /\ host' = host /\ child' = child /\ message' = message
  BY DEF Answer, process
<1>2. RunInv'
  BY <1>1 DEF RunInv
<1>3. HandlerInv'
  BY <1>1 DEF HandlerInv, HasKey
<1>4. CacheInv'
  BY DEF CacheInv, LateIsTrue, HasKey
<1>5. SuccessIsCommitted'
  <2>1. st = "cached" => b \in effects /\ KeyOf[b] = KeyOf[c] /\ InputOf[b] = InputOf[c]
    BY DEF CacheInv, HasKey
  <2> QED
    BY <1>1, <2>1 DEF SuccessIsCommitted, HasKey
<1>6. RetriesAgree'
  <2>1. st = "cached" => cache[KeyOf[c]] = [input |-> InputOf[c], of |-> b]
    BY DEF HasKey, Row
  <2> QED
    BY <1>1, <2>1 DEF RetriesAgree
<1>7. PromiseInv'
  BY <1>1 DEF PromiseInv, HasKey
<1> QED
  BY <1>2, <1>3, <1>4, <1>5, <1>6, <1>7 DEF Rest

\* A new row, for a call that has a committed result, now or late.
LEMMA StoreStep ==
  ASSUME IInv, TypeOK', NEW c \in Calls, Store(c) \/ LateStore(c)
  PROVE  Rest'
<1> USE DEF IInv, TypeOK
<1>1. /\ reply' = reply /\ late' \subseteq late
      /\ \A d \in Calls \ {c} : pc'[d] = pc[d]
      /\ \/ pc[c] = "store" /\ pc'[c] = "stored" /\ reply[c] = None
         \/ pc'[c] = pc[c]
      /\ host' = host /\ child' = child /\ message' = message /\ answer' = answer
      /\ sent' = sent /\ effects' = effects /\ promised' = promised
  BY DEF Store, LateStore, Goto, process, HandlerInv
<1>2. HasKey(c) /\ KeyOf[c] \in Keys /\ c \in effects /\ cache' = Stored(c)
      /\ (pc[c] = "store" => answer[c] \in {"ok", "void"})
  BY DEF Store, LateStore, HandlerInv, HasKey, RunInv, CacheInv
<1>3. /\ \A k \in Keys : cache[k] # None => cache'[k] = cache[k]
      /\ \A k \in Keys : cache[k] = None /\ cache'[k] # None =>
           k = KeyOf[c] /\ cache'[k] = [input |-> InputOf[c], of |-> c]
      /\ cache'[KeyOf[c]] # None
  BY <1>2, StoredEffect
<1>4. RunInv'
  BY <1>1 DEF RunInv
<1>5. HandlerInv'
  BY <1>1, <1>2, <1>3 DEF HandlerInv, HasKey
<1>6. CacheInv'
  BY <1>1, <1>2, <1>3 DEF CacheInv, HasKey
<1>7. SuccessIsCommitted'
  BY <1>1 DEF SuccessIsCommitted, HasKey
<1>8. RetriesAgree'
  BY <1>1, <1>3 DEF RetriesAgree, HandlerInv, HasKey
<1>9. PromiseInv'
  BY <1>1, <1>3 DEF PromiseInv, HasKey
<1> QED
  BY <1>4, <1>5, <1>6, <1>7, <1>8, <1>9 DEF Rest

\* An INSERT on its way has a committed result to store.
LEMMA LateIsCommitted ==
  ASSUME IInv, NEW c \in Calls, MaySendLate(c)
  PROVE  LateIsTrue(c)
BY DEF MaySendLate, LateIsTrue, IInv, HandlerInv, RunInv

\* Every step of the Gateway's handler.
LEMMA GatewaySteps ==
  ASSUME IInv, NEW c \in Calls,
         Receive(c) \/ Handler(c) \/ GiveUp(c) \/ StatementFails(c) \/ GatewayLoses(c)
  PROVE  Rest'
<1>0. TypeOK'
  BY GatewayTypes
<1> USE DEF process
<1>late. late' = late => LateIsTrue(c)
  BY DEF LateIsTrue
<1>1. CASE Receive(c)
  <2> DEFINE p == IF HasKey(c) THEN "lookup" ELSE "connect"
  <2>1. c \notin promised /\ host[c] = "none"
    BY <1>1 DEF Receive, IInv, PromiseInv, RunInv
  <2>2. HasKey(c) /\ Answered(c) => cache[KeyOf[c]] # None
    BY DEF Answered, IInv, HandlerInv, HasKey
  <2>3. promised' = IF HasKey(c) /\ Answered(c) THEN promised \cup {c} ELSE promised
    BY <1>1 DEF Receive
  <2>4. pc[c] = "new" /\ Goto(c, p) /\ p \in Handling /\ host' = host /\ cache' = cache /\ late' = late
        /\ answer' = answer /\ sent' = sent /\ effects' = effects /\ child' = child /\ message' = message
    BY <1>1 DEF Receive, Handling
  <2> QED
    BY <1>0, <1>late, <2>1, <2>2, <2>3, <2>4, MoveStep
<1>2. CASE Lookup(c)
  <2>1. HasKey(c) /\ host[c] = "none" /\ pc[c] = "lookup"
    BY <1>2 DEF Lookup, IInv, HandlerInv, RunInv
  <2>2. cache[KeyOf[c]] # None => cache[KeyOf[c]].of \in Calls
    BY <2>1 DEF IInv, TypeOK, HasKey, Row
  <2>3. CASE cache[KeyOf[c]] = None /\ Goto(c, "connect")
    <3>1. c \notin promised
      BY <2>3 DEF IInv, PromiseInv
    <3> QED
      BY <1>0, <1>late, <1>2, <2>1, <2>3, <3>1, MoveStep DEF Lookup, Handling
  <2>4. CASE cache[KeyOf[c]] # None /\ cache[KeyOf[c]].input = InputOf[c]
             /\ Answer(c, "cached", cache[KeyOf[c]].of)
    BY <1>0, <1>late, <1>2, <2>1, <2>2, <2>4, ReplyStep DEF Lookup
  <2>5. CASE LookupFailed(c)
    BY <1>0, <1>late, <1>2, <2>1, <2>5, ReplyStep DEF Lookup, LookupFailed
  <2> QED
    BY <1>2, <2>3, <2>4, <2>5 DEF Lookup
<1>3. CASE Fetch(c)
  <2>1. pc[c] = "connect" /\ host[c] = "none" /\ c \notin promised
    BY <1>3 DEF Fetch, IInv, PromiseInv, RunInv
  <2>2. host'[c] = "waiting" /\ \A d \in Calls \ {c} : host'[d] = host[d]
    BY <1>3 DEF Fetch, IInv, TypeOK
  <2> QED
    BY <1>0, <1>late, <1>3, <2>1, <2>2, MoveStep DEF Fetch, Handling
<1>4. CASE AnswerArrives(c)
  <2>1. pc[c] = "fetch" /\ c \notin promised
    BY <1>4 DEF AnswerArrives, IInv, PromiseInv
  <2> QED
    BY <1>0, <1>late, <1>4, <2>1, MoveStep DEF AnswerArrives, Handling
<1>5. CASE Audit(c)
  <2>1. pc[c] = "audit" /\ c \notin promised /\ answer[c] # "none"
    BY <1>5 DEF Audit, IInv, PromiseInv, HandlerInv
  <2>2. answer[c] # "error" => answer[c] \in {"ok", "void"} /\ c \in effects
    BY <2>1 DEF IInv, TypeOK, Outcomes, RunInv
  <2>3. CASE answer[c] = "error"
    BY <1>0, <1>late, <1>5, <2>1, <2>3, ReplyStep DEF Audit, Audited
  <2>4. CASE answer[c] # "error" /\ HasKey(c)
    BY <1>0, <1>late, <1>5, <2>1, <2>2, <2>4, MoveStep DEF Audit, Audited, Handling
  <2>5. CASE answer[c] # "error" /\ ~HasKey(c)
    BY <1>0, <1>late, <1>5, <2>1, <2>2, <2>5, ReplyStep DEF Audit, Audited
  <2> QED
    BY <2>3, <2>4, <2>5
<1>6. CASE Store(c)
  BY <1>0, <1>6, StoreStep
<1>7. CASE ReplyResult(c)
  <2>1. pc[c] = "stored" /\ c \in effects /\ cache[KeyOf[c]] # None
    BY <1>7 DEF ReplyResult, IInv, HandlerInv, RunInv
  <2> QED
    BY <1>0, <1>late, <1>7, <2>1, ReplyStep DEF ReplyResult
<1>8. CASE StoreRefused(c) \/ GiveUp(c) \/ StatementFails(c)
  <2>1. StatementFails(c) => LateIsTrue(c)
    BY LateIsCommitted DEF StatementFails
  <2> QED
    BY <1>0, <1>late, <1>8, <2>1, ReplyStep DEF StoreRefused, GiveUp, StatementFails
<1>9. CASE GatewayLoses(c)
  <2>1. c \in promised => HasKey(c) /\ cache[KeyOf[c]] # None /\ host[c] = "none"
    BY DEF IInv, PromiseInv
  <2> QED
    BY <1>0, <1>late, <1>9, <2>1, LateIsCommitted, MoveStep DEF GatewayLoses, Handling
<1> QED
  BY <1>1, <1>2, <1>3, <1>4, <1>5, <1>6, <1>7, <1>8, <1>9 DEF Handler

-----------------------------------------------------------------------------
(* The steps of the host, the children and the application database        *)

\* They leave the Gateway alone, take no call that was not fetched, and send
\* no result that was not committed.
LEMMA HostSteps ==
  ASSUME IInv, NEW c \in Calls,
         \/ Start(c) \/ SendCommit(c) \/ Return(c) \/ Throw(c) \/ Vanish(c)
         \/ EndTransaction(c) \/ MessageArrives(c) \/ Timeout(c) \/ HostRestarts
  PROVE  Rest'
<1> USE DEF IInv, TypeOK, gateway, process
<1>1. /\ pc' = pc /\ reply' = reply /\ cache' = cache /\ late' = late /\ promised' = promised
      /\ effects \subseteq effects'
  BY DEF Start, SendCommit, Return, Throw, Vanish, Send, EndTransaction, MessageArrives, Timeout, Resolve,
         HostRestarts
<1>2. CacheInv' /\ SuccessIsCommitted' /\ RetriesAgree'
  BY <1>1 DEF CacheInv, SuccessIsCommitted, RetriesAgree, HasKey
<1>3. \A d \in Calls : host[d] = "none" <=> host'[d] = "none"
  BY DEF Start, SendCommit, Return, Throw, Vanish, Send, EndTransaction, MessageArrives, Timeout, Resolve,
         HostRestarts
<1>4. PromiseInv'
  BY <1>1, <1>3 DEF PromiseInv, HasKey
<1>5. RunInv' /\ \A d \in Calls : pc[d] \in {"audit", "store", "stored"} => answer'[d] = answer[d]
  <2>1. CASE Start(c) \/ SendCommit(c)
    BY <2>1 DEF Start, SendCommit, RunInv
  <2>2. CASE Return(c) \/ Throw(c) \/ Vanish(c)
    BY <2>2 DEF Return, Throw, Vanish, Send, RunInv
  <2>3. CASE EndTransaction(c)
    BY <2>3 DEF EndTransaction, RunInv
  <2>4. CASE MessageArrives(c) \/ Timeout(c)
    <3>1. host[c] = "running" /\ answer[c] = "none" /\ pc[c] \notin {"audit", "store", "stored"}
      BY <2>4 DEF MessageArrives, Timeout, RunInv, HandlerInv
    <3>2. RunInv'
      BY <1>1, <2>4, <3>1 DEF MessageArrives, Timeout, Resolve, TimedOut, RunInv
    <3> QED
      BY <2>4, <3>1, <3>2 DEF MessageArrives, Timeout, Resolve
  <2>5. CASE HostRestarts
    BY <2>5 DEF HostRestarts, RunInv
  <2> QED
    BY <2>1, <2>2, <2>3, <2>4, <2>5
<1>6. HandlerInv'
  BY <1>1, <1>5 DEF HandlerInv, HasKey
<1> QED
  BY <1>2, <1>4, <1>5, <1>6 DEF Rest

-----------------------------------------------------------------------------
(* The theorems                                                            *)

\* The inductive invariant holds in every reachable state.
THEOREM Invariant == Spec => []IInv
<1>1. IInv /\ [Next]_vars => IInv'
  <2> SUFFICES ASSUME IInv, [Next]_vars PROVE IInv'
    OBVIOUS
  <2>1. ASSUME Next PROVE TypeOK'
    <3>1. TypeOK
      BY DEF IInv
    <3>2. CASE HostRestarts
      BY <3>1, <3>2 DEF HostRestarts, TypeOK, gateway, Fault
    <3>3. ASSUME NEW c \in Calls, LateStore(c) PROVE TypeOK'
      <4>1. HasKey(c)
        BY <3>3 DEF LateStore, IInv, CacheInv
      <4>2. cache' \in [Keys -> Row \cup {None}]
        BY <3>1, <3>3, <4>1, StoredEffect DEF LateStore
      <4> QED
        BY <3>1, <3>3, <4>2 DEF LateStore, TypeOK, process, NoFault
    <3> QED
      BY <2>1, <3>1, <3>2, <3>3, GatewayTypes, HostTypes DEF Next
  <2>2. ASSUME Next PROVE Rest'
    <3>1. CASE HostRestarts
      <4>1. \E c \in Calls : TRUE
        BY <3>1 DEF HostRestarts, InPool
      <4> QED
        BY <3>1, <4>1, HostSteps
    <3> QED
      BY <2>1, <2>2, <3>1, GatewaySteps, HostSteps, StoreStep DEF Next
  <2>3. CASE UNCHANGED vars
    BY <2>3 DEF vars, gateway, process, IInv, TypeOK, RunInv, HandlerInv, CacheInv, PromiseInv,
                SuccessIsCommitted, RetriesAgree, HasKey
  <2> QED
    BY <2>1, <2>2, <2>3 DEF IInv, Rest
<1> QED
  BY InitInv, <1>1, PTL DEF Spec

\* Every variable keeps its type.
THEOREM TypeCorrect == Spec => []TypeOK
<1>1. IInv => TypeOK
  BY DEF IInv
<1> QED
  BY Invariant, <1>1, PTL

\* A call received after a success for its key never runs.
THEOREM SuccessIsFinal == Spec => []NeverAgain
<1>1. IInv => NeverAgain
  BY DEF IInv, PromiseInv, RunInv, NeverAgain, TypeOK
<1> QED
  BY Invariant, <1>1, PTL

\* A success is the result of a committed transaction of the same request.
THEOREM SuccessIsTrue == Spec => []SuccessIsCommitted
<1>1. IInv => SuccessIsCommitted
  BY DEF IInv
<1> QED
  BY Invariant, <1>1, PTL

\* What one caller was given from the table stays there.
THEOREM StoredIsFinal == Spec => []RetriesAgree
<1>1. IInv => RetriesAgree
  BY DEF IInv
<1> QED
  BY Invariant, <1>1, PTL

-----------------------------------------------------------------------------
(* Refinement: Gateway, table, host and children, with their faults, keep the *)
(* contract of calls.                                                         *)

\* The abstract state that a state of the system stands for.
Asked   == {c \in Calls : pc[c] # "new"}
Kept    == [k \in Keys |-> IF cache[k] = None THEN None ELSE cache[k].of]
Replied == {c \in Calls : reply[c] # None}
Given   == [c \in Calls |-> IF Succeeded(c) THEN reply[c].of ELSE None]

ContractStep == [Contract!Next]_(Contract!vars)

LEMMA Stutter ==
  ASSUME UNCHANGED <<Asked, promised, effects, Kept, Replied, Given>>
  PROVE  ContractStep
BY DEF ContractStep, Contract!vars, Asked, Kept, Replied, Given

\* A call that has come does not become new again.
LEMMA StaysAsked ==
  ASSUME TypeOK, NEW c \in Calls, pc[c] # "new", pc'[c] # "new",
         \A d \in Calls \ {c} : pc'[d] = pc[d]
  PROVE  UNCHANGED Asked
BY DEF Asked

\* Moving on within a handler is not seen outside.
LEMMA MovesOn ==
  ASSUME TypeOK, NEW c \in Calls, NEW p \in Handling \cup {"lost"}, Goto(c, p), pc[c] # "new",
         UNCHANGED <<promised, effects, cache>>
  PROVE  ContractStep
<1>1. pc'[c] # "new" /\ (\A d \in Calls \ {c} : pc'[d] = pc[d]) /\ reply' = reply
  BY DEF Goto, TypeOK, Handling
<1>2. UNCHANGED Asked
  BY <1>1, StaysAsked
<1>3. UNCHANGED <<Kept, Replied, Given>>
  BY <1>1 DEF Kept, Replied, Given
<1> QED
  BY <1>2, <1>3, Stutter

\* A reply that is no success is an abstract failure.
LEMMA Fails ==
  ASSUME IInv, NEW c \in Calls, NEW st \in {"conflict", "failed"}, Answer(c, st, None),
         pc[c] \notin {"new", "done"}, UNCHANGED <<promised, effects, cache>>
  PROVE  ContractStep
<1> USE DEF IInv
<1>1. /\ reply[c] = None /\ c \in Asked \ Replied
      /\ pc'[c] = "done" /\ \A d \in Calls \ {c} : pc'[d] = pc[d]
      /\ reply'[c] = [status |-> st, of |-> None] /\ reply'[c] # None
      /\ \A d \in Calls \ {c} : reply'[d] = reply[d]
  BY DEF Answer, TypeOK, HandlerInv, Asked, Replied
<1>2. UNCHANGED Asked
  BY <1>1, StaysAsked
<1>3. UNCHANGED <<Kept, Given>> /\ Replied' = Replied \cup {c}
  BY <1>1 DEF Kept, Given, Replied
<1>4. Contract!Fail(c)
  BY <1>1, <1>2, <1>3 DEF Contract!Fail, Asked, Kept, Replied, Given
<1> QED
  BY <1>4 DEF ContractStep, Contract!Next

\* A success gives the caller a result that the contract allows.
LEMMA Succeeds ==
  ASSUME IInv, NEW c \in Calls, NEW st \in {"ok", "cached"}, NEW b \in Calls, Answer(c, st, b),
         pc[c] \notin {"new", "done"}, UNCHANGED <<promised, effects, cache>>,
         Contract!May(c, b)
  PROVE  ContractStep
<1> USE DEF IInv
<1>1. /\ reply[c] = None /\ c \in Asked \ Replied
      /\ pc'[c] = "done" /\ \A d \in Calls \ {c} : pc'[d] = pc[d]
      /\ reply'[c] = [status |-> st, of |-> b] /\ reply'[c] # None
      /\ \A d \in Calls \ {c} : reply'[d] = reply[d]
  BY DEF Answer, TypeOK, HandlerInv, Asked, Replied
<1>2. UNCHANGED Asked
  BY <1>1, StaysAsked
<1>3. UNCHANGED Kept /\ Replied' = Replied \cup {c}
  BY <1>1 DEF Kept, Replied
<1>5. Given' = [Given EXCEPT ![c] = b]
  <2>1. Given' = [d \in Calls |-> IF Succeeded(d)' THEN reply'[d].of ELSE None]
    BY DEF Given
  <2>2. Succeeded(c)' /\ reply'[c].of = b
    BY <1>1
  <2>3. \A d \in Calls \ {c} : Succeeded(d)' = Succeeded(d) /\ reply'[d] = reply[d]
    BY <1>1
  <2> HIDE DEF Succeeded
  <2> QED
    BY <2>1, <2>2, <2>3 DEF Given
<1>4. Contract!Succeed(c)
  BY <1>1, <1>2, <1>3, <1>5 DEF Contract!Succeed, Asked, Kept, Replied, Given
<1> QED
  BY <1>4 DEF ContractStep, Contract!Next

\* A row is kept once.
LEMMA Keeps ==
  ASSUME IInv, NEW c \in Calls, Store(c) \/ LateStore(c)
  PROVE  ContractStep
<1> USE DEF IInv
<1>1. /\ HasKey(c) /\ KeyOf[c] \in Keys /\ c \in effects /\ cache' = Stored(c)
      /\ UNCHANGED <<reply, promised, effects>>
  BY DEF Store, LateStore, Goto, HandlerInv, RunInv, CacheInv, HasKey, process
<1>2. UNCHANGED Asked
  BY DEF Store, LateStore, Goto, TypeOK, Asked
<1>3. UNCHANGED <<Replied, Given>>
  BY <1>1 DEF Replied, Given
<1>4. CASE cache[KeyOf[c]] = None
  <2>1. cache' = [cache EXCEPT ![KeyOf[c]] = [input |-> InputOf[c], of |-> c]]
    BY <1>1, <1>4 DEF Stored
  <2>2. Kept[KeyOf[c]] = None /\ Kept' = [Kept EXCEPT ![KeyOf[c]] = c]
    <3>1. cache'[KeyOf[c]].of = c /\ cache'[KeyOf[c]] # None
      BY <1>1, <2>1 DEF TypeOK
    <3>2. \A k \in Keys : k # KeyOf[c] => cache'[k] = cache[k]
      BY <1>1, <2>1 DEF TypeOK
    <3>3. Kept' = [k \in Keys |-> IF k = KeyOf[c] THEN c ELSE Kept[k]]
      BY <3>1, <3>2 DEF Kept
    <3> QED
      BY <1>1, <1>4, <3>3 DEF Kept
  <2>3. Contract!Keep(c)
    BY <1>1, <1>2, <1>3, <2>2 DEF Contract!Keep, Contract!Keyed, HasKey, Asked, Kept, Replied, Given
  <2> QED
    BY <2>3 DEF ContractStep, Contract!Next
<1>5. CASE cache[KeyOf[c]] # None
  <2>1. UNCHANGED Kept
    BY <1>1, <1>5 DEF Stored, Kept
  <2> QED
    BY <1>1, <1>2, <1>3, <2>1, Stutter
<1> QED
  BY <1>4, <1>5

\* A request that comes in is bound by a success that was answered before.
LEMMA Asks ==
  ASSUME IInv, NEW c \in Calls, Receive(c)
  PROVE  ContractStep
<1> USE DEF IInv
<1>1. /\ pc[c] = "new" /\ pc'[c] # "new" /\ \A d \in Calls \ {c} : pc'[d] = pc[d]
      /\ promised' = IF HasKey(c) /\ Answered(c) THEN promised \cup {c} ELSE promised
      /\ UNCHANGED <<reply, cache, effects>>
  BY DEF Receive, Goto, TypeOK
<1>2. c \notin Asked /\ Asked' = Asked \cup {c}
  BY <1>1 DEF Asked
<1>3. UNCHANGED <<Kept, Replied, Given>>
  BY <1>1 DEF Kept, Replied, Given
<1>4. \A b \in Calls : Succeeded(b) <=> Given[b] # None
  BY DEF Given, SuccessIsCommitted, TypeOK
<1>5. Answered(c) <=> \E b \in Calls : KeyOf[b] = KeyOf[c] /\ Given[b] # None
  BY <1>4 DEF Answered
<1>6. Contract!Ask(c)
  BY <1>1, <1>2, <1>3, <1>5 DEF Contract!Ask, Contract!Keyed, HasKey, Asked, Kept, Replied, Given
<1> QED
  BY <1>6 DEF ContractStep, Contract!Next

\* Only a transaction that is committed is seen of host and children, and it is
\* that of a call which is not bound.
LEMMA Runs ==
  ASSUME IInv, NEW c \in Calls,
         \/ Start(c) \/ SendCommit(c) \/ Return(c) \/ Throw(c) \/ Vanish(c)
         \/ EndTransaction(c) \/ MessageArrives(c) \/ Timeout(c) \/ HostRestarts
  PROVE  ContractStep
<1> USE DEF IInv
<1>1. UNCHANGED gateway
  BY DEF Start, SendCommit, Return, Throw, Vanish, Send, EndTransaction, MessageArrives, Timeout, Resolve,
         HostRestarts
<1>2. UNCHANGED <<Asked, promised, Kept, Replied, Given>>
  BY <1>1 DEF gateway, Asked, Kept, Replied, Given
<1>3. CASE UNCHANGED effects
  BY <1>2, <1>3, Stutter
<1>4. CASE EndTransaction(c) /\ effects' = effects \cup {c}
  <2>1. c \in Asked /\ c \notin promised
    BY <1>4 DEF EndTransaction, RunInv, PromiseInv, Asked
  <2>2. Contract!Run(c)
    BY <1>2, <1>4, <2>1 DEF Contract!Run, Asked, Kept, Replied, Given
  <2> QED
    BY <2>2 DEF ContractStep, Contract!Next
<1>5. UNCHANGED effects \/ (EndTransaction(c) /\ effects' = effects \cup {c})
  BY DEF Start, SendCommit, Return, Throw, Vanish, Send, EndTransaction, MessageArrives, Timeout, Resolve,
         HostRestarts
<1> QED
  BY <1>3, <1>4, <1>5

\* The steps of the Gateway's handler.
LEMMA Handles ==
  ASSUME IInv, NEW c \in Calls, Handler(c) \/ GiveUp(c) \/ StatementFails(c) \/ GatewayLoses(c)
  PROVE  ContractStep
<1> USE DEF IInv
<1>1. CASE Fetch(c) \/ AnswerArrives(c) \/ GatewayLoses(c)
  <2>1. \E p \in Handling \cup {"lost"} : Goto(c, p) /\ pc[c] # "new" /\ UNCHANGED <<promised, effects, cache>>
    BY <1>1 DEF Fetch, AnswerArrives, GatewayLoses, Handling
  <2> QED
    BY <2>1, MovesOn
<1>2. CASE GiveUp(c) \/ StatementFails(c) \/ StoreRefused(c)
  BY <1>2, Fails DEF GiveUp, StatementFails, StoreRefused
<1>3. CASE Lookup(c)
  <2>0. pc[c] = "lookup" /\ HasKey(c) /\ KeyOf[c] \in Keys /\ UNCHANGED <<promised, effects, cache>>
    BY <1>3 DEF Lookup, HandlerInv, HasKey
  <2>1. CASE Goto(c, "connect")
    BY <2>0, <2>1, MovesOn DEF Handling
  <2>2. CASE LookupFailed(c)
    BY <2>0, <2>2, Fails DEF LookupFailed
  <2>3. CASE /\ cache[KeyOf[c]] # None /\ cache[KeyOf[c]].input = InputOf[c]
             /\ Answer(c, "cached", cache[KeyOf[c]].of)
    <3> DEFINE b == cache[KeyOf[c]].of
    <3>1. b \in Calls /\ b \in effects /\ InputOf[b] = InputOf[c]
      BY <2>0, <2>3 DEF CacheInv, TypeOK, Row
    <3>2. Contract!May(c, b)
      BY <2>0, <2>3, <3>1 DEF Contract!May, Contract!Keyed, HasKey
    <3> QED
      BY <2>0, <2>3, <3>1, <3>2, Succeeds
  <2> QED
    BY <1>3, <2>1, <2>2, <2>3 DEF Lookup
<1>4. CASE Audit(c)
  <2>0. pc[c] = "audit" /\ UNCHANGED <<promised, effects, cache>>
    BY <1>4 DEF Audit
  <2>1. CASE answer[c] = "error"
    BY <1>4, <2>0, <2>1, Fails DEF Audit, Audited
  <2>2. CASE answer[c] # "error" /\ HasKey(c)
    BY <1>4, <2>0, <2>2, MovesOn DEF Audit, Audited, Handling
  <2>3. CASE answer[c] # "error" /\ ~HasKey(c)
    <3>1. c \in effects
      BY <2>0, <2>3 DEF HandlerInv, RunInv, TypeOK, Outcomes
    <3>2. Contract!May(c, c)
      BY <2>3, <3>1 DEF Contract!May, Contract!Keyed, HasKey
    <3> QED
      BY <1>4, <2>0, <2>3, <3>2, Succeeds DEF Audit, Audited
  <2> QED
    BY <2>1, <2>2, <2>3
<1>5. CASE ReplyResult(c)
  <2>1. /\ pc[c] = "stored" /\ KeyOf[c] \in Keys /\ cache[KeyOf[c]] # None /\ c \in effects
        /\ Answer(c, "ok", c) /\ UNCHANGED <<promised, effects, cache>>
    BY <1>5 DEF ReplyResult, HandlerInv, RunInv, HasKey
  <2>2. cache[KeyOf[c]].of # None
    BY <2>1 DEF CacheInv, TypeOK
  <2>3. Contract!May(c, c)
    BY <2>1, <2>2 DEF Contract!May
  <2> QED
    BY <2>1, <2>3, Succeeds
<1>6. CASE Store(c)
  BY <1>6, Keeps
<1> QED
  BY <1>1, <1>2, <1>3, <1>4, <1>5, <1>6 DEF Handler

\* Gateway, host and databases keep the contract: whatever is retried, lost, killed
\* or late, a success is the result of a call that ran, it is given again to every
\* later call of its key, and no such call runs.
THEOREM Implements == Spec => KeepsContract
<1>1. Init => Contract!Init
  BY DEF Init, Contract!Init
<1>2. IInv /\ [Next]_vars => ContractStep
  <2> SUFFICES ASSUME IInv, [Next]_vars PROVE ContractStep
    OBVIOUS
  <2>1. CASE UNCHANGED vars
    BY <2>1, Stutter DEF vars, gateway, process, Asked, Kept, Replied, Given
  <2>2. CASE HostRestarts
    <3>1. \E c \in Calls : TRUE
      BY <2>2 DEF HostRestarts, InPool
    <3> QED
      BY <2>2, <3>1, Runs
  <2> QED
    BY <2>1, <2>2, Asks, Handles, Runs, Keeps DEF Next
<1> QED
  BY <1>1, <1>2, Invariant, PTL DEF Spec, KeepsContract, Contract!Spec, ContractStep
=============================================================================
