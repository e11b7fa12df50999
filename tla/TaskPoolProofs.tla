--------------------------- MODULE TaskPoolProofs ---------------------------
(***************************************************************************)
(* Proofs about TaskPool, for every set of calls, limit and burst: what    *)
(* run() keeps of its limit in general, and that it keeps the limit itself *)
(* in the way the function host uses it.                                   *)
(***************************************************************************)
EXTENDS TaskPool, FiniteSetTheorems, SequenceTheorems, TLAPS

\* The sets of calls that the invariant counts are finite.
LEMMA FinitePhases ==
  /\ \A p : IsFiniteSet(In(p)) /\ Cardinality(In(p)) \in Nat
  /\ IsFiniteSet(Running) /\ Cardinality(Running) \in Nat
<1>1. \A p : In(p) \in SUBSET Tasks
  BY DEF In
<1>2. Running \in SUBSET Tasks
  BY <1>1 DEF Running
<1> QED
  BY <1>1, <1>2, PoolAssumption, FS_Subset, FS_CardinalityType DEF PoolAssumption

\* Appending a call to a sequence of calls.
LEMMA AppendedSeq ==
  ASSUME NEW s \in Seq(Tasks), NEW t \in Tasks
  PROVE  Append(s, t) \in Seq(Tasks)
OBVIOUS

\* The initial state satisfies the inductive invariant.
LEMMA InitInv == Init => IInv
<1> SUFFICES ASSUME Init PROVE IInv
  OBVIOUS
<1>1. In("running") = {} /\ In("settled") = {} /\ In("woken") = {}
  BY DEF Init, In
<1>2. Cardinality(Running) = 0 /\ Cardinality(In("woken")) = 0
  BY <1>1, FS_EmptySet DEF Running
<1>3. TypeOK
  BY EmptySeq DEF Init, TypeOK, Phases
<1>4. QueueInv
  BY DEF Init, QueueInv
<1> QED
  BY <1>2, <1>3, <1>4, PoolAssumption DEF Init, IInv, PoolInv, PoolAssumption

-----------------------------------------------------------------------------
(* What each step does to the calls under way and to the woken ones        *)

\* A turn of the event loop only brings calls in, or settles some under way.
LEMMA TurnCounts ==
  ASSUME TypeOK, NEW s \in Bursts, Turn(s)
  PROVE  Running' = Running /\ In("woken")' = In("woken")
<1>1. ASSUME NEW t \in Tasks
      PROVE  \/ phase'[t] = phase[t]
             \/ phase[t] = "new" /\ phase'[t] = "called"
             \/ phase[t] = "running" /\ phase'[t] = "settled"
  <2>1. CASE \E i \in DOMAIN s : s[i] = t
    <3>1. phase[t] \in {"new", "running"}
      BY <2>1 DEF Turn, In
    <3>2. phase'[t] = IF phase[t] = "new" THEN "called" ELSE "settled"
      BY <2>1 DEF Turn
    <3> QED
      BY <3>1, <3>2
  <2>2. CASE ~ \E i \in DOMAIN s : s[i] = t
    BY <2>2 DEF Turn
  <2> QED
    BY <2>1, <2>2
<1> QED
  BY <1>1 DEF Running, In, TypeOK, Phases

\* A call that starts joins those under way.
LEMMA BeginCounts ==
  ASSUME TypeOK, NEW t \in Tasks, phase[t] \in {"called", "woken"}, Begin(t)
  PROVE  /\ Running' = Running \cup {t}
         /\ t \notin Running
         /\ In("woken")' = In("woken") \ {t}
<1>1. \/ phase' = [phase EXCEPT ![t] = "settled"]
      \/ phase' = [phase EXCEPT ![t] = "running"]
  BY DEF Begin
<1>2. phase'[t] \in {"running", "settled"} /\ \A u \in Tasks \ {t} : phase'[u] = phase[u]
  BY <1>1 DEF TypeOK
<1> QED
  BY <1>2 DEF Running, In

\* A call that leaves hands its slot to the longest waiter, if there is one.
LEMMA LeaveCounts ==
  ASSUME TypeOK, QueueInv, NEW t \in Tasks, NEW again \in SUBSET In("new"), Leave(t, again)
  PROVE  /\ Running' = Running \ {t}
         /\ t \in Running
         /\ Wake \subseteq In("waiting")
         /\ In("woken")' = In("woken") \cup Wake
         /\ \A u \in Tasks \ Wake : phase[u] = "waiting" => phase'[u] = "waiting"
<1>1. phase[t] = "settled" /\ t \notin again
  BY DEF Leave, AtHead, In
<1>2. phase' = [u \in Tasks |-> CASE u = t       -> "done"
                                  [] u \in Wake  -> "woken"
                                  [] u \in again -> "called"
                                  [] OTHER       -> phase[u]]
  BY DEF Leave
<1>3. Wake \subseteq In("waiting")
  <2> SUFFICES ASSUME queue # <<>> PROVE Head(queue) \in In("waiting")
    BY DEF Wake
  <2>1. Head(queue) \in Tasks /\ 1 \in DOMAIN queue /\ Head(queue) = queue[1]
    BY HeadTailProperties, EmptySeq, LenProperties DEF TypeOK
  <2> QED
    BY <2>1 DEF QueueInv, In
<1>4. ASSUME NEW u \in Tasks
      PROVE  phase'[u] = IF u = t THEN "done" ELSE IF u \in Wake THEN "woken"
                         ELSE IF u \in again THEN "called" ELSE phase[u]
  <2>1. phase'[u] = CASE u = t       -> "done"
                      [] u \in Wake  -> "woken"
                      [] u \in again -> "called"
                      [] OTHER       -> phase[u]
    BY <1>2, Zenon
  <2>2. u = t => u \notin Wake /\ u \notin again
    BY <1>1, <1>3 DEF In
  <2>3. u \in Wake => u \notin again
    BY <1>3 DEF In
  <2> HIDE DEF Wake
  <2> QED
    BY <2>1, <2>2, <2>3
<1>5. \A u \in again : phase[u] = "new"
  BY DEF In
<1>6. \A u \in Wake : u \in Tasks /\ phase[u] = "waiting"
  BY <1>3 DEF In
<1>7. Running' = Running \ {t} /\ t \in Running
  BY <1>1, <1>4, <1>5, <1>6 DEF Running, In
<1>8. In("woken")' = In("woken") \cup Wake
  BY <1>1, <1>4, <1>5, <1>6 DEF In
<1>9. \A u \in Tasks \ Wake : phase[u] = "waiting" => phase'[u] = "waiting"
  BY <1>1, <1>4, <1>5
<1> QED
  BY <1>3, <1>7, <1>8, <1>9

\* Both ways to return are a Leave.
LEMMA ReturnIsLeave ==
  /\ \A t \in Tasks : Return(t) => Leave(t, {}) /\ {} \in SUBSET In("new")
  /\ \A t, u \in Tasks : ReturnAndCall(t, u) => Leave(t, {u}) /\ {u} \in SUBSET In("new")
BY DEF Return, ReturnAndCall

-----------------------------------------------------------------------------
(* The invariant's parts, step by step                                     *)

\* Types: phases stay phases and the two queues stay sequences of calls.
LEMMA TypeStep ==
  ASSUME IInv, Next
  PROVE  TypeOK'
<1> USE DEF IInv, TypeOK
<1>1. ASSUME NEW s \in Bursts, Turn(s) PROVE TypeOK'
  <2>1. s \in Seq(Tasks)
    BY DEF Bursts
  <2>2. phase' \in [Tasks -> Phases]
    BY <1>1 DEF Turn, Phases
  <2> QED
    BY <1>1, <2>1, <2>2 DEF Turn
<1>2. ASSUME NEW t \in Tasks, Wait(t) PROVE TypeOK'
  BY <1>2, HeadTailProperties DEF Wait, AtHead, Phases
<1>3. ASSUME NEW t \in Tasks, AtHead(t, "called") \/ AtHead(t, "woken"), Begin(t),
             queue' = queue, barged' \in {barged, barged + 1}
      PROVE  TypeOK'
  <2>1. Tail(ready) \in Seq(Tasks)
    BY <1>3, HeadTailProperties DEF AtHead
  <2>2. ready' \in {Tail(ready), Append(Tail(ready), t)}
    BY <1>3 DEF Begin
  <2>2a. ready' \in Seq(Tasks)
    BY <2>1, <2>2, AppendedSeq
  <2>3. phase' \in [Tasks -> Phases]
    BY <1>3 DEF Begin, Phases
  <2> QED
    BY <1>3, <2>2a, <2>3 DEF Begin
<1>4. ASSUME NEW t \in Tasks, NEW again \in SUBSET In("new"), Leave(t, again),
             ready' = Behind \/ \E u \in Tasks : ready' = Append(Behind, u)
      PROVE  TypeOK'
  <2>1. Tail(ready) \in Seq(Tasks)
    BY <1>4, HeadTailProperties DEF Leave, AtHead
  <2>2. queue # <<>> => Head(queue) \in Tasks /\ Tail(queue) \in Seq(Tasks)
    BY HeadTailProperties
  <2>3. Behind \in Seq(Tasks)
    BY <2>1, <2>2 DEF Behind, Wake
  <2>4. ready' \in Seq(Tasks)
    BY <1>4, <2>3, AppendedSeq
  <2>5. queue' \in Seq(Tasks)
    BY <1>4, <2>2 DEF Leave, Wake
  <2>6. phase' \in [Tasks -> Phases]
    BY <1>4 DEF Leave, Phases
  <2>7. active' \in Nat
    <3>1. active \in Nat /\ active = Cardinality(Running) /\ t \in Running
      BY <1>4, LeaveCounts DEF PoolInv
    <3>2. active # 0
      BY <3>1, FinitePhases, FS_EmptySet
    <3> QED
      BY <1>4, <3>1, <3>2 DEF Leave
  <2> QED
    BY <1>4, <2>4, <2>5, <2>6, <2>7 DEF Leave
<1>5. \A t \in Tasks : StartNow(t) => TypeOK'
  BY <1>3 DEF StartNow
<1>6. \A t \in Tasks : Resume(t) => TypeOK'
  BY <1>3 DEF Resume
<1>7. \A t \in Tasks : Return(t) => TypeOK'
  BY <1>4, ReturnIsLeave DEF Return
<1>8. \A t, u \in Tasks : ReturnAndCall(t, u) => TypeOK'
  BY <1>4, ReturnIsLeave DEF ReturnAndCall
<1> QED
  BY <1>1, <1>2, <1>5, <1>6, <1>7, <1>8 DEF Next, Microtask

\* The waiting calls are those in the queue, each of them once.
LEMMA QueueStep ==
  ASSUME IInv, Next
  PROVE  QueueInv'
<1> USE DEF IInv, TypeOK
<1>1. ASSUME queue' = queue, \A t \in Tasks : phase[t] = "waiting" => phase'[t] = "waiting"
      PROVE  QueueInv'
  <2>1. \A i \in DOMAIN queue : queue[i] \in Tasks
    BY ElementOfSeq, LenProperties
  <2> QED
    BY <1>1, <2>1 DEF QueueInv
<1>2. ASSUME NEW s \in Bursts, Turn(s) PROVE QueueInv'
  BY <1>1, <1>2 DEF Turn, In
<1>3. ASSUME NEW t \in Tasks, Wait(t) PROVE QueueInv'
  <2>1. phase[t] = "called" /\ queue' = Append(queue, t)
    BY <1>3 DEF Wait, AtHead
  <2>2. /\ DOMAIN queue = 1 .. Len(queue) /\ Len(queue) \in Nat
        /\ DOMAIN queue' = 1 .. Len(queue) + 1
        /\ \A i \in 1 .. Len(queue) : queue'[i] = queue[i] /\ queue[i] \in Tasks
        /\ queue'[Len(queue) + 1] = t
    BY <2>1, LenProperties, ElementOfSeq
  <2>3. phase'[t] = "waiting" /\ \A u \in Tasks \ {t} : phase'[u] = phase[u]
    BY <1>3 DEF Wait
  <2>4. \A i \in 1 .. Len(queue) : queue[i] # t
    BY <2>1, <2>2 DEF QueueInv
  <2>5. \A i \in DOMAIN queue' : phase'[queue'[i]] = "waiting"
    BY <2>2, <2>3, <2>4 DEF QueueInv
  <2>6. \A i, j \in DOMAIN queue' : queue'[i] = queue'[j] => i = j
    BY <2>2, <2>4 DEF QueueInv
  <2> QED
    BY <2>5, <2>6 DEF QueueInv
<1>4. ASSUME NEW t \in Tasks, AtHead(t, "called") \/ AtHead(t, "woken"), Begin(t),
             queue' = queue
      PROVE  QueueInv'
  <2>1. \A u \in Tasks : phase[u] = "waiting" => phase'[u] = "waiting"
    BY <1>4 DEF AtHead, Begin
  <2> QED
    BY <1>1, <1>4, <2>1
<1>5. ASSUME NEW t \in Tasks, NEW again \in SUBSET In("new"), Leave(t, again)
      PROVE  QueueInv'
  <2>1. \A u \in Tasks \ Wake : phase[u] = "waiting" => phase'[u] = "waiting"
    BY <1>5, LeaveCounts
  <2>2. CASE queue = <<>>
    BY <1>1, <1>5, <2>1, <2>2 DEF Leave, Wake
  <2>3. CASE queue # <<>>
    <3>1. queue' = Tail(queue) /\ Wake = {queue[1]}
      <4>1. Wake = {Head(queue)}
        BY <2>3 DEF Wake
      <4>2. queue' = Tail(queue)
        <5>1. Wake # {}
          BY <4>1
        <5> QED
          BY <1>5, <5>1, Zenon DEF Leave
      <4>3. Head(queue) = queue[1]
        BY <2>3
      <4> QED
        BY <4>1, <4>2, <4>3
    <3>2. /\ Len(queue) \in Nat \ {0} /\ DOMAIN queue = 1 .. Len(queue)
          /\ DOMAIN queue' = 1 .. (Len(queue) - 1)
          /\ \A i \in 1 .. (Len(queue) - 1) : queue'[i] = queue[i + 1] /\ queue[i + 1] \in Tasks
      BY <2>3, <3>1, HeadTailProperties, LenProperties, ElementOfSeq, EmptySeq
    <3>3. \A i \in 1 .. (Len(queue) - 1) : phase[queue[i + 1]] = "waiting" /\ queue[i + 1] # queue[1]
      BY <3>2 DEF QueueInv
    <3>4. \A i \in DOMAIN queue' : phase'[queue'[i]] = "waiting"
      BY <2>1, <3>1, <3>2, <3>3
    <3>5. ASSUME NEW i \in DOMAIN queue', NEW j \in DOMAIN queue', queue'[i] = queue'[j]
          PROVE  i = j
      <4>1. i + 1 \in DOMAIN queue /\ j + 1 \in DOMAIN queue /\ queue[i + 1] = queue[j + 1]
        BY <3>2, <3>5
      <4>2. i + 1 = j + 1
        BY <4>1 DEF QueueInv
      <4> QED
        BY <3>2, <4>2
    <3> QED
      BY <3>4, <3>5 DEF QueueInv
  <2> QED
    BY <2>2, <2>3
<1>6. \A t \in Tasks : StartNow(t) => QueueInv'
  BY <1>4 DEF StartNow
<1>7. \A t \in Tasks : Resume(t) => QueueInv'
  BY <1>4 DEF Resume
<1> QED
  BY <1>2, <1>3, <1>5, <1>6, <1>7, ReturnIsLeave DEF Next, Microtask

\* The counts: a start takes a free slot, a waiter's slot or, barging in, both.
LEMMA PoolStep ==
  ASSUME IInv, Next
  PROVE  PoolInv'
<1> DEFINE w == Cardinality(In("woken"))
<1> USE DEF IInv
<1>0. /\ active \in Nat /\ w \in Nat /\ barged \in Nat /\ Concurrency \in Nat
      /\ IsFiniteSet(Running) /\ IsFiniteSet(In("woken"))
  BY FinitePhases, PoolAssumption DEF TypeOK, PoolAssumption
<1>1. ASSUME NEW s \in Bursts, Turn(s) PROVE PoolInv'
  BY <1>1, TurnCounts DEF Turn, PoolInv
<1>2. ASSUME NEW t \in Tasks, Wait(t) PROVE PoolInv'
  <2>1. Running' = Running /\ In("woken")' = In("woken")
    BY <1>2 DEF Wait, AtHead, Running, In, TypeOK
  <2>2. active >= Concurrency /\ active' = active /\ barged' = barged
    BY <1>2 DEF Wait, Full
  <2> QED
    BY <1>0, <2>1, <2>2 DEF PoolInv
<1>3. ASSUME NEW t \in Tasks, StartNow(t) PROVE PoolInv'
  <2>1. phase[t] = "called" /\ active < Concurrency /\ Begin(t) /\ queue' = queue
    BY <1>0, <1>3 DEF StartNow, AtHead, Full
  <2>2. /\ Cardinality(Running') = Cardinality(Running) + 1
        /\ In("woken")' = In("woken")
    BY <1>0, <2>1, BeginCounts, FS_AddElement DEF In
  <2>3. active' = active + 1
    BY <2>1 DEF Begin
  <2>4. CASE In("woken") = {}
    BY <1>0, <1>3, <2>1, <2>2, <2>3, <2>4, FS_EmptySet DEF StartNow, PoolInv
  <2>5. CASE In("woken") # {}
    BY <1>0, <1>3, <2>1, <2>2, <2>3, <2>5 DEF StartNow, PoolInv
  <2> QED
    BY <2>4, <2>5
<1>4. ASSUME NEW t \in Tasks, Resume(t) PROVE PoolInv'
  <2>1. /\ phase[t] = "woken" /\ t \in In("woken") /\ Begin(t)
        /\ queue' = queue /\ barged' = barged
    BY <1>4 DEF Resume, AtHead, In
  <2>2. /\ Cardinality(Running') = Cardinality(Running) + 1
        /\ Cardinality(In("woken")') = w - 1
    BY <1>0, <2>1, BeginCounts, FS_AddElement, FS_RemoveElement
  <2>3. active' = active + 1
    BY <2>1 DEF Begin
  <2> QED
    BY <1>0, <2>1, <2>2, <2>3 DEF PoolInv
<1>5. ASSUME NEW t \in Tasks, NEW again \in SUBSET In("new"), Leave(t, again)
      PROVE  PoolInv'
  <2>1. Cardinality(Running') = Cardinality(Running) - 1
    BY <1>0, <1>5, LeaveCounts, FS_RemoveElement
  <2>2. active' = active - 1 /\ barged' = barged
    BY <1>5 DEF Leave
  <2>3. CASE queue = <<>>
    <3>1. queue' = <<>> /\ In("woken")' = In("woken")
      BY <1>5, <2>3, LeaveCounts DEF Leave, Wake
    <3> QED
      BY <1>0, <2>1, <2>2, <3>1 DEF PoolInv
  <2>4. CASE queue # <<>>
    <3>1. Head(queue) \notin In("woken") /\ In("woken")' = In("woken") \cup {Head(queue)}
      BY <1>5, <2>4, LeaveCounts DEF Wake, In
    <3>2. Cardinality(In("woken")') = w + 1
      BY <1>0, <3>1, FS_AddElement
    <3> QED
      BY <1>0, <2>1, <2>2, <2>4, <3>2 DEF PoolInv
  <2> QED
    BY <2>3, <2>4
<1> QED
  BY <1>1, <1>2, <1>3, <1>4, <1>5, ReturnIsLeave DEF Next, Microtask

-----------------------------------------------------------------------------
(* The theorems                                                            *)

\* The inductive invariant: active counts the calls under way, and with the
\* woken waiters they fill the pool while any call waits.
THEOREM Invariant == Spec => []IInv
<1>1. IInv /\ [Next]_vars => IInv'
  <2> SUFFICES ASSUME IInv, [Next]_vars PROVE IInv'
    OBVIOUS
  <2>1. CASE Next
    BY <2>1, TypeStep, QueueStep, PoolStep DEF IInv
  <2>2. CASE UNCHANGED vars
    BY <2>2 DEF vars, IInv, TypeOK, PoolInv, QueueInv, Running, In
  <2> QED
    BY <2>1, <2>2
<1> QED
  BY InitInv, <1>1, PTL DEF Spec

\* Types, for every set of calls and every limit.
THEOREM TypeCorrect == Spec => []TypeOK
<1>1. IInv => TypeOK
  BY DEF IInv
<1> QED
  BY Invariant, <1>1, PTL

\* The pool exceeds its limit by no more than the calls that barged in.
THEOREM ExcessIsBarging == Spec => []OnlyBargingExceeds
<1>1. IInv => OnlyBargingExceeds
  BY FinitePhases, PoolAssumption DEF IInv, PoolInv, TypeOK, OnlyBargingExceeds, PoolAssumption
<1> QED
  BY Invariant, <1>1, PTL

\* While calls wait, every slot is in use or on its way to a woken waiter.
THEOREM WaitersAreServed == Spec => []NoWaiterForgotten
<1>1. IInv => NoWaiterForgotten
  BY DEF IInv, PoolInv, NoWaiterForgotten
<1> QED
  BY Invariant, <1>1, PTL

\* Used as the function host uses it, one event to a turn of the event loop and
\* no chained calls, the pool never exceeds its limit.
THEOREM HostIsBounded == ASSUME HostUse PROVE Spec => []Bounded
<1>1. Init => HostInv
  BY EmptySeq DEF Init, HostInv, In
<1>2. ASSUME IInv, HostInv, Next PROVE HostInv'
  <2> USE DEF IInv, TypeOK
  <2>1. \A t \in Tasks, p \in {"called", "settled"} : AtHead(t, p) => In("woken") = {}
    BY <1>2 DEF HostInv, AtHead, In
  <2>2. ASSUME ready # <<>> PROVE Tail(ready) = <<>>
    <3>1. ready \in Seq(Tasks) /\ Len(ready) <= 1
      BY <1>2 DEF HostInv
    <3>2. Len(ready) = 1
      <4>1. Len(ready) \in Nat \ {0}
        BY <2>2, <3>1, EmptySeq
      <4>2. \A n \in Nat \ {0} : n <= 1 => n = 1
        OBVIOUS
      <4> QED
        BY <3>1, <4>1, <4>2, Zenon
    <3>3. Tail(ready) \in Seq(Tasks) /\ Len(Tail(ready)) = 0
      BY <2>2, <3>1, <3>2, HeadTailProperties
    <3> QED
      BY <3>3, EmptySeq
  <2>3. ASSUME NEW s \in Bursts, Turn(s) PROVE HostInv'
    <3>1. Len(s) = 1
      <4>1. PICK n \in 1 .. MaxBurst : s \in [1 .. n -> Tasks]
        BY DEF Bursts
      <4>2. n = 1
        BY HostUse, <4>1 DEF HostUse
      <4> QED
        BY <4>1, <4>2
    <3>2. In("woken") = {}
      BY <1>2, <2>3 DEF HostInv, Turn
    <3>3. In("woken")' = {}
      BY <1>2, <2>3, <3>2, TurnCounts
    <3> QED
      BY <1>2, <2>3, <3>1, <3>3 DEF HostInv, Turn
  <2>4. ASSUME NEW t \in Tasks, Wait(t) PROVE HostInv'
    <3>1. In("woken") = {} /\ ready' = <<>> /\ barged' = barged
      BY <2>1, <2>2, <2>4 DEF Wait, AtHead
    <3>2. In("woken")' = {}
      BY <3>1, <2>4 DEF Wait, In
    <3> QED
      BY <1>2, <3>1, <3>2, EmptySeq DEF HostInv
  <2>5. ASSUME NEW t \in Tasks, Begin(t), ready # <<>>, In("woken") \subseteq {t},
               phase[t] \in {"called", "woken"}, barged' = barged
        PROVE  HostInv'
    <3>0. <<>> \in Seq(Tasks) /\ Append(<<>>, t) = <<t>> /\ Len(<<>>) = 0 /\ Len(<<t>>) = 1
      BY EmptySeq
    <3>1. ready' = <<>> \/ ready' = <<t>>
      BY <2>2, <2>5, <3>0 DEF Begin
    <3>2. In("woken")' = {}
      BY <1>2, <2>5, BeginCounts
    <3>3. Len(ready') <= 1
      <4>1. Len(ready') \in {0, 1}
        BY <3>0, <3>1, Zenon
      <4>2. \A n \in {0, 1} : n <= 1
        OBVIOUS
      <4> QED
        BY <4>1, <4>2, Zenon
    <3> QED
      BY <1>2, <2>5, <3>2, <3>3 DEF HostInv
  <2>6. ASSUME NEW t \in Tasks, StartNow(t) PROVE HostInv'
    <3>1. In("woken") = {}
      BY <2>1, <2>6 DEF StartNow
    <3> QED
      BY <2>5, <2>6, <3>1 DEF StartNow, AtHead
  <2>7. ASSUME NEW t \in Tasks, Resume(t) PROVE HostInv'
    <3>1. ready = <<t>> /\ In("woken") \subseteq {t}
      BY <1>2, <2>7 DEF Resume, AtHead, In, HostInv
    <3> QED
      BY <2>5, <2>7, <3>1 DEF Resume, AtHead
  <2>8. ASSUME NEW t \in Tasks, Return(t) PROVE HostInv'
    <3>1. Leave(t, {}) /\ In("woken") = {} /\ Tail(ready) = <<>> /\ barged' = barged
      BY <2>1, <2>2, <2>8 DEF Return, Leave, AtHead
    <3>2. In("woken")' = Wake
      BY <1>2, <3>1, LeaveCounts
    <3>3. CASE queue = <<>>
      <4>1. ready' = <<>> /\ In("woken")' = {}
        BY <2>8, <3>1, <3>2, <3>3 DEF Return, Behind, Wake
      <4> QED
        BY <1>2, <3>1, <4>1, EmptySeq DEF HostInv
    <3>4. CASE queue # <<>>
      <4>1. ready' = Append(<<>>, Head(queue)) /\ In("woken")' = {Head(queue)}
        BY <2>8, <3>1, <3>2, <3>4 DEF Return, Behind, Wake
      <4>2. ready' = <<Head(queue)>> /\ Len(ready') = 1
        BY <4>1
      <4> QED
        BY <1>2, <3>1, <4>1, <4>2 DEF HostInv
    <3> QED
      BY <3>3, <3>4
  <2>9. \A t, u \in Tasks : ~ReturnAndCall(t, u)
    BY HostUse DEF ReturnAndCall, HostUse
  <2> QED
    BY <1>2, <2>3, <2>4, <2>6, <2>7, <2>8, <2>9 DEF Next, Microtask
<1>3. HostInv /\ UNCHANGED vars => HostInv'
  BY DEF HostInv, vars, In
<1>4. IInv /\ HostInv => Bounded
  BY FinitePhases, PoolAssumption
     DEF IInv, PoolInv, TypeOK, HostInv, Bounded, PoolAssumption
<1>5. IInv /\ HostInv /\ [Next]_vars => HostInv'
  BY <1>2, <1>3
<1> QED
  BY Invariant, <1>1, <1>4, <1>5, PTL DEF Spec
=============================================================================
