-------------------------- MODULE BrowserWindowProofs --------------------------
(***************************************************************************)
(* Proofs about BrowserWindow, for any tabs, pages, topics and streams and *)
(* any number of listeners and messages.  A tab that is not open left      *)
(* nothing behind; a tab under one of the browser's own addresses has      *)
(* contents only if they were hidden; subscriptions and streams are the    *)
(* inverse of each other; and the last message under way from a page says  *)
(* whether it has listeners.                                               *)
(***************************************************************************)
EXTENDS BrowserWindow, SequenceTheorems, TLAPS

USE BrowserWindowAssumption DEF BrowserWindowAssumption

\* Nothing is left of a tab that is not open.
ClosedInv ==
  \A t \in Tabs : ~IsOpen(t) =>
    /\ url[t] = Internal /\ shown[t] = None /\ pending[t] = None
    /\ mail[t] = <<>>
    /\ \A x \in Topics : listeners[<<t, x>>] = 0 /\ sub[<<t, x>>] = None

\* What is behind one of the browser's own addresses was hidden.
HiddenInv ==
  \A t \in Tabs : url[t] = Internal /\ (shown[t] # None \/ pending[t] # None) => t \in hidden

\* A subscription's stream runs, for its tab and topic; and every stream that
\* runs is a subscription's.
StreamInv ==
  /\ \A k \in Tabs \X Topics : sub[k] # None => running[sub[k]] = k
  /\ NoStreamLeaks

\* The last message about a topic tells whether the page still listens to it.
MailInv ==
  \A t \in Tabs, x \in Topics : \A i \in DOMAIN mail[t] :
    mail[t][i][2] = x /\ (\A j \in DOMAIN mail[t] : j > i => mail[t][j][2] # x) =>
      (mail[t][i][1] = "subscribe" <=> listeners[<<t, x>>] > 0)

IInv ==
  /\ TypeOK /\ ClosedInv /\ AttachedIsActive /\ HiddenInv /\ StreamInv /\ MailInv /\ ListenersServed

-----------------------------------------------------------------------------
(* The order of the tabs                                                   *)
OpenOK(s) ==
  /\ s \in Seq(Tabs)
  /\ \A i, j \in DOMAIN s : s[i] = s[j] => i = j

\* A tab that is opened comes last.
LEMMA Opening ==
  ASSUME OpenOK(open), NEW t \in Tabs, ~IsOpen(t), open' = Append(open, t)
  PROVE  /\ OpenOK(open)'
         /\ \A u \in Tabs : IsOpen(u)' <=> IsOpen(u) \/ u = t
<1>1. /\ Len(open) \in Nat /\ DOMAIN open = 1 .. Len(open)
      /\ \A i \in 1 .. Len(open) : open[i] # t
  BY LenProperties DEF OpenOK, IsOpen
<1>2. /\ open' \in Seq(Tabs) /\ Len(open') = Len(open) + 1 /\ DOMAIN open' = 1 .. Len(open) + 1
      /\ \A i \in 1 .. Len(open) : open'[i] = open[i]
      /\ open'[Len(open) + 1] = t
  BY <1>1, AppendProperties, LenProperties DEF OpenOK
<1>3. \A i, j \in DOMAIN open' : open'[i] = open'[j] => i = j
  <2> SUFFICES ASSUME NEW i \in DOMAIN open', NEW j \in DOMAIN open', open'[i] = open'[j] PROVE i = j
    OBVIOUS
  <2>1. i \in 1 .. Len(open) \/ i = Len(open) + 1
    BY <1>1, <1>2
  <2>2. j \in 1 .. Len(open) \/ j = Len(open) + 1
    BY <1>1, <1>2
  <2> QED
    BY <1>1, <1>2, <2>1, <2>2 DEF OpenOK
<1>4. \A u \in Tabs : IsOpen(u)' <=> IsOpen(u) \/ u = t
  <2> TAKE u \in Tabs
  <2>1. ASSUME NEW i \in DOMAIN open', open'[i] = u PROVE IsOpen(u) \/ u = t
    <3>1. i \in 1 .. Len(open) \/ i = Len(open) + 1
      BY <1>1, <1>2
    <3> QED
      BY <1>1, <1>2, <2>1, <3>1 DEF IsOpen
  <2>2. ASSUME IsOpen(u) \/ u = t PROVE \E i \in DOMAIN open' : open'[i] = u
    <3>1. \A i \in 1 .. Len(open) : i \in DOMAIN open'
      BY <1>1, <1>2
    <3>2. Len(open) + 1 \in DOMAIN open'
      BY <1>1, <1>2
    <3> QED
      BY <1>1, <1>2, <2>2, <3>1, <3>2 DEF IsOpen
  <2> QED
    BY <2>1, <2>2 DEF IsOpen
<1> QED
  BY <1>2, <1>3, <1>4 DEF OpenOK

\* A tab has one place.
LEMMA Place ==
  ASSUME OpenOK(open), NEW t \in Tabs, IsOpen(t)
  PROVE  /\ Len(open) \in Nat \ {0} /\ DOMAIN open = 1 .. Len(open)
         /\ At(t) \in 1 .. Len(open) /\ open[At(t)] = t
         /\ \A i \in 1 .. Len(open) : i # At(t) => open[i] # t
<1>1. Len(open) \in Nat /\ DOMAIN open = 1 .. Len(open)
  BY LenProperties DEF OpenOK
<1>2. At(t) \in DOMAIN open /\ open[At(t)] = t
  BY DEF At, IsOpen
<1> QED
  BY <1>1, <1>2 DEF OpenOK

\* The others keep their order when one is closed.
LEMMA Closing ==
  ASSUME OpenOK(open), NEW t \in Tabs, IsOpen(t), open' = RemoveAt(open, At(t))
  PROVE  /\ OpenOK(open)'
         /\ \A u \in Tabs : IsOpen(u)' <=> IsOpen(u) /\ u # t
<1> DEFINE n == Len(open)
           p == At(t)
           left == SubSeq(open, 1, p - 1)
           right == SubSeq(open, p + 1, n)
<1>1. /\ n \in Nat \ {0} /\ DOMAIN open = 1 .. n /\ p \in 1 .. n /\ open[p] = t
      /\ \A i \in 1 .. n : i # p => open[i] # t
      /\ \A i \in 1 .. n : open[i] \in Tabs
  BY Place, ElementOfSeq DEF OpenOK
<1>2. open' = left \o right
  BY DEF RemoveAt
<1> HIDE DEF n, p
<1>3. /\ left \in Seq(Tabs) /\ Len(left) = p - 1
      /\ \A i \in 1 .. p - 1 : left[i] = open[i]
  <2>1. \A i \in 1 .. p - 1 : open[i] \in Tabs
    BY <1>1
  <2>2. /\ left \in Seq(Tabs) /\ Len(left) = (IF 1 <= p - 1 THEN (p - 1) - 1 + 1 ELSE 0)
        /\ \A i \in 1 .. (p - 1) - 1 + 1 : left[i] = open[1 + i - 1]
    BY <1>1, <2>1, SubSeqProperties
  <2> QED
    BY <1>1, <2>2
<1>4. /\ right \in Seq(Tabs) /\ Len(right) = n - p
      /\ \A i \in 1 .. n - p : right[i] = open[p + i]
  <2>1. \A i \in p + 1 .. n : open[i] \in Tabs
    BY <1>1
  <2>2. /\ right \in Seq(Tabs) /\ Len(right) = (IF p + 1 <= n THEN n - (p + 1) + 1 ELSE 0)
        /\ \A i \in 1 .. n - (p + 1) + 1 : right[i] = open[(p + 1) + i - 1]
    BY <1>1, <2>1, SubSeqProperties
  <2> QED
    BY <1>1, <2>2
<1> HIDE DEF left, right
<1>5. /\ open' \in Seq(Tabs) /\ Len(open') = n - 1 /\ DOMAIN open' = 1 .. n - 1
      /\ \A i \in 1 .. n - 1 : open'[i] = IF i < p THEN open[i] ELSE open[i + 1]
  <2>1. /\ open' \in Seq(Tabs) /\ Len(open') = (p - 1) + (n - p)
        /\ \A i \in 1 .. (p - 1) + (n - p) : open'[i] = IF i <= p - 1 THEN left[i] ELSE right[i - (p - 1)]
    <3>1. left \in Seq(Tabs) /\ right \in Seq(Tabs)
      BY <1>3, <1>4
    <3>2. /\ left \o right \in Seq(Tabs) /\ Len(left \o right) = Len(left) + Len(right)
          /\ \A i \in 1 .. Len(left) + Len(right) :
               (left \o right)[i] = IF i <= Len(left) THEN left[i] ELSE right[i - Len(left)]
      BY <3>1, ConcatProperties
    <3> QED
      BY <1>2, <1>3, <1>4, <3>2
  <2>2. Len(open') = n - 1 /\ DOMAIN open' = 1 .. n - 1
    BY <1>1, <2>1, LenProperties
  <2>3. ASSUME NEW i \in 1 .. n - 1 PROVE open'[i] = IF i < p THEN open[i] ELSE open[i + 1]
    <3>1. CASE i < p
      BY <1>1, <1>3, <2>1, <3>1
    <3>2. CASE ~(i < p)
      <4>1. i - (p - 1) \in 1 .. n - p /\ p + (i - (p - 1)) = i + 1
        BY <1>1, <3>2
      <4>2. open'[i] = right[i - (p - 1)]
        BY <1>1, <2>1, <3>2
      <4> QED
        BY <1>4, <3>2, <4>1, <4>2
    <3> QED
      BY <3>1, <3>2
  <2> QED
    BY <2>1, <2>2, <2>3
<1>6. \A i, j \in DOMAIN open' : open'[i] = open'[j] => i = j
  <2> SUFFICES ASSUME NEW i \in 1 .. n - 1, NEW j \in 1 .. n - 1, open'[i] = open'[j] PROVE i = j
    BY <1>5
  <2> DEFINE a == IF i < p THEN i ELSE i + 1
             b == IF j < p THEN j ELSE j + 1
  <2>1. a \in 1 .. n /\ b \in 1 .. n /\ open[a] = open[b]
    BY <1>1, <1>5
  <2>2. a = b
    BY <1>1, <2>1 DEF OpenOK
  <2> QED
    BY <1>1, <2>2
<1>7. ASSUME NEW u \in Tabs PROVE IsOpen(u)' <=> IsOpen(u) /\ u # t
  <2>1. ASSUME NEW i \in 1 .. n - 1, open'[i] = u PROVE IsOpen(u) /\ u # t
    <3>1. PICK a \in 1 .. n : a # p /\ open[a] = u
      BY <1>1, <1>5, <2>1
    <3> QED
      BY <1>1, <3>1 DEF IsOpen
  <2>2. ASSUME NEW a \in 1 .. n, open[a] = u, u # t PROVE \E i \in 1 .. n - 1 : open'[i] = u
    <3>1. a # p
      BY <1>1, <2>2
    <3>2. CASE a < p
      BY <1>1, <1>5, <2>2, <3>2
    <3>3. CASE a > p
      <4>1. a - 1 \in 1 .. n - 1 /\ ~(a - 1 < p) /\ (a - 1) + 1 = a
        BY <1>1, <3>3
      <4> QED
        BY <1>5, <2>2, <4>1
    <3> QED
      BY <1>1, <3>1, <3>2, <3>3
  <2> QED
    BY <1>1, <1>5, <2>1, <2>2 DEF IsOpen
<1> QED
  BY <1>5, <1>6, <1>7 DEF OpenOK

\* A tab that is not the only one has a neighbour.
LEMMA HasNeighbour ==
  ASSUME OpenOK(open), NEW t \in Tabs, IsOpen(t), Len(open) # 1
  PROVE  Neighbour(t) \in Tabs /\ IsOpen(Neighbour(t)) /\ Neighbour(t) # t
<1>1. /\ Len(open) \in Nat \ {0} /\ DOMAIN open = 1 .. Len(open) /\ At(t) \in 1 .. Len(open)
      /\ \A i \in 1 .. Len(open) : i # At(t) => open[i] # t
  BY Place
<1>2. PICK i \in 1 .. Len(open) : i # At(t) /\ Neighbour(t) = open[i]
  BY <1>1 DEF Neighbour
<1> QED
  BY <1>1, <1>2, ElementOfSeq DEF OpenOK, IsOpen

-----------------------------------------------------------------------------
\* The initial states satisfy the inductive invariant.
LEMMA InitInv == Init => IInv
<1> SUFFICES ASSUME Init PROVE IInv
  OBVIOUS
<1>1. PICK t \in Tabs : open = <<t>> /\ active = t
  BY DEF Init
<1>2. open \in Seq(Tabs) /\ IsOpen(active) /\ Len(open) = 1 /\ DOMAIN open = 1 .. 1
  BY <1>1 DEF IsOpen
<1>3. TypeOK
  BY <1>2 DEF Init, TypeOK, Addresses
<1>4. ClosedInv /\ AttachedIsActive /\ HiddenInv
  BY DEF Init, ClosedInv, AttachedIsActive, HiddenInv
<1>5. StreamInv /\ MailInv /\ ListenersServed
  BY DEF Init, StreamInv, NoStreamLeaks, MailInv, ListenersServed
<1> QED
  BY <1>3, <1>4, <1>5 DEF IInv

-----------------------------------------------------------------------------
(* Types, part by part                                                     *)
TabsType ==
  /\ OpenOK(open) /\ IsOpen(active)
  /\ attached \subseteq Tabs /\ hidden \subseteq Tabs
  /\ url \in [Tabs -> Addresses]
ContentsType ==
  /\ shown \in [Tabs -> Pages \cup {None}]
  /\ pending \in [Tabs -> Pages \cup {None}]
  /\ loading \in [Tabs -> BOOLEAN]
PageType ==
  /\ listeners \in [Tabs \X Topics -> 0 .. MaxListeners]
  /\ mail \in [Tabs -> Seq(Messages)]
StreamsType ==
  /\ sub \in [Tabs \X Topics -> Streams \cup {None}]
  /\ running \in [Streams -> (Tabs \X Topics) \cup {None}]
  /\ cut \subseteq Tabs \X Topics
  /\ inherited \subseteq Streams

LEMMA TypeParts == TypeOK <=> TabsType /\ ContentsType /\ PageType /\ StreamsType
BY DEF TypeOK, TabsType, ContentsType, PageType, StreamsType, OpenOK

\* The tab that is active is one of the tabs.
LEMMA ActiveTab ==
  ASSUME TabsType
  PROVE  active \in Tabs /\ url[active] \in Addresses
<1>1. \A i \in DOMAIN open : open[i] \in Tabs
  BY ElementOfSeq, LenProperties DEF TabsType, OpenOK
<1> QED
  BY <1>1 DEF TabsType, IsOpen

\* Three parts of the invariant speak of the streams and the pages' listeners.
ServiceInv == StreamInv /\ MailInv /\ ListenersServed

\* They are kept by whatever leaves these alone, and closes no tab.
LEMMA ServiceKept ==
  ASSUME TypeOK, ServiceInv, UNCHANGED <<page, streams>>, \A u \in Tabs : IsOpen(u) => IsOpen(u)'
  PROVE  ServiceInv' /\ PageType' /\ StreamsType'
<1> USE TypeParts DEF page, streams
<1>1. PageType' /\ StreamsType'
  BY DEF PageType, StreamsType
<1>2. StreamInv'
  <2>1. \A s \in Streams : running[s] # None => running[s][1] \in Tabs
    BY DEF StreamsType
  <2> QED
    BY <2>1 DEF ServiceInv, StreamInv, NoStreamLeaks
<1>3. MailInv' /\ ListenersServed'
  BY DEF ServiceInv, MailInv, ListenersServed, Quiet
<1> QED
  BY <1>1, <1>2, <1>3 DEF ServiceInv

\* clearSubscriptions() ends the streams of one tab and no other.
LEMMA ClearEffect ==
  ASSUME StreamsType, StreamInv, NEW t \in Tabs, Clear(t)
  PROVE  /\ sub' \in [Tabs \X Topics -> Streams \cup {None}]
         /\ running' \in [Streams -> (Tabs \X Topics) \cup {None}]
         /\ inherited' \subseteq inherited
         /\ \A k \in Tabs \X Topics : k[1] = t => sub'[k] = None
         /\ \A k \in Tabs \X Topics : k[1] # t =>
              /\ sub'[k] = sub[k]
              /\ sub[k] # None => running'[sub[k]] = k
              /\ sub[k] \in inherited => sub[k] \in inherited'
         /\ \A s \in Streams : running'[s] # None =>
              /\ running'[s] = running[s] /\ running[s] \in Tabs \X Topics /\ running[s][1] # t
              /\ sub'[running[s]] = s
<1>1. /\ running' = [s \in Streams |-> IF s \in StreamsOf(t) THEN None ELSE running[s]]
      /\ sub' = [k \in Tabs \X Topics |-> IF k[1] = t THEN None ELSE sub[k]]
      /\ inherited' = inherited \ StreamsOf(t)
  BY DEF Clear, Cancelled
<1>2. ASSUME NEW k \in Tabs \X Topics, sub[k] \in StreamsOf(t) PROVE k[1] = t
  <2>1. PICK x \in Topics : sub[k] = sub[<<t, x>>] /\ sub[k] # None
    BY <1>2 DEF StreamsOf
  <2>2. running[sub[k]] = k /\ running[sub[k]] = <<t, x>>
    BY <2>1 DEF StreamInv
  <2> QED
    BY <2>2
<1>3. ASSUME NEW k \in Tabs \X Topics, k[1] = t, sub[k] # None PROVE sub[k] \in StreamsOf(t)
  <2>1. k = <<t, k[2]>> /\ k[2] \in Topics
    BY <1>3
  <2> QED
    BY <1>3, <2>1 DEF StreamsOf
<1>4. /\ sub' \in [Tabs \X Topics -> Streams \cup {None}]
      /\ running' \in [Streams -> (Tabs \X Topics) \cup {None}]
      /\ inherited' \subseteq inherited
  BY <1>1 DEF StreamsType
<1>5. ASSUME NEW k \in Tabs \X Topics, k[1] # t
      PROVE  /\ sub'[k] = sub[k]
             /\ sub[k] # None => running'[sub[k]] = k
             /\ sub[k] \in inherited => sub[k] \in inherited'
  BY <1>1, <1>2, <1>5 DEF StreamsType, StreamInv
<1>6. ASSUME NEW s \in Streams, running'[s] # None
      PROVE  /\ running'[s] = running[s] /\ running[s] \in Tabs \X Topics /\ running[s][1] # t
             /\ sub'[running[s]] = s
  <2>1. running'[s] = running[s] /\ s \notin StreamsOf(t) /\ running[s] \in Tabs \X Topics
    BY <1>1, <1>6 DEF StreamsType
  <2>2. sub[running[s]] = s
    BY <1>6, <2>1 DEF StreamInv, NoStreamLeaks
  <2>3. running[s][1] # t
    BY <1>3, <2>1, <2>2
  <2> QED
    BY <1>1, <2>1, <2>2, <2>3
<1>7. \A k \in Tabs \X Topics : k[1] = t => sub'[k] = None
  BY <1>1
<1> QED
  BY <1>4, <1>5, <1>6, <1>7

\* A navigation that starts cancels the streams of its tab under the page.
LEMMA ServiceCut ==
  ASSUME TypeOK, ServiceInv, NEW t \in Tabs, Clear(t), UNCHANGED page,
         cut' = cut \cup {k \in {t} \X Topics : listeners[k] > 0},
         \A u \in Tabs : IsOpen(u) => IsOpen(u)'
  PROVE  ServiceInv' /\ PageType' /\ StreamsType'
<1> USE TypeParts DEF page, ServiceInv
<1>0. StreamsType /\ PageType
  OBVIOUS
<1>1. PageType' /\ StreamsType'
  <2>1. PageType'
    BY <1>0 DEF PageType
  <2>2. /\ sub' \in [Tabs \X Topics -> Streams \cup {None}]
        /\ running' \in [Streams -> (Tabs \X Topics) \cup {None}]
        /\ inherited' \subseteq inherited
    BY <1>0, ClearEffect
  <2>3. cut' \subseteq Tabs \X Topics
    BY <1>0 DEF StreamsType
  <2> QED
    BY <1>0, <2>1, <2>2, <2>3 DEF StreamsType
<1>2. StreamInv'
  <2>1. ASSUME NEW k \in Tabs \X Topics, sub'[k] # None PROVE running'[sub'[k]] = k
    BY <1>0, <2>1, ClearEffect
  <2>2. ASSUME NEW s \in Streams, running'[s] # None
        PROVE  sub'[running'[s]] = s /\ IsOpen(running[s][1])'
    <3>1. running'[s] = running[s] /\ running[s] \in Tabs \X Topics /\ sub'[running[s]] = s
      BY <1>0, <2>2, ClearEffect
    <3>2. PICK u \in Tabs : u = running[s][1] /\ IsOpen(u)
      BY <2>2, <3>1 DEF StreamInv, NoStreamLeaks
    <3>3. IsOpen(u)'
      BY <3>2
    <3>4. running'[s][1] = u
      BY <3>1, <3>2
    <3> QED
      BY <3>1, <3>3, <3>4
  <2> QED
    BY <2>1, <2>2 DEF StreamInv, NoStreamLeaks
<1>3. MailInv'
  BY DEF MailInv
<1>4. ListenersServed'
  <2> SUFFICES ASSUME NEW u \in Tabs, NEW x \in Topics, Quiet(u, x)'
               PROVE  /\ listeners[<<u, x>>] > 0 => sub'[<<u, x>>] # None \/ <<u, x>> \in cut'
                      /\ sub'[<<u, x>>] # None => listeners[<<u, x>>] > 0 \/ sub'[<<u, x>>] \in inherited'
    BY DEF ListenersServed
  <2>0. <<u, x>> \in Tabs \X Topics /\ <<u, x>>[1] = u
    OBVIOUS
  <2>1. CASE u = t
    BY <1>0, <2>0, <2>1, ClearEffect
  <2>2. CASE u # t
    <3>1. /\ sub'[<<u, x>>] = sub[<<u, x>>]
          /\ sub[<<u, x>>] \in inherited => sub[<<u, x>>] \in inherited'
      BY <1>0, <2>0, <2>2, ClearEffect
    <3>2. Quiet(u, x)
      BY DEF Quiet
    <3> QED
      BY <3>1, <3>2 DEF ListenersServed
  <2> QED
    BY <2>1, <2>2
<1> QED
  BY <1>1, <1>2, <1>3, <1>4

-----------------------------------------------------------------------------
(* Steps of the browser's controller                                       *)

\* The parts that speak of tabs and their views, and of what is in the tabs.
ViewInv == ClosedInv /\ AttachedIsActive /\ HiddenInv

LEMMA Parts ==
  IInv <=> TabsType /\ ContentsType /\ PageType /\ StreamsType /\ ViewInv /\ ServiceInv
BY TypeParts DEF IInv, ViewInv, ServiceInv

LEMMA PartsNext ==
  TabsType' /\ ContentsType' /\ PageType' /\ StreamsType' /\ ViewInv' /\ ServiceInv' => IInv'
BY DEF IInv, ViewInv, ServiceInv, TypeOK, TabsType, ContentsType, PageType, StreamsType, OpenOK

\* At most the view of the active tab is taken away when another is selected.
LEMMA SelectStep ==
  ASSUME IInv, NEW t \in Tabs, SelectTab(t)
  PROVE  IInv'
<1> USE Parts
<1>0. /\ TabsType /\ ContentsType /\ PageType /\ StreamsType /\ ServiceInv /\ TypeOK
      /\ ClosedInv /\ AttachedIsActive /\ HiddenInv
  BY TypeParts DEF ViewInv
<1>1. /\ IsOpen(t) /\ active' = t
      /\ attached' = (attached \ {active}) \cup Shown(t, url[t])
      /\ hidden' = hidden \ Shown(t, url[t])
      /\ UNCHANGED <<open, url, shown, pending, loading, page, streams>>
  BY DEF SelectTab, Select, Detached, contents
<1>2. TabsType' /\ ContentsType'
  BY <1>0, <1>1 DEF TabsType, ContentsType, Shown, OpenOK, IsOpen
<1>3. ServiceInv' /\ PageType' /\ StreamsType'
  BY <1>0, <1>1, ServiceKept DEF IsOpen
<1>4. ClosedInv'
  BY <1>0, <1>1 DEF ClosedInv, IsOpen, page, streams
<1>5. AttachedIsActive' /\ HiddenInv'
  BY <1>0, <1>1, ActiveTab DEF AttachedIsActive, HiddenInv, Shown, Addresses
<1> QED
  BY <1>2, <1>3, <1>4, <1>5, PartsNext DEF ViewInv

\* A new tab has nothing of an earlier one's.
LEMMA CreateStep ==
  ASSUME IInv, NEW t \in Tabs, NEW a \in Addresses, CreateTab(t, a)
  PROVE  IInv'
<1> USE Parts
<1>0. /\ TabsType /\ ContentsType /\ PageType /\ StreamsType /\ ServiceInv /\ TypeOK
      /\ ClosedInv /\ AttachedIsActive /\ HiddenInv
  BY TypeParts DEF ViewInv
<1>1. /\ ~IsOpen(t) /\ open' = Append(open, t) /\ active' = t
      /\ url' = [url EXCEPT ![t] = a]
      /\ attached' = (attached \ {active}) \cup Shown(t, a)
      /\ hidden' = hidden \ Shown(t, a)
      /\ UNCHANGED page
  BY DEF CreateTab, Select, Detached
<1>2. OpenOK(open)' /\ \A u \in Tabs : IsOpen(u)' <=> IsOpen(u) \/ u = t
  BY <1>0, <1>1, Opening DEF TabsType
<1>3. \/ a \in Pages /\ StartNavigation(t, a)
      \/ a = Internal /\ UNCHANGED <<contents, streams>>
  BY DEF CreateTab, Addresses
<1>4. TabsType'
  <2>1. IsOpen(t)'
    BY <1>2
  <2>2. IsOpen(active)'
    BY <1>1, <2>1 DEF IsOpen
  <2> QED
    BY <1>0, <1>1, <1>2, <2>2 DEF TabsType, Shown
<1>5. /\ ContentsType' /\ shown' = shown
      /\ \A u \in Tabs \ {t} : pending'[u] = pending[u]
      /\ a = Internal => pending' = pending
  BY <1>0, <1>3 DEF StartNavigation, ContentsType, contents
<1>6. ServiceInv' /\ PageType' /\ StreamsType'
  <2>1. CASE a \in Pages /\ StartNavigation(t, a)
    BY <1>0, <1>1, <1>2, <2>1, ServiceCut DEF StartNavigation
  <2>2. CASE UNCHANGED streams
    BY <1>0, <1>1, <1>2, <2>2, ServiceKept
  <2> QED
    BY <1>3, <2>1, <2>2 DEF contents
<1>7. ClosedInv'
  <2> SUFFICES ASSUME NEW u \in Tabs, ~IsOpen(u)'
               PROVE  /\ url'[u] = Internal /\ shown'[u] = None /\ pending'[u] = None /\ mail'[u] = <<>>
                      /\ \A x \in Topics : listeners'[<<u, x>>] = 0 /\ sub'[<<u, x>>] = None
    BY DEF ClosedInv
  <2>1. ~IsOpen(u) /\ u # t
    BY <1>2
  <2>2. \A x \in Topics : sub[<<u, x>>] = None => sub'[<<u, x>>] = None
    <3>1. CASE Clear(t)
      BY <3>1, <2>1 DEF Clear
    <3>2. CASE UNCHANGED streams
      BY <3>2 DEF streams
    <3> QED
      BY <1>3, <3>1, <3>2 DEF StartNavigation, contents
  <2> QED
    BY <1>0, <1>1, <1>5, <2>1, <2>2 DEF ClosedInv, page, TabsType
<1>8. AttachedIsActive'
  BY <1>0, <1>1, ActiveTab DEF AttachedIsActive, Shown, Addresses, TabsType, ClosedInv
<1>9. HiddenInv'
  BY <1>0, <1>1, <1>5 DEF HiddenInv, Shown, Addresses, TabsType, ClosedInv
<1> QED
  BY <1>4, <1>5, <1>6, <1>7, <1>8, <1>9, PartsNext DEF ViewInv

\* closeTab() of the only tab starts over; of the active one, shows its neighbour.
LEMMA CloseStep ==
  ASSUME IInv, NEW t \in Tabs, CloseTab(t)
  PROVE  IInv'
<1> USE Parts
<1>0. /\ TabsType /\ ContentsType /\ PageType /\ StreamsType /\ ServiceInv /\ StreamInv
      /\ ClosedInv /\ AttachedIsActive /\ HiddenInv /\ active \in Tabs
  BY TypeParts, ActiveTab DEF ViewInv, ServiceInv
<1> DEFINE next == IF t = active THEN Neighbour(t) ELSE active
           address == IF t = active THEN url[next] ELSE Internal
<1>1. /\ IsOpen(t) /\ Clear(t)
      /\ cut' = {k \in cut : k[1] # t}
      /\ shown' = [shown EXCEPT ![t] = None] /\ pending' = [pending EXCEPT ![t] = None]
      /\ loading' = [loading EXCEPT ![t] = FALSE]
      /\ listeners' = [k \in Tabs \X Topics |-> IF k[1] = t THEN 0 ELSE listeners[k]]
      /\ mail' = [mail EXCEPT ![t] = <<>>]
      /\ url' = [url EXCEPT ![t] = Internal]
  BY DEF CloseTab
<1>2. \/ /\ Len(open) = 1
         /\ \E n \in Tabs : open' = <<n>> /\ active' = n
         /\ attached' = {} /\ hidden' = {}
      \/ /\ Len(open) # 1
         /\ open' = RemoveAt(open, At(t)) /\ active' = next
         /\ attached' = (attached \ {t}) \cup Shown(next, address)
         /\ hidden' = (hidden \ {t}) \ Shown(next, address)
  BY DEF CloseTab
<1> HIDE DEF next, address
<1>3. ASSUME Len(open) = 1 PROVE \A u \in Tabs : IsOpen(u) => u = t
  BY <1>0, <1>1, <1>3, LenProperties DEF TabsType, OpenOK, IsOpen
<1>4. Len(open) # 1 => next \in Tabs /\ IsOpen(next) /\ next # t
  BY <1>0, <1>1, HasNeighbour DEF next, TabsType
<1>5. /\ OpenOK(open)' /\ IsOpen(active)'
      /\ \A u \in Tabs : u # t => (IsOpen(u) => IsOpen(u)')
      /\ \A u \in Tabs : ~IsOpen(u)' /\ u # t => ~IsOpen(u)
  <2>1. CASE Len(open) = 1
    <3>1. PICK n \in Tabs : open' = <<n>> /\ active' = n
      BY <1>2, <2>1
    <3>2. open' \in Seq(Tabs) /\ Len(open') = 1 /\ DOMAIN open' = 1 .. 1 /\ open'[1] = n
      BY <3>1
    <3> QED
      BY <1>3, <2>1, <3>1, <3>2 DEF OpenOK, IsOpen
  <2>2. CASE Len(open) # 1
    <3>1. OpenOK(open)' /\ \A u \in Tabs : IsOpen(u)' <=> IsOpen(u) /\ u # t
      BY <1>0, <1>1, <1>2, <2>2, Closing DEF TabsType
    <3>2. PICK n \in Tabs : active' = n /\ IsOpen(n) /\ n # t
      BY <1>2, <1>4, <2>2
    <3>3. IsOpen(n)'
      BY <3>1, <3>2
    <3>4. IsOpen(active)'
      BY <3>2, <3>3 DEF IsOpen
    <3> QED
      BY <3>1, <3>4
  <2> QED
    BY <2>1, <2>2
<1>6. TabsType' /\ ContentsType'
  <2>1. attached' \subseteq Tabs /\ hidden' \subseteq Tabs
    BY <1>0, <1>2, <1>4 DEF TabsType, Shown
  <2>2. url' \in [Tabs -> Addresses] /\ ContentsType'
    BY <1>0, <1>1 DEF TabsType, ContentsType, Addresses
  <2> QED
    BY <1>5, <2>1, <2>2 DEF TabsType
<1>7. PageType' /\ StreamsType'
  <2>1. PageType'
    BY <1>0, <1>1 DEF PageType
  <2>2. /\ sub' \in [Tabs \X Topics -> Streams \cup {None}]
        /\ running' \in [Streams -> (Tabs \X Topics) \cup {None}]
        /\ inherited' \subseteq inherited
    BY <1>0, <1>1, ClearEffect
  <2> QED
    BY <1>0, <1>1, <2>1, <2>2 DEF StreamsType
<1>8. StreamInv'
  <2>1. ASSUME NEW k \in Tabs \X Topics, sub'[k] # None PROVE running'[sub'[k]] = k
    BY <1>0, <1>1, <2>1, ClearEffect
  <2>2. ASSUME NEW s \in Streams, running'[s] # None
        PROVE  sub'[running'[s]] = s /\ IsOpen(running[s][1])'
    <3>1. /\ running'[s] = running[s] /\ running[s] \in Tabs \X Topics /\ sub'[running[s]] = s
          /\ running[s][1] # t
      BY <1>0, <1>1, <2>2, ClearEffect
    <3>2. PICK u \in Tabs : u = running[s][1] /\ IsOpen(u)
      BY <1>0, <2>2, <3>1 DEF StreamInv, NoStreamLeaks
    <3>3. IsOpen(u)'
      BY <1>5, <3>1, <3>2
    <3>4. running'[s][1] = u
      BY <3>1, <3>2
    <3> QED
      BY <3>1, <3>3, <3>4
  <2> QED
    BY <2>1, <2>2 DEF StreamInv, NoStreamLeaks
<1>9. MailInv'
  <2> SUFFICES ASSUME NEW u \in Tabs, NEW x \in Topics, NEW i \in DOMAIN mail'[u],
                      mail'[u][i][2] = x, \A j \in DOMAIN mail'[u] : j > i => mail'[u][j][2] # x
               PROVE  mail'[u][i][1] = "subscribe" <=> listeners'[<<u, x>>] > 0
    BY DEF MailInv
  <2>1. u # t
    BY <1>0, <1>1 DEF PageType
  <2>2. mail'[u] = mail[u] /\ listeners'[<<u, x>>] = listeners[<<u, x>>]
    BY <1>0, <1>1, <2>1 DEF PageType
  <2> QED
    BY <1>0, <2>2 DEF ServiceInv, MailInv
<1>10. ListenersServed'
  <2> SUFFICES ASSUME NEW u \in Tabs, NEW x \in Topics, Quiet(u, x)'
               PROVE  /\ listeners'[<<u, x>>] > 0 => sub'[<<u, x>>] # None \/ <<u, x>> \in cut'
                      /\ sub'[<<u, x>>] # None => listeners'[<<u, x>>] > 0 \/ sub'[<<u, x>>] \in inherited'
    BY DEF ListenersServed
  <2>0. <<u, x>> \in Tabs \X Topics /\ <<u, x>>[1] = u
    OBVIOUS
  <2>1. CASE u = t
    BY <1>0, <1>1, <2>0, <2>1, ClearEffect
  <2>2. CASE u # t
    <3>1. /\ sub'[<<u, x>>] = sub[<<u, x>>]
          /\ sub[<<u, x>>] \in inherited => sub[<<u, x>>] \in inherited'
      BY <1>0, <1>1, <2>0, <2>2, ClearEffect
    <3>2. listeners'[<<u, x>>] = listeners[<<u, x>>] /\ mail'[u] = mail[u]
      BY <1>0, <1>1, <2>0, <2>2 DEF PageType
    <3>3. Quiet(u, x)
      BY <3>2 DEF Quiet
    <3>4. <<u, x>> \in cut => <<u, x>> \in cut'
      BY <1>1, <2>0, <2>2
    <3> QED
      BY <1>0, <3>1, <3>2, <3>3, <3>4 DEF ServiceInv, ListenersServed
  <2> QED
    BY <2>1, <2>2
<1>11. ClosedInv'
  <2> SUFFICES ASSUME NEW u \in Tabs, ~IsOpen(u)'
               PROVE  /\ url'[u] = Internal /\ shown'[u] = None /\ pending'[u] = None /\ mail'[u] = <<>>
                      /\ \A x \in Topics : listeners'[<<u, x>>] = 0 /\ sub'[<<u, x>>] = None
    BY DEF ClosedInv
  <2>1. \A x \in Topics : <<u, x>> \in Tabs \X Topics /\ <<u, x>>[1] = u
    OBVIOUS
  <2>2. CASE u = t
    BY <1>0, <1>1, <2>1, <2>2, ClearEffect DEF TabsType, ContentsType, PageType
  <2>3. CASE u # t
    <3>1. /\ url[u] = Internal /\ shown[u] = None /\ pending[u] = None /\ mail[u] = <<>>
          /\ \A x \in Topics : listeners[<<u, x>>] = 0 /\ sub[<<u, x>>] = None
      BY <1>0, <1>5, <2>3 DEF ClosedInv
    <3>2. \A x \in Topics : listeners'[<<u, x>>] = 0 /\ sub'[<<u, x>>] = None
      BY <1>0, <1>1, <2>1, <2>3, <3>1, ClearEffect
    <3> QED
      BY <1>0, <1>1, <2>3, <3>1, <3>2 DEF TabsType, ContentsType, PageType
  <2> QED
    BY <2>2, <2>3
<1>12. AttachedIsActive' /\ HiddenInv'
  <2>1. CASE Len(open) = 1
    <3>1. PICK n \in Tabs : active' = n /\ attached' = {} /\ hidden' = {}
      BY <1>2, <2>1
    <3>2. \A u \in Tabs : url'[u] = Internal /\ shown'[u] = None /\ pending'[u] = None
      BY <1>0, <1>1, <1>3, <2>1 DEF ClosedInv, TabsType, ContentsType
    <3> QED
      BY <3>1, <3>2 DEF AttachedIsActive, HiddenInv
  <2>2. CASE Len(open) # 1
    <3>1. /\ active' = next /\ next # t /\ next \in Tabs
          /\ attached' = (attached \ {t}) \cup Shown(next, address)
          /\ hidden' = (hidden \ {t}) \ Shown(next, address)
      BY <1>2, <1>4, <2>2
    <3>2. url'[next] = url[next] /\ url[next] \in Addresses
      BY <1>0, <1>1, <3>1 DEF TabsType
    <3>3. CASE t = active
      <4>1. attached \subseteq {t} /\ address = url[next]
        BY <1>0, <3>3 DEF AttachedIsActive, address
      <4>2. AttachedIsActive'
        BY <3>1, <3>2, <4>1 DEF AttachedIsActive, Shown
      <4>3. HiddenInv'
        BY <1>0, <1>1, <3>1, <3>2, <4>1 DEF HiddenInv, Shown, TabsType, ContentsType
      <4> QED
        BY <4>2, <4>3
    <3>4. CASE t # active
      <4>1. next = active /\ Shown(next, address) = {}
        BY <3>4 DEF next, address, Shown
      <4>2. AttachedIsActive'
        BY <1>0, <3>1, <3>2, <3>4, <4>1 DEF AttachedIsActive
      <4>3. HiddenInv'
        BY <1>0, <1>1, <3>1, <4>1 DEF HiddenInv, TabsType, ContentsType
      <4> QED
        BY <4>2, <4>3
    <3> QED
      BY <3>3, <3>4
  <2> QED
    BY <2>1, <2>2
<1> QED
  BY <1>6, <1>7, <1>8, <1>9, <1>10, <1>11, <1>12, PartsNext DEF ViewInv, ServiceInv

-----------------------------------------------------------------------------
(* Steps of navigation                                                     *)

\* A navigation starts in an open tab, by the user or by its page.
LEMMA StartStep ==
  ASSUME IInv, NEW p \in Pages, NavigateToPage(p) \/ \E t \in Tabs : PageNavigates(t, p)
  PROVE  IInv'
<1> USE Parts
<1>0. /\ TabsType /\ ContentsType /\ PageType /\ StreamsType /\ ServiceInv /\ TypeOK
      /\ ClosedInv /\ AttachedIsActive /\ HiddenInv /\ active \in Tabs
  BY TypeParts, ActiveTab DEF ViewInv
<1>1. PICK t \in Tabs :
        /\ IsOpen(t) /\ StartNavigation(t, p) /\ UNCHANGED <<open, active, page>>
        /\ \/ UNCHANGED <<attached, url, hidden>> /\ shown[t] # None
           \/ /\ t = active /\ url' = [url EXCEPT ![t] = p]
              /\ attached' = attached \cup {t} /\ hidden' = hidden \ {t}
  <2>1. CASE NavigateToPage(p)
    BY <1>0, <2>1 DEF NavigateToPage, TabsType
  <2>2. ASSUME NEW t \in Tabs, PageNavigates(t, p) PROVE IsOpen(t) /\ shown[t] # None
    BY <1>0, <2>2 DEF PageNavigates, ClosedInv
  <2> QED
    BY <2>1, <2>2 DEF PageNavigates, tabs
<1>2. /\ shown' = shown /\ pending' = [pending EXCEPT ![t] = p] /\ loading' = [loading EXCEPT ![t] = TRUE]
      /\ Clear(t) /\ cut' = cut \cup {k \in {t} \X Topics : listeners[k] > 0}
  BY <1>1 DEF StartNavigation
<1>3. TabsType' /\ ContentsType'
  <2>1. url' \in [Tabs -> Addresses] /\ attached' \subseteq Tabs /\ hidden' \subseteq Tabs
    BY <1>0, <1>1 DEF TabsType, Addresses
  <2> QED
    BY <1>0, <1>1, <1>2, <2>1 DEF TabsType, ContentsType, OpenOK, IsOpen
<1>4. ServiceInv' /\ PageType' /\ StreamsType'
  <2>1. \A u \in Tabs : IsOpen(u) => IsOpen(u)'
    BY <1>1 DEF IsOpen
  <2> QED
    BY <1>0, <1>1, <1>2, <2>1, ServiceCut
<1>5. ClosedInv'
  <2> SUFFICES ASSUME NEW u \in Tabs, ~IsOpen(u)'
               PROVE  /\ url'[u] = Internal /\ shown'[u] = None /\ pending'[u] = None /\ mail'[u] = <<>>
                      /\ \A x \in Topics : listeners'[<<u, x>>] = 0 /\ sub'[<<u, x>>] = None
    BY DEF ClosedInv
  <2>1. ~IsOpen(u) /\ u # t
    BY <1>1 DEF IsOpen
  <2>2. url'[u] = url[u] /\ pending'[u] = pending[u]
    BY <1>0, <1>1, <1>2, <2>1 DEF TabsType, ContentsType
  <2>3. \A x \in Topics : sub'[<<u, x>>] = sub[<<u, x>>]
    BY <1>2, <2>1 DEF Clear
  <2> QED
    BY <1>0, <1>1, <1>2, <2>1, <2>2, <2>3 DEF ClosedInv, page
<1>6. AttachedIsActive'
  BY <1>0, <1>1 DEF AttachedIsActive, TabsType
<1>7. HiddenInv'
  BY <1>0, <1>1, <1>2 DEF HiddenInv, TabsType, ContentsType
<1> QED
  BY <1>3, <1>4, <1>5, <1>6, <1>7, PartsNext DEF ViewInv

\* Neither a change of the page's own address nor an internal one starts a page.
LEMMA StayStep ==
  ASSUME IInv, NavigateToInternal \/ \E t \in Tabs : NavigateInPage(t)
  PROVE  IInv'
<1> USE Parts
<1>0. /\ TabsType /\ ContentsType /\ PageType /\ StreamsType /\ ServiceInv /\ TypeOK
      /\ ClosedInv /\ AttachedIsActive /\ HiddenInv /\ active \in Tabs
  BY TypeParts, ActiveTab DEF ViewInv
<1>1. CASE NavigateToInternal
  <2>1. /\ url' = [url EXCEPT ![active] = Internal]
        /\ attached' = attached \ {active} /\ hidden' = hidden \cup {active}
        /\ UNCHANGED <<open, active, shown, pending, loading, page, streams>>
    BY <1>1 DEF NavigateToInternal, contents
  <2>2. TabsType' /\ ContentsType'
    BY <1>0, <2>1 DEF TabsType, ContentsType, Addresses, OpenOK, IsOpen
  <2>3. ServiceInv' /\ PageType' /\ StreamsType'
    BY <1>0, <2>1, ServiceKept DEF IsOpen
  <2>4. ClosedInv' /\ AttachedIsActive' /\ HiddenInv'
    BY <1>0, <2>1 DEF ClosedInv, AttachedIsActive, HiddenInv, IsOpen, TabsType, page, streams
  <2> QED
    BY <2>2, <2>3, <2>4, PartsNext DEF ViewInv
<1>2. ASSUME NEW t \in Tabs, NavigateInPage(t) PROVE IInv'
  <2>1. /\ Clear(t) /\ cut' = cut \cup {k \in {t} \X Topics : listeners[k] > 0}
        /\ UNCHANGED <<tabs, contents, page>>
    BY <1>2 DEF NavigateInPage
  <2>2. TabsType' /\ ContentsType' /\ AttachedIsActive' /\ HiddenInv'
    BY <1>0, <2>1 DEF TabsType, ContentsType, AttachedIsActive, HiddenInv, OpenOK, IsOpen, tabs, contents
  <2>3. ServiceInv' /\ PageType' /\ StreamsType'
    <3>1. \A u \in Tabs : IsOpen(u) => IsOpen(u)'
      BY <2>1 DEF IsOpen, tabs
    <3> QED
      BY <1>0, <2>1, <3>1, ServiceCut
  <2>4. ClosedInv'
    <3>1. \A u \in Tabs, x \in Topics : sub[<<u, x>>] = None => sub'[<<u, x>>] = None
      BY <2>1 DEF Clear
    <3> QED
      BY <1>0, <2>1, <3>1 DEF ClosedInv, IsOpen, tabs, contents, page
  <2> QED
    BY <2>2, <2>3, <2>4, PartsNext DEF ViewInv
<1> QED
  BY <1>1, <1>2

\* A new page has no listeners and has sent nothing; what the old one subscribed
\* while it was being left is the new one's.
LEMMA CommitStep ==
  ASSUME IInv, NEW t \in Tabs, Commit(t)
  PROVE  IInv'
<1> USE Parts
<1>0. /\ TabsType /\ ContentsType /\ PageType /\ StreamsType /\ ServiceInv
      /\ ClosedInv /\ AttachedIsActive /\ HiddenInv /\ active \in Tabs
      /\ StreamInv /\ MailInv /\ ListenersServed
  BY TypeParts, ActiveTab DEF ViewInv, ServiceInv
<1>1. /\ pending[t] # None
      /\ shown' = [shown EXCEPT ![t] = pending[t]] /\ url' = [url EXCEPT ![t] = pending[t]]
      /\ pending' = [pending EXCEPT ![t] = None]
      /\ listeners' = [k \in Tabs \X Topics |-> IF k[1] = t THEN 0 ELSE listeners[k]]
      /\ mail' = [mail EXCEPT ![t] = <<>>]
      /\ cut' = {k \in cut : k[1] # t}
      /\ inherited' = inherited \cup StreamsOf(t)
      /\ UNCHANGED <<open, active, attached, hidden, loading, sub, running>>
  BY DEF Commit
<1>2. IsOpen(t) /\ pending[t] \in Pages
  BY <1>0, <1>1 DEF ClosedInv, ContentsType
<1>3. StreamsOf(t) \subseteq Streams
  BY <1>0 DEF StreamsOf, StreamsType
<1>4. /\ TabsType' /\ ContentsType' /\ PageType' /\ StreamsType'
  <2>1. TabsType'
    BY <1>0, <1>1, <1>2 DEF TabsType, Addresses, OpenOK, IsOpen
  <2>2. ContentsType' /\ PageType'
    BY <1>0, <1>1, <1>2 DEF ContentsType, PageType
  <2>3. StreamsType'
    BY <1>0, <1>1, <1>3 DEF StreamsType
  <2> QED
    BY <2>1, <2>2, <2>3
<1>5. StreamInv'
  BY <1>0, <1>1 DEF StreamInv, NoStreamLeaks, IsOpen
<1>6. MailInv'
  <2> SUFFICES ASSUME NEW u \in Tabs, NEW x \in Topics, NEW i \in DOMAIN mail'[u],
                      mail'[u][i][2] = x, \A j \in DOMAIN mail'[u] : j > i => mail'[u][j][2] # x
               PROVE  mail'[u][i][1] = "subscribe" <=> listeners'[<<u, x>>] > 0
    BY DEF MailInv
  <2>1. u # t
    BY <1>0, <1>1 DEF PageType
  <2>2. mail'[u] = mail[u] /\ listeners'[<<u, x>>] = listeners[<<u, x>>]
    BY <1>0, <1>1, <2>1 DEF PageType
  <2> QED
    BY <1>0, <2>2 DEF MailInv
<1>7. ListenersServed'
  <2> SUFFICES ASSUME NEW u \in Tabs, NEW x \in Topics, Quiet(u, x)'
               PROVE  /\ listeners'[<<u, x>>] > 0 => sub[<<u, x>>] # None \/ <<u, x>> \in cut'
                      /\ sub[<<u, x>>] # None => listeners'[<<u, x>>] > 0 \/ sub[<<u, x>>] \in inherited'
    BY <1>1 DEF ListenersServed
  <2>1. CASE u = t
    <3>1. listeners'[<<u, x>>] = 0
      BY <1>1, <2>1
    <3>2. sub[<<u, x>>] # None => sub[<<u, x>>] \in StreamsOf(t)
      BY <2>1 DEF StreamsOf
    <3> QED
      BY <1>1, <3>1, <3>2
  <2>2. CASE u # t
    <3>1. listeners'[<<u, x>>] = listeners[<<u, x>>] /\ mail'[u] = mail[u]
      BY <1>0, <1>1, <2>2 DEF PageType
    <3>2. Quiet(u, x)
      BY <3>1 DEF Quiet
    <3>3. <<u, x>> \in cut => <<u, x>> \in cut'
      BY <1>1, <2>2
    <3> QED
      BY <1>0, <1>1, <3>1, <3>2, <3>3 DEF ListenersServed
  <2> QED
    BY <2>1, <2>2
<1>8. ClosedInv'
  <2> SUFFICES ASSUME NEW u \in Tabs, ~IsOpen(u)'
               PROVE  /\ url'[u] = Internal /\ shown'[u] = None /\ pending'[u] = None /\ mail'[u] = <<>>
                      /\ \A x \in Topics : listeners'[<<u, x>>] = 0 /\ sub'[<<u, x>>] = None
    BY DEF ClosedInv
  <2>1. ~IsOpen(u) /\ u # t
    BY <1>1, <1>2 DEF IsOpen
  <2> QED
    BY <1>0, <1>1, <2>1 DEF ClosedInv, TabsType, ContentsType, PageType
<1>9. AttachedIsActive'
  BY <1>0, <1>1, <1>2, ActiveTab DEF AttachedIsActive, HiddenInv, TabsType, Addresses
<1>10. HiddenInv'
  BY <1>0, <1>1, <1>2 DEF HiddenInv, TabsType, ContentsType
<1> QED
  BY <1>4, <1>5, <1>6, <1>7, <1>8, <1>9, <1>10, PartsNext DEF ViewInv, ServiceInv

\* When loading stops, an address that comes back does so over hidden contents.
LEMMA LoadStep ==
  ASSUME IInv, NEW t \in Tabs, NavigationEnds(t) \/ StopLoading(t)
  PROVE  IInv'
<1> USE Parts
<1>0. /\ TabsType /\ ContentsType /\ PageType /\ StreamsType /\ ServiceInv /\ TypeOK
      /\ ClosedInv /\ AttachedIsActive /\ HiddenInv /\ active \in Tabs
  BY TypeParts, ActiveTab DEF ViewInv
<1>1. /\ UNCHANGED <<open, active, attached, hidden, shown, page, streams>>
      /\ pending' = pending \/ pending' = [pending EXCEPT ![t] = None]
      /\ loading' = loading \/ loading' = [loading EXCEPT ![t] = FALSE]
      /\ url' = url \/ (shown[t] # None /\ url' = [url EXCEPT ![t] = shown[t]])
  <2>1. CASE NavigationEnds(t)
    BY <2>1 DEF NavigationEnds, tabs
  <2>2. CASE StopLoading(t)
    BY <1>0, <2>2 DEF StopLoading, TabsType
  <2> QED
    BY <2>1, <2>2
<1>2. ContentsType' /\ \A u \in Tabs : pending'[u] # None => pending[u] # None
  BY <1>0, <1>1 DEF ContentsType
<1>3. /\ TabsType'
      /\ \A u \in Tabs : url'[u] = url[u] \/ (u = t /\ shown[t] # None /\ url'[t] \in Pages)
  BY <1>0, <1>1 DEF TabsType, ContentsType, Addresses, OpenOK, IsOpen
<1>4. ServiceInv' /\ PageType' /\ StreamsType'
  BY <1>0, <1>1, ServiceKept DEF IsOpen
<1>5. ClosedInv'
  BY <1>0, <1>1, <1>2, <1>3 DEF ClosedInv, IsOpen, page, streams
<1>6. AttachedIsActive'
  BY <1>0, <1>1, <1>3, ActiveTab DEF AttachedIsActive, HiddenInv, Addresses
<1>7. HiddenInv'
  BY <1>0, <1>1, <1>2, <1>3 DEF HiddenInv
<1> QED
  BY <1>2, <1>3, <1>4, <1>5, <1>6, <1>7, PartsNext DEF ViewInv

-----------------------------------------------------------------------------
(* Steps of subscriptions                                                  *)

\* What leaves the tabs and their contents alone, and touches listeners, messages
\* and subscriptions of an open tab only, keeps the views.
LEMMA ViewKept ==
  ASSUME IInv, UNCHANGED <<tabs, contents>>, NEW t \in Tabs, IsOpen(t),
         \A u \in Tabs \ {t} : mail'[u] = mail[u],
         \A u \in Tabs \ {t}, x \in Topics :
           listeners'[<<u, x>>] = listeners[<<u, x>>] /\ sub'[<<u, x>>] = sub[<<u, x>>]
  PROVE  ViewInv' /\ TabsType' /\ ContentsType'
<1> USE Parts DEF tabs, contents
<1>1. TabsType' /\ ContentsType' /\ AttachedIsActive' /\ HiddenInv'
  BY DEF TabsType, ContentsType, OpenOK, IsOpen, ViewInv, AttachedIsActive, HiddenInv
<1>2. ClosedInv'
  <2> SUFFICES ASSUME NEW u \in Tabs, ~IsOpen(u)'
               PROVE  /\ url'[u] = Internal /\ shown'[u] = None /\ pending'[u] = None /\ mail'[u] = <<>>
                      /\ \A x \in Topics : listeners'[<<u, x>>] = 0 /\ sub'[<<u, x>>] = None
    BY DEF ClosedInv
  <2>1. ~IsOpen(u) /\ u # t
    BY DEF IsOpen
  <2> QED
    BY <2>1 DEF ViewInv, ClosedInv
<1> QED
  BY <1>1, <1>2 DEF ViewInv

\* A listener that comes or goes, first or last or neither.
LEMMA ListenStep ==
  ASSUME IInv, NEW t \in Tabs, NEW x \in Topics, Listen(t, x) \/ Unlisten(t, x)
  PROVE  IInv'
<1> USE Parts
<1> DEFINE k == <<t, x>>
<1>0. /\ TabsType /\ ContentsType /\ PageType /\ StreamsType /\ ServiceInv /\ ViewInv
      /\ ClosedInv /\ StreamInv /\ MailInv /\ ListenersServed
      /\ listeners[k] \in 0 .. MaxListeners /\ mail[t] \in Seq(Messages)
  BY TypeParts DEF ViewInv, ServiceInv, PageType
<1>1. /\ UNCHANGED <<tabs, contents, streams>> /\ IsOpen(t)
      /\ \E n \in 0 .. MaxListeners, kind \in {"subscribe", "unsubscribe"} :
           /\ listeners' = [listeners EXCEPT ![k] = n]
           /\ \/ mail' = mail /\ n > 0 /\ listeners[k] > 0
              \/ /\ mail' = [mail EXCEPT ![t] = Append(@, <<kind, x>>)]
                 /\ kind = "subscribe" <=> n > 0
  <2>1. CASE Listen(t, x)
    <3>1. listeners[k] + 1 \in 0 .. MaxListeners /\ listeners[k] + 1 > 0 /\ IsOpen(t)
      BY <1>0, <2>1 DEF Listen, ClosedInv
    <3>2. /\ listeners' = [listeners EXCEPT ![k] = listeners[k] + 1]
          /\ \/ mail' = mail /\ listeners[k] > 0
             \/ mail' = [mail EXCEPT ![t] = Append(@, <<"subscribe", x>>)]
          /\ UNCHANGED <<tabs, contents, streams>>
      BY <1>0, <2>1 DEF Listen, Send
    <3> QED
      BY <3>1, <3>2
  <2>2. CASE Unlisten(t, x)
    <3>1. listeners[k] - 1 \in 0 .. MaxListeners /\ listeners[k] > 0 /\ IsOpen(t)
      BY <1>0, <2>2 DEF Unlisten, ClosedInv
    <3>2. /\ listeners' = [listeners EXCEPT ![k] = listeners[k] - 1]
          /\ \/ mail' = mail /\ listeners[k] # 1
             \/ mail' = [mail EXCEPT ![t] = Append(@, <<"unsubscribe", x>>)] /\ listeners[k] = 1
          /\ UNCHANGED <<tabs, contents, streams>>
      BY <2>2 DEF Unlisten, Send, IsLast
    <3>3. listeners[k] # 1 => listeners[k] - 1 > 0
      BY <1>0, <3>1
    <3>4. CASE mail' = mail /\ listeners[k] # 1
      BY <3>1, <3>2, <3>3, <3>4
    <3>5. CASE mail' = [mail EXCEPT ![t] = Append(@, <<"unsubscribe", x>>)] /\ listeners[k] = 1
      <4>1. ~(listeners[k] - 1 > 0)
        BY <3>5
      <4> QED
        BY <3>1, <3>2, <3>5, <4>1
    <3> QED
      BY <3>2, <3>4, <3>5
  <2> QED
    BY <2>1, <2>2
<1>2. PICK n \in 0 .. MaxListeners, kind \in {"subscribe", "unsubscribe"} :
        /\ listeners' = [listeners EXCEPT ![k] = n]
        /\ \/ mail' = mail /\ n > 0 /\ listeners[k] > 0
           \/ /\ mail' = [mail EXCEPT ![t] = Append(@, <<kind, x>>)]
              /\ kind = "subscribe" <=> n > 0
  BY <1>1
<1>3. /\ listeners'[k] = n
      /\ \A l \in Tabs \X Topics : l # k => listeners'[l] = listeners[l]
      /\ \A u \in Tabs : u # t => mail'[u] = mail[u]
  BY <1>0, <1>2 DEF PageType
<1>4. ASSUME mail'[t] = Append(mail[t], <<kind, x>>)
      PROVE  /\ mail'[t] \in Seq(Messages)
             /\ Len(mail[t]) \in Nat /\ DOMAIN mail[t] = 1 .. Len(mail[t])
             /\ DOMAIN mail'[t] = 1 .. Len(mail[t]) + 1
             /\ \A i \in 1 .. Len(mail[t]) : mail'[t][i] = mail[t][i]
             /\ mail'[t][Len(mail[t]) + 1] = <<kind, x>>
  <2>1. <<kind, x>> \in Messages
    BY DEF Messages
  <2> QED
    BY <1>0, <1>4, <2>1, AppendProperties, LenProperties
<1>5. PageType' /\ StreamsType' /\ StreamInv'
  <2>1. PageType'
    BY <1>0, <1>2, <1>4 DEF PageType
  <2>2. StreamsType' /\ StreamInv'
    BY <1>0, <1>1 DEF StreamsType, StreamInv, NoStreamLeaks, IsOpen, streams, tabs
  <2> QED
    BY <2>1, <2>2
<1>6. ViewInv' /\ TabsType' /\ ContentsType'
  <2>1. \A u \in Tabs \ {t}, y \in Topics :
          listeners'[<<u, y>>] = listeners[<<u, y>>] /\ sub'[<<u, y>>] = sub[<<u, y>>]
    BY <1>1, <1>3 DEF streams
  <2> QED
    BY <1>0, <1>1, <1>3, <2>1, ViewKept
<1>7. MailInv'
  <2> SUFFICES ASSUME NEW u \in Tabs, NEW y \in Topics, NEW i \in DOMAIN mail'[u],
                      mail'[u][i][2] = y, \A j \in DOMAIN mail'[u] : j > i => mail'[u][j][2] # y
               PROVE  mail'[u][i][1] = "subscribe" <=> listeners'[<<u, y>>] > 0
    BY DEF MailInv
  <2>1. CASE u # t
    <3>1. mail'[u] = mail[u] /\ listeners'[<<u, y>>] = listeners[<<u, y>>]
      BY <1>3, <2>1
    <3> QED
      BY <1>0, <3>1 DEF MailInv
  <2>2. CASE u = t /\ mail' = mail /\ n > 0 /\ listeners[k] > 0
    <3>1. listeners'[<<u, y>>] > 0 <=> listeners[<<u, y>>] > 0
      BY <1>3, <2>2
    <3> QED
      BY <1>0, <2>2, <3>1 DEF MailInv
  <2>3. CASE u = t /\ mail' = [mail EXCEPT ![t] = Append(@, <<kind, x>>)] /\ (kind = "subscribe" <=> n > 0)
    <3>1. mail'[t] = Append(mail[t], <<kind, x>>)
      BY <1>0, <2>3 DEF PageType
    <3>2. CASE i = Len(mail[t]) + 1
      BY <1>3, <1>4, <2>3, <3>1, <3>2
    <3>3. CASE i # Len(mail[t]) + 1
      <4>1. i \in DOMAIN mail[t] /\ mail[t][i] = mail'[t][i]
        BY <1>4, <2>3, <3>1, <3>3
      <4>2. y # x
        BY <1>4, <2>3, <3>1, <3>3
      <4>3. \A j \in DOMAIN mail[t] : j > i => mail[t][j][2] # y
        BY <1>4, <2>3, <3>1
      <4>4. listeners'[<<t, y>>] = listeners[<<t, y>>]
        BY <1>3, <4>2
      <4>5. mail[t][i][1] = "subscribe" <=> listeners[<<t, y>>] > 0
        BY <1>0, <2>3, <4>1, <4>3 DEF MailInv
      <4> QED
        BY <2>3, <4>1, <4>4, <4>5
    <3> QED
      BY <3>2, <3>3
  <2> QED
    BY <1>2, <2>1, <2>2, <2>3
<1>8. ListenersServed'
  <2> SUFFICES ASSUME NEW u \in Tabs, NEW y \in Topics, Quiet(u, y)'
               PROVE  /\ listeners'[<<u, y>>] > 0 => sub[<<u, y>>] # None \/ <<u, y>> \in cut
                      /\ sub[<<u, y>>] # None => listeners'[<<u, y>>] > 0 \/ sub[<<u, y>>] \in inherited
    BY <1>1 DEF ListenersServed, streams
  <2>1. Quiet(u, y) /\ (listeners'[<<u, y>>] > 0 <=> listeners[<<u, y>>] > 0)
    <3>1. CASE u # t
      BY <1>3, <3>1 DEF Quiet
    <3>2. CASE u = t /\ mail' = mail /\ n > 0 /\ listeners[k] > 0
      BY <1>3, <3>2 DEF Quiet
    <3>3. CASE u = t /\ mail' = [mail EXCEPT ![t] = Append(@, <<kind, x>>)]
      <4>1. mail'[t] = Append(mail[t], <<kind, x>>)
        BY <1>0, <3>3 DEF PageType
      <4>2. y # x
        BY <1>4, <3>3, <4>1 DEF Quiet
      <4>3. Quiet(u, y)
        BY <1>4, <3>3, <4>1 DEF Quiet
      <4> QED
        BY <1>3, <3>3, <4>2, <4>3
    <3> QED
      BY <1>2, <3>1, <3>2, <3>3
  <2> QED
    BY <1>0, <2>1 DEF ListenersServed
<1> QED
  BY <1>5, <1>6, <1>7, <1>8, PartsNext DEF ServiceInv

\* The first message of a page's mail is received.
LEMMA MailTail ==
  ASSUME PageType, NEW t \in Tabs, mail[t] # <<>>, mail' = [mail EXCEPT ![t] = Tail(@)]
  PROVE  /\ Head(mail[t]) \in Messages /\ Head(mail[t]) = mail[t][1]
         /\ mail' \in [Tabs -> Seq(Messages)]
         /\ \A u \in Tabs : u # t => mail'[u] = mail[u]
         /\ Len(mail[t]) \in Nat \ {0} /\ DOMAIN mail[t] = 1 .. Len(mail[t])
         /\ DOMAIN mail'[t] = 1 .. Len(mail[t]) - 1
         /\ \A i \in 1 .. Len(mail[t]) - 1 : mail'[t][i] = mail[t][i + 1]
<1>1. mail[t] \in Seq(Messages) /\ mail'[t] = Tail(mail[t]) /\ \A u \in Tabs : u # t => mail'[u] = mail[u]
  BY DEF PageType
<1>2. /\ Head(mail[t]) \in Messages /\ Tail(mail[t]) \in Seq(Messages)
      /\ Len(Tail(mail[t])) = Len(mail[t]) - 1
      /\ \A i \in 1 .. Len(Tail(mail[t])) : Tail(mail[t])[i] = mail[t][i + 1]
  BY <1>1, HeadTailProperties
<1>3. Len(mail[t]) \in Nat \ {0} /\ DOMAIN mail[t] = 1 .. Len(mail[t]) /\ Head(mail[t]) = mail[t][1]
  BY <1>1, EmptySeq, LenProperties
<1>4. DOMAIN mail'[t] = 1 .. Len(mail[t]) - 1
  BY <1>1, <1>2, LenProperties
<1>5. mail' \in [Tabs -> Seq(Messages)]
  BY <1>1, <1>2 DEF PageType
<1> QED
  BY <1>1, <1>2, <1>3, <1>4, <1>5

\* A message that stays under way is still the last about its topic; and no message
\* about a topic is left, none was before, or the first was the last.
LEMMA MailStep ==
  ASSUME PageType, MailInv, NEW t \in Tabs, mail[t] # <<>>, mail' = [mail EXCEPT ![t] = Tail(@)],
         UNCHANGED listeners
  PROVE  /\ MailInv'
         /\ \A u \in Tabs, y \in Topics : Quiet(u, y)' =>
              \/ Quiet(u, y)
              \/ /\ u = t /\ Head(mail[t])[2] = y
                 /\ Head(mail[t])[1] = "subscribe" <=> listeners[<<t, y>>] > 0
<1>0. /\ Head(mail[t]) = mail[t][1]
      /\ \A u \in Tabs : u # t => mail'[u] = mail[u]
      /\ Len(mail[t]) \in Nat \ {0} /\ DOMAIN mail[t] = 1 .. Len(mail[t])
      /\ DOMAIN mail'[t] = 1 .. Len(mail[t]) - 1
      /\ \A i \in 1 .. Len(mail[t]) - 1 : mail'[t][i] = mail[t][i + 1]
  BY MailTail
<1>1. MailInv'
  <2> SUFFICES ASSUME NEW u \in Tabs, NEW y \in Topics, NEW i \in DOMAIN mail'[u],
                      mail'[u][i][2] = y, \A j \in DOMAIN mail'[u] : j > i => mail'[u][j][2] # y
               PROVE  mail'[u][i][1] = "subscribe" <=> listeners[<<u, y>>] > 0
    BY DEF MailInv
  <2>1. CASE u # t
    <3>1. mail'[u] = mail[u]
      BY <1>0, <2>1
    <3>2. i \in DOMAIN mail[u] /\ mail[u][i][2] = y /\ \A j \in DOMAIN mail[u] : j > i => mail[u][j][2] # y
      BY <3>1
    <3>3. mail[u][i][1] = "subscribe" <=> listeners[<<u, y>>] > 0
      BY <3>2 DEF MailInv
    <3> QED
      BY <3>1, <3>3
  <2>2. CASE u = t
    <3>1. i + 1 \in DOMAIN mail[t] /\ mail'[t][i] = mail[t][i + 1]
      BY <1>0, <2>2
    <3>2. ASSUME NEW j \in DOMAIN mail[t], j > i + 1 PROVE mail[t][j][2] # y
      <4>1. j - 1 \in DOMAIN mail'[t] /\ j - 1 > i /\ mail'[t][j - 1] = mail[t][j]
        BY <1>0, <2>2, <3>2
      <4> QED
        BY <2>2, <4>1
    <3>3. mail[t][i + 1][1] = "subscribe" <=> listeners[<<t, y>>] > 0
      BY <2>2, <3>1, <3>2 DEF MailInv
    <3> QED
      BY <2>2, <3>1, <3>3
  <2> QED
    BY <2>1, <2>2
<1>2. ASSUME NEW u \in Tabs, NEW y \in Topics, Quiet(u, y)', ~Quiet(u, y)
      PROVE  /\ u = t /\ Head(mail[t])[2] = y
             /\ Head(mail[t])[1] = "subscribe" <=> listeners[<<t, y>>] > 0
  <2>1. u = t
    BY <1>0, <1>2 DEF Quiet
  <2>2. \A j \in DOMAIN mail[t] : j > 1 => mail[t][j][2] # y
    <3> TAKE j \in DOMAIN mail[t]
    <3> HAVE j > 1
    <3>1. j - 1 \in DOMAIN mail'[t] /\ mail'[t][j - 1] = mail[t][j]
      BY <1>0
    <3> QED
      BY <1>2, <2>1, <3>1 DEF Quiet
  <2>3. 1 \in DOMAIN mail[t] /\ mail[t][1][2] = y
    <3>1. PICK j \in DOMAIN mail[t] : mail[t][j][2] = y
      BY <1>2, <2>1 DEF Quiet
    <3>2. ~(j > 1)
      BY <2>2, <3>1
    <3>3. j = 1
      BY <1>0, <3>2
    <3> QED
      BY <3>1, <3>3
  <2> QED
    BY <1>0, <2>1, <2>2, <2>3 DEF MailInv
<1> QED
  BY <1>1, <1>2

\* A message that is received settles its topic if it was the last about it, and
\* leaves the other topics as they were.
LEMMA ReceiveKept ==
  ASSUME IInv, NEW t \in Tabs, NEW x \in Topics, mail[t] # <<>>, Head(mail[t])[2] = x,
         mail' = [mail EXCEPT ![t] = Tail(@)], UNCHANGED <<tabs, contents, listeners>>,
         StreamsType', StreamInv',
         sub'[<<t, x>>] # None <=> Head(mail[t])[1] = "subscribe",
         \A l \in Tabs \X Topics : l # <<t, x>> =>
           /\ sub'[l] = sub[l]
           /\ l \in cut => l \in cut'
           /\ sub[l] \in inherited => sub[l] \in inherited'
  PROVE  IInv'
<1> USE Parts
<1>0. /\ TabsType /\ PageType /\ ServiceInv /\ ClosedInv /\ MailInv /\ ListenersServed
  BY DEF ViewInv, ServiceInv
<1>1. /\ Head(mail[t]) = mail[t][1] /\ 1 \in DOMAIN mail[t]
      /\ mail' \in [Tabs -> Seq(Messages)]
      /\ \A u \in Tabs : u # t => mail'[u] = mail[u]
  <2>1. /\ Head(mail[t]) = mail[t][1] /\ mail' \in [Tabs -> Seq(Messages)]
        /\ \A u \in Tabs : u # t => mail'[u] = mail[u]
        /\ Len(mail[t]) \in Nat \ {0} /\ DOMAIN mail[t] = 1 .. Len(mail[t])
    BY <1>0, MailTail
  <2>2. 1 \in DOMAIN mail[t]
    BY <2>1
  <2> QED
    BY <2>1, <2>2
<1>2. IsOpen(t)
  BY <1>0 DEF ClosedInv
<1>3. ViewInv' /\ TabsType' /\ ContentsType'
  <2>1. \A u \in Tabs \ {t}, y \in Topics :
          listeners'[<<u, y>>] = listeners[<<u, y>>] /\ sub'[<<u, y>>] = sub[<<u, y>>]
    OBVIOUS
  <2> QED
    BY <1>1, <1>2, <2>1, ViewKept
<1>4. PageType'
  BY <1>0, <1>1 DEF PageType
<1>5. /\ MailInv'
      /\ \A u \in Tabs, y \in Topics : Quiet(u, y)' =>
           \/ Quiet(u, y)
           \/ /\ u = t /\ Head(mail[t])[2] = y
              /\ Head(mail[t])[1] = "subscribe" <=> listeners[<<t, y>>] > 0
  BY <1>0, MailStep
<1>6. ListenersServed'
  <2> SUFFICES ASSUME NEW u \in Tabs, NEW y \in Topics, Quiet(u, y)'
               PROVE  /\ listeners[<<u, y>>] > 0 => sub'[<<u, y>>] # None \/ <<u, y>> \in cut'
                      /\ sub'[<<u, y>>] # None => listeners[<<u, y>>] > 0 \/ sub'[<<u, y>>] \in inherited'
    BY DEF ListenersServed
  <2>1. CASE u = t /\ y = x
    <3>1. ~Quiet(t, x)
      BY <1>1 DEF Quiet
    <3>2. Head(mail[t])[1] = "subscribe" <=> listeners[<<t, x>>] > 0
      BY <1>5, <2>1, <3>1
    <3> QED
      BY <2>1, <3>2
  <2>2. CASE ~(u = t /\ y = x)
    <3>1. Quiet(u, y)
      BY <1>5, <2>2
    <3>2. <<u, y>> \in Tabs \X Topics /\ <<u, y>> # <<t, x>>
      BY <2>2
    <3> QED
      BY <1>0, <3>1, <3>2 DEF ListenersServed
  <2> QED
    BY <2>1, <2>2
<1> QED
  BY <1>3, <1>4, <1>5, <1>6, PartsNext DEF ServiceInv

\* A new subscription cancels the one before it of its tab and topic, if there is one.
LEMMA SubscribeStep ==
  ASSUME IInv, NEW t \in Tabs, NEW s \in Streams, ReceiveSubscribe(t, s)
  PROVE  IInv'
<1> USE Parts
<1> DEFINE x == Head(mail[t])[2]
           k == <<t, x>>
<1>0. /\ PageType /\ StreamsType /\ ServiceInv /\ StreamInv /\ NoStreamLeaks /\ ClosedInv
      /\ \A l \in Tabs \X Topics : sub[l] # None => sub[l] \in Streams /\ running[sub[l]] = l
  BY DEF ViewInv, ServiceInv, StreamInv, StreamsType
<1>1. /\ mail[t] # <<>> /\ running[s] = None /\ Head(mail[t])[1] = "subscribe"
      /\ running' = [[z \in Streams |-> IF z = sub[k] THEN None ELSE running[z]] EXCEPT ![s] = k]
      /\ sub' = [sub EXCEPT ![k] = s]
      /\ cut' = cut \ {k} /\ inherited' = inherited \ {sub[k], s}
      /\ mail' = [mail EXCEPT ![t] = Tail(@)] /\ UNCHANGED <<tabs, contents, listeners>>
  BY DEF ReceiveSubscribe, Cancelled, Replaced
<1>2. x \in Topics /\ k \in Tabs \X Topics /\ IsOpen(t)
  <2>1. Head(mail[t]) \in Messages
    BY <1>0, <1>1, MailTail
  <2> QED
    BY <1>0, <1>1, <2>1 DEF Messages, ClosedInv
<1> HIDE DEF x
<1>3. /\ sub'[k] = s /\ s # None
      /\ \A l \in Tabs \X Topics : l # k =>
           /\ sub'[l] = sub[l]
           /\ l \in cut => l \in cut'
           /\ sub[l] # None => sub[l] # s /\ sub[l] # sub[k]
           /\ sub[l] \in inherited => sub[l] \in inherited'
  <2>1. sub'[k] = s /\ s # None /\ \A l \in Tabs \X Topics : l # k => sub'[l] = sub[l]
    BY <1>0, <1>1, <1>2 DEF StreamsType
  <2>2. ASSUME NEW l \in Tabs \X Topics, l # k, sub[l] # None PROVE sub[l] # s /\ sub[l] # sub[k]
    <3>1. l # None
      OBVIOUS
    <3> QED
      BY <1>0, <1>1, <1>2, <2>2, <3>1
  <2>3. \A z \in inherited : z # None
    BY <1>0 DEF StreamsType
  <2> QED
    BY <1>1, <2>1, <2>2, <2>3
<1>4. /\ running'[s] = k
      /\ \A z \in Streams : z # s => running'[z] = IF z = sub[k] THEN None ELSE running[z]
  BY <1>1
<1>5. StreamsType'
  BY <1>0, <1>1, <1>2 DEF StreamsType
<1>6. StreamInv'
  <2>1. ASSUME NEW l \in Tabs \X Topics, sub'[l] # None PROVE running'[sub'[l]] = l
    <3>1. CASE l = k
      BY <1>3, <1>4, <3>1
    <3>2. CASE l # k
      <4>1. sub'[l] = sub[l] /\ sub[l] # None /\ sub[l] \in Streams /\ sub[l] # s /\ sub[l] # sub[k]
        BY <1>0, <1>3, <2>1, <3>2
      <4> QED
        BY <1>0, <1>4, <4>1
    <3> QED
      BY <3>1, <3>2
  <2>2. ASSUME NEW z \in Streams, running'[z] # None
        PROVE  \E u \in Tabs, y \in Topics : running'[z] = <<u, y>> /\ sub'[<<u, y>>] = z /\ IsOpen(u)
    <3>1. CASE z = s
      BY <1>2, <1>3, <1>4, <3>1
    <3>2. CASE z # s
      <4>1. running'[z] = running[z] /\ z # sub[k]
        BY <1>4, <2>2, <3>2
      <4>2. running[z] \in Tabs \X Topics /\ sub[running[z]] = z /\ IsOpen(running[z][1])
        BY <1>0, <2>2, <4>1 DEF StreamsType, NoStreamLeaks
      <4>3. PICK u \in Tabs, y \in Topics : running[z] = <<u, y>>
        BY <4>2
      <4>4. sub[<<u, y>>] = z /\ IsOpen(u) /\ <<u, y>> # k
        BY <4>1, <4>2, <4>3
      <4>5. sub'[<<u, y>>] = z
        BY <1>3, <4>4
      <4> QED
        BY <4>1, <4>3, <4>4, <4>5
    <3> QED
      BY <3>1, <3>2
  <2>3. ASSUME NEW z \in Streams, running'[z] # None
        PROVE  sub'[running'[z]] = z /\ IsOpen(running[z][1])'
    <3>1. PICK u \in Tabs, y \in Topics : running'[z] = <<u, y>> /\ sub'[<<u, y>>] = z /\ IsOpen(u)
      BY <2>2, <2>3
    <3>2. IsOpen(u)'
      BY <1>1, <3>1 DEF IsOpen, tabs
    <3>3. running'[z][1] = u
      BY <3>1
    <3> QED
      BY <3>1, <3>2, <3>3
  <2> QED
    BY <2>1, <2>3 DEF StreamInv, NoStreamLeaks
<1>7. Head(mail[t])[2] = x /\ (sub'[<<t, x>>] # None <=> Head(mail[t])[1] = "subscribe")
  BY <1>1, <1>3 DEF x
<1>8. \A l \in Tabs \X Topics : l # <<t, x>> =>
        /\ sub'[l] = sub[l]
        /\ l \in cut => l \in cut'
        /\ sub[l] \in inherited => sub[l] \in inherited'
  BY <1>3
<1>9. x \in Topics /\ mail[t] # <<>> /\ mail' = [mail EXCEPT ![t] = Tail(@)] /\ UNCHANGED <<tabs, contents, listeners>>
  BY <1>1, <1>2
<1> QED
  BY <1>5, <1>6, <1>7, <1>8, <1>9, ReceiveKept

\* The subscription that a page ends is cancelled, if there is one.
LEMMA UnsubscribeStep ==
  ASSUME IInv, NEW t \in Tabs, ReceiveUnsubscribe(t)
  PROVE  IInv'
<1> USE Parts
<1> DEFINE x == Head(mail[t])[2]
           k == <<t, x>>
<1>0. /\ PageType /\ StreamsType /\ ServiceInv /\ StreamInv /\ NoStreamLeaks /\ ClosedInv
      /\ \A l \in Tabs \X Topics : sub[l] # None => sub[l] \in Streams /\ running[sub[l]] = l
  BY DEF ViewInv, ServiceInv, StreamInv, StreamsType
<1>1. /\ mail[t] # <<>> /\ Head(mail[t])[1] = "unsubscribe"
      /\ running' = [z \in Streams |-> IF z = sub[k] THEN None ELSE running[z]]
      /\ sub' = [sub EXCEPT ![k] = None]
      /\ cut' = cut /\ inherited' = inherited \ {sub[k]}
      /\ mail' = [mail EXCEPT ![t] = Tail(@)] /\ UNCHANGED <<tabs, contents, listeners>>
  BY DEF ReceiveUnsubscribe, Cancelled
<1>2. x \in Topics /\ k \in Tabs \X Topics
  <2>1. Head(mail[t]) \in Messages
    BY <1>0, <1>1, MailTail
  <2> QED
    BY <2>1 DEF Messages
<1> HIDE DEF x
<1>3. /\ sub'[k] = None
      /\ \A l \in Tabs \X Topics : l # k =>
           /\ sub'[l] = sub[l]
           /\ l \in cut => l \in cut'
           /\ sub[l] # None => sub[l] # sub[k]
           /\ sub[l] \in inherited => sub[l] \in inherited'
  <2>1. sub'[k] = None /\ \A l \in Tabs \X Topics : l # k => sub'[l] = sub[l]
    BY <1>0, <1>1, <1>2 DEF StreamsType
  <2>2. ASSUME NEW l \in Tabs \X Topics, l # k, sub[l] # None PROVE sub[l] # sub[k]
    BY <1>0, <1>2, <2>2
  <2>3. \A z \in inherited : z # None
    BY <1>0 DEF StreamsType
  <2> QED
    BY <1>1, <2>1, <2>2, <2>3
<1>4. StreamsType'
  BY <1>0, <1>1, <1>2 DEF StreamsType
<1>5. StreamInv'
  <2>1. ASSUME NEW l \in Tabs \X Topics, sub'[l] # None PROVE running'[sub'[l]] = l
    <3>1. sub'[l] = sub[l] /\ sub[l] # None /\ sub[l] \in Streams /\ sub[l] # sub[k]
      BY <1>0, <1>3, <2>1
    <3> QED
      BY <1>0, <1>1, <3>1
  <2>2. ASSUME NEW z \in Streams, running'[z] # None
        PROVE  sub'[running'[z]] = z /\ IsOpen(running[z][1])'
    <3>1. running'[z] = running[z] /\ z # sub[k]
      BY <1>1, <2>2
    <3>2. running[z] \in Tabs \X Topics /\ sub[running[z]] = z /\ IsOpen(running[z][1])
      BY <1>0, <2>2, <3>1 DEF StreamsType, NoStreamLeaks
    <3>3. PICK u \in Tabs, y \in Topics : running[z] = <<u, y>>
      BY <3>2
    <3>4. sub[<<u, y>>] = z /\ IsOpen(u) /\ <<u, y>> # k
      BY <3>1, <3>2, <3>3
    <3>5. sub'[<<u, y>>] = z
      BY <1>3, <3>4
    <3>6. IsOpen(u)'
      BY <1>1, <3>4 DEF IsOpen, tabs
    <3>7. running'[z] = <<u, y>> /\ running'[z][1] = u
      BY <3>1, <3>3
    <3> QED
      BY <3>5, <3>6, <3>7
  <2> QED
    BY <2>1, <2>2 DEF StreamInv, NoStreamLeaks
<1>6. Head(mail[t])[2] = x /\ (sub'[<<t, x>>] # None <=> Head(mail[t])[1] = "subscribe")
  BY <1>1, <1>3 DEF x
<1>7. \A l \in Tabs \X Topics : l # <<t, x>> =>
        /\ sub'[l] = sub[l]
        /\ l \in cut => l \in cut'
        /\ sub[l] \in inherited => sub[l] \in inherited'
  BY <1>3
<1>8. x \in Topics /\ mail[t] # <<>> /\ mail' = [mail EXCEPT ![t] = Tail(@)] /\ UNCHANGED <<tabs, contents, listeners>>
  BY <1>1, <1>2
<1> QED
  BY <1>4, <1>5, <1>6, <1>7, <1>8, ReceiveKept

-----------------------------------------------------------------------------
(* The theorems                                                            *)

\* Every step keeps the inductive invariant.
LEMMA InvStep == IInv /\ [Next]_vars => IInv'
<1> SUFFICES ASSUME IInv, [Next]_vars PROVE IInv'
  OBVIOUS
<1>1. CASE \E t \in Tabs, a \in Addresses : CreateTab(t, a)
  BY <1>1, CreateStep
<1>2. CASE \E t \in Tabs : SelectTab(t)
  BY <1>2, SelectStep
<1>3. CASE \E t \in Tabs : CloseTab(t)
  BY <1>3, CloseStep
<1>4. CASE \E p \in Pages : NavigateToPage(p) \/ \E t \in Tabs : PageNavigates(t, p)
  BY <1>4, StartStep
<1>5. CASE NavigateToInternal \/ \E t \in Tabs : NavigateInPage(t)
  BY <1>5, StayStep
<1>6. CASE \E t \in Tabs : Commit(t)
  BY <1>6, CommitStep
<1>7. CASE \E t \in Tabs : NavigationEnds(t) \/ StopLoading(t)
  BY <1>7, LoadStep
<1>8. CASE \E t \in Tabs, x \in Topics : Listen(t, x) \/ Unlisten(t, x)
  BY <1>8, ListenStep
<1>9. CASE \E t \in Tabs, s \in Streams : ReceiveSubscribe(t, s)
  BY <1>9, SubscribeStep
<1>10. CASE \E t \in Tabs : ReceiveUnsubscribe(t)
  BY <1>10, UnsubscribeStep
<1>11. CASE UNCHANGED vars
  <2>1. TypeOK /\ ServiceInv /\ UNCHANGED <<page, streams>> /\ UNCHANGED <<tabs, contents>>
    BY <1>11, Parts, TypeParts DEF vars
  <2>2. \A u \in Tabs : IsOpen(u) <=> IsOpen(u)'
    BY <2>1 DEF tabs, IsOpen
  <2>3. ServiceInv' /\ PageType' /\ StreamsType'
    BY <2>1, <2>2, ServiceKept
  <2>4. TabsType' /\ ContentsType'
    BY <2>1, Parts DEF tabs, contents, TabsType, ContentsType, OpenOK, IsOpen
  <2>5. ViewInv'
    BY <2>1, <2>2, Parts
       DEF tabs, contents, page, streams, ViewInv, ClosedInv, AttachedIsActive, HiddenInv
  <2> QED
    BY <2>3, <2>4, <2>5, PartsNext
<1> QED
  BY <1>1, <1>2, <1>3, <1>4, <1>5, <1>6, <1>7, <1>8, <1>9, <1>10, <1>11 DEF Next

LEMMA Inductive == Spec => []IInv
BY InitInv, InvStep, PTL DEF Spec

\* Whatever the user and the pages do, one of the tabs is active and no two have the
\* same name: closing a tab makes its neighbour active, and the last is replaced.
THEOREM TypeCorrect == Spec => []TypeOK
<1>1. IInv => TypeOK
  BY DEF IInv
<1> QED
  BY <1>1, Inductive, PTL

\* The window shows the view of the active tab and of no other, and shows none over
\* one of the browser's own pages.
THEOREM WindowShowsActive == Spec => []AttachedIsActive
<1>1. IInv => AttachedIsActive
  BY DEF IInv
<1> QED
  BY <1>1, Inductive, PTL

\* No stream runs that a navigation, a closed tab or the page itself cannot cancel.
THEOREM StreamsAreCancellable == Spec => []NoStreamLeaks
<1>1. IInv => NoStreamLeaks
  BY DEF IInv, StreamInv
<1> QED
  BY <1>1, Inductive, PTL

\* Once the messages about a topic have arrived, a page with listeners has a stream
\* and a page without has none, but for the two cases that the property names.
THEOREM ListenersAreServed == Spec => []ListenersServed
<1>1. IInv => ListenersServed
  BY DEF IInv
<1> QED
  BY <1>1, Inductive, PTL
=============================================================================
