---------------------------- MODULE BrowserWindow ----------------------------
(***************************************************************************)
(* The browser's window: tabs and their views (BrowserController of        *)
(* controller.ts), the subscriptions that index.ts keeps for the pages in  *)
(* them, and the listeners that the preload script runtime-page.ts counts. *)
(* Electron tells the main process when a navigation starts, commits or    *)
(* stops; a page's messages to it arrive later, in order.                  *)
(***************************************************************************)
EXTENDS Naturals, SequencesExt

CONSTANTS
  Tabs,          \* tabs that may be open together; a closed one's name is used again
  Pages,         \* addresses of web pages
  Topics,
  Streams,       \* calls of RuntimeClient.subscribe()
  Internal,      \* an address of the browser's own: archetype://...
  None,
  MaxListeners,  \* bound on the listeners of a page for a topic
  MaxMail        \* bound on the messages under way from a page

ASSUME BrowserWindowAssumption ==
  /\ Internal \notin Pages
  /\ None \notin Pages \cup Streams \cup {Internal} /\ None \notin Tabs \X Topics
  /\ MaxListeners \in Nat /\ MaxMail \in Nat

VARIABLES
  open,       \* the tabs, in their order
  active,     \* activeTabId
  attached,   \* tabs whose view is in the window
  url,        \* state.url of each tab
  shown,      \* getURL() of its contents
  pending,    \* the navigation that has started in it
  loading,    \* did-stop-loading is still to come
  listeners,  \* how many listeners the page has for each topic
  mail,       \* messages from the page
  sub,        \* subscriptions: the stream of each tab and topic
  running,    \* streams that are not cancelled, with their tab and topic
  hidden,     \* ghost: tabs taken to an internal address and not attached since
  cut,        \* ghost: topics whose stream was cancelled under a page that stayed
  inherited   \* ghost: streams that a page left to the next one in its tab

tabs == <<open, active, attached, url, hidden>>
contents == <<shown, pending, loading>>
page == <<listeners, mail>>
streams == <<sub, running, cut, inherited>>
vars == <<tabs, contents, page, streams>>

Addresses == Pages \cup {Internal}
IsOpen(t) == \E i \in DOMAIN open : open[i] = t
Messages == {"subscribe", "unsubscribe"} \X Topics

TypeOK ==
  /\ open \in Seq(Tabs) /\ IsOpen(active)
  /\ \A i, j \in DOMAIN open : open[i] = open[j] => i = j
  /\ attached \subseteq Tabs /\ hidden \subseteq Tabs
  /\ url \in [Tabs -> Addresses]
  /\ shown \in [Tabs -> Pages \cup {None}]
  /\ pending \in [Tabs -> Pages \cup {None}]
  /\ loading \in [Tabs -> BOOLEAN]
  /\ listeners \in [Tabs \X Topics -> 0 .. MaxListeners]
  /\ mail \in [Tabs -> Seq(Messages)]
  /\ sub \in [Tabs \X Topics -> Streams \cup {None}]
  /\ running \in [Streams -> (Tabs \X Topics) \cup {None}]
  /\ cut \subseteq Tabs \X Topics
  /\ inherited \subseteq Streams

Init ==
  /\ \E t \in Tabs : open = <<t>> /\ active = t
  /\ attached = {} /\ hidden = {}
  /\ url = [t \in Tabs |-> Internal]
  /\ shown = [t \in Tabs |-> None]
  /\ pending = [t \in Tabs |-> None]
  /\ loading = [t \in Tabs |-> FALSE]
  /\ listeners = [k \in Tabs \X Topics |-> 0]
  /\ mail = [t \in Tabs |-> <<>>]
  /\ sub = [k \in Tabs \X Topics |-> None]
  /\ running = [s \in Streams |-> None]
  /\ cut = {} /\ inherited = {}

-----------------------------------------------------------------------------
(* Mutants (named Bad...): plausible mistakes that the properties must catch *)
BadDetached == attached                            \* the current view stays
BadNeighbour(t) == open[1]                         \* whichever comes first
BadReplaced(k) == {}                               \* not cancelled first
BadIsLast(k) == TRUE                               \* told of every removal

-----------------------------------------------------------------------------
(* Streams                                                                 *)
Cancelled(S) == [s \in Streams |-> IF s \in S THEN None ELSE running[s]]

StreamsOf(t) == {sub[<<t, x>>] : x \in Topics} \ {None}

\* clearSubscriptions(): at every start of a navigation of the main frame, within
\* the page or not, and when the contents are destroyed.
Clear(t) ==
  /\ running' = Cancelled(StreamsOf(t))
  /\ sub' = [k \in Tabs \X Topics |-> IF k[1] = t THEN None ELSE sub[k]]
  /\ inherited' = inherited \ StreamsOf(t)

StartNavigation(t, p) ==
  /\ pending' = [pending EXCEPT ![t] = p]
  /\ loading' = [loading EXCEPT ![t] = TRUE]
  /\ UNCHANGED shown
  /\ Clear(t)
  /\ cut' = cut \cup {k \in {t} \X Topics : listeners[k] > 0}

-----------------------------------------------------------------------------
(* Tabs                                                                    *)
Detached == attached \ {active}

Shown(t, address) == IF address \in Pages THEN {t} ELSE {}

\* selectTab(), with the tabs' addresses as they are by then.
Select(t, views, address) ==
  /\ active' = t
  /\ attached' = views \cup Shown(t, address)
  /\ hidden' = hidden \ Shown(t, address)

SelectTab(t) ==
  /\ IsOpen(t)
  /\ Select(t, Detached, url[t])
  /\ UNCHANGED <<open, url, contents, page, streams>>

\* By the user, or by a page that opens a window.
CreateTab(t, a) ==
  /\ ~IsOpen(t)
  /\ open' = Append(open, t)
  /\ url' = [url EXCEPT ![t] = a]
  /\ Select(t, Detached, a)
  /\ IF a \in Pages THEN StartNavigation(t, a) ELSE UNCHANGED <<contents, streams>>
  /\ UNCHANGED page

\* ids.indexOf(id)
At(t) == CHOOSE i \in DOMAIN open : open[i] = t

Neighbour(t) == IF At(t) < Len(open) THEN open[At(t) + 1] ELSE open[At(t) - 1]

\* The contents are destroyed; the last tab is replaced by a new one.
CloseTab(t) ==
  /\ IsOpen(t)
  /\ Clear(t)
  /\ cut' = {k \in cut : k[1] # t}
  /\ shown' = [shown EXCEPT ![t] = None]
  /\ pending' = [pending EXCEPT ![t] = None]
  /\ loading' = [loading EXCEPT ![t] = FALSE]
  /\ listeners' = [k \in Tabs \X Topics |-> IF k[1] = t THEN 0 ELSE listeners[k]]
  /\ mail' = [mail EXCEPT ![t] = <<>>]
  /\ url' = [url EXCEPT ![t] = Internal]
  /\ LET next == IF t = active THEN Neighbour(t) ELSE active
         address == IF t = active THEN url[next] ELSE Internal
     IN IF Len(open) = 1
          THEN /\ \E n \in Tabs : open' = <<n>> /\ active' = n
               /\ attached' = {} /\ hidden' = {}
          ELSE /\ open' = RemoveAt(open, At(t))
               /\ active' = next
               /\ attached' = (attached \ {t}) \cup Shown(next, address)
               /\ hidden' = (hidden \ {t}) \ Shown(next, address)

NavigateToPage(p) ==
  /\ url' = [url EXCEPT ![active] = p]
  /\ attached' = attached \cup {active}
  /\ hidden' = hidden \ {active}
  /\ StartNavigation(active, p)
  /\ UNCHANGED <<open, active, page>>

\* The page goes on in the view that is taken away.
NavigateToInternal ==
  /\ url' = [url EXCEPT ![active] = Internal]
  /\ attached' = attached \ {active}
  /\ hidden' = hidden \cup {active}
  /\ UNCHANGED <<open, active, contents, page, streams>>

\* A link, back, forward or reload.
PageNavigates(t, p) ==
  /\ shown[t] # None
  /\ StartNavigation(t, p)
  /\ UNCHANGED <<tabs, page>>

\* history.pushState, or a fragment: the document stays, its subscriptions do not.
NavigateInPage(t) ==
  /\ shown[t] # None
  /\ Clear(t)
  /\ cut' = cut \cup {k \in {t} \X Topics : listeners[k] > 0}
  /\ UNCHANGED <<tabs, contents, page>>

\* did-navigate: a new document, with a preload script of its own.
Commit(t) ==
  /\ pending[t] # None
  /\ shown' = [shown EXCEPT ![t] = pending[t]]
  /\ url' = [url EXCEPT ![t] = pending[t]]
  /\ pending' = [pending EXCEPT ![t] = None]
  /\ listeners' = [k \in Tabs \X Topics |-> IF k[1] = t THEN 0 ELSE listeners[k]]
  /\ mail' = [mail EXCEPT ![t] = <<>>]
  /\ cut' = {k \in cut : k[1] # t}
  /\ inherited' = inherited \cup StreamsOf(t)
  /\ UNCHANGED <<open, active, attached, hidden, loading, sub, running>>

\* Stopped, a download, or no answer: the old document stays.
NavigationEnds(t) ==
  /\ pending[t] # None
  /\ pending' = [pending EXCEPT ![t] = None]
  /\ UNCHANGED <<tabs, shown, loading, page, streams>>

\* did-stop-loading: sync() takes the contents' address, whatever the tab's is.
StopLoading(t) ==
  /\ loading[t] /\ pending[t] = None
  /\ loading' = [loading EXCEPT ![t] = FALSE]
  /\ url' = [url EXCEPT ![t] = IF shown[t] = None THEN url[t] ELSE shown[t]]
  /\ UNCHANGED <<open, active, attached, hidden, shown, pending, page, streams>>

-----------------------------------------------------------------------------
(* Subscriptions                                                           *)
Send(t, message) ==
  /\ Len(mail[t]) < MaxMail
  /\ mail' = [mail EXCEPT ![t] = Append(@, message)]

\* The first listener of a topic subscribes, the last one unsubscribes.
Listen(t, x) ==
  /\ shown[t] # None /\ listeners[<<t, x>>] < MaxListeners
  /\ listeners' = [listeners EXCEPT ![<<t, x>>] = @ + 1]
  /\ IF listeners[<<t, x>>] = 0 THEN Send(t, <<"subscribe", x>>) ELSE UNCHANGED mail
  /\ UNCHANGED <<tabs, contents, streams>>

IsLast(k) == listeners[k] = 1

Unlisten(t, x) ==
  /\ listeners[<<t, x>>] > 0
  /\ listeners' = [listeners EXCEPT ![<<t, x>>] = @ - 1]
  /\ IF IsLast(<<t, x>>) THEN Send(t, <<"unsubscribe", x>>) ELSE UNCHANGED mail
  /\ UNCHANGED <<tabs, contents, streams>>

\* What a new subscription of the same tab and topic cancels.
Replaced(k) == {sub[k]}

ReceiveSubscribe(t, s) ==
  /\ mail[t] # <<>> /\ running[s] = None
  /\ LET k == <<t, Head(mail[t])[2]>> IN
       /\ Head(mail[t])[1] = "subscribe"
       /\ running' = [Cancelled(Replaced(k)) EXCEPT ![s] = k]
       /\ sub' = [sub EXCEPT ![k] = s]
       /\ cut' = cut \ {k}
       /\ inherited' = inherited \ {sub[k], s}
  /\ mail' = [mail EXCEPT ![t] = Tail(@)]
  /\ UNCHANGED <<tabs, contents, listeners>>

ReceiveUnsubscribe(t) ==
  /\ mail[t] # <<>>
  /\ LET k == <<t, Head(mail[t])[2]>> IN
       /\ Head(mail[t])[1] = "unsubscribe"
       /\ running' = Cancelled({sub[k]})
       /\ sub' = [sub EXCEPT ![k] = None]
       /\ inherited' = inherited \ {sub[k]}
  /\ mail' = [mail EXCEPT ![t] = Tail(@)]
  /\ UNCHANGED <<tabs, contents, listeners, cut>>

-----------------------------------------------------------------------------
Next ==
  \/ \E t \in Tabs, a \in Addresses : CreateTab(t, a)
  \/ \E t \in Tabs : SelectTab(t) \/ CloseTab(t)
  \/ \E p \in Pages : NavigateToPage(p) \/ \E t \in Tabs : PageNavigates(t, p)
  \/ NavigateToInternal
  \/ \E t \in Tabs : NavigateInPage(t) \/ Commit(t) \/ NavigationEnds(t) \/ StopLoading(t)
  \/ \E t \in Tabs, x \in Topics : Listen(t, x) \/ Unlisten(t, x)
  \/ \E t \in Tabs, s \in Streams : ReceiveSubscribe(t, s)
  \/ \E t \in Tabs : ReceiveUnsubscribe(t)

Spec == Init /\ [][Next]_vars
-----------------------------------------------------------------------------
(* Properties                                                              *)

\* The window shows the view of the active tab and of no other; it shows none for
\* an internal address, and none if a page came to the tab after one was asked for.
AttachedIsActive ==
  attached = IF url[active] \in Pages /\ active \notin hidden THEN {active} ELSE {}

\* No stream runs on that nobody can cancel: each is listed, once, under an open
\* tab and its topic.
NoStreamLeaks ==
  \A s \in Streams : running[s] # None => sub[running[s]] = s /\ IsOpen(running[s][1])

Quiet(t, x) == \A i \in DOMAIN mail[t] : mail[t][i][2] # x

\* When no message about a topic is under way, a page's listeners have a stream,
\* unless a navigation that left the page in place cancelled it; and a stream has
\* listeners, unless the page before subscribed while it was being left - which the
\* documentation rules out and the code does not (MCWindowDocs).
ListenersServed ==
  \A t \in Tabs, x \in Topics : Quiet(t, x) =>
    /\ listeners[<<t, x>>] > 0 => sub[<<t, x>>] # None \/ <<t, x>> \in cut
    /\ sub[<<t, x>>] # None => listeners[<<t, x>>] > 0 \/ sub[<<t, x>>] \in inherited
=============================================================================
