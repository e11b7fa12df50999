----------------------------- MODULE MCWindowDocs -----------------------------
(* What the documentation says of subscriptions and the code does not do.      *)
EXTENDS MCBrowserWindow

\* A subscription "is invalidated by navigation" (apps/docs/reference/api.md); the
\* main process "cancels it on unsubscribe or top-level navigation"
\* (docs/detailed-design/01-Archetype-Runtime-Design.md): no stream runs that was
\* subscribed to by a document which its tab has left.
NavigationInvalidates == \A s \in Streams : running[s] # None => s \notin inherited
=============================================================================
