--------------------------- MODULE MCBrowserWindow ---------------------------
(* A small instance of BrowserWindow for TLC.                                *)
EXTENDS BrowserWindow, TLC

Alike == Permutations(Tabs) \cup Permutations(Streams)
=============================================================================
