------------------------------- MODULE MCSignIn -------------------------------
(* A small instance of SignIn for TLC.                                       *)
EXTENDS SignIn, TLC

Alike == Permutations(Tokens) \cup Permutations(Attempts) \cup Permutations(Persists)
=============================================================================
