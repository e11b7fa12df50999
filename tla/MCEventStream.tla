---------------------------- MODULE MCEventStream ----------------------------
(* A small instance of EventStream for TLC: the events name one of the two    *)
(* users who sign in and out of a browser in turn, one session each.          *)
EXTENDS EventStream, TLC

CONSTANTS u1, u2, s1, s2

MCEvents == 1 .. 3
MCFor == [e \in MCEvents |-> u1]
MCOwner == s1 :> u1 @@ s2 :> u2
=============================================================================
