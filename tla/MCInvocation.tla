---------------------------- MODULE MCInvocation ----------------------------
(* A small instance of Invocation for TLC: c1 and c3 are the same request,   *)
(* and c2 uses their key for another input.  No property and no fairness     *)
(* condition tells c1 from c3, which makes the symmetry sound for all.       *)
EXTENDS Invocation, TLC

CONSTANTS k, i, j, c1, c2, c3

MCKeyOf == [c \in Calls |-> k]
MCInputOf == [c \in Calls |-> IF c = c2 THEN j ELSE i]
SameRequest == Permutations({c1, c3})
=============================================================================
