---------------------------- MODULE MCControlPlane ----------------------------
(* A small instance of ControlPlane for TLC: a founder who is the owner of   *)
(* one of two organizations, and a colleague.                                *)
EXTENDS ControlPlane, TLC

CONSTANTS o1, o2, alice, bob, l1, l2, k1, k2, k3, r1, r2, d1

MCCarries == (k1 :> l1) @@ (k2 :> l2) @@ (k3 :> l1)
MCWho == (k1 :> alice) @@ (k2 :> bob) @@ (k3 :> alice)
MCCommands == {
  [kind |-> "member", org |-> o1, subject |-> bob, role |-> "developer"],
  [kind |-> "member", org |-> o1, subject |-> alice, role |-> "auditor"],
  [kind |-> "configure", org |-> o1],
  [kind |-> "deploy", org |-> o1, digest |-> d1]}
AnyRequest == Permutations(Requests)
=============================================================================
