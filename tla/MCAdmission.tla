----------------------------- MODULE MCAdmission -----------------------------
(* A small instance of Admission for TLC: every session is the one user's,   *)
(* and the copies are interchangeable.                                      *)
EXTENDS Admission, TLC

MCOwner == [s \in Sessions |-> CHOOSE u \in Users : TRUE]
AnyCopy == Permutations(Copies)
=============================================================================
