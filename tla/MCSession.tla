------------------------------ MODULE MCSession ------------------------------
(* Instances of Session for TLC. *)
EXTENDS Session

CONSTANT c1

OneClient == {c1}
AllKinds == {"auth", "detect", "enroll"}
AuthAndEnroll == {"auth", "enroll"}
=============================================================================
