----------------------------- MODULE MCEnrollApp -----------------------------
(* The enrolment app: the bounds are constants of its modules.                 *)
EXTENDS EnrollApp
=============================================================================
