-------------------------- MODULE MCSessionLifetimes --------------------------
(* Sessions of one process: the bounds are constants of SessionLifetimes.      *)
EXTENDS SessionLifetimes
=============================================================================
