---------------------------- MODULE MCClientPool ----------------------------
(* Instances of ClientPool for TLC. *)
EXTENDS ClientPool, TLC

CONSTANTS c1, c2
=============================================================================
