---------------------------- MODULE MCLocalExec ----------------------------
(* Instances of LocalExec for TLC. *)
EXTENDS LocalExec, TLC

CONSTANT e1
=============================================================================
