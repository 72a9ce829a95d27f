----------------------------- MODULE MCJobLedger -----------------------------
(* An instance of JobLedger for TLC: two executions and a handoff.  The executions
   are for the same key or for two, and the handoff is for the key of the first.
   Runtimes are interchangeable, so that the first job may be the first one's. *)
EXTENDS JobLedger, TLC

CONSTANTS j1, j2, j3, k1, k2, l1

Keys == {j1 :> k1 @@ j2 :> k @@ j3 :> k1 : k \in {k1, k2}}

InstanceInit == Init /\ key \in Keys /\ home[j1] = l1
InstanceSpec == InstanceInit /\ [][Next]_vars /\ Fairness
=============================================================================
