----------------------------- MODULE MCAuthority -----------------------------
(* Four small components that share no state: the lease of an execution
   (LeaseGuard), who may use a device (DeviceAccess), the limits on an address
   (HelloQuota) and what a read may return (ReadWindow).  "part" says which of them
   a behaviour is about, and the others stay in their initial state. *)
EXTENDS LeaseGuard, DeviceAccess, HelloQuota, TLC

LOCAL INSTANCE SequencesExt

CONSTANTS g1, m1, m2, k1, k2, d1, a1, q1, q2, q3

VARIABLES part, file, request, place, size, opened, out, truncated

(* Texts of at most six bytes, and what a caller may select of them. *)
Runes == {<<"x">>, <<"n">>, <<"L", "C">>, <<"?">>}
Texts == {t \in {FlattenSeq(r) : r \in SeqOf(Runes, 6)} : Len(t) <= 6}
Selections ==
  [head : 1..3, tail : {0}, offset : {0}, limit : {0, 2}]
    \cup [head : {0}, tail : 1..3, offset : {0}, limit : {0, 2}]
    \cup [head : {0}, tail : {0}, offset : 0..6, limit : 0..3]
Everything == [head |-> 0, tail |-> 0, offset |-> 0, limit |-> 0]

W == INSTANCE ReadWindow WITH
       Content <- Texts, Later <- {<<>>, <<"n", "x", "n", "L", "C">>, <<"x", "n">>},
       Request <- Selections, UTFMax <- 2, MaxReadBytes <- 4, DefaultReadBytes <- 3,
       Budget <- 2, pc <- place

ASSUME PartsAssumption ==
  /\ GuardAssumption /\ TimingAssumption
  /\ AccessAssumption /\ QuotaAssumption /\ W!ReadAssumption

read == <<file, request, place, size, opened, out, truncated>>
allVars == <<part, vars, accessVars, quotaVars, read>>

PartsInit ==
  /\ part \in {"lease", "access", "quota", "read"}
  /\ Init /\ AccessInit /\ QuotaInit /\ W!Init
  /\ part # "read" => file = <<>> /\ request = Everything

PartsNext ==
  \/ part = "lease" /\ UNCHANGED <<part, accessVars, quotaVars, read>> /\ Next
  \/ part = "access" /\ UNCHANGED <<part, vars, quotaVars, read>> /\ AccessNext
  \/ part = "quota" /\ UNCHANGED <<part, vars, accessVars, read>> /\ QuotaNext
  \/ part = "read" /\ UNCHANGED <<part, vars, accessVars, quotaVars>> /\ W!Next
  \/ part \in {"access", "quota"} /\ UNCHANGED allVars  \* these may use up their bounds

PartsSpec == PartsInit /\ [][PartsNext]_allVars

Symmetry == Permutations({m1, m2}) \cup Permutations({k1, k2})
-----------------------------------------------------------------------------
ReadInv == W!ReadInv
=============================================================================
