------------------------------ MODULE MCSafety ------------------------------
(* What must never happen to two remote calls of one head (RemoteCall; their output
   is in MCSettling), to the receipts of a handoff (HandoffManager) and to the
   identity a node keeps (IdentityStore).
   They share no state: "part" says which of them a behaviour is about, and the
   others stay in their initial state. *)
EXTENDS RemoteCall, HandoffManager, IdentityStore, TLC

CONSTANTS c1, c2, h1, s1, s2, i1, i2, k1, p1, p2

VARIABLE part

OneHead == [c \in Call |-> h1]
OneSession == [c \in Content |-> k1]
Allows == [c \in Context |->
             CASE c = "owner" -> {s1} [] c = "members" -> {s1, s2} [] OTHER -> {}]

ASSUME PartsAssumption == CallAssumption /\ HandoffAssumption /\ IdentityAssumption

allVars == <<part, callVars, handoffVars, vars>>

PartsInit ==
  /\ part \in {"call", "handoff", "identity"} /\ CallInit /\ HandoffInit /\ Init
  /\ part # "identity" => legacy = {} /\ account = None /\ numeric

PartsNext ==
  \/ part = "call" /\ UNCHANGED <<part, handoffVars, vars>> /\ CallNext
  \/ part = "handoff" /\ UNCHANGED <<part, callVars, vars>> /\ HandoffNext
  \/ part = "identity" /\ UNCHANGED <<part, callVars, handoffVars>> /\ Next

PartsSpec == PartsInit /\ [][PartsNext]_allVars

Symmetry == Permutations({i1, i2})
=============================================================================
