----------------------------- MODULE MCSettling -----------------------------
(* What must come to an end, in three components that share no state: a remote
   call (RemoteCall), a handoff receipt (HandoffManager) and an interrupted
   installation (Release).  Each is a small instance of its own; "part" says which
   of them a behaviour is about, and the others stay in their initial state, since
   interleaving the steps of independent components shows nothing new about
   either. *)
EXTENDS Release, RemoteCall, TLC

CONSTANTS c1, h1, s1, s2, i1, k1, v1, v2, v3

VARIABLES
  part,
  receipts, items, err, runtime, restarts, device, generation, tickets, received, active,
  slots, ledgerErr, procs, launched, settled, outdated

OneHead == [c \in Call |-> h1]

Contexts == {"unconfirmed", "off", "owner", "members"}

H == INSTANCE HandoffManager WITH
       Scope <- {s1, s2}, Id <- {i1}, Content <- {"review"}, Session <- {k1},
       SessionOf <- [c \in {"review"} |-> k1], Context <- Contexts,
       Allowed <- [c \in Contexts |-> CASE c = "owner" -> {s1} [] c = "members" -> {s1, s2}
                                        [] OTHER -> {}],
       NoContext <- "unconfirmed", MaxReceipts <- 2, Capacity <- 1, MaxTicket <- 1,
       MaxGeneration <- 2, MaxRestart <- 1

ASSUME PartsAssumption == CallAssumption /\ H!HandoffAssumption /\ ReleaseAssumption

handoff == <<receipts, items, err, runtime, restarts, device, generation, tickets, received,
             active, slots, ledgerErr, procs, launched, settled, outdated>>
allVars == <<part, callVars, handoff, vars>>

PartsInit ==
  /\ part \in {"call", "handoff", "release"}
  /\ CallInit /\ H!HandoffInit /\ Init

OfCall == part = "call" /\ UNCHANGED <<part, handoff, vars>>
OfHandoff == part = "handoff" /\ UNCHANGED <<part, callVars, vars>>
OfRelease == part = "release" /\ UNCHANGED <<part, callVars, handoff>>

PartsNext ==
  \/ OfCall /\ CallNext
  \/ OfHandoff /\ H!HandoffNext
  \/ OfRelease /\ Next

(* The fairness of each component.  One component moves in a behaviour, so that a
   condition on a disjunction is one on that component's disjunct. *)
PartsSpec ==
  /\ PartsInit /\ [][PartsNext]_allVars
  /\ WF_allVars(\/ OfCall /\ CallStep(c1)
                \/ OfHandoff /\ H!WorkerStep(k1)
                \/ OfRelease /\ Proceeds)
  /\ WF_allVars(\/ OfCall /\ CancelRemote(c1)
                \/ OfHandoff /\ H!ContextEnds(k1)
                \/ OfRelease /\ RecoveryTried)
  /\ WF_allVars(\/ OfCall /\ CancelAllForConn(h1)
                \/ OfHandoff /\ H!Close)
  /\ SF_allVars(OfCall /\ WritesToHead(c1))
  /\ WF_allVars(OfCall /\ Reads)
  /\ WF_allVars(OfCall /\ ChangeStep)
-----------------------------------------------------------------------------
CallsAndReceiptsEnd == CallsReturn /\ ChangeEnds /\ H!ReceiptsEnd /\ H!CloseReturns
RecoveryIsSound == CandidateNotRetried /\ RollbackRecovers
=============================================================================
