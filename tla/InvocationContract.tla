------------------------- MODULE InvocationContract -------------------------
(***************************************************************************)
(* What the Relay promises the callers of its devices, without devices,    *)
(* connections, gates or database: every admitted invocation is answered   *)
(* with exactly one terminal, unless its caller is gone, and a caller has  *)
(* at most one invocation open under each exec_id.                         *)
(***************************************************************************)
CONSTANTS
  Caller, Request,
  Invocation,  \* admitted invocations, each a fresh identity
  NoCall       \* the caller and request of an invocation not yet admitted

VARIABLES
  status,      \* of each invocation
  call,        \* its caller and exec_id
  connected    \* callers that can be sent a terminal

contract == <<status, call, connected>>

Init ==
  /\ status = [x \in Invocation |-> "fresh"]
  /\ call = [x \in Invocation |-> NoCall]
  /\ connected = Caller

Open == {x \in Invocation : status[x] = "open"}

(* A terminal for every invocation of S whose caller can take it. *)
Settled(S, calls) ==
  [x \in S |-> IF calls[x][1] \in connected THEN "answered" ELSE "abandoned"]

(* A fresh invocation of a connected caller under a key it has not open. *)
MayAdmit(x, k) ==
  /\ status[x] = "fresh" /\ k[1] \in connected
  /\ \A y \in Open : call[y] # k

Admit(x, k) ==
  /\ MayAdmit(x, k)
  /\ status' = [status EXCEPT ![x] = "open"]
  /\ call' = [call EXCEPT ![x] = k]
  /\ UNCHANGED connected

(* Invocations settle together, and callers may leave in the same step. *)
Settle(S, gone) ==
  /\ S \subseteq Open /\ gone \subseteq connected
  /\ status' = [x \in Invocation |-> IF x \in S THEN Settled(S, call)[x] ELSE status[x]]
  /\ connected' = connected \ gone
  /\ UNCHANGED call

(* The device turns out to be gone when the invocation is passed to it: the
   new invocation settles at once, with all others of that device. *)
AdmitAndSettle(x, k, S) ==
  /\ MayAdmit(x, k) /\ S \subseteq Open
  /\ call' = [call EXCEPT ![x] = k]
  /\ status' = [y \in Invocation |-> IF y \in S \cup {x} THEN Settled(S \cup {x}, call')[y] ELSE status[y]]
  /\ UNCHANGED connected

Next ==
  \/ \E x \in Invocation, k \in Caller \X Request : Admit(x, k)
  \/ \E S \in SUBSET Open, gone \in SUBSET connected : Settle(S, gone)
  \/ \E x \in Invocation, k \in Caller \X Request, S \in SUBSET Open : AdmitAndSettle(x, k, S)

Contract == Init /\ [][Next]_contract

=============================================================================
