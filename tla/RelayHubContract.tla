-------------------------- MODULE RelayHubContract --------------------------
(* RelayHub implements InvocationContract. *)
EXTENDS RelayHub

NoCall == <<Nil, Nil>>
InvocationStatus == [x \in Route |->
  IF x \notin DOMAIN route THEN "fresh"
  ELSE IF x \in inflight THEN "open"
  ELSE IF x \in ended THEN "answered" ELSE "abandoned"]
InvocationCall == [x \in Route |-> IF x \in DOMAIN route THEN KeyOf(x) ELSE NoCall]
Connected == {c \in ClientConn : conn[c] \in {"new", "up"}}

Promise == INSTANCE InvocationContract WITH
  Caller <- ClientConn, Invocation <- Route,
  status <- InvocationStatus, call <- InvocationCall, connected <- Connected

(* The router never answers an invocation twice, drops one silently whose
   caller is still connected, or lets two open ones share an exec_id: whatever
   the handlers do in one critical section is one step of the contract. *)
ImplementsContract == Promise!Contract

(* Every admitted invocation leaves the router, with a terminal if its caller
   is still there: database calls, replacements and lost connections delay it
   and never lose it. *)
InvocationsSettle ==
  \A x \in Route : InvocationStatus[x] = "open" ~> InvocationStatus[x] \in {"answered", "abandoned"}

(* No handler keeps the identity gate of a device for ever, whatever happens
   to its connection during the database call: the gate serialises every
   later hello, settings change and lease renewal of that device. *)
GateReleased ==
  \A d \in Device, c \in Conn : gate[d] = c ~> gate[d] # c

(* Invocations are settled and identity gates released, one after the other. *)
EverythingSettles == InvocationsSettle /\ GateReleased
=============================================================================
