--------------------------- MODULE RelayHubProofs ---------------------------
(***************************************************************************)
(* Proofs about RelayHub and RelayHubContract, for any devices,            *)
(* connections, requests, frames and settings and any bounds, and, at the  *)
(* end, about the Outbox of one connection, for any calls, sizes and       *)
(* limits.                                                                 *)
(***************************************************************************)
EXTENDS RelayHubContract, Outbox, FiniteSetTheorems, TLAPS

(* The tasks during which a handler holds the identity gate of its device. *)
Gated == {"hello", "settings", "revoke", "access", "status", "renew"}

(* A gate is held by the handler that waits for the database about its device,
   and by no other; a connection nobody has greeted has no task. *)
GateHeld ==
  /\ \A c \in Conn : task[c].kind \in Gated <=> gate[bindID[c]] = c
  /\ \A d \in Device : gate[d] # Nil => bindID[gate[d]] = d
  /\ \A c \in ClientConn : task[c].kind \in {"idle", "hello", "invoke"}
  /\ \A c \in DeviceConn : task[c].kind # "invoke"
  /\ \A c \in Conn : task[c].kind = "invoke" => task[c].request \in Request
  /\ \A c \in Conn : conn[c] = "new" => task[c].kind = "idle"

(* Who is registered has been greeted, and stands for the device it named. *)
Greeted ==
  /\ \A c \in clients : conn[c] # "new"
  /\ \A d \in Device : slot[d].conn # Nil =>
       d \in devices /\ conn[slot[d].conn] # "new" /\ bindID[slot[d].conn] = d
  /\ \A x \in DOMAIN route :
       /\ conn[route[x].client] # "new" /\ bindID[route[x].client] = route[x].device
       /\ conn[route[x].via] # "new"

(* No handler that may change the row of d is between its call and the
   publication of the result. *)
Stable(d) ==
  \/ gate[d] = Nil
  \/ task[gate[d]].kind \in {"hello", "status", "renew"}
  \/ task[gate[d]].code = "rejected"

(* A device with a connection: the authority is that of the slot's record, the
   record that of the row unless a change is being published, and the
   connection ready only after the confirmation. *)
SlotSoundAt(d) ==
  slot[d].conn # Nil =>
    /\ access[d] = Binding(slot[d].record) /\ slot[d].record.uid # 0
    /\ slot[d].born = slot[d].conn
    /\ slot[d].ready => slot[d].conn \in confirmed
    /\ Stable(d) => slot[d].record = store[d]

SlotSound == \A d \in Device : SlotSoundAt(d)

(* What the handler of c, which holds a gate, is about to publish. *)
Pending(c) ==
  LET d == bindID[c]
      t == task[c]
  IN  /\ t.kind \in {"settings", "revoke", "access", "status"} =>
           d \in devices /\ slot[d].born = c /\ slot[d].conn \in {c, Nil}
      /\ t.kind \in {"hello", "settings", "access", "status"} /\ t.code = "ok" =>
           t.record = store[d] /\ t.record.uid # 0
      /\ t.kind \in {"settings", "access", "status"} /\ t.code = "ok" /\ slot[d].conn # Nil =>
           /\ t.record.uid = slot[d].record.uid
           /\ t.kind = "settings" => t.record.owner = slot[d].record.owner

PendingSound == \A c \in Conn : Pending(c)

(* What is known of the output of a route: its mark is set exactly if some was
   lost, and its exit frame said so. *)
OutputSound ==
  /\ \A x \in inflight : x \in lost <=> route[x].trunc
  /\ \A x \in Route : exit[x] # "none" => x \in DOMAIN route /\ x \notin running /\ x \notin inflight
  /\ \A x \in Route : exit[x] = "complete" => x \notin lost
  /\ \A x \in Route : exit[x] = "truncated" => x \in lost

(* An execution in flight when inbound was switched off in the row is marked
   cancelled, or the handler that switched it off will see to it. *)
ShutSound ==
  \A x \in shut \cap inflight :
    LET d == route[x].device
        t == task[gate[d]]
    IN  /\ route[x].operation = "exec"
        /\ \/ route[x].cancelled
           \/ /\ gate[d] # Nil /\ t.kind \in {"settings", "revoke"} /\ t.code # "rejected"
              /\ t.kind = "settings" /\ t.code = "ok" => slot[d].record.inbound /\ ~ t.record.inbound

(* A connection whose hello is still being answered is in no slot. *)
Newcomer == \A c \in DeviceConn : task[c].kind = "hello" => slot[bindID[c]].conn # c

(* What is needed to see how a step treats the routes in flight ... *)
Known ==
  /\ TypeOK /\ RoutesConsistent /\ GateHeld /\ Greeted /\ Newcomer
  /\ SlotSound /\ PendingSound /\ RoutesCurrent

(* ... and the inductive invariant. *)
IInv ==
  /\ Known /\ AdmissionBound /\ OneTerminal /\ inflight \cap ended = {}
  /\ DeviceInStep /\ OutputSound /\ ShutSound
-----------------------------------------------------------------------------
(* Types, and how the shared updates act. *)

LEMMA Constants == ASSUME HubAssumption
  PROVE /\ NoRecord \in Record /\ Idle \in Task /\ NoSlot \in Slot /\ NoAuthority \in Authority
        /\ \A r \in Record : Binding(r) \in Authority
<1>1. 0 \in Id /\ 0 \in 0..MaxRoute
  BY DEF HubAssumption, Id
<1>2. NoRecord \in Record
  BY <1>1 DEF NoRecord, Record
<1>3. Idle \in Task
  BY <1>1, <1>2 DEF Idle, Task, Kind, Code, Operation
<1>4. NoSlot \in Slot
  BY <1>2 DEF NoSlot, Slot
<1>. QED BY <1>1, <1>2, <1>3, <1>4 DEF NoAuthority, Authority, Binding, Record

(* The task of a handler that waits for a transaction. *)
WaitingFor(kind, code, r) == [Idle EXCEPT !.kind = kind, !.code = code, !.record = r]

LEMMA TaskFields ==
  ASSUME HubAssumption, NEW kind \in Kind, NEW code \in Code, NEW r \in Record
  PROVE  LET t == WaitingFor(kind, code, r)
         IN  t \in Task /\ t.kind = kind /\ t.code = code /\ t.record = r
<1>1. 0 \in 0..MaxRoute
  BY DEF HubAssumption
<1>. QED BY <1>1 DEF WaitingFor, Idle, Task, Operation

(* A transaction leaves its task with the row it read or made: committed with
   the row as it is now, and otherwise undone, unless it is reported as an error. *)
Transacted(c, kind, r) ==
  LET d == bindID[c]
      t == task'[c]
  IN  /\ t \in Task /\ t.kind = kind /\ task' = [task EXCEPT ![c] = t]
      /\ t.code = "rejected" => kind \in {"access", "status"}
      /\ \/ /\ r \in Record /\ store' = [store EXCEPT ![d] = r] /\ t.record = r /\ t.code # "rejected"
            /\ shut' = IF store[d].inbound /\ ~ r.inbound
                       THEN shut \cup {x \in RoutesOf(d) : route[x].operation = "exec"} ELSE shut
         \/ store' = store /\ shut' = shut /\ t.code # "ok"

LEMMA TransactEffect ==
  ASSUME HubAssumption, TypeOK, NEW c \in Conn, NEW kind \in Kind, NEW r, Transact(c, kind, r)
  PROVE  /\ Transacted(c, kind, r) /\ nextId' \in 1..(MaxId + 1)
         /\ task' \in [Conn -> Task] /\ store' \in [Device -> Record] /\ shut' \subseteq DOMAIN route
<1>0. bindID[c] \in Device /\ task \in [Conn -> Task] /\ store \in [Device -> Record] /\ nextId \in 1..(MaxId + 1)
      /\ shut \subseteq DOMAIN route /\ inflight \subseteq DOMAIN route
  BY DEF TypeOK
<1>1. ASSUME r \in Record, store' = [store EXCEPT ![bindID[c]] = r],
             nextId' = IF nextId \in {r.uid, r.grant, r.owner} THEN nextId + 1 ELSE nextId,
             shut' = IF store[bindID[c]].inbound /\ ~ r.inbound
                     THEN shut \cup {x \in RoutesOf(bindID[c]) : route[x].operation = "exec"} ELSE shut,
             NEW code \in {"ok", "error"},
             Wait(c, [Idle EXCEPT !.kind = kind, !.code = code, !.record = r])
      PROVE  /\ Transacted(c, kind, r) /\ nextId' \in 1..(MaxId + 1)
             /\ task' \in [Conn -> Task] /\ store' \in [Device -> Record] /\ shut' \subseteq DOMAIN route
  <2>1. nextId' \in 1..(MaxId + 1)
    BY <1>0, <1>1 DEF Record, Id, HubAssumption
  <2>2. shut' \subseteq DOMAIN route
    BY <1>0, <1>1 DEF RoutesOf
  <2>. DEFINE t == WaitingFor(kind, code, r)
  <2>3. t \in Task /\ t.kind = kind /\ t.code = code /\ t.record = r
    BY <1>1, TaskFields DEF Code
  <2>4. task' = [task EXCEPT ![c] = t]
    BY <1>1 DEF Wait, WaitingFor
  <2>. HIDE DEF t
  <2>5. task'[c] = t
    BY <1>0, <2>4
  <2>. QED BY <1>0, <1>1, <2>1, <2>2, <2>3, <2>4, <2>5 DEF Transacted
<1>2. ASSUME UNCHANGED <<ids, shut>>, NEW code \in {"rejected", "error"},
             code = "rejected" => kind \in {"access", "status"},
             Wait(c, [Idle EXCEPT !.kind = kind, !.code = code, !.record = NoRecord])
      PROVE  /\ Transacted(c, kind, r) /\ nextId' \in 1..(MaxId + 1)
             /\ task' \in [Conn -> Task] /\ store' \in [Device -> Record] /\ shut' \subseteq DOMAIN route
  <2>. DEFINE t == WaitingFor(kind, code, NoRecord)
  <2>3. t \in Task /\ t.kind = kind /\ t.code = code
    BY <1>2, TaskFields, Constants DEF Code
  <2>4. task' = [task EXCEPT ![c] = t]
    BY <1>2 DEF Wait, WaitingFor
  <2>. HIDE DEF t
  <2>5. task'[c] = t
    BY <1>0, <2>4
  <2>. QED BY <1>0, <1>2, <2>3, <2>4, <2>5 DEF Transacted, ids
<1>. QED BY <1>1, <1>2 DEF Transact

(* The row that a handler asks for. *)
LEMMA WithAccessRecord ==
  ASSUME HubAssumption, NEW r \in Record, nextId \in 1..(MaxId + 1), NEW s \in Settings
  PROVE  LET u == WithAccess(r, s[1], s[2])
         IN  u.uid = r.uid /\ u.owner = r.owner /\ u.inbound = s[2]
<1>. QED BY DEF WithAccess, Record
-----------------------------------------------------------------------------
(* Connections only ever go forward, and keep the device they named. *)

Forward ==
  /\ conn' \in [Conn -> {"new", "up", "closing", "gone"}] /\ bindID' = bindID
  /\ \A c \in Conn : /\ conn'[c] = "new" => conn[c] = "new"
                     /\ conn'[c] = "up" => conn[c] \in {"new", "up"}

LEMMA CloseForward == ASSUME TypeOK, NEW S, Close(S), bindID' = bindID PROVE Forward
BY DEF TypeOK, Close, Forward

LEMMA SameForward == ASSUME TypeOK, UNCHANGED <<conn, bindID>> PROVE Forward
BY DEF TypeOK, Forward

LEMMA MoveForward ==
  ASSUME TypeOK, NEW c \in Conn, NEW s \in {"up", "closing", "gone"}, s = "up" => conn[c] = "new",
         conn' = [conn EXCEPT ![c] = s], bindID' = bindID
  PROVE  Forward
BY DEF TypeOK, Forward

LEMMA StepForward == ASSUME HubAssumption, TypeOK, Next PROVE Forward
<1>1. ASSUME NEW c \in DeviceConn, DeviceStep(c) PROVE Forward
  <2>0. c \in Conn
    BY DEF Conn
  <2>1. CASE HelloDevice(c)
    BY <2>0, <2>1, MoveForward DEF HelloDevice
  <2>2. CASE RegisterDevice(c)
    <3>1. bindID' = bindID
      BY <2>2 DEF RegisterDevice
    <3>2. conn' = [conn EXCEPT ![c] = "gone"] \/ (\E S : Close(S)) \/ conn' = conn
      BY <2>2 DEF RegisterDevice
    <3>. QED BY <2>0, <3>1, <3>2, MoveForward, CloseForward, SameForward
  <2>3. CASE \/ \E s \in Settings : UpdateSettings(c, s[1], s[2])
             \/ Revoke(c) \/ \E x \in inflight : RenewRoute(c, x)
             \/ \E action \in {"owner", "access", "status"} \cap Frames : ManageAccess(c, action)
             \/ ReplyLease(c)
    BY <2>3, SameForward DEF UpdateSettings, Revoke, RenewRoute, ManageAccess, ReplyLease
  <2>4. CASE PublishSettings(c) \/ PublishRevoke(c) \/ IdentityTimeout(c)
    <3>1. bindID' = bindID
      BY <2>4 DEF PublishSettings, PublishRevoke, IdentityTimeout
    <3>2. (\E S : Close(S)) \/ conn' = conn
      BY <2>4 DEF PublishSettings, PublishRevoke, IdentityTimeout, StopRouting
    <3>. QED BY <3>1, <3>2, CloseForward, SameForward
  <2>5. CASE PublishAccess(c)
    <3>1. bindID' = bindID
      BY <2>5 DEF PublishAccess
    <3>2. (\E S : Close(S)) \/ conn' = conn
      BY <2>5 DEF PublishAccess, StopRouting, InvalidateOwnership
    <3>. QED BY <3>1, <3>2, CloseForward, SameForward
  <2>6. CASE ConnFails(c) \/ DropDevice(c)
    BY <2>0, <2>6, MoveForward DEF ConnFails, DropDevice
  <2>. QED BY <1>1, <2>1, <2>2, <2>3, <2>4, <2>5, <2>6 DEF DeviceStep
<1>2. ASSUME NEW c \in ClientConn, ClientStep(c) PROVE Forward
  <2>0. c \in Conn
    BY DEF Conn
  <2>1. CASE HelloClient(c) \/ ConnFails(c) \/ DropClient(c)
    BY <2>0, <2>1, MoveForward DEF HelloClient, ConnFails, DropClient
  <2>2. CASE RegisterClient(c)
    <3>1. bindID' = bindID
      BY <2>2 DEF RegisterClient
    <3>2. conn' = [conn EXCEPT ![c] = "gone"] \/ conn' = conn
      BY <2>2 DEF RegisterClient
    <3>. QED BY <2>0, <3>1, <3>2, MoveForward, SameForward
  <2>3. CASE \/ \E r \in Request, op \in Operation \cap Frames : Invoke(c, r, op)
             \/ Admit(c) \/ RejectInvoke(c) \/ \E r \in Request : Cancel(c, r)
    BY <2>3, SameForward DEF Invoke, Admit, RejectInvoke, Cancel
  <2>. QED BY <1>2, <2>1, <2>2, <2>3 DEF ClientStep
<1>3. ASSUME NEW x \in running, RouteStep(x) PROVE Forward
  <2>1. bindID' = bindID
    BY <1>3 DEF RouteStep, DropOutput, OutputToClosedCaller, DropFromInbox, Terminal
  <2>2. (\E S : Close(S)) \/ conn' = conn
    BY <1>3 DEF RouteStep, DropOutput, OutputToClosedCaller, DropFromInbox, Terminal, DropCaller
  <2>. QED BY <2>1, <2>2, CloseForward, SameForward
<1>4. CASE Exhausted
  BY <1>4, SameForward DEF Exhausted, vars
<1>. QED BY <1>1, <1>2, <1>3, <1>4 DEF Next
-----------------------------------------------------------------------------
(* Whatever a step does to the routes, it admits one or ends a set of them
   together: out of the three maps at once, with a terminal to every caller
   that is still connected. *)

Settles(S) ==
  S \subseteq inflight /\ Finish(S) /\ ended' = ended \cup {x \in S : Up(route[x].client)}

(* r and q are the records of a route before and after a mark was set. *)
Marked(r, q) ==
  /\ q \in RouteRecord /\ q.request = r.request /\ q.device = r.device /\ q.client = r.client
  /\ q.binding = r.binding /\ q.operation = r.operation /\ q.via = r.via
  /\ r.cancelled => q.cancelled

(* Of the record of a route only the two marks ever change. *)
OldKept ==
  DOMAIN route \subseteq DOMAIN route' /\ \A x \in DOMAIN route : Marked(route[x], route'[x])
RecordsKept ==
  OldKept /\ nextRoute' = nextRoute /\ DOMAIN route' = DOMAIN route

RoutesSettle == RecordsKept /\ \E S : Settles(S)

LEMMA NoneSettle ==
  ASSUME TypeOK, UNCHANGED <<inflight, requests, leased, ended>> PROVE Settles({})
BY DEF TypeOK, Settles, Finish


LEMMA TerminalsSettle ==
  ASSUME NEW S, S \subseteq inflight, TellClients(S), Finish(S) PROVE Settles(S)
BY DEF TellClients, Settles

LEMMA LostCallerSettles ==
  ASSUME TypeOK, NEW c \in ClientConn, ~ Up(c), CancelClient(c), UNCHANGED ended
  PROVE  Settles(RoutesFrom(c))
<1>1. {x \in RoutesFrom(c) : Up(route[x].client)} = {}
  BY DEF RoutesFrom
<1>. QED BY <1>1 DEF CancelClient, Settles, RoutesFrom

LEMMA StoppedSettles ==
  ASSUME NEW c, StopRouting(c)
  PROVE  \E S : Settles(S)
BY TerminalsSettle DEF StopRouting

LEMMA Marks ==
  ASSUME NEW r \in RouteRecord
  PROVE  Marked(r, r) /\ Marked(r, [r EXCEPT !.cancelled = TRUE]) /\ Marked(r, [r EXCEPT !.trunc = TRUE])
BY DEF Marked, RouteRecord

LEMMA SameRecords == ASSUME TypeOK, UNCHANGED <<route, nextRoute>> PROVE RecordsKept
BY Marks DEF TypeOK, RecordsKept, OldKept

LEMMA MarkKeeps ==
  ASSUME TypeOK, NEW x \in DOMAIN route, nextRoute' = nextRoute,
         \/ route' = [route EXCEPT ![x].cancelled = TRUE]
         \/ route' = [route EXCEPT ![x].trunc = TRUE]
  PROVE  RecordsKept
<1>1. \A y \in DOMAIN route : route[y] \in RouteRecord
  BY DEF TypeOK
<1>2. DOMAIN route' = DOMAIN route
  OBVIOUS
<1>3. \A y \in DOMAIN route : Marked(route[y], route'[y])
  BY <1>1, Marks
<1>. QED BY <1>2, <1>3 DEF RecordsKept, OldKept

LEMMA DeviceRoutes ==
  ASSUME HubAssumption, TypeOK, NEW c \in DeviceConn, DeviceStep(c) PROVE RoutesSettle
<1>1. CASE RegisterDevice(c)
  <2>1. RecordsKept
    BY <1>1, SameRecords DEF RegisterDevice
  <2>2. CASE FailDevice(bindID[c])
    BY <2>1, <2>2, TerminalsSettle DEF FailDevice, RoutesSettle, RoutesOf
  <2>3. CASE UNCHANGED <<inflight, requests, leased, ended>>
    BY <2>1, <2>3, NoneSettle DEF RoutesSettle
  <2>. QED BY <1>1, <2>2, <2>3 DEF RegisterDevice
<1>2. CASE \/ HelloDevice(c) \/ Revoke(c) \/ \E x \in inflight : RenewRoute(c, x)
           \/ \E s \in Settings : UpdateSettings(c, s[1], s[2])
           \/ \E action \in {"owner", "access", "status"} \cap Frames : ManageAccess(c, action)
           \/ ReplyLease(c) \/ ConnFails(c)
  <2>1. UNCHANGED <<routes, ended>>
    BY <1>2 DEF HelloDevice, UpdateSettings, Revoke, RenewRoute, ManageAccess, ReplyLease, ConnFails, Unseen, seen
  <2>. QED BY <2>1, NoneSettle, SameRecords DEF RoutesSettle, routes
<1>3. CASE PublishSettings(c)
  <2>1. RecordsKept
    <3>1. CASE route' = route
      BY <1>3, <3>1, SameRecords DEF PublishSettings
    <3>2. ASSUME NEW closed, route' = 
                     [x \in DOMAIN route |-> IF x \in closed THEN [route[x] EXCEPT !.cancelled = TRUE] ELSE route[x]]
          PROVE  RecordsKept
      <4>1. nextRoute' = nextRoute
        BY <1>3 DEF PublishSettings
      <4>2. \A x \in DOMAIN route : route[x] \in RouteRecord
        BY DEF TypeOK
      <4>3. \A x \in DOMAIN route : Marked(route[x], route'[x])
        BY <3>2, <4>2, Marks
      <4>. QED BY <3>2, <4>1, <4>3 DEF RecordsKept, OldKept
    <3>. QED BY <1>3, <3>1, <3>2 DEF PublishSettings
  <2>2. \E S : Settles(S)
    <3>1. CASE StopRouting(c)
      BY <3>1, StoppedSettles
    <3>2. CASE UNCHANGED <<inflight, requests, leased, ended>>
      BY <3>2, NoneSettle
    <3>3. ASSUME NEW mine, mine \subseteq inflight, TellClients(mine), Finish(mine) PROVE \E S : Settles(S)
      BY <3>3, TerminalsSettle
    <3>. QED BY <1>3, <3>1, <3>2, <3>3 DEF PublishSettings, RoutesOf
  <2>. QED BY <2>1, <2>2 DEF RoutesSettle
<1>4. CASE PublishRevoke(c) \/ IdentityTimeout(c) \/ DropDevice(c)
  <2>1. RecordsKept
    BY <1>4, SameRecords DEF PublishRevoke, IdentityTimeout, DropDevice
  <2>2. StopRouting(c) \/ FailDevice(bindID[c]) \/ UNCHANGED <<inflight, requests, leased, ended>>
    BY <1>4 DEF PublishRevoke, IdentityTimeout, DropDevice
  <2>3. RoutesOf(bindID[c]) \subseteq inflight
    BY DEF RoutesOf
  <2>. QED BY <2>1, <2>2, <2>3, StoppedSettles, NoneSettle, TerminalsSettle DEF FailDevice, RoutesSettle
<1>5. CASE PublishAccess(c)
  <2>1. RecordsKept
    BY <1>5, SameRecords DEF PublishAccess
  <2>2. \/ StopRouting(c) \/ UNCHANGED <<inflight, requests, leased, ended>>
        \/ \E S : S \subseteq inflight /\ TellClients(S) /\ Finish(S)
    BY <1>5 DEF PublishAccess, InvalidateOwnership, RoutesOf
  <2>. QED BY <2>1, <2>2, StoppedSettles, NoneSettle, TerminalsSettle DEF RoutesSettle
<1>. QED BY <1>1, <1>2, <1>3, <1>4, <1>5 DEF DeviceStep

LEMMA ClientRoutes ==
  ASSUME HubAssumption, TypeOK, RoutesConsistent, NEW c \in ClientConn, ClientStep(c)
  PROVE  RoutesSettle \/ Admit(c)
<1>1. CASE \/ HelloClient(c) \/ RegisterClient(c) \/ RejectInvoke(c) \/ ConnFails(c)
           \/ \E r \in Request, op \in Operation \cap Frames : Invoke(c, r, op)
  <2>1. UNCHANGED <<routes, ended>>
    BY <1>1 DEF HelloClient, RegisterClient, RejectInvoke, ConnFails, Invoke, seen
  <2>. QED BY <2>1, NoneSettle, SameRecords DEF RoutesSettle, routes
<1>2. ASSUME NEW r \in Request, Cancel(c, r) PROVE RoutesSettle
  <2>1. requests[<<c, r>>] \in DOMAIN route
    <3>1. <<c, r>> \in Key
      BY DEF Key
    <3>. QED BY <1>2, <3>1 DEF Cancel, RoutesConsistent, TypeOK
  <2>. QED BY <1>2, <2>1, MarkKeeps, NoneSettle DEF Cancel, RoutesSettle
<1>3. CASE DropClient(c)
  <2>1. ~ Up(c)
    BY <1>3 DEF DropClient, Up
  <2>. QED BY <1>3, <2>1, LostCallerSettles, SameRecords DEF DropClient, RoutesSettle
<1>. QED BY <1>1, <1>2, <1>3 DEF ClientStep

LEMMA RouteRoutes ==
  ASSUME HubAssumption, TypeOK, NEW x \in running, RouteStep(x) PROVE RoutesSettle
<1>0. x \in DOMAIN route /\ route[x].client \in ClientConn
  BY DEF TypeOK, RouteRecord
<1>1. CASE DropOutput(x) \/ DropFromInbox(x)
  <2>1. RecordsKept
    BY <1>0, <1>1, MarkKeeps, SameRecords DEF DropOutput, DropFromInbox, Truncate
  <2>. QED BY <1>1, <2>1, NoneSettle DEF DropOutput, DropFromInbox, RoutesSettle
<1>2. CASE OutputToClosedCaller(x)
  BY <1>0, <1>2, LostCallerSettles, SameRecords DEF OutputToClosedCaller, DropCaller, RoutesSettle
<1>3. ASSUME NEW kind, Terminal(x, kind) PROVE RoutesSettle
  <2>1. RecordsKept
    BY <1>3, SameRecords DEF Terminal
  <2>2. CASE ~ Routed(x)
    BY <1>3, <2>1, <2>2, NoneSettle DEF Terminal, RoutesSettle
  <2>3. CASE Routed(x) /\ Up(route[x].client)
    BY <1>3, <2>1, <2>3, TerminalsSettle DEF Terminal, RoutesSettle, Routed
  <2>4. CASE Routed(x) /\ ~ Up(route[x].client)
    BY <1>0, <1>3, <2>1, <2>4, LostCallerSettles DEF Terminal, RoutesSettle, DropCaller
  <2>. QED BY <2>2, <2>3, <2>4
<1>. QED BY <1>1, <1>2, <1>3 DEF RouteStep

LEMMA StepRoutes ==
  ASSUME HubAssumption, TypeOK, RoutesConsistent, Next PROVE RoutesSettle \/ \E c \in ClientConn : Admit(c)
<1>1. CASE Exhausted
  BY <1>1, NoneSettle, SameRecords DEF Exhausted, vars, routes, seen, RoutesSettle
<1>. QED BY <1>1, DeviceRoutes, ClientRoutes, RouteRoutes DEF Next
-----------------------------------------------------------------------------
(* The router's maps agree (RoutesConsistent), stay within admission
   (AdmissionBound), and account for every terminal (OneTerminal). *)

LEMMA KeyInKey == ASSUME TypeOK, NEW x \in DOMAIN route PROVE KeyOf(x) \in Key
BY DEF TypeOK, KeyOf, Key, RouteRecord

LEMMA SameKeys ==
  ASSUME OldKept, NEW x \in DOMAIN route
  PROVE  KeyOf(x)' = KeyOf(x) /\ route'[x].binding = route[x].binding
BY DEF OldKept, Marked, KeyOf

LEMMA SettleConsistent ==
  ASSUME TypeOK, RoutesConsistent, OldKept, NEW S, S \subseteq inflight, Finish(S)
  PROVE  RoutesConsistent'
<1>0. inflight \subseteq DOMAIN route /\ S \subseteq inflight /\ inflight' = inflight \ S
  BY DEF TypeOK, Finish
<1>1. \A k \in Key : requests'[k] = IF \E x \in S : KeyOf(x) = k THEN 0 ELSE requests[k]
  BY DEF Finish
<1>2. ASSUME NEW k \in Key, requests'[k] # 0
      PROVE  requests'[k] \in inflight' /\ KeyOf(requests[k])' = k
  <2>1. PICK y \in inflight : requests[k] = y /\ requests'[k] = y /\ KeyOf(y) = k
    BY <1>1, <1>2 DEF RoutesConsistent
  <2>2. y \notin S
    BY <1>1, <1>2, <2>1
  <2>3. KeyOf(y)' = k
    BY <1>0, <2>1, SameKeys
  <2>. QED BY <1>0, <2>1, <2>2, <2>3 DEF KeyOf
<1>3. ASSUME NEW x \in inflight' PROVE requests'[KeyOf(x)'] = x
  <2>1. x \in inflight \ S /\ KeyOf(x)' = KeyOf(x) /\ KeyOf(x) \in Key /\ requests[KeyOf(x)] = x
    BY <1>0, <1>3, SameKeys, KeyInKey DEF RoutesConsistent
  <2>2. ~ \E y \in S : KeyOf(y) = KeyOf(x)
    BY <1>0, <2>1 DEF RoutesConsistent
  <2>. QED BY <1>1, <2>1, <2>2
<1>4. leased' = {[route |-> x, uid |-> route'[x].binding.uid] : x \in inflight'}
  <2>1. leased' = {l \in leased : l.route \notin S}
    BY DEF Finish
  <2>2. leased = {[route |-> x, uid |-> route[x].binding.uid] : x \in inflight}
    BY DEF RoutesConsistent
  <2>3. \A x \in inflight : route'[x].binding = route[x].binding
    BY <1>0, SameKeys
  <2>4. \A x \in inflight : [route |-> x, uid |-> route[x].binding.uid].route = x
    OBVIOUS
  <2>5. \A l \in leased' : l \in {[route |-> x, uid |-> route'[x].binding.uid] : x \in inflight'}
    BY <1>0, <2>1, <2>2, <2>3, <2>4
  <2>6. \A x \in inflight' : [route |-> x, uid |-> route'[x].binding.uid] \in leased'
    BY <1>0, <2>1, <2>2, <2>3, <2>4
  <2>. QED BY <2>5, <2>6
<1>. QED BY <1>2, <1>3, <1>4 DEF RoutesConsistent

LEMMA FiniteFlight == ASSUME HubAssumption, TypeOK, NEW T \in SUBSET inflight PROVE IsFiniteSet(T)
<1>1. IsFiniteSet(1..(nextRoute - 1))
  BY FS_Interval DEF TypeOK, HubAssumption
<1>. QED BY <1>1, FS_Subset DEF TypeOK

LEMMA SettleBound ==
  ASSUME HubAssumption, TypeOK, AdmissionBound, OldKept, inflight' \subseteq inflight
  PROVE  AdmissionBound'
<1>. SUFFICES ASSUME NEW u \in Id
             PROVE  Cardinality({x \in inflight' : route'[x].binding.uid = u}) <= PerDevice
  BY DEF AdmissionBound
<1>. DEFINE old == {x \in inflight : route[x].binding.uid = u}
            new == {x \in inflight' : route'[x].binding.uid = u}
<1>1. new \in SUBSET old
  BY SameKeys DEF TypeOK
<1>2. IsFiniteSet(old)
  BY FiniteFlight
<1>3. Cardinality(old) <= PerDevice
  BY DEF AdmissionBound
<1>4. Cardinality(old) \in Nat /\ Cardinality(new) \in Nat /\ Cardinality(new) <= Cardinality(old)
  BY <1>1, <1>2, FS_Subset, FS_CardinalityType
<1>. QED BY <1>3, <1>4 DEF HubAssumption

LEMMA SettleTerminals ==
  ASSUME TypeOK, OneTerminal, Greeted, Forward, RecordsKept, NEW S, Settles(S)
  PROVE  OneTerminal'
<1>. SUFFICES ASSUME NEW x \in DOMAIN route, Up(route[x].client)' PROVE (x \in inflight') <=> (x \notin ended')
  BY DEF OneTerminal, RecordsKept, TypeOK
<1>1. route'[x].client = route[x].client /\ route[x].client \in Conn /\ route[x].client # Nil
  BY DEF RecordsKept, OldKept, Marked, TypeOK, RouteRecord, Conn, Up
<1>2. Up(route[x].client)
  BY <1>1 DEF Up, Forward, Greeted
<1>3. (x \in inflight) <=> (x \notin ended)
  BY <1>2 DEF OneTerminal
<1>. QED BY <1>2, <1>3 DEF Settles, Finish

(* The leases of a device are as many as its routes in flight. *)
LEMMA LeaseCount ==
  ASSUME HubAssumption, TypeOK, RoutesConsistent, NEW u
  PROVE  LET R == {x \in inflight : route[x].binding.uid = u}
             L == {l \in leased : l.uid = u}
         IN  IsFiniteSet(R) /\ Cardinality(R) = Cardinality(L)
<1>. DEFINE R == {x \in inflight : route[x].binding.uid = u}
            L == {l \in leased : l.uid = u}
            f == [x \in R |-> [route |-> x, uid |-> u]]
<1>1. IsFiniteSet(R)
  BY FiniteFlight
<1>2. \A l \in L : \E x \in R : l = [route |-> x, uid |-> u]
  BY DEF RoutesConsistent
<1>3. \A x \in R : [route |-> x, uid |-> u] \in L
  BY DEF RoutesConsistent
<1>4. f \in Bijection(R, L)
  <2>1. f \in [R -> L]
    BY <1>3
  <2>2. \A x, y \in R : f[x] = f[y] => x = y
    OBVIOUS
  <2>3. \A l \in L : \E x \in R : f[x] = l
    BY <1>2
  <2>. HIDE DEF f, R, L
  <2>. QED BY <2>1, <2>2, <2>3 DEF Bijection, Injection, Surjection, IsInjective
<1>. QED BY <1>1, <1>4, FS_Bijection DEF ExistsBijection

(* Admission: the record it adds, with the connection still there or not. *)
NewRecord(c) ==
  [request |-> task[c].request, device |-> bindID[c], client |-> c, binding |-> client[c],
   operation |-> task[c].operation, cancelled |-> FALSE, trunc |-> FALSE, via |-> slot[bindID[c]].conn]

LEMMA AdmitRecord ==
  ASSUME HubAssumption, TypeOK, NEW c \in ClientConn, task[c].request \in Request, Admit(c)
  PROVE  /\ NewRecord(c) \in RouteRecord
         /\ nextRoute \in Route /\ nextRoute \notin DOMAIN route /\ nextRoute' = nextRoute + 1
         /\ DOMAIN route' = DOMAIN route \cup {nextRoute} /\ DOMAIN route' = 1..(nextRoute' - 1)
         /\ route'[nextRoute] = NewRecord(c)
         /\ \A x \in DOMAIN route : x # nextRoute /\ route'[x] = route[x]
<1>1. DOMAIN route = 1..(nextRoute - 1) /\ nextRoute \in 1..(MaxRoute + 1) /\ c \in Conn
  BY DEF TypeOK, Conn
<1>2. nextRoute \in Route /\ nextRoute' = nextRoute + 1
  BY DEF Admit
<1>3. route' = [y \in 1..nextRoute |-> IF y = nextRoute THEN NewRecord(c) ELSE route[y]]
  BY DEF Admit, NewRecord
<1>4. NewRecord(c) \in RouteRecord
  BY <1>1 DEF NewRecord, RouteRecord, TypeOK, Task, Slot, Admit, Admissible
<1>. HIDE DEF NewRecord
<1>5. 1..nextRoute = (1..(nextRoute - 1)) \cup {nextRoute} /\ nextRoute' - 1 = nextRoute /\ nextRoute \notin 1..(nextRoute - 1)
  BY <1>1, <1>2 DEF HubAssumption
<1>. QED BY <1>1, <1>2, <1>3, <1>4, <1>5

LEMMA AdmitKeepsOld ==
  ASSUME HubAssumption, TypeOK, NEW c \in ClientConn, task[c].request \in Request, Admit(c)
  PROVE  OldKept
BY AdmitRecord, Marks DEF OldKept, TypeOK

LEMMA AdmitConsistent ==
  ASSUME HubAssumption, TypeOK, RoutesConsistent,
         NEW c \in ClientConn, task[c].request \in Request, Admit(c)
  PROVE  RoutesConsistent'
<1>x. PICK x \in Route : x = nextRoute
  BY AdmitRecord
<1>k. PICK k : k = <<c, task[c].request>>
  OBVIOUS
<1>0. OldKept
  BY AdmitKeepsOld
<1>1. CASE ~ Up(slot[bindID[c]].conn)
  <2>1. Finish(RoutesOf(bindID[c])) /\ RoutesOf(bindID[c]) \subseteq inflight
    BY <1>1 DEF Admit, RoutesOf
  <2>. QED BY <1>0, <2>1, SettleConsistent
<1>2. CASE Up(slot[bindID[c]].conn)
  <2>1. /\ inflight' = inflight \cup {x}
        /\ requests' = [requests EXCEPT ![k] = x]
        /\ leased' = leased \cup {[route |-> x, uid |-> client[c].uid]}
        /\ requests[k] = 0
    BY <1>2, <1>x, <1>k DEF Admit, Admissible
  <2>2. k \in Key /\ requests \in [Key -> 0..MaxRoute] /\ inflight \subseteq DOMAIN route /\ x # 0
    <3>1. k \in Key
      BY <1>k DEF Key
    <3>2. x # 0
      BY <1>x DEF Route, HubAssumption
    <3>. QED BY <3>1, <3>2 DEF TypeOK
  <2>3. x \notin DOMAIN route /\ KeyOf(x)' = k /\ route'[x].binding = client[c]
    <3>1. x \notin DOMAIN route /\ route'[x] = NewRecord(c)
      BY <1>x, AdmitRecord
    <3>2. NewRecord(c).client = c /\ NewRecord(c).request = task[c].request /\ NewRecord(c).binding = client[c]
      BY DEF NewRecord
    <3>. QED BY <1>k, <3>1, <3>2 DEF KeyOf
  <2>4. ASSUME NEW j \in Key, requests'[j] # 0 PROVE requests'[j] \in inflight' /\ KeyOf(requests[j])' = j
    <3>1. CASE j = k
      BY <2>1, <2>2, <2>3, <3>1 DEF KeyOf
    <3>2. CASE j # k
      <4>1. PICK y \in inflight : requests[j] = y /\ requests'[j] = y /\ KeyOf(y) = j
        BY <2>1, <2>2, <2>4, <3>2 DEF RoutesConsistent
      <4>2. KeyOf(y)' = j
        BY <1>0, <2>2, <4>1, SameKeys
      <4>. QED BY <2>1, <4>1, <4>2 DEF KeyOf
    <3>. QED BY <3>1, <3>2
  <2>5. ASSUME NEW y \in inflight' PROVE requests'[KeyOf(y)'] = y
    <3>1. CASE y = x
      BY <2>1, <2>2, <2>3, <3>1
    <3>2. CASE y # x
      <4>1. y \in inflight /\ KeyOf(y)' = KeyOf(y) /\ KeyOf(y) \in Key /\ requests[KeyOf(y)] = y
        BY <1>0, <2>1, <2>2, <2>5, <3>2, SameKeys, KeyInKey DEF RoutesConsistent
      <4>2. y # 0 /\ KeyOf(y) # k
        BY <2>1, <2>2, <4>1 DEF TypeOK
      <4>. QED BY <2>1, <2>2, <4>1, <4>2
    <3>. QED BY <3>1, <3>2
  <2>6. leased' = {[route |-> y, uid |-> route'[y].binding.uid] : y \in inflight'}
    <3>1. leased = {[route |-> y, uid |-> route[y].binding.uid] : y \in inflight}
      BY DEF RoutesConsistent
    <3>2. \A y \in inflight : route'[y].binding = route[y].binding
      BY <1>0, <2>2, SameKeys
    <3>. QED BY <2>1, <2>2, <2>3, <3>1, <3>2
  <2>. QED BY <2>4, <2>5, <2>6 DEF RoutesConsistent
<1>. QED BY <1>1, <1>2

LEMMA AdmitBound ==
  ASSUME HubAssumption, TypeOK, RoutesConsistent, AdmissionBound,
         NEW c \in ClientConn, task[c].request \in Request, Admit(c)
  PROVE  AdmissionBound'
<1>0. OldKept
  BY AdmitKeepsOld
<1>1. CASE ~ Up(slot[bindID[c]].conn)
  BY <1>0, <1>1, SettleBound DEF Admit, Finish
<1>2. CASE Up(slot[bindID[c]].conn)
  <2>. SUFFICES ASSUME NEW u \in Id
               PROVE  Cardinality({x \in inflight' : route'[x].binding.uid = u}) <= PerDevice
    BY DEF AdmissionBound
  <2>. DEFINE old == {x \in inflight : route[x].binding.uid = u}
              new == {x \in inflight' : route'[x].binding.uid = u}
  <2>1. inflight' = inflight \cup {nextRoute} /\ route'[nextRoute].binding = client[c] /\ inflight \subseteq DOMAIN route
    BY <1>2, AdmitRecord DEF Admit, NewRecord, TypeOK
  <2>2. \A x \in inflight : x # nextRoute /\ route'[x].binding = route[x].binding
    BY <1>0, <2>1, SameKeys, AdmitRecord
  <2>3. IsFiniteSet(old) /\ Cardinality(old) <= PerDevice /\ Cardinality(old) \in Nat
    BY FiniteFlight, FS_CardinalityType DEF AdmissionBound
  <2>4. CASE u # client[c].uid
    <3>1. new = old
      BY <2>1, <2>2, <2>4
    <3>. QED BY <2>3, <3>1
  <2>5. CASE u = client[c].uid
    <3>1. new = old \cup {nextRoute} /\ nextRoute \notin old
      BY <2>1, <2>2, <2>5
    <3>2. Cardinality(old) < PerDevice
      <4>1. Cardinality(old) = Cardinality({l \in leased : l.uid = u})
        BY LeaseCount
      <4>2. Cardinality({l \in leased : l.uid = client[c].uid}) < PerDevice
        BY DEF Admit, Admissible
      <4>. QED BY <2>5, <4>1, <4>2
    <3>3. Cardinality(new) = Cardinality(old) + 1
      BY <2>3, <3>1, FS_AddElement
    <3>. QED BY <2>3, <3>2, <3>3 DEF HubAssumption
  <2>. QED BY <2>4, <2>5
<1>. QED BY <1>1, <1>2

LEMMA AdmitTerminals ==
  ASSUME HubAssumption, TypeOK, OneTerminal, NEW c \in ClientConn, task[c].request \in Request, Admit(c)
  PROVE  OneTerminal'
<1>. DEFINE S == RoutesOf(bindID[c])
<1>1. /\ DOMAIN route' = DOMAIN route \cup {nextRoute} /\ nextRoute \notin DOMAIN route
      /\ \A x \in DOMAIN route : route'[x] = route[x]
  BY AdmitRecord
<1>2. conn' = conn /\ inflight \subseteq DOMAIN route /\ ended \subseteq DOMAIN route
  BY DEF Admit, TypeOK
<1>3. CASE Up(slot[bindID[c]].conn)
  <2>1. inflight' = inflight \cup {nextRoute} /\ ended' = ended
    BY <1>3 DEF Admit
  <2>. QED BY <1>1, <1>2, <2>1 DEF OneTerminal, Up
<1>4. CASE ~ Up(slot[bindID[c]].conn)
  <2>1. inflight' = inflight \ S /\ ended' = ended \cup {nextRoute} \cup {y \in S : Up(route[y].client)} /\ S \subseteq inflight
    BY <1>4 DEF Admit, Finish, RoutesOf
  <2>. QED BY <1>1, <1>2, <2>1 DEF OneTerminal, Up
<1>. QED BY <1>3, <1>4

(* The three together, over a step. *)
LEMMA RouterStep ==
  ASSUME HubAssumption, TypeOK, RoutesConsistent, AdmissionBound, OneTerminal, GateHeld, Greeted, Next
  PROVE  RoutesConsistent' /\ AdmissionBound' /\ OneTerminal'
<1>1. CASE RoutesSettle
  <2>1. PICK S : Settles(S)
    BY <1>1 DEF RoutesSettle
  <2>2. S \subseteq inflight /\ Finish(S) /\ inflight' \subseteq inflight /\ RecordsKept /\ OldKept /\ Forward
    BY <1>1, <2>1, StepForward DEF Settles, Finish, RoutesSettle, RecordsKept
  <2>. QED BY <2>1, <2>2, SettleConsistent, SettleBound, SettleTerminals
<1>2. ASSUME NEW c \in ClientConn, Admit(c) PROVE RoutesConsistent' /\ AdmissionBound' /\ OneTerminal'
  <2>1. task[c].request \in Request
    BY <1>2 DEF Admit, GateHeld, Conn
  <2>. QED BY <1>2, <2>1, AdmitConsistent, AdmitBound, AdmitTerminals
<1>. QED BY <1>1, <1>2, StepRoutes
-----------------------------------------------------------------------------
(* What becomes of slots. *)

(* A slot whose record, readiness and connection are replaced. *)
Edited(s, r, ready, dc) == [conn |-> dc, born |-> s.born, record |-> r, ready |-> ready]

LEMMA SlotEdits ==
  ASSUME NEW s \in Slot, NEW r \in Record, NEW b \in BOOLEAN, NEW dc \in DeviceConn \cup {Nil}
  PROVE  /\ Edited(s, r, b, dc) \in Slot
         /\ [s EXCEPT !.record = r] = Edited(s, r, s.ready, s.conn)
         /\ [s EXCEPT !.record = r, !.ready = b] = Edited(s, r, b, s.conn)
         /\ [s EXCEPT !.record = r, !.conn = dc] = Edited(s, r, s.ready, dc)
<1>1. Edited(s, r, b, dc) \in Slot
  BY DEF Edited, Slot
<1>2. [s EXCEPT !.record = r] = Edited(s, r, s.ready, s.conn)
  BY DEF Edited, Slot
<1>3. [s EXCEPT !.record = r, !.ready = b] = Edited(s, r, b, s.conn)
  <2>1. [s EXCEPT !.record = r, !.ready = b] = [[s EXCEPT !.record = r] EXCEPT !.ready = b]
    OBVIOUS
  <2>2. [Edited(s, r, s.ready, s.conn) EXCEPT !.ready = b] = Edited(s, r, b, s.conn)
    BY DEF Edited
  <2>. QED BY <1>2, <2>1, <2>2
<1>4. [s EXCEPT !.record = r, !.conn = dc] = Edited(s, r, s.ready, dc)
  <2>1. [s EXCEPT !.record = r, !.conn = dc] = [[s EXCEPT !.record = r] EXCEPT !.conn = dc]
    OBVIOUS
  <2>2. [Edited(s, r, s.ready, s.conn) EXCEPT !.conn = dc] = Edited(s, r, s.ready, dc)
    BY DEF Edited
  <2>. QED BY <1>2, <2>1, <2>2
<1>. QED BY <1>1, <1>2, <1>3, <1>4

LEMMA EditedFields ==
  ASSUME NEW s, NEW r, NEW b, NEW dc
  PROVE  LET e == Edited(s, r, b, dc)
         IN  e.conn = dc /\ e.born = s.born /\ e.record = r /\ e.ready = b
BY DEF Edited

(* The connection of a slot is forgotten. *)
Cleared(s) == Edited(s, s.record, s.ready, Nil)

LEMMA StopSlots ==
  ASSUME TypeOK, NEW c, StopRouting(c)
  PROVE  /\ slot' \in [Device -> Slot]
         /\ \A d \in Device : slot'[d] = IF d \in devices /\ slot[d].conn = c THEN Cleared(slot[d]) ELSE slot[d]
<1>1. slot' = [d \in Device |-> IF d \in devices /\ slot[d].conn = c THEN [slot[d] EXCEPT !.conn = Nil] ELSE slot[d]]
  BY DEF StopRouting
<1>2. ASSUME NEW s \in Slot PROVE [s EXCEPT !.conn = Nil] = Cleared(s) /\ Cleared(s) \in Slot
  BY DEF Cleared, Edited, Slot
<1>3. \A d \in Device : slot[d] \in Slot
  BY DEF TypeOK
<1>. QED BY <1>1, <1>2, <1>3

LEMMA DropSlot ==
  ASSUME TypeOK, NEW d \in Device, slot' = [slot EXCEPT ![d].conn = Nil]
  PROVE  slot' \in [Device -> Slot] /\ slot' = [slot EXCEPT ![d] = Cleared(slot[d])]
<1>1. ASSUME NEW s \in Slot PROVE [s EXCEPT !.conn = Nil] = Cleared(s) /\ Cleared(s) \in Slot
  BY DEF Cleared, Edited, Slot
<1>2. slot \in [Device -> Slot]
  BY DEF TypeOK
<1>. QED BY <1>1, <1>2

LEMMA SettingsSlot ==
  ASSUME HubAssumption, TypeOK, NEW c \in DeviceConn, PublishSettings(c), task[c].code = "ok", SameSlot(c)
  PROVE  LET d == bindID[c]
             s == slot[d]
         IN  \E b \in BOOLEAN, dc \in {s.conn, Nil} :
               /\ b <=> s.ready \/ Up(c)
               /\ dc = IF Up(c) \/ s.conn # c THEN s.conn ELSE Nil
               /\ Edited(s, task[c].record, b, dc) \in Slot
               /\ slot' = [slot EXCEPT ![d] = Edited(s, task[c].record, b, dc)]
<1>. DEFINE d == bindID[c]
            s == slot[d]
            r == task[c].record
<1>1. c \in Conn /\ d \in Device /\ s \in Slot /\ r \in Record /\ slot \in [Device -> Slot]
      /\ s.conn \in DeviceConn \cup {Nil}
  BY DEF TypeOK, Conn, Task, Slot
<1>2. PICK b \in BOOLEAN : b = (s.ready \/ Up(c))
  <2>1. (s.ready \/ Up(c)) \in BOOLEAN
    OBVIOUS
  <2>. QED BY <2>1, Zenon
<1>3. PICK dc \in DeviceConn \cup {Nil} : dc = IF Up(c) \/ s.conn # c THEN s.conn ELSE Nil
  BY <1>1
<1>4. Edited(s, r, b, dc) \in Slot /\ Edited(s, r, b, s.conn) = [s EXCEPT !.record = r, !.ready = b]
  BY <1>1, SlotEdits
<1>. DEFINE fresh == [slot EXCEPT ![d].record = r, ![d].ready = @ \/ Up(c)]
<1>5. fresh = [slot EXCEPT ![d] = Edited(s, r, b, s.conn)]
  <2>1. fresh = [slot EXCEPT ![d] = [s EXCEPT !.record = r, !.ready = b]]
    BY <1>1, <1>2
  <2>. QED BY <1>4, <2>1
<1>6. CASE Up(c)
  <2>1. slot' = fresh
    BY <1>6 DEF PublishSettings
  <2>. QED BY <1>1, <1>2, <1>3, <1>4, <1>5, <1>6, <2>1
<1>7. CASE ~ Up(c)
  <2>1. slot' = [fresh EXCEPT ![d].conn = IF @ = c THEN Nil ELSE @]
    BY <1>7 DEF PublishSettings
  <2>2. [Edited(s, r, b, s.conn) EXCEPT !.conn = dc] = Edited(s, r, b, dc)
    BY DEF Edited
  <2>3. Edited(s, r, b, s.conn).conn = s.conn
    BY DEF Edited
  <2>. HIDE DEF fresh
  <2>4. slot' = [slot EXCEPT ![d] = [Edited(s, r, b, s.conn) EXCEPT !.conn = dc]]
    BY <1>1, <1>3, <1>5, <1>7, <2>1, <2>3
  <2>. QED BY <1>1, <1>2, <1>3, <1>4, <1>7, <2>2, <2>4
<1>. QED BY <1>6, <1>7

LEMMA AccessSlot ==
  ASSUME HubAssumption, TypeOK, NEW c \in DeviceConn, PublishAccess(c), task[c].code = "ok", SameSlot(c)
  PROVE  LET d == bindID[c]
             s == slot[d]
         IN  \E dc \in {s.conn, Nil} :
               /\ dc = IF Up(c) \/ s.conn # c THEN s.conn ELSE Nil
               /\ Edited(s, task[c].record, s.ready, dc) \in Slot
               /\ slot' = [slot EXCEPT ![d] = Edited(s, task[c].record, s.ready, dc)]
<1>. DEFINE d == bindID[c]
            s == slot[d]
            r == task[c].record
<1>1. c \in Conn /\ d \in Device /\ s \in Slot /\ r \in Record /\ slot \in [Device -> Slot]
      /\ s.conn \in DeviceConn \cup {Nil} /\ s.ready \in BOOLEAN
  BY DEF TypeOK, Conn, Task, Slot
<1>3. PICK dc \in DeviceConn \cup {Nil} : dc = IF Up(c) \/ s.conn # c THEN s.conn ELSE Nil
  BY <1>1
<1>4. /\ Edited(s, r, s.ready, dc) \in Slot
      /\ Edited(s, r, s.ready, s.conn) = [s EXCEPT !.record = r]
      /\ Edited(s, r, s.ready, dc) = [s EXCEPT !.record = r, !.conn = dc]
  <2>. HIDE DEF s, r
  <2>. QED BY <1>1, SlotEdits
<1>6. CASE Up(c)
  <2>1. slot' = [slot EXCEPT ![d].record = r]
    BY <1>6 DEF PublishAccess
  <2>2. slot' = [slot EXCEPT ![d] = [s EXCEPT !.record = r]]
    BY <1>1, <2>1
  <2>. QED BY <1>1, <1>3, <1>4, <1>6, <2>2
<1>7. CASE ~ Up(c)
  <2>1. slot' = [slot EXCEPT ![d].record = r, ![d].conn = IF @ = c THEN Nil ELSE @]
    BY <1>7 DEF PublishAccess
  <2>2. slot' = [slot EXCEPT ![d] = [s EXCEPT !.record = r, !.conn = dc]]
    BY <1>1, <1>3, <1>7, <2>1
  <2>. QED BY <1>1, <1>3, <1>4, <1>7, <2>2
<1>. QED BY <1>6, <1>7
-----------------------------------------------------------------------------
(* Tasks and gates. *)

Starts(c, k) ==
  /\ task[c].kind = "idle" /\ conn'[c] # "new" /\ (k = "hello" => conn[c] = "new")
  /\ gate[bindID[c]] = Nil /\ gate' = [gate EXCEPT ![bindID[c]] = c]
  /\ \E t \in Task : t.kind = k /\ task' = [task EXCEPT ![c] = t]

Stops(c) ==
  /\ task[c].kind \in Gated
  /\ gate' = [gate EXCEPT ![bindID[c]] = Nil] /\ task' = [task EXCEPT ![c] = Idle]

Invokes(c) ==
  /\ gate' = gate /\ conn[c] # "new"
  /\ \E t \in Task :
       /\ task' = [task EXCEPT ![c] = t]
       /\ \/ task[c].kind = "idle" /\ t.kind = "invoke" /\ t.request \in Request
          \/ task[c].kind = "invoke" /\ t = Idle

(* A handler takes the gate of its device and starts a task, ends one and frees
   the gate, or prepares or ends an invocation, which takes no gate. *)
TaskShape ==
  \/ gate' = gate /\ task' = task
  \/ \E c \in DeviceConn, k \in Gated : Starts(c, k)
  \/ \E c \in ClientConn : Starts(c, "hello")
  \/ \E c \in Conn : Stops(c)
  \/ \E c \in ClientConn : Invokes(c)

Rejected(kind) == [Idle EXCEPT !.kind = kind, !.code = "rejected"]
Renewing(code, x) == [Idle EXCEPT !.kind = "renew", !.code = code, !.route = x]
Invoking(r, op) == [Idle EXCEPT !.kind = "invoke", !.request = r, !.operation = op]

LEMMA OtherTasks ==
  ASSUME HubAssumption
  PROVE  /\ \A kind \in Kind : Rejected(kind) \in Task /\ Rejected(kind).kind = kind /\ Rejected(kind).code = "rejected"
         /\ \A code \in Code, x \in 0..MaxRoute :
              LET t == Renewing(code, x)
              IN  t \in Task /\ t.kind = "renew" /\ t.code = code /\ t.route = x
         /\ \A r \in Request, op \in Operation :
              LET t == Invoking(r, op)
              IN  t \in Task /\ t.kind = "invoke" /\ t.request = r
         /\ Idle.kind = "idle"
<1>1. NoRecord \in Record /\ 0 \in 0..MaxRoute
  BY Constants DEF HubAssumption
<1>2. ASSUME NEW kind \in Kind
      PROVE  Rejected(kind) \in Task /\ Rejected(kind).kind = kind /\ Rejected(kind).code = "rejected"
  BY <1>1 DEF Rejected, Idle, Task, Code, Operation
<1>3. ASSUME NEW code \in Code, NEW x \in 0..MaxRoute
      PROVE  LET t == Renewing(code, x)
             IN  t \in Task /\ t.kind = "renew" /\ t.code = code /\ t.route = x
  BY <1>1 DEF Renewing, Idle, Task, Kind, Operation
<1>4. ASSUME NEW r \in Request, NEW op \in Operation
      PROVE  LET t == Invoking(r, op)
             IN  t \in Task /\ t.kind = "invoke" /\ t.request = r
  BY <1>1 DEF Invoking, Idle, Task, Kind, Code
<1>. QED BY <1>2, <1>3, <1>4 DEF Idle

LEMMA TransactStarts ==
  ASSUME HubAssumption, TypeOK, NEW c \in Conn, NEW kind \in Gated, NEW r, Transact(c, kind, r),
         task[c].kind = "idle", conn'[c] # "new", kind = "hello" => conn[c] = "new", TakeGate(c)
  PROVE  Starts(c, kind)
<1>1. kind \in Kind
  BY DEF Gated, Kind
<1>2. Transacted(c, kind, r)
  BY <1>1, TransactEffect
<1>. QED BY <1>2 DEF Transacted, Starts, TakeGate

LEMMA WaitStarts ==
  ASSUME TypeOK, NEW c \in Conn, NEW kind \in Gated, NEW t \in Task, t.kind = kind, Wait(c, t),
         task[c].kind = "idle", conn'[c] # "new", kind = "hello" => conn[c] = "new", TakeGate(c)
  PROVE  Starts(c, kind)
BY DEF Starts, TakeGate, Wait

LEMMA DeviceTasks ==
  ASSUME HubAssumption, TypeOK, GateHeld, NEW c \in DeviceConn, DeviceStep(c) PROVE TaskShape
<1>0. c \in Conn
  BY DEF Conn
<1>1. CASE HelloDevice(c)
  <2>1. task[c].kind = "idle" /\ conn[c] = "new" /\ conn'[c] # "new" /\ TakeGate(c) /\ "hello" \in Gated
    BY <1>0, <1>1 DEF HelloDevice, GateHeld, TypeOK, Gated
  <2>2. \E r : Transact(c, "hello", r)
    BY <1>1 DEF HelloDevice
  <2>. QED BY <1>0, <2>1, <2>2, TransactStarts DEF TaskShape
<1>2. ASSUME NEW s \in Settings, UpdateSettings(c, s[1], s[2]) PROVE TaskShape
  <2>1. task[c].kind = "idle" /\ conn'[c] # "new" /\ TakeGate(c) /\ "settings" \in Gated /\ "settings" \in Kind
    BY <1>2 DEF UpdateSettings, OwnsSlot, IdleUp, Gated, Kind
  <2>2. (\E r : Transact(c, "settings", r)) \/ Wait(c, Rejected("settings"))
    BY <1>2 DEF UpdateSettings, Rejected
  <2>. QED BY <1>0, <2>1, <2>2, TransactStarts, WaitStarts, OtherTasks DEF TaskShape
<1>3. CASE Revoke(c)
  <2>1. task[c].kind = "idle" /\ conn'[c] # "new" /\ TakeGate(c) /\ "revoke" \in Gated
    BY <1>3 DEF Revoke, OwnsSlot, IdleUp, Gated
  <2>. QED BY <1>0, <1>3, <2>1, TransactStarts DEF TaskShape, Revoke
<1>4. ASSUME NEW action \in {"owner", "access", "status"}, ManageAccess(c, action) PROVE TaskShape
  <2>1. task[c].kind = "idle" /\ conn'[c] # "new" /\ TakeGate(c)
        /\ "access" \in Gated /\ "status" \in Gated /\ "access" \in Kind
    BY <1>4 DEF ManageAccess, OwnsSlot, IdleUp, Gated, Kind
  <2>2. \/ \E r : Transact(c, "access", r) \/ Transact(c, "status", r)
        \/ Wait(c, Rejected("access"))
    BY <1>4 DEF ManageAccess, Rejected
  <2>. QED BY <1>0, <2>1, <2>2, TransactStarts, WaitStarts, OtherTasks DEF TaskShape
<1>5. ASSUME NEW x \in inflight, RenewRoute(c, x) PROVE TaskShape
  <2>1. task[c].kind = "idle" /\ conn'[c] # "new" /\ TakeGate(c) /\ "renew" \in Gated /\ x \in 0..MaxRoute
    BY <1>5 DEF RenewRoute, IdleUp, Gated, TypeOK, HubAssumption
  <2>2. \E code \in Code : Wait(c, Renewing(code, x))
    BY <1>5 DEF RenewRoute, Renewing
  <2>. QED BY <1>0, <2>1, <2>2, WaitStarts, OtherTasks DEF TaskShape
<1>6. CASE RegisterDevice(c) \/ PublishSettings(c) \/ PublishRevoke(c) \/ PublishAccess(c) \/ ReplyLease(c)
  <2>1. Done(c) /\ FreeGate(c) /\ task[c].kind \in Gated
    BY <1>6 DEF RegisterDevice, PublishSettings, PublishRevoke, PublishAccess, ReplyLease, Gated
  <2>. QED BY <1>0, <2>1 DEF TaskShape, Stops, Done, FreeGate
<1>7. CASE IdentityTimeout(c) \/ ConnFails(c) \/ DropDevice(c)
  BY <1>7 DEF IdentityTimeout, ConnFails, DropDevice, TaskShape
<1>. QED BY <1>1, <1>2, <1>3, <1>4, <1>5, <1>6, <1>7 DEF DeviceStep

LEMMA ClientTasks ==
  ASSUME HubAssumption, TypeOK, GateHeld, NEW c \in ClientConn, ClientStep(c) PROVE TaskShape
<1>0. c \in Conn
  BY DEF Conn
<1>1. CASE HelloClient(c)
  <2>1. task[c].kind = "idle" /\ conn[c] = "new" /\ conn'[c] # "new" /\ TakeGate(c) /\ "hello" \in Gated
    BY <1>0, <1>1 DEF HelloClient, GateHeld, TypeOK, Gated
  <2>2. PICK code \in {"ok", "error"} : Wait(c, WaitingFor("hello", code, store[bindID[c]]))
    BY <1>1 DEF HelloClient, WaitingFor
  <2>3. "hello" \in Kind /\ code \in Code /\ store[bindID[c]] \in Record
    BY <1>0 DEF Kind, Code, TypeOK
  <2>4. WaitingFor("hello", code, store[bindID[c]]) \in Task /\ WaitingFor("hello", code, store[bindID[c]]).kind = "hello"
    BY <2>3, TaskFields
  <2>. QED BY <1>0, <2>1, <2>2, <2>4, WaitStarts DEF TaskShape
<1>2. CASE RegisterClient(c)
  BY <1>0, <1>2 DEF RegisterClient, TaskShape, Stops, Done, FreeGate, Gated
<1>3. ASSUME NEW r \in Request, NEW op \in Operation, Invoke(c, r, op) PROVE TaskShape
  <2>1. gate' = gate /\ conn[c] # "new" /\ task[c].kind = "idle" /\ Wait(c, Invoking(r, op))
    BY <1>3 DEF Invoke, IdleUp, Invoking
  <2>2. Invoking(r, op) \in Task /\ Invoking(r, op).kind = "invoke" /\ Invoking(r, op).request \in Request
    BY OtherTasks
  <2>3. Invokes(c)
    BY <2>1, <2>2 DEF Invokes, Wait
  <2>. QED BY <2>3 DEF TaskShape
<1>4. CASE Admit(c) \/ RejectInvoke(c)
  <2>1. gate' = gate /\ task[c].kind = "invoke" /\ Done(c)
    BY <1>4 DEF Admit, RejectInvoke
  <2>2. conn[c] # "new"
    BY <1>0, <2>1 DEF GateHeld
  <2>. QED BY <2>1, <2>2, Constants DEF TaskShape, Invokes, Done
<1>5. CASE ConnFails(c) \/ DropClient(c) \/ \E r \in Request : Cancel(c, r)
  BY <1>5 DEF ConnFails, DropClient, Cancel, TaskShape
<1>. QED BY <1>1, <1>2, <1>3, <1>4, <1>5 DEF ClientStep

LEMMA StepTasks == ASSUME HubAssumption, TypeOK, GateHeld, Next PROVE TaskShape
<1>1. ASSUME NEW x \in running, RouteStep(x) PROVE TaskShape
  BY <1>1 DEF RouteStep, DropOutput, OutputToClosedCaller, DropFromInbox, Terminal, TaskShape
<1>2. CASE Exhausted
  BY <1>2 DEF Exhausted, vars, TaskShape
<1>. QED BY <1>1, <1>2, DeviceTasks, ClientTasks DEF Next

LEMMA TaskTypes ==
  ASSUME HubAssumption, TypeOK, TaskShape
  PROVE  task' \in [Conn -> Task] /\ gate' \in [Device -> Conn \cup {Nil}]
<1>0. /\ task \in [Conn -> Task] /\ gate \in [Device -> Conn \cup {Nil}] /\ bindID \in [Conn -> Device]
      /\ Idle \in Task /\ DeviceConn \subseteq Conn /\ ClientConn \subseteq Conn
  BY Constants DEF TypeOK, Conn
<1>1. ASSUME NEW c \in Conn, NEW k, Starts(c, k)
      PROVE  task' \in [Conn -> Task] /\ gate' \in [Device -> Conn \cup {Nil}]
  BY <1>0, <1>1 DEF Starts
<1>2. ASSUME NEW c \in Conn, Stops(c)
      PROVE  task' \in [Conn -> Task] /\ gate' \in [Device -> Conn \cup {Nil}]
  BY <1>0, <1>2 DEF Stops
<1>3. ASSUME NEW c \in Conn, Invokes(c)
      PROVE  task' \in [Conn -> Task] /\ gate' \in [Device -> Conn \cup {Nil}]
  BY <1>0, <1>3 DEF Invokes
<1>. QED BY <1>0, <1>1, <1>2, <1>3 DEF TaskShape

LEMMA TasksHold ==
  ASSUME HubAssumption, TypeOK, GateHeld, Forward, TaskShape PROVE GateHeld'
<1>0. /\ bindID' = bindID /\ bindID \in [Conn -> Device] /\ gate \in [Device -> Conn \cup {Nil}]
      /\ task \in [Conn -> Task] /\ Nil \notin Conn /\ DeviceConn \cap ClientConn = {}
      /\ \A c \in Conn : conn'[c] = "new" => conn[c] = "new"
  BY DEF Forward, TypeOK, HubAssumption, Conn
<1>1. CASE gate' = gate /\ task' = task
  BY <1>0, <1>1 DEF GateHeld
<1>2. ASSUME NEW c \in Conn, NEW k \in Gated, Starts(c, k), c \in ClientConn => k = "hello"
      PROVE  GateHeld'
  <2>1. PICK t \in Task : t.kind = k /\ task' = [task EXCEPT ![c] = t]
    BY <1>2 DEF Starts
  <2>2. gate[bindID[c]] = Nil /\ gate' = [gate EXCEPT ![bindID[c]] = c] /\ conn'[c] # "new" /\ k # "invoke"
    BY <1>2 DEF Starts, Gated
  <2>. QED BY <1>0, <1>2, <2>1, <2>2 DEF GateHeld, Conn
<1>3. ASSUME NEW c \in Conn, Stops(c) PROVE GateHeld'
  <2>1. /\ gate' = [gate EXCEPT ![bindID[c]] = Nil] /\ gate[bindID[c]] = c
        /\ task' = [task EXCEPT ![c] = Idle] /\ Idle.kind = "idle" /\ "idle" \notin Gated
    BY <1>3, OtherTasks DEF Stops, GateHeld, Gated
  <2>. QED BY <1>0, <2>1 DEF GateHeld, Conn
<1>4. ASSUME NEW c \in ClientConn, Invokes(c) PROVE GateHeld'
  <2>1. PICK t \in Task : /\ task' = [task EXCEPT ![c] = t] /\ gate' = gate /\ conn[c] # "new"
                          /\ task[c].kind \in {"idle", "invoke"} /\ t.kind \in {"idle", "invoke"}
                          /\ t.kind = "invoke" => t.request \in Request
    <3>1. PICK t \in Task : /\ task' = [task EXCEPT ![c] = t]
                            /\ \/ task[c].kind = "idle" /\ t.kind = "invoke" /\ t.request \in Request
                               \/ task[c].kind = "invoke" /\ t = Idle
      BY <1>4 DEF Invokes
    <3>2. gate' = gate /\ conn[c] # "new" /\ Idle.kind = "idle"
      BY <1>4, OtherTasks DEF Invokes
    <3>. QED BY <3>1, <3>2
  <2>2. "idle" \notin Gated /\ "invoke" \notin Gated
    BY DEF Gated
  <2>. QED BY <1>0, <2>1, <2>2 DEF GateHeld, Conn
<1>. QED BY <1>1, <1>2, <1>3, <1>4 DEF TaskShape, Conn, Gated
-----------------------------------------------------------------------------
(* Type correctness. *)

RowTyped ==
  store' \in [Device -> Record] /\ nextId' \in 1..(MaxId + 1) /\ shut' \subseteq DOMAIN route

LEMMA RowTypes == ASSUME HubAssumption, TypeOK, Next PROVE RowTyped
<1>0. \A c \in DeviceConn : c \in Conn
  BY DEF Conn
<1>1. CASE UNCHANGED <<ids, shut>>
  BY <1>1 DEF TypeOK, RowTyped, ids
<1>2. ASSUME NEW c \in DeviceConn, NEW kind \in Kind, NEW r, Transact(c, kind, r) PROVE RowTyped
  BY <1>0, <1>2, TransactEffect DEF RowTyped
<1>3. ASSUME NEW c \in DeviceConn, DeviceStep(c)
      PROVE  UNCHANGED <<ids, shut>> \/ \E kind \in Kind : \E r : Transact(c, kind, r)
  <2>1. CASE HelloDevice(c)
    BY <2>1 DEF HelloDevice, Kind
  <2>2. CASE \E s \in Settings : UpdateSettings(c, s[1], s[2])
    BY <2>2 DEF UpdateSettings, Kind
  <2>3. CASE Revoke(c)
    BY <2>3 DEF Revoke, Kind
  <2>4. CASE \E action \in {"owner", "access", "status"} \cap Frames : ManageAccess(c, action)
    BY <2>4 DEF ManageAccess, Kind
  <2>5. CASE RegisterDevice(c) \/ PublishSettings(c) \/ PublishRevoke(c) \/ PublishAccess(c)
    BY <2>5 DEF RegisterDevice, PublishSettings, PublishRevoke, PublishAccess
  <2>6. CASE \/ IdentityTimeout(c) \/ ConnFails(c) \/ DropDevice(c) \/ ReplyLease(c)
             \/ \E x \in inflight : RenewRoute(c, x)
    BY <2>6 DEF IdentityTimeout, ConnFails, DropDevice, ReplyLease, RenewRoute, seen
  <2>. QED BY <1>3, <2>1, <2>2, <2>3, <2>4, <2>5, <2>6 DEF DeviceStep
<1>4. ASSUME NEW c \in ClientConn, ClientStep(c) PROVE UNCHANGED <<ids, shut>>
  BY <1>4 DEF ClientStep, HelloClient, RegisterClient, Invoke, Admit, RejectInvoke, Cancel, ConnFails, DropClient, seen
<1>5. ASSUME NEW x \in running, RouteStep(x) PROVE UNCHANGED <<ids, shut>>
  BY <1>5 DEF RouteStep, DropOutput, OutputToClosedCaller, DropFromInbox, Terminal
<1>6. CASE Exhausted
  BY <1>1, <1>6 DEF Exhausted, vars, seen
<1>. QED BY <1>1, <1>2, <1>3, <1>4, <1>5, <1>6 DEF Next

HubTyped ==
  /\ devices' \subseteq Device /\ slot' \in [Device -> Slot] /\ access' \in [Device -> Authority]
  /\ clients' \subseteq ClientConn /\ client' \in [ClientConn -> Authority]

LEMMA DeviceHubTypes ==
  ASSUME HubAssumption, TypeOK, NEW c \in DeviceConn, DeviceStep(c) PROVE HubTyped
<1>0. /\ c \in Conn /\ bindID[c] \in Device /\ task[c].record \in Record
      /\ devices \subseteq Device /\ slot \in [Device -> Slot] /\ access \in [Device -> Authority]
      /\ clients \subseteq ClientConn /\ client \in [ClientConn -> Authority]
      /\ Binding(task[c].record) \in Authority /\ NoAuthority \in Authority /\ NoSlot \in Slot
  BY Constants DEF TypeOK, Conn, Task
<1>1. CASE RegisterDevice(c)
  <2>1. UNCHANGED <<clients, client>>
    BY <1>1 DEF RegisterDevice
  <2>2. [conn |-> c, born |-> c, record |-> task[c].record, ready |-> FALSE] \in Slot
    BY <1>0 DEF Slot
  <2>3. \/ UNCHANGED <<devices, slot, access>>
        \/ /\ access' = [access EXCEPT ![bindID[c]] = Binding(task[c].record)]
           /\ devices' = devices \cup {bindID[c]}
           /\ slot' = [slot EXCEPT ![bindID[c]] = [conn |-> c, born |-> c, record |-> task[c].record, ready |-> FALSE]]
    BY <1>1 DEF RegisterDevice
  <2>. QED BY <1>0, <2>1, <2>2, <2>3 DEF HubTyped
<1>2. CASE PublishSettings(c)
  <2>1. UNCHANGED <<devices, clients, client>>
    BY <1>2 DEF PublishSettings
  <2>2. access' = access \/ access' = [access EXCEPT ![bindID[c]] = Binding(task[c].record)]
    BY <1>2 DEF PublishSettings
  <2>3. slot' \in [Device -> Slot]
    <3>1. CASE StopRouting(c)
      BY <3>1, StopSlots
    <3>2. CASE slot' = slot
      BY <1>0, <3>2
    <3>3. CASE task[c].code = "ok" /\ SameSlot(c)
      BY <1>0, <1>2, <3>3, SettingsSlot
    <3>. QED BY <1>2, <3>1, <3>2, <3>3 DEF PublishSettings
  <2>. QED BY <1>0, <2>1, <2>2, <2>3 DEF HubTyped
<1>3. CASE PublishRevoke(c)
  <2>1. UNCHANGED <<clients, client>>
    BY <1>3 DEF PublishRevoke
  <2>2. devices' \subseteq devices /\ (access' = access \/ access' = [access EXCEPT ![bindID[c]] = NoAuthority])
    BY <1>3 DEF PublishRevoke
  <2>3. StopRouting(c) \/ slot' = slot \/ slot' = [slot EXCEPT ![bindID[c]] = NoSlot]
    BY <1>3 DEF PublishRevoke
  <2>. QED BY <1>0, <2>1, <2>2, <2>3, StopSlots DEF HubTyped
<1>4. CASE IdentityTimeout(c)
  BY <1>0, <1>4, StopSlots DEF IdentityTimeout, HubTyped
<1>5. CASE PublishAccess(c)
  <2>1. devices' = devices /\ client' = client /\ clients' \subseteq clients
    BY <1>5 DEF PublishAccess, InvalidateOwnership
  <2>2. access' = access \/ access' = [access EXCEPT ![bindID[c]] = Binding(task[c].record)]
    BY <1>5 DEF PublishAccess
  <2>3. slot' \in [Device -> Slot]
    <3>1. CASE StopRouting(c)
      BY <3>1, StopSlots
    <3>2. CASE slot' = slot
      BY <1>0, <3>2
    <3>3. CASE task[c].code = "ok" /\ SameSlot(c)
      BY <1>0, <1>5, <3>3, AccessSlot
    <3>. QED BY <1>5, <3>1, <3>2, <3>3 DEF PublishAccess
  <2>. QED BY <1>0, <2>1, <2>2, <2>3 DEF HubTyped
<1>6. CASE DropDevice(c)
  <2>1. UNCHANGED <<devices, access, clients, client>>
    BY <1>6 DEF DropDevice
  <2>2. slot' = slot \/ slot' = [slot EXCEPT ![bindID[c]].conn = Nil]
    BY <1>6 DEF DropDevice
  <2>. QED BY <1>0, <2>1, <2>2, DropSlot DEF HubTyped
<1>7. CASE \/ HelloDevice(c) \/ Revoke(c) \/ \E x \in inflight : RenewRoute(c, x)
           \/ \E s \in Settings : UpdateSettings(c, s[1], s[2])
           \/ \E action \in {"owner", "access", "status"} \cap Frames : ManageAccess(c, action)
           \/ ReplyLease(c) \/ ConnFails(c)
  <2>1. UNCHANGED hub
    BY <1>7 DEF HelloDevice, UpdateSettings, Revoke, RenewRoute, ManageAccess, ReplyLease, ConnFails
  <2>. QED BY <1>0, <2>1 DEF HubTyped, hub
<1>. QED BY <1>1, <1>2, <1>3, <1>4, <1>5, <1>6, <1>7 DEF DeviceStep

LEMMA HubTypes == ASSUME HubAssumption, TypeOK, Next PROVE HubTyped
<1>0. /\ devices \subseteq Device /\ slot \in [Device -> Slot] /\ access \in [Device -> Authority]
      /\ clients \subseteq ClientConn /\ client \in [ClientConn -> Authority]
  BY DEF TypeOK
<1>1. ASSUME NEW c \in ClientConn, ClientStep(c) PROVE HubTyped
  <2>0. c \in Conn /\ bindID[c] \in Device /\ Binding(task[c].record) \in Authority
    BY Constants DEF TypeOK, Conn, Task
  <2>1. CASE RegisterClient(c)
    <3>1. UNCHANGED <<devices, slot>>
      BY <2>1 DEF RegisterClient
    <3>2. \/ UNCHANGED <<access, clients, client>>
          \/ /\ access' = [access EXCEPT ![bindID[c]] = Binding(task[c].record)] /\ clients' = clients \cup {c}
             /\ client' = [client EXCEPT ![c] = Binding(task[c].record)]
      BY <2>1 DEF RegisterClient
    <3>. QED BY <1>0, <2>0, <3>1, <3>2 DEF HubTyped
  <2>2. CASE Admit(c)
    <3>1. UNCHANGED <<devices, access, clients, client>> /\ (slot' = slot \/ slot' = [slot EXCEPT ![bindID[c]].conn = Nil])
      BY <2>2 DEF Admit
    <3>. QED BY <1>0, <2>0, <3>1, DropSlot DEF HubTyped
  <2>3. CASE \/ HelloClient(c) \/ RejectInvoke(c) \/ ConnFails(c) \/ DropClient(c)
             \/ \E r \in Request, op \in Operation \cap Frames : Invoke(c, r, op)
             \/ \E r \in Request : Cancel(c, r)
    <3>1. UNCHANGED <<devices, slot, access, client>> /\ clients' \subseteq clients
      BY <2>3 DEF HelloClient, RejectInvoke, ConnFails, DropClient, Invoke, Cancel, hub
    <3>. QED BY <1>0, <3>1 DEF HubTyped
  <2>. QED BY <1>1, <2>1, <2>2, <2>3 DEF ClientStep
<1>2. ASSUME NEW x \in running, RouteStep(x) PROVE HubTyped
  <2>1. UNCHANGED <<devices, slot, access, client>> /\ clients' \subseteq clients
    BY <1>2 DEF RouteStep, DropOutput, OutputToClosedCaller, DropFromInbox, Terminal, DropCaller, hub
  <2>. QED BY <1>0, <2>1 DEF HubTyped
<1>3. CASE Exhausted
  BY <1>0, <1>3 DEF Exhausted, vars, hub, HubTyped
<1>. QED BY <1>1, <1>2, <1>3, DeviceHubTypes DEF Next

LEMMA RouteTypes ==
  ASSUME HubAssumption, TypeOK, GateHeld, RoutesSettle \/ \E c \in ClientConn : Admit(c)
  PROVE  /\ nextRoute' \in 1..(MaxRoute + 1) /\ inflight' \subseteq 1..(nextRoute' - 1)
         /\ DOMAIN route' = 1..(nextRoute' - 1) /\ \A x \in DOMAIN route' : route'[x] \in RouteRecord
         /\ requests' \in [Key -> 0..MaxRoute] /\ leased' \subseteq Lease /\ ended' \subseteq DOMAIN route'
         /\ DOMAIN route \subseteq DOMAIN route'
<1>0. /\ nextRoute \in 1..(MaxRoute + 1) /\ inflight \subseteq DOMAIN route /\ DOMAIN route = 1..(nextRoute - 1)
      /\ \A x \in DOMAIN route : route[x] \in RouteRecord
      /\ requests \in [Key -> 0..MaxRoute] /\ leased \subseteq Lease /\ ended \subseteq DOMAIN route
      /\ 0 \in 0..MaxRoute
  BY DEF TypeOK, HubAssumption
<1>1. CASE RoutesSettle
  <2>1. PICK S : Settles(S)
    BY <1>1 DEF RoutesSettle
  <2>2. nextRoute' = nextRoute /\ DOMAIN route' = DOMAIN route /\ \A x \in DOMAIN route : route'[x] \in RouteRecord
    BY <1>1 DEF RoutesSettle, RecordsKept, OldKept, Marked
  <2>3. inflight' \subseteq inflight /\ requests' \in [Key -> 0..MaxRoute] /\ leased' \subseteq leased /\ ended' \subseteq DOMAIN route
    BY <1>0, <2>1 DEF Settles, Finish
  <2>. QED BY <1>0, <2>2, <2>3
<1>2. ASSUME NEW c \in ClientConn, Admit(c)
      PROVE  /\ nextRoute' \in 1..(MaxRoute + 1) /\ inflight' \subseteq 1..(nextRoute' - 1)
             /\ DOMAIN route' = 1..(nextRoute' - 1) /\ \A x \in DOMAIN route' : route'[x] \in RouteRecord
             /\ requests' \in [Key -> 0..MaxRoute] /\ leased' \subseteq Lease /\ ended' \subseteq DOMAIN route'
             /\ DOMAIN route \subseteq DOMAIN route'
  <2>1. task[c].request \in Request
    BY <1>2 DEF Admit, GateHeld, Conn
  <2>2. /\ nextRoute \in Route /\ nextRoute' = nextRoute + 1
        /\ DOMAIN route' = DOMAIN route \cup {nextRoute} /\ DOMAIN route' = 1..(nextRoute' - 1)
        /\ \A x \in DOMAIN route' : route'[x] \in RouteRecord
    BY <1>0, <1>2, <2>1, AdmitRecord
  <2>3. nextRoute' \in 1..(MaxRoute + 1) /\ nextRoute \in 0..MaxRoute
    BY <2>2 DEF Route, HubAssumption
  <2>4. [route |-> nextRoute, uid |-> client[c].uid] \in Lease
    BY <2>2 DEF Lease, TypeOK, Authority
  <2>5. CASE Up(slot[bindID[c]].conn)
    <3>1. /\ inflight' = inflight \cup {nextRoute} /\ ended' = ended
          /\ requests' = [requests EXCEPT ![<<c, task[c].request>>] = nextRoute]
          /\ leased' = leased \cup {[route |-> nextRoute, uid |-> client[c].uid]}
      BY <1>2, <2>5 DEF Admit
    <3>. QED BY <1>0, <2>2, <2>3, <2>4, <3>1
  <2>6. CASE ~ Up(slot[bindID[c]].conn)
    <3>1. Finish(RoutesOf(bindID[c])) /\ ended' \subseteq ended \cup {nextRoute} \cup inflight
      BY <1>2, <2>6 DEF Admit, RoutesOf
    <3>2. inflight' \subseteq inflight /\ requests' \in [Key -> 0..MaxRoute] /\ leased' \subseteq leased
      BY <1>0, <3>1 DEF Finish
    <3>. QED BY <1>0, <2>2, <2>3, <3>1, <3>2
  <2>. QED BY <2>5, <2>6
<1>. QED BY <1>1, <1>2

SeenTyped ==
  /\ running' \subseteq DOMAIN route' /\ cancelSent' \subseteq DOMAIN route' /\ lost' \subseteq DOMAIN route'
  /\ confirmed' \subseteq DeviceConn
  /\ exit' \in [Route -> {"none", "complete", "truncated"}]
  /\ lease' \in [Route -> {"none", "granted", "refused"}]

LEMMA SeenTypes ==
  ASSUME HubAssumption, TypeOK, GateHeld, RoutesConsistent, Next, DOMAIN route \subseteq DOMAIN route'
  PROVE  SeenTyped
<1>0. /\ running \subseteq DOMAIN route /\ cancelSent \subseteq DOMAIN route /\ lost \subseteq DOMAIN route
      /\ confirmed \subseteq DeviceConn /\ inflight \subseteq DOMAIN route
      /\ exit \in [Route -> {"none", "complete", "truncated"}]
      /\ lease \in [Route -> {"none", "granted", "refused"}]
  BY DEF TypeOK
<1>1. ASSUME NEW c \in DeviceConn, DeviceStep(c) PROVE SeenTyped
  <2>1. CASE PublishSettings(c)
    <3>1. UNCHANGED <<running, cancelSent, lost, exit, lease>> /\ confirmed' \subseteq confirmed \cup {c}
      BY <2>1 DEF PublishSettings
    <3>. QED BY <1>0, <3>1 DEF SeenTyped
  <2>2. CASE PublishAccess(c)
    <3>1. UNCHANGED <<running, lost, exit, lease, confirmed>> /\ cancelSent' \subseteq cancelSent \cup inflight
      BY <2>2 DEF PublishAccess, InvalidateOwnership, TellDevices, RoutesOf
    <3>. QED BY <1>0, <3>1 DEF SeenTyped
  <2>3. CASE ReplyLease(c)
    <3>1. UNCHANGED <<running, cancelSent, lost, exit, confirmed>>
      BY <2>3 DEF ReplyLease
    <3>2. lease' = lease \/ \E x, v : v \in {"granted", "refused"} /\ lease' = [lease EXCEPT ![x] = v]
      BY <2>3 DEF ReplyLease
    <3>. QED BY <1>0, <3>1, <3>2 DEF SeenTyped
  <2>4. CASE \/ HelloDevice(c) \/ RegisterDevice(c) \/ Revoke(c) \/ PublishRevoke(c) \/ IdentityTimeout(c)
             \/ \E x \in inflight : RenewRoute(c, x)
             \/ \E s \in Settings : UpdateSettings(c, s[1], s[2])
             \/ \E action \in {"owner", "access", "status"} \cap Frames : ManageAccess(c, action)
             \/ ConnFails(c) \/ DropDevice(c)
    <3>1. UNCHANGED <<running, cancelSent, lost, exit, lease, confirmed>>
      BY <2>4 DEF HelloDevice, RegisterDevice, Revoke, PublishRevoke, IdentityTimeout, RenewRoute, UpdateSettings,
                  ManageAccess, ConnFails, DropDevice, Unseen, seen
    <3>. QED BY <1>0, <3>1 DEF SeenTyped
  <2>. QED BY <1>1, <2>1, <2>2, <2>3, <2>4 DEF DeviceStep
<1>2. ASSUME NEW c \in ClientConn, ClientStep(c) PROVE SeenTyped
  <2>1. CASE Admit(c)
    <3>1. task[c].request \in Request
      BY <2>1 DEF Admit, GateHeld, Conn
    <3>2. UNCHANGED <<cancelSent, lost, exit, lease, confirmed>> /\ running' \subseteq running \cup {nextRoute}
      BY <2>1 DEF Admit
    <3>3. nextRoute \in DOMAIN route'
      BY <2>1, <3>1, AdmitRecord
    <3>. QED BY <1>0, <3>2, <3>3 DEF SeenTyped
  <2>2. ASSUME NEW r \in Request, Cancel(c, r) PROVE SeenTyped
    <3>1. requests[<<c, r>>] \in inflight
      BY <2>2 DEF Cancel, RoutesConsistent, Key
    <3>2. UNCHANGED <<running, lost, exit, lease, confirmed>> /\ cancelSent' \subseteq cancelSent \cup {requests[<<c, r>>]}
      BY <2>2 DEF Cancel, TellDevices
    <3>. QED BY <1>0, <3>1, <3>2 DEF SeenTyped
  <2>3. CASE DropClient(c)
    <3>1. UNCHANGED <<running, lost, exit, lease, confirmed>> /\ cancelSent' \subseteq cancelSent \cup inflight
      BY <2>3 DEF DropClient, CancelClient, TellDevices, RoutesFrom
    <3>. QED BY <1>0, <3>1 DEF SeenTyped
  <2>4. CASE \/ HelloClient(c) \/ RegisterClient(c) \/ RejectInvoke(c) \/ ConnFails(c)
             \/ \E r \in Request, op \in Operation \cap Frames : Invoke(c, r, op)
    <3>1. UNCHANGED <<running, cancelSent, lost, exit, lease, confirmed>>
      BY <2>4 DEF HelloClient, RegisterClient, RejectInvoke, ConnFails, Invoke, seen
    <3>. QED BY <1>0, <3>1 DEF SeenTyped
  <2>. QED BY <1>2, <2>1, <2>2, <2>3, <2>4 DEF ClientStep
<1>3. ASSUME NEW x \in running, RouteStep(x) PROVE SeenTyped
  <2>1. CASE DropOutput(x) \/ DropFromInbox(x)
    <3>1. UNCHANGED <<running, cancelSent, exit, lease, confirmed>> /\ lost' = lost \cup {x}
      BY <2>1 DEF DropOutput, DropFromInbox
    <3>. QED BY <1>0, <3>1 DEF SeenTyped
  <2>2. CASE OutputToClosedCaller(x)
    <3>1. UNCHANGED <<running, lost, exit, lease, confirmed>> /\ cancelSent' \subseteq cancelSent \cup inflight
      BY <2>2 DEF OutputToClosedCaller, DropCaller, CancelClient, TellDevices, RoutesFrom
    <3>. QED BY <1>0, <3>1 DEF SeenTyped
  <2>3. ASSUME NEW kind, Terminal(x, kind) PROVE SeenTyped
    <3>1. UNCHANGED <<lost, lease, confirmed>> /\ running' \subseteq running
      BY <2>3 DEF Terminal
    <3>2. cancelSent' \subseteq cancelSent \cup inflight
      BY <2>3 DEF Terminal, DropCaller, CancelClient, TellDevices, RoutesFrom
    <3>3. exit' = exit \/ \E v \in {"complete", "truncated"} : exit' = [exit EXCEPT ![x] = v]
      BY <2>3 DEF Terminal
    <3>. QED BY <1>0, <3>1, <3>2, <3>3 DEF SeenTyped
  <2>. QED BY <1>3, <2>1, <2>2, <2>3 DEF RouteStep
<1>4. CASE Exhausted
  BY <1>0, <1>4 DEF Exhausted, vars, seen, SeenTyped
<1>. QED BY <1>1, <1>2, <1>3, <1>4 DEF Next

LEMMA TypeStep ==
  ASSUME HubAssumption, TypeOK, RoutesConsistent, GateHeld, Next PROVE TypeOK'
<1>1. conn' \in [Conn -> {"new", "up", "closing", "gone"}] /\ bindID' = bindID
  BY StepForward DEF Forward
<1>2. task' \in [Conn -> Task] /\ gate' \in [Device -> Conn \cup {Nil}]
  BY StepTasks, TaskTypes
<1>3. /\ nextRoute' \in 1..(MaxRoute + 1) /\ inflight' \subseteq 1..(nextRoute' - 1)
      /\ DOMAIN route' = 1..(nextRoute' - 1) /\ \A x \in DOMAIN route' : route'[x] \in RouteRecord
      /\ requests' \in [Key -> 0..MaxRoute] /\ leased' \subseteq Lease /\ ended' \subseteq DOMAIN route'
      /\ DOMAIN route \subseteq DOMAIN route'
  BY StepRoutes, RouteTypes
<1>4. RowTyped /\ HubTyped /\ SeenTyped
  BY <1>3, RowTypes, HubTypes, SeenTypes
<1>. QED BY <1>1, <1>2, <1>3, <1>4 DEF TypeOK, RowTyped, HubTyped, SeenTyped
-----------------------------------------------------------------------------
(* A slot gets a connection only when that connection registers, a device that
   is forgotten has none, and a client is registered only if it is up. *)

Registers(c, d) == d = bindID[c] /\ conn[c] = "up" /\ slot'[d].conn = c /\ d \in devices' /\ task'[c].kind = "idle"

SlotsKept ==
  \A d \in Device :
    \/ slot'[d].conn \in {slot[d].conn, Nil} /\ (d \in devices => d \in devices' \/ slot'[d].conn = Nil)
    \/ \E c \in DeviceConn : Registers(c, d)

ClientsKept == \A c \in clients' : c \in clients \/ conn[c] = "up"

LEMMA ClearedConn == ASSUME NEW s PROVE Cleared(s).conn = Nil /\ Cleared(s).born = s.born /\ Cleared(s).record = s.record /\ Cleared(s).ready = s.ready
BY DEF Cleared, Edited

LEMMA EditedConn == ASSUME NEW s, NEW r, NEW b, NEW dc PROVE Edited(s, r, b, dc).conn = dc
BY DEF Edited

LEMMA DeviceSlots ==
  ASSUME HubAssumption, TypeOK, NEW c \in DeviceConn, DeviceStep(c) PROVE SlotsKept /\ ClientsKept
<1>0. c \in Conn /\ bindID[c] \in Device /\ slot \in [Device -> Slot]
  BY DEF TypeOK, Conn
<1>s. ASSUME devices' = devices, StopRouting(c) PROVE SlotsKept
  <2>1. \A d \in Device : slot'[d].conn \in {slot[d].conn, Nil}
    BY <1>s, StopSlots, ClearedConn
  <2>. QED BY <1>s, <2>1 DEF SlotsKept
<1>u. ASSUME devices' = devices, slot' = slot PROVE SlotsKept
  BY <1>u DEF SlotsKept
<1>1. CASE RegisterDevice(c)
  <2>1. clients' = clients
    BY <1>1 DEF RegisterDevice
  <2>2. CASE UNCHANGED <<devices, slot>>
    BY <1>u, <2>1, <2>2 DEF ClientsKept
  <2>3. CASE /\ conn[c] = "up" /\ devices' = devices \cup {bindID[c]}
             /\ slot' = [slot EXCEPT ![bindID[c]] = [conn |-> c, born |-> c, record |-> task[c].record, ready |-> FALSE]]
    <3>1. slot'[bindID[c]].conn = c /\ \A d \in Device : d # bindID[c] => slot'[d] = slot[d]
      BY <1>0, <2>3
    <3>2. task'[c].kind = "idle"
      BY <1>0, <1>1, OtherTasks DEF RegisterDevice, Done, TypeOK
    <3>. QED BY <2>1, <2>3, <3>1, <3>2 DEF SlotsKept, ClientsKept, Registers
  <2>. QED BY <1>1, <2>2, <2>3 DEF RegisterDevice
<1>2. CASE PublishSettings(c)
  <2>1. UNCHANGED <<devices, clients>>
    BY <1>2 DEF PublishSettings
  <2>2. CASE task[c].code = "ok" /\ SameSlot(c)
    <3>1. \A d \in Device : slot'[d].conn \in {slot[d].conn, Nil}
      BY <1>0, <1>2, <2>2, SettingsSlot, EditedConn
    <3>. QED BY <2>1, <3>1 DEF SlotsKept, ClientsKept
  <2>. QED BY <1>2, <1>s, <1>u, <2>1, <2>2 DEF PublishSettings, ClientsKept
<1>3. CASE PublishRevoke(c)
  <2>1. clients' = clients
    BY <1>3 DEF PublishRevoke
  <2>2. CASE devices' = devices \ {bindID[c]} /\ slot' = [slot EXCEPT ![bindID[c]] = NoSlot]
    <3>1. slot'[bindID[c]].conn = Nil /\ \A d \in Device : d # bindID[c] => slot'[d] = slot[d]
      BY <1>0, <2>2 DEF NoSlot
    <3>. QED BY <2>1, <2>2, <3>1 DEF SlotsKept, ClientsKept
  <2>. QED BY <1>3, <1>s, <1>u, <2>1, <2>2 DEF PublishRevoke, ClientsKept
<1>4. CASE IdentityTimeout(c)
  BY <1>4, <1>s DEF IdentityTimeout, ClientsKept
<1>5. CASE PublishAccess(c)
  <2>1. devices' = devices /\ clients' \subseteq clients
    BY <1>5 DEF PublishAccess, InvalidateOwnership
  <2>2. CASE task[c].code = "ok" /\ SameSlot(c)
    <3>1. \A d \in Device : slot'[d].conn \in {slot[d].conn, Nil}
      BY <1>0, <1>5, <2>2, AccessSlot, EditedConn
    <3>. QED BY <2>1, <3>1 DEF SlotsKept, ClientsKept
  <2>. QED BY <1>5, <1>s, <1>u, <2>1, <2>2 DEF PublishAccess, ClientsKept
<1>6. CASE DropDevice(c)
  <2>1. UNCHANGED <<devices, clients>>
    BY <1>6 DEF DropDevice
  <2>2. CASE slot' = [slot EXCEPT ![bindID[c]].conn = Nil]
    <3>1. \A d \in Device : slot'[d].conn \in {slot[d].conn, Nil}
      BY <1>0, <2>2, DropSlot, ClearedConn
    <3>. QED BY <2>1, <3>1 DEF SlotsKept, ClientsKept
  <2>. QED BY <1>6, <1>u, <2>1, <2>2 DEF DropDevice, ClientsKept
<1>7. CASE \/ HelloDevice(c) \/ Revoke(c) \/ \E x \in inflight : RenewRoute(c, x)
           \/ \E s \in Settings : UpdateSettings(c, s[1], s[2])
           \/ \E action \in {"owner", "access", "status"} \cap Frames : ManageAccess(c, action)
           \/ ReplyLease(c) \/ ConnFails(c)
  <2>1. UNCHANGED hub
    BY <1>7 DEF HelloDevice, UpdateSettings, Revoke, RenewRoute, ManageAccess, ReplyLease, ConnFails
  <2>. QED BY <1>u, <2>1 DEF ClientsKept, hub
<1>. QED BY <1>1, <1>2, <1>3, <1>4, <1>5, <1>6, <1>7 DEF DeviceStep

LEMMA StepSlots == ASSUME HubAssumption, TypeOK, Next PROVE SlotsKept /\ ClientsKept
<1>1. ASSUME NEW c \in ClientConn, ClientStep(c) PROVE SlotsKept /\ ClientsKept
  <2>0. c \in Conn /\ bindID[c] \in Device
    BY DEF TypeOK, Conn
  <2>1. CASE RegisterClient(c)
    <3>1. UNCHANGED <<devices, slot>> /\ (clients' = clients \/ (conn[c] = "up" /\ clients' = clients \cup {c}))
      BY <2>1 DEF RegisterClient
    <3>. QED BY <3>1 DEF SlotsKept, ClientsKept
  <2>2. CASE Admit(c)
    <3>1. UNCHANGED <<devices, clients>>
      BY <2>2 DEF Admit
    <3>2. slot' = slot \/ slot' = [slot EXCEPT ![bindID[c]].conn = Nil]
      BY <2>2 DEF Admit
    <3>3. \A d \in Device : slot'[d].conn \in {slot[d].conn, Nil}
      BY <2>0, <3>2, DropSlot, ClearedConn
    <3>. QED BY <3>1, <3>3 DEF SlotsKept, ClientsKept
  <2>3. CASE \/ HelloClient(c) \/ RejectInvoke(c) \/ ConnFails(c) \/ DropClient(c)
             \/ \E r \in Request, op \in Operation \cap Frames : Invoke(c, r, op)
             \/ \E r \in Request : Cancel(c, r)
    <3>1. UNCHANGED <<devices, slot>> /\ clients' \subseteq clients
      BY <2>3 DEF HelloClient, RejectInvoke, ConnFails, DropClient, Invoke, Cancel, hub
    <3>. QED BY <3>1 DEF SlotsKept, ClientsKept
  <2>. QED BY <1>1, <2>1, <2>2, <2>3 DEF ClientStep
<1>2. ASSUME NEW x \in running, RouteStep(x) PROVE SlotsKept /\ ClientsKept
  <2>1. UNCHANGED <<devices, slot>> /\ clients' \subseteq clients
    BY <1>2 DEF RouteStep, DropOutput, OutputToClosedCaller, DropFromInbox, Terminal, DropCaller, hub
  <2>. QED BY <2>1 DEF SlotsKept, ClientsKept
<1>3. CASE Exhausted
  BY <1>3 DEF Exhausted, vars, hub, SlotsKept, ClientsKept
<1>. QED BY <1>1, <1>2, <1>3, DeviceSlots DEF Next

LEMMA GreetedStep ==
  ASSUME HubAssumption, TypeOK, RoutesConsistent, GateHeld, Greeted, Next PROVE Greeted'
<1>0. /\ Forward /\ SlotsKept /\ ClientsKept /\ Nil \notin Conn /\ bindID' = bindID
      /\ clients' \subseteq ClientConn /\ slot' \in [Device -> Slot]
  BY StepForward, StepSlots, HubTypes DEF HubTyped, HubAssumption, Conn, Forward
<1>1. \A c \in clients' : conn'[c] # "new"
  BY <1>0 DEF ClientsKept, Greeted, Forward, Conn
<1>2. \A d \in Device : slot'[d].conn # Nil =>
        d \in devices' /\ conn'[slot'[d].conn] # "new" /\ bindID'[slot'[d].conn] = d
  <2>1. ASSUME NEW d \in Device, slot'[d].conn # Nil
        PROVE  d \in devices' /\ conn'[slot'[d].conn] # "new" /\ bindID'[slot'[d].conn] = d
    <3>0. slot'[d].conn \in Conn
      BY <1>0, <2>1 DEF Slot, Conn
    <3>1. CASE slot'[d].conn = slot[d].conn /\ (d \in devices => d \in devices' \/ slot'[d].conn = Nil)
      BY <1>0, <2>1, <3>0, <3>1 DEF Greeted, Forward
    <3>2. ASSUME NEW c \in DeviceConn, Registers(c, d)
          PROVE  d \in devices' /\ conn'[slot'[d].conn] # "new" /\ bindID'[slot'[d].conn] = d
      BY <1>0, <3>0, <3>2 DEF Registers, Forward
    <3>. QED BY <1>0, <2>1, <3>1, <3>2 DEF SlotsKept
  <2>. QED BY <2>1
<1>3. ASSUME NEW x \in DOMAIN route'
      PROVE  /\ conn'[route'[x].client] # "new" /\ bindID'[route'[x].client] = route'[x].device
             /\ conn'[route'[x].via] # "new"
  <2>1. CASE RoutesSettle
    <3>1. /\ x \in DOMAIN route /\ route'[x].client = route[x].client
          /\ route'[x].device = route[x].device /\ route'[x].via = route[x].via
          /\ route[x].client \in Conn /\ route[x].via \in Conn
      BY <1>3, <2>1 DEF RoutesSettle, RecordsKept, OldKept, Marked, TypeOK, RouteRecord, Conn
    <3>. QED BY <1>0, <3>1 DEF Greeted, Forward
  <2>2. ASSUME NEW c \in ClientConn, Admit(c)
        PROVE  /\ conn'[route'[x].client] # "new" /\ bindID'[route'[x].client] = route'[x].device
               /\ conn'[route'[x].via] # "new"
    <3>1. task[c].request \in Request
      BY <2>2 DEF Admit, GateHeld, Conn
    <3>2. /\ conn[c] = "up" /\ slot[bindID[c]].conn # Nil /\ bindID[c] \in Device /\ conn' = conn
          /\ NewRecord(c).client = c /\ NewRecord(c).device = bindID[c] /\ NewRecord(c).via = slot[bindID[c]].conn
      BY <2>2 DEF Admit, Up, Admissible, TypeOK, Conn, NewRecord
    <3>3. CASE x \in DOMAIN route
      BY <1>0, <2>2, <3>1, <3>2, <3>3, AdmitRecord DEF Greeted
    <3>4. CASE x = nextRoute
      BY <1>0, <2>2, <3>1, <3>2, <3>4, AdmitRecord DEF Greeted
    <3>. QED BY <1>3, <2>2, <3>1, <3>3, <3>4, AdmitRecord
  <2>. QED BY <2>1, <2>2, StepRoutes
<1>. QED BY <1>1, <1>2, <1>3 DEF Greeted
-----------------------------------------------------------------------------
(* What the slots say of the rows, and what the handlers are about to publish. *)

(* Nothing about d has changed but that its connection may be forgotten. *)
Undisturbed(d) ==
  /\ store'[d] = store[d] /\ access'[d] = access[d] /\ gate'[d] = gate[d]
  /\ gate[d] # Nil => task'[gate[d]] = task[gate[d]]
  /\ slot'[d] \in {slot[d], Cleared(slot[d])} /\ (d \in devices' <=> d \in devices)

LEMMA UndisturbedSlot ==
  ASSUME NEW d \in Device, Undisturbed(d), confirmed \subseteq confirmed', SlotSoundAt(d)
  PROVE  SlotSoundAt(d)'
<1>1. Stable(d)' => Stable(d)
  BY DEF Undisturbed, Stable
<1>2. slot'[d] = slot[d] \/ slot'[d].conn = Nil
  BY ClearedConn DEF Undisturbed
<1>. QED BY <1>1, <1>2 DEF Undisturbed, SlotSoundAt

LEMMA UndisturbedPending ==
  ASSUME HubAssumption, TypeOK, GateHeld, GateHeld', bindID' = bindID, NEW c \in Conn, Undisturbed(bindID[c]), Pending(c)
  PROVE  Pending(c)'
<1>1. CASE task'[c].kind \notin Gated
  BY <1>1 DEF Pending, Gated
<1>2. CASE task'[c].kind \in Gated
  <2>1. gate[bindID[c]] = c /\ c # Nil
    BY <1>2 DEF GateHeld, Undisturbed, HubAssumption, Conn
  <2>2. task'[c] = task[c]
    BY <2>1 DEF Undisturbed
  <2>3. /\ slot'[bindID[c]].conn \in {slot[bindID[c]].conn, Nil}
        /\ slot'[bindID[c]].record = slot[bindID[c]].record
        /\ slot'[bindID[c]].born = slot[bindID[c]].born
    BY ClearedConn DEF Undisturbed
  <2>. QED BY <2>2, <2>3 DEF Undisturbed, Pending
<1>. QED BY <1>1, <1>2

LEMMA NothingDisturbed ==
  ASSUME HubAssumption, TypeOK, GateHeld, GateHeld', Forward, SlotSound, PendingSound,
         confirmed \subseteq confirmed', \A d \in Device : Undisturbed(d)
  PROVE  SlotSound' /\ PendingSound'
<1>1. bindID' = bindID /\ \A c \in Conn : bindID[c] \in Device
  BY DEF Forward, TypeOK
<1>2. SlotSound'
  BY UndisturbedSlot DEF SlotSound
<1>3. PendingSound'
  BY <1>1, UndisturbedPending DEF PendingSound
<1>. QED BY <1>2, <1>3

(* The handler of c takes or frees the gate of its device. *)
LEMMA OneDisturbed ==
  ASSUME HubAssumption, TypeOK, GateHeld, GateHeld', Forward, SlotSound, PendingSound,
         confirmed \subseteq confirmed', NEW c \in Conn,
         \A d \in Device \ {bindID[c]} : Undisturbed(d),
         gate'[bindID[c]] \in {c, Nil},
         SlotSoundAt(bindID[c])', gate'[bindID[c]] = c => Pending(c)'
  PROVE  SlotSound' /\ PendingSound'
<1>1. bindID' = bindID /\ \A k \in Conn : bindID[k] \in Device
  BY DEF Forward, TypeOK
<1>2. SlotSound'
  BY UndisturbedSlot, <1>1 DEF SlotSound
<1>3. ASSUME NEW k \in Conn PROVE Pending(k)'
  <2>1. CASE bindID[k] # bindID[c]
    BY <1>1, <2>1, UndisturbedPending DEF PendingSound
  <2>2. CASE k = c /\ gate'[bindID[c]] = c
    BY <2>2
  <2>3. CASE bindID[k] = bindID[c] /\ ~ (k = c /\ gate'[bindID[c]] = c)
    <3>1. gate'[bindID[k]] # k
      BY <2>3 DEF HubAssumption, Conn
    <3>2. task'[k].kind \notin Gated
      BY <1>1, <3>1 DEF GateHeld
    <3>. QED BY <3>2 DEF Pending, Gated
  <2>. QED BY <2>1, <2>2, <2>3
<1>. QED BY <1>2, <1>3 DEF PendingSound

(* Gates and tasks of other devices, when the handler of c starts or stops. *)
LEMMA OtherGates ==
  ASSUME HubAssumption, TypeOK, GateHeld, NEW c \in Conn, Stops(c) \/ (\E k \in Gated : Starts(c, k)),
         NEW d \in Device, d # bindID[c]
  PROVE  gate'[d] = gate[d] /\ (gate[d] # Nil => task'[gate[d]] = task[gate[d]])
<1>1. gate[d] # c
  BY DEF GateHeld, HubAssumption, Conn
<1>. QED BY <1>1 DEF Stops, Starts, TypeOK

LEMMA QuietTask ==
  ASSUME HubAssumption, TypeOK, GateHeld, NEW c \in Conn, task[c].kind \notin Gated, gate' = gate,
         task' = task \/ (\E t : task' = [task EXCEPT ![c] = t]), NEW d \in Device
  PROVE  gate'[d] = gate[d] /\ (gate[d] # Nil => task'[gate[d]] = task[gate[d]])
<1>1. gate[d] # c
  BY DEF GateHeld, HubAssumption, Conn
<1>. QED BY <1>1 DEF TypeOK

LEMMA QuietDevice ==
  ASSUME HubAssumption, TypeOK, GateHeld, Greeted, NEW c \in DeviceConn,
         IdentityTimeout(c) \/ ConnFails(c) \/ DropDevice(c)
  PROVE  confirmed' = confirmed /\ \A d \in Device : Undisturbed(d)
<1>0. bindID[c] \in Device /\ slot \in [Device -> Slot]
  BY DEF TypeOK, Conn
<1>1. UNCHANGED <<task, gate, ids, devices, access, confirmed>>
  BY DEF IdentityTimeout, ConnFails, DropDevice, hub, seen
<1>2. \A d \in Device : slot'[d] \in {slot[d], Cleared(slot[d])}
  <2>1. CASE IdentityTimeout(c)
    BY <2>1, StopSlots DEF IdentityTimeout
  <2>2. CASE ConnFails(c) \/ DropDevice(c)
    <3>1. slot' = slot \/ slot' = [slot EXCEPT ![bindID[c]].conn = Nil]
      BY <2>2 DEF ConnFails, DropDevice, hub
    <3>. QED BY <1>0, <3>1, DropSlot
  <2>. QED BY <2>1, <2>2
<1>. QED BY <1>1, <1>2 DEF Undisturbed, ids

LEMMA QuietClient ==
  ASSUME HubAssumption, TypeOK, GateHeld, NEW c \in ClientConn,
         \/ Admit(c) \/ RejectInvoke(c) \/ ConnFails(c) \/ DropClient(c)
         \/ \E r \in Request, op \in Operation : Invoke(c, r, op)
         \/ \E r \in Request : Cancel(c, r)
  PROVE  confirmed' = confirmed /\ \A d \in Device : Undisturbed(d)
<1>0. bindID[c] \in Device /\ c \in Conn
  BY DEF TypeOK, Conn
<1>1. UNCHANGED <<gate, store, devices, access, confirmed>>
  BY DEF Admit, RejectInvoke, ConnFails, DropClient, Invoke, Cancel, hub, seen, ids
<1>2. slot' = slot \/ slot' = [slot EXCEPT ![bindID[c]].conn = Nil]
  BY DEF Admit, RejectInvoke, ConnFails, DropClient, Invoke, Cancel, hub
<1>3. \A d \in Device : slot'[d] \in {slot[d], Cleared(slot[d])}
  BY <1>0, <1>2, DropSlot DEF TypeOK
<1>4. task' = task \/ (task[c].kind \notin Gated /\ \E t : task' = [task EXCEPT ![c] = t])
  <2>1. CASE Admit(c) \/ RejectInvoke(c)
    BY <2>1 DEF Admit, RejectInvoke, Done, Gated
  <2>2. CASE ConnFails(c) \/ DropClient(c) \/ \E r \in Request : Cancel(c, r)
    BY <2>2 DEF ConnFails, DropClient, Cancel
  <2>3. CASE \E r \in Request, op \in Operation : Invoke(c, r, op)
    BY <2>3 DEF Invoke, IdleUp, Wait, Gated
  <2>. QED BY <2>1, <2>2, <2>3
<1>5. \A d \in Device : gate'[d] = gate[d] /\ (gate[d] # Nil => task'[gate[d]] = task[gate[d]])
  BY <1>0, <1>1, <1>4, QuietTask
<1>. QED BY <1>1, <1>3, <1>5 DEF Undisturbed

LEMMA QuietRoute ==
  ASSUME NEW x \in running, RouteStep(x)
  PROVE  confirmed' = confirmed /\ \A d \in Device : Undisturbed(d)
<1>1. UNCHANGED <<task, gate, ids, devices, slot, access, confirmed>>
  BY DEF RouteStep, DropOutput, OutputToClosedCaller, DropFromInbox, Terminal, hub
<1>. QED BY <1>1 DEF Undisturbed, ids

(* A handler takes the gate and makes its call. *)
LEMMA StartSound ==
  ASSUME HubAssumption, TypeOK, GateHeld, GateHeld', Forward, SlotSound, PendingSound,
         NEW c \in Conn, NEW k \in Gated, Starts(c, k), UNCHANGED hub, confirmed' = confirmed,
         \A d \in Device \ {bindID[c]} : store'[d] = store[d],
         slot[bindID[c]].conn # Nil /\ Stable(bindID[c])' => store'[bindID[c]] = store[bindID[c]],
         Pending(c)'
  PROVE  SlotSound' /\ PendingSound'
<1>d. PICK d \in Device : d = bindID[c] /\ d = bindID'[c]
  BY DEF TypeOK, Forward
<1>0. gate \in [Device -> Conn \cup {Nil}]
  BY DEF TypeOK
<1>1. ASSUME NEW e \in Device \ {d} PROVE Undisturbed(e)
  BY <1>1, <1>d, OtherGates DEF Undisturbed, hub
<1>2. gate'[d] \in {c, Nil}
  BY <1>0, <1>d DEF Starts
<1>3. SlotSoundAt(d)'
  <2>1. SlotSoundAt(d) /\ Stable(d)
    BY <1>d DEF SlotSound, Starts, Stable
  <2>. QED BY <1>d, <2>1 DEF SlotSoundAt, hub
<1>. QED BY <1>1, <1>2, <1>3, <1>d, OneDisturbed

LEMMA HelloDeviceSound ==
  ASSUME HubAssumption, TypeOK, GateHeld, GateHeld', Forward, SlotSound, PendingSound,
         NEW c \in DeviceConn, HelloDevice(c)
  PROVE  SlotSound' /\ PendingSound'
<1>. DEFINE d == bindID[c]
            r == IF store[d].uid = 0 THEN [NoRecord EXCEPT !.uid = nextId] ELSE store[d]
<1>0. c \in Conn /\ d \in Device /\ "hello" \in Gated /\ "hello" \in Kind /\ store \in [Device -> Record]
      /\ task \in [Conn -> Task]
  BY DEF TypeOK, Conn, Gated, Kind
<1>1. task[c].kind = "idle" /\ conn[c] = "new" /\ conn'[c] # "new" /\ TakeGate(c) /\ Transact(c, "hello", r)
      /\ UNCHANGED hub /\ confirmed' = confirmed
  BY <1>0 DEF HelloDevice, GateHeld, TypeOK, Unseen
<1>2. Starts(c, "hello") /\ Transacted(c, "hello", r)
  BY <1>0, <1>1, TransactStarts, TransactEffect
<1>3. r.uid # 0 /\ (store[d].uid # 0 => r = store[d])
  BY <1>0 DEF NoRecord, TypeOK, HubAssumption
<1>. HIDE DEF r
<1>4. PICK t \in Task : /\ t = task'[c] /\ t.kind = "hello" /\ t.code # "rejected"
                       /\ \/ store' = [store EXCEPT ![d] = r] /\ t.record = r
                          \/ store' = store /\ t.code # "ok"
  BY <1>2 DEF Transacted
<1>5. slot[d].conn # Nil /\ Stable(d)' => store'[d] = store[d]
  BY <1>0, <1>2, <1>3, <1>4 DEF SlotSound, SlotSoundAt, Stable, Starts
<1>6. Pending(c)'
  <2>1. t.code = "ok" => t.record = store'[d] /\ t.record.uid # 0
    BY <1>0, <1>3, <1>4
  <2>2. bindID' = bindID
    BY DEF Forward
  <2>. QED BY <1>4, <2>1, <2>2 DEF Pending
<1>7. \A e \in Device \ {d} : store'[e] = store[e]
  BY <1>0, <1>4
<1>. QED BY <1>0, <1>1, <1>2, <1>5, <1>6, <1>7, StartSound

LEMMA OwnedSlot ==
  ASSUME HubAssumption, TypeOK, SlotSound, NEW c \in DeviceConn, OwnsSlot(c), gate[bindID[c]] = Nil
  PROVE  LET d == bindID[c]
         IN  /\ d \in devices /\ slot[d].conn = c /\ slot[d].born = c /\ slot[d].conn # Nil
             /\ slot[d].record = store[d] /\ store[d].uid # 0 /\ access[d] = Binding(store[d])
             /\ task[c].kind = "idle" /\ conn[c] = "up" /\ c \in Conn /\ d \in Device
<1>1. c \in Conn /\ bindID[c] \in Device /\ c # Nil
  BY DEF TypeOK, Conn, HubAssumption
<1>. QED BY <1>1 DEF OwnsSlot, IdleUp, SlotSound, SlotSoundAt, Stable

(* The handlers of a device that change its row. *)
LEMMA ChangeSound ==
  ASSUME HubAssumption, TypeOK, GateHeld, GateHeld', Forward, SlotSound, PendingSound,
         NEW c \in DeviceConn, OwnsSlot(c), TakeGate(c), UNCHANGED <<conn, hub, confirmed>>,
         NEW kind \in {"settings", "revoke", "access", "status"}, NEW r,
         \/ Transact(c, kind, r)
         \/ kind # "revoke" /\ Wait(c, Rejected(kind)) /\ UNCHANGED <<ids, shut>>,
         kind # "revoke" => r.uid = store[bindID[c]].uid,
         kind = "settings" => r.owner = store[bindID[c]].owner,
         kind = "status" => r = store[bindID[c]]
  PROVE  SlotSound' /\ PendingSound'
<1>d. PICK d \in Device : d = bindID[c] /\ d = bindID'[c]
  BY DEF TypeOK, Forward, Conn
<1>0. /\ d \in devices /\ slot[d].conn = c /\ slot[d].born = c /\ slot[d].conn # Nil
      /\ slot[d].record = store[d] /\ store[d].uid # 0 /\ access[d] = Binding(store[d])
      /\ task[c].kind = "idle" /\ conn[c] = "up" /\ c \in Conn
      /\ kind \in Gated /\ kind \in Kind /\ gate[d] = Nil /\ gate' = [gate EXCEPT ![d] = c]
      /\ gate \in [Device -> Conn \cup {Nil}] /\ store \in [Device -> Record]
  <2>1. gate[bindID[c]] = Nil /\ gate' = [gate EXCEPT ![bindID[c]] = c]
    BY DEF TakeGate
  <2>2. kind \in Gated /\ kind \in Kind
    BY DEF Gated, Kind
  <2>3. gate \in [Device -> Conn \cup {Nil}] /\ store \in [Device -> Record]
    BY DEF TypeOK
  <2>4. /\ bindID[c] \in devices /\ slot[bindID[c]].conn = c /\ slot[bindID[c]].born = c /\ slot[bindID[c]].conn # Nil
        /\ slot[bindID[c]].record = store[bindID[c]] /\ store[bindID[c]].uid # 0
        /\ access[bindID[c]] = Binding(store[bindID[c]])
        /\ task[c].kind = "idle" /\ conn[c] = "up" /\ c \in Conn
    BY <2>1, OwnedSlot
  <2>. QED BY <1>d, <2>1, <2>2, <2>3, <2>4
<1>1. CASE Transact(c, kind, r)
  <2>1. Starts(c, kind) /\ Transacted(c, kind, r)
    BY <1>0, <1>1, TransactStarts, TransactEffect
  <2>2. PICK t \in Task : /\ t = task'[c] /\ t.kind = kind /\ (t.code = "rejected" => kind \in {"access", "status"})
                          /\ \/ store' = [store EXCEPT ![d] = r] /\ t.record = r /\ t.code # "rejected"
                             \/ store' = store /\ t.code # "ok"
    BY <1>d, <2>1 DEF Transacted
  <2>3. Stable(d)' => store'[d] = store[d]
    BY <1>0, <1>d, <2>2 DEF Stable, HubAssumption
  <2>4. Pending(c)'
    <3>1. t.code = "ok" => t.record = store'[d] /\ t.record = r
      BY <1>0, <2>2
    <3>2. slot' = slot /\ devices' = devices
      BY DEF hub
    <3>. QED BY <1>0, <1>d, <2>2, <3>1, <3>2 DEF Pending
  <2>5. \A e \in Device \ {d} : store'[e] = store[e]
    BY <1>0, <2>2
  <2>. QED BY <1>0, <1>d, <2>1, <2>3, <2>4, <2>5, StartSound
<1>2. CASE kind # "revoke" /\ Wait(c, Rejected(kind)) /\ UNCHANGED <<ids, shut>>
  <2>1. Rejected(kind) \in Task /\ Rejected(kind).kind = kind /\ Rejected(kind).code = "rejected"
    BY <1>0, OtherTasks
  <2>2. Starts(c, kind)
    BY <1>0, <1>2, <2>1, WaitStarts
  <2>3. task'[c] = Rejected(kind) /\ store' = store /\ slot' = slot /\ devices' = devices
    BY <1>0, <1>2 DEF Wait, TypeOK, ids, hub
  <2>4. Pending(c)'
    BY <1>0, <1>d, <2>1, <2>3 DEF Pending
  <2>. QED BY <1>0, <1>d, <2>2, <2>3, <2>4, StartSound
<1>. QED BY <1>1, <1>2

LEMMA DeviceStartSound ==
  ASSUME HubAssumption, TypeOK, GateHeld, GateHeld', Forward, SlotSound, PendingSound, NEW c \in DeviceConn,
         \/ \E s \in Settings : UpdateSettings(c, s[1], s[2])
         \/ Revoke(c) \/ \E action \in {"owner", "access", "status"} : ManageAccess(c, action)
  PROVE  SlotSound' /\ PendingSound'
<1>. DEFINE current == store[bindID[c]]
<1>0. current \in Record /\ nextId \in 1..(MaxId + 1) /\ c \in Conn
  BY DEF TypeOK, Conn
<1>1. ASSUME NEW s \in Settings, UpdateSettings(c, s[1], s[2]) PROVE SlotSound' /\ PendingSound'
  <2>1. OwnsSlot(c) /\ TakeGate(c) /\ UNCHANGED <<conn, hub, confirmed>>
    BY <1>1 DEF UpdateSettings, Unseen
  <2>2. PICK r : /\ r.uid = current.uid /\ r.owner = current.owner
                 /\ Transact(c, "settings", r) \/ (Wait(c, Rejected("settings")) /\ UNCHANGED <<ids, shut>>)
    BY <1>0, <1>1, WithAccessRecord DEF UpdateSettings, Rejected
  <2>. QED BY <2>1, <2>2, ChangeSound
<1>2. CASE Revoke(c)
  <2>1. OwnsSlot(c) /\ TakeGate(c) /\ UNCHANGED <<conn, hub, confirmed>> /\ Transact(c, "revoke", NoRecord)
    BY <1>2 DEF Revoke, Unseen
  <2>. QED BY <2>1, ChangeSound
<1>3. ASSUME NEW action \in {"owner", "access", "status"}, ManageAccess(c, action) PROVE SlotSound' /\ PendingSound'
  <2>1. OwnsSlot(c) /\ TakeGate(c) /\ UNCHANGED <<conn, hub, confirmed>>
    BY <1>3 DEF ManageAccess, Unseen
  <2>2. [current EXCEPT !.owner = nextId].uid = current.uid
    BY <1>0 DEF Record
  <2>3. \E kind \in {"access", "status"}, r \in {current, [current EXCEPT !.owner = nextId]} :
          /\ kind = "status" => r = current
          /\ Transact(c, kind, r) \/ (Wait(c, Rejected(kind)) /\ UNCHANGED <<ids, shut>>)
    BY <1>3 DEF ManageAccess, Rejected
  <2>. QED BY <2>1, <2>2, <2>3, ChangeSound
<1>. QED BY <1>1, <1>2, <1>3

LEMMA HelloClientSound ==
  ASSUME HubAssumption, TypeOK, GateHeld, GateHeld', Forward, SlotSound, PendingSound,
         NEW c \in ClientConn, HelloClient(c)
  PROVE  SlotSound' /\ PendingSound'
<1>d. PICK d \in Device : d = bindID[c] /\ d = bindID'[c]
  BY DEF TypeOK, Forward, Conn
<1>0. c \in Conn /\ "hello" \in Gated /\ "hello" \in Kind /\ store[d] \in Record /\ task \in [Conn -> Task]
  BY DEF TypeOK, Conn, Gated, Kind
<1>1. PICK code \in {"ok", "error"} : (code = "ok" => store[d].uid # 0) /\ Wait(c, WaitingFor("hello", code, store[d]))
  BY <1>d DEF HelloClient, WaitingFor
<1>. DEFINE t == WaitingFor("hello", code, store[d])
<1>2. t \in Task /\ t.kind = "hello" /\ t.code = code /\ t.record = store[d]
  BY <1>0, TaskFields DEF Code
<1>3. task[c].kind = "idle" /\ conn[c] = "new" /\ conn'[c] # "new" /\ TakeGate(c) /\ UNCHANGED <<hub, store, confirmed>>
  BY <1>0 DEF HelloClient, GateHeld, TypeOK, ids, seen
<1>4. task'[c] = t
  BY <1>0, <1>1 DEF Wait
<1>5. Starts(c, "hello")
  BY <1>0, <1>1, <1>2, <1>3, WaitStarts
<1>. HIDE DEF t
<1>6. Pending(c)'
  BY <1>d, <1>1, <1>2, <1>3, <1>4 DEF Pending
<1>. QED BY <1>d, <1>0, <1>3, <1>5, <1>6, StartSound

LEMMA RenewSound ==
  ASSUME HubAssumption, TypeOK, GateHeld, GateHeld', Forward, SlotSound, PendingSound,
         NEW c \in DeviceConn, NEW x \in inflight, RenewRoute(c, x)
  PROVE  SlotSound' /\ PendingSound'
<1>0. c \in Conn /\ "renew" \in Gated /\ task \in [Conn -> Task] /\ x \in 0..MaxRoute
  BY DEF TypeOK, Conn, Gated, HubAssumption
<1>1. PICK code \in Code : Wait(c, Renewing(code, x))
  BY DEF RenewRoute, Renewing
<1>2. Renewing(code, x) \in Task /\ Renewing(code, x).kind = "renew"
  BY <1>0, OtherTasks
<1>3. task[c].kind = "idle" /\ conn'[c] # "new" /\ TakeGate(c) /\ UNCHANGED <<hub, store, confirmed>>
  BY <1>0 DEF RenewRoute, IdleUp, ids, seen
<1>4. Starts(c, "renew")
  BY <1>0, <1>1, <1>2, <1>3, WaitStarts
<1>5. task'[c].kind = "renew"
  BY <1>0, <1>1, <1>2 DEF Wait
<1>6. Pending(c)'
  BY <1>5 DEF Pending
<1>. QED BY <1>0, <1>3, <1>4, <1>6, StartSound

(* What a handler publishes is about its device alone. *)
Beside(d) ==
  \A e \in Device \ {d} :
    access'[e] = access[e] /\ slot'[e] \in {slot[e], Cleared(slot[e])} /\ (e \in devices' <=> e \in devices)

(* A handler publishes what it got and frees the gate. *)
LEMMA StopSound ==
  ASSUME HubAssumption, TypeOK, GateHeld, GateHeld', Forward, SlotSound, PendingSound,
         NEW c \in Conn, Stops(c), store' = store, confirmed \subseteq confirmed',
         NEW d \in Device, d = bindID[c], Beside(d), SlotSoundAt(d)'
  PROVE  SlotSound' /\ PendingSound'
<1>1. d = bindID'[c] /\ gate'[d] = Nil /\ Nil # c
  BY DEF Forward, Stops, TypeOK, HubAssumption, Conn
<1>2. \A e \in Device \ {d} : Undisturbed(e)
  BY OtherGates DEF Undisturbed, Beside
<1>. QED BY <1>1, <1>2, OneDisturbed

(* What the handler of c knows when it publishes. *)
LEMMA Publishing ==
  ASSUME HubAssumption, TypeOK, GateHeld, Greeted, SlotSound, PendingSound, NEW c \in Conn, task[c].kind \in Gated,
         NEW d \in Device, d = bindID[c]
  PROVE  /\ gate[d] = c /\ c # Nil /\ SlotSoundAt(d) /\ Pending(c)
         /\ (Stable(d) <=> task[c].kind \in {"hello", "status", "renew"} \/ task[c].code = "rejected")
<1>1. c # Nil /\ gate[d] = c
  BY DEF HubAssumption, Conn, TypeOK, GateHeld
<1>. QED BY <1>1 DEF SlotSound, PendingSound, Stable

LEMMA Stopping ==
  ASSUME NEW c, task[c].kind \in Gated, Done(c), FreeGate(c) PROVE Stops(c)
BY DEF Stops, Done, FreeGate

LEMMA RegisterDeviceSound ==
  ASSUME HubAssumption, TypeOK, GateHeld, GateHeld', Forward, Greeted, SlotSound, PendingSound,
         NEW c \in DeviceConn, RegisterDevice(c)
  PROVE  SlotSound' /\ PendingSound'
<1>d. PICK d \in Device : d = bindID[c]
  BY DEF TypeOK, Conn
<1>0. /\ c \in Conn /\ task[c].kind = "hello" /\ task[c].kind \in Gated
      /\ slot \in [Device -> Slot] /\ access \in [Device -> Authority]
  BY DEF RegisterDevice, Conn, Gated, TypeOK
<1>1. Stops(c) /\ store' = store /\ confirmed' = confirmed
  BY <1>0, Stopping DEF RegisterDevice, ids
<1>2. gate[d] = c /\ SlotSoundAt(d) /\ Pending(c) /\ Stable(d)
  BY <1>0, <1>d, Publishing
<1>3. CASE UNCHANGED <<devices, slot, access>>
  <2>1. Beside(d) /\ SlotSoundAt(d)'
    BY <1>0, <1>1, <1>2, <1>3 DEF SlotSoundAt, Beside
  <2>. QED BY <1>0, <1>d, <1>1, <2>1, StopSound
<1>4. CASE /\ task[c].code = "ok" /\ access' = [access EXCEPT ![d] = Binding(task[c].record)]
           /\ devices' = devices \cup {d}
           /\ slot' = [slot EXCEPT ![d] = [conn |-> c, born |-> c, record |-> task[c].record, ready |-> FALSE]]
  <2>1. Beside(d)
    BY <1>0, <1>4 DEF Beside
  <2>2. access'[d] = Binding(task[c].record) /\ slot'[d] = [conn |-> c, born |-> c, record |-> task[c].record, ready |-> FALSE]
    BY <1>0, <1>4
  <2>3. task[c].record = store[d] /\ task[c].record.uid # 0
    BY <1>0, <1>d, <1>2, <1>4 DEF Pending
  <2>4. SlotSoundAt(d)'
    BY <1>1, <2>2, <2>3 DEF SlotSoundAt
  <2>. QED BY <1>0, <1>d, <1>1, <2>1, <2>4, StopSound
<1>. QED BY <1>d, <1>3, <1>4 DEF RegisterDevice

LEMMA RegisterClientSound ==
  ASSUME HubAssumption, TypeOK, GateHeld, GateHeld', Forward, Greeted, SlotSound, PendingSound,
         NEW c \in ClientConn, RegisterClient(c)
  PROVE  SlotSound' /\ PendingSound'
<1>d. PICK d \in Device : d = bindID[c]
  BY DEF TypeOK, Conn
<1>0. c \in Conn /\ task[c].kind = "hello" /\ task[c].kind \in Gated /\ access \in [Device -> Authority]
  BY DEF RegisterClient, Conn, Gated, TypeOK
<1>1. Stops(c) /\ UNCHANGED <<store, confirmed, devices, slot>>
  BY <1>0, Stopping DEF RegisterClient, ids, seen
<1>2. gate[d] = c /\ SlotSoundAt(d) /\ Pending(c) /\ Stable(d)
  BY <1>0, <1>d, Publishing
<1>3. \/ access' = access
      \/ task[c].code = "ok" /\ access' = [access EXCEPT ![d] = Binding(task[c].record)]
  BY <1>d DEF RegisterClient
<1>4. task[c].code = "ok" => task[c].record = store[d]
  BY <1>0, <1>d, <1>2 DEF Pending
<1>5. slot[d].conn # Nil => access'[d] = Binding(slot[d].record)
  BY <1>0, <1>2, <1>3, <1>4 DEF SlotSoundAt
<1>6. Beside(d) /\ SlotSoundAt(d)'
  BY <1>0, <1>1, <1>2, <1>3, <1>5 DEF Beside, SlotSoundAt
<1>. QED BY <1>d, <1>0, <1>1, <1>6, StopSound

LEMMA ReplySound ==
  ASSUME HubAssumption, TypeOK, GateHeld, GateHeld', Forward, Greeted, SlotSound, PendingSound,
         NEW c \in DeviceConn, ReplyLease(c)
  PROVE  SlotSound' /\ PendingSound'
<1>d. PICK d \in Device : d = bindID[c]
  BY DEF TypeOK, Conn
<1>0. c \in Conn /\ task[c].kind = "renew" /\ task[c].kind \in Gated
  BY DEF ReplyLease, Conn, Gated, TypeOK
<1>1. Stops(c) /\ UNCHANGED <<store, confirmed, devices, slot, access>>
  BY <1>0, Stopping DEF ReplyLease, ids, hub
<1>2. SlotSoundAt(d) /\ Stable(d)
  BY <1>0, <1>d, Publishing
<1>3. Beside(d) /\ SlotSoundAt(d)'
  BY <1>1, <1>2 DEF Beside, SlotSoundAt
<1>. QED BY <1>d, <1>0, <1>1, <1>3, StopSound

(* The slot that loses its connection is that of the device of c. *)
LEMMA StopOwnSlot ==
  ASSUME HubAssumption, TypeOK, Greeted, NEW c \in DeviceConn, StopRouting(c), NEW d \in Device, d = bindID[c]
  PROVE  /\ \A e \in Device \ {d} : slot'[e] = slot[e]
         /\ slot'[d] = IF slot[d].conn = c THEN Cleared(slot[d]) ELSE slot[d]
<1>1. c # Nil
  BY DEF HubAssumption
<1>2. \A e \in Device : slot'[e] = IF e \in devices /\ slot[e].conn = c THEN Cleared(slot[e]) ELSE slot[e]
  BY StopSlots
<1>3. \A e \in Device : slot[e].conn = c => e \in devices /\ e = d
  BY <1>1 DEF Greeted
<1>. QED BY <1>2, <1>3

(* A change that was not confirmed: the slot loses its connection. *)
LEMMA StoppedSound ==
  ASSUME HubAssumption, TypeOK, GateHeld, GateHeld', Forward, Greeted, SlotSound, PendingSound,
         NEW c \in DeviceConn, task[c].kind \in {"settings", "revoke", "access"}, Stops(c), StopRouting(c),
         UNCHANGED <<store, confirmed, devices, access>>
  PROVE  SlotSound' /\ PendingSound'
<1>d. PICK d \in Device : d = bindID[c]
  BY DEF TypeOK, Conn
<1>0. c \in Conn /\ task[c].kind \in Gated
  BY DEF Conn, Gated
<1>1. SlotSoundAt(d) /\ Pending(c)
  BY <1>0, <1>d, Publishing
<1>2. slot[d].conn \in {c, Nil}
  BY <1>1, <1>d DEF Pending
<1>3. slot'[d].conn = Nil /\ \A e \in Device \ {d} : slot'[e] = slot[e]
  BY <1>d, <1>2, StopOwnSlot, ClearedConn
<1>4. Beside(d) /\ SlotSoundAt(d)'
  BY <1>3 DEF Beside, SlotSoundAt
<1>. QED BY <1>d, <1>0, <1>4, StopSound

LEMMA PublishSettingsSound ==
  ASSUME HubAssumption, TypeOK, GateHeld, GateHeld', Forward, Greeted, SlotSound, PendingSound,
         NEW c \in DeviceConn, PublishSettings(c)
  PROVE  SlotSound' /\ PendingSound'
<1>d. PICK d \in Device : d = bindID[c]
  BY DEF TypeOK, Conn
<1>0. /\ c \in Conn /\ task[c].kind = "settings" /\ task[c].kind \in Gated
      /\ slot \in [Device -> Slot] /\ access \in [Device -> Authority]
  BY DEF PublishSettings, Conn, Gated, TypeOK
<1>1. Stops(c) /\ store' = store /\ devices' = devices
  BY <1>0, Stopping DEF PublishSettings, ids
<1>2. gate[d] = c /\ c # Nil /\ SlotSoundAt(d) /\ Pending(c)
  BY <1>0, <1>d, Publishing
<1>3. CASE task[c].code # "ok"
  BY <1>0, <1>1, <1>3, StoppedSound DEF PublishSettings
<1>4. CASE task[c].code = "ok"
  <2>1. SameSlot(c) /\ slot[d].conn \in {c, Nil} /\ slot[d].born = c /\ task[c].record = store[d] /\ task[c].record.uid # 0
    BY <1>0, <1>d, <1>2, <1>4 DEF Pending, SameSlot
  <2>2. PICK b \in BOOLEAN, dc \in {slot[d].conn, Nil} :
               /\ b <=> slot[d].ready \/ Up(c)
               /\ dc = IF Up(c) \/ slot[d].conn # c THEN slot[d].conn ELSE Nil
               /\ slot' = [slot EXCEPT ![d] = Edited(slot[d], task[c].record, b, dc)]
    BY <1>d, <1>4, <2>1, SettingsSlot
  <2>3. /\ access' = [access EXCEPT ![d] = Binding(task[c].record)]
        /\ confirmed' = (IF Up(c) THEN confirmed \cup {c} ELSE confirmed)
    BY <1>d, <1>4, <2>1 DEF PublishSettings
  <2>4. slot'[d].conn = dc /\ slot'[d].born = slot[d].born /\ slot'[d].record = task[c].record /\ slot'[d].ready = b
    BY <1>0, <2>2, EditedFields
  <2>5. Beside(d)
    BY <1>0, <1>1, <2>2, <2>3 DEF Beside
  <2>6. access'[d] = Binding(task[c].record)
    BY <1>0, <2>3
  <2>7. SlotSoundAt(d)'
    BY <1>1, <1>2, <2>1, <2>2, <2>3, <2>4, <2>6 DEF SlotSoundAt
  <2>. QED BY <1>d, <1>0, <1>1, <2>3, <2>5, <2>7, StopSound
<1>. QED BY <1>3, <1>4

LEMMA PublishRevokeSound ==
  ASSUME HubAssumption, TypeOK, GateHeld, GateHeld', Forward, Greeted, SlotSound, PendingSound,
         NEW c \in DeviceConn, PublishRevoke(c)
  PROVE  SlotSound' /\ PendingSound'
<1>d. PICK d \in Device : d = bindID[c]
  BY DEF TypeOK, Conn
<1>0. /\ c \in Conn /\ task[c].kind = "revoke" /\ task[c].kind \in Gated
      /\ slot \in [Device -> Slot] /\ access \in [Device -> Authority]
  BY DEF PublishRevoke, Conn, Gated, TypeOK
<1>1. Stops(c) /\ store' = store /\ confirmed' = confirmed
  BY <1>0, Stopping DEF PublishRevoke, ids
<1>2. CASE task[c].code # "ok"
  BY <1>0, <1>1, <1>2, StoppedSound DEF PublishRevoke
<1>3. CASE task[c].code = "ok"
  <2>1. Pending(c)
    BY <1>0, <1>d, Publishing
  <2>2. SameSlot(c)
    BY <1>0, <2>1 DEF Pending, SameSlot
  <2>3. devices' = devices \ {d} /\ slot' = [slot EXCEPT ![d] = NoSlot] /\ access' = [access EXCEPT ![d] = NoAuthority]
    BY <1>d, <1>3, <2>2 DEF PublishRevoke
  <2>4. Beside(d) /\ SlotSoundAt(d)'
    BY <1>0, <2>3 DEF Beside, SlotSoundAt, NoSlot
  <2>. QED BY <1>d, <1>0, <1>1, <2>4, StopSound
<1>. QED BY <1>2, <1>3

LEMMA PublishAccessSound ==
  ASSUME HubAssumption, TypeOK, GateHeld, GateHeld', Forward, Greeted, SlotSound, PendingSound,
         NEW c \in DeviceConn, PublishAccess(c)
  PROVE  SlotSound' /\ PendingSound'
<1>d. PICK d \in Device : d = bindID[c]
  BY DEF TypeOK, Conn
<1>0. /\ c \in Conn /\ task[c].kind \in {"access", "status"} /\ task[c].kind \in Gated
      /\ slot \in [Device -> Slot] /\ access \in [Device -> Authority]
  BY DEF PublishAccess, Conn, Gated, TypeOK
<1>1. Stops(c) /\ store' = store /\ devices' = devices /\ confirmed' = confirmed
  BY <1>0, Stopping DEF PublishAccess, ids
<1>2. /\ gate[d] = c /\ c # Nil /\ SlotSoundAt(d) /\ Pending(c)
      /\ (Stable(d) <=> task[c].kind \in {"hello", "status", "renew"} \/ task[c].code = "rejected")
  BY <1>0, <1>d, Publishing
<1>3. SameSlot(c) /\ slot[d].conn \in {c, Nil}
  BY <1>0, <1>d, <1>2 DEF Pending, SameSlot
<1>4. CASE task[c].code = "rejected" \/ (task[c].code = "error" /\ task[c].kind = "status")
  <2>1. slot' = slot /\ access' = access
    BY <1>4 DEF PublishAccess
  <2>2. Beside(d) /\ SlotSoundAt(d)'
    BY <1>1, <1>2, <1>4, <2>1 DEF Beside, SlotSoundAt
  <2>. QED BY <1>d, <1>0, <1>1, <2>2, StopSound
<1>5. CASE task[c].code = "error" /\ task[c].kind = "access"
  <2>1. StopRouting(c) /\ access' = access
    BY <1>5 DEF PublishAccess
  <2>. QED BY <1>0, <1>1, <1>5, <2>1, StoppedSound
<1>6. CASE task[c].code = "ok"
  <2>1. task[c].record = store[d] /\ task[c].record.uid # 0
    BY <1>0, <1>d, <1>2, <1>6 DEF Pending
  <2>2. PICK dc \in {slot[d].conn, Nil} :
               slot' = [slot EXCEPT ![d] = Edited(slot[d], task[c].record, slot[d].ready, dc)]
    BY <1>d, <1>3, <1>6, AccessSlot
  <2>3. access' = [access EXCEPT ![d] = Binding(task[c].record)]
    BY <1>d, <1>3, <1>6 DEF PublishAccess
  <2>4. slot'[d].conn = dc /\ slot'[d].born = slot[d].born /\ slot'[d].record = task[c].record /\ slot'[d].ready = slot[d].ready
    BY <1>0, <2>2, EditedFields
  <2>5. Beside(d)
    BY <1>0, <1>1, <2>2, <2>3 DEF Beside
  <2>6. access'[d] = Binding(task[c].record)
    BY <1>0, <2>3
  <2>7. SlotSoundAt(d)'
    BY <1>1, <1>2, <2>1, <2>2, <2>4, <2>6 DEF SlotSoundAt
  <2>. QED BY <1>d, <1>0, <1>1, <2>5, <2>7, StopSound
<1>7. task[c].code \in Code
  BY <1>0 DEF TypeOK, Task
<1>. QED BY <1>0, <1>4, <1>5, <1>6, <1>7 DEF Code

(* The slots agree with the rows, and the handlers with both, after any step. *)
LEMMA StepSound ==
  ASSUME HubAssumption, TypeOK, GateHeld, GateHeld', Greeted, SlotSound, PendingSound, Next
  PROVE  SlotSound' /\ PendingSound'
<1>0. Forward
  BY StepForward
<1>1. ASSUME NEW c \in DeviceConn, DeviceStep(c) PROVE SlotSound' /\ PendingSound'
  <2>1. CASE IdentityTimeout(c) \/ ConnFails(c) \/ DropDevice(c)
    BY <1>0, <2>1, QuietDevice, NothingDisturbed
  <2>. QED BY <1>0, <1>1, <2>1, HelloDeviceSound, RegisterDeviceSound, DeviceStartSound, PublishSettingsSound,
              PublishRevokeSound, PublishAccessSound, RenewSound, ReplySound DEF DeviceStep
<1>2. ASSUME NEW c \in ClientConn, ClientStep(c) PROVE SlotSound' /\ PendingSound'
  <2>1. CASE \/ Admit(c) \/ RejectInvoke(c) \/ ConnFails(c) \/ DropClient(c)
             \/ \E r \in Request, op \in Operation : Invoke(c, r, op)
             \/ \E r \in Request : Cancel(c, r)
    BY <1>0, <2>1, QuietClient, NothingDisturbed
  <2>. QED BY <1>0, <1>2, <2>1, HelloClientSound, RegisterClientSound DEF ClientStep
<1>3. ASSUME NEW x \in running, RouteStep(x) PROVE SlotSound' /\ PendingSound'
  BY <1>0, <1>3, QuietRoute, NothingDisturbed
<1>4. CASE Exhausted
  <2>1. confirmed' = confirmed /\ \A d \in Device : Undisturbed(d)
    BY <1>4 DEF Exhausted, vars, ids, hub, seen, Undisturbed
  <2>. QED BY <1>0, <2>1, NothingDisturbed
<1>. QED BY <1>1, <1>2, <1>3, <1>4 DEF Next

LEMMA NewcomerStep ==
  ASSUME HubAssumption, TypeOK, GateHeld, Greeted, Newcomer, Next PROVE Newcomer'
<1>0. /\ TaskShape /\ Forward /\ SlotsKept /\ bindID' = bindID /\ task \in [Conn -> Task]
      /\ bindID \in [Conn -> Device] /\ Idle.kind = "idle" /\ DeviceConn \subseteq Conn /\ ClientConn \subseteq Conn
  BY StepTasks, StepForward, StepSlots, OtherTasks DEF Forward, TypeOK, Conn
<1>1. ASSUME NEW c \in DeviceConn, task'[c].kind = "hello" PROVE task[c].kind = "hello" \/ conn[c] = "new"
  <2>1. ASSUME NEW k \in Conn, NEW kind, Starts(k, kind) PROVE task[c].kind = "hello" \/ conn[c] = "new"
    BY <1>0, <1>1, <2>1 DEF Starts
  <2>2. ASSUME NEW k \in Conn, Stops(k) PROVE task[c].kind = "hello" \/ conn[c] = "new"
    BY <1>0, <1>1, <2>2 DEF Stops
  <2>3. ASSUME NEW k \in ClientConn, Invokes(k) PROVE task[c].kind = "hello" \/ conn[c] = "new"
    BY <1>0, <1>1, <2>3 DEF Invokes, HubAssumption
  <2>. QED BY <1>0, <1>1, <2>1, <2>2, <2>3 DEF TaskShape
<1>2. ASSUME NEW c \in DeviceConn, task'[c].kind = "hello", slot'[bindID[c]].conn = c PROVE FALSE
  <2>0. c # Nil /\ bindID[c] \in Device
    BY <1>0 DEF HubAssumption
  <2>1. slot[bindID[c]].conn # c
    BY <1>1, <1>2, <2>0 DEF Newcomer, Greeted
  <2>2. PICK k \in DeviceConn : Registers(k, bindID[c])
    BY <1>0, <1>2, <2>0, <2>1 DEF SlotsKept
  <2>. QED BY <1>2, <2>2 DEF Registers
<1>. QED BY <1>0, <1>2 DEF Newcomer
-----------------------------------------------------------------------------
(* What a step does to a route in flight: it carries it on, with both its ends
   and its owner, or it ends it for a cause, which a device that still runs it
   is told of. *)

Carried(x) ==
  LET d == route[x].device
  IN  /\ route[x].client \in clients' /\ d \in devices' /\ slot'[d].conn = slot[d].conn
      /\ access'[d].uid = access[d].uid /\ access'[d].owner = access[d].owner

Caused(x) ==
  LET d == route[x].device
  IN  \/ x \notin running' \/ ~ Up(route[x].client)
      \/ slot'[d].conn # route[x].via \/ access'[d].owner # access[d].owner

Reached(x) == x \in cancelSent' \/ conn'[route[x].via] \in {"closing", "gone"}

Fate(x) ==
  IF x \in inflight' THEN Carried(x) ELSE Caused(x) /\ (x \in running' => Reached(x))

(* The ends of a route in flight. *)
LEMMA Flying ==
  ASSUME HubAssumption, Known, NEW x \in inflight, NEW d, d = route[x].device, NEW v, v = route[x].via
  PROVE  /\ x \in DOMAIN route /\ d \in Device /\ v \in DeviceConn /\ v \in Conn /\ v # Nil
         /\ slot[d].conn = v /\ d \in devices /\ route[x].client \in clients /\ route[x].client \in ClientConn
         /\ bindID[v] = d /\ bindID[route[x].client] = d /\ conn[v] # "new"
         /\ access[d] = Binding(slot[d].record) /\ x \in RoutesOf(d)
<1>1. x \in DOMAIN route /\ d \in Device /\ v \in DeviceConn /\ v # Nil /\ v \in Conn /\ route[x].client \in ClientConn
  BY DEF Known, TypeOK, RouteRecord, HubAssumption, Conn
<1>2. slot[d].conn = v /\ d \in devices /\ route[x].client \in clients
  BY DEF Known, RoutesCurrent, RouteEndsRegistered
<1>3. bindID[v] = d /\ conn[v] # "new" /\ bindID[route[x].client] = d
  BY <1>1, <1>2 DEF Known, Greeted
<1>4. access[d] = Binding(slot[d].record)
  BY <1>1, <1>2 DEF Known, SlotSound, SlotSoundAt
<1>. QED BY <1>1, <1>2, <1>3, <1>4 DEF RoutesOf

(* Only d is touched, and of the callers only those of d are dropped. *)
Touches(d) ==
  /\ \A e \in Device \ {d} : slot'[e].conn = slot[e].conn /\ access'[e] = access[e] /\ (e \in devices => e \in devices')
  /\ \A c \in clients : c \in clients' \/ bindID[c] = d

LEMMA Elsewhere ==
  ASSUME HubAssumption, Known, NEW x \in inflight, NEW d, route[x].device # d, Touches(d),
         \/ inflight' = inflight
         \/ \E S : Finish(S) /\ S \subseteq RoutesOf(d)
  PROVE  Fate(x)
<1>1. x \in inflight'
  BY DEF Finish, RoutesOf
<1>2. Carried(x)
  BY Flying DEF Touches, Carried
<1>. QED BY <1>1, <1>2 DEF Fate

(* The device or the caller does not change. *)
LEMMA CarriedOn ==
  ASSUME HubAssumption, Known, NEW x \in inflight, x \in inflight', UNCHANGED <<devices, slot, access>>,
         route[x].client \in clients'
  PROVE  Fate(x)
<1>1. Carried(x)
  BY Flying DEF Carried
<1>. QED BY <1>1 DEF Fate

(* The slot of c loses its connection and c is closed. *)
LEMMA StoppedFate ==
  ASSUME HubAssumption, Known, NEW c \in DeviceConn, StopRouting(c), UNCHANGED <<devices, access>>, clients' = clients,
         NEW x \in inflight
  PROVE  Fate(x)
<1>d. PICK d : d = route[x].device
  OBVIOUS
<1>v. PICK v : v = route[x].via
  OBVIOUS
<1>0. /\ d \in Device /\ v \in DeviceConn /\ v # Nil /\ slot[d].conn = v /\ d \in devices
      /\ route[x].client \in clients /\ v \in Conn /\ TypeOK
  BY <1>d, <1>v, Flying DEF Known
<1>1. slot'[d] = IF slot[d].conn = c THEN Cleared(slot[d]) ELSE slot[d]
  BY <1>0, StopSlots
<1>2. inflight' = inflight \ {y \in inflight : route[y].device \in {e \in Device : e \in devices /\ slot[e].conn = c}}
  BY DEF StopRouting, Finish
<1>3. x \in inflight' <=> v # c
  BY <1>0, <1>2, <1>d
<1>4. CASE v # c
  <2>1. Carried(x)
    BY <1>0, <1>1, <1>4, <1>d DEF Carried
  <2>. QED BY <1>3, <1>4, <2>1 DEF Fate
<1>5. CASE v = c
  <2>1. slot'[d].conn = Nil
    BY <1>0, <1>1, <1>5, ClearedConn
  <2>2. Caused(x)
    BY <1>0, <1>d, <1>v, <2>1 DEF Caused
  <2>3. conn'[v] \in {"closing", "gone"}
    BY <1>0, <1>5 DEF StopRouting, Close, TypeOK
  <2>. QED BY <1>3, <1>5, <1>v, <2>2, <2>3 DEF Fate, Reached
<1>. QED BY <1>4, <1>5

(* All routes of d end, and their connection is closed. *)
LEMMA EndedFate ==
  ASSUME HubAssumption, Known, NEW x \in inflight, x \notin inflight', Caused(x), NEW S, Close(S), route[x].via \in S
  PROVE  Fate(x)
<1>1. conn'[route[x].via] \in {"closing", "gone"}
  BY Flying DEF Close, Known, TypeOK
<1>. QED BY <1>1 DEF Fate, Reached

LEMMA RegisterDeviceFate ==
  ASSUME HubAssumption, Known, NEW c \in DeviceConn, RegisterDevice(c), NEW x \in inflight
  PROVE  Fate(x)
<1>d. PICK d \in Device : d = bindID[c]
  BY DEF Known, TypeOK, Conn
<1>v. PICK v : v = route[x].via
  OBVIOUS
<1>0. slot \in [Device -> Slot] /\ access \in [Device -> Authority] /\ clients' = clients /\ slot[d].conn # c
  BY <1>d DEF Known, TypeOK, RegisterDevice, Newcomer
<1>1. CASE UNCHANGED <<devices, slot, access, inflight>>
  BY <1>0, <1>1, CarriedOn, Flying
<1>2. CASE /\ access' = [access EXCEPT ![d] = Binding(task[c].record)]
           /\ devices' = devices \cup {d}
           /\ slot' = [slot EXCEPT ![d] = [conn |-> c, born |-> c, record |-> task[c].record, ready |-> FALSE]]
           /\ IF d \in devices /\ slot[d].conn # Nil THEN FailDevice(d) /\ Close({slot[d].conn}) ELSE UNCHANGED inflight
  <2>1. CASE route[x].device # d
    <3>1. Touches(d)
      BY <1>0, <1>2 DEF Touches
    <3>2. inflight' = inflight \/ Finish(RoutesOf(d))
      BY <1>2 DEF FailDevice
    <3>. QED BY <2>1, <3>1, <3>2, Elsewhere
  <2>2. CASE route[x].device = d
    <3>1. slot[d].conn = v /\ v # Nil /\ d \in devices /\ x \in RoutesOf(d)
      BY <1>v, <2>2, Flying
    <3>2. Finish(RoutesOf(d)) /\ Close({v})
      BY <1>2, <3>1 DEF FailDevice
    <3>3. x \notin inflight'
      BY <3>1, <3>2 DEF Finish
    <3>4. slot'[d].conn = c
      BY <1>0, <1>2
    <3>5. Caused(x)
      BY <1>0, <1>v, <2>2, <3>1, <3>4 DEF Caused
    <3>. QED BY <1>v, <3>2, <3>3, <3>5, EndedFate
  <2>. QED BY <2>1, <2>2
<1>. QED BY <1>d, <1>1, <1>2 DEF RegisterDevice

(* A handler that changes a row stands for the routes of its device. *)
LEMMA Owning ==
  ASSUME HubAssumption, Known, NEW c \in DeviceConn, task[c].kind \in {"settings", "revoke", "access", "status"},
         NEW d \in Device, d = bindID[c]
  PROVE  /\ SameSlot(c) /\ slot[d].conn \in {c, Nil} /\ SlotSoundAt(d)
         /\ \A x \in inflight : route[x].device = d => slot[d].conn = c /\ route[x].via = c
<1>0. c \in Conn /\ task[c].kind \in Gated
  BY DEF Conn, Gated
<1>1. Pending(c) /\ SlotSoundAt(d)
  BY DEF Known, PendingSound, SlotSound, Conn
<1>2. SameSlot(c) /\ slot[d].conn \in {c, Nil}
  BY <1>1 DEF Pending, SameSlot
<1>3. \A x \in inflight : route[x].device = d => slot[d].conn = c /\ route[x].via = c
  BY <1>2, Flying
<1>. QED BY <1>1, <1>2, <1>3

LEMMA PublishSettingsFate ==
  ASSUME HubAssumption, Known, NEW c \in DeviceConn, PublishSettings(c), NEW x \in inflight
  PROVE  Fate(x)
<1>d. PICK d \in Device : d = bindID[c]
  BY DEF Known, TypeOK, Conn
<1>0. /\ slot \in [Device -> Slot] /\ access \in [Device -> Authority] /\ clients' = clients /\ devices' = devices
      /\ task[c].kind = "settings" /\ c \in Conn /\ TypeOK
  BY DEF Known, TypeOK, PublishSettings, Conn
<1>1. CASE task[c].code # "ok"
  BY <1>0, <1>1, StoppedFate DEF PublishSettings
<1>2. CASE task[c].code = "ok"
  <2>0. SameSlot(c) /\ slot[d].conn \in {c, Nil} /\ SlotSoundAt(d)
    BY <1>0, <1>d, Owning
  <2>1. PICK b \in BOOLEAN, dc \in {slot[d].conn, Nil} :
               /\ dc = IF Up(c) \/ slot[d].conn # c THEN slot[d].conn ELSE Nil
               /\ slot' = [slot EXCEPT ![d] = Edited(slot[d], task[c].record, b, dc)]
    BY <1>0, <1>d, <1>2, <2>0, SettingsSlot
  <2>2. access' = [access EXCEPT ![d] = Binding(task[c].record)]
    BY <1>d, <1>2, <2>0 DEF PublishSettings
  <2>3. slot'[d].conn = dc
    BY <1>0, <2>1, EditedFields
  <2>4. IF Up(c) THEN inflight' = inflight
        ELSE /\ Finish(IF slot[d].conn = c THEN RoutesOf(d) ELSE {}) /\ Close({c})
    BY <1>d, <1>2, <2>0 DEF PublishSettings
  <2>5. CASE route[x].device # d
    <3>1. Touches(d)
      BY <1>0, <2>1, <2>2 DEF Touches
    <3>2. inflight' = inflight \/ \E S : Finish(S) /\ S \subseteq RoutesOf(d)
      BY <2>4
    <3>. QED BY <2>5, <3>1, <3>2, Elsewhere
  <2>6. CASE route[x].device = d
    <3>1. /\ slot[d].conn = c /\ route[x].via = c /\ c # Nil /\ d \in devices /\ route[x].client \in clients
          /\ x \in RoutesOf(d) /\ access[d] = Binding(slot[d].record)
      BY <2>6, <1>0, <1>d, Owning, Flying
    <3>2. CASE Up(c)
      <4>1. task[c].record.uid = slot[d].record.uid /\ task[c].record.owner = slot[d].record.owner
        <5>1. Pending(c)
          BY <1>0 DEF Known, PendingSound
        <5>. QED BY <1>0, <1>d, <1>2, <3>1, <5>1 DEF Pending
      <4>2. access'[d] = Binding(task[c].record)
        BY <1>0, <2>2
      <4>3. access'[d].uid = access[d].uid /\ access'[d].owner = access[d].owner
        BY <3>1, <4>1, <4>2 DEF Binding
      <4>4. Carried(x)
        BY <1>0, <2>1, <2>3, <2>6, <3>1, <3>2, <4>3 DEF Carried
      <4>. QED BY <2>4, <3>2, <4>4 DEF Fate
    <3>3. CASE ~ Up(c)
      <4>1. x \notin inflight'
        BY <2>4, <3>1, <3>3 DEF Finish
      <4>2. Caused(x)
        BY <2>1, <2>3, <2>6, <3>1, <3>3 DEF Caused
      <4>. QED BY <2>4, <3>1, <3>3, <4>1, <4>2, EndedFate
    <3>. QED BY <3>2, <3>3
  <2>. QED BY <2>5, <2>6
<1>. QED BY <1>1, <1>2

LEMMA PublishRevokeFate ==
  ASSUME HubAssumption, Known, NEW c \in DeviceConn, PublishRevoke(c), NEW x \in inflight
  PROVE  Fate(x)
<1>d. PICK d \in Device : d = bindID[c]
  BY DEF Known, TypeOK, Conn
<1>0. /\ slot \in [Device -> Slot] /\ access \in [Device -> Authority] /\ clients' = clients
      /\ task[c].kind = "revoke" /\ c # Nil
  BY DEF Known, TypeOK, PublishRevoke, HubAssumption
<1>1. CASE task[c].code # "ok"
  BY <1>0, <1>1, StoppedFate DEF PublishRevoke
<1>2. CASE task[c].code = "ok"
  <2>0. SameSlot(c)
    BY <1>0, <1>d, Owning
  <2>1. /\ devices' = devices \ {d} /\ slot' = [slot EXCEPT ![d] = NoSlot] /\ access' = [access EXCEPT ![d] = NoAuthority]
        /\ Finish(RoutesOf(d)) /\ Close({c})
    BY <1>d, <1>2, <2>0 DEF PublishRevoke, FailDevice
  <2>2. CASE route[x].device # d
    <3>1. Touches(d)
      BY <1>0, <2>1 DEF Touches
    <3>. QED BY <2>1, <2>2, <3>1, Elsewhere
  <2>3. CASE route[x].device = d
    <3>1. slot[d].conn = c /\ route[x].via = c /\ x \in RoutesOf(d)
      BY <1>0, <1>d, <2>3, Owning, Flying
    <3>2. slot'[d].conn = Nil
      BY <1>0, <2>1 DEF NoSlot
    <3>3. x \notin inflight' /\ Caused(x)
      BY <1>0, <2>1, <2>3, <3>1, <3>2 DEF Finish, Caused
    <3>. QED BY <2>1, <3>1, <3>3, EndedFate
  <2>. QED BY <2>2, <2>3
<1>. QED BY <1>1, <1>2

LEMMA PublishAccessFate ==
  ASSUME HubAssumption, Known, NEW c \in DeviceConn, PublishAccess(c), NEW x \in inflight
  PROVE  Fate(x)
<1>d. PICK d \in Device : d = bindID[c]
  BY DEF Known, TypeOK, Conn
<1>0. /\ slot \in [Device -> Slot] /\ access \in [Device -> Authority] /\ devices' = devices
      /\ task[c].kind \in {"access", "status"} /\ c \in Conn /\ c # Nil /\ TypeOK /\ task[c].code \in Code
  BY DEF Known, TypeOK, PublishAccess, Conn, Task, HubAssumption
<1>s. SameSlot(c) /\ slot[d].conn \in {c, Nil} /\ SlotSoundAt(d)
  BY <1>0, <1>d, Owning
<1>1. CASE task[c].code = "rejected" \/ (task[c].code = "error" /\ task[c].kind = "status")
  <2>1. UNCHANGED <<slot, access, clients, inflight>>
    BY <1>1 DEF PublishAccess
  <2>. QED BY <1>0, <2>1, CarriedOn, Flying
<1>2. CASE task[c].code = "error" /\ task[c].kind = "access"
  <2>1. StopRouting(c) /\ access' = access /\ clients' = clients
    BY <1>2 DEF PublishAccess
  <2>. QED BY <1>0, <2>1, StoppedFate
<1>3. CASE task[c].code = "ok"
  <2>. DEFINE changed == slot[d].record.owner # task[c].record.owner
  <2>1. PICK dc \in {slot[d].conn, Nil} :
               /\ dc = IF Up(c) \/ slot[d].conn # c THEN slot[d].conn ELSE Nil
               /\ slot' = [slot EXCEPT ![d] = Edited(slot[d], task[c].record, slot[d].ready, dc)]
    BY <1>0, <1>d, <1>s, <1>3, AccessSlot
  <2>2. access' = [access EXCEPT ![d] = Binding(task[c].record)]
    BY <1>d, <1>s, <1>3 DEF PublishAccess
  <2>3. slot'[d].conn = dc /\ access'[d] = Binding(task[c].record)
    BY <1>0, <2>1, <2>2, EditedFields
  <2>4. CASE Up(c)
    <3>1. IF changed THEN InvalidateOwnership(d) ELSE UNCHANGED <<clients, inflight>>
      BY <1>d, <1>s, <1>3, <2>4 DEF PublishAccess
    <3>2. CASE route[x].device # d
      <4>1. Touches(d)
        BY <1>0, <2>1, <2>2, <3>1 DEF Touches, InvalidateOwnership
      <4>2. inflight' = inflight \/ Finish(RoutesOf(d))
        BY <3>1 DEF InvalidateOwnership
      <4>. QED BY <3>2, <4>1, <4>2, Elsewhere
    <3>3. CASE route[x].device = d
      <4>1. /\ slot[d].conn = c /\ route[x].via = c /\ d \in devices /\ route[x].client \in clients
            /\ x \in RoutesOf(d) /\ access[d] = Binding(slot[d].record)
        BY <3>3, <1>0, <1>d, Owning, Flying
      <4>2. CASE ~ changed
        <5>1. task[c].record.uid = slot[d].record.uid
          <6>1. Pending(c)
            BY <1>0 DEF Known, PendingSound
          <6>. QED BY <1>0, <1>d, <1>3, <4>1, <6>1 DEF Pending
        <5>2. access'[d].uid = access[d].uid /\ access'[d].owner = access[d].owner
          BY <2>3, <4>1, <4>2, <5>1 DEF Binding
        <5>3. Carried(x)
          BY <1>0, <2>1, <2>3, <2>4, <3>1, <3>3, <4>1, <4>2, <5>2 DEF Carried
        <5>. QED BY <3>1, <4>2, <5>3 DEF Fate
      <4>3. CASE changed
        <5>1. TellDevices(RoutesOf(d)) /\ Finish(RoutesOf(d))
          BY <3>1, <4>3 DEF InvalidateOwnership
        <5>2. x \notin inflight' /\ x \in cancelSent'
          BY <2>4, <3>3, <4>1, <5>1 DEF Finish, TellDevices
        <5>3. access'[d].owner # access[d].owner
          BY <2>3, <4>1, <4>3 DEF Binding
        <5>. QED BY <3>3, <5>2, <5>3 DEF Fate, Caused, Reached
      <4>. QED BY <4>2, <4>3
    <3>. QED BY <3>2, <3>3
  <2>5. CASE ~ Up(c)
    <3>1. \E dropped, cut :
            /\ dropped \subseteq {k \in clients : bindID[k] = d} /\ clients' = clients \ dropped
            /\ cut = (IF changed \/ slot[d].conn = c THEN RoutesOf(d) ELSE {})
            /\ Finish(cut) /\ Close(dropped \cup {c})
      BY <1>d, <1>s, <1>3, <2>5 DEF PublishAccess
    <3>2. CASE route[x].device # d
      <4>1. Touches(d)
        BY <1>0, <2>1, <2>2, <3>1 DEF Touches
      <4>2. \E S : Finish(S) /\ S \subseteq RoutesOf(d)
        BY <3>1
      <4>. QED BY <3>2, <4>1, <4>2, Elsewhere
    <3>3. CASE route[x].device = d
      <4>1. slot[d].conn = c /\ route[x].via = c /\ x \in RoutesOf(d)
        BY <3>3, <1>0, <1>d, Owning, Flying
      <4>2. x \notin inflight' /\ slot'[d].conn # route[x].via
        BY <1>0, <2>1, <2>3, <2>5, <3>1, <4>1 DEF Finish
      <4>3. Caused(x)
        BY <3>3, <4>2 DEF Caused
      <4>4. \E S : Close(S) /\ route[x].via \in S
        BY <3>1, <4>1
      <4>. QED BY <4>2, <4>3, <4>4, EndedFate
    <3>. QED BY <3>2, <3>3
  <2>. QED BY <2>4, <2>5
<1>. QED BY <1>0, <1>1, <1>2, <1>3 DEF Code

LEMMA DropDeviceFate ==
  ASSUME HubAssumption, Known, NEW c \in DeviceConn, DropDevice(c), NEW x \in inflight
  PROVE  Fate(x)
<1>d. PICK d \in Device : d = bindID[c]
  BY DEF Known, TypeOK, Conn
<1>0. /\ clients' = clients /\ devices' = devices /\ access' = access /\ c \in Conn /\ c # Nil
      /\ conn' = [conn EXCEPT ![c] = "gone"] /\ TypeOK
  BY DEF DropDevice, Conn, HubAssumption, Known
<1>1. CASE slot' = slot /\ inflight' = inflight
  BY <1>0, <1>1, CarriedOn, Flying
<1>2. CASE FailDevice(d) /\ slot[d].conn = c /\ slot' = [slot EXCEPT ![d].conn = Nil]
  <2>0. Finish(RoutesOf(d)) /\ slot'[d].conn = Nil /\ \A e \in Device \ {d} : slot'[e] = slot[e]
    BY <1>0, <1>2, DropSlot, ClearedConn DEF FailDevice, TypeOK
  <2>1. CASE route[x].device # d
    <3>1. Touches(d)
      BY <1>0, <2>0 DEF Touches
    <3>. QED BY <2>0, <2>1, <3>1, Elsewhere
  <2>2. CASE route[x].device = d
    <3>1. route[x].via = c /\ x \in RoutesOf(d)
      BY <1>2, <2>2, Flying
    <3>2. x \notin inflight' /\ Caused(x)
      BY <1>0, <2>0, <2>2, <3>1 DEF Finish, Caused
    <3>3. conn'[c] = "gone"
      BY <1>0 DEF TypeOK
    <3>. QED BY <3>1, <3>2, <3>3 DEF Fate, Reached
  <2>. QED BY <2>1, <2>2
<1>. QED BY <1>d, <1>1, <1>2 DEF DropDevice

LEMMA DeviceFate ==
  ASSUME HubAssumption, Known, NEW c \in DeviceConn, DeviceStep(c), NEW x \in inflight
  PROVE  Fate(x)
<1>1. CASE IdentityTimeout(c)
  BY <1>1, StoppedFate DEF IdentityTimeout
<1>2. CASE \/ HelloDevice(c) \/ Revoke(c) \/ \E y \in inflight : RenewRoute(c, y)
           \/ \E s \in Settings : UpdateSettings(c, s[1], s[2])
           \/ \E action \in {"owner", "access", "status"} \cap Frames : ManageAccess(c, action)
           \/ ReplyLease(c) \/ ConnFails(c)
  <2>1. UNCHANGED <<hub, routes>>
    BY <1>2 DEF HelloDevice, UpdateSettings, Revoke, RenewRoute, ManageAccess, ReplyLease, ConnFails
  <2>. QED BY <2>1, CarriedOn, Flying DEF hub, routes
<1>. QED BY <1>1, <1>2, RegisterDeviceFate, PublishSettingsFate, PublishRevokeFate, PublishAccessFate, DropDeviceFate
     DEF DeviceStep

LEMMA LostCallerFate ==
  ASSUME HubAssumption, Known, Forward, NEW c \in ClientConn, ~ Up(c), CancelClient(c), clients' = clients \ {c},
         UNCHANGED <<devices, slot, access>>, NEW x \in inflight
  PROVE  Fate(x)
<1>v. PICK v : v = route[x].via
  OBVIOUS
<1>d. PICK d : d = route[x].device
  OBVIOUS
<1>0. v \in Conn /\ v # Nil /\ slot[d].conn = v /\ conn[v] # "new" /\ route[x].client \in clients
  BY <1>v, <1>d, Flying
<1>1. CASE route[x].client = c
  <2>1. x \in RoutesFrom(c)
    BY <1>1 DEF RoutesFrom
  <2>2. x \notin inflight' /\ Caused(x)
    BY <1>1, <2>1 DEF CancelClient, Finish, Caused
  <2>3. CASE conn[v] = "up"
    BY <1>0, <1>d, <2>1, <2>2, <2>3 DEF CancelClient, TellDevices, Up, Fate, Reached
  <2>4. CASE conn[v] # "up"
    BY <1>0, <1>v, <2>2, <2>4 DEF Forward, Fate, Reached
  <2>. QED BY <2>3, <2>4
<1>2. CASE route[x].client # c
  <2>1. x \in inflight'
    BY <1>2 DEF CancelClient, Finish, RoutesFrom
  <2>. QED BY <1>0, <1>2, <2>1, CarriedOn
<1>. QED BY <1>1, <1>2

LEMMA RegisterClientFate ==
  ASSUME HubAssumption, Known, NEW c \in ClientConn, RegisterClient(c), NEW x \in inflight
  PROVE  Fate(x)
<1>d. PICK d \in Device : d = bindID[c]
  BY DEF Known, TypeOK, Conn
<1>0. /\ access \in [Device -> Authority] /\ devices' = devices /\ slot' = slot /\ inflight' = inflight
      /\ clients \subseteq clients' /\ c \in Conn /\ task[c].kind = "hello"
  BY DEF RegisterClient, Known, TypeOK, Conn, routes
<1>1. CASE access' = access
  BY <1>0, <1>1, CarriedOn, Flying
<1>2. CASE task[c].code = "ok" /\ access' = [access EXCEPT ![d] = Binding(task[c].record)]
  <2>1. CASE route[x].device # d
    <3>1. Touches(d)
      BY <1>0, <1>2 DEF Touches
    <3>. QED BY <1>0, <2>1, <3>1, Elsewhere
  <2>2. CASE route[x].device = d
    <3>1. Pending(c) /\ SlotSoundAt(d) /\ Stable(d)
      <4>1. task[c].kind \in Gated
        BY <1>0 DEF Gated
      <4>. QED BY <1>0, <1>d, <4>1, Publishing DEF Known
    <3>2. slot[d].conn # Nil
      BY <2>2, Flying
    <3>3. access'[d] = access[d]
      BY <1>0, <1>d, <1>2, <3>1, <3>2 DEF Pending, SlotSoundAt
    <3>4. access' = access
      BY <1>0, <1>2, <3>3
    <3>. QED BY <1>1, <3>4
  <2>. QED BY <2>1, <2>2
<1>. QED BY <1>d, <1>1, <1>2 DEF RegisterClient

LEMMA AdmitFate ==
  ASSUME HubAssumption, Known, NEW c \in ClientConn, Admit(c), NEW x \in inflight
  PROVE  Fate(x)
<1>d. PICK d \in Device : d = bindID[c]
  BY DEF Known, TypeOK, Conn
<1>0. clients' = clients /\ devices' = devices /\ access' = access /\ conn' = conn /\ TypeOK
  BY DEF Admit, Known
<1>1. CASE slot' = slot /\ inflight' = inflight \cup {nextRoute}
  BY <1>0, <1>1, CarriedOn, Flying
<1>2. CASE ~ Up(slot[d].conn) /\ Finish(RoutesOf(d)) /\ slot' = [slot EXCEPT ![d].conn = Nil]
  <2>0. slot'[d].conn = Nil /\ \A e \in Device \ {d} : slot'[e] = slot[e]
    BY <1>0, <1>2, DropSlot, ClearedConn DEF TypeOK
  <2>1. CASE route[x].device # d
    <3>1. Touches(d)
      BY <1>0, <2>0 DEF Touches
    <3>. QED BY <1>2, <2>1, <3>1, Elsewhere
  <2>2. CASE route[x].device = d
    <3>v. PICK v : v = route[x].via
      OBVIOUS
    <3>1. slot[d].conn = v /\ x \in RoutesOf(d) /\ v # Nil /\ v \in Conn /\ conn[v] # "new"
      BY <2>2, <3>v, Flying
    <3>2. x \notin inflight' /\ Caused(x)
      BY <1>2, <2>0, <2>2, <3>1, <3>v DEF Finish, Caused
    <3>3. conn'[v] \in {"closing", "gone"}
      BY <1>0, <1>2, <3>1 DEF Up, TypeOK
    <3>. QED BY <3>v, <3>2, <3>3 DEF Fate, Reached
  <2>. QED BY <2>1, <2>2
<1>. QED BY <1>d, <1>1, <1>2 DEF Admit

LEMMA ClientFate ==
  ASSUME HubAssumption, Known, Forward, NEW c \in ClientConn, ClientStep(c), NEW x \in inflight
  PROVE  Fate(x)
<1>1. CASE DropClient(c)
  <2>1. ~ Up(c)
    BY <1>1 DEF DropClient, Up
  <2>. QED BY <1>1, <2>1, LostCallerFate DEF DropClient
<1>2. CASE \/ HelloClient(c) \/ RejectInvoke(c) \/ ConnFails(c)
           \/ \E r \in Request, op \in Operation \cap Frames : Invoke(c, r, op)
           \/ \E r \in Request : Cancel(c, r)
  <2>1. UNCHANGED <<hub, inflight>>
    BY <1>2 DEF HelloClient, RejectInvoke, ConnFails, Invoke, Cancel, routes
  <2>. QED BY <2>1, CarriedOn, Flying DEF hub
<1>. QED BY <1>1, <1>2, RegisterClientFate, AdmitFate DEF ClientStep

LEMMA RouteFate ==
  ASSUME HubAssumption, Known, Forward, NEW y \in running, RouteStep(y), NEW x \in inflight
  PROVE  Fate(x)
<1>0. route[y].client \in ClientConn
  BY DEF Known, TypeOK, RouteRecord
<1>1. CASE DropOutput(y) \/ DropFromInbox(y)
  <2>1. UNCHANGED <<hub, inflight>>
    BY <1>1 DEF DropOutput, DropFromInbox
  <2>. QED BY <2>1, CarriedOn, Flying DEF hub
<1>2. CASE OutputToClosedCaller(y)
  BY <1>0, <1>2, LostCallerFate DEF OutputToClosedCaller, DropCaller
<1>3. ASSUME NEW kind, Terminal(y, kind) PROVE Fate(x)
  <2>0. UNCHANGED <<devices, slot, access>> /\ running' = running \ {y}
    BY <1>3 DEF Terminal
  <2>1. CASE ~ Routed(y)
    <3>1. UNCHANGED <<clients, inflight>>
      BY <1>3, <2>1 DEF Terminal
    <3>. QED BY <2>0, <3>1, CarriedOn, Flying
  <2>2. CASE Routed(y) /\ Up(route[y].client)
    <3>1. clients' = clients /\ Finish({y})
      BY <1>3, <2>2 DEF Terminal
    <3>2. CASE x = y
      BY <2>0, <3>1, <3>2 DEF Fate, Finish, Caused
    <3>3. CASE x # y
      BY <2>0, <3>1, <3>3, CarriedOn, Flying DEF Finish
    <3>. QED BY <3>2, <3>3
  <2>3. CASE Routed(y) /\ ~ Up(route[y].client)
    <3>1. DropCaller(route[y].client)
      BY <1>3, <2>3 DEF Terminal
    <3>. QED BY <1>0, <2>0, <2>3, <3>1, LostCallerFate DEF DropCaller
  <2>. QED BY <2>1, <2>2, <2>3
<1>. QED BY <1>1, <1>2, <1>3 DEF RouteStep

LEMMA StepFate == ASSUME HubAssumption, Known, Next, NEW x \in inflight PROVE Fate(x)
<1>1. Forward
  BY StepForward DEF Known
<1>2. CASE Exhausted
  BY <1>2, CarriedOn, Flying DEF Exhausted, vars, hub, routes
<1>. QED BY <1>1, <1>2, DeviceFate, ClientFate, RouteFate DEF Next

(* What becomes of the routes of the next state. *)
LEMMA NextFlights ==
  ASSUME HubAssumption, Known, Next, NEW x \in inflight'
  PROVE  \/ /\ x \in inflight /\ Carried(x) /\ x \in DOMAIN route /\ Marked(route[x], route'[x])
         \/ /\ x = nextRoute /\ inflight' = inflight \cup {x} /\ running' = running \cup {x}
            /\ \E c \in ClientConn : Admit(c) /\ Up(slot[bindID[c]].conn)
<1>0. inflight \subseteq DOMAIN route /\ TypeOK /\ RoutesConsistent
  BY DEF Known, TypeOK
<1>1. CASE x \in inflight
  <2>1. Carried(x)
    BY <1>1, StepFate DEF Fate
  <2>2. OldKept
    <3>1. ASSUME NEW c \in ClientConn, Admit(c) PROVE OldKept
      <4>1. task[c].request \in Request
        BY <3>1 DEF Known, GateHeld, Admit, Conn
      <4>. QED BY <1>0, <3>1, <4>1, AdmitKeepsOld
    <3>. QED BY <1>0, <3>1, StepRoutes DEF RoutesSettle, RecordsKept
  <2>. QED BY <1>0, <1>1, <2>1, <2>2 DEF OldKept
<1>2. CASE x \notin inflight
  <2>1. PICK c \in ClientConn : Admit(c)
    BY <1>0, <1>2, StepRoutes DEF RoutesSettle, Settles, Finish
  <2>2. Up(slot[bindID[c]].conn)
    BY <1>2, <2>1 DEF Admit, Finish
  <2>. QED BY <1>2, <2>1, <2>2 DEF Admit
<1>. QED BY <1>1, <1>2

LEMMA RoutesCurrentStep == ASSUME HubAssumption, Known, Next PROVE RoutesCurrent'
<1>1. ASSUME NEW x \in inflight'
      PROVE  /\ route'[x].client \in clients' /\ route'[x].device \in devices'
             /\ slot'[route'[x].device].conn = route'[x].via
             /\ route'[x].binding.uid = access'[route'[x].device].uid
             /\ route'[x].binding.owner = access'[route'[x].device].owner
  <2>1. CASE x \in inflight /\ Carried(x) /\ Marked(route[x], route'[x])
    BY <2>1 DEF Known, RoutesCurrent, RouteEndsRegistered, OwnershipCurrent, Carried, Marked
  <2>2. ASSUME x = nextRoute, NEW c \in ClientConn, Admit(c), Up(slot[bindID[c]].conn)
        PROVE  /\ route'[x].client \in clients' /\ route'[x].device \in devices'
               /\ slot'[route'[x].device].conn = route'[x].via
               /\ route'[x].binding.uid = access'[route'[x].device].uid
               /\ route'[x].binding.owner = access'[route'[x].device].owner
    <3>1. task[c].request \in Request
      BY <2>2 DEF Known, GateHeld, Admit, Conn
    <3>2. route'[x] = NewRecord(c)
      BY <2>2, <3>1, AdmitRecord DEF Known
    <3>3. /\ NewRecord(c).client = c /\ NewRecord(c).device = bindID[c] /\ NewRecord(c).via = slot[bindID[c]].conn
          /\ NewRecord(c).binding = client[c]
      BY DEF NewRecord
    <3>4. UNCHANGED <<clients, devices, slot, access>> /\ c \in clients /\ bindID[c] \in devices /\ client[c] = access[bindID[c]]
      BY <2>2 DEF Admit, Admissible, Matches
    <3>. QED BY <3>2, <3>3, <3>4
  <2>. QED BY <1>1, <2>1, <2>2, NextFlights
<1>. QED BY <1>1 DEF RoutesCurrent, RouteEndsRegistered, OwnershipCurrent

(* Who runs an invocation, and what is told to it. *)
LEMMA StepRuns ==
  ASSUME HubAssumption, TypeOK, Next
  PROVE  /\ cancelSent \subseteq cancelSent' /\ confirmed \subseteq confirmed'
         /\ \/ running' \subseteq running
            \/ \E c \in ClientConn : Admit(c) /\ Up(slot[bindID[c]].conn) /\ running' = running \cup {nextRoute}
                                     /\ nextRoute \in inflight'
<1>1. ASSUME NEW c \in DeviceConn, DeviceStep(c)
      PROVE  cancelSent \subseteq cancelSent' /\ confirmed \subseteq confirmed' /\ running' = running
  <2>1. CASE PublishSettings(c) \/ PublishRevoke(c) \/ PublishAccess(c) \/ RegisterDevice(c)
    BY <2>1 DEF PublishSettings, PublishRevoke, PublishAccess, RegisterDevice, InvalidateOwnership, TellDevices
  <2>2. CASE IdentityTimeout(c) \/ DropDevice(c) \/ ConnFails(c) \/ ReplyLease(c) \/ HelloDevice(c) \/ Revoke(c)
    BY <2>2 DEF IdentityTimeout, DropDevice, ConnFails, ReplyLease, HelloDevice, Revoke, Unseen, seen
  <2>3. CASE \/ \E x \in inflight : RenewRoute(c, x)
             \/ \E s \in Settings : UpdateSettings(c, s[1], s[2])
             \/ \E action \in {"owner", "access", "status"} \cap Frames : ManageAccess(c, action)
    BY <2>3 DEF RenewRoute, UpdateSettings, ManageAccess, Unseen, seen
  <2>. QED BY <1>1, <2>1, <2>2, <2>3 DEF DeviceStep
<1>2. ASSUME NEW c \in ClientConn, Admit(c)
      PROVE  /\ cancelSent' = cancelSent /\ confirmed' = confirmed
             /\ running' = running \/ (running' = running \cup {nextRoute} /\ Up(slot[bindID[c]].conn) /\ nextRoute \in inflight')
  BY <1>2 DEF Admit
<1>3. ASSUME NEW c \in ClientConn, ClientStep(c), ~ Admit(c)
      PROVE  cancelSent \subseteq cancelSent' /\ confirmed' = confirmed /\ running' = running
  BY <1>3 DEF ClientStep, HelloClient, RegisterClient, RejectInvoke, ConnFails, Invoke, Cancel, DropClient, CancelClient,
              TellDevices, seen
<1>4. ASSUME NEW x \in running, RouteStep(x)
      PROVE  cancelSent \subseteq cancelSent' /\ confirmed' = confirmed /\ running' \subseteq running
  BY <1>4 DEF RouteStep, DropOutput, OutputToClosedCaller, DropFromInbox, Terminal, DropCaller, CancelClient, TellDevices
<1>5. CASE Exhausted
  BY <1>5 DEF Exhausted, vars, seen
<1>. QED BY <1>1, <1>2, <1>3, <1>4, <1>5 DEF Next

LEMMA DeviceInStepStep == ASSUME HubAssumption, Known, DeviceInStep, Next PROVE DeviceInStep'
<1>0. TypeOK /\ Forward /\ inflight \subseteq DOMAIN route /\ running \subseteq DOMAIN route /\ Greeted
  BY StepForward DEF Known, TypeOK
<1>k. OldKept
  <2>1. ASSUME NEW c \in ClientConn, Admit(c) PROVE OldKept
    <3>1. task[c].request \in Request
      BY <2>1 DEF Known, GateHeld, Admit, Conn
    <3>. QED BY <1>0, <2>1, <3>1, AdmitKeepsOld
  <2>. QED BY <2>1, StepRoutes DEF Known, RoutesSettle, RecordsKept
<1>1. ASSUME NEW x \in running', x \notin inflight'
      PROVE  x \in cancelSent' \/ conn'[route'[x].via] \in {"closing", "gone"}
  <2>1. x \in running
    BY <1>0, <1>1, StepRuns
  <2>2. x \in DOMAIN route /\ route'[x].via = route[x].via /\ route[x].via \in Conn
    BY <1>0, <1>k, <2>1 DEF OldKept, Marked, TypeOK, RouteRecord, Conn
  <2>3. CASE x \in inflight
    BY <1>1, <2>2, <2>3, StepFate DEF Fate, Reached
  <2>4. CASE x \notin inflight
    <3>1. x \in cancelSent \/ conn[route[x].via] \in {"closing", "gone"}
      BY <2>1, <2>4 DEF DeviceInStep, NoOrphanOnDevice
    <3>. QED BY <1>0, <2>2, <3>1, StepRuns DEF Forward
  <2>. QED BY <2>3, <2>4
<1>2. ASSUME NEW x \in DOMAIN route', x \in running' \/ x \in inflight' PROVE route'[x].via \in confirmed'
  <2>1. CASE x \in running \/ x \in inflight
    <3>1. x \in DOMAIN route /\ route'[x].via = route[x].via
      BY <1>0, <1>k, <2>1 DEF OldKept, Marked
    <3>2. route[x].via \in confirmed
      BY <2>1, <3>1 DEF DeviceInStep, InvokeAfterConfirmation
    <3>. QED BY <1>0, <3>1, <3>2, StepRuns
  <2>2. ASSUME NEW c \in ClientConn, Admit(c), x = nextRoute PROVE route'[x].via \in confirmed'
    <3>1. task[c].request \in Request /\ bindID[c] \in Device
      BY <1>0, <2>2 DEF Known, GateHeld, Admit, Conn, TypeOK
    <3>2. route'[x].via = slot[bindID[c]].conn
      <4>1. route'[x] = NewRecord(c)
        BY <1>0, <2>2, <3>1, AdmitRecord
      <4>2. NewRecord(c).via = slot[bindID[c]].conn
        BY DEF NewRecord
      <4>. QED BY <4>1, <4>2
    <3>3. slot[bindID[c]].conn \in confirmed
      BY <2>2, <3>1 DEF Admit, Admissible, Known, SlotSound, SlotSoundAt
    <3>. QED BY <1>0, <3>2, <3>3, StepRuns
  <2>3. CASE x \notin running /\ x \notin inflight
    <3>1. \E c \in ClientConn : Admit(c) /\ x = nextRoute
      BY <1>0, <1>2, <2>3, StepRuns, NextFlights
    <3>. QED BY <2>2, <3>1
  <2>. QED BY <2>1, <2>3
<1>. QED BY <1>1, <1>2 DEF DeviceInStep, NoOrphanOnDevice, InvokeAfterConfirmation
-----------------------------------------------------------------------------
(* Output that the Relay dropped, and what the exit frame says of it. *)

OutputKept ==
  /\ lost' = lost /\ exit' = exit
  /\ \A x \in DOMAIN route : x \in DOMAIN route' /\ route'[x].trunc = route[x].trunc

OutputLost(x) ==
  /\ lost' = lost \cup {x} /\ exit' = exit
  /\ \A y \in DOMAIN route : y \in DOMAIN route' /\ (y # x => route'[y].trunc = route[y].trunc)
  /\ x \in inflight => route'[x].trunc

OutputEnds(x) ==
  /\ lost' = lost /\ route' = route /\ running' = running \ {x} /\ x \in inflight /\ x \notin inflight'
  /\ \E e \in {"none", "complete", "truncated"} :
       /\ exit' = [exit EXCEPT ![x] = e]
       /\ e \in {"none", exit[x], IF route[x].trunc THEN "truncated" ELSE "complete"}

LEMMA Trunc ==
  ASSUME NEW r \in RouteRecord
  PROVE  [r EXCEPT !.cancelled = TRUE].trunc = r.trunc /\ [r EXCEPT !.trunc = TRUE].trunc
BY DEF RouteRecord

LEMMA SameRoutes == ASSUME lost' = lost, exit' = exit, route' = route PROVE OutputKept
BY DEF OutputKept

LEMMA DeviceOutput == ASSUME TypeOK, NEW c \in DeviceConn, DeviceStep(c) PROVE OutputKept
<1>1. CASE PublishSettings(c)
  <2>1. lost' = lost /\ exit' = exit
    BY <1>1 DEF PublishSettings
  <2>2. CASE route' = route
    BY <2>1, <2>2, SameRoutes
  <2>3. ASSUME NEW closed, route' =
                   [x \in DOMAIN route |-> IF x \in closed THEN [route[x] EXCEPT !.cancelled = TRUE] ELSE route[x]]
        PROVE  OutputKept
    <3>1. \A x \in DOMAIN route : route[x] \in RouteRecord
      BY DEF TypeOK
    <3>. QED BY <2>1, <2>3, <3>1, Trunc DEF OutputKept
  <2>. QED BY <1>1, <2>2, <2>3 DEF PublishSettings
<1>2. CASE PublishRevoke(c) \/ PublishAccess(c) \/ RegisterDevice(c) \/ IdentityTimeout(c) \/ DropDevice(c)
  BY <1>2, SameRoutes DEF PublishRevoke, PublishAccess, RegisterDevice, IdentityTimeout, DropDevice
<1>3. CASE ConnFails(c) \/ ReplyLease(c) \/ HelloDevice(c) \/ Revoke(c)
  BY <1>3, SameRoutes DEF ConnFails, ReplyLease, HelloDevice, Revoke, Unseen, seen, routes
<1>4. CASE \/ \E x \in inflight : RenewRoute(c, x)
           \/ \E s \in Settings : UpdateSettings(c, s[1], s[2])
           \/ \E action \in {"owner", "access", "status"} \cap Frames : ManageAccess(c, action)
  BY <1>4, SameRoutes DEF RenewRoute, UpdateSettings, ManageAccess, Unseen, seen, routes
<1>. QED BY <1>1, <1>2, <1>3, <1>4 DEF DeviceStep

LEMMA ClientOutput ==
  ASSUME HubAssumption, TypeOK, GateHeld, RoutesConsistent, NEW c \in ClientConn, ClientStep(c)
  PROVE  OutputKept
<1>1. CASE Admit(c)
  <2>1. task[c].request \in Request
    BY <1>1 DEF GateHeld, Admit, Conn
  <2>2. \A x \in DOMAIN route : x \in DOMAIN route' /\ route'[x] = route[x]
    BY <1>1, <2>1, AdmitRecord
  <2>. QED BY <1>1, <2>2 DEF Admit, OutputKept
<1>2. ASSUME NEW r \in Request, Cancel(c, r) PROVE OutputKept
  <2>1. \A x \in DOMAIN route : route[x] \in RouteRecord
    BY DEF TypeOK
  <2>2. route' = [route EXCEPT ![requests[<<c, r>>]].cancelled = TRUE] /\ lost' = lost /\ exit' = exit
    BY <1>2 DEF Cancel
  <2>3. \A x \in DOMAIN route : x \in DOMAIN route' /\ route'[x] \in {route[x], [route[x] EXCEPT !.cancelled = TRUE]}
    BY <2>2
  <2>. QED BY <2>1, <2>2, <2>3, Trunc DEF OutputKept
<1>3. CASE \/ HelloClient(c) \/ RegisterClient(c) \/ RejectInvoke(c) \/ ConnFails(c) \/ DropClient(c)
           \/ \E r \in Request, op \in Operation \cap Frames : Invoke(c, r, op)
  BY <1>3, SameRoutes DEF HelloClient, RegisterClient, RejectInvoke, ConnFails, Invoke, DropClient, seen, routes
<1>. QED BY <1>1, <1>2, <1>3 DEF ClientStep

LEMMA RouteOutput ==
  ASSUME HubAssumption, Known, NEW x \in running, RouteStep(x)
  PROVE  OutputKept \/ OutputLost(x) \/ OutputEnds(x)
<1>0. /\ TypeOK /\ x \in DOMAIN route /\ exit \in [Route -> {"none", "complete", "truncated"}] /\ x \in Route
      /\ \A y \in DOMAIN route : route[y] \in RouteRecord
  <2>1. TypeOK
    BY DEF Known
  <2>2. \A y \in 1..(nextRoute - 1) : y \in Route
    BY <2>1 DEF TypeOK, Route, HubAssumption
  <2>. QED BY <2>1, <2>2 DEF TypeOK
<1>1. CASE DropOutput(x) \/ DropFromInbox(x)
  <2>1. lost' = lost \cup {x} /\ exit' = exit
    BY <1>1 DEF DropOutput, DropFromInbox
  <2>2. CASE Truncate(x)
    <3>1. DOMAIN route' = DOMAIN route /\ route'[x] = [route[x] EXCEPT !.trunc = TRUE]
          /\ \A y \in DOMAIN route : y # x => route'[y] = route[y]
      BY <1>0, <2>2 DEF Truncate
    <3>. QED BY <1>0, <2>1, <3>1, Trunc DEF OutputLost
  <2>3. CASE route' = route /\ ~ Routed(x)
    <3>1. x \notin inflight
      BY <2>3, Flying DEF Routed
    <3>. QED BY <2>1, <2>3, <3>1 DEF OutputLost
  <2>. QED BY <1>1, <2>2, <2>3 DEF DropOutput, DropFromInbox
<1>2. CASE OutputToClosedCaller(x)
  BY <1>2, SameRoutes DEF OutputToClosedCaller
<1>3. ASSUME NEW kind, Terminal(x, kind) PROVE OutputKept \/ OutputEnds(x)
  <2>1. lost' = lost /\ route' = route /\ running' = running \ {x}
    BY <1>3 DEF Terminal
  <2>2. CASE exit' = exit
    BY <2>1, <2>2, SameRoutes
  <2>3. CASE Finish({x}) /\ Routed(x) /\ exit' = [exit EXCEPT ![x] = IF route[x].trunc THEN "truncated" ELSE "complete"]
    BY <1>0, <2>1, <2>3 DEF OutputEnds, Finish, Routed
  <2>. QED BY <1>3, <2>2, <2>3 DEF Terminal
<1>. QED BY <1>1, <1>2, <1>3 DEF RouteStep

LEMMA StepOutput == ASSUME HubAssumption, Known, Next PROVE OutputKept \/ \E x \in running : OutputLost(x) \/ OutputEnds(x)
<1>1. CASE Exhausted
  BY <1>1, SameRoutes DEF Exhausted, vars, seen, routes
<1>. QED BY <1>1, DeviceOutput, ClientOutput, RouteOutput DEF Next, Known

LEMMA OutputStep == ASSUME HubAssumption, Known, OutputSound, Next PROVE OutputSound'
<1>0. /\ TypeOK /\ running \subseteq DOMAIN route /\ lost \subseteq DOMAIN route /\ nextRoute \notin DOMAIN route
      /\ exit \in [Route -> {"none", "complete", "truncated"}] /\ inflight \subseteq DOMAIN route
  BY DEF Known, TypeOK, HubAssumption
<1>1. \A y \in inflight' : y \in inflight \/ (y = nextRoute /\ ~ route'[y].trunc)
  <2>1. ASSUME NEW c \in ClientConn, Admit(c) PROVE ~ route'[nextRoute].trunc
    <3>1. task[c].request \in Request
      BY <2>1 DEF Known, GateHeld, Admit, Conn
    <3>2. route'[nextRoute] = NewRecord(c)
      BY <1>0, <2>1, <3>1, AdmitRecord
    <3>3. NewRecord(c).trunc = FALSE
      BY DEF NewRecord
    <3>. QED BY <3>2, <3>3
  <2>. QED BY <2>1, NextFlights
<1>2. \A y \in DOMAIN route : y \notin running /\ y \notin inflight => y \notin running' /\ y \notin inflight'
  BY <1>0, <1>1, StepRuns
<1>3. CASE OutputKept
  BY <1>0, <1>1, <1>2, <1>3 DEF OutputSound, OutputKept
<1>4. ASSUME NEW x \in running, OutputLost(x) PROVE OutputSound'
  <2>1. \A y \in inflight' : y \in lost' <=> route'[y].trunc
    BY <1>0, <1>1, <1>4 DEF OutputSound, OutputLost
  <2>2. \A y \in Route : exit'[y] # "none" => y # x /\ y \in DOMAIN route' /\ y \notin running' /\ y \notin inflight'
    BY <1>0, <1>2, <1>4 DEF OutputSound, OutputLost
  <2>. QED BY <1>4, <2>1, <2>2 DEF OutputSound, OutputLost
<1>5. ASSUME NEW x \in running, OutputEnds(x) PROVE OutputSound'
  <2>1. PICK e \in {"none", "complete", "truncated"} :
           /\ exit' = [exit EXCEPT ![x] = e]
           /\ e \in {"none", exit[x], IF route[x].trunc THEN "truncated" ELSE "complete"}
    BY <1>5 DEF OutputEnds
  <2>2. (x \in lost <=> route[x].trunc) /\ x \in inflight /\ x \notin inflight' /\ x \notin running' /\ route' = route /\ lost' = lost
    BY <1>5 DEF OutputEnds, OutputSound
  <2>3. \A y \in Route : exit'[y] = IF y = x THEN e ELSE exit[y]
    BY <1>0, <2>1
  <2>4. \A y \in inflight' : y \in lost' <=> route'[y].trunc
    BY <1>0, <1>1, <2>2 DEF OutputSound
  <2>5. \A y \in Route : exit'[y] # "none" => y \in DOMAIN route' /\ y \notin running' /\ y \notin inflight'
    BY <1>0, <1>2, <2>2, <2>3 DEF OutputSound
  <2>6. \A y \in Route : (exit'[y] = "complete" => y \notin lost') /\ (exit'[y] = "truncated" => y \in lost')
    BY <1>0, <2>1, <2>2, <2>3 DEF OutputSound
  <2>. QED BY <2>4, <2>5, <2>6 DEF OutputSound
<1>. QED BY <1>3, <1>4, <1>5, StepOutput
-----------------------------------------------------------------------------
(* Executions that were in flight when inbound was switched off. *)

(* The handler that switched inbound off has not published it yet. *)
Ending(x) ==
  LET d == route[x].device
      t == task[gate[d]]
  IN  /\ gate[d] # Nil /\ t.kind \in {"settings", "revoke"} /\ t.code # "rejected"
      /\ t.kind = "settings" /\ t.code = "ok" => slot[d].record.inbound /\ ~ t.record.inbound

(* The handler of c makes its call. *)
Calls(c) ==
  /\ TakeGate(c) /\ task[c].kind = "idle" /\ UNCHANGED hub
  /\ \E t : task' = [task EXCEPT ![c] = t]

LEMMA WaitCalls ==
  ASSUME NEW c, NEW t, TakeGate(c), task[c].kind = "idle", UNCHANGED hub, Wait(c, t) PROVE Calls(c)
BY DEF Calls, Wait

LEMMA TransactCalls ==
  ASSUME NEW c, NEW k, NEW r, TakeGate(c), task[c].kind = "idle", UNCHANGED hub, Transact(c, k, r) PROVE Calls(c)
BY DEF Calls, Transact, Wait

LEMMA DeviceCalls ==
  ASSUME TypeOK, GateHeld, NEW c \in DeviceConn,
         \/ HelloDevice(c) \/ Revoke(c) \/ \E x \in inflight : RenewRoute(c, x)
         \/ \E s \in Settings : UpdateSettings(c, s[1], s[2])
         \/ \E action \in {"owner", "access", "status"} : ManageAccess(c, action)
  PROVE  Calls(c)
<1>1. CASE HelloDevice(c)
  <2>1. task[c].kind = "idle"
    BY <1>1 DEF HelloDevice, GateHeld, Conn
  <2>. QED BY <1>1, <2>1, TransactCalls DEF HelloDevice
<1>2. CASE Revoke(c)
  BY <1>2, TransactCalls DEF Revoke, OwnsSlot, IdleUp
<1>3. ASSUME NEW x \in inflight, RenewRoute(c, x) PROVE Calls(c)
  BY <1>3, WaitCalls DEF RenewRoute, IdleUp
<1>4. ASSUME NEW s \in Settings, UpdateSettings(c, s[1], s[2]) PROVE Calls(c)
  BY <1>4, TransactCalls, WaitCalls DEF UpdateSettings, OwnsSlot, IdleUp
<1>5. ASSUME NEW action, ManageAccess(c, action) PROVE Calls(c)
  BY <1>5, TransactCalls, WaitCalls DEF ManageAccess, OwnsSlot, IdleUp
<1>. QED BY <1>1, <1>2, <1>3, <1>4, <1>5

LEMMA ClientCalls ==
  ASSUME TypeOK, GateHeld, NEW c \in ClientConn, HelloClient(c) PROVE Calls(c)
<1>1. task[c].kind = "idle"
  BY DEF HelloClient, GateHeld, Conn
<1>. QED BY <1>1, WaitCalls DEF HelloClient

LEMMA EndingStays ==
  ASSUME NEW x, Ending(x), NEW d, d = route[x].device, d = route'[x].device, gate'[d] = gate[d],
         task'[gate[d]] = task[gate[d]], slot'[d].record = slot[d].record
  PROVE  Ending(x)'
BY DEF Ending

(* A handler publishes about another device. *)
LEMMA OtherPublishes ==
  ASSUME HubAssumption, TypeOK, GateHeld, Greeted, NEW c \in Conn, NEW d \in Device, d # bindID[c],
         \/ c \in DeviceConn /\ (RegisterDevice(c) \/ PublishSettings(c) \/ PublishRevoke(c) \/ PublishAccess(c) \/ ReplyLease(c))
         \/ c \in ClientConn /\ RegisterClient(c)
  PROVE  gate'[d] = gate[d] /\ (gate[d] # Nil => task'[gate[d]] = task[gate[d]]) /\ slot'[d].record = slot[d].record
<1>1. Stops(c)
  <2>1. Done(c) /\ FreeGate(c) /\ task[c].kind \in Gated
    BY DEF RegisterDevice, PublishSettings, PublishRevoke, PublishAccess, ReplyLease, RegisterClient, Gated
  <2>. QED BY <2>1, Stopping
<1>2. gate'[d] = gate[d] /\ (gate[d] # Nil => task'[gate[d]] = task[gate[d]])
  BY <1>1, OtherGates
<1>3. slot'[d].record = slot[d].record
  <2>0. slot \in [Device -> Slot]
    BY DEF TypeOK
  <2>1. ASSUME StopRouting(c) PROVE slot'[d].record = slot[d].record
    BY <2>1, StopSlots, ClearedConn
  <2>2. CASE slot' = slot
    BY <2>2
  <2>3. ASSUME NEW s, slot' = [slot EXCEPT ![bindID[c]] = s] PROVE slot'[d].record = slot[d].record
    BY <2>0, <2>3
  <2>4. CASE c \in DeviceConn /\ RegisterDevice(c)
    BY <2>2, <2>3, <2>4 DEF RegisterDevice
  <2>5. CASE c \in DeviceConn /\ PublishSettings(c)
    <3>1. CASE task[c].code = "ok" /\ SameSlot(c)
      BY <2>3, <2>5, <3>1, SettingsSlot
    <3>. QED BY <2>1, <2>2, <2>5, <3>1 DEF PublishSettings
  <2>6. CASE c \in DeviceConn /\ PublishRevoke(c)
    BY <2>1, <2>2, <2>3, <2>6 DEF PublishRevoke
  <2>7. CASE c \in DeviceConn /\ PublishAccess(c)
    <3>1. CASE task[c].code = "ok" /\ SameSlot(c)
      BY <2>3, <2>7, <3>1, AccessSlot
    <3>. QED BY <2>1, <2>2, <2>7, <3>1 DEF PublishAccess
  <2>8. CASE ReplyLease(c) \/ RegisterClient(c)
    BY <2>8 DEF ReplyLease, RegisterClient, hub
  <2>. QED BY <2>4, <2>5, <2>6, <2>7, <2>8
<1>. QED BY <1>2, <1>3

(* The handler publishes that inbound is off: it ends the route or cancels it. *)
LEMMA EndingPublished ==
  ASSUME HubAssumption, Known, NEW x \in inflight, x \in inflight', route[x].operation = "exec", Ending(x),
         NEW c \in DeviceConn, c = gate[route[x].device], PublishSettings(c) \/ PublishRevoke(c)
  PROVE  route'[x].cancelled
<1>d. PICK d \in Device : d = route[x].device
  BY Flying
<1>0. /\ TypeOK /\ d = bindID[c] /\ c \in Conn /\ task[c].kind \in {"settings", "revoke"} /\ c # Nil
      /\ x \in RoutesOf(d) /\ x \in DOMAIN route /\ route[x] \in RouteRecord
  <2>1. TypeOK /\ c \in Conn /\ c # Nil /\ x \in RoutesOf(d)
    BY <1>d, Flying DEF Known, Conn, HubAssumption
  <2>2. d = bindID[c]
    BY <1>d, <2>1 DEF Known, GateHeld
  <2>. QED BY <2>1, <2>2, Flying DEF PublishSettings, PublishRevoke, TypeOK
<1>1. SameSlot(c) /\ slot[d].conn = c
  <2>1. /\ SameSlot(c)
        /\ \A y \in inflight : route[y].device = d => slot[d].conn = c
    BY <1>0, Owning
  <2>. QED BY <1>d, <2>1
<1>2. ASSUME StopRouting(c) PROVE FALSE
  <2>1. x \notin inflight'
    BY <1>0, <1>1, <1>2, <1>d, Flying DEF StopRouting, Finish
  <2>. QED BY <2>1
<1>3. CASE PublishRevoke(c)
  <2>1. Finish(RoutesOf(d))
    BY <1>0, <1>1, <1>2, <1>3 DEF PublishRevoke, FailDevice
  <2>. QED BY <1>0, <2>1 DEF Finish
<1>4. CASE PublishSettings(c)
  <2>1. task[c].code = "ok" /\ task[c].kind = "settings"
    BY <1>2, <1>4 DEF PublishSettings
  <2>2. Up(c)
    <3>1. ASSUME ~ Up(c) PROVE FALSE
      <4>1. Finish(RoutesOf(d))
        BY <1>0, <1>1, <1>4, <2>1, <3>1 DEF PublishSettings
      <4>. QED BY <1>0, <4>1 DEF Finish
    <3>. QED BY <3>1
  <2>3. slot[d].record.inbound /\ ~ task[c].record.inbound
    BY <1>d, <2>1 DEF Ending
  <2>4. route' = [y \in DOMAIN route |->
                    IF y \in {z \in RoutesOf(d) : slot[d].record.inbound /\ ~ task[c].record.inbound /\ route[z].operation = "exec"}
                    THEN [route[y] EXCEPT !.cancelled = TRUE] ELSE route[y]]
    BY <1>0, <1>1, <1>4, <2>1 DEF PublishSettings
  <2>5. route'[x] = [route[x] EXCEPT !.cancelled = TRUE]
    BY <1>0, <2>3, <2>4
  <2>. QED BY <1>0, <2>5 DEF RouteRecord
<1>. QED BY <1>3, <1>4

LEMMA EndingKept ==
  ASSUME HubAssumption, Known, Next, NEW x \in inflight, x \in inflight', route[x].operation = "exec", Ending(x)
  PROVE  route'[x].cancelled \/ Ending(x)'
<1>d. PICK d \in Device : d = route[x].device /\ d = route'[x].device
  <2>1. nextRoute \notin inflight
    BY DEF Known, TypeOK, HubAssumption
  <2>2. Marked(route[x], route'[x])
    BY <2>1, NextFlights
  <2>. QED BY <2>2, Flying DEF Marked
<1>k. PICK k \in DeviceConn : k = gate[d] /\ k \in Conn /\ k # Nil /\ bindID[k] = d /\ task[k].kind \in {"settings", "revoke"}
  <2>1. gate[d] \in Conn /\ gate[d] # Nil /\ bindID[gate[d]] = d /\ task[gate[d]].kind \in {"settings", "revoke"}
    BY <1>d DEF Ending, Known, GateHeld, TypeOK
  <2>2. gate[d] \notin ClientConn
    BY <2>1 DEF Known, GateHeld
  <2>. QED BY <2>1, <2>2 DEF Conn
<1>0. TypeOK /\ GateHeld /\ Greeted
  BY DEF Known
<1>1. ASSUME gate'[d] = gate[d], task'[k] = task[k], slot'[d].record = slot[d].record PROVE Ending(x)'
  BY <1>d, <1>k, <1>1, EndingStays
<1>2. ASSUME Undisturbed(d) PROVE Ending(x)'
  BY <1>k, <1>1, <1>2, ClearedConn DEF Undisturbed
<1>3. ASSUME NEW c \in Conn, Calls(c) PROVE Ending(x)'
  <2>1. bindID[c] # d /\ c # k /\ bindID[c] \in Device
    BY <1>0, <1>k, <1>3 DEF Calls, TakeGate, TypeOK
  <2>2. gate'[d] = gate[d] /\ task'[k] = task[k]
    BY <1>0, <1>k, <1>3, <2>1 DEF Calls, TakeGate, TypeOK
  <2>. QED BY <1>1, <1>3, <2>2 DEF Calls, hub
<1>4. ASSUME NEW c \in Conn, bindID[c] # d,
             \/ c \in DeviceConn /\ (RegisterDevice(c) \/ PublishSettings(c) \/ PublishRevoke(c) \/ PublishAccess(c) \/ ReplyLease(c))
             \/ c \in ClientConn /\ RegisterClient(c)
      PROVE  Ending(x)'
  BY <1>0, <1>1, <1>k, <1>4, OtherPublishes
<1>5. ASSUME NEW c \in Conn, task[c].kind \in Gated, bindID[c] = d PROVE c = k
  BY <1>0, <1>k, <1>5 DEF GateHeld
<1>6. ASSUME NEW c \in DeviceConn, DeviceStep(c) PROVE route'[x].cancelled \/ Ending(x)'
  <2>0. c \in Conn
    BY DEF Conn
  <2>1. CASE IdentityTimeout(c) \/ ConnFails(c) \/ DropDevice(c)
    BY <1>0, <1>2, <2>1, QuietDevice
  <2>2. CASE \/ HelloDevice(c) \/ Revoke(c) \/ \E y \in inflight : RenewRoute(c, y)
             \/ \E s \in Settings : UpdateSettings(c, s[1], s[2])
             \/ \E action \in {"owner", "access", "status"} : ManageAccess(c, action)
    BY <1>0, <1>3, <2>0, <2>2, DeviceCalls
  <2>3. CASE RegisterDevice(c) \/ PublishSettings(c) \/ PublishRevoke(c) \/ PublishAccess(c) \/ ReplyLease(c)
    <3>1. CASE bindID[c] # d
      BY <1>4, <2>0, <2>3, <3>1
    <3>2. CASE bindID[c] = d
      <4>1. task[c].kind \in Gated
        BY <2>3 DEF RegisterDevice, PublishSettings, PublishRevoke, PublishAccess, ReplyLease, Gated
      <4>2. c = k
        BY <1>5, <2>0, <3>2, <4>1
      <4>3. PublishSettings(c) \/ PublishRevoke(c)
        BY <1>k, <2>3, <4>2 DEF RegisterDevice, PublishAccess, ReplyLease
      <4>. QED BY <1>d, <1>k, <4>2, <4>3, EndingPublished
    <3>. QED BY <3>1, <3>2
  <2>. QED BY <1>6, <2>1, <2>2, <2>3 DEF DeviceStep
<1>7. ASSUME NEW c \in ClientConn, ClientStep(c) PROVE Ending(x)'
  <2>0. c \in Conn /\ c # k
    BY <1>k DEF Conn, HubAssumption
  <2>1. CASE \/ Admit(c) \/ RejectInvoke(c) \/ ConnFails(c) \/ DropClient(c)
             \/ \E r \in Request, op \in Operation : Invoke(c, r, op)
             \/ \E r \in Request : Cancel(c, r)
    BY <1>0, <1>2, <2>1, QuietClient
  <2>2. CASE HelloClient(c)
    BY <1>0, <1>3, <2>0, <2>2, ClientCalls
  <2>3. CASE RegisterClient(c)
    <3>1. task[c].kind \in Gated
      BY <2>3 DEF RegisterClient, Gated
    <3>. QED BY <1>4, <1>5, <2>0, <2>3, <3>1
  <2>. QED BY <1>7, <2>1, <2>2, <2>3 DEF ClientStep
<1>8. ASSUME NEW y \in running, RouteStep(y) PROVE Ending(x)'
  BY <1>2, <1>8, QuietRoute
<1>9. CASE Exhausted
  BY <1>1, <1>9 DEF Exhausted, vars, hub
<1>. QED BY <1>6, <1>7, <1>8, <1>9 DEF Next

(* Inbound of a device is switched off in the store by its own handler, which
   will publish it. *)
LEMMA SwitchedOff ==
  ASSUME HubAssumption, Known, NEW c \in DeviceConn, NEW kind \in {"settings", "revoke"}, NEW r,
         OwnsSlot(c), TakeGate(c), UNCHANGED <<hub, route>>, Transact(c, kind, r), NEW x \in shut', x \notin shut
  PROVE  route[x].operation = "exec" /\ Ending(x)'
<1>d. PICK d \in Device : d = bindID[c]
  BY DEF Known, TypeOK, Conn
<1>0. /\ TypeOK /\ c \in Conn /\ c # Nil /\ kind \in Kind /\ gate[d] = Nil /\ gate' = [gate EXCEPT ![d] = c]
      /\ gate \in [Device -> Conn \cup {Nil}] /\ task \in [Conn -> Task]
  BY <1>d DEF Known, TypeOK, Conn, HubAssumption, Kind, TakeGate
<1>1. Transacted(c, kind, r)
  BY <1>0, TransactEffect
<1>2. PICK t \in Task : /\ t = task'[c] /\ t.kind = kind /\ t.code # "rejected" /\ t.record = r
                        /\ store[d].inbound /\ ~ r.inbound
                        /\ x \in RoutesOf(d) /\ route[x].operation = "exec"
  BY <1>d, <1>1 DEF Transacted
<1>3. slot[d].record = store[d]
  BY <1>0, <1>d, OwnedSlot DEF Known
<1>4. route'[x].device = d /\ gate'[d] = c /\ slot'[d] = slot[d]
  BY <1>0, <1>2 DEF RoutesOf, hub
<1>. QED BY <1>0, <1>2, <1>3, <1>4 DEF Ending

LEMMA NothingShut ==
  ASSUME HubAssumption, TypeOK, NEW c \in Conn, NEW kind \in {"hello", "access", "status"}, NEW r,
         r.inbound = store[bindID[c]].inbound \/ RoutesOf(bindID[c]) = {}, Transact(c, kind, r)
  PROVE  shut' \subseteq shut
<1>1. kind \in Kind
  BY DEF Kind
<1>2. Transacted(c, kind, r)
  BY <1>1, TransactEffect
<1>. QED BY <1>2 DEF Transacted

LEMMA NewlyShut ==
  ASSUME HubAssumption, Known, Next, NEW x \in shut', x \notin shut
  PROVE  route[x].operation = "exec" /\ Ending(x)'
<1>0. TypeOK /\ nextId \in 1..(MaxId + 1)
  BY DEF Known, TypeOK
<1>1. ASSUME NEW c \in DeviceConn, DeviceStep(c) PROVE route[x].operation = "exec" /\ Ending(x)'
  <2>d. PICK d \in Device : d = bindID[c]
    BY <1>0 DEF TypeOK, Conn
  <2>0. c \in Conn /\ store[d] \in Record
    BY <1>0 DEF TypeOK, Conn
  <2>1. CASE HelloDevice(c)
    <3>1. PICK r : Transact(c, "hello", r) /\ (r = store[d] \/ store[d].uid = 0) /\ gate[d] = Nil
      BY <2>1, <2>d DEF HelloDevice, TakeGate
    <3>2. store[d].uid = 0 => RoutesOf(d) = {}
      <4>1. ASSUME store[d].uid = 0, NEW y \in RoutesOf(d) PROVE FALSE
        <5>1. y \in inflight /\ route[y].device = d
          BY <4>1 DEF RoutesOf
        <5>2. slot[d].conn # Nil
          BY <5>1, Flying
        <5>3. SlotSoundAt(d) /\ Stable(d)
          BY <3>1 DEF Known, SlotSound, Stable
        <5>. QED BY <4>1, <5>2, <5>3 DEF SlotSoundAt
      <4>. QED BY <4>1
    <3>3. shut' \subseteq shut
      BY <1>0, <2>0, <2>d, <3>1, <3>2, NothingShut
    <3>. QED BY <3>3
  <2>2. ASSUME NEW s \in Settings, UpdateSettings(c, s[1], s[2]) PROVE route[x].operation = "exec" /\ Ending(x)'
    <3>1. OwnsSlot(c) /\ TakeGate(c) /\ UNCHANGED <<hub, route>> /\ shut' # shut
      BY <2>2 DEF UpdateSettings, routes
    <3>2. \E r : Transact(c, "settings", r)
      BY <2>2, <3>1 DEF UpdateSettings
    <3>. QED BY <3>1, <3>2, SwitchedOff
  <2>3. CASE Revoke(c)
    <3>1. OwnsSlot(c) /\ TakeGate(c) /\ UNCHANGED <<hub, route>> /\ Transact(c, "revoke", NoRecord)
      BY <2>3 DEF Revoke, routes
    <3>. QED BY <3>1, SwitchedOff
  <2>4. ASSUME NEW action \in {"owner", "access", "status"}, ManageAccess(c, action) PROVE FALSE
    <3>1. [store[d] EXCEPT !.owner = nextId].inbound = store[d].inbound
      BY <2>0 DEF Record
    <3>2. shut' # shut
      OBVIOUS
    <3>3. \E kind \in {"access", "status"}, r \in {store[d], [store[d] EXCEPT !.owner = nextId]} : Transact(c, kind, r)
      BY <2>4, <2>d, <3>2 DEF ManageAccess
    <3>4. PICK kind \in {"access", "status"}, r \in {store[d], [store[d] EXCEPT !.owner = nextId]} :
             Transact(c, kind, r) /\ r.inbound = store[d].inbound
      BY <3>1, <3>3
    <3>5. shut' \subseteq shut
      BY <1>0, <2>0, <2>d, <3>4, NothingShut
    <3>. QED BY <3>5
  <2>5. CASE \/ RegisterDevice(c) \/ PublishSettings(c) \/ PublishRevoke(c) \/ PublishAccess(c) \/ IdentityTimeout(c)
             \/ ReplyLease(c) \/ ConnFails(c) \/ DropDevice(c) \/ \E y \in inflight : RenewRoute(c, y)
    <3>1. shut' = shut
      BY <2>5 DEF RegisterDevice, PublishSettings, PublishRevoke, PublishAccess, IdentityTimeout, ReplyLease, ConnFails,
                  DropDevice, RenewRoute, seen
    <3>. QED BY <3>1
  <2>. QED BY <1>1, <2>1, <2>2, <2>3, <2>4, <2>5 DEF DeviceStep
<1>2. ASSUME NEW c \in ClientConn, ClientStep(c) PROVE shut' = shut
  BY <1>2 DEF ClientStep, HelloClient, RegisterClient, Invoke, Admit, RejectInvoke, Cancel, ConnFails, DropClient, seen
<1>3. ASSUME NEW y \in running, RouteStep(y) PROVE shut' = shut
  BY <1>3 DEF RouteStep, DropOutput, OutputToClosedCaller, DropFromInbox, Terminal
<1>4. CASE Exhausted
  BY <1>4 DEF Exhausted, vars, seen
<1>. QED BY <1>1, <1>2, <1>3, <1>4 DEF Next

LEMMA ShutStep == ASSUME HubAssumption, Known, ShutSound, Next PROVE ShutSound'
<1>0. TypeOK /\ shut \subseteq DOMAIN route /\ nextRoute \notin DOMAIN route /\ inflight \subseteq DOMAIN route
  BY DEF Known, TypeOK, HubAssumption
<1>1. ASSUME NEW x \in shut', x \in inflight'
      PROVE  route'[x].operation = "exec" /\ (route'[x].cancelled \/ Ending(x)')
  <2>1. x \in DOMAIN route
    <3>1. shut' \subseteq DOMAIN route
      BY <1>0, RowTypes DEF RowTyped
    <3>. QED BY <1>1, <3>1
  <2>2. x \in inflight /\ Marked(route[x], route'[x])
    BY <1>0, <1>1, <2>1, NextFlights
  <2>3. CASE x \in shut
    <3>1. route[x].operation = "exec" /\ (route[x].cancelled \/ Ending(x))
      BY <2>2, <2>3 DEF ShutSound, Ending
    <3>. QED BY <1>1, <2>2, <3>1, EndingKept DEF Marked
  <2>4. CASE x \notin shut
    BY <1>1, <2>2, <2>4, NewlyShut DEF Marked
  <2>. QED BY <2>3, <2>4
<1>. QED BY <1>1 DEF ShutSound, Ending
-----------------------------------------------------------------------------
(* A handler that waits to renew a lease is ended by the reply alone. *)
LEMMA ReplyOnly ==
  ASSUME HubAssumption, TypeOK, GateHeld, Next, NEW c \in DeviceConn, task[c].kind = "renew", task'[c] # task[c]
  PROVE  ReplyLease(c)
<1>0. c \in Conn /\ task \in [Conn -> Task] /\ c \notin ClientConn
  BY DEF Conn, TypeOK, HubAssumption
<1>1. ASSUME NEW k \in DeviceConn, DeviceStep(k) PROVE ReplyLease(c)
  <2>1. CASE \/ HelloDevice(k) \/ Revoke(k) \/ \E y \in inflight : RenewRoute(k, y)
             \/ \E s \in Settings : UpdateSettings(k, s[1], s[2])
             \/ \E action \in {"owner", "access", "status"} : ManageAccess(k, action)
    <3>1. Calls(k)
      BY <2>1, DeviceCalls
    <3>. QED BY <1>0, <3>1 DEF Calls
  <2>2. CASE RegisterDevice(k) \/ PublishSettings(k) \/ PublishRevoke(k) \/ PublishAccess(k)
    <3>1. Done(k) /\ task[k].kind # "renew"
      BY <2>2 DEF RegisterDevice, PublishSettings, PublishRevoke, PublishAccess
    <3>. QED BY <1>0, <3>1 DEF Done
  <2>3. CASE IdentityTimeout(k) \/ ConnFails(k) \/ DropDevice(k)
    BY <2>3 DEF IdentityTimeout, ConnFails, DropDevice
  <2>4. CASE ReplyLease(k)
    BY <1>0, <2>4 DEF ReplyLease, Done
  <2>. QED BY <1>1, <2>1, <2>2, <2>3, <2>4 DEF DeviceStep
<1>2. ASSUME NEW k \in ClientConn, ClientStep(k) PROVE FALSE
  <2>1. CASE HelloClient(k)
    BY <1>0, <2>1, ClientCalls DEF Calls
  <2>2. CASE RegisterClient(k) \/ Admit(k) \/ RejectInvoke(k)
    BY <1>0, <2>2 DEF RegisterClient, Admit, RejectInvoke, Done
  <2>3. CASE \E r \in Request, op \in Operation \cap Frames : Invoke(k, r, op)
    BY <1>0, <2>3 DEF Invoke, Wait
  <2>4. CASE ConnFails(k) \/ DropClient(k) \/ \E r \in Request : Cancel(k, r)
    BY <2>4 DEF ConnFails, DropClient, Cancel
  <2>. QED BY <1>2, <2>1, <2>2, <2>3, <2>4 DEF ClientStep
<1>3. ASSUME NEW x \in running, RouteStep(x) PROVE FALSE
  BY <1>3 DEF RouteStep, DropOutput, OutputToClosedCaller, DropFromInbox, Terminal
<1>4. CASE Exhausted
  BY <1>4 DEF Exhausted, vars
<1>. QED BY <1>1, <1>2, <1>3, <1>4 DEF Next

LEMMA GrantStep ==
  ASSUME HubAssumption, Known, ShutSound, Next, NEW x \in DOMAIN route, Grants(x)
  PROVE  LET r == store[route[x].device]
         IN  x \in inflight /\ x \notin shut /\ r.inbound /\ route[x].binding = Binding(r)
<1>0. TypeOK /\ GateHeld /\ Greeted /\ lease \in [Route -> {"none", "granted", "refused"}]
  BY DEF Known, TypeOK
<1>1. PICK c \in DeviceConn : /\ task[c].kind = "renew" /\ task[c].route = x /\ task'[c].kind = "idle"
                              /\ lease'[x] = "granted" /\ Up(c)
  BY DEF Grants
<1>2. ReplyLease(c)
  BY <1>0, <1>1, ReplyOnly
<1>3. x \in Route
  <2>1. DOMAIN route = 1..(nextRoute - 1) /\ nextRoute \in 1..(MaxRoute + 1)
    BY <1>0 DEF TypeOK
  <2>. QED BY <2>1 DEF Route, HubAssumption
<1>4. x \in inflight /\ LiveRoute(c, x)
  BY <1>0, <1>1, <1>2, <1>3 DEF ReplyLease
<1>d. PICK d \in Device : d = route[x].device
  BY <1>4, Flying
<1>5. /\ slot[d].conn = c /\ slot[d].record.inbound /\ ~ route[x].cancelled
      /\ route[x].binding = Binding(slot[d].record)
  BY <1>d, <1>4 DEF LiveRoute, Matches
<1>6. bindID[c] = d /\ c \in Conn /\ c # Nil
  BY <1>0, <1>5 DEF Greeted, Conn, HubAssumption
<1>7. gate[d] = c /\ Stable(d) /\ SlotSoundAt(d)
  <2>1. task[c].kind \in Gated
    BY <1>1 DEF Gated
  <2>. QED BY <1>1, <1>6, <2>1, Publishing DEF Known
<1>8. slot[d].record = store[d]
  BY <1>5, <1>6, <1>7 DEF SlotSoundAt
<1>9. x \notin shut
  BY <1>1, <1>4, <1>5, <1>7, <1>d DEF ShutSound
<1>. QED BY <1>4, <1>5, <1>8, <1>9, <1>d
-----------------------------------------------------------------------------
(* The inductive invariant. *)

LEMMA InitHolds == ASSUME HubAssumption, Init PROVE IInv
<1>1. /\ DOMAIN route = {} /\ inflight = {} /\ leased = {} /\ 1..(nextRoute - 1) = {} /\ nextRoute \in 1..(MaxRoute + 1)
      /\ nextId \in 1..(MaxId + 1)
  BY DEF Init, HubAssumption
<1>2. TypeOK
  <2>1. /\ conn \in [Conn -> {"new", "up", "closing", "gone"}] /\ bindID \in [Conn -> Device] /\ task \in [Conn -> Task]
        /\ gate \in [Device -> Conn \cup {Nil}] /\ store \in [Device -> Record] /\ slot \in [Device -> Slot]
        /\ access \in [Device -> Authority] /\ client \in [ClientConn -> Authority]
    BY Constants DEF Init
  <2>2. /\ devices \subseteq Device /\ clients \subseteq ClientConn /\ requests \in [Key -> 0..MaxRoute]
        /\ running = {} /\ cancelSent = {} /\ ended = {} /\ lost = {} /\ shut = {} /\ confirmed = {}
        /\ exit \in [Route -> {"none", "complete", "truncated"}] /\ lease \in [Route -> {"none", "granted", "refused"}]
    BY DEF Init, HubAssumption
  <2>. QED BY <1>1, <2>1, <2>2 DEF TypeOK
<1>3. RoutesConsistent /\ RoutesCurrent /\ DeviceInStep /\ OneTerminal
  BY <1>1 DEF Init, RoutesConsistent, RoutesCurrent, RouteEndsRegistered, OwnershipCurrent, DeviceInStep, NoOrphanOnDevice,
              InvokeAfterConfirmation, OneTerminal
<1>4. AdmissionBound
  <2>1. \A u \in Id : {x \in inflight : route[x].binding.uid = u} = {}
    BY <1>1
  <2>2. Cardinality({}) = 0
    BY FS_EmptySet
  <2>3. 0 <= PerDevice
    BY DEF HubAssumption
  <2>. QED BY <2>1, <2>2, <2>3 DEF AdmissionBound
<1>5. GateHeld /\ Greeted /\ Newcomer
  <2>1. /\ \A c \in Conn : task[c].kind = "idle" /\ conn[c] = "new" /\ c # Nil /\ bindID[c] \in Device
        /\ \A d \in Device : gate[d] = Nil /\ slot[d].conn = Nil
        /\ clients = {}
    BY OtherTasks DEF Init, NoSlot, HubAssumption, Conn
  <2>. QED BY <1>1, <2>1 DEF GateHeld, Greeted, Newcomer, Gated, Conn
<1>6. SlotSound /\ PendingSound
  <2>1. /\ \A d \in Device : slot[d].conn = Nil
        /\ \A c \in Conn : task[c].kind = "idle"
    BY OtherTasks DEF Init, NoSlot
  <2>. QED BY <2>1 DEF SlotSound, SlotSoundAt, PendingSound, Pending
<1>7. OutputSound /\ ShutSound /\ inflight \cap ended = {}
  BY <1>1 DEF Init, OutputSound, ShutSound
<1>. QED BY <1>2, <1>3, <1>4, <1>5, <1>6, <1>7 DEF IInv, Known

LEMMA UnansweredStep == ASSUME HubAssumption, Known, inflight \cap ended = {}, Next PROVE inflight' \cap ended' = {}
<1>1. CASE RoutesSettle
  BY <1>1 DEF RoutesSettle, Settles, Finish
<1>2. ASSUME NEW c \in ClientConn, Admit(c) PROVE inflight' \cap ended' = {}
  <2>1. nextRoute \notin ended /\ nextRoute \notin inflight
    BY DEF Known, TypeOK, HubAssumption
  <2>. QED BY <1>2, <2>1 DEF Admit, Finish
<1>. QED BY <1>1, <1>2, StepRoutes DEF Known

LEMMA KnownStep == ASSUME HubAssumption, Known, AdmissionBound, OneTerminal, Next PROVE Known' /\ AdmissionBound' /\ OneTerminal'
<1>1. TypeOK' /\ RoutesConsistent' /\ AdmissionBound' /\ OneTerminal'
  BY TypeStep, RouterStep DEF Known
<1>2. GateHeld' /\ Greeted' /\ Newcomer'
  BY StepTasks, StepForward, TasksHold, GreetedStep, NewcomerStep DEF Known
<1>3. SlotSound' /\ PendingSound' /\ RoutesCurrent'
  BY <1>2, StepSound, RoutesCurrentStep DEF Known
<1>. QED BY <1>1, <1>2, <1>3 DEF Known

LEMMA Inductive == ASSUME HubAssumption, IInv, [Next]_vars PROVE IInv'
<1>1. CASE Next
  <2>1. Known' /\ AdmissionBound' /\ OneTerminal'
    BY <1>1, KnownStep DEF IInv
  <2>2. DeviceInStep' /\ OutputSound' /\ ShutSound' /\ inflight' \cap ended' = {}
    BY <1>1, DeviceInStepStep, OutputStep, ShutStep, UnansweredStep DEF IInv
  <2>. QED BY <2>1, <2>2 DEF IInv
<1>2. CASE UNCHANGED vars
  <2>0. UNCHANGED <<conn, bindID, task, gate, store, devices, slot, access, clients, client, confirmed>>
    BY <1>2 DEF vars, ids, hub, seen
  <2>1. TypeOK' /\ RoutesConsistent' /\ AdmissionBound' /\ OneTerminal' /\ inflight' \cap ended' = {}
    BY <1>2 DEF vars, ids, hub, routes, seen, IInv, Known, TypeOK, RoutesConsistent, AdmissionBound, OneTerminal, KeyOf, Up
  <2>2. GateHeld' /\ Newcomer' /\ SlotSound' /\ PendingSound'
    BY <2>0 DEF IInv, Known, GateHeld, Newcomer, SlotSound, SlotSoundAt, Stable, PendingSound, Pending
  <2>3. Greeted' /\ RoutesCurrent' /\ DeviceInStep'
    BY <1>2 DEF vars, hub, routes, seen, IInv, Known, Greeted, RoutesCurrent, RouteEndsRegistered, OwnershipCurrent,
                DeviceInStep, NoOrphanOnDevice, InvokeAfterConfirmation
  <2>4. OutputSound' /\ ShutSound'
    BY <1>2 DEF vars, hub, routes, seen, IInv, OutputSound, ShutSound
  <2>. QED BY <2>1, <2>2, <2>3, <2>4 DEF IInv, Known
<1>. QED BY <1>1, <1>2

LEMMA Invariance == Spec => []IInv
<1>1. HubAssumption
  BY HubAssumption
<1>2. Init => IInv
  BY <1>1, InitHolds
<1>3. IInv /\ [Next]_vars => IInv'
  BY <1>1, Inductive
<1>. QED BY <1>2, <1>3, PTL DEF Spec
-----------------------------------------------------------------------------
(* Theorems. *)

(* The router's own maps stay well typed and name each other's entries, no
   device has more requests in flight than admission allows, and a connected
   caller has a terminal for exactly the invocations that left the router
   (RouterInv): hub_invocation.go, hub_register.go. *)
THEOREM RouterCorrect == Spec => []RouterInv
<1>1. IInv => RouterInv
  BY DEF IInv, Known, RouterInv
<1>. QED BY <1>1, Invariance, PTL

(* Routes in flight join a registered caller to the connection that stands for
   the device, under the device's present owner, and what the router believes
   of a routable device is what its row says (AuthorityCurrent):
   handleAuth, handleAccess and invalidateOwnershipLocked. *)
THEOREM AuthorityHolds == Spec => []AuthorityCurrent
<1>1. IInv => AuthorityCurrent
  <2>. SUFFICES ASSUME IInv PROVE AuthorityCurrent
    OBVIOUS
  <2>1. ASSUME NEW d \in devices, slot[d].conn # Nil, gate[d] = Nil
        PROVE  slot[d].record = store[d] /\ access[d] = Binding(store[d])
    <3>1. d \in Device /\ SlotSoundAt(d) /\ Stable(d)
      BY <2>1 DEF IInv, Known, TypeOK, SlotSound, Stable
    <3>. QED BY <2>1, <3>1 DEF SlotSoundAt
  <2>. QED BY <2>1 DEF IInv, Known, AuthorityCurrent, AuthorityFresh
<1>. QED BY <1>1, Invariance, PTL

(* No device is asked to run anything before its settings are confirmed, and
   none runs on for a route that has ended without having been told, unless its
   connection is being closed (DeviceInStep). *)
THEOREM DeviceFollows == Spec => []DeviceInStep
<1>1. IInv => DeviceInStep
  BY DEF IInv
<1>. QED BY <1>1, Invariance, PTL

(* An exit frame says whether the Relay dropped any output of the execution
   (TruncationReported): noteDroppedOutput and forwardToClient. *)
THEOREM TruncationHolds == Spec => []TruncationReported
<1>1. IInv => TruncationReported
  BY DEF IInv, OutputSound, TruncationReported
<1>. QED BY <1>1, Invariance, PTL

(* Whatever happens to other devices and callers, a route in flight ends only
   for a cause of its own (RouteEndsForCause). *)
THEOREM RoutesEndForCause == Spec => RouteEndsForCause
<1>. DEFINE Cause(x) == LET d == route[x].device
                        IN  \/ x \notin running'
                            \/ ~ Up(route[x].client)
                            \/ slot'[d].conn # route[x].via
                            \/ access'[d].owner # access[d].owner
<1>1. ASSUME IInv, [Next]_vars PROVE [\A x \in inflight \ inflight' : Cause(x)]_vars
  <2>1. CASE Next
    <3>1. ASSUME NEW x \in inflight, x \notin inflight' PROVE Cause(x)
      <4>1. Fate(x)
        BY <1>1, <2>1, <3>1, HubAssumption, StepFate DEF IInv
      <4>. QED BY <3>1, <4>1 DEF Fate, Caused
    <3>. QED BY <3>1
  <2>. QED BY <1>1, <2>1
<1>. QED BY <1>1, Invariance, PTL DEF Spec, RouteEndsForCause

(* A lease is granted only for a route in flight that the store authorises at
   the moment of the reply, and never after inbound was switched off
   (LeaseOnlyIfAuthorised): renewExecutionRoute. *)
THEOREM LeasesAuthorised == Spec => LeaseOnlyIfAuthorised
<1>. DEFINE Granted(x) == LET r == store[route[x].device]
                          IN  x \in inflight /\ x \notin shut /\ r.inbound /\ route[x].binding = Binding(r)
<1>1. ASSUME IInv, [Next]_vars PROVE [\A x \in DOMAIN route : Grants(x) => Granted(x)]_vars
  <2>1. CASE Next
    <3>1. ASSUME NEW x \in DOMAIN route, Grants(x) PROVE Granted(x)
      BY <1>1, <2>1, <3>1, HubAssumption, GrantStep DEF IInv
    <3>. QED BY <3>1
  <2>. QED BY <1>1, <2>1
<1>. QED BY <1>1, Invariance, PTL DEF Spec, LeaseOnlyIfAuthorised
-----------------------------------------------------------------------------
(* Every step of the router is a step of InvocationContract, or none. *)

LEMMA RouteRange == ASSUME HubAssumption, TypeOK PROVE DOMAIN route \subseteq Route /\ inflight \subseteq DOMAIN route
<1>1. DOMAIN route = 1..(nextRoute - 1) /\ nextRoute \in 1..(MaxRoute + 1) /\ inflight \subseteq DOMAIN route
  BY DEF TypeOK
<1>. QED BY <1>1 DEF Route, HubAssumption

LEMMA OpenRoutes == ASSUME HubAssumption, TypeOK PROVE Promise!Open = inflight
<1>1. \A x \in Route : InvocationStatus[x] = "open" <=> x \in DOMAIN route /\ x \in inflight
  BY DEF InvocationStatus
<1>. QED BY <1>1, RouteRange DEF Promise!Open

(* A caller that was greeted is connected exactly while it is up. *)
LEMMA Callers ==
  ASSUME HubAssumption, TypeOK, Greeted, NEW x \in DOMAIN route
  PROVE  /\ InvocationCall[x] = KeyOf(x) /\ InvocationCall[x][1] = route[x].client
         /\ route[x].client \in Connected <=> Up(route[x].client)
<1>1. x \in Route /\ route[x].client \in ClientConn /\ route[x].client # Nil /\ conn[route[x].client] # "new"
  BY RouteRange DEF TypeOK, RouteRecord, HubAssumption, Greeted
<1>. QED BY <1>1 DEF InvocationCall, KeyOf, Connected, Up

LEMMA SettleRefines ==
  ASSUME HubAssumption, IInv, Forward, RecordsKept, NEW S, Settles(S)
  PROVE  Promise!Settle(S, Connected \ Connected')
<1>0. TypeOK /\ Greeted /\ inflight \subseteq DOMAIN route /\ S \subseteq inflight /\ DOMAIN route' = DOMAIN route
      /\ inflight \cap ended = {}
  BY RouteRange DEF IInv, Known, Settles, RecordsKept
<1>1. S \subseteq Promise!Open
  BY <1>0, OpenRoutes DEF Settles
<1>2. Connected' = Connected \ (Connected \ Connected')
  BY DEF Connected, Forward, Conn
<1>3. InvocationCall' = InvocationCall
  <2>1. \A x \in DOMAIN route : KeyOf(x)' = KeyOf(x)
    BY SameKeys DEF RecordsKept
  <2>2. InvocationCall' = [x \in Route |-> IF x \in DOMAIN route THEN KeyOf(x)' ELSE NoCall]
    BY <1>0 DEF InvocationCall
  <2>. QED BY <2>1, <2>2 DEF InvocationCall
<1>4. ASSUME NEW x \in Route
      PROVE  InvocationStatus'[x] = IF x \in S THEN Promise!Settled(S, InvocationCall)[x] ELSE InvocationStatus[x]
  <2>1. InvocationStatus'[x] = IF x \notin DOMAIN route' THEN "fresh"
                               ELSE IF x \in inflight' THEN "open" ELSE IF x \in ended' THEN "answered" ELSE "abandoned"
    BY DEF InvocationStatus
  <2>2. inflight' = inflight \ S /\ ended' = ended \cup {y \in S : Up(route[y].client)}
    BY DEF Settles, Finish
  <2>3. CASE x \in S
    <3>1. InvocationStatus'[x] = IF Up(route[x].client) THEN "answered" ELSE "abandoned"
      BY <1>0, <2>1, <2>2, <2>3
    <3>2. Promise!Settled(S, InvocationCall)[x] = IF InvocationCall[x][1] \in Connected THEN "answered" ELSE "abandoned"
      BY <2>3 DEF Promise!Settled
    <3>3. x \in DOMAIN route
      BY <1>0, <2>3
    <3>. QED BY <1>0, <2>3, <3>1, <3>2, <3>3, Callers
  <2>4. CASE x \notin S
    BY <1>0, <2>1, <2>2, <2>4 DEF InvocationStatus
  <2>. QED BY <2>3, <2>4
<1>5. InvocationStatus' = [x \in Route |-> IF x \in S THEN Promise!Settled(S, InvocationCall)[x] ELSE InvocationStatus[x]]
  <2>1. InvocationStatus' = [x \in Route |-> InvocationStatus'[x]]
    BY DEF InvocationStatus
  <2>. QED BY <1>4, <2>1
<1>. QED BY <1>1, <1>2, <1>3, <1>5 DEF Promise!Settle

LEMMA AdmitRefines ==
  ASSUME HubAssumption, IInv, NEW c \in ClientConn, Admit(c)
  PROVE  LET k == <<c, task[c].request>>
         IN  \/ Promise!Admit(nextRoute, k)
             \/ Promise!AdmitAndSettle(nextRoute, k, RoutesOf(bindID[c]))
<1>x. PICK x : x = nextRoute
  OBVIOUS
<1>k. PICK k : k = <<c, task[c].request>>
  OBVIOUS
<1>d. PICK d \in Device : d = bindID[c]
  BY DEF IInv, Known, TypeOK, Conn
<1>0. /\ TypeOK /\ Greeted /\ RoutesConsistent /\ inflight \subseteq DOMAIN route /\ DOMAIN route \subseteq Route
      /\ task[c].request \in Request /\ ended \subseteq DOMAIN route
  BY RouteRange DEF IInv, Known, GateHeld, Admit, Conn, TypeOK
<1>1. /\ x \in Route /\ x \notin DOMAIN route /\ DOMAIN route' = DOMAIN route \cup {x}
      /\ \A y \in DOMAIN route : route'[y] = route[y]
      /\ KeyOf(x)' = k
  <2>1. route'[x] = NewRecord(c)
    BY <1>0, <1>x, AdmitRecord
  <2>2. NewRecord(c).client = c /\ NewRecord(c).request = task[c].request
    BY DEF NewRecord
  <2>3. KeyOf(x)' = k
    BY <1>k, <2>1, <2>2 DEF KeyOf
  <2>. QED BY <1>0, <1>x, <2>3, AdmitRecord
<1>2. k[1] = c /\ c \in Connected /\ k \in Key /\ requests[k] = 0 /\ Up(c)
  <2>1. requests[k] = 0 /\ Up(c)
    BY <1>k DEF Admit, Admissible
  <2>. QED BY <1>0, <1>k, <2>1 DEF Connected, Up, Key
<1>3. Promise!MayAdmit(x, k)
  <2>1. InvocationStatus[x] = "fresh"
    BY <1>1 DEF InvocationStatus
  <2>2. ASSUME NEW y \in inflight PROVE InvocationCall[y] # k
    <3>1. InvocationCall[y] = KeyOf(y) /\ requests[KeyOf(y)] = y /\ y # 0
      BY <1>0, Callers DEF RoutesConsistent, Route
    <3>. QED BY <1>2, <3>1
  <2>. QED BY <1>0, <1>2, <2>1, <2>2, OpenRoutes DEF Promise!MayAdmit
<1>4. InvocationCall' = [InvocationCall EXCEPT ![x] = k]
  <2>1. \A y \in DOMAIN route : KeyOf(y)' = KeyOf(y)
    BY <1>1 DEF KeyOf
  <2>2. InvocationCall' = [y \in Route |-> IF y \in DOMAIN route' THEN KeyOf(y)' ELSE NoCall]
    BY DEF InvocationCall
  <2>3. InvocationCall = [y \in Route |-> IF y \in DOMAIN route THEN KeyOf(y) ELSE NoCall]
    BY DEF InvocationCall
  <2>. QED BY <1>1, <2>1, <2>2, <2>3
<1>5. Connected' = Connected
  BY DEF Connected, Admit
<1>6. \A y \in Route : InvocationStatus'[y] = IF y \notin DOMAIN route' THEN "fresh"
                               ELSE IF y \in inflight' THEN "open" ELSE IF y \in ended' THEN "answered" ELSE "abandoned"
  BY DEF InvocationStatus
<1>7. \A y \in Route : InvocationStatus[y] = IF y \notin DOMAIN route THEN "fresh"
                               ELSE IF y \in inflight THEN "open" ELSE IF y \in ended THEN "answered" ELSE "abandoned"
  BY DEF InvocationStatus
<1>8. InvocationStatus' = [y \in Route |-> InvocationStatus'[y]] /\ InvocationStatus \in [Route -> {"fresh", "open", "answered", "abandoned"}]
  BY DEF InvocationStatus
<1>9. CASE Up(slot[d].conn)
  <2>1. inflight' = inflight \cup {x} /\ ended' = ended
    BY <1>d, <1>x, <1>9 DEF Admit
  <2>2. \A y \in Route : InvocationStatus'[y] = IF y = x THEN "open" ELSE InvocationStatus[y]
    BY <1>1, <1>6, <1>7, <2>1
  <2>3. InvocationStatus' = [InvocationStatus EXCEPT ![x] = "open"]
    BY <1>8, <2>2
  <2>. QED BY <1>x, <1>k, <1>3, <1>4, <1>5, <2>3 DEF Promise!Admit
<1>10. CASE ~ Up(slot[d].conn)
  <2>. DEFINE S == RoutesOf(d)
  <2>0. S \subseteq inflight
    BY DEF RoutesOf
  <2>1. inflight' = inflight \ S /\ ended' = ended \cup {x} \cup {y \in S : Up(route[y].client)}
    BY <1>d, <1>x, <1>10 DEF Admit, Finish
  <2>2. S \subseteq Promise!Open
    BY <1>0, <2>0, OpenRoutes
  <2>. HIDE DEF S
  <2>3. ASSUME NEW y \in Route
        PROVE  InvocationStatus'[y] = IF y \in S \cup {x} THEN Promise!Settled(S \cup {x}, InvocationCall')[y] ELSE InvocationStatus[y]
    <3>1. y \in S \cup {x} => Promise!Settled(S \cup {x}, InvocationCall')[y] =
                                IF InvocationCall'[y][1] \in Connected THEN "answered" ELSE "abandoned"
      BY DEF Promise!Settled
    <3>2. CASE y = x
      <4>1. InvocationCall'[y] = k
        <5>1. InvocationCall \in [Route -> {InvocationCall[z] : z \in Route}]
          BY DEF InvocationCall
        <5>. QED BY <1>1, <1>4, <3>2, <5>1
      <4>2. InvocationStatus'[y] = "answered"
        BY <1>0, <1>1, <1>6, <2>0, <2>1, <3>2
      <4>. QED BY <1>2, <3>1, <3>2, <4>1, <4>2
    <3>3. CASE y \in S
      <4>1. y \in DOMAIN route /\ y # x /\ y \in inflight /\ y \notin ended
        BY <1>0, <1>1, <2>0, <3>3 DEF IInv
      <4>2. InvocationCall'[y] = InvocationCall[y]
        BY <1>4, <4>1 DEF InvocationCall
      <4>3. InvocationStatus'[y] = IF Up(route[y].client) THEN "answered" ELSE "abandoned"
        BY <1>0, <1>1, <1>6, <2>1, <3>3, <4>1
      <4>. QED BY <1>0, <3>1, <3>3, <4>1, <4>2, <4>3, Callers
    <3>4. CASE y \notin S \cup {x}
      BY <1>1, <1>6, <1>7, <2>1, <3>4
    <3>. QED BY <3>2, <3>3, <3>4
  <2>4. InvocationStatus' = [y \in Route |-> IF y \in S \cup {x} THEN Promise!Settled(S \cup {x}, InvocationCall')[y] ELSE InvocationStatus[y]]
    BY <1>8, <2>3
  <2>5. Promise!AdmitAndSettle(x, k, S)
    BY <1>3, <1>4, <1>5, <2>2, <2>4 DEF Promise!AdmitAndSettle
  <2>. QED BY <1>x, <1>k, <1>d, <2>5 DEF S
<1>. QED BY <1>9, <1>10

(* The router keeps InvocationContract: every admitted invocation is answered
   once, or abandoned by a caller that is gone, and a caller has one open
   invocation for an exec_id, whichever critical section of hub*.go a step is
   (ImplementsContract). *)
THEOREM KeepsContract == Spec => ImplementsContract
<1>1. Init => Promise!Init
  <2>. SUFFICES ASSUME Init PROVE Promise!Init
    OBVIOUS
  <2>1. DOMAIN route = {} /\ \A c \in ClientConn : conn[c] = "new"
    BY DEF Init, Conn
  <2>2. InvocationStatus = [x \in Route |-> "fresh"] /\ InvocationCall = [x \in Route |-> NoCall]
    BY <2>1 DEF InvocationStatus, InvocationCall
  <2>3. Connected = ClientConn
    BY <2>1 DEF Connected
  <2>. QED BY <2>2, <2>3 DEF Promise!Init
<1>2. ASSUME IInv, [Next]_vars PROVE [Promise!Next]_(Promise!contract)
  <2>0. HubAssumption /\ TypeOK /\ RoutesConsistent
    BY <1>2, HubAssumption DEF IInv, Known
  <2>1. CASE UNCHANGED vars
    <3>1. UNCHANGED <<InvocationStatus, InvocationCall, Connected>>
      BY <2>1 DEF vars, routes, seen, InvocationStatus, InvocationCall, Connected, KeyOf
    <3>. QED BY <3>1 DEF Promise!contract
  <2>2. CASE Next
    <3>1. CASE RoutesSettle
      <4>1. PICK S : Settles(S)
        BY <3>1 DEF RoutesSettle
      <4>2. Forward /\ RecordsKept
        BY <2>0, <2>2, <3>1, StepForward DEF RoutesSettle
      <4>3. Promise!Settle(S, Connected \ Connected')
        BY <1>2, <2>0, <4>1, <4>2, SettleRefines
      <4>4. S \in SUBSET Promise!Open /\ Connected \ Connected' \in SUBSET Connected
        BY <4>3 DEF Promise!Settle
      <4>. QED BY <4>3, <4>4 DEF Promise!Next
    <3>2. ASSUME NEW c \in ClientConn, Admit(c) PROVE Promise!Next
      <4>1. nextRoute \in Route /\ <<c, task[c].request>> \in ClientConn \X Request
        BY <1>2, <3>2 DEF Admit, IInv, Known, GateHeld, Conn
      <4>2. \/ Promise!Admit(nextRoute, <<c, task[c].request>>)
            \/ Promise!AdmitAndSettle(nextRoute, <<c, task[c].request>>, RoutesOf(bindID[c]))
        BY <1>2, <2>0, <3>2, AdmitRefines
      <4>3. RoutesOf(bindID[c]) \in SUBSET Promise!Open
        BY <2>0, OpenRoutes DEF RoutesOf
      <4>. QED BY <4>1, <4>2, <4>3 DEF Promise!Next
    <3>. QED BY <2>0, <2>2, <3>1, <3>2, StepRoutes
  <2>. QED BY <1>2, <2>1, <2>2
<1>. QED BY <1>1, <1>2, Invariance, PTL DEF Spec, ImplementsContract, Promise!Contract
-----------------------------------------------------------------------------
(* The outbox.  Total is the number of units a set of messages retains, so its
   sums are facts about cardinalities. *)

(* Sets of messages that can be counted. *)
Countable(S) == IsFiniteSet(S) /\ \A m \in S : m.size \in Nat

(* What countable messages retain can be counted. *)
LEMMA UnitsFinite == ASSUME NEW S, Countable(S) PROVE IsFiniteSet(Units(S))
<1> DEFINE Of(m) == {m} \X (1..m.size)
           parts == {Of(m) : m \in S}
<1>1. IsFiniteSet(parts)
  <2> DEFINE f == [m \in S |-> Of(m)]
  <2>1. f \in Surjection(S, parts)
    BY DEF Surjection
  <2> QED  BY <2>1, FS_Surjection DEF Countable
<1>2. ASSUME NEW m \in S PROVE IsFiniteSet(Of(m))
  <2>1. m.size \in Int /\ 1 \in Int
    BY DEF Countable
  <2>2. IsFiniteSet(1..m.size) /\ IsFiniteSet({m})
    BY <2>1, FS_Interval, FS_Singleton
  <2> QED  BY <2>2, FS_Product
<1>3. \A p \in parts : IsFiniteSet(p)
  BY <1>2
<1>4. Units(S) = UNION parts
  BY DEF Units
<1> HIDE DEF parts
<1> QED  BY <1>1, <1>3, <1>4, FS_UNION

(* Sizes are natural numbers. *)
LEMMA TotalNat == ASSUME NEW S, Countable(S) PROVE Total(S) \in Nat
  BY UnitsFinite, FS_CardinalityType DEF Total

(* The queue starts at zero. *)
LEMMA TotalEmpty == Countable({}) /\ Total({}) = 0
<1>1. Units({}) = {}
  BY DEF Units
<1> QED  BY <1>1, FS_EmptySet DEF Total, Countable

(* A message alone retains its size. *)
LEMMA TotalOne == ASSUME NEW m, m.size \in Nat PROVE Countable({m}) /\ Total({m}) = m.size
<1>1. Units({m}) = {m} \X (1..m.size)
  BY DEF Units
<1>2. IsFiniteSet({m}) /\ Cardinality({m}) = 1
  BY FS_Singleton
<1>3. IsFiniteSet(1..m.size) /\ Cardinality(1..m.size) = m.size
  <2>1. 1 \in Int /\ m.size \in Int
    OBVIOUS
  <2>2. IsFiniteSet(1..m.size) /\ Cardinality(1..m.size) = IF 1 > m.size THEN 0 ELSE m.size - 1 + 1
    BY <2>1, FS_Interval
  <2> QED  BY <2>2
<1>4. Cardinality({m} \X (1..m.size)) = Cardinality({m}) * Cardinality(1..m.size)
  BY <1>2, <1>3, FS_Product
<1>5. Total({m}) = 1 * m.size
  BY <1>1, <1>2, <1>3, <1>4 DEF Total
<1> QED  BY <1>2, <1>5 DEF Countable

(* Disjoint sets add up: Enqueue adds the size of a new message. *)
LEMMA TotalUnion ==
  ASSUME NEW S, NEW T, Countable(S), Countable(T), S \cap T = {}
  PROVE  Countable(S \cup T) /\ Total(S \cup T) = Total(S) + Total(T)
<1>1. Countable(S \cup T)
  BY FS_Union DEF Countable
<1>2. Units(S \cup T) = Units(S) \cup Units(T)
  BY DEF Units
<1>3. Units(S) \cap Units(T) = {}
  BY DEF Units
<1>4. IsFiniteSet(Units(S)) /\ IsFiniteSet(Units(T))
  BY UnitsFinite
<1>5. Cardinality(Units(S) \cup Units(T)) = Cardinality(Units(S)) + Cardinality(Units(T)) - Cardinality({})
  BY <1>3, <1>4, FS_Union
<1>6. Cardinality(Units(S)) \in Nat /\ Cardinality(Units(T)) \in Nat
  BY <1>4, FS_CardinalityType
<1>7. Cardinality(Units(S) \cup Units(T)) = Cardinality(Units(S)) + Cardinality(Units(T))
  <2>1. Cardinality({}) = 0
    BY FS_EmptySet
  <2> QED  BY <1>5, <1>6, <2>1
<1> QED  BY <1>1, <1>2, <1>7 DEF Total

(* What is removed is subtracted: discardOutput and run take off what they remove. *)
LEMMA TotalLess ==
  ASSUME NEW S, NEW T, Countable(S), T \subseteq S
  PROVE  /\ Countable(T) /\ Countable(S \ T)
         /\ Total(T) \in Nat /\ Total(S \ T) \in Nat /\ Total(S) = Total(S \ T) + Total(T)
<1>1. Countable(T) /\ Countable(S \ T)
  BY FS_Subset, FS_Difference DEF Countable
<1>2. S = (S \ T) \cup T /\ (S \ T) \cap T = {}
  OBVIOUS
<1> QED  BY <1>1, <1>2, TotalUnion, TotalNat
-----------------------------------------------------------------------------
Increasing(s) == \A i, j \in 1..Len(s) : i < j => s[i].nr < s[j].nr
Before(A, B) == \A x \in A, y \in B : x.nr < y.nr

(* The messages of a queue, at most as many as it is long. *)
LEMMA ElemsFinite ==
  ASSUME NEW T, NEW s \in Seq(T)
  PROVE  /\ Elems(s) \subseteq T /\ IsFiniteSet(Elems(s)) /\ Len(s) \in Nat
         /\ Cardinality(Elems(s)) \in Nat /\ Cardinality(Elems(s)) <= Len(s)
<1> DEFINE f == [i \in 1..Len(s) |-> s[i]]
<1>1. Len(s) \in Nat /\ Elems(s) \subseteq T
  BY DEF Elems
<1>2. IsFiniteSet(1..Len(s)) /\ Cardinality(1..Len(s)) = Len(s)
  <2>1. 1 \in Int /\ Len(s) \in Int
    BY <1>1
  <2>2. IsFiniteSet(1..Len(s)) /\ Cardinality(1..Len(s)) = IF 1 > Len(s) THEN 0 ELSE Len(s) - 1 + 1
    BY <2>1, FS_Interval
  <2> QED  BY <1>1, <2>2
<1>3. f \in Surjection(1..Len(s), Elems(s))
  BY DEF Surjection, Elems
<1>4. IsFiniteSet(Elems(s)) /\ Cardinality(Elems(s)) <= Cardinality(1..Len(s))
  BY <1>2, <1>3, FS_Surjection
<1>5. Cardinality(Elems(s)) \in Nat
  BY <1>4, FS_CardinalityType
<1> QED  BY <1>1, <1>2, <1>4, <1>5

(* In a sequence that increases no element comes twice. *)
LEMMA ElemsDistinct ==
  ASSUME NEW s \in Seq(Message), Increasing(s), MaxMessage \in Nat
  PROVE  Cardinality(Elems(s)) = Len(s)
<1> DEFINE f == [i \in 1..Len(s) |-> s[i]]
<1>1. Len(s) \in Nat /\ \A i \in 1..Len(s) : s[i] \in Message /\ s[i].nr \in Nat
  <2>1. \A i \in 1..Len(s) : s[i] \in Message
    OBVIOUS
  <2>2. \A m \in Message : m.nr \in Nat
    BY DEF Message
  <2> QED  BY <2>1, <2>2
<1>2. IsFiniteSet(1..Len(s)) /\ Cardinality(1..Len(s)) = Len(s)
  <2>1. 1 \in Int /\ Len(s) \in Int
    BY <1>1
  <2>2. IsFiniteSet(1..Len(s)) /\ Cardinality(1..Len(s)) = IF 1 > Len(s) THEN 0 ELSE Len(s) - 1 + 1
    BY <2>1, FS_Interval
  <2> QED  BY <1>1, <2>2
<1>3. f \in Surjection(1..Len(s), Elems(s))
  BY DEF Surjection, Elems
<1>4. f \in Injection(1..Len(s), Elems(s))
  <2>1. f \in [1..Len(s) -> Elems(s)]
    BY DEF Elems
  <2>2. ASSUME NEW i \in 1..Len(s), NEW j \in 1..Len(s), i # j PROVE s[i] # s[j]
    <3>1. i < j \/ j < i
      BY <2>2
    <3>2. s[i].nr \in Nat /\ s[j].nr \in Nat
      BY <1>1
    <3> QED  BY <3>1, <3>2 DEF Increasing
  <2> QED  BY <2>1, <2>2 DEF Injection, IsInjective
<1> QED  BY <1>2, <1>3, <1>4, FS_Surjection

(* Enqueue appends to queue. *)
LEMMA ElemsAppend ==
  ASSUME NEW T, NEW s \in Seq(T), NEW m \in T
  PROVE  Append(s, m) \in Seq(T) /\ Elems(Append(s, m)) = Elems(s) \cup {m}
<1>1. /\ Append(s, m) \in Seq(T) /\ Len(s) \in Nat /\ Len(Append(s, m)) = Len(s) + 1
      /\ Append(s, m)[Len(s) + 1] = m /\ \A i \in 1..Len(s) : Append(s, m)[i] = s[i]
  OBVIOUS
<1>2. Elems(Append(s, m)) \subseteq Elems(s) \cup {m}
  BY <1>1 DEF Elems
<1>3. m \in Elems(Append(s, m))
  <2>1. Len(s) + 1 \in 1..Len(Append(s, m))
    BY <1>1
  <2> QED  BY <1>1, <2>1 DEF Elems
<1>4. Elems(s) \subseteq Elems(Append(s, m))
  <2>1. \A i \in 1..Len(s) : i \in 1..Len(Append(s, m))
    BY <1>1
  <2> QED  BY <1>1, <2>1 DEF Elems
<1> QED  BY <1>1, <1>2, <1>3, <1>4

(* The head is taken and the tail left: run takes queue[0]. *)
LEMMA ElemsTail ==
  ASSUME NEW T, NEW s \in Seq(T), s # <<>>
  PROVE  /\ Head(s) \in T /\ Tail(s) \in Seq(T) /\ Elems(s) = {Head(s)} \cup Elems(Tail(s))
         /\ <<Head(s)>> \in Seq(T)
<1>1. /\ Head(s) = s[1] /\ Head(s) \in T /\ Tail(s) \in Seq(T) /\ Len(s) \in Nat /\ Len(s) >= 1
      /\ Len(Tail(s)) = Len(s) - 1 /\ \A i \in 1..Len(Tail(s)) : Tail(s)[i] = s[i + 1]
  OBVIOUS
<1>2. Elems(Tail(s)) \subseteq Elems(s)
  <2>1. \A i \in 1..Len(Tail(s)) : i + 1 \in 1..Len(s)
    BY <1>1
  <2> QED  BY <1>1, <2>1 DEF Elems
<1>3. Head(s) \in Elems(s)
  <2>1. 1 \in 1..Len(s)
    BY <1>1
  <2> QED  BY <1>1, <2>1 DEF Elems
<1>4. Elems(s) \subseteq {Head(s)} \cup Elems(Tail(s))
  <2>1. ASSUME NEW i \in 1..Len(s), i # 1 PROVE s[i] \in Elems(Tail(s))
    <3>1. i - 1 \in 1..Len(Tail(s)) /\ s[(i - 1) + 1] = s[i]
      BY <1>1, <2>1
    <3>2. Tail(s)[i - 1] = s[i]
      BY <1>1, <3>1
    <3> QED  BY <3>1, <3>2 DEF Elems
  <2> QED  BY <1>1, <2>1 DEF Elems
<1> QED  BY <1>1, <1>2, <1>3, <1>4

(* An empty queue has no messages. *)
LEMMA ElemsNone == Elems(<<>>) = {}
  BY DEF Elems

(* A writer that writes has one. *)
LEMMA ElemsOne == ASSUME NEW m PROVE Elems(<<m>>) = {m}
<1>1. Len(<<m>>) = 1 /\ <<m>>[1] = m
  OBVIOUS
<1> QED  BY <1>1 DEF Elems
-----------------------------------------------------------------------------
(* Any places of a sequence can be gone through in order, and that reaches all. *)
LEMMA InOrderOf ==
  ASSUME NEW n \in Nat, NEW S \in SUBSET (1..n)
  PROVE  /\ IsFiniteSet(S) /\ Cardinality(S) \in Nat
         /\ \E f \in [1..Cardinality(S) -> S] :
              \A i, j \in 1..Cardinality(S) : i < j => f[i] < f[j]
<1> DEFINE upTo(k) == {i \in S : i <= k}
           rank(k) == Cardinality(upTo(k))
           N == Cardinality(S)
           r == [k \in S |-> rank(k)]
           f == [i \in 1..N |-> CHOOSE k \in S : rank(k) = i]
<1>0. \A k \in S : k \in Nat
  <2>1. \A k \in 1..n : k \in Nat
    OBVIOUS
  <2> QED  BY <2>1
<1>1. IsFiniteSet(S) /\ N \in Nat /\ IsFiniteSet(1..N) /\ Cardinality(1..N) = N
  <2>1. 1 \in Int /\ n \in Int
    OBVIOUS
  <2>2. IsFiniteSet(1..n)
    BY <2>1, FS_Interval
  <2>3. IsFiniteSet(S)
    BY <2>2, FS_Subset
  <2>4. N \in Nat /\ N \in Int
    BY <2>3, FS_CardinalityType
  <2>5. IsFiniteSet(1..N) /\ Cardinality(1..N) = IF 1 > N THEN 0 ELSE N - 1 + 1
    BY <2>1, <2>4, FS_Interval
  <2> QED  BY <2>3, <2>4, <2>5
<1>2. ASSUME NEW k \in S
      PROVE  IsFiniteSet(upTo(k)) /\ rank(k) \in Nat /\ rank(k) \in 1..N
  <2>1. upTo(k) \in SUBSET S /\ {k} \in SUBSET upTo(k)
    BY <1>2
  <2>2. IsFiniteSet(upTo(k)) /\ rank(k) <= N
    BY <1>1, <2>1, FS_Subset
  <2>3. Cardinality({k}) <= rank(k) /\ Cardinality({k}) = 1
    BY <2>1, <2>2, FS_Subset, FS_Singleton
  <2>4. rank(k) \in Nat
    BY <2>2, FS_CardinalityType
  <2> QED  BY <1>1, <2>2, <2>3, <2>4
<1>3. ASSUME NEW k \in S, NEW l \in S, k < l PROVE rank(k) < rank(l)
  <2>1. upTo(k) \in SUBSET upTo(l) /\ l \in upTo(l) /\ l \notin upTo(k)
    <3>1. k \in Nat /\ l \in Nat /\ k < l
      BY <1>0, <1>3
    <3>2. ASSUME NEW i \in S, i <= k PROVE i <= l
      <4>1. i \in Nat
        BY <1>0
      <4> QED  BY <3>1, <3>2, <4>1
    <3>3. ~ (l <= k) /\ l <= l
      BY <3>1
    <3>4. upTo(k) \subseteq upTo(l)
      BY <3>2
    <3>5. l \in upTo(l) /\ l \notin upTo(k)
      BY <1>3, <3>3
    <3> QED  BY <3>4, <3>5
  <2>2. rank(k) <= rank(l) /\ rank(l) # rank(k)
    <3>1. IsFiniteSet(upTo(l)) /\ upTo(k) # upTo(l)
      BY <1>2, <2>1
    <3> HIDE DEF upTo
    <3>2. Cardinality(upTo(k)) <= Cardinality(upTo(l)) /\ Cardinality(upTo(l)) # Cardinality(upTo(k))
      BY <2>1, <3>1, FS_Subset
    <3> QED  BY <3>2
  <2>3. rank(k) \in Nat /\ rank(l) \in Nat
    BY <1>2
  <2> HIDE DEF rank
  <2> QED  BY <2>2, <2>3
<1> HIDE DEF rank
<1>4. r \in Injection(S, 1..N)
  <2>1. ASSUME NEW k \in S, NEW l \in S, rank(k) = rank(l) PROVE k = l
    <3>1. k \in Nat /\ l \in Nat /\ rank(k) \in Nat /\ rank(l) \in Nat
      BY <1>0, <1>2
    <3>2. (k < l => rank(k) < rank(l)) /\ (l < k => rank(l) < rank(k))
      BY <1>3
    <3> QED  BY <2>1, <3>1, <3>2
  <2> QED  BY <1>2, <2>1 DEF Injection, IsInjective
<1>5. r \in Surjection(S, 1..N)
  BY <1>1, <1>4, FS_Injection
<1>6. ASSUME NEW i \in 1..N PROVE \E k \in S : rank(k) = i
  BY <1>5 DEF Surjection
<1>7. \A i \in 1..N : f[i] \in S /\ rank(f[i]) = i
  BY <1>6
<1>8. ASSUME NEW i \in 1..N, NEW j \in 1..N, i < j PROVE f[i] < f[j]
  <2>1. f[i] \in S /\ f[j] \in S /\ rank(f[i]) = i /\ rank(f[j]) = j
    BY <1>7
  <2> HIDE DEF f
  <2>2. f[i] \in Nat /\ f[j] \in Nat
    BY <1>0, <2>1
  <2>3. ~ (f[j] < f[i]) /\ f[i] # f[j]
    <3>1. f[j] < f[i] => rank(f[j]) < rank(f[i])
      BY <1>3, <2>1
    <3> QED  BY <1>8, <2>1, <3>1
  <2> QED  BY <2>2, <2>3
<1>9. f \in [1..N -> S]
  BY <1>7
<1> QED  BY <1>1, <1>8, <1>9

(* An increasing enumeration misses no place. *)
LEMMA ReachesAll ==
  ASSUME NEW n \in Nat, NEW S \in SUBSET (1..n), NEW f \in [1..Cardinality(S) -> S],
         \A i, j \in 1..Cardinality(S) : i < j => f[i] < f[j]
  PROVE  \A k \in S : \E i \in 1..Cardinality(S) : f[i] = k
<1> DEFINE N == Cardinality(S)
<1>1. IsFiniteSet(S) /\ N \in Nat
  BY InOrderOf
<1>2. IsFiniteSet(1..N) /\ Cardinality(1..N) = N
  <2>1. 1 \in Int /\ N \in Int
    BY <1>1
  <2>2. IsFiniteSet(1..N) /\ Cardinality(1..N) = IF 1 > N THEN 0 ELSE N - 1 + 1
    BY <2>1, FS_Interval
  <2> QED  BY <1>1, <2>2
<1>3. f \in Injection(1..N, S)
  <2>1. ASSUME NEW i \in 1..N, NEW j \in 1..N, i # j PROVE f[i] # f[j]
    <3>1. i < j \/ j < i
      BY <1>1, <2>1
    <3>2. f[i] \in S /\ f[j] \in S /\ f[i] \in 1..n /\ f[j] \in 1..n
      BY <2>1
    <3> QED  BY <3>1, <3>2
  <2> QED  BY <2>1 DEF Injection, IsInjective
<1>4. f \in Surjection(1..N, S)
  BY <1>1, <1>2, <1>3, FS_Injection
<1> QED  BY <1>4 DEF Surjection

(* What the terminal leaves of the queue: everything else, in its order. *)
LEMMA WithoutIs ==
  ASSUME NEW q \in Seq(Message), NEW gone, MaxMessage \in Nat
  PROVE  /\ Without(q, gone) \in Seq(Message) /\ Elems(Without(q, gone)) = Elems(q) \ gone
         /\ Increasing(q) => Increasing(Without(q, gone))
<1> DEFINE stays == {i \in 1..Len(q) : q[i] \notin gone}
           N == Cardinality(stays)
           ordered(f) == \A i, j \in 1..N : i < j => f[i] < f[j]
           nth == CHOOSE f \in [1..N -> stays] : ordered(f)
<1>1. Len(q) \in Nat /\ stays \in SUBSET (1..Len(q)) /\ \A i \in 1..Len(q) : q[i] \in Message
  OBVIOUS
<1>2. N \in Nat /\ \E f \in [1..N -> stays] : ordered(f)
  BY <1>1, InOrderOf
<1>3. nth \in [1..N -> stays] /\ ordered(nth)
  BY <1>2
<1>4. \A k \in stays : \E i \in 1..N : nth[i] = k
  BY <1>1, <1>3, ReachesAll
<1>5. Without(q, gone) = [i \in 1..N |-> q[nth[i]]]
  BY DEF Without
<1> HIDE DEF nth, N
<1>6. /\ Without(q, gone) \in Seq(Message) /\ Len(Without(q, gone)) = N
      /\ \A i \in 1..N : Without(q, gone)[i] = q[nth[i]] /\ nth[i] \in 1..Len(q) /\ q[nth[i]] \notin gone
  BY <1>1, <1>2, <1>3, <1>5
<1>7. Elems(Without(q, gone)) = Elems(q) \ gone
  <2>1. Elems(Without(q, gone)) \subseteq Elems(q) \ gone
    BY <1>6 DEF Elems
  <2>2. ASSUME NEW k \in 1..Len(q), q[k] \notin gone PROVE q[k] \in Elems(Without(q, gone))
    BY <1>4, <1>6, <2>2 DEF Elems
  <2> QED  BY <2>1, <2>2 DEF Elems
<1>8. ASSUME Increasing(q) PROVE Increasing(Without(q, gone))
  BY <1>3, <1>6, <1>8 DEF Increasing
<1> QED  BY <1>6, <1>7, <1>8
-----------------------------------------------------------------------------
OutputIn(S) == S \ Control(S)

(* What the proof needs of the types. *)
LineTypes ==
  /\ queue \in Seq(Message) /\ writing \in Seq(Message) /\ written \in Seq(Message)
  /\ closing \in BOOLEAN /\ timer \in BOOLEAN /\ cancelled \in BOOLEAN /\ wake \in BOOLEAN
  /\ writer \in {"checking", "parking", "waiting", "writing", "failed", "done"}
  /\ Len(writing) = IF writer = "writing" THEN 1 ELSE 0
  /\ offered \in 0..MaxMessage /\ finished \subseteq Call
  /\ kept \subseteq Message /\ evicted \subseteq Message
  /\ overflow \in {<<>>} \cup (Nat \X Nat)

Counts ==
  /\ bytes \in 0..MaxBytes /\ buffered \in [Call -> 0..MaxBuffered]
  /\ Accounted

(* What was written, is being written and is queued stand in line. *)
InLine ==
  /\ Increasing(written) /\ Increasing(queue)
  /\ Before(Elems(written), Held) /\ Before(Elems(writing), Elems(queue))
  /\ Elems(written) \cup Held \subseteq kept
  /\ \A m \in kept : m.nr <= offered

(* Output never has the room that is reserved for everything else. *)
ReserveKept ==
  /\ Cardinality(OutputIn(Elems(queue))) <= MaxFrames - ReserveFrames
  /\ Total(OutputIn(Held)) <= MaxBytes - ReserveBytes
  /\ OutputNeverOverflows

(* Nothing but the terminal of a call evicts, and only the call's output; the one
   exit it may have was there to say so. *)
Evictions ==
  /\ \A x \in evicted : x.kind = "output" /\ x.call \in finished
  /\ \A m \in kept : m.kind \in TerminalKind => m.call \in finished
  /\ \A m \in kept : m.kind = "exit" /\ (\E x \in evicted : x.call = m.call) => m.truncated

(* On a connection that was not cut, what was accepted is somewhere. *)
Complete == ~cancelled /\ writer # "failed" => kept \ evicted \subseteq Elems(written) \cup Held

QueueIInv == LineTypes /\ Counts /\ InLine /\ ReserveKept /\ Evictions /\ Complete

(* The fields of a message. *)
LEMMA MessageIs ==
  ASSUME NEW m \in Message
  PROVE  /\ m.nr \in Nat /\ m.nr \in 1..MaxMessage /\ m.size \in Nat /\ m.call \in Call
         /\ m.kind \in FrameKind /\ m.truncated \in BOOLEAN
<1>1. /\ m.nr \in 1..MaxMessage /\ m.size \in Size /\ m.call \in Call
      /\ m.kind \in FrameKind /\ m.truncated \in BOOLEAN
  BY DEF Message
<1>2. Size \subseteq Nat /\ MaxMessage \in Nat
  BY OutboxAssumption
<1>3. m.nr \in Nat
  <2>1. \A n \in 1..MaxMessage : n \in Nat
    BY <1>2
  <2> QED  BY <1>1, <2>1
<1>4. m.size \in Nat
  BY <1>1, <1>2
<1> QED  BY <1>1, <1>3, <1>4

(* What is held can be counted. *)
LEMMA HeldIs ==
  ASSUME LineTypes
  PROVE  /\ Elems(writing) \subseteq Message /\ Elems(queue) \subseteq Message
         /\ Elems(written) \subseteq Message /\ Held \subseteq Message
         /\ Countable(Elems(writing)) /\ Countable(Elems(queue)) /\ Countable(Held)
<1>1. /\ Elems(writing) \subseteq Message /\ Elems(queue) \subseteq Message
      /\ Elems(written) \subseteq Message /\ IsFiniteSet(Elems(writing)) /\ IsFiniteSet(Elems(queue))
  BY ElemsFinite DEF LineTypes
<1>2. Countable(Elems(writing)) /\ Countable(Elems(queue))
  BY <1>1, MessageIs DEF Countable
<1>3. Countable(Held)
  BY <1>2, FS_Union DEF Countable, Held
<1> QED  BY <1>1, <1>2, <1>3 DEF Held

(* A queue from which output was removed, with its counters. *)
Remains(q, b, buf) ==
  /\ q \in Seq(Message) /\ Increasing(q) /\ Elems(q) \subseteq Elems(queue)
  /\ b \in 0..MaxBytes /\ buf \in [Call -> 0..MaxBuffered]
  /\ b = Total(Elems(writing) \cup Elems(q))
  /\ \A c \in Call : buf[c] = Total(OutputOf(Elems(writing) \cup Elems(q), c))

(* Nothing removed, nothing changed. *)
LEMMA AllRemains == ASSUME QueueIInv PROVE Remains(queue, bytes, buffered)
  BY DEF QueueIInv, LineTypes, Counts, InLine, Remains, Accounted, Held

(* A terminal that evicts leaves a queue whose counters are exact again. *)
LEMMA EvictLeaves ==
  ASSUME QueueIInv, NEW m \in Message, NEW gone, gone = Evict(m)
  PROVE  /\ Remains(Without(queue, gone), bytes - Total(gone),
                    [buffered EXCEPT ![m.call] = @ - Total(OutputOf(gone, m.call))])
         /\ Elems(Without(queue, gone)) = Elems(queue) \ gone
         /\ gone \subseteq OutputOf(Elems(queue), m.call)
<1> DEFINE q == Without(queue, gone)
           W == Elems(writing)
           n == Total(OutputOf(gone, m.call))
           buf == [buffered EXCEPT ![m.call] = @ - n]
<1>1. gone \subseteq OutputOf(Elems(queue), m.call) /\ m.call \in Call
  BY MessageIs DEF Evict, Discarded
<1>2. gone \subseteq Elems(queue)
  BY <1>1 DEF OutputOf
<1>3. LineTypes /\ InLine /\ Counts /\ MaxMessage \in Nat /\ MaxBytes \in Nat /\ MaxBuffered \in Nat
  BY OutboxAssumption DEF QueueIInv
<1>4. q \in Seq(Message) /\ Elems(q) = Elems(queue) \ gone /\ Increasing(q)
  BY <1>3, WithoutIs DEF LineTypes, InLine
<1>5. W \cap gone = {}
  <2>1. ASSUME NEW x, x \in W, x \in Elems(queue) PROVE FALSE
    <3>1. x \in Message
      BY <1>3, <2>1, HeldIs
    <3>2. x.nr < x.nr /\ x.nr \in Nat
      BY <1>3, <2>1, <3>1, MessageIs DEF InLine, Before
    <3> QED  BY <3>2
  <2> QED  BY <1>2, <2>1
<1>6. W \cup Elems(q) = Held \ gone /\ gone \subseteq Held /\ Countable(Held)
  BY <1>2, <1>3, <1>4, <1>5, HeldIs DEF Held
<1>7. /\ Total(gone) \in Nat /\ Total(Held \ gone) \in Nat /\ Total(Held) = Total(Held \ gone) + Total(gone)
      /\ Countable(gone)
  BY <1>6, TotalLess
<1>8. bytes - Total(gone) \in 0..MaxBytes /\ bytes - Total(gone) = Total(W \cup Elems(q))
  <2>1. bytes = Total(Held) /\ bytes \in 0..MaxBytes
    BY <1>3 DEF Counts, Accounted
  <2> HIDE DEF q, W
  <2>2. Total(W \cup Elems(q)) = Total(Held \ gone)
    BY <1>6
  <2> QED  BY <1>3, <1>7, <2>1, <2>2
<1>9. ASSUME NEW c \in Call
      PROVE  /\ Total(OutputOf(gone, c)) \in Nat /\ Total(OutputOf(Held \ gone, c)) \in Nat
             /\ buffered[c] = Total(OutputOf(Held \ gone, c)) + Total(OutputOf(gone, c))
             /\ c # m.call => Total(OutputOf(gone, c)) = 0
  <2>1. /\ OutputOf(Held, c) \subseteq Held /\ OutputOf(gone, c) \subseteq OutputOf(Held, c)
        /\ OutputOf(Held \ gone, c) = OutputOf(Held, c) \ OutputOf(gone, c)
    BY <1>6 DEF OutputOf
  <2>2. Countable(OutputOf(Held, c))
    <3>1. Countable(Held)
      BY <1>6
    <3> QED  BY <2>1, <3>1, TotalLess
  <2>3. /\ Total(OutputOf(gone, c)) \in Nat /\ Total(OutputOf(Held \ gone, c)) \in Nat
        /\ Total(OutputOf(Held, c)) = Total(OutputOf(Held \ gone, c)) + Total(OutputOf(gone, c))
    <3>1. OutputOf(gone, c) \subseteq OutputOf(Held, c)
      BY <2>1
    <3>2. /\ Total(OutputOf(gone, c)) \in Nat /\ Total(OutputOf(Held, c) \ OutputOf(gone, c)) \in Nat
          /\ Total(OutputOf(Held, c)) = Total(OutputOf(Held, c) \ OutputOf(gone, c)) + Total(OutputOf(gone, c))
      BY <2>2, <3>1, TotalLess
    <3> QED  BY <2>1, <3>2
  <2>4. buffered[c] = Total(OutputOf(Held, c))
    BY <1>3 DEF Counts, Accounted
  <2>5. c # m.call => OutputOf(gone, c) = {}
    BY <1>1 DEF OutputOf
  <2> QED  BY <2>3, <2>4, <2>5, TotalEmpty
<1>10. buf \in [Call -> 0..MaxBuffered] /\ \A c \in Call : buf[c] = Total(OutputOf(W \cup Elems(q), c))
  <2>1. buffered \in [Call -> 0..MaxBuffered]
    BY <1>3 DEF Counts
  <2>2. ASSUME NEW c \in Call
        PROVE  buf[c] \in 0..MaxBuffered /\ buf[c] = Total(OutputOf(W \cup Elems(q), c))
    <3>1. buffered[c] \in 0..MaxBuffered
      BY <2>1
    <3>2. buf[c] = IF c = m.call THEN buffered[c] - n ELSE buffered[c]
      BY <2>1, <1>1
    <3>3. c = m.call => n = Total(OutputOf(gone, c))
      OBVIOUS
    <3>4. /\ Total(OutputOf(gone, c)) \in Nat /\ Total(OutputOf(Held \ gone, c)) \in Nat
          /\ buffered[c] = Total(OutputOf(Held \ gone, c)) + Total(OutputOf(gone, c))
          /\ c # m.call => Total(OutputOf(gone, c)) = 0
      BY <1>9
    <3> HIDE DEF n, buf, W, q
    <3>5. buf[c] = Total(OutputOf(Held \ gone, c))
      BY <3>2, <3>3, <3>4
    <3>6. buf[c] \in 0..MaxBuffered
      BY <1>3, <3>1, <3>4, <3>5
    <3> QED  BY <1>6, <3>5, <3>6
  <2>3. buf \in [Call -> 0..MaxBuffered]
    <3>1. DOMAIN buf = Call /\ buf = [c \in Call |-> buf[c]]
      BY <2>1
    <3> HIDE DEF buf
    <3> QED  BY <2>2, <3>1
  <2> QED  BY <2>2, <2>3
<1> QED  BY <1>1, <1>4, <1>8, <1>10 DEF Remains

(* A message that is appended to what remains of the queue. *)
Appended(m, q, b, buf0, buf) ==
  /\ m \in Message /\ m.nr = offered + 1 /\ offered' = offered + 1
  /\ Remains(q, b, buf0) /\ Push(m, q, b, buf) /\ UNCHANGED <<writing, written>>
  /\ b + m.size <= MaxBytes
  /\ IF m.kind = "output"
     THEN /\ buf0[m.call] + m.size <= MaxBuffered /\ buf = [buf0 EXCEPT ![m.call] = @ + m.size]
          /\ Len(q) < MaxFrames - ReserveFrames /\ b + m.size <= MaxBytes - ReserveBytes
     ELSE buf = buf0

(* What is held once a message was appended. *)
LEMMA AppendedHeld ==
  ASSUME QueueIInv, NEW m, NEW q, NEW b, NEW buf0, NEW buf, Appended(m, q, b, buf0, buf)
  PROVE  /\ queue' \in Seq(Message) /\ Elems(queue') = Elems(q) \cup {m}
         /\ Held' = (Elems(writing) \cup Elems(q)) \cup {m}
         /\ Elems(writing) \cup Elems(q) \subseteq Held
         /\ \A x \in Held \cup Elems(written) : x \in kept /\ x.nr \in Nat /\ x.nr < m.nr
         /\ m \notin Held /\ Countable(Held)
<1>1. q \in Seq(Message) /\ m \in Message /\ Elems(q) \subseteq Elems(queue) /\ queue' = Append(q, m)
  BY DEF Appended, Remains, Push, LinedUp
<1>2. queue' \in Seq(Message) /\ Elems(queue') = Elems(q) \cup {m}
  BY <1>1, ElemsAppend
<1>3. Elems(writing') = Elems(writing)
  BY DEF Appended
<1>4. LineTypes /\ InLine /\ offered \in Nat
  BY OutboxAssumption DEF QueueIInv, LineTypes
<1>5. ASSUME NEW x \in Held \cup Elems(written) PROVE x \in kept /\ x.nr \in Nat /\ x.nr < m.nr
  <2>1. x \in kept /\ x.nr <= offered /\ x \in Message
    BY <1>4, HeldIs DEF InLine
  <2>2. x.nr \in Nat /\ m.nr = offered + 1
    BY <2>1, MessageIs DEF Appended
  <2> QED  BY <1>4, <2>1, <2>2
<1>6. m \notin Held
  <2>1. ~ (m.nr < m.nr)
    BY <1>1, MessageIs
  <2> QED  BY <1>5, <2>1
<1> QED  BY <1>1, <1>2, <1>3, <1>4, <1>5, <1>6, HeldIs DEF Held

(* Push keeps the counters exact. *)
LEMMA AppendedCounts ==
  ASSUME QueueIInv, NEW m, NEW q, NEW b, NEW buf0, NEW buf, Appended(m, q, b, buf0, buf)
  PROVE  Counts'
<1> DEFINE H == Elems(writing) \cup Elems(q)
<1>1. /\ m \in Message /\ m.size \in Nat /\ m.call \in Call
      /\ MaxBytes \in Nat /\ MaxBuffered \in Nat
  BY MessageIs, OutboxAssumption DEF Appended
<1>2. /\ b \in 0..MaxBytes /\ buf0 \in [Call -> 0..MaxBuffered] /\ b = Total(H)
      /\ \A c \in Call : buf0[c] = Total(OutputOf(H, c))
      /\ bytes' = b + m.size /\ buffered' = buf /\ b + m.size <= MaxBytes
  BY DEF Appended, Remains, Push
<1>3. Held' = H \cup {m} /\ H \subseteq Held /\ m \notin H /\ Countable(H)
  <2>1. Held' = H \cup {m} /\ H \subseteq Held /\ m \notin Held /\ Countable(Held)
    BY AppendedHeld
  <2> QED  BY <2>1, TotalLess
<1> HIDE DEF H
<1>4. ASSUME NEW S, Countable(S), m \notin S PROVE Total(S \cup {m}) = Total(S) + m.size
  <2>1. Countable({m}) /\ Total({m}) = m.size /\ S \cap {m} = {}
    BY <1>1, <1>4, TotalOne
  <2> QED  BY <1>4, <2>1, TotalUnion
<1>5. bytes' \in 0..MaxBytes /\ bytes' = Total(Held')
  BY <1>1, <1>2, <1>3, <1>4
<1>6. ASSUME NEW c \in Call
      PROVE  /\ Countable(OutputOf(H, c)) /\ m \notin OutputOf(H, c)
             /\ OutputOf(Held', c) = IF m.kind = "output" /\ c = m.call THEN OutputOf(H, c) \cup {m}
                                     ELSE OutputOf(H, c)
  <2>1. OutputOf(H, c) \subseteq H
    BY DEF OutputOf
  <2>2. Countable(OutputOf(H, c)) /\ m \notin OutputOf(H, c)
    BY <1>3, <2>1, TotalLess
  <2>3. OutputOf(Held', c) = IF m.kind = "output" /\ c = m.call THEN OutputOf(H, c) \cup {m}
                             ELSE OutputOf(H, c)
    BY <1>3 DEF OutputOf
  <2> QED  BY <2>2, <2>3
<1>7. CASE m.kind = "output"
  <2>1. buf0[m.call] + m.size <= MaxBuffered /\ buf = [buf0 EXCEPT ![m.call] = @ + m.size]
    BY <1>7 DEF Appended
  <2>2. buf0[m.call] \in 0..MaxBuffered
    BY <1>1, <1>2
  <2>3. buf0[m.call] + m.size \in 0..MaxBuffered
    BY <1>1, <2>1, <2>2
  <2>4. buf \in [Call -> 0..MaxBuffered]
    BY <1>1, <1>2, <2>1, <2>3
  <2>5. ASSUME NEW c \in Call PROVE buf[c] = Total(OutputOf(Held', c))
    <3>1. CASE c = m.call
      <4>1. buf[c] = buf0[c] + m.size
        BY <1>2, <2>1, <3>1
      <4>2. Total(OutputOf(H, c) \cup {m}) = Total(OutputOf(H, c)) + m.size
        BY <1>4, <1>6
      <4> QED  BY <1>2, <1>6, <1>7, <3>1, <4>1, <4>2
    <3>2. CASE c # m.call
      <4>1. buf[c] = buf0[c]
        BY <1>2, <2>1, <3>2
      <4> QED  BY <1>2, <1>6, <3>2, <4>1
    <3> QED  BY <3>1, <3>2
  <2> QED  BY <1>2, <1>5, <2>4, <2>5 DEF Counts, Accounted
<1>8. CASE m.kind # "output"
  <2>1. buf = buf0
    BY <1>8 DEF Appended
  <2>2. \A c \in Call : OutputOf(Held', c) = OutputOf(H, c)
    BY <1>6, <1>8
  <2> QED  BY <1>2, <1>5, <2>1, <2>2 DEF Counts, Accounted
<1> QED  BY <1>7, <1>8

(* The message appended is the last in line. *)
LEMMA AppendedLine ==
  ASSUME QueueIInv, NEW m, NEW q, NEW b, NEW buf0, NEW buf, Appended(m, q, b, buf0, buf)
  PROVE  InLine'
<1>1. /\ Elems(queue') = Elems(q) \cup {m} /\ Held' = (Elems(writing) \cup Elems(q)) \cup {m}
      /\ Elems(writing) \cup Elems(q) \subseteq Held
      /\ \A x \in Held \cup Elems(written) : x \in kept /\ x.nr \in Nat /\ x.nr < m.nr
  BY AppendedHeld
<1>2. /\ InLine /\ Elems(q) \subseteq Elems(queue) /\ Increasing(q) /\ q \in Seq(Message)
      /\ queue' = Append(q, m) /\ kept' = kept \cup {m} /\ offered' = offered + 1
      /\ writing' = writing /\ written' = written /\ m.nr = offered + 1 /\ offered \in Nat
      /\ kept \subseteq Message /\ m \in Message
  BY OutboxAssumption DEF QueueIInv, LineTypes, Appended, Remains, Push, LinedUp
<1>3. Increasing(queue')
  <2>1. /\ Len(q) \in Nat /\ Len(Append(q, m)) = Len(q) + 1
        /\ \A i \in 1..Len(q) : Append(q, m)[i] = q[i] /\ q[i] \in Elems(q)
        /\ Append(q, m)[Len(q) + 1] = m
    BY <1>2 DEF Elems
  <2>2. ASSUME NEW i \in 1..Len(Append(q, m)), NEW j \in 1..Len(Append(q, m)), i < j
        PROVE  Append(q, m)[i].nr < Append(q, m)[j].nr
    <3>1. i \in 1..Len(q) /\ (j \in 1..Len(q) \/ j = Len(q) + 1)
      BY <2>1, <2>2
    <3>2. CASE j \in 1..Len(q)
      BY <1>2, <2>1, <2>2, <3>1, <3>2 DEF Increasing
    <3>3. CASE j = Len(q) + 1
      <4>1. q[i] \in Held
        BY <1>1, <2>1, <3>1
      <4> QED  BY <1>1, <2>1, <3>1, <3>3, <4>1
    <3> QED  BY <3>1, <3>2, <3>3
  <2> QED  BY <1>2, <2>2 DEF Increasing
<1>4. Before(Elems(written'), Held')
  BY <1>1, <1>2 DEF InLine, Before
<1>5. Before(Elems(writing'), Elems(queue'))
  BY <1>1, <1>2 DEF InLine, Before
<1>6. Elems(written') \cup Held' \subseteq kept'
  BY <1>1, <1>2
<1>7. ASSUME NEW x \in kept' PROVE x.nr <= offered'
  <2>1. x \in kept => x.nr <= offered /\ x.nr \in Nat
    BY <1>2, MessageIs DEF InLine
  <2> QED  BY <1>2, <2>1
<1>8. Increasing(written')
  BY <1>2 DEF InLine
<1> QED  BY <1>3, <1>4, <1>5, <1>6, <1>7, <1>8 DEF InLine

(* Output that was not added leaves as much of the reserve as before. *)
LEMMA OutputLess ==
  ASSUME QueueIInv, OutputIn(Elems(queue')) \subseteq OutputIn(Elems(queue)),
         OutputIn(Held') \subseteq OutputIn(Held)
  PROVE  /\ Cardinality(OutputIn(Elems(queue'))) <= MaxFrames - ReserveFrames
         /\ Total(OutputIn(Held')) <= MaxBytes - ReserveBytes
<1>1. /\ LineTypes /\ ReserveKept /\ MaxFrames - ReserveFrames \in Nat /\ MaxBytes - ReserveBytes \in Nat
  BY OutboxAssumption DEF QueueIInv
<1>2. IsFiniteSet(OutputIn(Elems(queue))) /\ Countable(OutputIn(Held))
  <2>1. OutputIn(Elems(queue)) \subseteq Elems(queue) /\ OutputIn(Held) \subseteq Held
    BY DEF OutputIn
  <2>2. Countable(Elems(queue)) /\ Countable(Held)
    BY <1>1, HeldIs
  <2> QED  BY <2>1, <2>2, TotalLess, FS_Subset DEF Countable
<1>3. Cardinality(OutputIn(Elems(queue'))) <= MaxFrames - ReserveFrames
  <2>1. /\ IsFiniteSet(OutputIn(Elems(queue')))
        /\ Cardinality(OutputIn(Elems(queue'))) <= Cardinality(OutputIn(Elems(queue)))
    BY <1>2, FS_Subset
  <2>2. Cardinality(OutputIn(Elems(queue'))) \in Nat /\ Cardinality(OutputIn(Elems(queue))) \in Nat
    BY <1>2, <2>1, FS_CardinalityType
  <2> QED  BY <1>1, <2>1, <2>2 DEF ReserveKept
<1>4. Total(OutputIn(Held')) <= MaxBytes - ReserveBytes
  <2>1. /\ Total(OutputIn(Held')) \in Nat /\ Total(OutputIn(Held) \ OutputIn(Held')) \in Nat
        /\ Total(OutputIn(Held)) = Total(OutputIn(Held) \ OutputIn(Held')) + Total(OutputIn(Held'))
    BY <1>2, TotalLess
  <2> QED  BY <1>1, <2>1 DEF ReserveKept
<1> QED  BY <1>3, <1>4

(* Output is appended only where it leaves the reserve. *)
LEMMA AppendedReserve ==
  ASSUME QueueIInv, NEW m, NEW q, NEW b, NEW buf0, NEW buf, Appended(m, q, b, buf0, buf)
  PROVE  ReserveKept'
<1>1. /\ queue' \in Seq(Message) /\ Elems(queue') = Elems(q) \cup {m}
      /\ Held' = (Elems(writing) \cup Elems(q)) \cup {m} /\ Elems(writing) \cup Elems(q) \subseteq Held
      /\ Countable(Held)
  BY AppendedHeld
<1>2. /\ MaxFrames - ReserveFrames \in Nat /\ MaxBytes - ReserveBytes \in Nat
      /\ m \in Message /\ m.size \in Nat /\ q \in Seq(Message) /\ queue' = Append(q, m)
      /\ Elems(q) \subseteq Elems(queue) /\ b \in Nat /\ bytes' = b + m.size
  BY MessageIs, OutboxAssumption DEF Appended, Remains, Push, LinedUp
<1>3. OutputNeverOverflows'
  BY DEF QueueIInv, ReserveKept, OutputNeverOverflows, Appended, Push
<1>4. CASE m.kind = "output"
  <2>1. Len(q) < MaxFrames - ReserveFrames /\ b + m.size <= MaxBytes - ReserveBytes
    BY <1>4 DEF Appended
  <2>2. Cardinality(OutputIn(Elems(queue'))) <= MaxFrames - ReserveFrames
    <3>1. /\ IsFiniteSet(Elems(queue')) /\ Cardinality(Elems(queue')) \in Nat
          /\ Cardinality(Elems(queue')) <= Len(queue')
      BY <1>1, ElemsFinite
    <3>2. Len(queue') = Len(q) + 1 /\ Len(q) \in Nat
      BY <1>2
    <3>3. OutputIn(Elems(queue')) \subseteq Elems(queue')
      BY DEF OutputIn
    <3>4. /\ IsFiniteSet(OutputIn(Elems(queue')))
          /\ Cardinality(OutputIn(Elems(queue'))) <= Cardinality(Elems(queue'))
      BY <3>1, <3>3, FS_Subset
    <3>5. Cardinality(OutputIn(Elems(queue'))) \in Nat
      BY <3>4, FS_CardinalityType
    <3> QED  BY <1>2, <2>1, <3>1, <3>2, <3>4, <3>5
  <2>3. Total(OutputIn(Held')) <= MaxBytes - ReserveBytes
    <3>1. Countable(Held')
      <4>1. Countable(Elems(writing) \cup Elems(q)) /\ Countable({m})
        BY <1>1, <1>2, TotalLess, TotalOne
      <4> QED  BY <1>1, <4>1, FS_Union DEF Countable
    <3>2. OutputIn(Held') \subseteq Held'
      BY DEF OutputIn
    <3>3. /\ Total(OutputIn(Held')) \in Nat /\ Total(Held' \ OutputIn(Held')) \in Nat
          /\ Total(Held') = Total(Held' \ OutputIn(Held')) + Total(OutputIn(Held'))
      BY <3>1, <3>2, TotalLess
    <3>4. Total(Held') = b + m.size
      BY <1>2, AppendedCounts DEF Counts, Accounted
    <3> QED  BY <1>2, <2>1, <3>3, <3>4
  <2> QED  BY <1>3, <2>2, <2>3 DEF ReserveKept
<1>5. CASE m.kind # "output"
  <2>1. /\ OutputIn(Elems(queue')) \subseteq OutputIn(Elems(queue))
        /\ OutputIn(Held') \subseteq OutputIn(Held)
    BY <1>1, <1>2, <1>5 DEF OutputIn, Control
  <2> QED  BY <1>3, <2>1, OutputLess DEF ReserveKept
<1> QED  BY <1>4, <1>5

(* What does not fit without output does not fit into the reserve. *)
LEMMA OverflowIs ==
  ASSUME QueueIInv, NEW m \in Message, NEW q, NEW b, NEW buf, Remains(q, b, buf), ~Fits(m, q, b)
  PROVE  /\ Cardinality(Control(Elems(q))) \in Nat /\ Total(Control(Held)) + m.size \in Nat
         /\ \/ Cardinality(Control(Elems(q))) >= ReserveFrames
            \/ Total(Control(Held)) + m.size > ReserveBytes
<1> DEFINE H == Elems(writing) \cup Elems(q)
<1>1. /\ LineTypes /\ ReserveKept /\ m.size \in Nat /\ MaxMessage \in Nat
      /\ MaxFrames \in Nat /\ ReserveFrames \in Nat /\ MaxBytes \in Nat /\ ReserveBytes \in Nat
  BY MessageIs, OutboxAssumption DEF QueueIInv
<1>2. /\ q \in Seq(Message) /\ Increasing(q) /\ Elems(q) \subseteq Elems(queue) /\ b = Total(H)
      /\ H \subseteq Held /\ b \in Nat
  BY OutboxAssumption DEF Remains, Held
<1> HIDE DEF H
<1>3. Countable(Held) /\ Countable(Elems(queue)) /\ Countable(H) /\ Countable(Elems(q))
  <2>1. Countable(Held) /\ Countable(Elems(queue))
    BY <1>1, HeldIs
  <2> QED  BY <1>2, <2>1, TotalLess
<1>4. ASSUME NEW S, NEW T, Countable(S), T \subseteq S
      PROVE  /\ Cardinality(Control(S)) \in Nat /\ Cardinality(OutputIn(T)) \in Nat
             /\ Cardinality(OutputIn(S)) \in Nat
             /\ Cardinality(S) = Cardinality(Control(S)) + Cardinality(OutputIn(S))
             /\ Cardinality(OutputIn(T)) <= Cardinality(OutputIn(S))
             /\ Total(Control(S)) \in Nat /\ Total(Control(T)) \in Nat
             /\ Total(OutputIn(S)) \in Nat /\ Total(OutputIn(T)) \in Nat
             /\ Total(S) = Total(Control(S)) + Total(OutputIn(S))
             /\ Total(Control(T)) <= Total(Control(S)) /\ Total(OutputIn(T)) <= Total(OutputIn(S))
  <2>1. /\ Control(S) \subseteq S /\ OutputIn(S) = S \ Control(S) /\ S \cap Control(S) = Control(S)
        /\ Control(T) \subseteq Control(S) /\ OutputIn(T) \subseteq OutputIn(S) /\ OutputIn(S) \subseteq S
    BY <1>4 DEF Control, OutputIn
  <2>2. Countable(Control(S)) /\ Countable(OutputIn(S)) /\ Countable(OutputIn(T)) /\ Countable(Control(T))
    BY <1>4, <2>1, TotalLess
  <2>3. /\ Cardinality(S) \in Nat /\ Cardinality(Control(S)) \in Nat
        /\ Cardinality(OutputIn(S)) \in Nat /\ Cardinality(OutputIn(T)) \in Nat
    BY <1>4, <2>2, FS_CardinalityType DEF Countable
  <2>4. Cardinality(S \ Control(S)) = Cardinality(S) - Cardinality(S \cap Control(S))
    BY <1>4, FS_Difference DEF Countable
  <2>5. Cardinality(S) = Cardinality(Control(S)) + Cardinality(OutputIn(S))
    <3>1. OutputIn(S) = S \ Control(S) /\ S \cap Control(S) = Control(S)
      BY <2>1
    <3>2. Cardinality(OutputIn(S)) = Cardinality(S) - Cardinality(Control(S))
      BY <2>4, <3>1
    <3> QED  BY <2>3, <3>2
  <2>6. Cardinality(OutputIn(T)) <= Cardinality(OutputIn(S))
    BY <2>1, <2>2, FS_Subset DEF Countable
  <2>7. /\ Total(Control(S)) \in Nat /\ Total(S \ Control(S)) \in Nat
        /\ Total(S) = Total(S \ Control(S)) + Total(Control(S))
    BY <1>4, <2>1, TotalLess
  <2>8. /\ Total(Control(T)) \in Nat /\ Total(Control(S) \ Control(T)) \in Nat
        /\ Total(Control(S)) = Total(Control(S) \ Control(T)) + Total(Control(T))
    BY <2>1, <2>2, TotalLess
  <2>9. /\ Total(OutputIn(T)) \in Nat /\ Total(OutputIn(S) \ OutputIn(T)) \in Nat
        /\ Total(OutputIn(S)) = Total(OutputIn(S) \ OutputIn(T)) + Total(OutputIn(T))
    BY <2>1, <2>2, TotalLess
  <2> QED  BY <2>1, <2>3, <2>5, <2>6, <2>7, <2>8, <2>9
<1>5. Cardinality(Elems(q)) = Len(q)
  BY <1>1, <1>2, ElemsDistinct
<1>6. /\ Cardinality(Control(Elems(q))) \in Nat /\ Cardinality(OutputIn(Elems(q))) \in Nat
      /\ Cardinality(OutputIn(Elems(queue))) \in Nat
      /\ Len(q) = Cardinality(Control(Elems(q))) + Cardinality(OutputIn(Elems(q)))
      /\ Cardinality(OutputIn(Elems(q))) <= Cardinality(OutputIn(Elems(queue)))
  BY <1>2, <1>3, <1>4, <1>5
<1>7. /\ Total(Control(Held)) \in Nat /\ Total(Control(H)) \in Nat
      /\ Total(OutputIn(Held)) \in Nat /\ Total(OutputIn(H)) \in Nat
      /\ b = Total(Control(H)) + Total(OutputIn(H))
      /\ Total(Control(H)) <= Total(Control(Held)) /\ Total(OutputIn(H)) <= Total(OutputIn(Held))
  BY <1>2, <1>3, <1>4
<1>8. Len(q) >= MaxFrames => Cardinality(Control(Elems(q))) >= ReserveFrames
  BY <1>1, <1>6 DEF ReserveKept
<1>9. b + m.size > MaxBytes => Total(Control(Held)) + m.size > ReserveBytes
  BY <1>1, <1>7 DEF ReserveKept
<1>10. Len(q) >= MaxFrames \/ b + m.size > MaxBytes
  BY <1>1, <1>2, <1>6 DEF Fits
<1>11. Total(Control(Held)) + m.size \in Nat
  BY <1>1, <1>7
<1> QED  BY <1>6, <1>8, <1>9, <1>10, <1>11
-----------------------------------------------------------------------------
(* The Hub's calls. *)

(* An exit that evicted is the same message, marked as truncated. *)
LEMMA SettledIs ==
  ASSUME NEW m \in Message
  PROVE  /\ SettledAsEvicted(m) \in Message
         /\ SettledAsEvicted(m).nr = m.nr /\ SettledAsEvicted(m).call = m.call
         /\ SettledAsEvicted(m).kind = m.kind /\ SettledAsEvicted(m).size = m.size
         /\ SettledAsEvicted(m).truncated = (m.kind = "exit" /\ Discarded(m) # {})
  BY DEF SettledAsEvicted, Message

(* What was there and is not evicted stays. *)
Lossless ==
  /\ kept' \ evicted' \subseteq (kept \ evicted) \cup Held'
  /\ (Held \cup Elems(written)) \ evicted' \subseteq Held' \cup Elems(written')

(* A message that is accepted, with what it evicts. *)
Accepted(m, q, b, buf0, buf) ==
  /\ Appended(m, q, b, buf0, buf)
  /\ evicted' \subseteq evicted \cup OutputOf(Elems(queue), m.call)
  /\ evicted \subseteq evicted' /\ Elems(queue) \ Elems(q) \subseteq evicted'
  /\ evicted' # evicted => m.kind \in TerminalKind
  /\ m.kind = "exit" /\ evicted' # evicted => m.truncated
  /\ m.call \notin finished
  /\ finished' = IF m.kind \in TerminalKind THEN finished \cup {m.call} ELSE finished
  /\ offered' \in 0..MaxMessage
  /\ UNCHANGED <<state, goroutine>>

(* Enqueue takes the message. *)
LEMMA AcceptedKeeps ==
  ASSUME QueueIInv, NEW m, NEW q, NEW b, NEW buf0, NEW buf, Accepted(m, q, b, buf0, buf)
  PROVE  QueueIInv' /\ Lossless
<1>1. Appended(m, q, b, buf0, buf)
  BY DEF Accepted
<1>2. Counts' /\ InLine' /\ ReserveKept'
  BY <1>1, AppendedCounts, AppendedLine, AppendedReserve
<1>3. /\ queue' \in Seq(Message) /\ Elems(queue') = Elems(q) \cup {m}
      /\ Held' = (Elems(writing) \cup Elems(q)) \cup {m}
  BY <1>1, AppendedHeld
<1>4. /\ kept' = kept \cup {m} /\ wake' = TRUE /\ overflow' = overflow /\ m \in Message
      /\ UNCHANGED <<writing, written>>
  BY <1>1 DEF Appended, Push, Signal
<1>5. /\ LineTypes /\ Evictions /\ Complete
  BY DEF QueueIInv
<1>6. OutputOf(Elems(queue), m.call) \subseteq Message
  BY <1>5, HeldIs DEF OutputOf
<1>7. LineTypes'
  <2>1. finished' \subseteq Call
    BY <1>4, <1>5, MessageIs DEF Accepted, LineTypes
  <2>2. evicted' \subseteq Message
    BY <1>5, <1>6 DEF Accepted, LineTypes
  <2>3. kept' \subseteq Message
    BY <1>4, <1>5 DEF LineTypes
  <2> QED  BY <1>3, <1>4, <1>5, <2>1, <2>2, <2>3 DEF Accepted, LineTypes, state, goroutine
<1>8. Evictions'
  <2>1. \A x \in evicted' : x.kind = "output" /\ x.call \in finished'
    BY <1>5 DEF Accepted, Evictions, OutputOf
  <2>2. \A x \in kept' : x.kind \in TerminalKind => x.call \in finished'
    BY <1>4, <1>5 DEF Accepted, Evictions
  <2>3. ASSUME NEW x \in kept', x.kind = "exit", NEW y \in evicted', y.call = x.call
        PROVE  x.truncated
    <3>1. CASE x = m
      <4>1. y \notin evicted
        BY <1>5, <2>3, <3>1 DEF Accepted, Evictions
      <4> QED  BY <2>3, <3>1, <4>1 DEF Accepted
    <3>2. CASE x # m
      <4>1. x \in kept /\ x.call \in finished
        BY <1>4, <1>5, <2>3, <3>2 DEF Evictions, TerminalKind
      <4>2. y \in evicted
        BY <2>3, <4>1 DEF Accepted, OutputOf
      <4> QED  BY <1>5, <2>3, <4>1, <4>2 DEF Evictions
    <3> QED  BY <3>1, <3>2
  <2> QED  BY <2>1, <2>2, <2>3 DEF Evictions
<1>9. kept' \ evicted' \subseteq (kept \ evicted) \cup {m} /\ m \in Held'
  BY <1>3, <1>4 DEF Accepted
<1>10. (Held \cup Elems(written)) \ evicted' \subseteq Held' \cup Elems(written')
  BY <1>3, <1>4 DEF Accepted, Held
<1>11. Complete'
  BY <1>4, <1>5, <1>9, <1>10 DEF Accepted, Complete, state, goroutine
<1> QED  BY <1>2, <1>7, <1>8, <1>9, <1>10, <1>11 DEF QueueIInv, Lossless

(* A message that is refused, or taken for a flow that is over. *)
LEMMA RefusedKeeps ==
  ASSUME QueueIInv, offered' = offered + 1, offered' \in 0..MaxMessage,
         finished \subseteq finished', finished' \subseteq Call,
         UNCHANGED <<queues, state, wake, goroutine, kept, evicted, overflow>>
  PROVE  QueueIInv' /\ Lossless
<1>1. /\ UNCHANGED <<queue, bytes, buffered, writing, written, writer, cancelled>>
      /\ Held' = Held /\ Elems(written') = Elems(written) /\ Elems(queue') = Elems(queue)
      /\ Elems(writing') = Elems(writing) /\ offered \in Nat
  BY OutboxAssumption DEF queues, state, goroutine, Held, QueueIInv, LineTypes
<1>2. LineTypes'
  BY DEF QueueIInv, LineTypes, queues, state, goroutine
<1>3. Counts'
  BY <1>1 DEF QueueIInv, Counts, Accounted
<1>4. InLine'
  <2>1. ASSUME NEW x \in kept PROVE x.nr <= offered'
    <3>1. x.nr <= offered /\ x \in Message
      BY DEF QueueIInv, InLine, LineTypes
    <3>2. x.nr \in Nat
      BY <3>1, MessageIs
    <3> QED  BY <1>1, <3>1, <3>2
  <2> QED  BY <1>1, <2>1 DEF QueueIInv, InLine, Increasing, Before
<1>5. ReserveKept'
  BY <1>1 DEF QueueIInv, ReserveKept, OutputNeverOverflows
<1>6. Evictions'
  BY DEF QueueIInv, Evictions
<1>7. Complete'
  BY <1>1 DEF QueueIInv, Complete
<1> QED  BY <1>1, <1>2, <1>3, <1>4, <1>5, <1>6, <1>7 DEF QueueIInv, Lossless

(* The queue overflows and the connection is given up. *)
LEMMA GivenUpKeeps ==
  ASSUME QueueIInv, NEW m \in Message, NEW q, NEW b, NEW buf, NEW gone,
         Remains(q, b, buf), ~Fits(m, q, b), GiveUp(m, q, b, buf),
         evicted' = evicted \cup gone, gone \subseteq OutputOf(Elems(queue), m.call),
         Elems(q) = Elems(queue) \ gone, gone # {} => m.kind \in TerminalKind,
         offered' = offered + 1, offered' \in 0..MaxMessage, m.call \notin finished,
         finished' = IF m.kind \in TerminalKind THEN finished \cup {m.call} ELSE finished,
         UNCHANGED goroutine
  PROVE  QueueIInv' /\ Lossless
<1>1. /\ queue' = q /\ bytes' = b /\ buffered' = buf /\ closing' = TRUE /\ cancelled' = TRUE
      /\ UNCHANGED <<timer, wake, kept, writer, writing, written>>
      /\ overflow' = <<Cardinality(Control(Elems(q))), Total(Control(Held)) + m.size>>
  BY DEF GiveUp, goroutine
<1>2. /\ q \in Seq(Message) /\ Increasing(q) /\ Elems(q) \subseteq Elems(queue)
      /\ Held' = Elems(writing) \cup Elems(q) /\ Held' \subseteq Held /\ offered \in Nat
      /\ LineTypes /\ InLine /\ Evictions
  BY <1>1, OutboxAssumption DEF Remains, Held, QueueIInv, LineTypes
<1>3. LineTypes'
  <2>1. gone \subseteq Message
    BY <1>2, HeldIs DEF OutputOf
  <2>2. overflow' \in Nat \X Nat
    BY <1>1, OverflowIs
  <2>3. finished' \subseteq Call
    BY <1>2, MessageIs DEF LineTypes
  <2> QED  BY <1>1, <1>2, <2>1, <2>2, <2>3 DEF LineTypes
<1>4. Counts'
  BY <1>1, <1>2 DEF Remains, Counts, Accounted
<1>5. InLine'
  <2>1. ASSUME NEW x \in kept PROVE x.nr <= offered'
    <3>1. x.nr <= offered /\ x \in Message
      BY <1>2 DEF InLine, LineTypes
    <3>2. x.nr \in Nat
      BY <3>1, MessageIs
    <3> QED  BY <1>2, <3>1, <3>2
  <2>2. Before(Elems(written'), Held') /\ Before(Elems(writing'), Elems(queue'))
    BY <1>1, <1>2 DEF InLine, Before
  <2> QED  BY <1>1, <1>2, <2>1, <2>2 DEF InLine
<1>6. ReserveKept'
  <2>1. /\ OutputIn(Elems(queue')) \subseteq OutputIn(Elems(queue))
        /\ OutputIn(Held') \subseteq OutputIn(Held)
    BY <1>1, <1>2 DEF OutputIn, Control
  <2>2. overflow'[1] >= ReserveFrames \/ overflow'[2] > ReserveBytes
    BY <1>1, OverflowIs
  <2> QED  BY <2>1, <2>2, OutputLess DEF ReserveKept, OutputNeverOverflows
<1>7. Evictions'
  <2>1. \A x \in evicted' : x.kind = "output" /\ x.call \in finished'
    BY <1>2 DEF Evictions, OutputOf
  <2>2. \A x \in kept' : x.kind \in TerminalKind => x.call \in finished'
    BY <1>1, <1>2 DEF Evictions
  <2>3. ASSUME NEW x \in kept', x.kind = "exit", NEW y \in evicted', y.call = x.call
        PROVE  x.truncated
    <3>1. x \in kept /\ x.call \in finished
      BY <1>1, <1>2, <2>3 DEF Evictions, TerminalKind
    <3>2. y \in evicted
      BY <2>3, <3>1 DEF OutputOf
    <3> QED  BY <1>2, <2>3, <3>1, <3>2 DEF Evictions
  <2> QED  BY <2>1, <2>2, <2>3 DEF Evictions
<1>8. Complete'
  BY <1>1 DEF Complete
<1>9. Lossless
  BY <1>1, <1>2 DEF Lossless, Held
<1> QED  BY <1>3, <1>4, <1>5, <1>6, <1>7, <1>8, <1>9 DEF QueueIInv

(* Enqueue, whatever it decides. *)
LEMMA EnqueueKeeps ==
  ASSUME QueueIInv, NEW c \in Call, NEW kind \in FrameKind, NEW size \in Size, Enqueue(c, kind, size)
  PROVE  QueueIInv' /\ Lossless
<1>1. PICK m : m = [nr |-> offered + 1, call |-> c, kind |-> kind, size |-> size, truncated |-> FALSE]
  OBVIOUS
<1>2. /\ offered < MaxMessage /\ c \notin finished /\ offered' = offered + 1
      /\ finished' = (IF kind \in TerminalKind THEN finished \cup {c} ELSE finished)
      /\ UNCHANGED goroutine
  BY DEF Enqueue
<1>3. /\ offered \in Nat /\ MaxMessage \in Nat /\ offered' \in 0..MaxMessage /\ offered + 1 \in 1..MaxMessage
      /\ finished \subseteq Call
  BY <1>2, OutboxAssumption DEF QueueIInv, LineTypes
<1>4. /\ m \in Message /\ m.nr = offered + 1 /\ m.call = c /\ m.kind = kind /\ m.size = size
      /\ m.size \in Nat
  BY <1>1, <1>3, MessageIs DEF Message
<1>5. \/ UNCHANGED <<queues, state, wake, kept, evicted, overflow>>
      \/ kind = "output" /\ EnqueueOutput(m)
      \/ kind # "output" /\ EnqueueControl(m)
  BY <1>1 DEF Enqueue
<1>6. CASE UNCHANGED <<queues, state, wake, kept, evicted, overflow>>
  <2>1. finished \subseteq finished' /\ finished' \subseteq Call
    BY <1>2, <1>3
  <2> QED  BY <1>2, <1>3, <1>6, <2>1, RefusedKeeps
<1>7. CASE kind = "output" /\ OutputFits(m) /\ EnqueueOutput(m)
  <2>1. PICK buf : buf = [buffered EXCEPT ![m.call] = @ + m.size]
    OBVIOUS
  <2>2. Push(m, queue, bytes, buf) /\ UNCHANGED evicted
    BY <1>7, <2>1 DEF EnqueueOutput
  <2>3. Remains(queue, bytes, buffered)
    BY AllRemains
  <2>4. bytes + m.size <= MaxBytes
    <3>1. bytes \in Nat /\ MaxBytes \in Nat /\ ReserveBytes \in Nat /\ bytes + m.size <= MaxBytes - ReserveBytes
      BY <1>7, OutboxAssumption DEF OutputFits, QueueIInv, Counts
    <3> QED  BY <1>4, <3>1
  <2>5. Accepted(m, queue, bytes, buffered, buf)
    BY <1>2, <1>3, <1>4, <1>7, <2>1, <2>2, <2>3, <2>4
      DEF Accepted, Appended, Push, OutputFits, goroutine, TerminalKind
  <2> QED  BY <2>5, AcceptedKeeps
<1>8. CASE kind # "output" /\ Fits(m, queue, bytes) /\ EnqueueControl(m)
  <2>1. Push(m, queue, bytes, buffered) /\ UNCHANGED evicted
    BY <1>8 DEF EnqueueControl
  <2>2. Remains(queue, bytes, buffered)
    BY AllRemains
  <2>3. Accepted(m, queue, bytes, buffered, buffered)
    BY <1>2, <1>3, <1>4, <1>8, <2>1, <2>2 DEF Accepted, Appended, Push, Fits, goroutine
  <2> QED  BY <2>3, AcceptedKeeps
<1>9. CASE kind # "output" /\ ~Fits(m, queue, bytes) /\ EnqueueControl(m)
  <2>1. PICK gone : gone = Evict(m)
    OBVIOUS
  <2>2. PICK q, b, buf : /\ q = Without(queue, gone) /\ b = bytes - Total(gone)
                         /\ buf = [buffered EXCEPT ![m.call] = @ - Total(OutputOf(gone, m.call))]
    OBVIOUS
  <2>3. /\ evicted' = evicted \cup gone
        /\ IF Fits(m, q, b) THEN Push(SettledAsEvicted(m), q, b, buf) ELSE GiveUp(m, q, b, buf)
    BY <1>9, <2>1, <2>2 DEF EnqueueControl
  <2>4. Remains(q, b, buf) /\ Elems(q) = Elems(queue) \ gone /\ gone \subseteq OutputOf(Elems(queue), m.call)
    BY <1>4, <2>1, <2>2, EvictLeaves
  <2>5. gone # {} => m.kind \in TerminalKind /\ gone = Discarded(m)
    BY <2>1 DEF Evict
  <2>6. CASE Fits(m, q, b)
    <3>1. PICK s : s = SettledAsEvicted(m)
      OBVIOUS
    <3>2. /\ s \in Message /\ s.nr = m.nr /\ s.call = m.call /\ s.kind = m.kind /\ s.size = m.size
          /\ s.truncated = (m.kind = "exit" /\ Discarded(m) # {})
      BY <1>4, <3>1, SettledIs
    <3>3. Push(s, q, b, buf)
      BY <2>3, <2>6, <3>1
    <3>4. Appended(s, q, b, buf, buf)
      BY <1>2, <1>4, <1>9, <2>4, <2>6, <3>2, <3>3 DEF Appended, Fits, goroutine
    <3>5. /\ evicted' # evicted => gone # {}
          /\ Elems(queue) \ Elems(q) \subseteq evicted' /\ evicted \subseteq evicted'
          /\ evicted' \subseteq evicted \cup OutputOf(Elems(queue), s.call)
      BY <2>3, <2>4, <3>2
    <3>6. UNCHANGED <<state, goroutine>>
      BY <1>2, <3>3 DEF Push
    <3>7. Accepted(s, q, b, buf, buf)
      BY <1>2, <1>3, <1>4, <2>5, <3>2, <3>4, <3>5, <3>6 DEF Accepted
    <3> QED  BY <3>7, AcceptedKeeps
  <2>7. CASE ~Fits(m, q, b)
    BY <1>2, <1>3, <1>4, <2>3, <2>4, <2>5, <2>7, GivenUpKeeps
  <2> QED  BY <2>6, <2>7
<1>10. kind = "output" /\ EnqueueOutput(m) /\ ~OutputFits(m) =>
         UNCHANGED <<queues, state, wake, kept, evicted, overflow>>
  BY DEF EnqueueOutput
<1> QED  BY <1>5, <1>6, <1>7, <1>8, <1>9, <1>10
-----------------------------------------------------------------------------
(* The writer, the timer and the connection. *)

(* Nothing moves: flags change, or the writer between two messages. *)
LEMMA QuietKeeps ==
  ASSUME QueueIInv, UNCHANGED <<queues, writing, written, handed>>,
         closing' \in BOOLEAN, timer' \in BOOLEAN, cancelled' \in BOOLEAN, wake' \in BOOLEAN,
         cancelled => cancelled',
         \/ UNCHANGED writer
         \/ /\ writer \in {"checking", "parking", "waiting"}
            /\ writer' \in {"checking", "parking", "waiting"}
  PROVE  QueueIInv' /\ Lossless
<1>1. /\ UNCHANGED <<queue, bytes, buffered, writing, written, offered, finished, kept, evicted, overflow>>
      /\ Held' = Held /\ Elems(written') = Elems(written) /\ Elems(queue') = Elems(queue)
      /\ Elems(writing') = Elems(writing)
  BY DEF queues, handed, Held
<1>2. LineTypes'
  BY <1>1 DEF QueueIInv, LineTypes
<1>3. Counts'
  BY <1>1 DEF QueueIInv, Counts, Accounted
<1>4. InLine'
  BY <1>1 DEF QueueIInv, InLine, Increasing, Before
<1>5. ReserveKept'
  BY <1>1 DEF QueueIInv, ReserveKept, OutputNeverOverflows
<1>6. Evictions'
  BY <1>1 DEF QueueIInv, Evictions
<1>7. Complete'
  BY <1>1 DEF QueueIInv, Complete
<1> QED  BY <1>1, <1>2, <1>3, <1>4, <1>5, <1>6, <1>7 DEF QueueIInv, Lossless

(* The writer takes the first message. *)
LEMMA TakeKeeps == ASSUME QueueIInv, Take PROVE QueueIInv' /\ Lossless
<1>1. /\ writer = "checking" /\ queue # <<>> /\ writing' = <<Head(queue)>> /\ queue' = Tail(queue)
      /\ writer' = "writing"
      /\ UNCHANGED <<bytes, buffered, closing, timer, cancelled, wake, written, offered, finished, kept,
                     evicted, overflow>>
  BY DEF Take, state, handed
<1>2. LineTypes /\ InLine /\ queue \in Seq(Message)
  BY DEF QueueIInv, LineTypes
<1>3. writing = <<>>
  BY <1>1, <1>2 DEF LineTypes
<1>4. /\ Head(queue) \in Message /\ Tail(queue) \in Seq(Message) /\ <<Head(queue)>> \in Seq(Message)
      /\ Elems(queue) = {Head(queue)} \cup Elems(Tail(queue))
      /\ Elems(writing') = {Head(queue)} /\ Elems(writing) = {} /\ Elems(queue') = Elems(Tail(queue))
  BY <1>1, <1>2, <1>3, ElemsTail, ElemsOne, ElemsNone
<1>5. Held' = Held /\ Elems(written') = Elems(written) /\ Elems(queue') \subseteq Elems(queue)
  BY <1>1, <1>4 DEF Held
<1>6. LineTypes'
  <2>1. Len(<<Head(queue)>>) = 1
    OBVIOUS
  <2> QED  BY <1>1, <1>2, <1>4, <2>1 DEF LineTypes
<1>7. Counts'
  BY <1>1, <1>5 DEF QueueIInv, Counts, Accounted
<1>8. InLine'
  <2>1. /\ Head(queue) = queue[1] /\ Len(queue) \in Nat /\ Len(queue) >= 1
        /\ Len(Tail(queue)) = Len(queue) - 1
        /\ \A i \in 1..Len(Tail(queue)) : Tail(queue)[i] = queue[i + 1]
    BY <1>1, <1>2
  <2>2. ASSUME NEW i \in 1..Len(Tail(queue)) PROVE i + 1 \in 1..Len(queue) /\ 1 < i + 1
    BY <2>1
  <2>3. Increasing(queue')
    <3>1. ASSUME NEW i \in 1..Len(Tail(queue)), NEW j \in 1..Len(Tail(queue)), i < j
          PROVE  Tail(queue)[i].nr < Tail(queue)[j].nr
      <4>1. i + 1 < j + 1 /\ i + 1 \in 1..Len(queue) /\ j + 1 \in 1..Len(queue)
        BY <2>1, <2>2, <3>1
      <4>2. queue[i + 1].nr < queue[j + 1].nr
        BY <1>2, <4>1 DEF InLine, Increasing
      <4> QED  BY <2>1, <4>2
    <3> QED  BY <1>1, <3>1 DEF Increasing
  <2>4. Before(Elems(writing'), Elems(queue'))
    <3>1. ASSUME NEW i \in 1..Len(Tail(queue)) PROVE Head(queue).nr < Tail(queue)[i].nr
      <4>1. 1 \in 1..Len(queue) /\ i + 1 \in 1..Len(queue) /\ 1 < i + 1
        BY <2>1, <2>2
      <4>2. queue[1].nr < queue[i + 1].nr
        BY <1>2, <4>1 DEF InLine, Increasing
      <4> QED  BY <2>1, <4>2
    <3> QED  BY <1>1, <1>4, <3>1 DEF Before, Elems
  <2> QED  BY <1>1, <1>2, <1>5, <2>3, <2>4 DEF InLine
<1>9. ReserveKept'
  <2>1. OutputIn(Elems(queue')) \subseteq OutputIn(Elems(queue)) /\ OutputIn(Held') \subseteq OutputIn(Held)
    BY <1>5 DEF OutputIn, Control
  <2> QED  BY <1>1, <2>1, OutputLess DEF QueueIInv, ReserveKept, OutputNeverOverflows
<1>10. Evictions' /\ Complete'
  BY <1>1, <1>5 DEF QueueIInv, Evictions, Complete
<1> QED  BY <1>1, <1>5, <1>6, <1>7, <1>8, <1>9, <1>10 DEF QueueIInv, Lossless

(* The writer is done with its message, whether the peer has it or not. *)
LEMMA ReleasedKeeps ==
  ASSUME QueueIInv, writer = "writing", Released(writing[1]), writing' = <<>>,
         UNCHANGED <<queue, state, wake, handed>>,
         \/ writer' \in {"checking", "failed"} /\ written' = Append(written, writing[1])
         \/ writer' = "failed" /\ written' = written
  PROVE  QueueIInv' /\ (writer' # "failed" => Lossless)
<1>1. PICK m : m = writing[1]
  OBVIOUS
<1>2. LineTypes /\ InLine /\ Counts /\ Evictions /\ queue \in Seq(Message) /\ written \in Seq(Message)
  BY DEF QueueIInv, LineTypes
<1>3. m \in Message /\ Elems(writing) = {m}
  <2>1. writing \in Seq(Message) /\ Len(writing) = 1
    BY <1>2 DEF LineTypes
  <2>2. \A i \in 1..Len(writing) : i = 1
    BY <2>1
  <2> QED  BY <1>1, <2>1, <2>2 DEF Elems
<1>4. /\ UNCHANGED <<queue, closing, timer, cancelled, wake, offered, finished, kept, evicted, overflow>>
      /\ bytes' = bytes - m.size
      /\ buffered' = (IF m.kind = "output" THEN [buffered EXCEPT ![m.call] = @ - m.size] ELSE buffered)
  BY <1>1 DEF Released, state, handed
<1>5. /\ Held = {m} \cup Elems(queue) /\ Elems(writing') = {} /\ Elems(queue') = Elems(queue)
      /\ Held' = Elems(queue)
  BY <1>3, <1>4, ElemsNone DEF Held
<1>6. /\ m.size \in Nat /\ m.nr \in Nat /\ m.call \in Call /\ MaxBytes \in Nat /\ MaxBuffered \in Nat
      /\ Elems(queue) \subseteq Message /\ Countable(Elems(queue))
  BY <1>2, <1>3, MessageIs, HeldIs, OutboxAssumption
<1>7. m \notin Elems(queue)
  BY <1>2, <1>3, <1>6 DEF InLine, Before
<1>8. ASSUME NEW S, Countable(S), m \notin S PROVE Total({m} \cup S) = m.size + Total(S) /\ Total(S) \in Nat
  <2>1. Countable({m}) /\ Total({m}) = m.size /\ {m} \cap S = {}
    BY <1>6, <1>8, TotalOne
  <2> QED  BY <1>8, <2>1, TotalUnion, TotalNat
<1>9. LineTypes'
  <2>1. Append(written, m) \in Seq(Message)
    BY <1>2, <1>3, ElemsAppend
  <2>2. Len(<<>>) = 0 /\ <<>> \in Seq(Message)
    OBVIOUS
  <2>3. writing' \in Seq(Message) /\ written' \in Seq(Message) /\ queue' \in Seq(Message)
    BY <1>1, <1>2, <1>4, <2>1, <2>2
  <2>4. writer' \in {"checking", "failed"} /\ writing' = <<>>
    OBVIOUS
  <2>5. Len(writing') = IF writer' = "writing" THEN 1 ELSE 0
    <3>1. writer' # "writing"
      BY <2>4
    <3> QED  BY <2>2, <2>4, <3>1
  <2>6. writer' \in {"checking", "parking", "waiting", "writing", "failed", "done"}
    BY <2>4
  <2> QED  BY <1>2, <1>4, <2>3, <2>5, <2>6 DEF LineTypes
<1>10. Counts'
  <2>1. bytes' = Total(Elems(queue)) /\ bytes' \in 0..MaxBytes
    <3>1. bytes = m.size + Total(Elems(queue)) /\ Total(Elems(queue)) \in Nat /\ bytes \in 0..MaxBytes
      BY <1>2, <1>5, <1>6, <1>7, <1>8 DEF Counts, Accounted
    <3> QED  BY <1>4, <1>6, <3>1
  <2>2. ASSUME NEW c \in Call
        PROVE  /\ Total(OutputOf(Elems(queue), c)) \in Nat /\ buffered[c] \in 0..MaxBuffered
               /\ buffered[c] = (IF m.kind = "output" /\ c = m.call THEN m.size ELSE 0)
                                + Total(OutputOf(Elems(queue), c))
    <3>1. OutputOf(Elems(queue), c) \subseteq Elems(queue)
      BY DEF OutputOf
    <3>2. Countable(OutputOf(Elems(queue), c)) /\ m \notin OutputOf(Elems(queue), c)
      BY <1>6, <1>7, <3>1, TotalLess
    <3>3. OutputOf(Held, c) = IF m.kind = "output" /\ c = m.call THEN {m} \cup OutputOf(Elems(queue), c)
                              ELSE OutputOf(Elems(queue), c)
      BY <1>5 DEF OutputOf
    <3>4. buffered[c] = Total(OutputOf(Held, c)) /\ buffered[c] \in 0..MaxBuffered
      BY <1>2 DEF Counts, Accounted
    <3>5. /\ Total({m} \cup OutputOf(Elems(queue), c)) = m.size + Total(OutputOf(Elems(queue), c))
          /\ Total(OutputOf(Elems(queue), c)) \in Nat
      BY <1>8, <3>2
    <3> QED  BY <1>6, <3>3, <3>4, <3>5
  <2>3. ASSUME NEW c \in Call
        PROVE  buffered'[c] = Total(OutputOf(Elems(queue), c)) /\ buffered'[c] \in 0..MaxBuffered
    <3>1. buffered \in [Call -> 0..MaxBuffered]
      BY <1>2 DEF Counts
    <3>2. buffered'[c] = IF m.kind = "output" /\ c = m.call THEN buffered[c] - m.size ELSE buffered[c]
      BY <1>4, <1>6, <3>1
    <3>3. buffered'[c] = Total(OutputOf(Elems(queue), c))
      BY <1>6, <2>2, <3>2
    <3> QED  BY <1>6, <2>2, <3>3
  <2>4. buffered' \in [Call -> 0..MaxBuffered]
    <3>1. buffered' = [c \in Call |-> buffered'[c]]
      BY <1>2, <1>4 DEF Counts
    <3> QED  BY <2>3, <3>1
  <2> QED  BY <1>5, <2>1, <2>3, <2>4 DEF Counts, Accounted
<1>11. /\ Elems(written') \subseteq Elems(written) \cup {m} /\ Increasing(written')
       /\ writer' # "failed" => m \in Elems(written')
       /\ Elems(written) \subseteq Elems(written')
  <2>1. CASE written' = written
    BY <1>2, <2>1 DEF InLine
  <2>2. CASE written' = Append(written, m)
    <3>1. Elems(written') = Elems(written) \cup {m}
      BY <1>2, <1>3, <2>2, ElemsAppend
    <3>2. /\ Len(written) \in Nat /\ Len(written') = Len(written) + 1
          /\ \A i \in 1..Len(written) : written'[i] = written[i] /\ written[i] \in Elems(written)
          /\ written'[Len(written) + 1] = m
      BY <1>2, <2>2 DEF Elems
    <3>3. ASSUME NEW i \in 1..Len(written'), NEW j \in 1..Len(written'), i < j
          PROVE  written'[i].nr < written'[j].nr
      <4>1. i \in 1..Len(written) /\ (j \in 1..Len(written) \/ j = Len(written) + 1)
        BY <3>2, <3>3
      <4>2. CASE j \in 1..Len(written)
        BY <1>2, <3>2, <3>3, <4>1, <4>2 DEF InLine, Increasing
      <4>3. CASE j = Len(written) + 1
        BY <1>2, <1>5, <3>2, <4>1, <4>3 DEF InLine, Before
      <4> QED  BY <4>1, <4>2, <4>3
    <3> QED  BY <3>1, <3>3 DEF Increasing
  <2> QED  BY <1>1, <2>1, <2>2
<1>12. InLine'
  <2>1. Before(Elems(written'), Held')
    BY <1>2, <1>3, <1>5, <1>11 DEF InLine, Before
  <2>2. Before(Elems(writing'), Elems(queue'))
    BY <1>5 DEF Before
  <2>3. Elems(written') \cup Held' \subseteq kept'
    BY <1>2, <1>4, <1>5, <1>11 DEF InLine
  <2> QED  BY <1>2, <1>4, <1>11, <2>1, <2>2, <2>3 DEF InLine
<1>13. ReserveKept'
  <2>1. OutputIn(Elems(queue')) \subseteq OutputIn(Elems(queue)) /\ OutputIn(Held') \subseteq OutputIn(Held)
    BY <1>5 DEF OutputIn, Control
  <2> QED  BY <1>4, <2>1, OutputLess DEF QueueIInv, ReserveKept, OutputNeverOverflows
<1>14. Evictions'
  BY <1>2, <1>4 DEF Evictions
<1>15. writer' # "failed" => Lossless
  BY <1>4, <1>5, <1>11 DEF Lossless
<1>16. Complete'
  BY <1>4, <1>15 DEF QueueIInv, Complete, Lossless
<1> QED  BY <1>9, <1>10, <1>12, <1>13, <1>14, <1>15, <1>16 DEF QueueIInv

(* The deferred cleanup of the goroutine. *)
LEMMA StopKeeps == ASSUME QueueIInv, Stop PROVE QueueIInv'
<1>1. /\ writer' = "done" /\ writing' = <<>> /\ cancelled' = TRUE /\ closing' = TRUE /\ timer' = FALSE
      /\ queue' = <<>> /\ bytes' = 0 /\ buffered' = [c \in Call |-> 0]
      /\ UNCHANGED <<wake, written, offered, finished, kept, evicted, overflow>>
  BY DEF Stop, handed
<1>2. Elems(queue') = {} /\ Elems(writing') = {} /\ Held' = {}
  BY <1>1, ElemsNone DEF Held
<1>3. LineTypes'
  <2>1. Len(<<>>) = 0 /\ <<>> \in Seq(Message)
    OBVIOUS
  <2>2. LineTypes /\ writing' \in Seq(Message) /\ queue' \in Seq(Message)
    BY <1>1, <2>1 DEF QueueIInv
  <2>3. Len(writing') = IF writer' = "writing" THEN 1 ELSE 0
    <3>1. writer' # "writing" /\ Len(writing') = 0
      BY <1>1, <2>1
    <3> QED  BY <3>1
  <2>4. /\ writer' \in {"checking", "parking", "waiting", "writing", "failed", "done"}
        /\ closing' \in BOOLEAN /\ timer' \in BOOLEAN /\ cancelled' \in BOOLEAN
    BY <1>1
  <2> QED  BY <1>1, <2>2, <2>3, <2>4 DEF LineTypes
<1>4. Counts'
  <2>1. \A c \in Call : OutputOf({}, c) = {}
    BY DEF OutputOf
  <2>2. 0 \in 0..MaxBytes /\ 0 \in 0..MaxBuffered
    BY OutboxAssumption
  <2> QED  BY <1>1, <1>2, <2>1, <2>2, TotalEmpty DEF Counts, Accounted
<1>5. InLine'
  <2>1. Increasing(queue')
    BY <1>1 DEF Increasing
  <2> QED  BY <1>1, <1>2, <2>1 DEF QueueIInv, InLine, Before
<1>6. ReserveKept'
  <2>1. OutputIn(Elems(queue')) \subseteq OutputIn(Elems(queue)) /\ OutputIn(Held') \subseteq OutputIn(Held)
    BY <1>2 DEF OutputIn
  <2> QED  BY <1>1, <2>1, OutputLess DEF QueueIInv, ReserveKept, OutputNeverOverflows
<1>7. Evictions' /\ Complete'
  BY <1>1 DEF QueueIInv, Evictions, Complete
<1> QED  BY <1>3, <1>4, <1>5, <1>6, <1>7 DEF QueueIInv
-----------------------------------------------------------------------------
(* A new outbox. *)
LEMMA QueueInitially == OutboxInit => QueueIInv
<1> SUFFICES ASSUME OutboxInit PROVE QueueIInv
  OBVIOUS
<1>1. /\ queue = <<>> /\ writing = <<>> /\ written = <<>> /\ writer = "checking"
      /\ bytes = 0 /\ buffered = [c \in Call |-> 0]
      /\ closing = FALSE /\ timer = FALSE /\ cancelled = FALSE /\ wake = FALSE
      /\ offered = 0 /\ finished = {} /\ kept = {} /\ evicted = {} /\ overflow = <<>>
  BY DEF OutboxInit
<1>2. Elems(queue) = {} /\ Elems(writing) = {} /\ Elems(written) = {} /\ Held = {}
  BY <1>1, ElemsNone DEF Held
<1>3. /\ MaxMessage \in Nat /\ MaxFrames \in Nat /\ MaxBytes \in Nat /\ MaxBuffered \in Nat
      /\ MaxFrames - ReserveFrames >= 0 /\ MaxBytes - ReserveBytes >= 0
  BY OutboxAssumption
<1>4. LineTypes
  <2>1. Len(<<>>) = 0 /\ <<>> \in Seq(Message)
    OBVIOUS
  <2>2. Len(writing) = IF writer = "writing" THEN 1 ELSE 0
    <3>1. writer # "writing" /\ Len(writing) = 0
      BY <1>1, <2>1
    <3> QED  BY <3>1
  <2>3. queue \in Seq(Message) /\ writing \in Seq(Message) /\ written \in Seq(Message)
    BY <1>1, <2>1
  <2>4. offered \in 0..MaxMessage
    BY <1>1, <1>3
  <2>5. /\ closing \in BOOLEAN /\ timer \in BOOLEAN /\ cancelled \in BOOLEAN /\ wake \in BOOLEAN
        /\ writer \in {"checking", "parking", "waiting", "writing", "failed", "done"}
        /\ overflow \in {<<>>} \cup (Nat \X Nat)
    BY <1>1
  <2> QED  BY <1>1, <2>2, <2>3, <2>4, <2>5 DEF LineTypes
<1>5. Counts
  <2>1. \A c \in Call : OutputOf({}, c) = {}
    BY DEF OutputOf
  <2>2. 0 \in 0..MaxBytes /\ 0 \in 0..MaxBuffered
    BY <1>3
  <2>3. Accounted
    BY <1>1, <1>2, <2>1, TotalEmpty DEF Accounted
  <2>4. buffered \in [Call -> 0..MaxBuffered] /\ bytes \in 0..MaxBytes
    BY <1>1, <2>2
  <2> QED  BY <2>3, <2>4 DEF Counts
<1>6. InLine
  <2>1. Increasing(written) /\ Increasing(queue)
    <3>1. Len(<<>>) = 0 /\ 1..0 = {}
      OBVIOUS
    <3> QED  BY <1>1, <3>1 DEF Increasing
  <2>2. \A S : Before({}, S) /\ Before(S, {})
    BY DEF Before
  <2> QED  BY <1>1, <1>2, <2>1, <2>2 DEF InLine
<1>7. ReserveKept
  <2>1. OutputIn({}) = {} /\ Cardinality({}) = 0 /\ Total({}) = 0
    BY TotalEmpty, FS_EmptySet DEF OutputIn
  <2> QED  BY <1>1, <1>2, <1>3, <2>1 DEF ReserveKept, OutputNeverOverflows
<1>8. Evictions /\ Complete
  BY <1>1 DEF Evictions, Complete
<1> QED  BY <1>4, <1>5, <1>6, <1>7, <1>8 DEF QueueIInv

(* A step keeps the invariant, and unless the connection is cut it loses nothing. *)
LEMMA QueueInductive ==
  ASSUME QueueIInv, [OutboxNext]_outboxVars
  PROVE  /\ QueueIInv'
         /\ ~cancelled /\ writer # "failed" /\ writer' # "failed" => Lossless
<1>1. LineTypes
  BY DEF QueueIInv
<1>2. CASE UNCHANGED outboxVars
  <2>1. UNCHANGED <<queues, writing, written, handed, closing, timer, cancelled, wake, writer>>
    BY <1>2 DEF outboxVars, state, goroutine
  <2> QED  BY <1>1, <2>1, QuietKeeps DEF LineTypes
<1>3. ASSUME NEW c \in Call, NEW kind \in FrameKind, NEW size \in Size, Enqueue(c, kind, size)
      PROVE  QueueIInv' /\ Lossless
  BY <1>3, EnqueueKeeps
<1>4. CASE CloseQueue
  <2>1. /\ UNCHANGED <<queues, writing, written, handed, cancelled, writer>>
        /\ closing' = TRUE /\ timer' = TRUE /\ wake' = TRUE
    BY <1>4 DEF CloseQueue, Signal, goroutine
  <2> QED  BY <1>1, <2>1, QuietKeeps DEF LineTypes
<1>5. CASE TimerFires \/ ParentEnds
  <2>1. /\ UNCHANGED <<queues, writing, written, handed, closing, timer, wake, writer>>
        /\ cancelled' = TRUE
    BY <1>5 DEF TimerFires, ParentEnds, goroutine
  <2> QED  BY <1>1, <2>1, QuietKeeps DEF LineTypes
<1>6. CASE Take
  BY <1>6, TakeKeeps
<1>7. CASE Park \/ GoesToSleep \/ Wake
  <2>1. /\ UNCHANGED <<queues, writing, written, handed, closing, timer, cancelled>>
        /\ wake' \in {wake, FALSE}
        /\ writer \in {"checking", "parking", "waiting"} /\ writer' \in {"checking", "parking", "waiting"}
    BY <1>7 DEF Park, GoesToSleep, Wake, state
  <2> QED  BY <1>1, <2>1, QuietKeeps DEF LineTypes
<1>8. CASE Drained
  <2>1. writer = "checking" /\ queue = <<>> /\ Stop
    BY <1>8 DEF Drained
  <2>2. Held = {}
    <3>1. writing \in Seq(Message) /\ Len(writing) = 0
      BY <1>1, <2>1 DEF LineTypes
    <3>2. writing = <<>>
      BY <3>1
    <3> QED  BY <2>1, <3>2, ElemsNone DEF Held
  <2>3. UNCHANGED <<written, kept, evicted>>
    BY <2>1 DEF Stop, handed
  <2> QED  BY <2>1, <2>2, <2>3, StopKeeps DEF Lossless
<1>9. CASE Cancelled \/ Failed
  BY <1>9, StopKeeps DEF Cancelled, Failed
<1>10. CASE Written
  BY <1>10, ReleasedKeeps DEF Written
<1>11. CASE WriteFails
  BY <1>11, ReleasedKeeps DEF WriteFails
<1>12. CASE Over
  BY <1>2, <1>12 DEF Over
<1> QED  BY <1>2, <1>3, <1>4, <1>5, <1>6, <1>7, <1>8, <1>9, <1>10, <1>11, <1>12 DEF OutboxNext, Writer

(* Three sequences, each in order and all of one before all of the next, are in
   order one behind the other. *)
LEMMA LineInOrder == ASSUME LineTypes, InLine PROVE InOrder
<1> DEFINE line == written \o writing \o queue
           W == Len(written)
           V == Len(writing)
           Q == Len(queue)
<1>1. /\ written \in Seq(Message) /\ writing \in Seq(Message) /\ queue \in Seq(Message)
      /\ W \in Nat /\ V \in 0..1 /\ Q \in Nat
  BY DEF LineTypes
<1>2. /\ Len(line) = W + V + Q
      /\ \A i \in 1..(W + V + Q) : line[i] = IF i <= W THEN written[i]
                                           ELSE IF i <= W + V THEN writing[i - W]
                                           ELSE queue[i - W - V]
  BY <1>1
<1>3. /\ \A i \in 1..W : written[i] \in Elems(written)
      /\ \A i \in 1..V : writing[i] \in Elems(writing)
      /\ \A i \in 1..Q : queue[i] \in Elems(queue)
  BY DEF Elems
<1> HIDE DEF line, W, V, Q
<1>4. ASSUME NEW i \in 1..(W + V + Q), NEW j \in 1..(W + V + Q), i < j
      PROVE  line[i].nr < line[j].nr
  <2>1. i \in Nat /\ j \in Nat /\ i >= 1 /\ j >= 1 /\ W \in Nat /\ V \in Nat /\ Q \in Nat
    BY <1>1
  <2>2. \/ i <= W /\ i \in 1..W /\ line[i] = written[i]
        \/ i > W /\ i <= W + V /\ i - W \in 1..V /\ line[i] = writing[i - W]
        \/ i > W + V /\ i - W - V \in 1..Q /\ line[i] = queue[i - W - V]
    BY <1>2, <2>1
  <2>3. \/ j <= W /\ j \in 1..W /\ line[j] = written[j]
        \/ j > W /\ j <= W + V /\ j - W \in 1..V /\ line[j] = writing[j - W]
        \/ j > W + V /\ j - W - V \in 1..Q /\ line[j] = queue[j - W - V]
    BY <1>2, <2>1
  <2>4. CASE i <= W /\ i \in 1..W /\ line[i] = written[i]
    <3>1. CASE j <= W /\ j \in 1..W /\ line[j] = written[j]
      BY <1>4, <2>4, <3>1 DEF InLine, Increasing, W
    <3>2. CASE j > W
      <4>1. line[j] \in Held
        BY <1>3, <2>1, <2>3, <3>2 DEF Held
      <4>2. written[i] \in Elems(written) /\ Before(Elems(written), Held)
        BY <1>3, <2>4 DEF InLine
      <4>3. written[i].nr < line[j].nr
        BY <4>1, <4>2 DEF Before
      <4> QED  BY <2>4, <4>3
    <3> QED  BY <2>1, <2>3, <3>1, <3>2
  <2>5. CASE i > W /\ i <= W + V /\ i - W \in 1..V /\ line[i] = writing[i - W]
    <3>1. j > W + V
      BY <1>1, <1>4, <2>1, <2>5
    <3>2. line[j] \in Elems(queue)
      BY <1>3, <2>1, <2>3, <3>1
    <3> QED  BY <1>3, <2>5, <3>2 DEF InLine, Before
  <2>6. CASE i > W + V /\ i - W - V \in 1..Q /\ line[i] = queue[i - W - V]
    <3>1. j > W + V /\ i - W - V < j - W - V
      BY <1>4, <2>1, <2>6
    <3>2. j - W - V \in 1..Q /\ line[j] = queue[j - W - V]
      BY <2>1, <2>3, <3>1
    <3> QED  BY <2>6, <3>1, <3>2 DEF InLine, Increasing, Q
  <2> QED  BY <2>2, <2>4, <2>5, <2>6
<1> QED  BY <1>2, <1>4 DEF InOrder, line

(* The inductive invariant is stronger than what it is for. *)
LEMMA QueueImplied == ASSUME QueueIInv PROVE QueueInv
<1>1. LineTypes /\ Counts /\ InLine /\ ReserveKept /\ Evictions
  BY DEF QueueIInv
<1>2. OutboxTypeOK
  <2>1. /\ Elems(queue) \subseteq Message /\ Elems(writing) \subseteq Message
        /\ Elems(written) \subseteq Message
    BY <1>1, HeldIs
  <2>2. Len(writing) <= 1
    BY <1>1 DEF LineTypes
  <2> QED  BY <1>1, <2>1, <2>2 DEF OutboxTypeOK, LineTypes, Counts
<1>3. InOrder
  BY <1>1, LineInOrder
<1>4. EvictionReported
  BY <1>1 DEF EvictionReported, Evictions, InLine
<1> QED  BY <1>1, <1>2, <1>3, <1>4 DEF QueueInv, Counts, ReserveKept

(* The counters that decide admission are exactly what the queue and the writer
   hold, messages leave in the order they came, output alone never costs the
   connection and a discarded output is admitted in the exit (QueueInv):
   Enqueue, discardOutput and run in outbox.go. *)
THEOREM QueueSound == OutboxSpec => []QueueInv
<1>1. OutboxInit => QueueIInv
  BY QueueInitially
<1>2. QueueIInv /\ [OutboxNext]_outboxVars => QueueIInv'
  BY QueueInductive
<1>3. QueueIInv => QueueInv
  BY QueueImplied
<1> QED  BY <1>1, <1>2, <1>3, PTL DEF OutboxSpec

(* What a lossless step keeps is written or still held. *)
LEMMA LosslessKeeps ==
  ASSUME QueueIInv, QueueIInv', ~cancelled, writer # "failed", Lossless
  PROVE  Numbers(kept' \ UNION {OutputOf(evicted', c) : c \in finished'})
           \subseteq Numbers(Elems(written') \cup Held')
<1>1. kept \ evicted \subseteq Elems(written) \cup Held
  BY DEF QueueIInv, Complete
<1>2. kept' \ evicted' \subseteq Elems(written') \cup Held'
  BY <1>1 DEF Lossless
<1>3. evicted' \subseteq UNION {OutputOf(evicted', c) : c \in finished'}
  <2>1. \A x \in evicted' : x.kind = "output" /\ x.call \in finished'
    BY DEF QueueIInv, Evictions
  <2> QED  BY <2>1 DEF OutputOf
<1> QED  BY <1>2, <1>3 DEF Numbers

(* Until its connection is cut, whatever Enqueue accepted was written or is still
   to be, but for output discarded for its own call's terminal, the drain of
   Close included (NothingLost): Enqueue, run and Close in outbox.go. *)
THEOREM NothingIsLost == OutboxSpec => NothingLost
<1> DEFINE Step == ~cancelled /\ writer # "failed" /\ writer' # "failed" =>
                     Numbers(kept' \ UNION {OutputOf(evicted', c) : c \in finished'})
                       \subseteq Numbers(Elems(written') \cup Held')
<1>1. OutboxInit => QueueIInv
  BY QueueInitially
<1>2. QueueIInv /\ [OutboxNext]_outboxVars => QueueIInv' /\ Step
  BY QueueInductive, LosslessKeeps
<1>3. QueueIInv /\ [OutboxNext]_outboxVars => QueueIInv' /\ [Step]_outboxVars
  BY <1>2
<1>4. NothingLost <=> [][Step]_outboxVars
  BY DEF NothingLost
<1> HIDE DEF Step
<1> QED  BY <1>1, <1>3, <1>4, PTL DEF OutboxSpec
=============================================================================
