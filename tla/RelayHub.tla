------------------------------ MODULE RelayHub ------------------------------
(***************************************************************************)
(* The Relay's in-memory router (internal/relay/hub*.go): which connection *)
(* stands for a device, which clients may invoke it, and which invocation  *)
(* is in flight between the two.                                           *)
(*                                                                         *)
(* Every WebSocket connection has one goroutine that handles its frames in *)
(* order (serveConn).  A handler runs inside the routing mutex, except for *)
(* the database call some of them make: such a handler holds the identity  *)
(* gate of the device meanwhile and is split here in two actions, the one  *)
(* that takes the gate and makes the call (its transaction is the instant  *)
(* that matters) and the one that publishes the result under the mutex.    *)
(*                                                                         *)
(* Sender.Enqueue only appends to a bounded queue.  It fails on a          *)
(* connection that is closing, and a queue that overflows closes its       *)
(* connection: an overflow is ConnFails just before the handler, so        *)
(* Enqueue succeeds here exactly when the connection is up.                *)
(*                                                                         *)
(* An operator defined just before another one, with the same parameters   *)
(* and a longer name (FinishKeepsLease before Finish), is a mistake the    *)
(* code could have made; no action uses it.  Putting it in the place of    *)
(* the operator it precedes shows that the properties would notice.        *)
(***************************************************************************)
EXTENDS Naturals, FiniteSets

CONSTANTS
  Device,      \* device ids (display numbers)
  DeviceConn,  \* connections that say hello_device, each used once
  ClientConn,  \* connections that say hello_client, each used once
  Nil,         \* a nil Sender, and the absent request
  Request,     \* the caller's exec_id
  Frames,      \* the frames peers send after hello
  Settings,    \* the settings devices send: pairs of a grant and inbound
  PerDevice,   \* admission limit of in-flight requests of a device UID
  MaxRoute,    \* bound: invocations the Relay admits
  MaxId        \* bound: random identifiers (UID, GrantID, OwnershipID) drawn

ASSUME HubAssumption ==
  /\ Nil \notin DeviceConn \cup ClientConn \cup Request
  /\ DeviceConn \cap ClientConn = {}
  /\ Device # {}
  /\ Frames \subseteq {"settings", "revoke", "owner", "access", "status", "renew",
                      "exec", "other", "cancel", "output", "exit", "error"}
  /\ Settings \subseteq {"same", "none", "new"} \X BOOLEAN
  /\ PerDevice \in Nat \ {0} /\ MaxRoute \in Nat /\ MaxId \in Nat

Conn == DeviceConn \cup ClientConn
Route == 1..MaxRoute
Key == ClientConn \X Request
Id == 0..MaxId                \* 0 is the empty string
Operation == {"exec", "other"}

(* access.Device without the credential hashes, and access.Binding. *)
Record == [uid: Id, grant: Id, owner: Id, inbound: BOOLEAN]
NoRecord == [uid |-> 0, grant |-> 0, owner |-> 0, inbound |-> FALSE]
Authority == [uid: Id, grant: Id, owner: Id]
NoAuthority == [uid |-> 0, grant |-> 0, owner |-> 0]

Binding(r) == [uid |-> r.uid, grant |-> IF r.owner = 0 THEN r.grant ELSE 0, owner |-> r.owner]
Matches(b, current) == b.uid # 0 /\ (b.grant # 0) # (b.owner # 0) /\ b = current

VARIABLES
  conn,        \* what became of each connection
  bindID,      \* the device its hello names
  task,        \* the database call its handler is waiting for
  gate,        \* identityGates: the connection that holds a device's gate
  store,       \* DeviceStore: the committed record of a device
  nextId,      \* random identifiers drawn so far, plus one
  devices,     \* Hub.devices: ids that have a slot
  slot,        \* ... and the slot
  access,      \* Hub.access
  clients,     \* Hub.clients: connections that have a slot
  client,      \* ... and the binding in it
  inflight,    \* Hub.inflight: routes in flight
  route,       \* ... and the record of every route ever admitted
  nextRoute,   \* routes admitted so far, plus one
  requests,    \* Hub.requests, 0 where absent
  leased,      \* admission leases not yet released
  running,     \* routes whose invoke reached a device that has sent no terminal
  cancelSent,  \* routes whose cancel was queued to their device
  ended,       \* routes whose terminal was queued to their client
  confirmed,   \* device connections that were sent a settings confirmation
  lost,        \* routes some of whose output the Relay dropped
  exit,        \* the exit frame queued to the client of a route
  shut,        \* exec routes in flight when inbound was switched off in the store
  lease        \* the last execution lease reply of a route

ids == <<store, nextId>>
hub == <<devices, slot, access, clients, client>>
routes == <<inflight, route, nextRoute, requests, leased>>
seen == <<running, cancelSent, ended, confirmed, lost, exit, shut, lease>>
vars == <<conn, bindID, task, gate, ids, hub, routes, seen>>

Slot == [conn: DeviceConn \cup {Nil}, born: DeviceConn \cup {Nil}, record: Record, ready: BOOLEAN]
NoSlot == [conn |-> Nil, born |-> Nil, record |-> NoRecord, ready |-> FALSE]
RouteRecord == [request: Request, device: Device, client: ClientConn, binding: Authority,
                operation: Operation, cancelled: BOOLEAN, trunc: BOOLEAN, via: DeviceConn]
Lease == [route: Route, uid: Id]

Kind == {"idle", "hello", "settings", "revoke", "access", "status", "renew", "invoke"}
Code == {"ok", "rejected", "error"}
Task == [kind: Kind, code: Code, record: Record, route: 0..MaxRoute, request: Request \cup {Nil}, operation: Operation]
Idle == [kind |-> "idle", code |-> "ok", record |-> NoRecord, route |-> 0, request |-> Nil, operation |-> "other"]

TypeOK ==
  /\ conn \in [Conn -> {"new", "up", "closing", "gone"}]
  /\ bindID \in [Conn -> Device]
  /\ task \in [Conn -> Task]
  /\ gate \in [Device -> Conn \cup {Nil}]
  /\ store \in [Device -> Record]
  /\ nextId \in 1..(MaxId + 1)
  /\ devices \subseteq Device
  /\ slot \in [Device -> Slot]
  /\ access \in [Device -> Authority]
  /\ clients \subseteq ClientConn
  /\ client \in [ClientConn -> Authority]
  /\ nextRoute \in 1..(MaxRoute + 1)
  /\ inflight \subseteq 1..(nextRoute - 1)
  /\ DOMAIN route = 1..(nextRoute - 1)
  /\ \A x \in DOMAIN route : route[x] \in RouteRecord
  /\ requests \in [Key -> 0..MaxRoute]
  /\ leased \subseteq Lease
  /\ running \subseteq DOMAIN route /\ cancelSent \subseteq DOMAIN route
  /\ ended \subseteq DOMAIN route /\ lost \subseteq DOMAIN route /\ shut \subseteq DOMAIN route
  /\ confirmed \subseteq DeviceConn
  /\ exit \in [Route -> {"none", "complete", "truncated"}]
  /\ lease \in [Route -> {"none", "granted", "refused"}]

Init ==
  /\ conn = [c \in Conn |-> "new"]
  /\ bindID \in [Conn -> Device]
  /\ task = [c \in Conn |-> Idle]
  /\ gate = [d \in Device |-> Nil]
  /\ store = [d \in Device |-> NoRecord] /\ nextId = 1
  /\ devices = {} /\ slot = [d \in Device |-> NoSlot]
  /\ access = [d \in Device |-> NoAuthority]
  /\ clients = {} /\ client = [c \in ClientConn |-> NoAuthority]
  /\ inflight = {} /\ route = <<>> /\ nextRoute = 1
  /\ requests = [k \in Key |-> 0] /\ leased = {}
  /\ running = {} /\ cancelSent = {} /\ ended = {} /\ confirmed = {}
  /\ lost = {} /\ shut = {}
  /\ exit = [x \in Route |-> "none"]
  /\ lease = [x \in Route |-> "none"]

-----------------------------------------------------------------------------
(* State predicates and the updates that handlers share. *)

Up(c) == c # Nil /\ conn[c] = "up"
IdleUp(c) == conn[c] = "up" /\ task[c].kind = "idle"
KeyOf(x) == <<route[x].client, route[x].request>>
RoutesOf(d) == {x \in inflight : route[x].device = d}
RoutesFrom(c) == {x \in inflight : route[x].client = c}

(* The handler of c waits for the database, then for nothing. *)
Wait(c, t) == task' = [task EXCEPT ![c] = t]
Done(c) == task' = [task EXCEPT ![c] = Idle]
TakeGate(c) == gate[bindID[c]] = Nil /\ gate' = [gate EXCEPT ![bindID[c]] = c]
FreeGate(c) == gate' = [gate EXCEPT ![bindID[c]] = Nil]
Close(S) == conn' = [c \in Conn |-> IF c \in S /\ conn[c] # "gone" THEN "closing" ELSE conn[c]]

FinishKeepsKey(S) ==
  /\ inflight' = inflight \ S
  /\ UNCHANGED requests
  /\ leased' = {l \in leased : l.route \notin S}

(* finishInvocationLocked, for every route of S. *)
Finish(S) ==
  /\ inflight' = inflight \ S
  /\ requests' = [k \in Key |-> IF \E x \in S : KeyOf(x) = k THEN 0 ELSE requests[k]]
  /\ leased' = {l \in leased : l.route \notin S}

(* The terminal of every route of S is queued to its client. *)
TellClients(S) == ended' = ended \cup {x \in S : Up(route[x].client)}
TellNobody(S) == UNCHANGED cancelSent

(* A cancel of every route of S is queued to its device. *)
TellDevices(S) == cancelSent' = cancelSent \cup {x \in S : Up(slot[route[x].device].conn)}

FailDeviceOnlyTells(d) == TellClients(RoutesOf(d)) /\ UNCHANGED <<inflight, requests, leased>>
FailEveryDevice(d) == TellClients(inflight) /\ Finish(inflight)
FailDeviceSilently(d) == Finish(RoutesOf(d)) /\ UNCHANGED ended
FailDevice(d) == TellClients(RoutesOf(d)) /\ Finish(RoutesOf(d))
CancelClient(c) == TellDevices(RoutesFrom(c)) /\ Finish(RoutesFrom(c))

(* stopDeviceRoutingLocked and Close: the slot of c, if it still has one,
   loses its connection, and its routes end with device_offline. *)
StopRouting(c) ==
  LET mine == {d \in Device : d \in devices /\ slot[d].conn = c}
      cut == {x \in inflight : route[x].device \in mine}
  IN  /\ slot' = [d \in Device |-> IF d \in mine THEN [slot[d] EXCEPT !.conn = Nil] ELSE slot[d]]
      /\ TellClients(cut) /\ Finish(cut)
      /\ Close({c})

-----------------------------------------------------------------------------
(* Identity: the handlers that hold the gate of a device over a database
   call.  Each is an action that makes the call and an action that publishes
   its result. *)

(* A transaction of c that would turn the row of its device into r.  A commit
   may be reported as an error, which the Relay cannot tell from a rollback. *)
Transact(c, kind, r) ==
  LET d == bindID[c]
      Result(code, result) == Wait(c, [Idle EXCEPT !.kind = kind, !.code = code, !.record = result])
  IN  \/ /\ r \in Record
         /\ store' = [store EXCEPT ![d] = r]
         /\ nextId' = IF nextId \in {r.uid, r.grant, r.owner} THEN nextId + 1 ELSE nextId
         /\ shut' = IF store[d].inbound /\ ~ r.inbound
                    THEN shut \cup {x \in RoutesOf(d) : route[x].operation = "exec"} ELSE shut
         /\ \E code \in {"ok", "error"} : Result(code, r)
      \/ /\ UNCHANGED <<ids, shut>>
         /\ \E code \in {"rejected", "error"} :
              \* handled alike except by handleAccess
              (code = "rejected" => kind \in {"access", "status"}) /\ Result(code, NoRecord)

Unseen == <<running, cancelSent, ended, confirmed, lost, exit, lease>>

(* RegisterDevice: insert the device or authenticate it. *)
HelloDevice(c) ==
  /\ conn[c] = "new" /\ TakeGate(c)
  /\ conn' = [conn EXCEPT ![c] = "up"]
  /\ LET old == store[bindID[c]]
     IN  Transact(c, "hello", IF old.uid = 0 THEN [NoRecord EXCEPT !.uid = nextId] ELSE old)
  /\ UNCHANGED <<bindID, hub, routes, Unseen>>

(* hello_ok is queued before the connection becomes routable; a connection it
   replaces loses its routes.  The slot starts unready. *)
RegisterDevice(c) ==
  LET d == bindID[c]
      old == slot[d].conn
  IN  /\ task[c].kind = "hello" /\ Done(c) /\ FreeGate(c)
      /\ IF task[c].code = "ok" /\ conn[c] = "up"
         THEN /\ IF d \in devices /\ old # Nil
                 THEN FailDevice(d) /\ Close({old})
                 ELSE UNCHANGED <<conn, inflight, requests, leased, ended>>
              /\ access' = [access EXCEPT ![d] = Binding(task[c].record)]
              /\ devices' = devices \cup {d}
              /\ slot' = [slot EXCEPT ![d] = [conn |-> c, born |-> c, record |-> task[c].record, ready |-> FALSE]]
         ELSE /\ conn' = [conn EXCEPT ![c] = "gone"]
              /\ UNCHANGED <<devices, slot, access, inflight, requests, leased, ended>>
      /\ UNCHANGED <<bindID, ids, clients, client, route, nextRoute, running, cancelSent, confirmed, lost, exit, shut, lease>>

(* RegisterClient: authenticate and load the device.  The grant, or the
   account's share of an owned device, may be right or wrong. *)
HelloClient(c) ==
  LET r == store[bindID[c]]
      known == r.uid # 0 /\ (r.owner # 0 \/ r.grant # 0)
  IN  /\ conn[c] = "new" /\ TakeGate(c)
      /\ conn' = [conn EXCEPT ![c] = "up"]
      /\ \E code \in {"ok", "error"} :
           /\ code = "ok" => known
           /\ Wait(c, [Idle EXCEPT !.kind = "hello", !.code = code, !.record = r])
      /\ UNCHANGED <<bindID, ids, hub, routes, seen>>

RegisterClient(c) ==
  /\ task[c].kind = "hello" /\ Done(c) /\ FreeGate(c)
  /\ IF task[c].code = "ok" /\ conn[c] = "up"
     THEN /\ access' = [access EXCEPT ![bindID[c]] = Binding(task[c].record)]
          /\ clients' = clients \cup {c}
          /\ client' = [client EXCEPT ![c] = Binding(task[c].record)]
          /\ UNCHANGED conn
     ELSE /\ conn' = [conn EXCEPT ![c] = "gone"]
          /\ UNCHANGED <<access, clients, client>>
  /\ UNCHANGED <<bindID, ids, devices, slot, routes, seen>>

(* The device's next frame finds its slot: handleAuth and handleAccess look
   for it by connection, take the gate and look again. *)
OwnsSlot(c) ==
  /\ IdleUp(c) /\ bindID[c] \in devices /\ slot[bindID[c]].conn = c

(* access.Device.WithAccess: the same hash keeps its GrantID, another hash
   draws a new one, no hash has none. *)
WithAccess(r, grant, inbound) ==
  [r EXCEPT !.inbound = inbound,
            !.grant = CASE grant = "same" -> r.grant [] grant = "none" -> 0 [] grant = "new" -> nextId]

(* handleAuth, device.settings: SQLStore.UpdateDevice refuses another UID. *)
UpdateSettings(c, grant, inbound) ==
  /\ OwnsSlot(c) /\ TakeGate(c)
  /\ LET current == store[bindID[c]]
     IN  IF current.uid # 0 /\ current.uid = slot[bindID[c]].record.uid
         THEN Transact(c, "settings", WithAccess(current, grant, inbound))
         ELSE Wait(c, [Idle EXCEPT !.kind = "settings", !.code = "rejected"]) /\ UNCHANGED <<ids, shut>>
  /\ UNCHANGED <<conn, bindID, hub, routes, Unseen>>

(* h.devices[id] == d: the slot the handler read is still the device's. *)
SameSlot(c) == bindID[c] \in devices /\ slot[bindID[c]].born = c

(* Publish the committed settings, end the renewal of foreground routes that
   inbound no longer allows, confirm, and only then become ready. *)
PublishSettings(c) ==
  LET d == bindID[c]
      r == task[c].record
      closed == {x \in RoutesOf(d) : slot[d].record.inbound /\ ~ r.inbound /\ route[x].operation = "exec"}
      fresh == [slot EXCEPT ![d].record = r, ![d].ready = @ \/ Up(c)]
      mine == IF slot[d].conn = c THEN RoutesOf(d) ELSE {}
  IN  /\ task[c].kind = "settings" /\ Done(c) /\ FreeGate(c)
      /\ IF task[c].code # "ok"
         THEN StopRouting(c) /\ UNCHANGED <<access, route, confirmed>>
         ELSE IF ~ SameSlot(c)
         THEN UNCHANGED <<conn, slot, access, inflight, requests, leased, ended, route, confirmed>>
         ELSE /\ access' = [access EXCEPT ![d] = Binding(r)]
              /\ route' = [x \in DOMAIN route |-> IF x \in closed THEN [route[x] EXCEPT !.cancelled = TRUE] ELSE route[x]]
              /\ IF Up(c)
                 THEN /\ slot' = fresh /\ confirmed' = confirmed \cup {c}
                      /\ UNCHANGED <<conn, inflight, requests, leased, ended>>
                 ELSE /\ slot' = [fresh EXCEPT ![d].conn = IF @ = c THEN Nil ELSE @]
                      /\ TellClients(mine) /\ Finish(mine) /\ Close({c})
                      /\ UNCHANGED confirmed
      /\ UNCHANGED <<bindID, ids, devices, clients, client, nextRoute, running, cancelSent, lost, exit, shut, lease>>

(* handleAuth, revoke: delete the identity. *)
Revoke(c) ==
  /\ OwnsSlot(c) /\ TakeGate(c)
  /\ Transact(c, "revoke", NoRecord)
  /\ UNCHANGED <<conn, bindID, hub, routes, Unseen>>

PublishRevoke(c) ==
  LET d == bindID[c]
  IN  /\ task[c].kind = "revoke" /\ Done(c) /\ FreeGate(c)
      /\ IF task[c].code # "ok"
         THEN StopRouting(c) /\ UNCHANGED <<devices, access>>
         ELSE IF ~ SameSlot(c)
         THEN UNCHANGED <<conn, devices, slot, access, inflight, requests, leased, ended>>
         ELSE /\ FailDevice(d) /\ Close({c})
              /\ devices' = devices \ {d}
              /\ slot' = [slot EXCEPT ![d] = NoSlot]
              /\ access' = [access EXCEPT ![d] = NoAuthority]
      /\ UNCHANGED <<bindID, ids, clients, client, route, nextRoute, running, cancelSent, confirmed, lost, exit, shut, lease>>

(* handleAuth cannot take the gate (its connection closes, or the five seconds
   pass while another handler holds it): rejectIdentity. *)
IdentityTimeout(c) ==
  /\ task[c].kind = "idle" /\ conn[c] \in {"up", "closing"}
  /\ bindID[c] \in devices /\ slot[bindID[c]].conn = c
  /\ conn[c] = "closing" \/ gate[bindID[c]] # Nil
  /\ StopRouting(c)
  /\ UNCHANGED <<bindID, task, gate, ids, devices, access, clients, client, route, nextRoute, running, cancelSent, confirmed, lost, exit, shut, lease>>

(* handleAccess and access.Service.Manage: "owner" is a claim or a transfer
   that draws a new OwnershipID (a claim only of an unowned device, a transfer
   only of an owned one), "access" leaves the record of the device alone
   (share, unshare, a claim or transfer by its owner to itself). *)
ManageAccess(c, action) ==
  LET d == bindID[c]
      current == store[d]
      expected == slot[d].record
  IN  /\ OwnsSlot(c) /\ TakeGate(c)
      /\ IF /\ current.uid # 0 /\ current.uid = expected.uid /\ current.owner = expected.owner
            /\ action = "access" => current.owner # 0
         THEN Transact(c, IF action = "status" THEN "status" ELSE "access",
                       IF action = "owner" THEN [current EXCEPT !.owner = nextId] ELSE current)
         ELSE Wait(c, [Idle EXCEPT !.kind = "access", !.code = "rejected"])
              /\ UNCHANGED <<ids, shut>>
      /\ UNCHANGED <<conn, bindID, hub, routes, Unseen>>

InvalidateOnlyClients(d) ==
  LET dropped == {c \in clients : bindID[c] = d}
  IN  /\ UNCHANGED <<cancelSent, ended, inflight, requests, leased>>
      /\ clients' = clients \ dropped
      /\ Close(dropped)

(* invalidateOwnershipLocked: every route of the device is cancelled on the
   device and answered with result_unknown, and its clients are closed. *)
InvalidateOwnership(d) ==
  LET S == RoutesOf(d)
      dropped == {c \in clients : bindID[c] = d}
  IN  /\ TellDevices(S) /\ TellClients(S) /\ Finish(S)
      /\ clients' = clients \ dropped
      /\ Close(dropped)

(* A failed mutation may have committed: stop routing until the device says
   hello again.  A committed one is published to the slot it was read from. *)
PublishAccess(c) ==
  LET d == bindID[c]
      r == task[c].record
      t == task[c]
  IN  /\ t.kind \in {"access", "status"} /\ Done(c) /\ FreeGate(c)
      /\ \/ /\ \/ t.code = "rejected" \/ (t.code = "error" /\ t.kind = "status")
               \/ t.code = "ok" /\ ~ SameSlot(c)
            /\ UNCHANGED <<conn, slot, access, clients, inflight, requests, leased, ended, cancelSent>>
         \/ /\ t.code = "error" /\ t.kind = "access"
            /\ StopRouting(c)
            /\ UNCHANGED <<access, clients, cancelSent>>
         \/ /\ t.code = "ok" /\ SameSlot(c) /\ Up(c)
            /\ IF slot[d].record.owner # r.owner
               THEN InvalidateOwnership(d)
               ELSE UNCHANGED <<conn, clients, inflight, requests, leased, ended, cancelSent>>
            /\ slot' = [slot EXCEPT ![d].record = r]
            /\ access' = [access EXCEPT ![d] = Binding(r)]
         \/ /\ t.code = "ok" /\ SameSlot(c) /\ ~ Up(c)
            \* The result cannot be confirmed: the routes the ownership change
            \* leaves end with device_offline.
            /\ LET changed == slot[d].record.owner # r.owner
                   dropped == {k \in clients : changed /\ bindID[k] = d}
                   cut == IF changed \/ slot[d].conn = c THEN RoutesOf(d) ELSE {}
               IN  /\ TellClients(cut) /\ Finish(cut)
                   /\ clients' = clients \ dropped
                   /\ Close(dropped \cup {c})
            /\ slot' = [slot EXCEPT ![d].record = r, ![d].conn = IF @ = c THEN Nil ELSE @]
            /\ access' = [access EXCEPT ![d] = Binding(r)]
            /\ UNCHANGED cancelSent
      /\ UNCHANGED <<bindID, ids, devices, client, route, nextRoute, running, confirmed, lost, exit, shut, lease>>

-----------------------------------------------------------------------------
(* Invocations. *)

(* handleInvoke up to the mutex: verifyClientAccess.  The share of an owned
   device is resolved against the database, outside mutex and gate. *)
Invoke(c, r, op) ==
  /\ IdleUp(c) /\ c \in clients
  /\ client[c].owner # 0 => client[c] = Binding(store[bindID[c]])
  /\ Wait(c, [Idle EXCEPT !.kind = "invoke", !.request = r, !.operation = op])
  /\ UNCHANGED <<conn, bindID, gate, ids, hub, routes, seen>>

(* The checks of handleInvoke under the mutex, the admission limit last. *)
Admissible(c) ==
  LET d == bindID[c]
  IN  /\ c \in clients /\ Matches(client[c], access[d])
      /\ requests[<<c, task[c].request>>] = 0
      /\ d \in devices /\ slot[d].ready /\ slot[d].conn # Nil /\ slot[d].record.uid = client[c].uid
      /\ slot[d].record.inbound
      /\ Cardinality({l \in leased : l.uid = client[c].uid}) < PerDevice

(* The route is registered, then queued to the device; a device connection
   that no longer takes frames loses its slot and all its routes. *)
Admit(c) ==
  LET d == bindID[c]
      x == nextRoute
      dc == slot[d].conn
      new == [request |-> task[c].request, device |-> d, client |-> c, binding |-> client[c],
              operation |-> task[c].operation, cancelled |-> FALSE, trunc |-> FALSE, via |-> dc]
  IN  /\ task[c].kind = "invoke" /\ Up(c) /\ Admissible(c) /\ x \in Route
      /\ Done(c)
      /\ nextRoute' = x + 1
      /\ route' = [y \in 1..x |-> IF y = x THEN new ELSE route[y]]
      /\ IF Up(dc)
         THEN /\ inflight' = inflight \cup {x}
              /\ requests' = [requests EXCEPT ![<<c, new.request>>] = x]
              /\ leased' = leased \cup {[route |-> x, uid |-> client[c].uid]}
              /\ running' = running \cup {x}
              /\ UNCHANGED <<slot, ended>>
         ELSE /\ Finish(RoutesOf(d))
              /\ ended' = ended \cup {x} \cup {y \in RoutesOf(d) : Up(route[y].client)}
              /\ slot' = [slot EXCEPT ![d].conn = Nil]
              /\ UNCHANGED running
      /\ UNCHANGED <<conn, bindID, gate, ids, devices, access, clients, client, cancelSent, confirmed, lost, exit, shut, lease>>

(* invoke_nack, or nothing when the caller is gone.  Issuing the proof of a
   handoff.submit may fail after every check has passed. *)
RejectInvoke(c) ==
  /\ task[c].kind = "invoke"
  /\ ~ Up(c) \/ ~ Admissible(c) \/ task[c].operation = "other"
  /\ Done(c)
  /\ UNCHANGED <<conn, bindID, gate, ids, hub, routes, seen>>

(* handleCancel: forwarded to the device, the route stays until a terminal. *)
Cancel(c, r) ==
  LET x == requests[<<c, r>>]
  IN  /\ IdleUp(c) /\ x # 0
      /\ route' = [route EXCEPT ![x].cancelled = TRUE]
      /\ TellDevices({x})
      /\ UNCHANGED <<conn, bindID, task, gate, ids, hub, inflight, nextRoute, requests, leased, running, ended, confirmed, lost, exit, shut, lease>>

(* A frame about route x arrives on the connection the invoke was sent to. *)
Arrives(x) ==
  /\ x \in running
  /\ task[route[x].via].kind = "idle" /\ conn[route[x].via] \in {"up", "closing"}

(* forwardToClient looks the route up and checks who sent the frame. *)
Routed(x) == x \in inflight /\ slot[route[x].device].conn = route[x].via

(* A caller whose queue takes no more frames loses all its routes. *)
DropCaller(c) ==
  CancelClient(c) /\ clients' = clients \ {c} /\ Close({c})

(* inf.trunc = true: the caller's exit frame will say so. *)
TruncateForgotten(x) == UNCHANGED route
Truncate(x) == route' = [route EXCEPT ![x].trunc = TRUE]

(* stdout or stderr that is not delivered: a frame over MaxFrameBytes, output
   over MaxExecOutputBytes, or a caller's queue that is full of output.
   Delivered output changes nothing that is modelled. *)
DropOutput(x) ==
  /\ Arrives(x) /\ Routed(x)
  /\ Truncate(x)
  /\ lost' = lost \cup {x}
  /\ UNCHANGED <<conn, bindID, task, gate, ids, hub, inflight, nextRoute, requests, leased, running, cancelSent, ended, confirmed, exit, shut, lease>>

(* Output that reaches a caller whose connection is closing. *)
OutputToClosedCaller(x) ==
  /\ Arrives(x) /\ Routed(x) /\ ~ Up(route[x].client)
  /\ DropCaller(route[x].client)
  /\ UNCHANGED <<bindID, task, gate, ids, devices, slot, access, client, route, nextRoute, running, ended, confirmed, lost, exit, shut, lease>>

(* The inbox of the device connection is full: its reader drops output while
   the connection's handler may be waiting (noteDroppedOutput). *)
DropFromInbox(x) ==
  /\ x \in running /\ conn[route[x].via] = "up"
  /\ lost' = lost \cup {x}
  /\ IF Routed(x) THEN Truncate(x) ELSE UNCHANGED route
  /\ UNCHANGED <<conn, bindID, task, gate, ids, hub, inflight, nextRoute, requests, leased, running, cancelSent, ended, confirmed, exit, shut, lease>>

(* exit, error or invoke_nack from the device, once for every invoke. *)
Terminal(x, kind) ==
  LET c == route[x].client
  IN  /\ Arrives(x)
      /\ running' = running \ {x}
      /\ IF ~ Routed(x)
         THEN UNCHANGED <<conn, clients, inflight, requests, leased, cancelSent, ended, exit>>
         ELSE IF Up(c)
         THEN /\ TellClients({x}) /\ Finish({x})
              /\ exit' = IF kind # "exit" THEN exit
                         ELSE [exit EXCEPT ![x] = IF route[x].trunc THEN "truncated" ELSE "complete"]
              /\ UNCHANGED <<conn, clients, cancelSent>>
         ELSE DropCaller(c) /\ UNCHANGED <<ended, exit>>
      /\ UNCHANGED <<bindID, task, gate, ids, devices, slot, access, client, route, nextRoute, confirmed, lost, shut, lease>>

-----------------------------------------------------------------------------
(* Execution leases of foreground routes. *)

LiveRouteUncancelled(c, x) ==
  LET d == route[x].device
  IN  /\ route[x].operation = "exec"
      /\ Up(route[x].client) /\ Up(c) /\ route[x].client \in clients
      /\ d \in devices /\ slot[d].ready /\ slot[d].conn = c /\ slot[d].record.inbound
      /\ Matches(route[x].binding, Binding(slot[d].record))

(* liveExecutionRouteLocked *)
LiveRoute(c, x) ==
  LET d == route[x].device
  IN  /\ ~ route[x].cancelled /\ route[x].operation = "exec"
      /\ Up(route[x].client) /\ Up(c) /\ route[x].client \in clients
      /\ d \in devices /\ slot[d].ready /\ slot[d].conn = c /\ slot[d].record.inbound
      /\ Matches(route[x].binding, Binding(slot[d].record))
      /\ Matches(route[x].binding, access[d])

(* renewExecutionRoute up to RenewForeground, which loads the device and
   verifies the caller's credential, share or grant. *)
RenewRoute(c, x) ==
  LET d == route[x].device
  IN  /\ IdleUp(c) /\ d = bindID[c] /\ x \in inflight /\ LiveRoute(c, x) /\ TakeGate(c)
      /\ \E code \in Code :
           /\ code = "ok" => store[d].inbound /\ Matches(route[x].binding, Binding(store[d]))
           /\ Wait(c, [Idle EXCEPT !.kind = "renew", !.code = code, !.route = x])
      /\ UNCHANGED <<conn, bindID, ids, hub, routes, seen>>


(* The reply, after the route has been checked again. *)
ReplyLease(c) ==
  LET x == task[c].route
      granted == task[c].code = "ok" /\ x \in inflight /\ LiveRoute(c, x)
  IN  /\ task[c].kind = "renew" /\ Done(c) /\ FreeGate(c)
      /\ lease' = IF Up(c) THEN [lease EXCEPT ![x] = IF granted THEN "granted" ELSE "refused"] ELSE lease
      /\ UNCHANGED <<conn, bindID, ids, hub, routes, running, cancelSent, ended, confirmed, lost, exit, shut>>

-----------------------------------------------------------------------------
(* Connections. *)

(* The peer goes away, a write fails or a queue overflows. *)
ConnFails(c) ==
  /\ conn[c] = "up" /\ conn' = [conn EXCEPT ![c] = "closing"]
  /\ UNCHANGED <<bindID, task, gate, ids, hub, routes, seen>>

(* The frames end and serveConn returns: Hub.Drop. *)
DropDevice(c) ==
  LET d == bindID[c]
      mine == d \in devices /\ slot[d].conn = c
  IN  /\ conn[c] = "closing" /\ task[c].kind = "idle"
      /\ conn' = [conn EXCEPT ![c] = "gone"]
      /\ IF mine
         THEN FailDevice(d) /\ slot' = [slot EXCEPT ![d].conn = Nil]
         ELSE UNCHANGED <<slot, inflight, requests, leased, ended>>
      /\ UNCHANGED <<bindID, task, gate, ids, devices, access, clients, client, route, nextRoute, running, cancelSent, confirmed, lost, exit, shut, lease>>

DropClient(c) ==
  /\ conn[c] = "closing" /\ task[c].kind = "idle"
  /\ conn' = [conn EXCEPT ![c] = "gone"]
  /\ CancelClient(c) /\ clients' = clients \ {c}
  /\ UNCHANGED <<bindID, task, gate, ids, devices, slot, access, client, route, nextRoute, running, ended, confirmed, lost, exit, shut, lease>>

(* No connection is open: a peer need not come back. *)
Exhausted == (\A c \in Conn : conn[c] \in {"new", "gone"}) /\ UNCHANGED vars

DeviceStep(c) ==
  \/ HelloDevice(c) \/ RegisterDevice(c)
  \/ "settings" \in Frames /\ \E s \in Settings : UpdateSettings(c, s[1], s[2])
  \/ PublishSettings(c)
  \/ "revoke" \in Frames /\ Revoke(c)
  \/ PublishRevoke(c)
  \/ \E action \in {"owner", "access", "status"} \cap Frames : ManageAccess(c, action)
  \/ PublishAccess(c)
  \/ IdentityTimeout(c)
  \/ "renew" \in Frames /\ \E x \in inflight : RenewRoute(c, x)
  \/ ReplyLease(c)
  \/ ConnFails(c) \/ DropDevice(c)

ClientStep(c) ==
  \/ HelloClient(c) \/ RegisterClient(c)
  \/ \E r \in Request, op \in Operation \cap Frames : Invoke(c, r, op)
  \/ Admit(c) \/ RejectInvoke(c)
  \/ "cancel" \in Frames /\ \E r \in Request : Cancel(c, r)
  \/ ConnFails(c) \/ DropClient(c)

RouteStep(x) ==
  \/ "output" \in Frames /\ (DropOutput(x) \/ OutputToClosedCaller(x) \/ DropFromInbox(x))
  \/ \E kind \in {"exit", "error"} \cap Frames : Terminal(x, kind)

Next ==
  \/ \E c \in DeviceConn : DeviceStep(c)
  \/ \E c \in ClientConn : ClientStep(c)
  \/ \E x \in running : RouteStep(x)
  \/ Exhausted

Spec == Init /\ [][Next]_vars

(* Fairness the code justifies.  A database call returns within its five
   seconds and the goroutine that made it is scheduled; a goroutine whose
   connection is closing returns and drops it; a device sends the terminal of
   every execution it runs (exec_timeout or process exit), and since frames of
   a connection are handled in order, the terminal gets its turn however many
   other frames the connection sends: strong fairness. *)
Fairness ==
  /\ \A c \in DeviceConn :
       /\ WF_vars(RegisterDevice(c)) /\ WF_vars(PublishSettings(c)) /\ WF_vars(PublishRevoke(c))
       /\ WF_vars(PublishAccess(c)) /\ WF_vars(ReplyLease(c)) /\ WF_vars(DropDevice(c))
  /\ \A c \in ClientConn :
       WF_vars(RegisterClient(c)) /\ WF_vars(Admit(c)) /\ WF_vars(RejectInvoke(c)) /\ WF_vars(DropClient(c))
  /\ \A x \in Route : SF_vars(x \in running /\ Terminal(x, "error"))

FairSpec == Spec /\ Fairness

-----------------------------------------------------------------------------
(* Properties. *)

(* The caller's key and the route of an invocation name each other, and the
   admission lease lives exactly as long as the route (hub_invocation.go:
   registration, finishInvocationLocked and the four paths that call it).  A
   key left behind would refuse the caller's next request, a lease left behind
   would shrink the device's capacity for ever. *)
RoutesConsistent ==
  /\ \A k \in Key : requests[k] # 0 => requests[k] \in inflight /\ KeyOf(requests[k]) = k
  /\ \A x \in inflight : requests[KeyOf(x)] = x
  /\ leased = {[route |-> x, uid |-> route[x].binding.uid] : x \in inflight}

(* A route joins two connections that the router still knows: its caller is
   registered, and the device's slot is held by the very connection the invoke
   was queued to.  Replacement, revocation, ownership change, queue overflow
   and disconnection all end the routes they orphan (dataplane.md 7). *)
RouteEndsRegistered ==
  \A x \in inflight :
    /\ route[x].client \in clients
    /\ route[x].device \in devices
    /\ slot[route[x].device].conn = route[x].via

(* No more requests of a device UID are in flight than admission allows, and a
   cancelled one still counts: sending a cancel releases nothing. *)
AdmissionBound ==
  \A u \in Id : Cardinality({x \in inflight : route[x].binding.uid = u}) <= PerDevice

(* A caller that is still connected is sent exactly one terminal for every
   admitted invocation, and none while it is in flight. *)
OneTerminal ==
  \A x \in DOMAIN route : Up(route[x].client) => (x \in inflight) = (x \notin ended)

(* What the router's own maps promise in every state: they name each other's
   entries (RoutesConsistent), stay within admission (AdmissionBound), and a
   connected caller has got a terminal for exactly the invocations that left
   the router (OneTerminal). *)
RouterInv == TypeOK /\ RoutesConsistent /\ AdmissionBound /\ OneTerminal

(* Work on a device never outlives its route unknown to the device: it was
   told to cancel, or its connection is being closed. *)
NoOrphanOnDevice ==
  \A x \in running \ inflight : x \in cancelSent \/ conn[route[x].via] \in {"closing", "gone"}

(* While a device is routable and no identity operation holds its gate, what
   the Relay believes about it is what the database says: the slot's record,
   and the authority that invocations and renewals are matched against. *)
AuthorityFresh ==
  \A d \in devices : slot[d].conn # Nil /\ gate[d] = Nil =>
    slot[d].record = store[d] /\ access[d] = Binding(store[d])

(* No route of a former owner, or of a deleted identity, survives the moment
   the Relay learns of the change. *)
OwnershipCurrent ==
  \A x \in inflight : LET a == access[route[x].device]
                      IN  route[x].binding.uid = a.uid /\ route[x].binding.owner = a.owner

(* Every route in flight is one the router would still use: both its ends are
   registered and it belongs to the present owner of the device. *)
RoutesCurrent == RouteEndsRegistered /\ OwnershipCurrent

(* An invoke is never queued to a device before the confirmation of its
   settings (handleAuth: "initial invokes cannot precede the settings
   response"). *)
InvokeAfterConfirmation ==
  \A x \in DOMAIN route : (x \in running \/ x \in inflight) => route[x].via \in confirmed

(* An exit that reaches the caller without the truncated mark accounts for
   all the output of the execution, wherever the Relay may have dropped some. *)
TruncationReported ==
  \A x \in Route : (exit[x] = "complete" => x \notin lost) /\ (exit[x] = "truncated" => x \in lost)

(* A lease is granted only for a route in flight whose device is open to
   invocations and whose caller is still authorised, in the database and not
   only in the router's memory, at the moment of the reply; and switching
   inbound off ends the renewal of the executions in flight for good, even if
   it is switched on again. *)
Grants(x) == \E c \in DeviceConn :
  task[c].kind = "renew" /\ task[c].route = x /\ task'[c].kind = "idle" /\ lease'[x] = "granted" /\ Up(c)

LeaseOnlyIfAuthorised ==
  [][\A x \in DOMAIN route : Grants(x) =>
       LET r == store[route[x].device]
       IN  x \in inflight /\ x \notin shut /\ r.inbound /\ route[x].binding = Binding(r)]_vars

(* A route ends for a cause of its own: its device sent a terminal (or never
   got the invoke), its caller's connection is lost, its device's connection
   left the slot, or the ownership it was admitted under has changed.  What
   befalls other devices and other callers leaves it alone. *)
RouteEndsForCause ==
  [][\A x \in inflight \ inflight' :
       LET d == route[x].device
       IN  \/ x \notin running'
           \/ ~ Up(route[x].client)
           \/ slot'[d].conn # route[x].via
           \/ access'[d].owner # access[d].owner]_vars

(* What a device runs or is asked to run is what the Relay routed to it: nothing
   before its settings are confirmed, nothing that outlives its route untold. *)
DeviceInStep == NoOrphanOnDevice /\ InvokeAfterConfirmation

(* Routes and the authority they are matched against are those of the store. *)
AuthorityCurrent == RoutesCurrent /\ AuthorityFresh

=============================================================================
