--------------------------- MODULE DeviceSettings ---------------------------
(* The settings of a device and their confirmation by its Relay: the gate that
   changes, connections, a change of Relay, revoke and reset share
   (device_settings.go, local.go), the connection loop (daemon.go keepDevice and
   connectDevice), the waiters for replies (device_replies.go), the durable row
   behind identity.Store (ops.go, device_db.go), and what the Relay does with
   the frames of one device connection (modules RelayHub and RelayHubContract
   have the rest of it).

   A grant is a number: 0 is none, and each one issued is new.  An operation
   waits for the gate, works, and replies, each once.  Any wait for the gate or
   for the Relay may run out of time, any connection may fail at any step, and
   any write of the row may fail with either content on disk.

   The reply is written to the head, and nothing bounds that write
   (ipc.Conn.WriteFrame): it lasts while the head does not read and ends when it
   reads or goes.  revoke, config.set and reset reply before they release the
   gate, and reset before it stops the Runtime; grant.issue, grant.rotate and
   inbound.set return first, and whoever is refused at the gate has no part of
   it, so that their replies are nobody else's business and are left out.

   Left out: requests refused for their form, what is said in hello beside the
   identity, heartbeats, the waiters' limit (the gate leaves one settings waiter
   at a time, their limit is 16), and the executions and handoffs a context ends
   (modules LocalExec and HandoffManager). *)
EXTENDS Naturals, Sequences, FiniteSets

CONSTANTS Call,    \* operations asked for by heads, numbered in that order
          Node,    \* the connection loop, the gate's other user
          Slots,   \* users of the gate that may wait or work
          Relay,   \* Relay addresses; the first configured one is any of them
          MaxLink, \* bound: connections dialled
          None

ASSUME SettingsAssumption ==
  /\ Call \subseteq Nat /\ IsFiniteSet(Call)
  /\ Node \notin Call /\ None \notin Call \cup {Node}
  /\ Slots \in Nat \ {0} /\ MaxLink \in Nat \ {0}

VARIABLES
  gate,     \* settingsGate: who holds a slot, who the writer's place
  row,      \* the row on disk
  mem,      \* Store.device
  config,   \* Store.Config.RelayURL
  call,     \* each operation
  node,     \* connectDevice
  device,   \* Daemon.device: the published link, 0 if none
  links,    \* what the links are: address, alive at this end
  up, down, \* frames on their way to and from the Relay, by link
  table,    \* each Relay's row of this device
  current,  \* each Relay's connection for this device, 0 if none
  mute      \* history: a revoke was not sent on a link that stays up

vars == <<gate, row, mem, config, call, node, device, links, up, down, table, current, mute>>

(***************************************************************************)
(* Types and helpers                                                       *)
(***************************************************************************)

User == Call \cup {Node}
Link == 1..MaxLink
Grants == 0..Cardinality(Call)
Op == {"issue", "on", "off", "revoke", "config", "reset"}
Unset == [grant |-> 0, inbound |-> FALSE]
Record == [grant : Grants, inbound : BOOLEAN, active : BOOLEAN, revision : Nat]
Unregistered == [grant |-> 0, inbound |-> FALSE, known |-> FALSE]

Settings == [grant : Grants, inbound : BOOLEAN]
CallRecord == [pc : {"new", "queued", "saving", "sending", "waiting",
                     "replying", "stalled", "done"}, op : Op,
               reply : {"none", "ok", "busy", "unsaved", "unknown"}, want : Settings,
               link : 0..MaxLink, issued : BOOLEAN]
Frame == [type : {"hello", "settings", "revoke"}, key : User \cup {None}, want : Settings]
Answer == [key : User \cup {None}, code : {"", "agent_error"}]

TypeOK ==
  /\ gate \in [slots : SUBSET User, writer : User \cup {None}]
  /\ row \in Record /\ mem \in Record
  /\ config \in Relay
  /\ call \in [Call -> CallRecord]
  /\ node \in [pc : {"idle", "queued", "refresh", "dial", "hello", "confirm", "serving", "over"},
               link : 0..MaxLink, want : Settings]
  /\ device \in 0..MaxLink
  /\ links \in [Link -> [dialled : BOOLEAN, alive : BOOLEAN, relay : Relay]]
  /\ up \in [Link -> Seq(Frame)] /\ down \in [Link -> Seq(Answer)]
  /\ table \in [Relay -> [grant : Grants, inbound : BOOLEAN, known : BOOLEAN]]
  /\ current \in [Relay -> 0..MaxLink]
  /\ mute \in BOOLEAN

Held(r) == [grant |-> r.grant, inbound |-> r.inbound]
Used == {l \in Link : links[l].dialled}
Closed(l) == [links EXCEPT ![l].alive = FALSE]
Send(l, frame) == up' = [up EXCEPT ![l] = Append(@, frame)]

(* The first grant nobody has seen. *)
NewGrant == 1 + Cardinality({c \in Call : call[c].issued})

Init ==
  /\ gate = [slots |-> {}, writer |-> None]
  /\ row = [grant |-> 0, inbound |-> FALSE, active |-> TRUE, revision |-> 1]
  /\ mem = row
  /\ config \in Relay
  /\ call = [c \in Call |-> [pc |-> "new", op |-> "issue", reply |-> "none",
                             want |-> Unset, link |-> 0, issued |-> FALSE]]
  /\ node = [pc |-> "idle", link |-> 0, want |-> Unset]
  /\ device = 0
  /\ links = [l \in Link |-> [dialled |-> FALSE, alive |-> FALSE, relay |-> config]]
  /\ up = [l \in Link |-> <<>>] /\ down = [l \in Link |-> <<>>]
  /\ table = [r \in Relay |-> Unregistered]
  /\ current = [r \in Relay |-> 0]
  /\ mute = FALSE

(***************************************************************************)
(* The gate                                                                *)
(***************************************************************************)

Stopped == node.pc = "over"

(* A slot if there is one, at once. *)
TakesSlot(u) ==
  /\ Cardinality(gate.slots) < Slots
  /\ gate' = [gate EXCEPT !.slots = @ \cup {u}]

(* The writer's place, when it is free and the time is not up. *)
TakesWriter(u) ==
  /\ gate.writer = None
  /\ gate' = [gate EXCEPT !.writer = u]

(* Altered: the writer's place is not given back. *)
ReleasedSlotOnly(u) == [gate EXCEPT !.slots = @ \ {u}]

Released(u) ==
  [slots |-> gate.slots \ {u}, writer |-> IF gate.writer = u THEN None ELSE gate.writer]

Returns(c, reply) ==
  /\ call' = [call EXCEPT ![c].pc = "done", ![c].reply = reply]
  /\ gate' = Released(c)

(* The reply is written with the gate held. *)
Replies(c, reply) ==
  /\ call' = [call EXCEPT ![c].pc = "replying", ![c].reply = reply]
  /\ UNCHANGED gate

(***************************************************************************)
(* Operations of the heads                                                 *)
(***************************************************************************)

Queue(c, op) ==
  /\ ~Stopped /\ call[c].pc = "new"
  /\ \A d \in Call : d < c => call[d].pc # "new"
  /\ \/ /\ TakesSlot(c)
        /\ call' = [call EXCEPT ![c].pc = "queued", ![c].op = op]
     \/ /\ Cardinality(gate.slots) >= Slots
        /\ call' = [call EXCEPT ![c].pc = "done", ![c].op = op, ![c].reply = "busy"]
        /\ UNCHANGED gate
  /\ UNCHANGED <<row, mem, config, node, device, links, up, down, table, current, mute>>

Acquire(c) ==
  /\ call[c].pc = "queued"
  /\ \/ ~Stopped /\ TakesWriter(c) /\ call' = [call EXCEPT ![c].pc = "saving"]
     \/ Returns(c, "busy")
  /\ UNCHANGED <<row, mem, config, node, device, links, up, down, table, current, mute>>

(* What the operation makes of the record. *)
Desired(c) ==
  CASE call[c].op = "issue" -> [grant |-> NewGrant, inbound |-> TRUE]
    [] call[c].op = "on"    -> [grant |-> IF mem.grant = 0 THEN NewGrant ELSE mem.grant,
                                inbound |-> TRUE]
    [] call[c].op = "off"   -> [grant |-> mem.grant, inbound |-> FALSE]
    [] OTHER                -> Unset

NextRecord(s, active) ==
  [grant |-> s.grant, inbound |-> s.inbound, active |-> active, revision |-> mem.revision + 1]

(* publishDevice: one statement guarded by the record as this Store knows it. *)
Current == row.active /\ row.revision = mem.revision
Published(next) == Current /\ row' = next /\ mem' = next

(* The write fails, before or after it took effect. *)
Unpublished(next) == row' \in {row} \cup {n \in {next} : Current} /\ UNCHANGED mem

(* grant.issue, grant.rotate, inbound.set and revoke save before they send. *)
Save(c) ==
  /\ call[c].pc = "saving" /\ call[c].op \in {"issue", "on", "off", "revoke"}
  /\ LET s == Desired(c)
         mark(pc, reply) == [call EXCEPT ![c].pc = pc, ![c].reply = reply, ![c].want = s,
                                         ![c].issued = s.grant = NewGrant]
     IN \/ /\ Published(NextRecord(s, TRUE))
           /\ call' = mark("sending", "none")
           /\ UNCHANGED gate
        \/ /\ Unpublished(NextRecord(s, TRUE))
           /\ \/ call[c].op # "revoke" /\ call' = mark("done", "unsaved") /\ gate' = Released(c)
              \/ call[c].op = "revoke" /\ call' = mark("replying", "unsaved") /\ UNCHANGED gate
  /\ UNCHANGED <<config, node, device, links, up, down, table, current, mute>>

(* updateDeviceSettings from the read of d.device to the wait.  A frame whose
   sending is cut off may still go out: the write is not interrupted. *)
SendSettings(c) ==
  /\ call[c].pc = "sending" /\ call[c].op # "revoke"
  /\ LET frame == [type |-> "settings", key |-> c, want |-> call[c].want]
     IN \/ /\ device = 0
           /\ Returns(c, "unknown") /\ UNCHANGED <<links, up>>
        \/ /\ device # 0 /\ links[device].relay # config
           /\ links' = Closed(device) /\ Returns(c, "unknown") /\ UNCHANGED up
        \/ /\ device # 0 /\ links[device].relay = config /\ links[device].alive
           /\ Send(device, frame)
           /\ call' = [call EXCEPT ![c].pc = "waiting", ![c].link = device]
           /\ UNCHANGED <<links, gate>>
        \/ /\ device # 0 /\ links[device].relay = config
           /\ \/ UNCHANGED up
              \/ links[device].alive /\ Send(device, frame)
           /\ links' = Closed(device) /\ Returns(c, "unknown")
  /\ UNCHANGED <<row, mem, config, node, device, down, table, current, mute>>

(* Altered: the link of an unconfirmed change stays. *)
GivesUpQuietly(c) ==
  /\ call[c].pc = "waiting"
  /\ Returns(c, "unknown")
  /\ UNCHANGED <<row, mem, config, node, device, links, up, down, table, current, mute>>

(* The wait ends without a confirmation: the link goes, so that a fresh
   connection reconciles the saved settings. *)
GivesUp(c) ==
  /\ call[c].pc = "waiting"
  /\ links' = Closed(call[c].link)
  /\ Returns(c, "unknown")
  /\ UNCHANGED <<row, mem, config, node, device, up, down, table, current, mute>>

(* pushRevoke: nobody waits for the Relay, and an error is not looked at. *)
PushRevoke ==
  \/ device = 0 /\ UNCHANGED <<up, mute>>
  \/ /\ device # 0 /\ links[device].alive
     /\ Send(device, [type |-> "revoke", key |-> None, want |-> Unset]) /\ UNCHANGED mute
  \/ device # 0 /\ UNCHANGED up /\ mute' = links[device].alive

Revoke(c) ==
  /\ call[c].pc = "sending" /\ call[c].op = "revoke"
  /\ PushRevoke
  /\ Replies(c, "ok")
  /\ UNCHANGED <<row, mem, config, node, device, links, down, table, current>>

(* config.set: a new address closes the device link (clients: ClientPool); what
   cannot be saved changes nothing. *)
SetConfig(c, address) ==
  /\ call[c].pc = "saving" /\ call[c].op = "config"
  /\ \/ /\ config' = address
        /\ links' = IF address # config /\ device # 0 THEN Closed(device) ELSE links
        /\ Replies(c, "ok")
     \/ Replies(c, "unsaved") /\ UNCHANGED <<config, links>>
  /\ UNCHANGED <<row, mem, node, device, up, down, table, current, mute>>

(* reset: revoke and wipe. *)
Reset(c) ==
  /\ call[c].pc = "saving" /\ call[c].op = "reset"
  /\ PushRevoke
  /\ LET gone == NextRecord(Unset, FALSE)
     IN \/ Published(gone) /\ Replies(c, "ok")
        \/ Unpublished(gone) /\ Replies(c, "unsaved")
  /\ UNCHANGED <<config, node, device, links, down, table, current>>

(* The head stops reading, and the write of the reply waits for it. *)
HeadStalls(c) ==
  /\ call[c].pc = "replying"
  /\ call' = [call EXCEPT ![c].pc = "stalled"]
  /\ UNCHANGED <<gate, row, mem, config, node, device, links, up, down, table, current, mute>>

(* It reads again, or goes. *)
HeadReads(c) ==
  /\ call[c].pc = "stalled"
  /\ call' = [call EXCEPT ![c].pc = "replying"]
  /\ UNCHANGED <<gate, row, mem, config, node, device, links, up, down, table, current, mute>>

(* The reply is written and the gate given back; reset, whose wipe may have
   failed, stops the Runtime first. *)
Reply(c) ==
  /\ call[c].pc = "replying"
  /\ Returns(c, call[c].reply)
  /\ \/ call[c].op # "reset" /\ UNCHANGED <<node, device, links>>
     \/ /\ call[c].op = "reset"
        /\ node' = [node EXCEPT !.pc = "over"]
        /\ links' = [l \in Link |-> [links[l] EXCEPT !.alive = FALSE]]
        /\ device' = 0
  /\ UNCHANGED <<row, mem, config, up, down, table, current, mute>>

(***************************************************************************)
(* The connection loop                                                     *)
(***************************************************************************)

NodeQueue ==
  /\ node.pc = "idle" /\ \E l \in Link : l \notin Used
  /\ TakesSlot(Node)
  /\ node' = [node EXCEPT !.pc = "queued"]
  /\ UNCHANGED <<row, mem, config, call, device, links, up, down, table, current, mute>>

NodeFails ==
  /\ node' = [node EXCEPT !.pc = "idle"]
  /\ gate' = Released(Node)

NodeAcquire ==
  /\ node.pc = "queued"
  /\ \/ TakesWriter(Node) /\ node' = [node EXCEPT !.pc = "refresh"]
     \/ NodeFails
  /\ UNCHANGED <<row, mem, config, call, device, links, up, down, table, current, mute>>

(* RefreshDevice and Snapshot: the durable row, not the cache. *)
Refresh ==
  /\ node.pc = "refresh"
  /\ \/ /\ row.active
        /\ mem' = row
        /\ node' = [node EXCEPT !.pc = "dial",
             !.want = [grant |-> row.grant, inbound |-> row.inbound /\ row.grant # 0]]
        /\ UNCHANGED gate
     \/ NodeFails /\ UNCHANGED mem
  /\ UNCHANGED <<row, config, call, device, links, up, down, table, current, mute>>

Dial ==
  /\ node.pc = "dial"
  /\ \/ \E l \in Link \ Used :
          /\ \A k \in 1..(l - 1) : k \in Used
          /\ links' = [links EXCEPT ![l] = [dialled |-> TRUE, alive |-> TRUE, relay |-> config]]
          /\ Send(l, [type |-> "hello", key |-> Node, want |-> Unset])
          /\ node' = [node EXCEPT !.pc = "hello", !.link = l]
          /\ UNCHANGED gate
     \/ NodeFails /\ UNCHANGED <<links, up>>
  /\ UNCHANGED <<row, mem, config, call, device, down, table, current, mute>>

(* hello_ok arrives: the complete settings follow. *)
Greeted ==
  LET l == node.link
  IN /\ node.pc = "hello" /\ links[l].alive /\ down[l] # <<>>
     /\ down' = [down EXCEPT ![l] = Tail(@)]
     /\ Send(l, [type |-> "settings", key |-> Node, want |-> node.want])
     /\ node' = [node EXCEPT !.pc = "confirm"]
     /\ UNCHANGED <<gate, row, mem, config, call, device, links, table, current, mute>>

(* The settings are confirmed: the link is published, then the gate is free. *)
Publish ==
  LET l == node.link
  IN /\ node.pc = "confirm" /\ links[l].alive /\ down[l] # <<>>
     /\ Head(down[l]).key = Node /\ Head(down[l]).code = ""
     /\ down' = [down EXCEPT ![l] = Tail(@)]
     /\ device' = l
     /\ mute' = FALSE
     /\ node' = [node EXCEPT !.pc = "serving"]
     /\ gate' = Released(Node)
     /\ UNCHANGED <<row, mem, config, call, links, up, table, current>>

(* The handshake fails, is refused or runs out of time. *)
HandshakeFails ==
  /\ node.pc \in {"hello", "confirm"}
  /\ links' = Closed(node.link)
  /\ NodeFails
  /\ UNCHANGED <<row, mem, config, call, device, up, down, table, current, mute>>

(* Altered: any result on the link answers the change that waits. *)
DeliverToAnyone ==
  LET l == device
  IN /\ node.pc = "serving" /\ l # 0 /\ links[l].alive /\ down[l] # <<>>
     /\ down' = [down EXCEPT ![l] = Tail(@)]
     /\ \/ \E c \in Call : call[c].pc = "waiting" /\ Returns(c, "ok")
        \/ (\A c \in Call : call[c].pc # "waiting") /\ UNCHANGED <<call, gate>>
     /\ UNCHANGED <<row, mem, config, node, device, links, up, table, current, mute>>

(* The reader hands a result to the waiter that asked for it on this link. *)
Deliver ==
  LET l == device
      result == Head(down[l])
      waits == result.key \in Call /\ call[result.key].pc = "waiting"
                 /\ call[result.key].link = l
  IN /\ node.pc = "serving" /\ l # 0 /\ links[l].alive /\ down[l] # <<>>
     /\ down' = [down EXCEPT ![l] = Tail(@)]
     /\ IF waits /\ result.code = "" THEN Returns(result.key, "ok") /\ UNCHANGED links
        ELSE IF waits THEN Returns(result.key, "unknown") /\ links' = Closed(l)
        ELSE UNCHANGED <<call, gate, links>>
     /\ UNCHANGED <<row, mem, config, node, device, up, table, current, mute>>

(* The read fails, connectDevice returns, and the loop dials again. *)
Disconnected ==
  /\ node.pc = "serving" /\ ~links[node.link].alive
  /\ device' = 0
  /\ node' = [node EXCEPT !.pc = "idle"]
  /\ UNCHANGED <<gate, row, mem, config, call, links, up, down, table, current, mute>>

LinkFails(l) ==
  /\ links[l].alive
  /\ links' = Closed(l)
  /\ UNCHANGED <<gate, row, mem, config, call, node, device, up, down, table, current, mute>>

(***************************************************************************)
(* The Relay                                                               *)
(***************************************************************************)

(* A frame of connection l is handled: only the device's current connection may
   change its row, and an error, which may have taken effect, closes it. *)
RelayHandles(l) ==
  LET r == links[l].relay
      frame == Head(up[l])
      Answers(code) == down' = [down EXCEPT ![l] = Append(@, [key |-> frame.key, code |-> code])]
      Now == [grant |-> frame.want.grant, inbound |-> frame.want.inbound, known |-> TRUE]
  IN /\ up[l] # <<>>
     /\ up' = [up EXCEPT ![l] = Tail(@)]
     /\ \/ /\ frame.type = "hello"
           /\ table' = [table EXCEPT ![r].known = TRUE]
           /\ current' = [current EXCEPT ![r] = l]
           /\ Answers("") /\ UNCHANGED links
        \/ /\ frame.type = "settings" /\ current[r] = l
           /\ table' = [table EXCEPT ![r] = Now]
           /\ Answers("") /\ UNCHANGED <<current, links>>
        \/ /\ frame.type = "settings" /\ current[r] = l
           /\ Answers("agent_error") /\ UNCHANGED <<table, current, links>>
        \/ /\ frame.type = "revoke" /\ current[r] = l
           /\ table' = [table EXCEPT ![r] = Unregistered]
           /\ current' = [current EXCEPT ![r] = 0]
           /\ links' = Closed(l) /\ UNCHANGED down
        \/ /\ frame.type # "hello" /\ current[r] = l
           /\ \/ UNCHANGED table
              \/ frame.type = "settings" /\ table' = [table EXCEPT ![r] = Now]
              \/ frame.type = "revoke" /\ table' = [table EXCEPT ![r] = Unregistered]
           /\ current' = [current EXCEPT ![r] = 0]
           /\ links' = Closed(l) /\ UNCHANGED down
        \/ /\ frame.type # "hello" /\ current[r] # l
           /\ UNCHANGED <<table, current, links, down>>
     /\ UNCHANGED <<gate, row, mem, config, call, node, device, mute>>

(* The Relay notices that the connection is gone; what was on its way is lost. *)
RelayDrops(l) ==
  /\ l \in Used /\ ~links[l].alive
  /\ up[l] # <<>> \/ current[links[l].relay] = l
  /\ up' = [up EXCEPT ![l] = <<>>]
  /\ current' = [current EXCEPT ![links[l].relay] = IF @ = l THEN 0 ELSE @]
  /\ UNCHANGED <<gate, row, mem, config, call, node, device, links, down, table, mute>>

(***************************************************************************)
(* Specification                                                           *)
(***************************************************************************)

Works(c) ==
  \/ Acquire(c) \/ Save(c) \/ SendSettings(c) \/ GivesUp(c) \/ Revoke(c)
  \/ \E address \in Relay : SetConfig(c, address)
  \/ Reset(c)

Connects ==
  \/ NodeQueue \/ NodeAcquire \/ Refresh \/ Dial \/ Greeted \/ Publish
  \/ HandshakeFails \/ Deliver \/ Disconnected

Next ==
  \/ \E c \in Call, op \in Op : Queue(c, op)
  \/ \E c \in Call : Works(c) \/ Reply(c) \/ HeadStalls(c) \/ HeadReads(c)
  \/ Connects
  \/ \E l \in Link : LinkFails(l) \/ RelayHandles(l) \/ RelayDrops(l)

Spec == Init /\ [][Next]_vars

(* Goroutines are scheduled, and the waits for the gate and for the Relay have a
   timeout.  The write of a reply has none: it is done if its head reads, or
   goes, again and again.  No head has to. *)
Fairness ==
  /\ \A c \in Call : WF_vars(Works(c)) /\ SF_vars(Reply(c))
  /\ WF_vars(Connects)

(***************************************************************************)
(* Properties                                                              *)
(***************************************************************************)

(* One user works at a time, holding a slot, and nobody keeps the gate after it
   returned; a user refused for lack of a slot or of time changed nothing. *)
GateKept ==
  /\ Cardinality(gate.slots) <= Slots
  /\ gate.writer # None => gate.writer \in gate.slots
  /\ \A c \in Call :
       /\ call[c].pc \in {"saving", "sending", "waiting", "replying", "stalled"}
            <=> gate.writer = c
       /\ c \in gate.slots <=> call[c].pc \notin {"new", "done"}
       /\ call[c].reply = "busy" => ~call[c].issued
  /\ node.pc \in {"refresh", "dial", "hello", "confirm"} => gate.writer = Node
  /\ node.pc \in {"idle", "serving"} => Node \notin gate.slots

(* While a published link is up and nothing is on its way or at work, the Relay
   has exactly the settings the Runtime acts on, whatever changes, failures and
   reconnections came before; the one exception is a revoke that ran out of
   time before it was sent (connectDevice, updateDeviceSettings). *)
QuietLinkAgrees ==
  LET r == links[device].relay
  IN device # 0 /\ links[device].alive /\ gate.writer = None /\ current[r] = device
       /\ up[device] = <<>> /\ down[device] = <<>> /\ ~mute
     => /\ table[r] = [grant |-> mem.grant, inbound |-> mem.inbound, known |-> TRUE]
        /\ mem.active

SettingsInv == TypeOK /\ GateKept /\ QuietLinkAgrees

(* A change of settings is reported as applied only when it is, at the Relay
   this device is configured for, and saved: never by an answer to another
   change or on another connection. *)
OkMeansApplied ==
  [][\A c \in Call :
       (call[c].reply # "ok" /\ call'[c].reply = "ok" /\ call[c].op \in {"issue", "on", "off"})
         => /\ Held(table'[config]) = call[c].want
            /\ Held(row') = call[c].want
            /\ links[device].relay = config]_vars

(* A change, a revoke, a reset or a connection that never hears from the Relay
   does not lock the settings of the device: the loop gives the gate back, and
   every operation comes to its reply, whatever the heads do.  The reply of a
   revoke, reset or config.set is written under the gate, so that the gate is
   free again, and the Runtime stops, only if the head reads it or goes
   (handleLocal; updateDeviceSettings releases first).  Each operation is asked
   for once. *)
HeadsRead == \A c \in Call : []<>(call[c].pc # "stalled")
GateMoves ==
  /\ []<>(gate.writer # Node)
  /\ \A c \in Call : []<>(call[c].pc \in {"new", "replying", "stalled", "done"})
  /\ HeadsRead => []<>(\A c \in Call : call[c].pc \in {"new", "done"})
=============================================================================
