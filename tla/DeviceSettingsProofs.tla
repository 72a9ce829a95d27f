------------------------- MODULE DeviceSettingsProofs -------------------------
(* Theorems about DeviceSettings: the gate is kept, a link that is quiet agrees
   with the Runtime, and a change is reported as applied only when it is
   (DeviceSettings!SettingsInv and OkMeansApplied). *)
EXTENDS DeviceSettings, FiniteSetTheorems, TLAPS

(* The gate: who works has the writer's place, and what is needed to see that it
   is given back. *)
GateSound ==
  /\ IsFiniteSet(gate.slots) /\ GateKept
  /\ gate.writer = Node => node.pc \in {"refresh", "dial", "hello", "confirm"}
  /\ node.pc = "queued" => Node \in gate.slots
  /\ \A c \in Call :
       /\ call[c].issued => call[c].pc \notin {"new", "queued", "saving"}
       /\ call[c].reply = "busy" => call[c].pc = "done"

Dialling == node.pc \in {"dial", "hello", "confirm"}

(* The row and the Store: what is being sent is what both of them have, and only
   a reset that has not replied yet has wiped them under a published link. *)
Saved(w) == Held(row) = w /\ Held(mem) = w /\ mem.active

Wipes(c) == call[c].pc \in {"replying", "stalled"} /\ call[c].op = "reset"

RowSound ==
  /\ row.inbound => row.grant # 0
  /\ mem.inbound => mem.grant # 0
  /\ Dialling => Saved(node.want)
  /\ device # 0 => mem.active \/ \E c \in Call : Wipes(c)
  /\ \A c \in Call : call[c].pc \in {"sending", "waiting"} =>
       Saved(call[c].want) /\ call[c].op \in {"issue", "on", "off", "revoke"}
  /\ \A c \in Call : call[c].pc = "waiting" =>
       call[c].op # "revoke" /\ call[c].link # 0 /\ links[call[c].link].relay = config

(* One link at most is up, and it is the node's. *)
Linked == node.pc \in {"hello", "confirm", "serving"}
LinkSound ==
  /\ \A l \in Link : links[l].alive => links[l].dialled /\ Linked /\ l = node.link
  /\ Linked => node.link # 0
  /\ node.pc = "serving" => device = node.link
  /\ device # 0 => node.pc = "serving"
  /\ \A c \in Call : call[c].pc = "waiting" /\ Linked => call[c].link = node.link

(* A hello comes first and alone; a link that is current has been greeted. *)
HelloIn(l) == \E i \in 1..Len(up[l]) : up[l][i].type = "hello"
Greeting(l) == Len(up[l]) = 1 /\ up[l][1].type = "hello"
HelloSound ==
  /\ \A l \in Link : HelloIn(l) => Greeting(l)
  /\ \A l \in Link : links[l].dialled \/ (up[l] = <<>> /\ down[l] = <<>>)
  /\ \A r \in Relay : current[r] # 0 => links[current[r]].dialled /\ links[current[r]].relay = r /\ ~ HelloIn(current[r])

(* Nothing on any link is in the name of a call that has not sent anything. *)
Early(c) == call[c].pc \in {"new", "queued", "saving", "sending"}
KeySound ==
  \A c \in Call, l \in Link : Early(c) =>
    /\ \A i \in 1..Len(up[l]) : up[l][i].key # c
    /\ \A i \in 1..Len(down[l]) : down[l][i].key # c

Now(w) == [grant |-> w.grant, inbound |-> w.inbound, known |-> TRUE]
Has(l, w) == table[links[l].relay] = Now(w)

(* Once l was greeted, no other connection has anything to say that its Relay
   would listen to. *)
Alone(l) == \A k \in Link : k # l /\ current[links[l].relay] = k => up[k] = <<>>

HelloPhase(l) ==
  \/ Greeting(l) /\ down[l] = <<>>
  \/ up[l] = <<>> /\ Len(down[l]) = 1 /\ Alone(l)

ConfirmPhase(l) ==
  /\ Alone(l)
  /\ \/ /\ Len(up[l]) = 1 /\ down[l] = <<>>
        /\ up[l][1].type = "settings" /\ up[l][1].key = Node /\ up[l][1].want = node.want
     \/ up[l] = <<>> /\ Len(down[l]) <= 1
        /\ \A i \in 1..Len(down[l]) : down[l][i].code = "" => Has(l, node.want)

(* c waits for the answer to its settings on l. *)
Waits(c, l) == call[c].pc = "waiting" /\ call[c].link = l

(* What is on its way up is a revoke, or last the settings of the call that
   waits. *)
Said(l) ==
  \A i \in 1..Len(up[l]) :
    \/ up[l][i].type = "revoke" /\ up[l][i].key = None
    \/ /\ i = Len(up[l]) /\ up[l][i].type = "settings"
       /\ \E c \in Call : Waits(c, l) /\ up[l][i].key = c /\ up[l][i].want = call[c].want

(* An answer to the call that waits says what the Relay has. *)
Answered(l) ==
  \A c \in Call : Waits(c, l) => \A i \in 1..Len(down[l]) : down[l][i].key = c =>
    up[l] = <<>> /\ (down[l][i].code = "" => Has(l, call[c].want))

(* Nothing is at work or on its way, so both ends agree. *)
Idle == \A c \in Call : call[c].pc \notin {"sending", "waiting"}
Agrees(l) ==
  Idle /\ up[l] = <<>> /\ current[links[l].relay] = l /\ ~ mute => Has(l, Held(mem))

ServingPhase(l) == Alone(l) /\ Said(l) /\ Answered(l) /\ Agrees(l)

WireSound ==
  LET l == node.link
  IN  Linked /\ links[l].alive =>
        /\ node.pc = "hello" => HelloPhase(l)
        /\ node.pc = "confirm" => ConfirmPhase(l)
        /\ node.pc = "serving" => ServingPhase(l)

IInv == TypeOK /\ GateSound /\ RowSound /\ LinkSound /\ HelloSound /\ KeySound /\ WireSound

(***************************************************************************)
(* What the parts of the steps do                                          *)
(***************************************************************************)

(* One step further, or back, a user of the gate: its slots stay finite. *)
LEMMA SlotTaken ==
  ASSUME TypeOK, GateSound, NEW u \in User, TakesSlot(u)
  PROVE  /\ gate' \in [slots : SUBSET User, writer : User \cup {None}]
         /\ gate'.slots = gate.slots \cup {u} /\ gate'.writer = gate.writer
         /\ IsFiniteSet(gate'.slots) /\ Cardinality(gate'.slots) <= Slots
<1>1. gate'.slots = gate.slots \cup {u} /\ gate'.writer = gate.writer
      /\ gate' \in [slots : SUBSET User, writer : User \cup {None}]
  BY DEF TypeOK, TakesSlot
<1>2. IsFiniteSet(gate.slots) /\ Cardinality(gate.slots) \in Nat
  BY FS_CardinalityType DEF GateSound
<1>3. IsFiniteSet(gate.slots \cup {u})
      /\ Cardinality(gate.slots \cup {u}) <= Cardinality(gate.slots) + 1
  <2>1. /\ IsFiniteSet(gate.slots \cup {u})
        /\ Cardinality(gate.slots \cup {u}) =
             IF u \in gate.slots THEN Cardinality(gate.slots) ELSE Cardinality(gate.slots) + 1
    BY <1>2, FS_AddElement, Zenon
  <2> QED  BY <1>2, <2>1
<1>4. Cardinality(gate.slots) < Slots /\ Slots \in Nat
  BY SettingsAssumption DEF TakesSlot
<1>5. Cardinality(gate.slots \cup {u}) \in Nat
  BY <1>3, FS_CardinalityType
<1> QED  BY <1>1, <1>2, <1>3, <1>4, <1>5

LEMMA SlotGiven ==
  ASSUME TypeOK, GateSound, NEW u \in User, gate' = Released(u)
  PROVE  /\ gate' \in [slots : SUBSET User, writer : User \cup {None}]
         /\ gate'.slots = gate.slots \ {u}
         /\ gate'.writer = IF gate.writer = u THEN None ELSE gate.writer
         /\ IsFiniteSet(gate'.slots) /\ Cardinality(gate'.slots) <= Slots
<1>1. /\ gate' \in [slots : SUBSET User, writer : User \cup {None}]
      /\ gate'.slots = gate.slots \ {u}
      /\ gate'.writer = IF gate.writer = u THEN None ELSE gate.writer
  BY DEF TypeOK, Released
<1>2. IsFiniteSet(gate.slots) /\ Cardinality(gate.slots) \in Nat
      /\ Cardinality(gate.slots) <= Slots /\ Slots \in Nat
  BY FS_CardinalityType, SettingsAssumption DEF GateSound, GateKept
<1>3. IsFiniteSet(gate.slots \ {u})
      /\ Cardinality(gate.slots \ {u}) <= Cardinality(gate.slots)
  BY <1>2, FS_Subset
<1>4. Cardinality(gate.slots \ {u}) \in Nat
  BY <1>3, FS_CardinalityType
<1> QED  BY <1>1, <1>2, <1>3, <1>4

(* One operation moves on: its record, and no other, changes. *)
Moved(c, r) == r \in CallRecord /\ call' = [call EXCEPT ![c] = r]

LEMMA CallMoved ==
  ASSUME TypeOK, NEW c \in Call, NEW r, Moved(c, r)
  PROVE  /\ call' \in [Call -> CallRecord] /\ call'[c] = r
         /\ \A d \in Call : d # c => call'[d] = call[d]
BY DEF TypeOK, Moved

LEMMA Returned ==
  ASSUME TypeOK, NEW c \in Call, NEW reply \in {"none", "ok", "busy", "unsaved", "unknown"},
         Returns(c, reply)
  PROVE  /\ call' \in [Call -> CallRecord]
         /\ \A d \in Call : d # c => call'[d] = call[d]
         /\ call'[c].pc = "done" /\ call'[c].reply = reply
         /\ call'[c].issued = call[c].issued
         /\ gate' = Released(c)
<1> DEFINE r == [call[c] EXCEPT !.pc = "done", !.reply = reply]
<1>1. call[c] \in CallRecord
  BY DEF TypeOK
<1>2. r \in CallRecord
  BY <1>1 DEF CallRecord
<1>3. call' = [call EXCEPT ![c] = r]
  BY <1>1 DEF Returns, TypeOK
<1>4. r.pc = "done" /\ r.reply = reply /\ r.issued = call[c].issued
  BY <1>1 DEF CallRecord
<1> HIDE DEF r
<1>5. Moved(c, r)
  BY <1>2, <1>3 DEF Moved
<1> QED  BY <1>4, <1>5, CallMoved DEF Returns

LEMMA ReplyHeld ==
  ASSUME TypeOK, NEW c \in Call, NEW reply \in {"none", "ok", "busy", "unsaved", "unknown"},
         Replies(c, reply)
  PROVE  /\ call' \in [Call -> CallRecord]
         /\ \A d \in Call : d # c => call'[d] = call[d]
         /\ call'[c].pc = "replying" /\ call'[c].reply = reply
         /\ call'[c].issued = call[c].issued /\ call'[c].op = call[c].op
         /\ gate' = gate
<1> DEFINE r == [call[c] EXCEPT !.pc = "replying", !.reply = reply]
<1>1. call[c] \in CallRecord
  BY DEF TypeOK
<1>2. r \in CallRecord
  BY <1>1 DEF CallRecord
<1>3. call' = [call EXCEPT ![c] = r]
  BY <1>1 DEF Replies, TypeOK
<1>4. r.pc = "replying" /\ r.reply = reply /\ r.issued = call[c].issued /\ r.op = call[c].op
  BY <1>1 DEF CallRecord
<1> HIDE DEF r
<1>5. Moved(c, r)
  BY <1>2, <1>3 DEF Moved
<1> QED  BY <1>4, <1>5, CallMoved DEF Replies

LEMMA Shut ==
  ASSUME TypeOK, NEW l \in Link, links' = Closed(l)
  PROVE  /\ links' \in [Link -> [dialled : BOOLEAN, alive : BOOLEAN, relay : Relay]]
         /\ \A k \in Link : /\ links'[k].dialled = links[k].dialled
                            /\ links'[k].relay = links[k].relay
                            /\ k # l => links'[k] = links[k]
         /\ ~links'[l].alive
<1>1. links[l] \in [dialled : BOOLEAN, alive : BOOLEAN, relay : Relay]
  BY DEF TypeOK
<1>2. PICK r : r = [links[l] EXCEPT !.alive = FALSE]
  OBVIOUS
<1>3. r \in [dialled : BOOLEAN, alive : BOOLEAN, relay : Relay]
  BY <1>1, <1>2
<1>4. r.dialled = links[l].dialled /\ r.relay = links[l].relay /\ ~r.alive
  BY <1>1, <1>2
<1>5. links' = [links EXCEPT ![l] = r]
  BY <1>1, <1>2 DEF Closed, TypeOK
<1> QED  BY <1>3, <1>4, <1>5 DEF TypeOK

LEMMA Sent ==
  ASSUME TypeOK, NEW l \in Link, NEW f \in Frame, Send(l, f)
  PROVE  /\ up' \in [Link -> Seq(Frame)] /\ up'[l] = Append(up[l], f)
         /\ \A k \in Link : k # l => up'[k] = up[k]
         /\ Len(up'[l]) = Len(up[l]) + 1 /\ up'[l][Len(up[l]) + 1] = f
         /\ \A i \in 1..Len(up[l]) : up'[l][i] = up[l][i]
<1>1. up[l] \in Seq(Frame) /\ up' = [up EXCEPT ![l] = Append(up[l], f)]
  BY DEF TypeOK, Send
<1>2. PICK s : s = Append(up[l], f)
  OBVIOUS
<1>3. s \in Seq(Frame) /\ Len(s) = Len(up[l]) + 1 /\ s[Len(up[l]) + 1] = f
      /\ \A i \in 1..Len(up[l]) : s[i] = up[l][i]
  BY <1>1, <1>2
<1>4. up' = [up EXCEPT ![l] = s]
  BY <1>1, <1>2
<1>5. up' \in [Link -> Seq(Frame)] /\ up'[l] = s /\ \A k \in Link : k # l => up'[k] = up[k]
  BY <1>3, <1>4 DEF TypeOK
<1> QED  BY <1>2, <1>3, <1>5

(* The oldest frame is taken from the front. *)
LEMMA TailOf ==
  ASSUME NEW S, NEW s \in Seq(S), s # <<>>
  PROVE  /\ Tail(s) \in Seq(S) /\ Len(Tail(s)) = Len(s) - 1 /\ Len(s) \in Nat \ {0}
         /\ Head(s) = s[1] /\ Head(s) \in S
         /\ \A i \in 1..Len(Tail(s)) : Tail(s)[i] = s[i + 1] /\ i + 1 \in 1..Len(s)
OBVIOUS

(***************************************************************************)
(* The gate is kept                                                        *)
(***************************************************************************)

(* A call is done with the gate, having answered. *)
LEMMA GateLeft ==
  ASSUME TypeOK, GateSound, NEW c \in Call, call[c].pc \notin {"new", "done"},
         \A d \in Call : d # c => call'[d] = call[d],
         call'[c].pc = "done", call'[c].reply = "busy" => ~call'[c].issued,
         gate' = Released(c), node' = node \/ (node'.pc = "over" /\ gate.writer = c)
  PROVE  GateSound'
<1>1. /\ gate'.slots = gate.slots \ {c}
      /\ gate'.writer = IF gate.writer = c THEN None ELSE gate.writer
      /\ IsFiniteSet(gate'.slots) /\ Cardinality(gate'.slots) <= Slots
  BY SlotGiven DEF User
<1>2. c # Node /\ c # None /\ Node # None
  BY SettingsAssumption
<1>3. \A d \in Call : d # None /\ d # Node
  BY SettingsAssumption
<1>4. gate'.writer # None => gate'.writer \in gate'.slots
  BY <1>1 DEF GateSound, GateKept
<1>5. ASSUME NEW d \in Call
      PROVE  /\ call'[d].pc \in {"saving", "sending", "waiting", "replying", "stalled"} <=> gate'.writer = d
             /\ d \in gate'.slots <=> call'[d].pc \notin {"new", "done"}
             /\ call'[d].reply = "busy" => ~call'[d].issued
             /\ call'[d].issued => call'[d].pc \notin {"new", "queued", "saving"}
             /\ call'[d].reply = "busy" => call'[d].pc = "done"
  <2>1. CASE d = c
    BY <1>1, <1>3, <2>1
  <2>2. CASE d # c
    BY <1>1, <1>3, <2>2 DEF GateSound, GateKept
  <2> QED  BY <2>1, <2>2
<1>6. /\ node'.pc \in {"refresh", "dial", "hello", "confirm"} => gate'.writer = Node
      /\ node'.pc \in {"idle", "serving"} => Node \notin gate'.slots
      /\ gate'.writer = Node => node'.pc \in {"refresh", "dial", "hello", "confirm"}
      /\ node'.pc = "queued" => Node \in gate'.slots
  BY <1>1, <1>2 DEF GateSound, GateKept
<1> QED  BY <1>1, <1>4, <1>5, <1>6 DEF GateSound, GateKept

(* A call that works goes on. *)
LEMMA GateHeld ==
  ASSUME TypeOK, GateSound, NEW c \in Call,
         call[c].pc \in {"saving", "sending", "replying", "stalled"},
         \A d \in Call : d # c => call'[d] = call[d],
         call'[c].pc \in {"sending", "waiting", "replying", "stalled"}, call'[c].reply # "busy",
         gate' = gate, node' = node
  PROVE  GateSound'
<1>1. ASSUME NEW d \in Call
      PROVE  /\ call'[d].pc \in {"saving", "sending", "waiting", "replying", "stalled"} <=> gate'.writer = d
             /\ d \in gate'.slots <=> call'[d].pc \notin {"new", "done"}
             /\ call'[d].reply = "busy" => ~call'[d].issued
             /\ call'[d].issued => call'[d].pc \notin {"new", "queued", "saving"}
             /\ call'[d].reply = "busy" => call'[d].pc = "done"
  <2>1. CASE d = c
    BY <2>1 DEF GateSound, GateKept
  <2>2. CASE d # c
    BY <2>2 DEF GateSound, GateKept
  <2> QED  BY <2>1, <2>2
<1> QED  BY <1>1 DEF GateSound, GateKept

(* The node moves between the states in which it has the writer's place, or
   between those in which it has nothing. *)
LEMMA NodeHeld ==
  ASSUME TypeOK, GateSound, gate' = gate, call' = call,
         \/ /\ node.pc \in {"refresh", "dial", "hello", "confirm"}
            /\ node'.pc \in {"refresh", "dial", "hello", "confirm"}
         \/ node.pc = "serving" /\ node'.pc = "idle"
  PROVE  GateSound'
BY DEF GateSound, GateKept

LEMMA NodeLeft ==
  ASSUME TypeOK, GateSound, gate' = Released(Node), call' = call,
         node'.pc \in {"idle", "serving"}
  PROVE  GateSound'
<1>1. /\ gate'.slots = gate.slots \ {Node}
      /\ gate'.writer = IF gate.writer = Node THEN None ELSE gate.writer
      /\ IsFiniteSet(gate'.slots) /\ Cardinality(gate'.slots) <= Slots
  BY SlotGiven DEF User
<1>2. \A d \in Call : d # None /\ d # Node
  BY SettingsAssumption
<1>3. Node # None
  BY SettingsAssumption
<1> QED  BY <1>1, <1>2, <1>3 DEF GateSound, GateKept

LEMMA QueueGate ==
  ASSUME TypeOK, GateSound, NEW c \in Call, NEW op \in Op, Queue(c, op)
  PROVE  /\ call' \in [Call -> CallRecord] /\ GateSound'
         /\ gate' \in [slots : SUBSET User, writer : User \cup {None}]
         /\ \A d \in Call : d # c => call'[d] = call[d]
         /\ call[c].pc = "new" /\ call'[c].pc \in {"queued", "done"}
<1>0. call[c] \in CallRecord /\ call[c].pc = "new"
  BY DEF TypeOK, Queue
<1>00. \A d \in Call : d # None /\ d # Node
  BY SettingsAssumption
<1>1. CASE TakesSlot(c) /\ call' = [call EXCEPT ![c].pc = "queued", ![c].op = op]
  <2> DEFINE r == [call[c] EXCEPT !.pc = "queued", !.op = op]
  <2>1. r \in CallRecord /\ r.pc = "queued" /\ r.reply = call[c].reply /\ r.issued = call[c].issued
    BY <1>0 DEF CallRecord
  <2>2. call' = [call EXCEPT ![c] = r]
    BY <1>0, <1>1 DEF TypeOK
  <2> HIDE DEF r
  <2>3. /\ call' \in [Call -> CallRecord] /\ call'[c] = r
        /\ \A d \in Call : d # c => call'[d] = call[d]
    BY <2>1, <2>2, CallMoved DEF Moved
  <2>4. /\ gate' \in [slots : SUBSET User, writer : User \cup {None}]
        /\ gate'.slots = gate.slots \cup {c} /\ gate'.writer = gate.writer
        /\ IsFiniteSet(gate'.slots) /\ Cardinality(gate'.slots) <= Slots
    BY <1>1, SlotTaken DEF User
  <2>5. ASSUME NEW d \in Call
        PROVE  /\ call'[d].pc \in {"saving", "sending", "waiting", "replying", "stalled"} <=> gate'.writer = d
               /\ d \in gate'.slots <=> call'[d].pc \notin {"new", "done"}
               /\ call'[d].reply = "busy" => ~call'[d].issued
               /\ call'[d].issued => call'[d].pc \notin {"new", "queued", "saving"}
               /\ call'[d].reply = "busy" => call'[d].pc = "done"
    <3>1. CASE d = c
      BY <1>0, <2>1, <2>3, <2>4, <3>1 DEF GateSound, GateKept
    <3>2. CASE d # c
      BY <2>3, <2>4, <3>2 DEF GateSound, GateKept
    <3> QED  BY <3>1, <3>2
  <2>6. node' = node
    BY DEF Queue
  <2> QED  BY <1>0, <1>00, <2>1, <2>3, <2>4, <2>5, <2>6 DEF GateSound, GateKept
<1>2. CASE call' = [call EXCEPT ![c].pc = "done", ![c].op = op, ![c].reply = "busy"] /\ gate' = gate
  <2> DEFINE r == [call[c] EXCEPT !.pc = "done", !.op = op, !.reply = "busy"]
  <2>1. r \in CallRecord /\ r.pc = "done" /\ r.reply = "busy" /\ r.issued = call[c].issued
    BY <1>0 DEF CallRecord
  <2>2. call' = [call EXCEPT ![c] = r]
    BY <1>0, <1>2 DEF TypeOK
  <2> HIDE DEF r
  <2>3. /\ call' \in [Call -> CallRecord] /\ call'[c] = r
        /\ \A d \in Call : d # c => call'[d] = call[d]
    BY <2>1, <2>2, CallMoved DEF Moved
  <2>4. ASSUME NEW d \in Call
        PROVE  /\ call'[d].pc \in {"saving", "sending", "waiting", "replying", "stalled"} <=> gate'.writer = d
               /\ d \in gate'.slots <=> call'[d].pc \notin {"new", "done"}
               /\ call'[d].reply = "busy" => ~call'[d].issued
               /\ call'[d].issued => call'[d].pc \notin {"new", "queued", "saving"}
               /\ call'[d].reply = "busy" => call'[d].pc = "done"
    <3>1. CASE d = c
      BY <1>0, <1>2, <2>1, <2>3, <3>1 DEF GateSound, GateKept
    <3>2. CASE d # c
      BY <1>2, <2>3, <3>2 DEF GateSound, GateKept
    <3> QED  BY <3>1, <3>2
  <2>5. node' = node /\ gate \in [slots : SUBSET User, writer : User \cup {None}]
    BY DEF Queue, TypeOK
  <2> QED  BY <1>0, <1>2, <2>1, <2>3, <2>4, <2>5 DEF GateSound, GateKept
<1> QED  BY <1>1, <1>2 DEF Queue

(***************************************************************************)
(* Steps that leave a part as it is                                        *)
(***************************************************************************)

LEMMA RowKept ==
  ASSUME TypeOK, RowSound, row' = row, mem' = mem, config' = config,
         \A l \in Link : links'[l].relay = links[l].relay,
         \A c \in Call : call'[c].pc \in {"sending", "waiting"} => call'[c] = call[c],
         device' = 0 \/ (device' = device /\ \A c \in Call : Wipes(c) => Wipes(c)'),
         Dialling' => Dialling /\ node'.want = node.want
  PROVE  RowSound'
<1>1. \A c \in Call : call[c].link \in 0..MaxLink
  BY DEF TypeOK, CallRecord
<1>2. \A l \in 0..MaxLink : l # 0 => l \in Link
  BY SettingsAssumption DEF Link
<1> QED  BY <1>1, <1>2 DEF RowSound, Saved

LEMMA LinkKept ==
  ASSUME LinkSound, node' = node, device' = device,
         \A l \in Link : /\ links'[l].dialled = links[l].dialled
                         /\ links'[l].alive => links[l].alive,
         \A c \in Call : call'[c].pc = "waiting" => call'[c] = call[c]
  PROVE  LinkSound'
BY DEF LinkSound, Linked

LEMMA HelloKept ==
  ASSUME TypeOK, HelloSound,
         \A l \in Link : /\ links'[l].dialled = links[l].dialled
                         /\ links'[l].relay = links[l].relay,
         \A l \in Link : up'[l] \in {up[l], <<>>} \/ (~ HelloIn(l)' /\ links[l].dialled),
         \A l \in Link : down'[l] = down[l] \/ links[l].dialled,
         \A r \in Relay : current'[r] \in {current[r], 0}
  PROVE  HelloSound'
<1>1. \A r \in Relay : current[r] \in 0..MaxLink
  BY DEF TypeOK
<1>2. \A l \in 0..MaxLink : l # 0 => l \in Link
  BY SettingsAssumption DEF Link
<1>3. ASSUME NEW l \in Link, HelloIn(l)'
      PROVE  up'[l] = up[l] /\ HelloIn(l)
  BY <1>3 DEF HelloIn
<1>4. ASSUME NEW l \in Link, HelloIn(l)'
      PROVE  Greeting(l)'
  BY <1>3, <1>4 DEF HelloSound, Greeting
<1>5. ASSUME NEW l \in Link
      PROVE  links'[l].dialled \/ (up'[l] = <<>> /\ down'[l] = <<>>)
  BY <1>5 DEF HelloSound
<1>6. ASSUME NEW r \in Relay, current'[r] # 0
      PROVE  /\ links'[current'[r]].dialled /\ links'[current'[r]].relay = r
             /\ ~ HelloIn(current[r])' /\ current'[r] = current[r]
  BY <1>1, <1>2, <1>3, <1>6 DEF HelloSound
<1> QED  BY <1>4, <1>5, <1>6 DEF HelloSound

LEMMA KeyKept ==
  ASSUME KeySound, \A c \in Call : Early(c)' => Early(c),
         \A l \in Link : up'[l] \in {up[l], <<>>} /\ down'[l] = down[l]
  PROVE  KeySound'
BY DEF KeySound

(* A frame in the name of nobody, or of a call that has sent by now. *)
LEMMA KeySent ==
  ASSUME TypeOK, KeySound, NEW l \in Link, NEW f \in Frame, Send(l, f), down' = down,
         \A c \in Call : Early(c)' => Early(c) /\ c # f.key
  PROVE  KeySound'
<1>1. /\ up'[l] = Append(up[l], f) /\ \A k \in Link : k # l => up'[k] = up[k]
      /\ Len(up'[l]) = Len(up[l]) + 1 /\ up'[l][Len(up[l]) + 1] = f
      /\ \A i \in 1..Len(up[l]) : up'[l][i] = up[l][i]
  BY Sent
<1>2. Len(up[l]) \in Nat
  BY DEF TypeOK
<1>3. \A i \in 1..Len(up'[l]) : i \in 1..Len(up[l]) \/ i = Len(up[l]) + 1
  BY <1>1, <1>2
<1>4. ASSUME NEW c \in Call, NEW k \in Link, Early(c)', NEW i \in 1..Len(up'[k])
      PROVE  up'[k][i].key # c
  <2>1. CASE k = l
    BY <1>1, <1>3, <1>4, <2>1 DEF KeySound
  <2>2. CASE k # l
    BY <1>1, <1>4, <2>2 DEF KeySound
  <2> QED  BY <2>1, <2>2
<1> QED  BY <1>4 DEF KeySound

(* Nothing that concerns the link that is up changes: a frame may be taken or
   lost on another, and the link may go. *)
LEMMA WireApart ==
  ASSUME TypeOK, LinkSound, WireSound, node' = node,
         \A l \in Link : /\ links'[l].relay = links[l].relay
                         /\ links'[l].alive => links[l].alive,
         up'[node.link] = up[node.link], down'[node.link] = down[node.link],
         table'[links[node.link].relay] = table[links[node.link].relay],
         mute' = mute, mem' = mem,
         \A l \in Link : up[l] = <<>> => up'[l] = <<>>,
         current'[links[node.link].relay] \in {current[links[node.link].relay], 0},
         \A c \in Call : /\ call'[c].pc \in {"sending", "waiting"} => call'[c] = call[c]
                         /\ call[c].pc \in {"sending", "waiting"} => call'[c] = call[c]
  PROVE  WireSound'
<1>0. PICK l : l = node.link
  OBVIOUS
<1>1. SUFFICES ASSUME Linked', links'[l].alive
               PROVE  /\ node.pc = "hello" => HelloPhase(l)'
                      /\ node.pc = "confirm" => ConfirmPhase(l)'
                      /\ node.pc = "serving" => ServingPhase(l)'
  BY <1>0 DEF WireSound, Linked
<1>2. Linked /\ l \in Link /\ links[l].alive /\ links'[l].relay = links[l].relay
      /\ links[l].relay \in Relay
  <2>1. Linked /\ l \in 0..MaxLink /\ l # 0
    BY <1>0, <1>1 DEF Linked, LinkSound, TypeOK
  <2>2. l \in Link
    BY <2>1, SettingsAssumption DEF Link
  <2>3. links[l].relay \in Relay
    BY <2>2 DEF TypeOK
  <2> QED  BY <1>1, <2>1, <2>2, <2>3
<1>3. Alone(l) => Alone(l)'
  BY <1>0, <1>2 DEF Alone, Link
<1>4. HelloPhase(l) => HelloPhase(l)'
  BY <1>0, <1>3 DEF HelloPhase, Greeting
<1>5. ConfirmPhase(l) => ConfirmPhase(l)'
  BY <1>0, <1>2, <1>3 DEF ConfirmPhase, Has
<1>6. ASSUME ServingPhase(l)
      PROVE  ServingPhase(l)'
  <2>1. /\ up'[l] = up[l] /\ down'[l] = down[l]
        /\ \A w : Has(l, w)' <=> Has(l, w)
    BY <1>0, <1>2 DEF Has
  <2>2. \A c \in Call : /\ Waits(c, l)' <=> Waits(c, l)
                        /\ Waits(c, l) => call'[c] = call[c]
    BY DEF Waits
  <2>3. Said(l) => Said(l)'
    BY <2>1, <2>2 DEF Said
  <2>4. Answered(l) => Answered(l)'
    <3>1. ASSUME NEW c \in Call, Waits(c, l)'
          PROVE  Waits(c, l) /\ call'[c] = call[c] /\ (Has(l, call[c].want)' <=> Has(l, call[c].want))
      BY <1>0, <1>2, <2>2, <3>1 DEF Has
    <3>2. ASSUME Answered(l), NEW c \in Call, Waits(c, l)', NEW i \in 1..Len(down'[l]),
                 down'[l][i].key = c
          PROVE  up'[l] = <<>> /\ (down'[l][i].code = "" => Has(l, call[c].want)')
      <4>1. Waits(c, l) /\ (Has(l, call[c].want)' <=> Has(l, call[c].want))
        BY <3>1, <3>2
      <4>2. i \in 1..Len(down[l]) /\ down[l][i] = down'[l][i] /\ up'[l] = up[l]
        BY <2>1
      <4>3. up[l] = <<>> /\ (down[l][i].code = "" => Has(l, call[c].want))
        BY <3>2, <4>1, <4>2 DEF Answered
      <4> QED  BY <4>1, <4>2, <4>3
    <3> QED  BY <3>2 DEF Answered
  <2>5. Idle' => Idle
    BY DEF Idle
  <2>6. current'[links'[l].relay] = l => current[links[l].relay] = l
    BY <1>0, <1>2 DEF Link
  <2>7. Agrees(l) => Agrees(l)'
    BY <1>2, <2>1, <2>5, <2>6 DEF Agrees, Has
  <2> QED  BY <1>3, <1>6, <2>3, <2>4, <2>7 DEF ServingPhase
<1> QED  BY <1>0, <1>1, <1>2, <1>4, <1>5, <1>6 DEF WireSound

LEMMA WireKept ==
  ASSUME TypeOK, LinkSound, WireSound, node' = node,
         \A l \in Link : /\ links'[l].relay = links[l].relay
                         /\ links'[l].alive => links[l].alive,
         up'[node.link] = up[node.link], down' = down, table' = table,
         mute' = mute, mem' = mem,
         \A l \in Link : up'[l] \in {up[l], <<>>},
         \A r \in Relay : current'[r] \in {current[r], 0},
         \A c \in Call : /\ call'[c].pc \in {"sending", "waiting"} => call'[c] = call[c]
                         /\ call[c].pc \in {"sending", "waiting"} => call'[c] = call[c]
  PROVE  WireSound'
<1>1. CASE Linked
  <2>1. node.link \in 0..MaxLink /\ node.link # 0
    BY <1>1 DEF Linked, LinkSound, TypeOK
  <2>2. node.link \in Link
    BY <2>1, SettingsAssumption DEF Link
  <2>3. links[node.link].relay \in Relay
    BY <2>2 DEF TypeOK
  <2> QED  BY <2>3, WireApart
<1>2. CASE ~Linked
  BY <1>2 DEF WireSound, Linked
<1> QED  BY <1>1, <1>2

(***************************************************************************)
(* The steps of the calls                                                  *)
(***************************************************************************)

(* The call that works has the gate to itself. *)
LEMMA Worker ==
  ASSUME GateSound, NEW c \in Call, call[c].pc \in {"saving", "sending", "waiting", "replying", "stalled"}
  PROVE  /\ gate.writer = c /\ node.pc \notin {"refresh", "dial", "hello", "confirm"}
         /\ \A d \in Call : d # c => call[d].pc \notin {"saving", "sending", "waiting", "replying", "stalled"}
<1>1. c # Node
  BY SettingsAssumption
<1> QED  BY <1>1 DEF GateSound, GateKept

LEMMA Places ==
  ASSUME TypeOK, LinkSound
  PROVE  /\ Linked => node.link \in Link
         /\ device # 0 => device \in Link /\ node.pc = "serving" /\ Linked /\ device = node.link
         /\ \A c \in Call : call[c].link # 0 => call[c].link \in Link
<1>1. node.link \in 0..MaxLink /\ device \in 0..MaxLink
      /\ \A c \in Call : call[c].link \in 0..MaxLink
  BY DEF TypeOK, CallRecord
<1>2. \A l \in 0..MaxLink : l # 0 => l \in Link
  BY SettingsAssumption DEF Link
<1> QED  BY <1>1, <1>2 DEF LinkSound, Linked

LEMMA QueueStep ==
  ASSUME IInv, NEW c \in Call, NEW op \in Op, Queue(c, op)
  PROVE  IInv'
<1> USE DEF IInv
<1>1. /\ call' \in [Call -> CallRecord] /\ GateSound'
      /\ gate' \in [slots : SUBSET User, writer : User \cup {None}]
      /\ \A d \in Call : d # c => call'[d] = call[d]
      /\ call[c].pc = "new" /\ call'[c].pc \in {"queued", "done"}
  BY QueueGate
<1>2. UNCHANGED <<row, mem, config, node, device, links, up, down, table, current, mute>>
  BY DEF Queue
<1>3. \A d \in Call : /\ call'[d].pc \in {"sending", "waiting"} => call'[d] = call[d]
                      /\ call[d].pc \in {"sending", "waiting"} => call'[d] = call[d]
                      /\ Early(d)' => Early(d)
                      /\ Wipes(d) => Wipes(d)'
  BY <1>1 DEF Early, Wipes
<1>4. TypeOK'
  BY <1>1, <1>2 DEF TypeOK
<1>5. RowSound'
  BY <1>2, <1>3, RowKept DEF Dialling, Wipes
<1>6. LinkSound'
  BY <1>2, <1>3, LinkKept
<1>7. HelloSound'
  BY <1>2, HelloKept
<1>8. KeySound'
  BY <1>2, <1>3, KeyKept
<1>9. WireSound'
  BY <1>2, <1>3, WireKept
<1> QED  BY <1>1, <1>4, <1>5, <1>6, <1>7, <1>8, <1>9

(* A call ends, and all that happens beside is that links may go. *)
LEMMA EndStep ==
  ASSUME IInv, NEW c \in Call, call[c].pc \notin {"new", "done"},
         NEW reply \in {"none", "ok", "unsaved", "unknown"} \cup {b \in {"busy"} : call[c].pc = "queued"},
         Returns(c, reply), ~ Wipes(c), call[c].pc \in {"sending", "waiting"} => \A l \in Link : ~links'[l].alive,
         links' \in [Link -> [dialled : BOOLEAN, alive : BOOLEAN, relay : Relay]],
         \A l \in Link : /\ links'[l].dialled = links[l].dialled
                         /\ links'[l].relay = links[l].relay
                         /\ links'[l].alive => links[l].alive,
         UNCHANGED <<row, mem, config, node, device, up, down, table, current, mute>>
  PROVE  IInv'
<1> USE DEF IInv
<1>1. /\ call' \in [Call -> CallRecord]
      /\ \A d \in Call : d # c => call'[d] = call[d]
      /\ call'[c].pc = "done" /\ call'[c].reply = reply
      /\ call'[c].issued = call[c].issued
      /\ gate' = Released(c)
  BY Returned
<1>2. \A d \in Call : /\ call'[d].pc \in {"sending", "waiting"} => call'[d] = call[d]
                      /\ Early(d)' => Early(d)
                      /\ Wipes(d) => Wipes(d)'
  BY <1>1 DEF Early, Wipes
<1>3. call'[c].reply = "busy" => ~call'[c].issued
  BY <1>1 DEF GateSound
<1>4. GateSound'
  BY <1>1, <1>3, GateLeft
<1>5. gate' \in [slots : SUBSET User, writer : User \cup {None}]
  BY <1>1, SlotGiven DEF User
<1>6. TypeOK'
  BY <1>1, <1>5 DEF TypeOK
<1>7. RowSound'
  BY <1>2, RowKept DEF Dialling, Wipes
<1>8. LinkSound'
  BY <1>2, LinkKept
<1>9. HelloSound'
  BY HelloKept
<1>10. KeySound'
  BY <1>2, KeyKept
<1>11. WireSound'
  <2>1. CASE call[c].pc \in {"sending", "waiting"}
    BY <2>1, Places DEF WireSound, Linked
  <2>2. CASE call[c].pc \notin {"sending", "waiting"}
    <3>1. \A d \in Call : call[d].pc \in {"sending", "waiting"} => call'[d] = call[d]
      BY <1>1, <2>2
    <3> QED  BY <1>2, <3>1, WireKept
  <2> QED  BY <2>1, <2>2
<1> QED  BY <1>4, <1>6, <1>7, <1>8, <1>9, <1>10, <1>11

LEMMA AcquireStep ==
  ASSUME IInv, NEW c \in Call, Acquire(c)
  PROVE  IInv'
<1> USE DEF IInv
<1>0. /\ UNCHANGED <<row, mem, config, node, device, links, up, down, table, current, mute>>
      /\ call[c].pc = "queued" /\ call[c] \in CallRecord
  BY DEF Acquire, TypeOK
<1>1. CASE Returns(c, "busy")
  <2>1. links' \in [Link -> [dialled : BOOLEAN, alive : BOOLEAN, relay : Relay]]
    BY <1>0 DEF TypeOK
  <2> QED  BY <1>0, <1>1, <2>1, EndStep DEF Wipes
<1>2. CASE TakesWriter(c) /\ call' = [call EXCEPT ![c].pc = "saving"]
  <2> DEFINE r == [call[c] EXCEPT !.pc = "saving"]
  <2>1. r \in CallRecord /\ r.pc = "saving" /\ r.reply = call[c].reply /\ r.issued = call[c].issued
    BY <1>0 DEF CallRecord
  <2>2. call' = [call EXCEPT ![c] = r]
    BY <1>2
  <2> HIDE DEF r
  <2>3. /\ call' \in [Call -> CallRecord] /\ call'[c] = r
        /\ \A d \in Call : d # c => call'[d] = call[d]
    BY <2>1, <2>2, CallMoved DEF Moved
  <2>4. /\ gate' \in [slots : SUBSET User, writer : User \cup {None}]
        /\ gate'.slots = gate.slots /\ gate'.writer = c /\ gate.writer = None
    BY <1>2 DEF TakesWriter, TypeOK, User
  <2>5. c # None /\ c # Node /\ Node # None /\ \A d \in Call : d # None
    BY SettingsAssumption
  <2>6. ASSUME NEW d \in Call
        PROVE  /\ call'[d].pc \in {"saving", "sending", "waiting", "replying", "stalled"} <=> gate'.writer = d
               /\ d \in gate'.slots <=> call'[d].pc \notin {"new", "done"}
               /\ call'[d].reply = "busy" => ~call'[d].issued
               /\ call'[d].issued => call'[d].pc \notin {"new", "queued", "saving"}
               /\ call'[d].reply = "busy" => call'[d].pc = "done"
    <3>1. CASE d = c
      BY <1>0, <2>1, <2>3, <2>4, <3>1 DEF GateSound, GateKept
    <3>2. CASE d # c
      BY <2>3, <2>4, <2>5, <3>2 DEF GateSound, GateKept
    <3> QED  BY <3>1, <3>2
  <2>7. c \in gate.slots
    BY <1>0 DEF GateSound, GateKept
  <2>8. GateSound'
    BY <1>0, <2>4, <2>5, <2>6, <2>7 DEF GateSound, GateKept
  <2>9. \A d \in Call : /\ call'[d].pc \in {"sending", "waiting"} => call'[d] = call[d]
                        /\ call[d].pc \in {"sending", "waiting"} => call'[d] = call[d]
                        /\ Early(d)' => Early(d)
                        /\ Wipes(d) => Wipes(d)'
    BY <1>0, <2>1, <2>3 DEF Early, Wipes
  <2>10. TypeOK'
    BY <1>0, <2>3, <2>4 DEF TypeOK
  <2>11. RowSound'
    BY <1>0, <2>9, RowKept DEF Dialling, Wipes
  <2>12. LinkSound'
    BY <1>0, <2>9, LinkKept
  <2>13. HelloSound'
    BY <1>0, HelloKept
  <2>14. KeySound'
    BY <1>0, <2>9, KeyKept
  <2>15. WireSound'
    BY <1>0, <2>9, WireKept
  <2> QED  BY <2>8, <2>10, <2>11, <2>12, <2>13, <2>14, <2>15
<1> QED  BY <1>0, <1>1, <1>2 DEF Acquire

(* The only link that may be up while a call works is the published one. *)
LEMMA OnlyDevice ==
  ASSUME IInv, NEW c \in Call, call[c].pc \in {"saving", "sending", "waiting", "replying", "stalled"}
  PROVE  /\ \A l \in Link : links[l].alive => device # 0 /\ l = device
         /\ call[c].pc = "waiting" =>
              call[c].link \in Link /\ \A l \in Link : links[l].alive => l = call[c].link
<1>1. \A l \in Link : links[l].alive => device # 0 /\ l = device /\ l = node.link /\ Linked
  BY Worker DEF IInv, LinkSound, Linked
<1>2. call[c].pc = "waiting" => call[c].link \in Link
  BY Places DEF IInv, RowSound
<1>3. call[c].pc = "waiting" /\ Linked => call[c].link = node.link
  BY DEF IInv, LinkSound
<1> QED  BY <1>1, <1>2, <1>3

LEMMA GivesUpStep ==
  ASSUME IInv, NEW c \in Call, GivesUp(c)
  PROVE  IInv'
<1>1. call[c].pc = "waiting" /\ links' = Closed(call[c].link) /\ Returns(c, "unknown")
      /\ UNCHANGED <<row, mem, config, node, device, up, down, table, current, mute>>
  BY DEF GivesUp
<1>2. call[c].link \in Link /\ \A l \in Link : links[l].alive => l = call[c].link
  BY <1>1, OnlyDevice
<1>3. /\ links' \in [Link -> [dialled : BOOLEAN, alive : BOOLEAN, relay : Relay]]
      /\ \A k \in Link : /\ links'[k].dialled = links[k].dialled
                         /\ links'[k].relay = links[k].relay
                         /\ ~links'[k].alive
  BY <1>1, <1>2, Shut DEF IInv
<1> QED  BY <1>1, <1>3, EndStep DEF Wipes

(* What is saved is a settings record that can be saved. *)
LEMMA Wanted ==
  ASSUME TypeOK, GateSound, NEW c \in Call, call[c].pc = "saving"
  PROVE  /\ Desired(c) \in Settings /\ (Desired(c).inbound => Desired(c).grant # 0)
         /\ NewGrant \in Grants
<1>1. IsFiniteSet(Call)
  BY SettingsAssumption
<1> DEFINE D == {d \in Call : call[d].issued}
<1>2. c \notin D /\ D \subseteq Call \ {c}
  BY DEF GateSound
<1>3. IsFiniteSet(Call \ {c}) /\ Cardinality(Call \ {c}) = Cardinality(Call) - 1
      /\ Cardinality(Call) \in Nat
  <2>1. /\ IsFiniteSet(Call \ {c})
        /\ Cardinality(Call \ {c}) = IF c \in Call THEN Cardinality(Call) - 1 ELSE Cardinality(Call)
    BY <1>1, FS_RemoveElement, Zenon
  <2> QED  BY <1>1, <2>1, FS_CardinalityType
<1>4. IsFiniteSet(D) /\ Cardinality(D) <= Cardinality(Call \ {c})
  BY <1>2, <1>3, FS_Subset
<1>5. Cardinality(D) \in Nat
  BY <1>4, FS_CardinalityType
<1>6. NewGrant = 1 + Cardinality(D)
  BY DEF NewGrant
<1> HIDE DEF D
<1>7. NewGrant \in Grants /\ NewGrant # 0
  BY <1>3, <1>4, <1>5, <1>6 DEF Grants
<1>8. 0 \in Grants
  BY <1>3 DEF Grants
<1>9. mem.grant \in Grants
  BY DEF TypeOK, Record
<1> QED  BY <1>7, <1>8, <1>9 DEF Desired, Unset, Settings

LEMMA NextTyped ==
  ASSUME TypeOK, NEW s \in Settings, NEW active \in BOOLEAN
  PROVE  /\ NextRecord(s, active) \in Record /\ Held(NextRecord(s, active)) = s
         /\ NextRecord(s, active).grant = s.grant /\ NextRecord(s, active).inbound = s.inbound
         /\ NextRecord(s, active).active = active
<1>1. mem.revision + 1 \in Nat
  BY DEF TypeOK, Record
<1>2. s.grant \in Grants /\ s.inbound \in BOOLEAN /\ s = [grant |-> s.grant, inbound |-> s.inbound]
  BY DEF Settings
<1> QED  BY <1>1, <1>2 DEF NextRecord, Record, Held

LEMMA Marked ==
  ASSUME TypeOK, NEW c \in Call, NEW s \in Settings, NEW pc \in {"sending", "replying", "done"},
         NEW reply \in {"none", "unsaved"},
         call' = [call EXCEPT ![c].pc = pc, ![c].reply = reply, ![c].want = s,
                              ![c].issued = s.grant = NewGrant]
  PROVE  /\ call' \in [Call -> CallRecord] /\ \A d \in Call : d # c => call'[d] = call[d]
         /\ call'[c].pc = pc /\ call'[c].reply = reply /\ call'[c].want = s
         /\ call'[c].op = call[c].op /\ call'[c].link = call[c].link
<1>0. call[c] \in CallRecord
  BY DEF TypeOK
<1>1. PICK b \in BOOLEAN : b = (s.grant = NewGrant)
  BY Zenon
<1> DEFINE r == [[[[call[c] EXCEPT !.pc = pc] EXCEPT !.reply = reply] EXCEPT !.want = s] EXCEPT !.issued = b]
<1>2. /\ r \in CallRecord /\ r.pc = pc /\ r.reply = reply /\ r.want = s
      /\ r.op = call[c].op /\ r.link = call[c].link
  BY <1>0 DEF CallRecord
<1>3. call' = [call EXCEPT ![c].pc = pc, ![c].reply = reply, ![c].want = s, ![c].issued = b]
  BY <1>1, Zenon
<1>4. call' = [call EXCEPT ![c] = r]
  BY <1>0, <1>3 DEF TypeOK
<1> HIDE DEF r
<1> QED  BY <1>2, <1>4, CallMoved DEF Moved

LEMMA SaveStep ==
  ASSUME IInv, NEW c \in Call, Save(c)
  PROVE  IInv'
<1> USE DEF IInv
<1>0. /\ UNCHANGED <<config, node, device, links, up, down, table, current, mute>>
      /\ call[c].pc = "saving" /\ call[c].op \in {"issue", "on", "off", "revoke"}
  BY DEF Save
<1>1. PICK s : s = Desired(c)
  OBVIOUS
<1>2. s \in Settings /\ (s.inbound => s.grant # 0)
  BY <1>0, <1>1, Wanted
<1>3. PICK n : n = NextRecord(s, TRUE)
  OBVIOUS
<1>4. /\ n \in Record /\ Held(n) = s /\ n.grant = s.grant /\ n.inbound = s.inbound /\ n.active = TRUE
  BY <1>2, <1>3, NextTyped
<1>5. /\ node.pc \notin {"refresh", "dial", "hello", "confirm"} /\ gate.writer = c
      /\ \A d \in Call : d # c => call[d].pc \notin {"saving", "sending", "waiting", "replying", "stalled"}
  BY <1>0, Worker
<1>6. HelloSound'
  BY <1>0, HelloKept
<1>7. CASE /\ Published(n) /\ gate' = gate
           /\ call' = [call EXCEPT ![c].pc = "sending", ![c].reply = "none", ![c].want = s,
                                   ![c].issued = s.grant = NewGrant]
  <2>1. /\ call' \in [Call -> CallRecord] /\ \A d \in Call : d # c => call'[d] = call[d]
        /\ call'[c].pc = "sending" /\ call'[c].reply = "none" /\ call'[c].want = s
        /\ call'[c].op = call[c].op
    BY <1>2, <1>7, Marked
  <2>2. row' = n /\ mem' = n
    BY <1>7 DEF Published
  <2>3. TypeOK'
    BY <1>0, <1>4, <1>7, <2>1, <2>2 DEF TypeOK
  <2>4. GateSound'
    BY <1>0, <1>7, <2>1, GateHeld
  <2>5. \A d \in Call : call'[d].pc \in {"sending", "waiting"} => d = c
    BY <1>5, <2>1
  <2>6. RowSound'
    BY <1>0, <1>2, <1>4, <1>5, <2>1, <2>2, <2>5 DEF RowSound, Saved, Dialling
  <2>7. \A d \in Call : call'[d].pc # "waiting"
    BY <2>1, <2>5
  <2>8. LinkSound'
    BY <1>0, <2>7, LinkKept
  <2>9. KeySound'
    <3>1. \A d \in Call : Early(d)' => Early(d)
      BY <1>0, <2>1 DEF Early
    <3> QED  BY <1>0, <3>1, KeyKept
  <2>10. WireSound'
    <3>1. SUFFICES ASSUME Linked', links'[node'.link].alive, node'.pc = "serving"
                   PROVE  ServingPhase(node.link)'
      BY <1>0, <1>5 DEF WireSound
    <3>2. PICK l \in Link : l = node.link
      BY <1>0, <3>1, Places DEF Linked
    <3>3. ServingPhase(l) /\ \A d \in Call : call[d].pc # "waiting"
      BY <1>0, <1>5, <3>1, <3>2 DEF WireSound, Linked
    <3>4. Alone(l)' /\ Said(l)'
      BY <1>0, <3>3 DEF ServingPhase, Alone, Said, Waits
    <3>5. Answered(l)'
      BY <2>7 DEF Answered, Waits
    <3>6. Agrees(l)'
      BY <2>1 DEF Agrees, Idle
    <3> QED  BY <1>0, <3>2, <3>4, <3>5, <3>6 DEF ServingPhase
  <2> QED  BY <1>6, <2>3, <2>4, <2>6, <2>8, <2>9, <2>10
<1>8. ASSUME Unpublished(n), NEW pc \in {"replying", "done"},
             gate' = IF pc = "done" THEN Released(c) ELSE gate,
             call' = [call EXCEPT ![c].pc = pc, ![c].reply = "unsaved", ![c].want = s,
                                  ![c].issued = s.grant = NewGrant]
      PROVE  IInv'
  <2>1. /\ call' \in [Call -> CallRecord] /\ \A d \in Call : d # c => call'[d] = call[d]
        /\ call'[c].pc = pc /\ call'[c].reply = "unsaved"
    BY <1>2, <1>8, Marked
  <2>2. row' \in {row, n} /\ mem' = mem
    BY <1>8 DEF Unpublished
  <2>3. gate' \in [slots : SUBSET User, writer : User \cup {None}]
    <3>1. CASE pc = "done"
      BY <1>8, <3>1, SlotGiven DEF User
    <3>2. CASE pc = "replying"
      BY <1>8, <3>2 DEF TypeOK
    <3> QED  BY <1>8, <3>1, <3>2
  <2>4. TypeOK'
    BY <1>0, <1>4, <2>1, <2>2, <2>3 DEF TypeOK
  <2>5. GateSound'
    <3>1. CASE pc = "done"
      BY <1>0, <1>8, <2>1, <3>1, GateLeft
    <3>2. CASE pc = "replying"
      BY <1>0, <1>8, <2>1, <3>2, GateHeld
    <3> QED  BY <1>8, <3>1, <3>2
  <2>6. \A d \in Call : /\ call'[d].pc \notin {"sending", "waiting"}
                        /\ call[d].pc \notin {"sending", "waiting"}
                        /\ Early(d)' => Early(d)
                        /\ ~ Wipes(d)
    BY <1>0, <1>5, <1>8, <2>1 DEF Early, Wipes
  <2>7. RowSound'
    BY <1>0, <1>2, <1>4, <1>5, <2>2, <2>6 DEF RowSound, Dialling
  <2>8. LinkSound'
    BY <1>0, <2>6, LinkKept
  <2>9. KeySound'
    BY <1>0, <2>6, KeyKept
  <2>10. WireSound'
    BY <1>0, <2>2, <2>6, WireKept
  <2> QED  BY <1>6, <2>4, <2>5, <2>7, <2>8, <2>9, <2>10
<1>9. CASE /\ Unpublished(n) /\ gate' = Released(c)
           /\ call' = [call EXCEPT ![c].pc = "done", ![c].reply = "unsaved", ![c].want = s,
                                   ![c].issued = s.grant = NewGrant]
  BY <1>8, <1>9
<1>10. CASE /\ Unpublished(n) /\ gate' = gate
            /\ call' = [call EXCEPT ![c].pc = "replying", ![c].reply = "unsaved", ![c].want = s,
                                    ![c].issued = s.grant = NewGrant]
  <2>1. "replying" \in {"replying", "done"} /\ "replying" # "done"
    OBVIOUS
  <2> QED  BY <1>8, <1>10, <2>1
<1> QED  BY <1>1, <1>3, <1>7, <1>9, <1>10 DEF Save

(* A frame other than hello does not make a greeting. *)
LEMMA NoHello ==
  ASSUME TypeOK, HelloSound, NEW l \in Link, NEW f \in Frame, Send(l, f), f.type # "hello",
         ~ HelloIn(l), links[l].dialled, down' = down,
         \A k \in Link : /\ links'[k].dialled = links[k].dialled
                         /\ links'[k].relay = links[k].relay,
         \A r \in Relay : current'[r] \in {current[r], 0}
  PROVE  HelloSound'
<1>1. /\ up'[l] = Append(up[l], f) /\ \A k \in Link : k # l => up'[k] = up[k]
      /\ Len(up'[l]) = Len(up[l]) + 1 /\ up'[l][Len(up[l]) + 1] = f
      /\ \A i \in 1..Len(up[l]) : up'[l][i] = up[l][i]
  BY Sent
<1>2. Len(up[l]) \in Nat
  BY DEF TypeOK
<1>3. \A i \in 1..Len(up'[l]) : i \in 1..Len(up[l]) \/ i = Len(up[l]) + 1
  BY <1>1, <1>2
<1>4. ~ HelloIn(l)'
  BY <1>1, <1>3 DEF HelloIn
<1> QED  BY <1>1, <1>4, HelloKept

(* The published link, while it is up, carries no hello any more. *)
LEMMA ServedLink ==
  ASSUME IInv, device # 0, links[device].alive
  PROVE  /\ device \in Link /\ node.link = device /\ node.pc = "serving" /\ links[device].dialled
         /\ ServingPhase(device) /\ ~ HelloIn(device)
<1> USE DEF IInv
<1>1. device \in Link /\ node.link = device /\ node.pc = "serving" /\ Linked
  BY Places
<1>2. links[device].dialled /\ ServingPhase(device)
  BY <1>1 DEF LinkSound, WireSound
<1>3. ~ HelloIn(device)
  BY <1>2 DEF ServingPhase, Said, HelloIn
<1> QED  BY <1>1, <1>2, <1>3

(* A call has done its work and said something on the link, or not; a reset has
   also wiped the row. *)
LEMMA EndSaid ==
  ASSUME IInv, NEW c \in Call, call[c].pc \in {"saving", "sending"},
         NEW reply \in {"ok", "unknown", "unsaved"},
         Returns(c, reply) \/ Replies(c, reply), NEW f \in Frame, f.type # "hello", f.key \in {c, None},
         up' = up \/ (device # 0 /\ links[device].alive /\ Send(device, f)),
         links' \in [Link -> [dialled : BOOLEAN, alive : BOOLEAN, relay : Relay]],
         \A l \in Link : /\ links'[l].dialled = links[l].dialled
                         /\ links'[l].relay = links[l].relay
                         /\ links'[l].alive => links[l].alive,
         \/ \A l \in Link : ~links'[l].alive
         \/ mute' /\ up' = up
         \/ /\ f.type = "revoke" /\ f.key = None
            /\ device # 0 /\ links[device].alive /\ Send(device, f),
         mute' \in BOOLEAN,
         \/ UNCHANGED <<row, mem>>
         \/ row' \in Record /\ mem' \in Record /\ RowSound',
         UNCHANGED <<config, node, device, down, table, current>>
  PROVE  IInv'
<1> USE DEF IInv
<1>1. /\ call' \in [Call -> CallRecord]
      /\ \A d \in Call : d # c => call'[d] = call[d]
      /\ call'[c].pc \in {"done", "replying"} /\ call'[c].reply = reply
      /\ \/ call'[c].pc = "done" /\ gate' = Released(c)
         \/ call'[c].pc = "replying" /\ gate' = gate
  BY Returned, ReplyHeld
<1>2. /\ \A d \in Call : d # c => call[d].pc \notin {"saving", "sending", "waiting", "replying", "stalled"}
      /\ node.pc \notin {"refresh", "dial", "hello", "confirm"}
  BY Worker
<1>3. \A d \in Call : /\ call'[d].pc \notin {"sending", "waiting"}
                      /\ call[d].pc # "waiting"
                      /\ Early(d)' => Early(d) /\ d # c
                      /\ ~ Wipes(d)
  BY <1>1, <1>2 DEF Early, Wipes
<1>4. GateSound'
  BY <1>1, GateLeft, GateHeld
<1>5. gate' \in [slots : SUBSET User, writer : User \cup {None}]
  <2>1. gate' = Released(c) => gate' \in [slots : SUBSET User, writer : User \cup {None}]
    BY SlotGiven DEF User
  <2> QED  BY <1>1, <2>1 DEF TypeOK
<1>6. ASSUME device # 0, links[device].alive, Send(device, f)
      PROVE  /\ device \in Link /\ up' \in [Link -> Seq(Frame)] /\ up'[device] = Append(up[device], f)
             /\ \A k \in Link : k # device => up'[k] = up[k]
             /\ Len(up'[device]) = Len(up[device]) + 1 /\ up'[device][Len(up[device]) + 1] = f
             /\ \A i \in 1..Len(up[device]) : up'[device][i] = up[device][i]
  BY <1>6, Sent, ServedLink
<1>7. TypeOK'
  BY <1>1, <1>5, <1>6 DEF TypeOK
<1>8. RowSound'
  <2>1. CASE UNCHANGED <<row, mem>>
    BY <1>3, <2>1, RowKept DEF Dialling, Wipes
  <2> QED  BY <2>1
<1>9. LinkSound'
  BY <1>3, LinkKept
<1>10. HelloSound'
  BY <1>6, HelloKept, NoHello, ServedLink
<1>11. KeySound'
  <2>1. \A d \in Call : d # None
    BY SettingsAssumption
  <2>2. CASE up' = up
    BY <1>3, <2>2, KeyKept
  <2>3. CASE device # 0 /\ links[device].alive /\ Send(device, f)
    <3>1. \A d \in Call : Early(d)' => Early(d) /\ d # f.key
      BY <1>3, <2>1
    <3> QED  BY <2>3, <3>1, ServedLink, KeySent
  <2> QED  BY <2>2, <2>3
<1>12. WireSound'
  <2>1. SUFFICES ASSUME Linked', links'[node'.link].alive
                 PROVE  ServingPhase(device)' /\ node'.link = device' /\ node'.pc = "serving"
    BY DEF WireSound
  <2>2. device # 0 /\ links[device].alive /\ node.link = device /\ node.pc = "serving" /\ device \in Link
    BY <1>2, <2>1, Places DEF Linked, LinkSound
  <2>3. PICK l \in Link : l = device
    BY <2>2
  <2>4. ServingPhase(l) /\ \A i \in 1..Len(up[l]) : up[l][i].type = "revoke" /\ up[l][i].key = None
    BY <1>3, <2>2, <2>3, ServedLink DEF ServingPhase, Said, Waits
  <2>5. Len(up[l]) \in Nat
    BY DEF TypeOK
  <2>6. Answered(l)'
    BY <1>3 DEF Answered, Waits
  <2>7. CASE mute' /\ up' = up
    <3>1. Alone(l)' /\ Said(l)' /\ Agrees(l)'
      BY <2>4, <2>7 DEF ServingPhase, Alone, Said, Agrees
    <3> QED  BY <2>2, <2>3, <2>6, <3>1 DEF ServingPhase
  <2>8. CASE f.type = "revoke" /\ f.key = None /\ Send(l, f)
    <3>1. /\ \A k \in Link : k # l => up'[k] = up[k]
          /\ Len(up'[l]) = Len(up[l]) + 1 /\ up'[l][Len(up[l]) + 1] = f
          /\ \A i \in 1..Len(up[l]) : up'[l][i] = up[l][i]
      BY <1>6, <2>2, <2>3, <2>8
    <3>2. \A i \in 1..Len(up'[l]) : i \in 1..Len(up[l]) \/ i = Len(up[l]) + 1
      BY <2>5, <3>1
    <3>3. Said(l)'
      <4>1. ASSUME NEW i \in 1..Len(up'[l])
            PROVE  up'[l][i].type = "revoke" /\ up'[l][i].key = None
        <5>1. CASE i \in 1..Len(up[l])
          BY <2>4, <3>1, <5>1
        <5>2. CASE i = Len(up[l]) + 1
          BY <2>8, <3>1, <5>2
        <5> QED  BY <3>2, <5>1, <5>2
      <4> QED  BY <4>1 DEF Said
    <3>4. Alone(l)'
      BY <2>4, <3>1 DEF ServingPhase, Alone
    <3>5. Agrees(l)'
      BY <2>5, <3>1 DEF Agrees
    <3> QED  BY <2>2, <2>3, <2>6, <3>3, <3>4, <3>5 DEF ServingPhase
  <2> QED  BY <2>1, <2>2, <2>3, <2>7, <2>8
<1> QED  BY <1>4, <1>7, <1>8, <1>9, <1>10, <1>11, <1>12

(* The settings go out and the call waits. *)
LEMMA SettingsSent ==
  ASSUME IInv, NEW c \in Call, call[c].pc = "sending", call[c].op # "revoke",
         device # 0, links[device].relay = config, links[device].alive,
         Send(device, [type |-> "settings", key |-> c, want |-> call[c].want]),
         call' = [call EXCEPT ![c].pc = "waiting", ![c].link = device],
         UNCHANGED <<gate, row, mem, config, node, device, links, down, table, current, mute>>
  PROVE  IInv'
<1> USE DEF IInv
<1>0. call[c] \in CallRecord /\ device \in 0..MaxLink
  BY DEF TypeOK
<1>1. PICK f : f = [type |-> "settings", key |-> c, want |-> call[c].want]
  OBVIOUS
<1>2. f \in Frame /\ f.type = "settings" /\ f.key = c /\ f.want = call[c].want
  BY <1>0, <1>1 DEF Frame, CallRecord, User
<1>3. PICK l \in Link : l = device
  BY ServedLink
<1>4. node.link = l /\ node.pc = "serving" /\ ServingPhase(l) /\ ~HelloIn(l) /\ links[l].dialled
  BY <1>3, ServedLink
<1> DEFINE r == [[call[c] EXCEPT !.pc = "waiting"] EXCEPT !.link = device]
<1>5. /\ r \in CallRecord /\ r.pc = "waiting" /\ r.link = device /\ r.op = call[c].op
      /\ r.want = call[c].want /\ r.reply = call[c].reply /\ r.issued = call[c].issued
  BY <1>0 DEF CallRecord
<1>6. call' = [call EXCEPT ![c] = r]
  BY <1>0 DEF TypeOK
<1> HIDE DEF r
<1>7. call' \in [Call -> CallRecord] /\ call'[c] = r /\ \A d \in Call : d # c => call'[d] = call[d]
  BY <1>5, <1>6, CallMoved DEF Moved
<1>8. /\ \A d \in Call : d # c => call[d].pc \notin {"saving", "sending", "waiting", "replying", "stalled"}
  BY Worker
<1>9. Send(l, f)
  BY <1>1, <1>3
<1>10. /\ up' \in [Link -> Seq(Frame)] /\ up'[l] = Append(up[l], f)
       /\ \A k \in Link : k # l => up'[k] = up[k]
       /\ Len(up'[l]) = Len(up[l]) + 1 /\ up'[l][Len(up[l]) + 1] = f
       /\ \A i \in 1..Len(up[l]) : up'[l][i] = up[l][i]
  BY <1>2, <1>9, Sent
<1>11. TypeOK'
  BY <1>7, <1>10 DEF TypeOK
<1>12. GateSound'
  <2>1. ASSUME NEW d \in Call
        PROVE  /\ call'[d].pc \in {"saving", "sending", "waiting", "replying", "stalled"} <=> gate'.writer = d
               /\ d \in gate'.slots <=> call'[d].pc \notin {"new", "done"}
               /\ call'[d].reply = "busy" => ~call'[d].issued
               /\ call'[d].issued => call'[d].pc \notin {"new", "queued", "saving"}
               /\ call'[d].reply = "busy" => call'[d].pc = "done"
    <3>1. CASE d = c
      BY <1>5, <1>7, <3>1 DEF GateSound, GateKept
    <3>2. CASE d # c
      BY <1>7, <3>2 DEF GateSound, GateKept
    <3> QED  BY <3>1, <3>2
  <2> QED  BY <2>1 DEF GateSound, GateKept
<1>13. \A d \in Call : call'[d].pc \in {"sending", "waiting"} => d = c
  BY <1>7, <1>8
<1>14. RowSound'
  BY <1>5, <1>7, <1>13 DEF RowSound, Saved, Dialling
<1>15. LinkSound'
  BY <1>3, <1>4, <1>5, <1>7, <1>13 DEF LinkSound, Linked
<1>16. HelloSound'
  BY <1>2, <1>4, <1>9, NoHello
<1>17. KeySound'
  <2>1. \A d \in Call : Early(d)' => Early(d) /\ d # f.key
    BY <1>2, <1>5, <1>7 DEF Early
  <2> QED  BY <1>2, <1>9, <2>1, KeySent
<1>18. ServingPhase(l)'
  <2>1. Alone(l)'
    BY <1>4, <1>10 DEF ServingPhase, Alone
  <2>2. Len(up[l]) \in Nat
    BY DEF TypeOK
  <2>3. \A i \in 1..Len(up'[l]) : i \in 1..Len(up[l]) \/ i = Len(up[l]) + 1
    BY <1>10, <2>2
  <2>4. \A i \in 1..Len(up[l]) : up[l][i].type = "revoke" /\ up[l][i].key = None
    BY <1>4, <1>8 DEF ServingPhase, Said, Waits
  <2>5. Waits(c, l)' /\ call'[c].want = f.want
    BY <1>2, <1>3, <1>5, <1>7 DEF Waits
  <2>6. Said(l)'
    <3>1. ASSUME NEW i \in 1..Len(up'[l])
          PROVE  \/ up'[l][i].type = "revoke" /\ up'[l][i].key = None
                 \/ /\ i = Len(up'[l]) /\ up'[l][i].type = "settings"
                    /\ \E d \in Call : Waits(d, l)' /\ up'[l][i].key = d /\ up'[l][i].want = call'[d].want
      <4>1. CASE i \in 1..Len(up[l])
        BY <1>10, <2>4, <4>1
      <4>2. CASE i = Len(up[l]) + 1
        <5>1. up'[l][i] = f /\ i = Len(up'[l])
          BY <1>10, <4>2
        <5> QED  BY <1>2, <2>5, <5>1
      <4> QED  BY <2>3, <4>1, <4>2
    <3> QED  BY <3>1 DEF Said
  <2>7. \A i \in 1..Len(down[l]) : down[l][i].key # c
    BY DEF KeySound, Early
  <2>8. Answered(l)'
    BY <1>13, <2>7 DEF Answered, Waits
  <2>9. Agrees(l)'
    BY <1>5, <1>7 DEF Agrees, Idle
  <2> QED  BY <2>1, <2>6, <2>8, <2>9 DEF ServingPhase
<1>19. WireSound'
  BY <1>4, <1>18 DEF WireSound
<1> QED  BY <1>11, <1>12, <1>14, <1>15, <1>16, <1>17, <1>19

LEMMA SendSettingsStep ==
  ASSUME IInv, NEW c \in Call, SendSettings(c)
  PROVE  IInv'
<1> USE DEF IInv
<1>0. /\ UNCHANGED <<row, mem, config, node, device, down, table, current, mute>>
      /\ call[c].pc = "sending" /\ call[c].op # "revoke" /\ call[c] \in CallRecord
  BY DEF SendSettings, TypeOK
<1>1. PICK f : f = [type |-> "settings", key |-> c, want |-> call[c].want]
  OBVIOUS
<1>2. f \in Frame /\ f.type = "settings" /\ f.key = c
  BY <1>0, <1>1 DEF Frame, CallRecord, User
<1>3. \A l \in Link : links[l].alive => device # 0 /\ l = device
  BY <1>0, OnlyDevice
<1>4. /\ device # 0 => device \in Link
      /\ links \in [Link -> [dialled : BOOLEAN, alive : BOOLEAN, relay : Relay]] /\ mute \in BOOLEAN
  BY Places DEF TypeOK
<1>5. CASE device = 0 /\ Returns(c, "unknown") /\ UNCHANGED <<links, up>>
  <2>1. \A l \in Link : ~links'[l].alive
    BY <1>3, <1>5
  <2> QED  BY <1>0, <1>2, <1>4, <1>5, <2>1, EndSaid
<1>6. CASE /\ device # 0 /\ links' = Closed(device) /\ Returns(c, "unknown")
           /\ up' = up \/ (links[device].alive /\ Send(device, f))
  <2>1. /\ links' \in [Link -> [dialled : BOOLEAN, alive : BOOLEAN, relay : Relay]]
        /\ \A k \in Link : /\ links'[k].dialled = links[k].dialled
                           /\ links'[k].relay = links[k].relay
                           /\ k # device => links'[k] = links[k]
        /\ ~links'[device].alive
    BY <1>4, <1>6, Shut
  <2>2. \A l \in Link : ~links'[l].alive
    BY <1>3, <2>1
  <2> QED  BY <1>0, <1>2, <1>4, <1>6, <2>1, <2>2, EndSaid
<1>7. CASE /\ device # 0 /\ links[device].relay = config /\ links[device].alive
           /\ Send(device, f)
           /\ call' = [call EXCEPT ![c].pc = "waiting", ![c].link = device]
           /\ UNCHANGED <<links, gate>>
  BY <1>0, <1>1, <1>7, SettingsSent
<1> QED  BY <1>1, <1>5, <1>6, <1>7 DEF SendSettings

LEMMA RevokeStep ==
  ASSUME IInv, NEW c \in Call, Revoke(c)
  PROVE  IInv'
<1> USE DEF IInv
<1>0. /\ UNCHANGED <<row, mem, config, node, device, links, down, table, current>>
      /\ call[c].pc = "sending" /\ Replies(c, "ok") /\ PushRevoke
  BY DEF Revoke
<1>1. PICK f : f = [type |-> "revoke", key |-> None, want |-> Unset]
  OBVIOUS
<1>2. f \in Frame /\ f.type = "revoke" /\ f.key = None
  <2>1. 0 \in Grants
    BY FS_CardinalityType, SettingsAssumption DEF Grants
  <2> QED  BY <1>1, <2>1 DEF Frame, Settings, Unset
<1>3. \A l \in Link : links[l].alive => device # 0 /\ l = device
  BY <1>0, OnlyDevice
<1>4. /\ device # 0 => device \in Link
      /\ links \in [Link -> [dialled : BOOLEAN, alive : BOOLEAN, relay : Relay]] /\ mute \in BOOLEAN
  BY Places DEF TypeOK
<1>5. CASE device = 0 /\ UNCHANGED <<up, mute>>
  <2>1. \A l \in Link : ~links'[l].alive
    BY <1>0, <1>3, <1>5
  <2> QED  BY <1>0, <1>2, <1>4, <1>5, <2>1, EndSaid
<1>6. CASE /\ device # 0 /\ links[device].alive /\ Send(device, f) /\ UNCHANGED mute
  BY <1>0, <1>2, <1>4, <1>6, EndSaid
<1>7. CASE device # 0 /\ UNCHANGED up /\ mute' = links[device].alive
  <2>1. links[device].alive \in BOOLEAN
    BY <1>4, <1>7
  <2>2. CASE links[device].alive
    <3>1. mute' /\ mute' \in BOOLEAN
      BY <1>7, <2>1, <2>2
    <3> QED  BY <1>0, <1>2, <1>4, <1>7, <3>1, EndSaid
  <2>3. CASE ~links[device].alive
    <3>1. \A l \in Link : ~links'[l].alive
      BY <1>0, <1>3, <2>3
    <3>2. mute' \in BOOLEAN
      BY <1>7, <2>1
    <3> QED  BY <1>0, <1>2, <1>4, <1>7, <3>1, <3>2, EndSaid
  <2> QED  BY <2>2, <2>3
<1> QED  BY <1>0, <1>1, <1>5, <1>6, <1>7 DEF PushRevoke

LEMMA SetConfigStep ==
  ASSUME IInv, NEW c \in Call, NEW address \in Relay, SetConfig(c, address)
  PROVE  IInv'
<1> USE DEF IInv
<1>0. /\ UNCHANGED <<row, mem, node, device, up, down, table, current, mute>>
      /\ call[c].pc = "saving"
      /\ \/ /\ config' = address /\ Replies(c, "ok")
            /\ links' = IF address # config /\ device # 0 THEN Closed(device) ELSE links
         \/ Replies(c, "unsaved") /\ UNCHANGED <<config, links>>
  BY DEF SetConfig
<1>1. /\ call' \in [Call -> CallRecord]
      /\ \A d \in Call : d # c => call'[d] = call[d]
      /\ call'[c].pc = "replying" /\ call'[c].reply # "busy"
      /\ gate' = gate
  BY <1>0, ReplyHeld
<1>2. \A d \in Call : /\ call'[d].pc \notin {"sending", "waiting"}
                      /\ call[d].pc \notin {"sending", "waiting"}
                      /\ Early(d)' => Early(d)
                      /\ ~ Wipes(d)
  BY <1>0, <1>1, Worker DEF Early, Wipes
<1>3. gate' \in [slots : SUBSET User, writer : User \cup {None}] /\ config' \in Relay
  BY <1>0, <1>1 DEF TypeOK
<1>4. GateSound'
  BY <1>0, <1>1, GateHeld
<1>5. /\ links' \in [Link -> [dialled : BOOLEAN, alive : BOOLEAN, relay : Relay]]
      /\ \A l \in Link : /\ links'[l].dialled = links[l].dialled
                         /\ links'[l].relay = links[l].relay
                         /\ links'[l].alive => links[l].alive
  <2>1. CASE device # 0 /\ links' = Closed(device)
    <3>1. links' = Closed(device) /\ device \in Link
      BY <2>1, Places
    <3>2. /\ links' \in [Link -> [dialled : BOOLEAN, alive : BOOLEAN, relay : Relay]]
          /\ \A k \in Link : /\ links'[k].dialled = links[k].dialled
                             /\ links'[k].relay = links[k].relay
                             /\ k # device => links'[k] = links[k]
          /\ ~links'[device].alive
      BY <3>1, Shut
    <3> QED  BY <3>2
  <2>2. CASE links' = links
    BY <2>2 DEF TypeOK
  <2> QED  BY <1>0, <2>1, <2>2
<1>6. TypeOK'
  BY <1>0, <1>1, <1>3, <1>5 DEF TypeOK
<1>7. RowSound'
  BY <1>0, <1>2 DEF RowSound, Saved, Dialling
<1>8. LinkSound'
  BY <1>0, <1>2, <1>5, LinkKept
<1>9. HelloSound'
  BY <1>0, <1>5, HelloKept
<1>10. KeySound'
  BY <1>0, <1>2, KeyKept
<1>11. WireSound'
  BY <1>0, <1>2, <1>5, WireKept
<1> QED  BY <1>4, <1>6, <1>7, <1>8, <1>9, <1>10, <1>11

LEMMA ResetStep ==
  ASSUME IInv, NEW c \in Call, Reset(c)
  PROVE  IInv'
<1> USE DEF IInv
<1>0. /\ UNCHANGED <<config, node, device, links, down, table, current>>
      /\ call[c].pc = "saving" /\ call[c].op = "reset" /\ PushRevoke
  BY DEF Reset
<1>1. PICK f : f = [type |-> "revoke", key |-> None, want |-> Unset]
  OBVIOUS
<1>2. f \in Frame /\ f.type = "revoke" /\ f.key = None /\ Unset \in Settings /\ Unset.inbound = FALSE
  <2>1. 0 \in Grants
    BY FS_CardinalityType, SettingsAssumption DEF Grants
  <2> QED  BY <1>1, <2>1 DEF Frame, Settings, Unset
<1>3. PICK n : n = NextRecord(Unset, FALSE)
  OBVIOUS
<1>4. n \in Record /\ n.inbound = FALSE
  BY <1>2, <1>3, NextTyped
<1>5. /\ row' \in {row, n} /\ mem' \in {mem, n}
      /\ \E reply \in {"ok", "unsaved"} : Replies(c, reply)
  BY <1>3 DEF Reset, Published, Unpublished
<1>6. PICK reply \in {"ok", "unsaved"} : Replies(c, reply)
  BY <1>5
<1>7. /\ \A d \in Call : d # c => call'[d] = call[d]
      /\ call'[c].pc = "replying" /\ call'[c].op = "reset"
  BY <1>0, <1>6, ReplyHeld
<1>8. /\ \A d \in Call : call'[d].pc \notin {"sending", "waiting"}
      /\ node.pc \notin {"refresh", "dial", "hello", "confirm"}
  BY <1>0, <1>7, Worker
<1>9. row' \in Record /\ mem' \in Record
  BY <1>4, <1>5 DEF TypeOK
<1>10. RowSound'
  <2>1. Wipes(c)'
    BY <1>7 DEF Wipes
  <2> QED  BY <1>0, <1>4, <1>5, <1>8, <2>1 DEF RowSound, Dialling
<1>11. \A l \in Link : links[l].alive => device # 0 /\ l = device
  BY <1>0, OnlyDevice
<1>12. /\ device # 0 => device \in Link
       /\ links \in [Link -> [dialled : BOOLEAN, alive : BOOLEAN, relay : Relay]] /\ mute \in BOOLEAN
  BY Places DEF TypeOK
<1>13. CASE device = 0 /\ UNCHANGED <<up, mute>>
  <2>1. \A l \in Link : ~links'[l].alive
    BY <1>0, <1>11, <1>13
  <2> QED  BY <1>0, <1>2, <1>6, <1>9, <1>10, <1>12, <1>13, <2>1, EndSaid
<1>14. CASE /\ device # 0 /\ links[device].alive /\ Send(device, f) /\ UNCHANGED mute
  BY <1>0, <1>2, <1>6, <1>9, <1>10, <1>12, <1>14, EndSaid
<1>15. CASE device # 0 /\ UNCHANGED up /\ mute' = links[device].alive
  <2>1. links[device].alive \in BOOLEAN
    BY <1>12, <1>15
  <2>2. CASE links[device].alive
    <3>1. mute' /\ mute' \in BOOLEAN
      BY <1>15, <2>1, <2>2
    <3> QED  BY <1>0, <1>2, <1>6, <1>9, <1>10, <1>12, <1>15, <3>1, EndSaid
  <2>3. CASE ~links[device].alive
    <3>1. \A l \in Link : ~links'[l].alive
      BY <1>0, <1>11, <2>3
    <3>2. mute' \in BOOLEAN
      BY <1>15, <2>1
    <3> QED  BY <1>0, <1>2, <1>6, <1>9, <1>10, <1>12, <1>15, <3>1, <3>2, EndSaid
  <2> QED  BY <2>2, <2>3
<1> QED  BY <1>0, <1>1, <1>13, <1>14, <1>15 DEF PushRevoke

(* The head of an operation that replies stops reading, or reads again. *)
LEMMA HeadStep ==
  ASSUME IInv, NEW c \in Call, HeadStalls(c) \/ HeadReads(c)
  PROVE  IInv'
<1> USE DEF IInv
<1>0. /\ UNCHANGED <<gate, row, mem, config, node, device, links, up, down, table, current, mute>>
      /\ call[c].pc \in {"replying", "stalled"} /\ call[c] \in CallRecord
  BY DEF HeadStalls, HeadReads, TypeOK
<1>1. PICK pc \in {"replying", "stalled"} : call' = [call EXCEPT ![c].pc = pc]
  BY DEF HeadStalls, HeadReads
<1> DEFINE r == [call[c] EXCEPT !.pc = pc]
<1>2. r \in CallRecord /\ r.pc = pc /\ r.reply = call[c].reply /\ r.op = call[c].op
  BY <1>0 DEF CallRecord
<1>3. call' = [call EXCEPT ![c] = r]
  BY <1>1
<1> HIDE DEF r
<1>4. /\ call' \in [Call -> CallRecord] /\ call'[c] = r
      /\ \A d \in Call : d # c => call'[d] = call[d]
  BY <1>2, <1>3, CallMoved DEF Moved
<1>5. call'[c].reply # "busy"
  BY <1>0, <1>2, <1>4 DEF GateSound
<1>6. \A d \in Call : /\ call'[d].pc \in {"sending", "waiting"} => call'[d] = call[d]
                      /\ call[d].pc \in {"sending", "waiting"} => call'[d] = call[d]
                      /\ Early(d)' => Early(d)
                      /\ Wipes(d) => Wipes(d)'
  BY <1>0, <1>2, <1>4 DEF Early, Wipes
<1>7. TypeOK'
  BY <1>0, <1>4 DEF TypeOK
<1>8. GateSound'
  BY <1>0, <1>2, <1>4, <1>5, GateHeld
<1>9. RowSound'
  BY <1>0, <1>6, RowKept DEF Dialling, Wipes
<1>10. LinkSound'
  BY <1>0, <1>6, LinkKept
<1>11. HelloSound'
  BY <1>0, HelloKept
<1>12. KeySound'
  BY <1>0, <1>6, KeyKept
<1>13. WireSound'
  BY <1>0, <1>6, WireKept
<1> QED  BY <1>7, <1>8, <1>9, <1>10, <1>11, <1>12, <1>13

(* The reset has replied, and the Runtime stops. *)
LEMMA StoppedThen ==
  ASSUME IInv, NEW c \in Call, call[c].pc = "replying", NEW reply \in {"none", "ok", "unsaved", "unknown"},
         Returns(c, reply), device' = 0, node' = [node EXCEPT !.pc = "over"],
         links' = [l \in Link |-> [links[l] EXCEPT !.alive = FALSE]],
         UNCHANGED <<row, mem, config, up, down, table, current, mute>>
  PROVE  IInv'
<1> USE DEF IInv
<1>1. /\ call' \in [Call -> CallRecord]
      /\ \A d \in Call : d # c => call'[d] = call[d]
      /\ call'[c].pc = "done" /\ call'[c].reply = reply
      /\ gate' = Released(c)
  BY Returned
<1>2. \A d \in Call : /\ call'[d].pc \notin {"sending", "waiting"}
                      /\ Early(d)' => Early(d)
  BY <1>1, Worker DEF Early
<1>3. gate' \in [slots : SUBSET User, writer : User \cup {None}]
  BY <1>1, SlotGiven DEF User
<1>4. gate.writer = c
  BY Worker
<1>5. node' \in [pc : {"idle", "queued", "refresh", "dial", "hello", "confirm", "serving", "over"},
                  link : 0..MaxLink, want : Settings] /\ node'.pc = "over"
  BY DEF TypeOK
<1>6. GateSound'
  BY <1>1, <1>4, <1>5, GateLeft
<1>7. ASSUME NEW l \in Link
      PROVE  /\ links'[l] \in [dialled : BOOLEAN, alive : BOOLEAN, relay : Relay]
             /\ links'[l].dialled = links[l].dialled /\ links'[l].relay = links[l].relay
             /\ ~links'[l].alive
  <2>1. links[l] \in [dialled : BOOLEAN, alive : BOOLEAN, relay : Relay]
    BY DEF TypeOK
  <2>2. links'[l] = [links[l] EXCEPT !.alive = FALSE]
    OBVIOUS
  <2> QED  BY <2>1, <2>2
<1>8. links' \in [Link -> [dialled : BOOLEAN, alive : BOOLEAN, relay : Relay]]
  BY <1>7
<1>9. TypeOK'
  BY <1>1, <1>3, <1>5, <1>8, SettingsAssumption DEF TypeOK
<1>10. RowSound'
  BY <1>2, <1>5 DEF RowSound, Dialling
<1>11. LinkSound'
  BY <1>2, <1>5, <1>7 DEF LinkSound, Linked
<1>12. HelloSound'
  BY <1>7, HelloKept
<1>13. KeySound'
  BY <1>2, KeyKept
<1>14. WireSound'
  BY <1>5 DEF WireSound, Linked
<1> QED  BY <1>6, <1>9, <1>10, <1>11, <1>12, <1>13, <1>14

LEMMA ReplyStep ==
  ASSUME IInv, NEW c \in Call, Reply(c)
  PROVE  IInv'
<1> USE DEF IInv
<1>0. /\ UNCHANGED <<row, mem, config, up, down, table, current, mute>>
      /\ call[c].pc = "replying" /\ Returns(c, call[c].reply)
      /\ call[c].reply \in {"none", "ok", "unsaved", "unknown"}
  BY DEF Reply, TypeOK, CallRecord, GateSound
<1>1. CASE call[c].op # "reset"
  <2>1. UNCHANGED <<node, device, links>> /\ ~ Wipes(c)
    BY <1>1 DEF Reply, Wipes
  <2>2. links' \in [Link -> [dialled : BOOLEAN, alive : BOOLEAN, relay : Relay]]
    BY <2>1 DEF TypeOK
  <2> QED  BY <1>0, <2>1, <2>2, EndStep
<1>2. CASE call[c].op = "reset"
  <2>1. /\ device' = 0 /\ node' = [node EXCEPT !.pc = "over"]
        /\ links' = [l \in Link |-> [links[l] EXCEPT !.alive = FALSE]]
    BY <1>2 DEF Reply
  <2> QED  BY <1>0, <2>1, StoppedThen
<1> QED  BY <1>1, <1>2

(***************************************************************************)
(* The steps of the connection loop                                        *)
(***************************************************************************)

LEMMA NodeMoved ==
  ASSUME TypeOK,
         NEW pc \in {"idle", "queued", "refresh", "dial", "hello", "confirm", "serving", "over"},
         node' = [node EXCEPT !.pc = pc]
  PROVE  /\ node' \in [pc : {"idle", "queued", "refresh", "dial", "hello", "confirm", "serving", "over"},
                       link : 0..MaxLink, want : Settings]
         /\ node'.pc = pc /\ node'.link = node.link /\ node'.want = node.want
BY DEF TypeOK

(* While the node works, no call does. *)
LEMMA NodeWorks ==
  ASSUME GateSound, node.pc \in {"refresh", "dial", "hello", "confirm"}
  PROVE  /\ gate.writer = Node /\ Node \in gate.slots
         /\ \A c \in Call : call[c].pc \notin {"saving", "sending", "waiting", "replying", "stalled"}
<1>1. \A c \in Call : c # Node
  BY SettingsAssumption
<1>2. Node # None
  BY SettingsAssumption
<1> QED  BY <1>1, <1>2 DEF GateSound, GateKept

(* The loop has no connection before, or none after. *)
LEMMA NodeAside ==
  ASSUME IInv, NEW pc \in {"idle", "queued", "refresh"}, node' = [node EXCEPT !.pc = pc],
         device' = 0, GateSound', gate' \in [slots : SUBSET User, writer : User \cup {None}],
         links' \in [Link -> [dialled : BOOLEAN, alive : BOOLEAN, relay : Relay]],
         \A l \in Link : /\ links'[l].dialled = links[l].dialled
                         /\ links'[l].relay = links[l].relay
                         /\ ~links'[l].alive,
         UNCHANGED <<row, mem, config, call, up, down, table, current, mute>>
  PROVE  IInv'
<1> USE DEF IInv
<1>1. /\ node' \in [pc : {"idle", "queued", "refresh", "dial", "hello", "confirm", "serving", "over"},
                    link : 0..MaxLink, want : Settings]
      /\ node'.pc = pc
  BY NodeMoved
<1>2. TypeOK'
  BY <1>1, SettingsAssumption DEF TypeOK
<1>3. RowSound'
  BY <1>1, RowKept DEF Dialling, Wipes
<1>4. LinkSound'
  BY <1>1 DEF LinkSound, Linked
<1>5. HelloSound'
  BY HelloKept
<1>6. KeySound'
  BY KeyKept DEF Early
<1>7. WireSound'
  BY <1>1 DEF WireSound, Linked
<1> QED  BY <1>2, <1>3, <1>4, <1>5, <1>6, <1>7

LEMMA NodeQueueStep ==
  ASSUME IInv, NodeQueue
  PROVE  IInv'
<1> USE DEF IInv
<1>0. /\ UNCHANGED <<row, mem, config, call, device, links, up, down, table, current, mute>>
      /\ node.pc = "idle" /\ TakesSlot(Node) /\ node' = [node EXCEPT !.pc = "queued"]
  BY DEF NodeQueue
<1>1. node'.pc = "queued"
  BY <1>0, NodeMoved
<1>2. /\ gate' \in [slots : SUBSET User, writer : User \cup {None}]
      /\ gate'.slots = gate.slots \cup {Node} /\ gate'.writer = gate.writer
      /\ IsFiniteSet(gate'.slots) /\ Cardinality(gate'.slots) <= Slots
  BY <1>0, SlotTaken DEF User
<1>3. \A c \in Call : c # Node
  BY SettingsAssumption
<1>4. GateSound'
  BY <1>0, <1>1, <1>2, <1>3 DEF GateSound, GateKept
<1>5. device = 0 /\ \A l \in Link : ~links[l].alive
  BY <1>0 DEF LinkSound, Linked
<1>6. links' \in [Link -> [dialled : BOOLEAN, alive : BOOLEAN, relay : Relay]]
  BY <1>0 DEF TypeOK
<1> QED  BY <1>0, <1>2, <1>4, <1>5, <1>6, NodeAside

(* A connection attempt fails before it has a link. *)
LEMMA NodeFailsStep ==
  ASSUME IInv, node.pc \in {"queued", "refresh", "dial"}, NodeFails,
         UNCHANGED <<row, mem, config, call, device, links, up, down, table, current, mute>>
  PROVE  IInv'
<1> USE DEF IInv
<1>0. gate' = Released(Node) /\ node' = [node EXCEPT !.pc = "idle"]
  BY DEF NodeFails
<1>1. node'.pc = "idle"
  BY <1>0, NodeMoved
<1>2. gate' \in [slots : SUBSET User, writer : User \cup {None}]
  BY <1>0, SlotGiven DEF User
<1>3. GateSound'
  BY <1>0, <1>1, NodeLeft
<1>4. device = 0 /\ \A l \in Link : ~links[l].alive
  BY DEF LinkSound, Linked
<1>5. links' \in [Link -> [dialled : BOOLEAN, alive : BOOLEAN, relay : Relay]]
  BY DEF TypeOK
<1> QED  BY <1>0, <1>2, <1>3, <1>4, <1>5, NodeAside

LEMMA NodeAcquireStep ==
  ASSUME IInv, NodeAcquire
  PROVE  IInv'
<1> USE DEF IInv
<1>0. /\ UNCHANGED <<row, mem, config, call, device, links, up, down, table, current, mute>>
      /\ node.pc = "queued"
  BY DEF NodeAcquire
<1>1. CASE NodeFails
  BY <1>0, <1>1, NodeFailsStep
<1>2. CASE TakesWriter(Node) /\ node' = [node EXCEPT !.pc = "refresh"]
  <2>1. node'.pc = "refresh"
    BY <1>2, NodeMoved
  <2>2. /\ gate' \in [slots : SUBSET User, writer : User \cup {None}]
        /\ gate'.slots = gate.slots /\ gate'.writer = Node /\ gate.writer = None
    BY <1>2 DEF TakesWriter, TypeOK, User
  <2>3. Node # None /\ \A c \in Call : c # Node /\ c # None
    BY SettingsAssumption
  <2>4. Node \in gate.slots
    BY <1>0 DEF GateSound
  <2>5. GateSound'
    BY <1>0, <2>1, <2>2, <2>3, <2>4 DEF GateSound, GateKept
  <2>6. device = 0 /\ \A l \in Link : ~links[l].alive
    BY <1>0 DEF LinkSound, Linked
  <2>7. links' \in [Link -> [dialled : BOOLEAN, alive : BOOLEAN, relay : Relay]]
    BY <1>0 DEF TypeOK
  <2> QED  BY <1>0, <1>2, <2>2, <2>5, <2>6, <2>7, NodeAside
<1> QED  BY <1>1, <1>2 DEF NodeAcquire

LEMMA RefreshStep ==
  ASSUME IInv, Refresh
  PROVE  IInv'
<1> USE DEF IInv
<1>0. /\ UNCHANGED <<row, config, call, device, links, up, down, table, current, mute>>
      /\ node.pc = "refresh"
  BY DEF Refresh
<1>1. CASE NodeFails /\ UNCHANGED mem
  BY <1>0, <1>1, NodeFailsStep
<1>2. CASE /\ row.active /\ mem' = row /\ UNCHANGED gate
           /\ node' = [node EXCEPT !.pc = "dial",
                !.want = [grant |-> row.grant, inbound |-> row.inbound /\ row.grant # 0]]
  <2>1. row \in Record
    BY DEF TypeOK
  <2>2. PICK b \in BOOLEAN : b = (row.inbound /\ row.grant # 0)
    BY Zenon
  <2>3. b = row.inbound
    BY <2>1, <2>2 DEF RowSound, Record
  <2>4. PICK w : w = [grant |-> row.grant, inbound |-> b]
    OBVIOUS
  <2>5. w \in Settings /\ w = Held(row)
    BY <2>1, <2>2, <2>3, <2>4 DEF Settings, Record, Held
  <2>6. node' = [node EXCEPT !.pc = "dial", !.want = w]
    BY <1>2, <2>2, <2>4, Zenon
  <2>7. /\ node' \in [pc : {"idle", "queued", "refresh", "dial", "hello", "confirm", "serving", "over"},
                      link : 0..MaxLink, want : Settings]
        /\ node'.pc = "dial" /\ node'.want = w
    BY <2>5, <2>6 DEF TypeOK
  <2>8. TypeOK'
    BY <1>0, <1>2, <2>1, <2>7 DEF TypeOK
  <2>9. GateSound'
    BY <1>0, <1>2, <2>7, NodeHeld
  <2>10. device = 0 /\ \A l \in Link : ~links[l].alive
    BY <1>0 DEF LinkSound, Linked
  <2>11. \A c \in Call : call[c].pc \notin {"saving", "sending", "waiting", "replying", "stalled"}
    BY <1>0, NodeWorks
  <2>12. RowSound'
    BY <1>0, <1>2, <2>5, <2>7, <2>10, <2>11 DEF RowSound, Saved, Held
  <2>13. LinkSound'
    BY <1>0, <2>7, <2>10 DEF LinkSound, Linked
  <2>14. HelloSound'
    BY <1>0, HelloKept
  <2>15. KeySound'
    BY <1>0, KeyKept DEF Early
  <2>16. WireSound'
    BY <2>7 DEF WireSound, Linked
  <2> QED  BY <2>8, <2>9, <2>12, <2>13, <2>14, <2>15, <2>16
<1> QED  BY <1>1, <1>2 DEF Refresh

LEMMA Dialled ==
  ASSUME IInv, node.pc = "dial", NEW l \in Link, ~links[l].dialled,
         links' = [links EXCEPT ![l] = [dialled |-> TRUE, alive |-> TRUE, relay |-> config]],
         Send(l, [type |-> "hello", key |-> Node, want |-> Unset]),
         node' = [node EXCEPT !.pc = "hello", !.link = l],
         UNCHANGED <<gate, row, mem, config, call, device, down, table, current, mute>>
  PROVE  IInv'
<1> USE DEF IInv
<1>1. PICK f : f = [type |-> "hello", key |-> Node, want |-> Unset]
  OBVIOUS
<1>2. f \in Frame /\ f.type = "hello" /\ f.key = Node
  <2>1. 0 \in Grants
    BY FS_CardinalityType, SettingsAssumption DEF Grants
  <2> QED  BY <1>1, <2>1 DEF Frame, Settings, Unset, User
<1>3. up[l] = <<>> /\ down[l] = <<>>
  BY DEF HelloSound
<1>4. Send(l, f)
  BY <1>1
<1>5. /\ up' \in [Link -> Seq(Frame)] /\ up'[l] = Append(up[l], f)
      /\ \A k \in Link : k # l => up'[k] = up[k]
      /\ Len(up'[l]) = Len(up[l]) + 1 /\ up'[l][Len(up[l]) + 1] = f
  BY <1>2, <1>4, Sent
<1>6. Len(up'[l]) = 1 /\ up'[l][1] = f
  BY <1>3, <1>5
<1>7. /\ node' \in [pc : {"idle", "queued", "refresh", "dial", "hello", "confirm", "serving", "over"},
                    link : 0..MaxLink, want : Settings]
      /\ node'.pc = "hello" /\ node'.link = l /\ node'.want = node.want
  <2>1. l \in 0..MaxLink
    BY SettingsAssumption DEF Link
  <2>2. node' = [[node EXCEPT !.pc = "hello"] EXCEPT !.link = l]
    OBVIOUS
  <2> QED  BY <2>1, <2>2 DEF TypeOK
<1>8. config \in Relay
  BY DEF TypeOK
<1>9. /\ links' \in [Link -> [dialled : BOOLEAN, alive : BOOLEAN, relay : Relay]]
      /\ links'[l].dialled /\ links'[l].alive
      /\ \A k \in Link : k # l => links'[k] = links[k]
  BY <1>8 DEF TypeOK
<1>10. device = 0 /\ (\A k \in Link : ~links[k].alive) /\ l # 0
  BY DEF LinkSound, Linked, Link
<1>11. \A c \in Call : call[c].pc \notin {"saving", "sending", "waiting", "replying", "stalled"}
  BY NodeWorks
<1>12. TypeOK'
  BY <1>5, <1>7, <1>9 DEF TypeOK
<1>13. GateSound'
  BY <1>7, NodeHeld
<1>14. RowSound'
  BY <1>7, <1>10, <1>11 DEF RowSound, Saved, Dialling
<1>15. LinkSound'
  BY <1>7, <1>9, <1>10, <1>11 DEF LinkSound, Linked
<1>16. HelloSound'
  <2>1. ASSUME NEW k \in Link, HelloIn(k)'
        PROVE  Greeting(k)'
    <3>1. CASE k = l
      BY <1>2, <1>6, <3>1 DEF Greeting
    <3>2. CASE k # l
      BY <1>5, <2>1, <3>2 DEF HelloSound, HelloIn, Greeting
    <3> QED  BY <3>1, <3>2
  <2>2. ASSUME NEW k \in Link
        PROVE  links'[k].dialled \/ (up'[k] = <<>> /\ down'[k] = <<>>)
    BY <1>5, <1>9 DEF HelloSound
  <2>3. ASSUME NEW r \in Relay, current[r] # 0
        PROVE  /\ links'[current[r]].dialled /\ links'[current[r]].relay = r
               /\ ~ HelloIn(current[r])'
    <3>1. current[r] \in Link /\ current[r] # l
      BY <2>3, SettingsAssumption DEF TypeOK, Link, HelloSound
    <3>2. ~ HelloIn(current[r])'
      BY <1>5, <2>3, <3>1 DEF HelloSound, HelloIn
    <3> QED  BY <1>9, <2>3, <3>1, <3>2 DEF HelloSound
  <2> QED  BY <2>1, <2>2, <2>3 DEF HelloSound
<1>17. KeySound'
  <2>1. \A c \in Call : c # Node
    BY SettingsAssumption
  <2> QED  BY <1>2, <1>4, <2>1, KeySent DEF Early
<1>18. WireSound'
  <2>1. HelloPhase(l)'
    BY <1>2, <1>3, <1>6 DEF HelloPhase, Greeting
  <2> QED  BY <1>7, <2>1 DEF WireSound
<1> QED  BY <1>12, <1>13, <1>14, <1>15, <1>16, <1>17, <1>18

LEMMA DialStep ==
  ASSUME IInv, Dial
  PROVE  IInv'
<1>0. /\ UNCHANGED <<row, mem, config, call, device, down, table, current, mute>>
      /\ node.pc = "dial"
  BY DEF Dial
<1>1. CASE NodeFails /\ UNCHANGED <<links, up>>
  BY <1>0, <1>1, NodeFailsStep
<1>2. ASSUME NEW l \in Link \ Used,
             links' = [links EXCEPT ![l] = [dialled |-> TRUE, alive |-> TRUE, relay |-> config]],
             Send(l, [type |-> "hello", key |-> Node, want |-> Unset]),
             node' = [node EXCEPT !.pc = "hello", !.link = l], gate' = gate
      PROVE  IInv'
  <2>1. l \in Link /\ ~links[l].dialled
    BY DEF Used
  <2> QED  BY <1>0, <1>2, <2>1, Dialled
<1> QED  BY <1>1, <1>2 DEF Dial

(* The oldest answer on l is taken. *)
LEMMA Taken ==
  ASSUME TypeOK, NEW l \in Link, down[l] # <<>>, down' = [down EXCEPT ![l] = Tail(@)]
  PROVE  /\ down' \in [Link -> Seq(Answer)] /\ \A k \in Link : k # l => down'[k] = down[k]
         /\ Len(down'[l]) = Len(down[l]) - 1 /\ Len(down[l]) \in Nat \ {0}
         /\ Head(down[l]) = down[l][1] /\ down[l][1] \in Answer
         /\ \A i \in 1..Len(down'[l]) : down'[l][i] = down[l][i + 1] /\ i + 1 \in 1..Len(down[l])
<1>1. down[l] \in Seq(Answer)
  BY DEF TypeOK
<1>2. PICK s : s = Tail(down[l])
  OBVIOUS
<1>3. /\ s \in Seq(Answer) /\ Len(s) = Len(down[l]) - 1 /\ Len(down[l]) \in Nat \ {0}
      /\ Head(down[l]) = down[l][1] /\ down[l][1] \in Answer
      /\ \A i \in 1..Len(s) : s[i] = down[l][i + 1] /\ i + 1 \in 1..Len(down[l])
  BY <1>1, <1>2, TailOf
<1>4. down' = [down EXCEPT ![l] = s]
  BY <1>2
<1>5. down' \in [Link -> Seq(Answer)] /\ down'[l] = s /\ \A k \in Link : k # l => down'[k] = down[k]
  BY <1>3, <1>4 DEF TypeOK
<1> QED  BY <1>3, <1>5

(* The names on the answers that are left are those that were there. *)
LEMMA KeyTaken ==
  ASSUME TypeOK, KeySound, NEW l \in Link, down[l] # <<>>, down' = [down EXCEPT ![l] = Tail(@)],
         up' = up, \A c \in Call : Early(c)' => Early(c)
  PROVE  KeySound'
<1>1. /\ \A k \in Link : k # l => down'[k] = down[k]
      /\ \A i \in 1..Len(down'[l]) : down'[l][i] = down[l][i + 1] /\ i + 1 \in 1..Len(down[l])
  BY Taken
<1>2. ASSUME NEW c \in Call, Early(c), NEW k \in Link, NEW i \in 1..Len(down'[k])
      PROVE  down'[k][i].key # c
  <2>1. CASE k = l
    BY <1>1, <1>2, <2>1 DEF KeySound
  <2>2. CASE k # l
    BY <1>1, <1>2, <2>2 DEF KeySound
  <2> QED  BY <2>1, <2>2
<1> QED  BY <1>2 DEF KeySound

LEMMA GreetedStep ==
  ASSUME IInv, Greeted
  PROVE  IInv'
<1> USE DEF IInv
<1>0. PICK l : l = node.link
  OBVIOUS
<1>1. /\ UNCHANGED <<gate, row, mem, config, call, device, links, table, current, mute>>
      /\ node.pc = "hello" /\ links[l].alive /\ down[l] # <<>>
      /\ down' = [down EXCEPT ![l] = Tail(@)]
      /\ Send(l, [type |-> "settings", key |-> Node, want |-> node.want])
      /\ node' = [node EXCEPT !.pc = "confirm"]
  BY <1>0 DEF Greeted
<1>2. l \in Link /\ Linked
  BY <1>0, <1>1, Places DEF Linked
<1>3. PICK f : f = [type |-> "settings", key |-> Node, want |-> node.want]
  OBVIOUS
<1>4. f \in Frame /\ f.type = "settings" /\ f.key = Node /\ f.want = node.want
  BY <1>3 DEF TypeOK, Frame, User
<1>5. Send(l, f)
  BY <1>1, <1>3
<1>6. HelloPhase(l)
  BY <1>0, <1>1, <1>2 DEF WireSound
<1>7. up[l] = <<>> /\ Len(down[l]) = 1 /\ Alone(l)
  BY <1>1, <1>6 DEF HelloPhase
<1>8. /\ up' \in [Link -> Seq(Frame)]
      /\ \A k \in Link : k # l => up'[k] = up[k]
      /\ Len(up'[l]) = 1 /\ up'[l][1] = f
  <2>1. /\ up' \in [Link -> Seq(Frame)]
        /\ \A k \in Link : k # l => up'[k] = up[k]
        /\ Len(up'[l]) = Len(up[l]) + 1 /\ up'[l][Len(up[l]) + 1] = f
    BY <1>2, <1>4, <1>5, Sent
  <2> QED  BY <1>7, <2>1
<1>9. /\ down' \in [Link -> Seq(Answer)] /\ \A k \in Link : k # l => down'[k] = down[k]
      /\ Len(down'[l]) = 0 /\ down'[l] = <<>>
  <2>1. /\ down' \in [Link -> Seq(Answer)] /\ \A k \in Link : k # l => down'[k] = down[k]
        /\ Len(down'[l]) = Len(down[l]) - 1
    BY <1>1, <1>2, Taken
  <2> QED  BY <1>2, <1>7, <2>1
<1>10. /\ node' \in [pc : {"idle", "queued", "refresh", "dial", "hello", "confirm", "serving", "over"},
                     link : 0..MaxLink, want : Settings]
       /\ node'.pc = "confirm" /\ node'.link = l /\ node'.want = node.want
  BY <1>0, <1>1, NodeMoved
<1>11. links[l].dialled
  BY <1>1, <1>2 DEF LinkSound
<1>12. TypeOK'
  BY <1>1, <1>8, <1>9, <1>10 DEF TypeOK
<1>13. GateSound'
  BY <1>1, <1>10, NodeHeld
<1>14. RowSound'
  BY <1>1, <1>10, RowKept DEF Dialling, Wipes
<1>15. LinkSound'
  BY <1>0, <1>1, <1>10 DEF LinkSound, Linked
<1>16. HelloSound'
  <2>1. ~ HelloIn(l)'
    BY <1>4, <1>8 DEF HelloIn
  <2> QED  BY <1>1, <1>8, <1>9, <1>11, <2>1, HelloKept
<1>17. KeySound'
  <2>1. ASSUME NEW c \in Call, Early(c), NEW k \in Link
        PROVE  /\ \A i \in 1..Len(up'[k]) : up'[k][i].key # c
               /\ \A i \in 1..Len(down'[k]) : down'[k][i].key # c
    <3>1. c # Node
      BY SettingsAssumption
    <3>2. CASE k = l
      <4>1. \A i \in 1..Len(up'[l]) : i = 1
        BY <1>8
      <4>2. \A i \in 1..Len(up'[l]) : up'[l][i].key # c
        BY <1>4, <1>8, <3>1, <4>1
      <4>3. \A i \in 1..Len(down'[l]) : FALSE
        BY <1>9
      <4> QED  BY <3>2, <4>2, <4>3
    <3>3. CASE k # l
      BY <1>8, <1>9, <2>1, <3>3 DEF KeySound
    <3> QED  BY <3>2, <3>3
  <2> QED  BY <1>1, <2>1 DEF KeySound, Early
<1>18. WireSound'
  <2>1. Alone(l)'
    BY <1>1, <1>7, <1>8 DEF Alone
  <2>2. ConfirmPhase(l)'
    BY <1>4, <1>8, <1>9, <1>10, <2>1 DEF ConfirmPhase
  <2> QED  BY <1>10, <2>2 DEF WireSound
<1> QED  BY <1>12, <1>13, <1>14, <1>15, <1>16, <1>17, <1>18

LEMMA PublishStep ==
  ASSUME IInv, Publish
  PROVE  IInv'
<1> USE DEF IInv
<1>0. PICK l : l = node.link
  OBVIOUS
<1>1. /\ UNCHANGED <<row, mem, config, call, links, up, table, current>>
      /\ node.pc = "confirm" /\ links[l].alive /\ down[l] # <<>>
      /\ Head(down[l]).key = Node /\ Head(down[l]).code = ""
      /\ down' = [down EXCEPT ![l] = Tail(@)]
      /\ device' = l /\ mute' = FALSE
      /\ node' = [node EXCEPT !.pc = "serving"] /\ gate' = Released(Node)
  BY <1>0 DEF Publish
<1>2. l \in Link /\ Linked
  BY <1>0, <1>1, Places DEF Linked
<1>3. ConfirmPhase(l)
  BY <1>0, <1>1, <1>2 DEF WireSound
<1>4. /\ down' \in [Link -> Seq(Answer)] /\ \A k \in Link : k # l => down'[k] = down[k]
      /\ Len(down'[l]) = Len(down[l]) - 1 /\ Len(down[l]) \in Nat \ {0}
      /\ Head(down[l]) = down[l][1]
  BY <1>1, <1>2, Taken
<1>5. up[l] = <<>> /\ Len(down'[l]) = 0 /\ Has(l, node.want)
  <2>1. down[l] # <<>> /\ down[l][1].code = ""
    BY <1>1, <1>4
  <2>2. up[l] = <<>> /\ Len(down[l]) <= 1
        /\ \A i \in 1..Len(down[l]) : down[l][i].code = "" => Has(l, node.want)
    BY <1>3, <2>1 DEF ConfirmPhase
  <2>3. Len(down[l]) \in Nat \ {0} /\ Len(down'[l]) = Len(down[l]) - 1
    BY <1>4
  <2>4. Len(down[l]) = 1 /\ Len(down'[l]) = 0
    <3>1. PICK n : n = Len(down[l])
      OBVIOUS
    <3>2. n \in Nat \ {0} /\ n <= 1
      BY <2>2, <2>3, <3>1
    <3>3. n = 1
      BY <3>2
    <3> QED  BY <2>3, <3>1, <3>3
  <2>5. 1 \in 1..Len(down[l])
    BY <2>4
  <2> QED  BY <2>1, <2>2, <2>4, <2>5
<1>6. /\ node' \in [pc : {"idle", "queued", "refresh", "dial", "hello", "confirm", "serving", "over"},
                     link : 0..MaxLink, want : Settings]
      /\ node'.pc = "serving" /\ node'.link = l /\ node'.want = node.want
  BY <1>0, <1>1, NodeMoved
<1>7. \A c \in Call : call[c].pc \notin {"saving", "sending", "waiting", "replying", "stalled"}
  BY <1>1, NodeWorks
<1>8. Held(mem) = node.want /\ mem.active
  BY <1>1 DEF RowSound, Saved, Dialling
<1>9. gate' \in [slots : SUBSET User, writer : User \cup {None}]
  BY <1>1, SlotGiven DEF User
<1>10. device' \in 0..MaxLink /\ l # 0
  <2>1. l \in 0..MaxLink /\ l # 0
    BY <1>2, SettingsAssumption DEF Link
  <2> QED  BY <1>1, <2>1
<1>11. TypeOK'
  BY <1>1, <1>4, <1>6, <1>9, <1>10 DEF TypeOK
<1>12. GateSound'
  BY <1>1, <1>6, NodeLeft
<1>13. RowSound'
  BY <1>1, <1>6, <1>7, <1>8 DEF RowSound, Dialling
<1>14. LinkSound'
  BY <1>0, <1>1, <1>6, <1>7, <1>10 DEF LinkSound, Linked
<1>15. links[l].dialled
  BY <1>1, <1>2 DEF LinkSound
<1>16. HelloSound'
  BY <1>1, <1>4, <1>15, HelloKept
<1>17. KeySound'
  BY <1>1, <1>2, KeyTaken DEF Early
<1>18. WireSound'
  <2>1. Alone(l)'
    BY <1>1, <1>3 DEF ConfirmPhase, Alone
  <2>4. Said(l)'
    <3>1. up' = up /\ Len(up[l]) = 0
      BY <1>1, <1>5
    <3> QED  BY <3>1 DEF Said
  <2>2. Answered(l)'
    BY <1>1, <1>7 DEF Answered, Waits
  <2>3. Agrees(l)'
    BY <1>1, <1>5, <1>8 DEF Agrees, Has
  <2> QED  BY <1>6, <2>1, <2>2, <2>3, <2>4 DEF WireSound, ServingPhase
<1> QED  BY <1>11, <1>12, <1>13, <1>14, <1>16, <1>17, <1>18

LEMMA HandshakeFailsStep ==
  ASSUME IInv, HandshakeFails
  PROVE  IInv'
<1> USE DEF IInv
<1>0. /\ UNCHANGED <<row, mem, config, call, device, up, down, table, current, mute>>
      /\ node.pc \in {"hello", "confirm"} /\ links' = Closed(node.link)
      /\ gate' = Released(Node) /\ node' = [node EXCEPT !.pc = "idle"]
  BY DEF HandshakeFails, NodeFails
<1>1. node.link \in Link
  BY <1>0, Places DEF Linked
<1>2. node'.pc = "idle"
  BY <1>0, NodeMoved
<1>3. gate' \in [slots : SUBSET User, writer : User \cup {None}]
  BY <1>0, SlotGiven DEF User
<1>4. GateSound'
  BY <1>0, <1>2, NodeLeft
<1>5. /\ links' \in [Link -> [dialled : BOOLEAN, alive : BOOLEAN, relay : Relay]]
      /\ \A k \in Link : /\ links'[k].dialled = links[k].dialled
                         /\ links'[k].relay = links[k].relay
                         /\ k # node.link => links'[k] = links[k]
      /\ ~links'[node.link].alive
  BY <1>0, <1>1, Shut
<1>6. device = 0 /\ \A l \in Link : ~links'[l].alive
  BY <1>0, <1>5 DEF LinkSound
<1> QED  BY <1>0, <1>3, <1>4, <1>5, <1>6, NodeAside

LEMMA DisconnectedStep ==
  ASSUME IInv, Disconnected
  PROVE  IInv'
<1> USE DEF IInv
<1>0. /\ UNCHANGED <<gate, row, mem, config, call, links, up, down, table, current, mute>>
      /\ node.pc = "serving" /\ ~links[node.link].alive
      /\ device' = 0 /\ node' = [node EXCEPT !.pc = "idle"]
  BY DEF Disconnected
<1>1. node'.pc = "idle"
  BY <1>0, NodeMoved
<1>2. GateSound'
  BY <1>0, <1>1, NodeHeld
<1>3. /\ links \in [Link -> [dialled : BOOLEAN, alive : BOOLEAN, relay : Relay]]
      /\ gate \in [slots : SUBSET User, writer : User \cup {None}]
  BY DEF TypeOK
<1>4. \A l \in Link : ~links[l].alive
  BY <1>0 DEF LinkSound
<1> QED  BY <1>0, <1>2, <1>3, <1>4, NodeAside

LEMMA FirstIndex ==
  ASSUME NEW n \in Nat \ {0}
  PROVE  1 \in 1..n
OBVIOUS

LEMMA LastIndex ==
  ASSUME NEW n \in Nat, NEW i \in 1..(n + 1)
  PROVE  i \in 1..n \/ i = n + 1
OBVIOUS

LEMMA NothingSaid ==
  ASSUME NEW l, up'[l] = <<>>
  PROVE  Said(l)'
BY DEF Said

(* An answer reaches the call that waits for it: the call ends. *)
LEMMA Heard ==
  ASSUME IInv, NEW c \in Call, NEW reply \in {"ok", "unknown"}, Waits(c, device),
         node.pc = "serving", device # 0, links[device].alive, down[device] # <<>>,
         Head(down[device]).key = c, down' = [down EXCEPT ![device] = Tail(@)],
         Returns(c, reply),
         \/ links' = links /\ Head(down[device]).code = ""
         \/ links' = Closed(device),
         UNCHANGED <<row, mem, config, node, device, up, table, current, mute>>
  PROVE  IInv'
<1> USE DEF IInv
<1>0. PICK l \in Link : l = device
  BY ServedLink
<1>1. node.link = l /\ ServingPhase(l) /\ links[l].dialled /\ Linked
  BY <1>0, ServedLink DEF Linked
<1>2. /\ call' \in [Call -> CallRecord]
      /\ \A d \in Call : d # c => call'[d] = call[d]
      /\ call'[c].pc = "done" /\ call'[c].reply = reply
      /\ gate' = Released(c)
  BY Returned
<1>3. call[c].pc = "waiting"
  BY DEF Waits
<1>4. /\ \A d \in Call : d # c => call[d].pc \notin {"saving", "sending", "waiting", "replying", "stalled"}
  BY <1>3, Worker
<1>5. \A d \in Call : /\ call'[d].pc \notin {"sending", "waiting"} /\ (Early(d)' => Early(d))
                      /\ ~ Wipes(d)
  BY <1>2, <1>3, <1>4 DEF Early, Wipes
<1>6. /\ down' \in [Link -> Seq(Answer)] /\ \A k \in Link : k # l => down'[k] = down[k]
      /\ Len(down[l]) \in Nat \ {0} /\ Head(down[l]) = down[l][1]
  BY <1>0, Taken
<1>7. /\ links' \in [Link -> [dialled : BOOLEAN, alive : BOOLEAN, relay : Relay]]
      /\ \A k \in Link : /\ links'[k].dialled = links[k].dialled
                         /\ links'[k].relay = links[k].relay
                         /\ links'[k].alive => links[k].alive
      /\ (links' = links /\ Head(down[l]).code = "") \/ ~links'[l].alive
  <2>1. CASE links' = links /\ Head(down[device]).code = ""
    BY <1>0, <2>1 DEF TypeOK
  <2>2. CASE links' = Closed(l)
    <3>1. /\ links' \in [Link -> [dialled : BOOLEAN, alive : BOOLEAN, relay : Relay]]
          /\ \A k \in Link : /\ links'[k].dialled = links[k].dialled
                             /\ links'[k].relay = links[k].relay
                             /\ k # l => links'[k] = links[k]
          /\ ~links'[l].alive
      BY <2>2, Shut
    <3> QED  BY <3>1
  <2> QED  BY <1>0, <2>1, <2>2
<1>8. gate' \in [slots : SUBSET User, writer : User \cup {None}]
  BY <1>2, SlotGiven DEF User
<1>9. TypeOK'
  BY <1>2, <1>6, <1>7, <1>8 DEF TypeOK
<1>10. GateSound'
  BY <1>2, <1>3, GateLeft
<1>11. RowSound'
  BY <1>5, <1>7, RowKept DEF Dialling, Wipes
<1>12. LinkSound'
  BY <1>5, <1>7, LinkKept
<1>13. HelloSound'
  BY <1>1, <1>6, <1>7, HelloKept
<1>14. KeySound'
  BY <1>0, <1>5, KeyTaken
<1>15. WireSound'
  <2>1. CASE ~links'[l].alive
    BY <1>1, <2>1 DEF WireSound
  <2>2. CASE links' = links /\ Head(down[l]).code = ""
    <3>0. 1 \in 1..Len(down[l])
      BY <1>6, FirstIndex
    <3>1. 1 \in 1..Len(down[l]) /\ down[l][1].key = c /\ down[l][1].code = ""
      BY <1>0, <1>6, <2>2, <3>0
    <3>2. up[l] = <<>> /\ Has(l, call[c].want)
      BY <1>0, <1>1, <3>1 DEF ServingPhase, Answered
    <3>3. Held(mem) = call[c].want
      BY <1>3 DEF RowSound, Saved
    <3>4. Alone(l)' /\ Said(l)'
      <4>1. Alone(l)'
        BY <1>1, <2>2 DEF ServingPhase, Alone
      <4> QED  BY <3>2, <4>1, NothingSaid
    <3>5. Answered(l)'
      BY <1>5 DEF Answered, Waits
    <3>6. Has(l, Held(mem))'
      BY <2>2, <3>2, <3>3 DEF Has
    <3>7. ServingPhase(l)'
      BY <3>4, <3>5, <3>6 DEF ServingPhase, Agrees
    <3> QED  BY <1>1, <3>7 DEF WireSound
  <2> QED  BY <1>7, <2>1, <2>2
<1> QED  BY <1>9, <1>10, <1>11, <1>12, <1>13, <1>14, <1>15

LEMMA DeliverStep ==
  ASSUME IInv, Deliver
  PROVE  IInv'
<1> USE DEF IInv
<1>0. /\ UNCHANGED <<row, mem, config, node, device, up, table, current, mute>>
      /\ node.pc = "serving" /\ device # 0 /\ links[device].alive /\ down[device] # <<>>
      /\ down' = [down EXCEPT ![device] = Tail(@)]
  BY DEF Deliver
<1>1. PICK result : result = Head(down[device])
  OBVIOUS
<1>2. CASE result.key \in Call /\ Waits(result.key, device)
  <2>1. \/ Returns(result.key, "ok") /\ UNCHANGED links /\ result.code = ""
        \/ Returns(result.key, "unknown") /\ links' = Closed(device)
    BY <1>1, <1>2 DEF Deliver, Waits
  <2> QED  BY <1>0, <1>1, <1>2, <2>1, Heard
<1>3. CASE ~(result.key \in Call /\ Waits(result.key, device))
  <2>1. UNCHANGED <<call, gate, links>>
    BY <1>1, <1>3 DEF Deliver, Waits
  <2>2. PICK l \in Link : l = device
    BY <1>0, ServedLink
  <2>3. node.link = l /\ ServingPhase(l) /\ links[l].dialled
    BY <1>0, <2>2, ServedLink
  <2>4. /\ down' \in [Link -> Seq(Answer)] /\ \A k \in Link : k # l => down'[k] = down[k]
        /\ \A i \in 1..Len(down'[l]) : down'[l][i] = down[l][i + 1] /\ i + 1 \in 1..Len(down[l])
    BY <1>0, <2>2, Taken
  <2>5. TypeOK'
    BY <1>0, <2>1, <2>4 DEF TypeOK
  <2>6. GateSound'
    BY <1>0, <2>1 DEF GateSound, GateKept
  <2>7. RowSound'
    BY <1>0, <2>1, RowKept DEF Dialling, Wipes
  <2>8. LinkSound'
    BY <1>0, <2>1, LinkKept
  <2>9. HelloSound'
    BY <1>0, <2>1, <2>3, <2>4, HelloKept
  <2>10. KeySound'
    BY <1>0, <2>1, <2>2, KeyTaken DEF Early
  <2>11. WireSound'
    <3>1. Alone(l)' /\ Said(l)' /\ Agrees(l)'
      BY <1>0, <2>1, <2>3 DEF ServingPhase, Alone, Said, Agrees, Waits, Idle, Has
    <3>2. ASSUME NEW c \in Call, Waits(c, l), NEW i \in 1..Len(down'[l]), down'[l][i].key = c
          PROVE  up[l] = <<>> /\ (down'[l][i].code = "" => Has(l, call[c].want))
      <4>1. i + 1 \in 1..Len(down[l]) /\ down[l][i + 1] = down'[l][i]
        BY <2>4
      <4> QED  BY <2>3, <3>2, <4>1 DEF ServingPhase, Answered
    <3>3. Answered(l)'
      BY <1>0, <2>1, <3>2 DEF Answered, Waits, Has
    <3> QED  BY <1>0, <2>3, <3>1, <3>3 DEF WireSound, ServingPhase
  <2> QED  BY <2>5, <2>6, <2>7, <2>8, <2>9, <2>10, <2>11
<1> QED  BY <1>2, <1>3

LEMMA LinkFailsStep ==
  ASSUME IInv, NEW l \in Link, LinkFails(l)
  PROVE  IInv'
<1> USE DEF IInv
<1>0. /\ UNCHANGED <<gate, row, mem, config, call, node, device, up, down, table, current, mute>>
      /\ links' = Closed(l)
  BY DEF LinkFails
<1>1. /\ links' \in [Link -> [dialled : BOOLEAN, alive : BOOLEAN, relay : Relay]]
      /\ \A k \in Link : /\ links'[k].dialled = links[k].dialled
                         /\ links'[k].relay = links[k].relay
                         /\ k # l => links'[k] = links[k]
      /\ ~links'[l].alive
  BY <1>0, Shut
<1>2. \A k \in Link : links'[k].alive => links[k].alive
  BY <1>1
<1>3. TypeOK'
  BY <1>0, <1>1 DEF TypeOK
<1>4. GateSound'
  BY <1>0 DEF GateSound, GateKept
<1>5. RowSound'
  BY <1>0, <1>1, RowKept DEF Dialling, Wipes
<1>6. LinkSound'
  BY <1>0, <1>1, <1>2, LinkKept
<1>7. HelloSound'
  BY <1>0, <1>1, HelloKept
<1>8. KeySound'
  BY <1>0, KeyKept DEF Early
<1>9. WireSound'
  BY <1>0, <1>1, <1>2, WireKept
<1> QED  BY <1>3, <1>4, <1>5, <1>6, <1>7, <1>8, <1>9

LEMMA RelayDropsStep ==
  ASSUME IInv, NEW l \in Link, RelayDrops(l)
  PROVE  IInv'
<1> USE DEF IInv
<1>0. /\ UNCHANGED <<gate, row, mem, config, call, node, device, links, down, table, mute>>
      /\ ~links[l].alive /\ up' = [up EXCEPT ![l] = <<>>]
      /\ current' = [current EXCEPT ![links[l].relay] = IF @ = l THEN 0 ELSE @]
  BY DEF RelayDrops
<1>1. /\ up' \in [Link -> Seq(Frame)] /\ up'[l] = <<>>
      /\ \A k \in Link : k # l => up'[k] = up[k]
  BY <1>0 DEF TypeOK
<1>2. /\ current' \in [Relay -> 0..MaxLink]
      /\ \A r \in Relay : current'[r] \in {current[r], 0}
  <2>1. links[l].relay \in Relay /\ 0 \in 0..MaxLink
    BY SettingsAssumption DEF TypeOK
  <2> QED  BY <1>0, <2>1 DEF TypeOK
<1>3. TypeOK'
  BY <1>0, <1>1, <1>2 DEF TypeOK
<1>4. GateSound'
  BY <1>0 DEF GateSound, GateKept
<1>5. RowSound'
  BY <1>0, RowKept DEF Dialling, Wipes
<1>6. LinkSound'
  BY <1>0, LinkKept
<1>7. HelloSound'
  BY <1>0, <1>1, <1>2, HelloKept
<1>8. KeySound'
  BY <1>0, <1>1, KeyKept DEF Early
<1>9. WireSound'
  <2>1. CASE Linked /\ links[node.link].alive
    <3>1. node.link \in Link /\ node.link # l
      BY <1>0, <2>1, Places
    <3> QED  BY <1>0, <1>1, <1>2, <3>1, WireKept
  <2>2. CASE ~(Linked /\ links[node.link].alive)
    BY <1>0, <2>2 DEF WireSound, Linked
  <2> QED  BY <2>1, <2>2
<1> QED  BY <1>3, <1>4, <1>5, <1>6, <1>7, <1>8, <1>9

(***************************************************************************)
(* The steps of the Relay                                                  *)
(***************************************************************************)

Front(l) == up[l][1]
Where(l) == links[l].relay

(* The oldest frame on l goes to the Relay. *)
Fetched(l) ==
  /\ up' \in [Link -> Seq(Frame)] /\ \A k \in Link : k # l => up'[k] = up[k]
  /\ Len(up'[l]) = Len(up[l]) - 1 /\ Len(up[l]) \in Nat \ {0}
  /\ Front(l) \in Frame /\ Where(l) \in Relay
  /\ \A i \in 1..Len(up'[l]) : up'[l][i] = up[l][i + 1] /\ i + 1 \in 1..Len(up[l])

(* The Relay answers it. *)
Replied(l, code) ==
  /\ down' \in [Link -> Seq(Answer)] /\ \A k \in Link : k # l => down'[k] = down[k]
  /\ Len(down'[l]) = Len(down[l]) + 1 /\ Len(down[l]) \in Nat
  /\ down'[l][Len(down[l]) + 1].key = Front(l).key
  /\ down'[l][Len(down[l]) + 1].code = code
  /\ \A i \in 1..Len(down[l]) : down'[l][i] = down[l][i]

Hailed(l) ==
  /\ Front(l).type = "hello" /\ current'[Where(l)] = l
  /\ \A w : table[Where(l)] = Now(w) => table'[Where(l)] = Now(w)
  /\ Replied(l, "") /\ UNCHANGED links

Applied(l) ==
  /\ Front(l).type = "settings" /\ current[Where(l)] = l
  /\ table'[Where(l)] = Now(Front(l).want)
  /\ Replied(l, "") /\ UNCHANGED <<current, links>>

Refused(l) ==
  /\ Front(l).type = "settings" /\ current[Where(l)] = l
  /\ Replied(l, "agent_error") /\ UNCHANGED <<table, current, links>>

Cut(l) ==
  /\ Front(l).type # "hello" /\ current[Where(l)] = l
  /\ current'[Where(l)] = 0 /\ links' = Closed(l) /\ UNCHANGED down

Ignored(l) ==
  /\ Front(l).type # "hello" /\ current[Where(l)] # l
  /\ UNCHANGED <<table, current, links, down>>

LEMMA FetchedFrame ==
  ASSUME TypeOK, NEW l \in Link, up[l] # <<>>, up' = [up EXCEPT ![l] = Tail(@)]
  PROVE  Fetched(l) /\ Head(up[l]) = Front(l)
<1>1. up[l] \in Seq(Frame) /\ Where(l) \in Relay
  BY DEF TypeOK, Where
<1>2. PICK s : s = Tail(up[l])
  OBVIOUS
<1>3. /\ s \in Seq(Frame) /\ Len(s) = Len(up[l]) - 1 /\ Len(up[l]) \in Nat \ {0}
      /\ Head(up[l]) = up[l][1] /\ up[l][1] \in Frame
      /\ \A i \in 1..Len(s) : s[i] = up[l][i + 1] /\ i + 1 \in 1..Len(up[l])
  BY <1>1, <1>2, TailOf
<1>4. up' = [up EXCEPT ![l] = s]
  BY <1>2
<1>5. up' \in [Link -> Seq(Frame)] /\ up'[l] = s /\ \A k \in Link : k # l => up'[k] = up[k]
  BY <1>3, <1>4 DEF TypeOK
<1> QED  BY <1>1, <1>3, <1>5 DEF Fetched, Front

LEMMA Posted ==
  ASSUME TypeOK, NEW l \in Link, NEW a \in Answer,
         down' = [down EXCEPT ![l] = Append(@, a)]
  PROVE  /\ down' \in [Link -> Seq(Answer)] /\ \A k \in Link : k # l => down'[k] = down[k]
         /\ Len(down'[l]) = Len(down[l]) + 1 /\ Len(down[l]) \in Nat
         /\ down'[l][Len(down[l]) + 1] = a
         /\ \A i \in 1..Len(down[l]) : down'[l][i] = down[l][i]
<1>1. down[l] \in Seq(Answer) /\ down' = [down EXCEPT ![l] = Append(down[l], a)]
  BY DEF TypeOK
<1>2. PICK s : s = Append(down[l], a)
  OBVIOUS
<1>3. s \in Seq(Answer) /\ Len(s) = Len(down[l]) + 1 /\ s[Len(down[l]) + 1] = a
      /\ Len(down[l]) \in Nat /\ \A i \in 1..Len(down[l]) : s[i] = down[l][i]
  BY <1>1, <1>2
<1>4. down' = [down EXCEPT ![l] = s]
  BY <1>1, <1>2
<1>5. down' \in [Link -> Seq(Answer)] /\ down'[l] = s /\ \A k \in Link : k # l => down'[k] = down[k]
  BY <1>3, <1>4 DEF TypeOK
<1> QED  BY <1>3, <1>5

LEMMA AnswerAdded ==
  ASSUME TypeOK, NEW l \in Link, Front(l) \in Frame, NEW code \in {"", "agent_error"},
         down' = [down EXCEPT ![l] = Append(@, [key |-> Front(l).key, code |-> code])]
  PROVE  Replied(l, code)
<1>1. PICK a : a = [key |-> Front(l).key, code |-> code]
  OBVIOUS
<1>2. a \in Answer /\ a.key = Front(l).key /\ a.code = code
  BY <1>1 DEF Answer, Frame
<1>3. down' = [down EXCEPT ![l] = Append(@, a)]
  BY <1>1
<1> QED  BY <1>2, <1>3, Posted DEF Replied

LEMMA HandledCases ==
  ASSUME TypeOK, NEW l \in Link, RelayHandles(l)
  PROVE  /\ Fetched(l)
         /\ Hailed(l) \/ Applied(l) \/ Refused(l) \/ Cut(l) \/ Ignored(l)
         /\ table' \in [Relay -> [grant : Grants, inbound : BOOLEAN, known : BOOLEAN]]
         /\ current' \in [Relay -> 0..MaxLink]
         /\ \A q \in Relay : q # Where(l) => table'[q] = table[q] /\ current'[q] = current[q]
         /\ down' \in [Link -> Seq(Answer)] /\ \A k \in Link : k # l => down'[k] = down[k]
         /\ links' \in [Link -> [dialled : BOOLEAN, alive : BOOLEAN, relay : Relay]]
         /\ \A k \in Link : /\ links'[k].dialled = links[k].dialled
                            /\ links'[k].relay = links[k].relay
                            /\ links'[k].alive => links[k].alive /\ (Cut(l) => k # l)
         /\ UNCHANGED <<gate, row, mem, config, call, node, device, mute>>
<1> DEFINE Frees == [Relay -> [grant : Grants, inbound : BOOLEAN, known : BOOLEAN]]
<1>0. /\ UNCHANGED <<gate, row, mem, config, call, node, device, mute>>
      /\ up[l] # <<>> /\ up' = [up EXCEPT ![l] = Tail(@)]
  BY DEF RelayHandles
<1>1. Fetched(l) /\ Head(up[l]) = Front(l)
  BY <1>0, FetchedFrame
<1>2. PICK f \in Frame : f = Front(l)
  BY <1>1 DEF Fetched
<1>3. PICK r \in Relay : r = Where(l)
  BY <1>1 DEF Fetched
<1>4. PICK now : now = [grant |-> f.want.grant, inbound |-> f.want.inbound, known |-> TRUE]
  OBVIOUS
<1>5. /\ now \in [grant : Grants, inbound : BOOLEAN, known : BOOLEAN] /\ now = Now(f.want)
      /\ Unregistered \in [grant : Grants, inbound : BOOLEAN, known : BOOLEAN]
  <2>1. 0 \in Grants
    BY FS_CardinalityType, SettingsAssumption DEF Grants
  <2> QED  BY <1>4, <2>1 DEF Frame, Settings, Now, Unregistered
<1>6. /\ 0 \in 0..MaxLink /\ l \in 0..MaxLink /\ l # 0
  BY SettingsAssumption DEF Link
<1>7. ASSUME links' = Closed(l)
      PROVE  /\ links' \in [Link -> [dialled : BOOLEAN, alive : BOOLEAN, relay : Relay]]
             /\ \A k \in Link : /\ links'[k].dialled = links[k].dialled
                                /\ links'[k].relay = links[k].relay
                                /\ k # l => links'[k] = links[k]
             /\ ~links'[l].alive
  BY <1>7, Shut
<1>8. /\ table \in Frees /\ current \in [Relay -> 0..MaxLink]
      /\ links \in [Link -> [dialled : BOOLEAN, alive : BOOLEAN, relay : Relay]]
      /\ down \in [Link -> Seq(Answer)]
  BY DEF TypeOK
<1>9. CASE /\ f.type = "hello"
           /\ table' = [table EXCEPT ![r].known = TRUE]
           /\ current' = [current EXCEPT ![r] = l]
           /\ down' = [down EXCEPT ![l] = Append(@, [key |-> f.key, code |-> ""])]
           /\ UNCHANGED links
  <2>1. Replied(l, "")
    BY <1>2, <1>9, AnswerAdded
  <2>2. PICK t : t = [table[r] EXCEPT !.known = TRUE]
    OBVIOUS
  <2>3. t \in [grant : Grants, inbound : BOOLEAN, known : BOOLEAN]
    BY <1>8, <2>2
  <2>4. table' = [table EXCEPT ![r] = t]
    BY <1>9, <2>2
  <2>5. \A w : table[r] = Now(w) => t = Now(w)
    <3>1. t = [grant |-> t.grant, inbound |-> t.inbound, known |-> t.known]
      BY <2>3
    <3>2. t.grant = table[r].grant /\ t.inbound = table[r].inbound /\ t.known = TRUE
      BY <1>8, <2>2
    <3>3. \A w : table[r] = Now(w) => table[r].grant = w.grant /\ table[r].inbound = w.inbound
      BY DEF Now
    <3> QED  BY <3>1, <3>2, <3>3 DEF Now
  <2>6. table' \in Frees /\ table'[r] = t /\ \A q \in Relay : q # r => table'[q] = table[q]
    BY <1>8, <2>3, <2>4
  <2>7. /\ current' \in [Relay -> 0..MaxLink] /\ current'[r] = l
        /\ \A q \in Relay : q # r => current'[q] = current[q]
    BY <1>6, <1>8, <1>9
  <2>8. Hailed(l)
    BY <1>2, <1>3, <1>9, <2>1, <2>5, <2>6, <2>7 DEF Hailed
  <2>9. ~Cut(l)
    BY <1>2, <1>9 DEF Cut
  <2> QED  BY <1>0, <1>1, <1>3, <1>8, <1>9, <2>1, <2>6, <2>7, <2>8, <2>9 DEF Replied
<1>10. CASE /\ f.type = "settings" /\ current[r] = l
            /\ table' = [table EXCEPT ![r] = now]
            /\ down' = [down EXCEPT ![l] = Append(@, [key |-> f.key, code |-> ""])]
            /\ UNCHANGED <<current, links>>
  <2>1. Replied(l, "")
    BY <1>2, <1>10, AnswerAdded
  <2>2. table' \in Frees /\ table'[r] = now /\ \A q \in Relay : q # r => table'[q] = table[q]
    BY <1>5, <1>8, <1>10
  <2>3. Applied(l)
    BY <1>2, <1>3, <1>5, <1>10, <2>1, <2>2 DEF Applied
  <2>4. ~Cut(l)
    <3>1. current'[Where(l)] = l
      BY <1>3, <1>10
    <3> QED  BY <1>6, <3>1 DEF Cut
  <2> QED  BY <1>0, <1>1, <1>3, <1>8, <1>10, <2>1, <2>2, <2>3, <2>4 DEF Replied
<1>11. CASE /\ f.type = "settings" /\ current[r] = l
            /\ down' = [down EXCEPT ![l] = Append(@, [key |-> f.key, code |-> "agent_error"])]
            /\ UNCHANGED <<table, current, links>>
  <2>1. Replied(l, "agent_error")
    BY <1>2, <1>11, AnswerAdded
  <2>2. Refused(l)
    BY <1>2, <1>3, <1>11, <2>1 DEF Refused
  <2>3. ~Cut(l)
    <3>1. current'[Where(l)] = l
      BY <1>3, <1>11
    <3> QED  BY <1>6, <3>1 DEF Cut
  <2> QED  BY <1>0, <1>1, <1>8, <1>11, <2>1, <2>2, <2>3 DEF Replied
<1>12. CASE /\ f.type # "hello" /\ current[r] = l
            /\ \/ UNCHANGED table
               \/ table' = [table EXCEPT ![r] = now]
               \/ table' = [table EXCEPT ![r] = Unregistered]
            /\ current' = [current EXCEPT ![r] = 0]
            /\ links' = Closed(l) /\ UNCHANGED down
  <2>1. table' \in Frees /\ \A q \in Relay : q # r => table'[q] = table[q]
    <3>1. CASE UNCHANGED table
      BY <1>8, <3>1
    <3>2. CASE table' = [table EXCEPT ![r] = now]
      BY <1>5, <1>8, <3>2
    <3>3. CASE table' = [table EXCEPT ![r] = Unregistered]
      BY <1>5, <1>8, <3>3
    <3> QED  BY <1>12, <3>1, <3>2, <3>3
  <2>2. /\ current' \in [Relay -> 0..MaxLink] /\ current'[r] = 0
        /\ \A q \in Relay : q # r => current'[q] = current[q]
    BY <1>6, <1>8, <1>12
  <2>3. Cut(l)
    BY <1>2, <1>3, <1>12, <2>2 DEF Cut
  <2> QED  BY <1>0, <1>1, <1>3, <1>7, <1>8, <1>12, <2>1, <2>2, <2>3
<1>13. CASE f.type # "hello" /\ current[r] # l /\ UNCHANGED <<table, current, links, down>>
  <2>1. Ignored(l)
    BY <1>2, <1>3, <1>13 DEF Ignored
  <2>2. ~Cut(l)
    BY <1>3, <1>13 DEF Cut
  <2> QED  BY <1>0, <1>1, <1>8, <1>13, <2>1, <2>2
<1> QED
  BY <1>1, <1>2, <1>3, <1>4, <1>9, <1>10, <1>11, <1>12, <1>13 DEF RelayHandles, Where

(* What the Relay fetches is never a hello that something follows. *)
LEMMA HelloFetched ==
  ASSUME TypeOK, HelloSound, NEW l \in Link, Fetched(l)
  PROVE  /\ ~ HelloIn(l)' /\ links[l].dialled
         /\ Front(l).type = "hello" => up'[l] = <<>> /\ Len(up[l]) = 1
         /\ \A k \in Link : up[k] = <<>> => up'[k] = <<>>
<1>1. up[l] # <<>> /\ 1 \in 1..Len(up[l])
  BY FirstIndex DEF Fetched
<1>2. up'[l] \in Seq(Frame)
  BY DEF Fetched
<1>3. HelloIn(l) => Len(up[l]) = 1
  BY DEF HelloSound, Greeting
<1>4. Len(up[l]) = 1 => Len(up'[l]) = 0 /\ up'[l] = <<>>
  BY <1>2 DEF Fetched
<1>5. HelloIn(l)' => HelloIn(l)
  BY DEF HelloIn, Fetched
<1>6. Len(up'[l]) = 0 => ~ HelloIn(l)'
  BY DEF HelloIn
<1>7. ~ HelloIn(l)'
  BY <1>3, <1>4, <1>5, <1>6
<1>8. Front(l).type = "hello" => HelloIn(l)
  BY <1>1 DEF HelloIn, Front
<1>9. links[l].dialled
  BY <1>1 DEF HelloSound
<1> QED  BY <1>1, <1>3, <1>4, <1>7, <1>8, <1>9 DEF Fetched

LEMMA HelloHandled ==
  ASSUME TypeOK, HelloSound, NEW l \in Link, RelayHandles(l)
  PROVE  HelloSound'
<1>1. /\ Fetched(l)
      /\ Hailed(l) \/ Applied(l) \/ Refused(l) \/ Cut(l) \/ Ignored(l)
      /\ \A q \in Relay : q # Where(l) => current'[q] = current[q]
      /\ \A k \in Link : k # l => down'[k] = down[k]
      /\ \A k \in Link : /\ links'[k].dialled = links[k].dialled
                         /\ links'[k].relay = links[k].relay
  BY HandledCases
<1>2. ~ HelloIn(l)' /\ links[l].dialled
  BY <1>1, HelloFetched
<1>3. \A k \in Link : k # l => up'[k] = up[k]
  BY <1>1 DEF Fetched
<1>4. Where(l) \in Relay
  BY DEF TypeOK, Where
<1>5. CASE ~ Hailed(l)
  <2>1. \A q \in Relay : current'[q] \in {current[q], 0}
    BY <1>1, <1>4, <1>5 DEF Applied, Refused, Cut, Ignored
  <2> QED  BY <1>1, <1>2, <1>3, <2>1, HelloKept
<1>6. CASE Hailed(l)
  <2>1. ASSUME NEW k \in Link, HelloIn(k)'
        PROVE  Greeting(k)'
    <3>1. k # l
      BY <1>2, <2>1
    <3> QED  BY <1>3, <2>1, <3>1 DEF HelloSound, HelloIn, Greeting
  <2>2. ASSUME NEW k \in Link
        PROVE  links'[k].dialled \/ (up'[k] = <<>> /\ down'[k] = <<>>)
    BY <1>1, <1>2, <1>3 DEF HelloSound
  <2>3. ASSUME NEW q \in Relay, current'[q] # 0, NEW k, k = current'[q]
        PROVE  links'[k].dialled /\ links'[k].relay = q /\ ~ HelloIn(k)'
    <3>1. CASE q = Where(l)
      BY <1>1, <1>2, <1>6, <2>3, <3>1 DEF Hailed, Where
    <3>2. CASE q # Where(l) /\ k # l
      <4>1. k = current[q] /\ k # 0
        BY <1>1, <2>3, <3>2
      <4>2. k \in Link
        BY <4>1, SettingsAssumption DEF TypeOK, Link
      <4>3. links[k].dialled /\ links[k].relay = q /\ ~ HelloIn(k)
        BY <2>3, <4>1 DEF HelloSound
      <4> QED  BY <1>1, <1>3, <3>2, <4>2, <4>3 DEF HelloIn
    <3>3. CASE q # Where(l) /\ k = l
      <4>1. k = current[q] /\ k # 0
        BY <1>1, <2>3, <3>3
      <4>2. links[l].relay = q
        BY <2>3, <3>3, <4>1 DEF HelloSound
      <4> QED  BY <3>3, <4>2 DEF Where
    <3> QED  BY <3>1, <3>2, <3>3
  <2>4. \A q \in Relay : current'[q] # 0 =>
          links'[current'[q]].dialled /\ links'[current'[q]].relay = q /\ ~ HelloIn(current[q])'
    BY <2>3
  <2> QED  BY <2>1, <2>2, <2>4 DEF HelloSound
<1> QED  BY <1>5, <1>6

LEMMA KeyHandled ==
  ASSUME TypeOK, KeySound, NEW l \in Link, RelayHandles(l)
  PROVE  KeySound'
<1>1. /\ Fetched(l)
      /\ Hailed(l) \/ Applied(l) \/ Refused(l) \/ Cut(l) \/ Ignored(l)
      /\ \A k \in Link : k # l => down'[k] = down[k]
      /\ call' = call
  BY HandledCases
<1>2. down' = down \/ \E code \in {"", "agent_error"} : Replied(l, code)
  BY <1>1 DEF Hailed, Applied, Refused, Cut, Ignored
<1>3. ASSUME NEW c \in Call, Early(c), NEW k \in Link, NEW i \in 1..Len(up'[k])
      PROVE  up'[k][i].key # c
  <2>1. CASE k = l
    <3>1. up'[l][i] = up[l][i + 1] /\ i + 1 \in 1..Len(up[l])
      BY <1>1, <1>3, <2>1 DEF Fetched
    <3>2. up[l][i + 1].key # c
      BY <1>3, <3>1 DEF KeySound
    <3> QED  BY <2>1, <3>1, <3>2
  <2>2. CASE k # l
    BY <1>1, <1>3, <2>2 DEF KeySound, Fetched
  <2> QED  BY <2>1, <2>2
<1>4. ASSUME NEW c \in Call, Early(c), NEW k \in Link, NEW i \in 1..Len(down'[k])
      PROVE  down'[k][i].key # c
  <2>1. CASE down' = down \/ k # l
    BY <1>1, <1>4, <2>1 DEF KeySound
  <2>2. ASSUME NEW code \in {"", "agent_error"}, Replied(l, code), k = l
        PROVE  down'[k][i].key # c
    <3>1. 1 \in 1..Len(up[l])
      BY <1>1, FirstIndex DEF Fetched
    <3>2. Front(l).key # c
      BY <1>4, <3>1 DEF KeySound, Front
    <3>3. i \in 1..Len(down[l]) \/ i = Len(down[l]) + 1
      <4>1. Len(down[l]) \in Nat /\ Len(down'[k]) = Len(down[l]) + 1
        BY <2>2 DEF Replied
      <4>2. i \in 1..(Len(down[l]) + 1)
        BY <4>1, Zenon
      <4> QED  BY <4>1, <4>2, LastIndex
    <3>4. CASE i \in 1..Len(down[l])
      BY <1>4, <2>2, <3>4 DEF Replied, KeySound
    <3>5. CASE i = Len(down[l]) + 1
      BY <2>2, <3>2, <3>5 DEF Replied
    <3> QED  BY <3>3, <3>4, <3>5
  <2> QED  BY <1>2, <2>1, <2>2
<1> QED  BY <1>1, <1>3, <1>4 DEF KeySound, Early

LEMMA FirstAnswer ==
  ASSUME NEW l, NEW code, Replied(l, code), down[l] = <<>>
  PROVE  Len(down'[l]) = 1 /\ down'[l][1].code = code /\ down'[l][1].key = Front(l).key
<1>1. Len(down[l]) = 0
  OBVIOUS
<1> QED  BY <1>1 DEF Replied

LEMMA LastAnswer ==
  ASSUME NEW l, NEW code, Replied(l, code), NEW i \in 1..Len(down'[l])
  PROVE  \/ i \in 1..Len(down[l]) /\ down'[l][i] = down[l][i]
         \/ down'[l][i].code = code /\ down'[l][i].key = Front(l).key
<1>1. Len(down[l]) \in Nat /\ Len(down'[l]) = Len(down[l]) + 1
  BY DEF Replied
<1>2. i \in 1..(Len(down[l]) + 1)
  BY <1>1, Zenon
<1>3. i \in 1..Len(down[l]) \/ i = Len(down[l]) + 1
  BY <1>1, <1>2, LastIndex
<1> QED  BY <1>3 DEF Replied

(* The link that is up is another one. *)
LEMMA WireOther ==
  ASSUME IInv, NEW l \in Link, RelayHandles(l), NEW n \in Link, n = node.link, n # l,
         Linked, links[n].alive
  PROVE  WireSound'
<1> USE DEF IInv
<1>1. /\ Fetched(l)
      /\ Hailed(l) \/ Applied(l) \/ Refused(l) \/ Cut(l) \/ Ignored(l)
      /\ \A q \in Relay : q # Where(l) => table'[q] = table[q] /\ current'[q] = current[q]
      /\ \A k \in Link : k # l => down'[k] = down[k]
      /\ \A k \in Link : /\ links'[k].dialled = links[k].dialled
                         /\ links'[k].relay = links[k].relay
                         /\ links'[k].alive => links[k].alive
      /\ UNCHANGED <<gate, row, mem, config, call, node, device, mute>>
  BY HandledCases
<1>2. /\ up'[n] = up[n] /\ down'[n] = down[n] /\ links'[n].relay = links[n].relay
      /\ links[n].relay \in Relay
      /\ \A k \in Link : up[k] = <<>> => up'[k] = <<>>
  BY <1>1, HelloFetched DEF Fetched, TypeOK
<1>3. \A k \in Link : k # l => up'[k] = up[k]
  BY <1>1 DEF Fetched
<1>4. CASE \/ links[n].relay # Where(l) \/ Ignored(l)
  <2>1. /\ table'[links[n].relay] = table[links[n].relay]
        /\ current'[links[n].relay] = current[links[n].relay]
    BY <1>1, <1>2, <1>4 DEF Ignored
  <2> QED  BY <1>1, <1>2, <2>1, WireApart
<1>5. CASE links[n].relay = Where(l) /\ current[Where(l)] = l /\ Front(l).type # "hello"
  <2>1. up[l] # <<>>
    BY <1>1, FirstIndex DEF Fetched
  <2>2. ~ Alone(n)
    BY <1>5, <2>1 DEF Alone
  <2>3. node.pc = "hello" /\ Greeting(n) /\ down[n] = <<>>
    BY <2>2 DEF WireSound, HelloPhase, ConfirmPhase, ServingPhase, Linked
  <2>4. HelloPhase(n)'
    BY <1>2, <2>3 DEF HelloPhase, Greeting
  <2> QED  BY <1>1, <2>3, <2>4 DEF WireSound
<1>6. CASE links[n].relay = Where(l) /\ Hailed(l)
  <2>1. current'[links'[n].relay] = l /\ up'[l] = <<>>
    BY <1>1, <1>2, <1>6, HelloFetched DEF Hailed
  <2>2. Alone(n)'
    BY <2>1 DEF Alone
  <2>3. \A w : Has(n, w) => (table'[links'[n].relay] = Now(w))
    BY <1>2, <1>6 DEF Has, Hailed
  <2>4. HelloPhase(n) => HelloPhase(n)'
    BY <1>2, <2>2 DEF HelloPhase, Greeting
  <2>5. ConfirmPhase(n) => ConfirmPhase(n)'
    <3>1. node' = node /\ (Has(n, node.want) => Has(n, node.want)')
      BY <1>1, <2>3 DEF Has
    <3> QED  BY <1>2, <2>2, <3>1 DEF ConfirmPhase
  <2>6. ServingPhase(n) => ServingPhase(n)'
    <3>1. Agrees(n)'
      BY <2>1 DEF Agrees
    <3>2. Said(n) => Said(n)'
      BY <1>1, <1>2 DEF Said, Waits
    <3>3. Answered(n) => Answered(n)'
      <4>2. ASSUME Answered(n), NEW c \in Call, Waits(c, n)', NEW i \in 1..Len(down'[n]),
                   down'[n][i].key = c
            PROVE  up'[n] = <<>> /\ (down'[n][i].code = "" => Has(n, call[c].want)')
        <5>1. Waits(c, n) /\ call'[c] = call[c]
          BY <1>1, <4>2 DEF Waits
        <5>2. i \in 1..Len(down[n]) /\ down[n][i].key = c /\ down[n][i] = down'[n][i]
          BY <1>2, <4>2
        <5>3. up[n] = <<>> /\ (down[n][i].code = "" => Has(n, call[c].want))
          BY <4>2, <5>1, <5>2 DEF Answered
        <5>4. Has(n, call[c].want) => Has(n, call[c].want)'
          BY <1>1, <2>3, <5>1 DEF Has
        <5> QED  BY <1>2, <5>2, <5>3, <5>4
      <4> QED  BY <4>2 DEF Answered
    <3> QED  BY <2>2, <3>1, <3>2, <3>3 DEF ServingPhase
  <2> QED  BY <1>1, <2>4, <2>5, <2>6 DEF WireSound
<1> QED  BY <1>1, <1>4, <1>5, <1>6 DEF Hailed, Applied, Refused, Cut

(* It is the one the frame came on. *)
LEMMA WireSelf ==
  ASSUME IInv, NEW l \in Link, RelayHandles(l), l = node.link, Linked, links[l].alive
  PROVE  WireSound'
<1> USE DEF IInv
<1>1. /\ Fetched(l)
      /\ Hailed(l) \/ Applied(l) \/ Refused(l) \/ Cut(l) \/ Ignored(l)
      /\ \A k \in Link : /\ links'[k].dialled = links[k].dialled
                         /\ links'[k].relay = links[k].relay
                         /\ links'[k].alive => links[k].alive /\ (Cut(l) => k # l)
      /\ UNCHANGED <<gate, row, mem, config, call, node, device, mute>>
  BY HandledCases
<1>2. SUFFICES ASSUME ~ Cut(l)
               PROVE  /\ node.pc = "hello" => HelloPhase(l)'
                      /\ node.pc = "confirm" => ConfirmPhase(l)'
                      /\ node.pc = "serving" => ServingPhase(l)'
  BY <1>1 DEF WireSound
<1>3. /\ \A k \in Link : k # l => up'[k] = up[k]
      /\ Len(up'[l]) = Len(up[l]) - 1 /\ Len(up[l]) \in Nat \ {0} /\ 1 \in 1..Len(up[l])
      /\ \A i \in 1..Len(up'[l]) : up'[l][i] = up[l][i + 1] /\ i + 1 \in 1..Len(up[l])
      /\ up'[l] \in Seq(Frame) /\ up[l] # <<>>
      /\ links'[l].relay = links[l].relay /\ links[l].relay = Where(l)
  BY <1>1, FirstIndex DEF Fetched, Where
<1>4. Len(up[l]) = 1 => up'[l] = <<>>
  BY <1>3
<1>5. ASSUME node.pc = "hello"
      PROVE  HelloPhase(l)'
  <2>1. Greeting(l) /\ down[l] = <<>>
    BY <1>3, <1>5 DEF WireSound, HelloPhase
  <2>2. Hailed(l)
    BY <1>1, <1>2, <2>1 DEF Greeting, Front, Applied, Refused, Ignored
  <2>3. up'[l] = <<>>
    BY <1>4, <2>1 DEF Greeting
  <2>4. Len(down'[l]) = 1
    BY <2>1, <2>2, FirstAnswer DEF Hailed
  <2>5. Alone(l)'
    BY <1>3, <2>2 DEF Alone, Hailed
  <2> QED  BY <2>3, <2>4, <2>5 DEF HelloPhase
<1>6. Front(l).type # "hello" /\ Alone(l) => Alone(l)'
  <2>1. Front(l).type # "hello" => current' = current
    BY <1>1, <1>2 DEF Hailed, Applied, Refused, Ignored
  <2> QED  BY <1>3, <2>1 DEF Alone
<1>7. ASSUME node.pc = "confirm"
      PROVE  ConfirmPhase(l)'
  <2>1. /\ Alone(l) /\ Len(up[l]) = 1 /\ down[l] = <<>>
        /\ Front(l).type = "settings" /\ Front(l).want = node.want
    BY <1>3, <1>7 DEF WireSound, ConfirmPhase, Front
  <2>2. up'[l] = <<>> /\ Alone(l)'
    BY <1>4, <1>6, <2>1
  <2>3. CASE Ignored(l)
    <3>1. down'[l] = <<>> /\ Len(down'[l]) = 0
      BY <2>1, <2>3 DEF Ignored
    <3> QED  BY <2>2, <3>1 DEF ConfirmPhase
  <2>4. CASE Applied(l)
    <3>1. Has(l, node.want)'
      BY <1>1, <1>3, <2>1, <2>4 DEF Applied, Has
    <3>2. Len(down'[l]) = 1
      BY <2>1, <2>4, FirstAnswer DEF Applied
    <3>3. Len(down'[l]) <= 1
      BY <3>2
    <3>4. \A i \in 1..Len(down'[l]) : down'[l][i].code = "" => Has(l, node.want)'
      BY <3>1
    <3> QED  BY <2>2, <3>3, <3>4 DEF ConfirmPhase
  <2>5. CASE Refused(l)
    <3>1. Len(down'[l]) = 1 /\ down'[l][1].code = "agent_error"
      BY <2>1, <2>5, FirstAnswer DEF Refused
    <3>2. Len(down'[l]) <= 1 /\ \A i \in 1..Len(down'[l]) : i = 1
      BY <3>1
    <3>3. \A i \in 1..Len(down'[l]) : down'[l][i].code # ""
      BY <3>1, <3>2
    <3> QED  BY <2>2, <3>2, <3>3 DEF ConfirmPhase
  <2> QED  BY <1>1, <1>2, <2>1, <2>3, <2>4, <2>5 DEF Hailed
<1>8. ASSUME node.pc = "serving"
      PROVE  ServingPhase(l)'
  <2>1. ServingPhase(l)
    BY <1>8 DEF WireSound
  <2>2. /\ Front(l).type # "hello"
        /\ Front(l).type = "settings" => Len(up[l]) = 1 /\
             \E c \in Call : Waits(c, l) /\ Front(l).key = c /\ Front(l).want = call[c].want
    BY <1>3, <2>1 DEF ServingPhase, Said, Front
  <2>3. Alone(l)'
    BY <1>6, <2>1, <2>2 DEF ServingPhase
  <2>4. ASSUME NEW c \in Call, Waits(c, l), NEW i \in 1..Len(down[l])
        PROVE  down[l][i].key # c
    BY <1>3, <2>1, <2>4 DEF ServingPhase, Answered
  <2>5. CASE Ignored(l)
    <3>1. Said(l)'
      <4>1. ASSUME NEW i \in 1..Len(up'[l])
            PROVE  \/ up'[l][i].type = "revoke" /\ up'[l][i].key = None
                   \/ /\ i = Len(up'[l]) /\ up'[l][i].type = "settings"
                      /\ \E c \in Call : /\ Waits(c, l)' /\ up'[l][i].key = c
                                        /\ up'[l][i].want = call'[c].want
        <5>1. up'[l][i] = up[l][i + 1] /\ i + 1 \in 1..Len(up[l])
          BY <1>3
        <5>2. i + 1 = Len(up[l]) => i = Len(up'[l])
          BY <1>3
        <5> QED  BY <1>1, <2>1, <5>1, <5>2 DEF ServingPhase, Said, Waits
      <4> QED  BY <4>1 DEF Said
    <3>2. Answered(l)'
      BY <1>1, <2>4, <2>5 DEF Answered, Waits, Ignored
    <3>3. Agrees(l)'
      BY <1>3, <2>5 DEF Agrees, Ignored
    <3> QED  BY <2>3, <3>1, <3>2, <3>3 DEF ServingPhase
  <2>6. CASE Applied(l) \/ Refused(l)
    <3>1. PICK c \in Call : Waits(c, l) /\ Front(l).key = c /\ Front(l).want = call[c].want
      BY <2>2, <2>6 DEF Applied, Refused
    <3>2. up'[l] = <<>>
      BY <1>4, <2>2, <2>6 DEF Applied, Refused
    <3>3. Said(l)'
      BY <3>2, NothingSaid
    <3>4. ~ Idle'
      BY <1>1, <3>1 DEF Waits, Idle
    <3>5. \A d \in Call : Waits(d, l)' => d = c
      BY <1>1, <3>1, Worker DEF Waits
    <3>6. ASSUME NEW i \in 1..Len(down'[l]), down'[l][i].key = c, down'[l][i].code = ""
          PROVE  Has(l, call[c].want)'
      <4>1. \E code \in {"", "agent_error"} : Replied(l, code) /\ (code = "" => Applied(l))
        BY <2>6 DEF Applied, Refused
      <4>2. PICK code \in {"", "agent_error"} : Replied(l, code) /\ (code = "" => Applied(l))
        BY <4>1
      <4>3. down'[l][i] # down[l][i] \/ i \notin 1..Len(down[l])
        BY <2>4, <3>1, <3>6
      <4>4. down'[l][i].code = code
        <5>1. Replied(l, code)
          BY <4>2
        <5>2. \/ i \in 1..Len(down[l]) /\ down'[l][i] = down[l][i]
              \/ down'[l][i].code = code /\ down'[l][i].key = Front(l).key
          BY <5>1, LastAnswer, ZenonT(60)
        <5> QED  BY <4>3, <5>2, Zenon
      <4>5. Applied(l)
        BY <3>6, <4>2, <4>4
      <4> QED  BY <1>1, <1>3, <3>1, <4>5 DEF Applied, Has
    <3>7. Answered(l)'
      BY <3>2, <3>5, <3>6 DEF Answered
    <3> QED  BY <2>3, <3>3, <3>4, <3>7 DEF ServingPhase, Agrees
  <2> QED  BY <1>1, <1>2, <2>2, <2>5, <2>6 DEF Hailed
<1> QED  BY <1>5, <1>7, <1>8

LEMMA RelayHandlesStep ==
  ASSUME IInv, NEW l \in Link, RelayHandles(l)
  PROVE  IInv'
<1> USE DEF IInv
<1>1. /\ Fetched(l)
      /\ table' \in [Relay -> [grant : Grants, inbound : BOOLEAN, known : BOOLEAN]]
      /\ current' \in [Relay -> 0..MaxLink]
      /\ down' \in [Link -> Seq(Answer)]
      /\ links' \in [Link -> [dialled : BOOLEAN, alive : BOOLEAN, relay : Relay]]
      /\ \A k \in Link : /\ links'[k].dialled = links[k].dialled
                         /\ links'[k].relay = links[k].relay
                         /\ links'[k].alive => links[k].alive
      /\ UNCHANGED <<gate, row, mem, config, call, node, device, mute>>
  BY HandledCases
<1>2. TypeOK'
  BY <1>1 DEF TypeOK, Fetched
<1>3. GateSound'
  BY <1>1 DEF GateSound, GateKept
<1>4. RowSound'
  BY <1>1, RowKept DEF Dialling, Wipes
<1>5. LinkSound'
  BY <1>1, LinkKept
<1>6. HelloSound'
  BY HelloHandled
<1>7. KeySound'
  BY KeyHandled
<1>8. WireSound'
  <2>1. CASE Linked /\ links[node.link].alive
    <3>1. PICK n \in Link : n = node.link
      BY <2>1, Places
    <3> QED  BY <2>1, <3>1, WireOther, WireSelf
  <2>2. CASE Linked /\ ~links[node.link].alive
    <3>1. node.link \in Link
      BY <2>2, Places
    <3> QED  BY <1>1, <2>2, <3>1 DEF WireSound
  <2>3. CASE ~Linked
    BY <1>1, <2>3 DEF WireSound, Linked
  <2> QED  BY <2>1, <2>2, <2>3
<1> QED  BY <1>2, <1>3, <1>4, <1>5, <1>6, <1>7, <1>8

(***************************************************************************)
(* The invariant                                                           *)
(***************************************************************************)

LEMMA Starts ==
  ASSUME Init
  PROVE  IInv
<1>1. /\ IsFiniteSet({}) /\ Cardinality({}) = 0 /\ Slots \in Nat \ {0} /\ MaxLink \in Nat \ {0}
      /\ IsFiniteSet(Call) /\ None # Node /\ \A c \in Call : c # None /\ c # Node
  BY FS_EmptySet, SettingsAssumption
<1>2. 0 \in Grants /\ 0 \in 0..MaxLink
  BY <1>1, FS_CardinalityType DEF Grants
<1>3. Unset \in Settings /\ row \in Record /\ mem = row /\ ~row.inbound
  BY <1>2 DEF Init, Unset, Settings, Record
<1>4. gate \in [slots : SUBSET User, writer : User \cup {None}]
      /\ gate.slots = {} /\ gate.writer = None
  BY DEF Init
<1>5. ASSUME NEW c \in Call
      PROVE  /\ call[c] \in CallRecord /\ call[c].pc = "new" /\ call[c].reply = "none"
             /\ call[c].issued = FALSE
  <2>1. call[c] = [pc |-> "new", op |-> "issue", reply |-> "none",
                   want |-> Unset, link |-> 0, issued |-> FALSE]
    BY DEF Init
  <2> QED  BY <1>2, <1>3, <2>1 DEF CallRecord, Op
<1>6. call \in [Call -> CallRecord]
  <2>1. call = [c \in Call |-> call[c]]
    BY DEF Init
  <2> QED  BY <1>5, <2>1
<1>7. node \in [pc : {"idle", "queued", "refresh", "dial", "hello", "confirm", "serving", "over"},
                link : 0..MaxLink, want : Settings] /\ node.pc = "idle"
  BY <1>2, <1>3 DEF Init
<1>8. /\ links \in [Link -> [dialled : BOOLEAN, alive : BOOLEAN, relay : Relay]]
      /\ \A l \in Link : ~links[l].alive /\ ~links[l].dialled /\ up[l] = <<>> /\ down[l] = <<>>
      /\ up \in [Link -> Seq(Frame)] /\ down \in [Link -> Seq(Answer)]
  BY DEF Init
<1>9. /\ table \in [Relay -> [grant : Grants, inbound : BOOLEAN, known : BOOLEAN]]
      /\ current \in [Relay -> 0..MaxLink] /\ \A r \in Relay : current[r] = 0
      /\ device = 0 /\ mute \in BOOLEAN /\ config \in Relay
  BY <1>2 DEF Init, Unregistered
<1>10. TypeOK
  BY <1>2, <1>3, <1>4, <1>6, <1>7, <1>8, <1>9 DEF TypeOK
<1>11. GateSound
  <2>1. IsFiniteSet(gate.slots) /\ Cardinality(gate.slots) <= Slots
    BY <1>1, <1>4
  <2> QED  BY <1>1, <1>4, <1>5, <1>7, <2>1 DEF GateSound, GateKept
<1>12. RowSound
  BY <1>3, <1>5, <1>7, <1>9 DEF RowSound, Dialling
<1>13. LinkSound
  BY <1>5, <1>7, <1>8, <1>9 DEF LinkSound, Linked
<1>14. HelloSound
  <2>1. \A l \in Link : ~ HelloIn(l)
    BY <1>8 DEF HelloIn
  <2> QED  BY <1>8, <1>9, <2>1 DEF HelloSound
<1>15. KeySound
  BY <1>8 DEF KeySound
<1>16. WireSound
  BY <1>7 DEF WireSound, Linked
<1> QED  BY <1>10, <1>11, <1>12, <1>13, <1>14, <1>15, <1>16 DEF IInv

LEMMA Stutters ==
  ASSUME IInv, UNCHANGED vars
  PROVE  IInv'
<1> USE DEF IInv
<1>0. UNCHANGED <<gate, row, mem, config, call, node, device, links, up, down, table, current, mute>>
  BY DEF vars
<1>1. TypeOK'
  BY <1>0 DEF TypeOK
<1>2. GateSound'
  BY <1>0 DEF GateSound, GateKept
<1>3. RowSound'
  BY <1>0, RowKept DEF Dialling, Wipes
<1>4. LinkSound'
  BY <1>0, LinkKept
<1>5. HelloSound'
  BY <1>0, HelloKept
<1>6. KeySound'
  BY <1>0, KeyKept DEF Early
<1>7. WireSound'
  BY <1>0, WireKept
<1> QED  BY <1>1, <1>2, <1>3, <1>4, <1>5, <1>6, <1>7

LEMMA Steps ==
  ASSUME IInv, [Next]_vars
  PROVE  IInv'
<1>1. CASE UNCHANGED vars
  BY <1>1, Stutters
<1>2. ASSUME NEW c \in Call, NEW op \in Op, Queue(c, op)
      PROVE  IInv'
  BY <1>2, QueueStep
<1>3. ASSUME NEW c \in Call, Works(c)
      PROVE  IInv'
  BY <1>3, AcquireStep, SaveStep, SendSettingsStep, GivesUpStep, RevokeStep, SetConfigStep, ResetStep
     DEF Works
<1>4. ASSUME NEW c \in Call, Reply(c) \/ HeadStalls(c) \/ HeadReads(c)
      PROVE  IInv'
  BY <1>4, ReplyStep, HeadStep
<1>5. CASE Connects
  BY <1>5, NodeQueueStep, NodeAcquireStep, RefreshStep, DialStep, GreetedStep, PublishStep,
     HandshakeFailsStep, DeliverStep, DisconnectedStep DEF Connects
<1>6. ASSUME NEW l \in Link, LinkFails(l) \/ RelayHandles(l) \/ RelayDrops(l)
      PROVE  IInv'
  BY <1>6, LinkFailsStep, RelayHandlesStep, RelayDropsStep
<1> QED  BY <1>1, <1>2, <1>3, <1>4, <1>5, <1>6 DEF Next

LEMMA Invariance == Spec => []IInv
<1>1. Init => IInv
  BY Starts
<1>2. IInv /\ [Next]_vars => IInv'
  BY Steps
<1> QED  BY <1>1, <1>2, PTL DEF Spec

(***************************************************************************)
(* The theorems                                                            *)
(***************************************************************************)

LEMMA Quiet ==
  ASSUME IInv
  PROVE  QuietLinkAgrees
<1> USE DEF IInv
<1>1. SUFFICES ASSUME device # 0, links[device].alive, gate.writer = None,
                      current[links[device].relay] = device, up[device] = <<>>, ~mute
               PROVE  /\ table[links[device].relay] =
                           [grant |-> mem.grant, inbound |-> mem.inbound, known |-> TRUE]
                      /\ mem.active
  BY DEF QuietLinkAgrees
<1>2. Idle /\ \A c \in Call : ~ Wipes(c)
  BY <1>1, SettingsAssumption DEF Idle, Wipes, GateSound, GateKept
<1>3. Has(device, Held(mem))
  BY <1>1, <1>2, ServedLink DEF ServingPhase, Agrees
<1> QED  BY <1>1, <1>2, <1>3 DEF Has, Now, Held, RowSound

(* For every set of operations, of Relays and every number of connections and
   places at the gate: one user works at a time and gives the place back, and a
   published link that is quiet has the settings the Runtime acts on
   (device_settings.go, daemon.go connectDevice). *)
THEOREM SettingsAgree == Spec => []SettingsInv
<1>1. IInv => SettingsInv
  BY Quiet DEF IInv, GateSound, SettingsInv
<1> QED  BY <1>1, Invariance, PTL

(* A call's record may change without an answer. *)
LEMMA NoAnswer ==
  ASSUME TypeOK, NEW c \in Call, NEW d \in Call, NEW r,
         call' = [call EXCEPT ![d] = r], r.reply \in {call[d].reply, "busy"}
  PROVE  call'[c].reply \in {call[c].reply, "busy"}
<1>1. CASE c = d
  BY <1>1 DEF TypeOK
<1>2. CASE c # d
  BY <1>2 DEF TypeOK
<1> QED  BY <1>1, <1>2

(* Of the steps that answer a call, only the one that hears the Relay answers a
   change with ok. *)
LEMMA OkIsHeard ==
  ASSUME IInv, [Next]_vars, NEW c \in Call, call[c].op \in {"issue", "on", "off"},
         call[c].reply # "ok", call'[c].reply = "ok"
  PROVE  /\ Deliver /\ Waits(c, device) /\ Head(down[device]).key = c
         /\ Head(down[device]).code = ""
<1> USE DEF IInv
<1>1. call[c] \in CallRecord /\ call \in [Call -> CallRecord]
  BY DEF TypeOK
<1>2. ASSUME NEW d \in Call, NEW reply \in {"none", "ok", "busy", "unsaved", "unknown"},
             Returns(d, reply) \/ Replies(d, reply)
      PROVE  d = c /\ reply = "ok"
  <2>1. CASE Returns(d, reply)
    BY <2>1, Returned
  <2>2. CASE Replies(d, reply)
    BY <2>2, ReplyHeld
  <2> QED  BY <1>2, <2>1, <2>2
<1>3. call' # call
  OBVIOUS
<1>4. ASSUME NEW d \in Call, NEW op \in Op, Queue(d, op)
      PROVE  FALSE
  <2>1. \/ call' = [call EXCEPT ![d].pc = "queued", ![d].op = op]
        \/ call' = [call EXCEPT ![d].pc = "done", ![d].op = op, ![d].reply = "busy"]
    BY <1>4 DEF Queue
  <2>2. PICK r : r = [[call[d] EXCEPT !.pc = "queued"] EXCEPT !.op = op]
    OBVIOUS
  <2>3. PICK q : q = [[[call[d] EXCEPT !.pc = "done"] EXCEPT !.op = op] EXCEPT !.reply = "busy"]
    OBVIOUS
  <2>4. call[d] \in CallRecord
    BY DEF TypeOK
  <2>5. r.reply = call[d].reply /\ q.reply = "busy"
    BY <2>2, <2>3, <2>4 DEF CallRecord
  <2>6. call' = [call EXCEPT ![d] = r] \/ call' = [call EXCEPT ![d] = q]
    BY <1>1, <2>1, <2>2, <2>3
  <2> QED  BY <2>5, <2>6, NoAnswer
<1>5. ASSUME NEW d \in Call, Acquire(d)
      PROVE  FALSE
  <2>1. call' = [call EXCEPT ![d].pc = "saving"] \/ Returns(d, "busy")
    BY <1>5 DEF Acquire
  <2>2. PICK r : r = [call[d] EXCEPT !.pc = "saving"]
    OBVIOUS
  <2>3. call[d] \in CallRecord
    BY DEF TypeOK
  <2>4. r.reply = call[d].reply
    BY <2>2, <2>3 DEF CallRecord
  <2>5. call' = [call EXCEPT ![d] = r] \/ Returns(d, "busy")
    BY <2>1, <2>2
  <2> QED  BY <1>2, <2>4, <2>5, NoAnswer
<1>6. ASSUME NEW d \in Call, Save(d)
      PROVE  FALSE
  <2>1. PICK s \in Settings : s = Desired(d)
    BY <1>6, Wanted DEF Save
  <2>2. \E pc \in {"sending", "replying", "done"}, reply \in {"none", "unsaved"} :
          call' = [call EXCEPT ![d].pc = pc, ![d].reply = reply, ![d].want = s,
                               ![d].issued = s.grant = NewGrant]
    BY <1>6, <2>1 DEF Save
  <2>3. PICK pc \in {"sending", "replying", "done"}, reply \in {"none", "unsaved"} :
          call' = [call EXCEPT ![d].pc = pc, ![d].reply = reply, ![d].want = s,
                               ![d].issued = s.grant = NewGrant]
    BY <2>2
  <2>4. call'[d].reply = reply /\ \A e \in Call : e # d => call'[e] = call[e]
    BY <2>3, Marked
  <2> QED  BY <2>4
<1>7. ASSUME NEW d \in Call, SendSettings(d)
      PROVE  FALSE
  <2>1. \/ Returns(d, "unknown")
        \/ call' = [call EXCEPT ![d].pc = "waiting", ![d].link = device]
    BY <1>7 DEF SendSettings
  <2>2. PICK r : r = [[call[d] EXCEPT !.pc = "waiting"] EXCEPT !.link = device]
    OBVIOUS
  <2>3. call[d] \in CallRecord
    BY DEF TypeOK
  <2>4. r.reply = call[d].reply
    BY <2>2, <2>3 DEF CallRecord
  <2>5. call' = [call EXCEPT ![d] = r] \/ Returns(d, "unknown")
    BY <1>1, <2>1, <2>2
  <2> QED  BY <1>2, <2>4, <2>5, NoAnswer
<1>8. ASSUME NEW d \in Call, GivesUp(d)
      PROVE  FALSE
  BY <1>2, <1>8 DEF GivesUp
<1>9. ASSUME NEW d \in Call, Revoke(d)
      PROVE  FALSE
  BY <1>2, <1>9 DEF Revoke
<1>10. ASSUME NEW d \in Call, NEW address \in Relay, SetConfig(d, address)
       PROVE  FALSE
  BY <1>2, <1>10 DEF SetConfig
<1>11. ASSUME NEW d \in Call, Reset(d)
       PROVE  FALSE
  BY <1>2, <1>11 DEF Reset
<1>12. ASSUME NEW d \in Call, Reply(d)
       PROVE  FALSE
  <2>1. Returns(d, call[d].reply) /\ call[d] \in CallRecord
    BY <1>12 DEF Reply, TypeOK
  <2>2. call[d].reply \in {"none", "ok", "busy", "unsaved", "unknown"}
    BY <2>1 DEF CallRecord
  <2> QED  BY <1>2, <2>1, <2>2
<1>13. ASSUME NEW d \in Call, HeadStalls(d) \/ HeadReads(d)
       PROVE  FALSE
  <2>1. PICK pc \in {"replying", "stalled"} : call' = [call EXCEPT ![d].pc = pc]
    BY <1>13 DEF HeadStalls, HeadReads
  <2>2. PICK r : r = [call[d] EXCEPT !.pc = pc]
    OBVIOUS
  <2>3. call[d] \in CallRecord
    BY DEF TypeOK
  <2>4. r.reply = call[d].reply
    BY <2>2, <2>3 DEF CallRecord
  <2>5. call' = [call EXCEPT ![d] = r]
    BY <2>1, <2>2
  <2> QED  BY <2>4, <2>5, NoAnswer
<1>14. ASSUME Connects
       PROVE  Deliver
  BY <1>3, <1>14 DEF Connects, NodeQueue, NodeAcquire, Refresh, Dial, Greeted, Publish,
     HandshakeFails, Disconnected
<1>15. ASSUME NEW l \in Link, LinkFails(l) \/ RelayHandles(l) \/ RelayDrops(l)
       PROVE  FALSE
  BY <1>3, <1>15 DEF LinkFails, RelayHandles, RelayDrops
<1>16. ~ UNCHANGED vars
  BY <1>3 DEF vars
<1>17. Deliver
  BY <1>4, <1>5, <1>6, <1>7, <1>8, <1>9, <1>10, <1>11, <1>12, <1>13, <1>14, <1>15, <1>16 DEF Next, Works
<1>18. PICK result : result = Head(down[device])
  OBVIOUS
<1>19. result.key \in Call /\ Waits(result.key, device)
       /\ \/ Returns(result.key, "ok") /\ result.code = ""
          \/ Returns(result.key, "unknown")
  BY <1>3, <1>17, <1>18 DEF Deliver, Waits
<1>20. result.key = c /\ result.code = ""
  BY <1>2, <1>19
<1> QED  BY <1>17, <1>18, <1>19, <1>20

LEMMA AppliedThen ==
  ASSUME IInv, [Next]_vars, NEW c \in Call, call[c].op \in {"issue", "on", "off"},
         call[c].reply # "ok", call'[c].reply = "ok"
  PROVE  /\ Held(table'[config]) = call[c].want /\ Held(row') = call[c].want
         /\ links[device].relay = config
<1> USE DEF IInv
<1>1. /\ Deliver /\ Waits(c, device) /\ Head(down[device]).key = c
      /\ Head(down[device]).code = ""
  BY OkIsHeard
<1>2. /\ device # 0 /\ links[device].alive /\ down[device] # <<>>
      /\ down' = [down EXCEPT ![device] = Tail(@)] /\ UNCHANGED <<row, table>>
  BY <1>1 DEF Deliver
<1>3. PICK l \in Link : l = device
  BY <1>2, ServedLink
<1>4. Len(down[l]) \in Nat \ {0} /\ Head(down[l]) = down[l][1]
  BY <1>2, <1>3, Taken
<1>5. 1 \in 1..Len(down[l]) /\ down[l][1].key = c /\ down[l][1].code = ""
  BY <1>1, <1>3, <1>4, FirstIndex
<1>6. Answered(l) /\ Waits(c, l)
  BY <1>1, <1>2, <1>3, ServedLink DEF ServingPhase
<1>7. table[links[l].relay] = Now(call[c].want)
  BY <1>5, <1>6 DEF Answered, Has
<1>8. links[l].relay = config /\ Held(row) = call[c].want
  BY <1>6 DEF Waits, RowSound, Saved
<1>9. call[c].want \in Settings
  BY DEF TypeOK, CallRecord
<1>10. Held(Now(call[c].want)) = call[c].want
  BY <1>9 DEF Held, Now, Settings
<1> QED  BY <1>2, <1>3, <1>7, <1>8, <1>10

(* For all the same values: a change is reported as applied only when the
   configured Relay has it and the row too (device_replies.go,
   updateDeviceSettings). *)
THEOREM AppliedWhenOk == Spec => OkMeansApplied
<1> DEFINE A == \A c \in Call :
       (call[c].reply # "ok" /\ call'[c].reply = "ok" /\ call[c].op \in {"issue", "on", "off"})
         => /\ Held(table'[config]) = call[c].want
            /\ Held(row') = call[c].want
            /\ links[device].relay = config
<1>1. IInv /\ [Next]_vars => [A]_vars
  BY AppliedThen
<1>2. OkMeansApplied <=> [][A]_vars
  BY DEF OkMeansApplied
<1> HIDE DEF A
<1> QED  BY <1>1, <1>2, Invariance, PTL DEF Spec
=============================================================================
