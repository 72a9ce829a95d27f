----------------------------- MODULE ClientPool -----------------------------
(***************************************************************************)
(* The connections a Runtime keeps as a client of other devices            *)
(* (internal/noderun/clientpool.go): one per device and identity, dialled  *)
(* by the first call that needs it while the others wait, and dropped when *)
(* it fails, when its peer is removed, or when the account, the Relay or   *)
(* the peer's grant changes.                                               *)
(*                                                                         *)
(* A call dials at most once, so a connection bears the name of the call   *)
(* that dialled it.  Daemon.mu is held within one step.  closeConn comes   *)
(* after the mutex is released: closing holds the connections some         *)
(* goroutine is about to close.                                            *)
(*                                                                         *)
(* An operator defined just before another one, with the same parameters   *)
(* and a longer name, is a mistake the code could have made; no action     *)
(* uses it.                                                                *)
(***************************************************************************)
EXTENDS Naturals

CONSTANTS
  Call,
  Target,           \* devices
  Grant,            \* grants the user enters for them
  Token,            \* account credentials, none included
  Relay,
  None,             \* no key, no connection, or no peer
  MaxChange         \* bound: changes of the account, of the Relay and of peers

ASSUME PoolAssumption ==
  /\ Grant # {} /\ Token # {} /\ Relay # {} /\ MaxChange \in Nat
  /\ None \notin Grant \cup Call \cup [relay: Relay, target: Target, grant: Grant, token: Token, generation: 0..MaxChange]

Key == [relay: Relay, target: Target, grant: Grant, token: Token, generation: 0..MaxChange]

VARIABLES
  relay, token,     \* what store.Credentials returns
  generation,       \* accountGeneration
  peer,             \* the grants of the peers in the store
  switching,        \* config.set saved another Relay and has not cleared the pool
  changes,
  stopped,          \* Daemon.ctx is done
  call,             \* progress of each call
  asked,            \* the device of each call and its grant when it began
  key,              \* the key it captured, and its connection's
  uses,             \* the connection it got
  ensuring,         \* keys being dialled
  pool,             \* the connections in clients
  conn,             \* each connection: "none", "open", "broken" by a failed Read or
                    \* Write, "closed" with its context cancelled
  reader,           \* its reader: "none", "reading", "failing", "done"
  closing

identity == <<relay, token, generation, peer, switching, changes>>
links == <<conn, reader>>
vars == <<identity, stopped, call, asked, key, uses, ensuring, pool, links, closing>>

TypeOK ==
  /\ relay \in Relay /\ token \in Token /\ generation \in 0..MaxChange
  /\ peer \in [Target -> Grant \cup {None}]
  /\ switching \in BOOLEAN /\ changes \in 0..MaxChange /\ stopped \in BOOLEAN
  /\ call \in [Call -> {"new", "looking", "waiting", "dialing", "dialed", "using", "failed", "done"}]
  /\ asked \in [Call -> [target: Target, grant: Grant \cup {None}]]
  /\ key \in [Call -> Key \cup {None}] /\ uses \in [Call -> Call \cup {None}]
  /\ ensuring = {key[c] : c \in {x \in Call : call[x] \in {"dialing", "dialed"}}}
  /\ pool \subseteq Call /\ closing \subseteq Call
  /\ conn \in [Call -> {"none", "open", "broken", "closed"}]
  /\ reader \in [Call -> {"none", "reading", "failing", "done"}]

Init ==
  /\ relay \in Relay /\ token \in Token /\ generation = 0
  /\ peer \in [Target -> Grant]
  /\ switching = FALSE /\ changes = 0 /\ stopped = FALSE
  /\ call = [c \in Call |-> "new"]
  /\ asked \in [Call -> [target: Target, grant: {None}]]
  /\ key = [c \in Call |-> None] /\ uses = [c \in Call |-> None]
  /\ ensuring = {} /\ pool = {} /\ closing = {}
  /\ conn = [c \in Call |-> "none"] /\ reader = [c \in Call |-> "none"]

-----------------------------------------------------------------------------
(* The context of a connection descends from the daemon's. *)
CtxDone(l) == conn[l] = "closed" \/ stopped

KeyNow(c) ==
  [relay |-> relay, target |-> asked[c].target, grant |-> asked[c].grant,
   token |-> token, generation |-> generation]

(* store.Peer: an unknown device is refused. *)
Begin(c) ==
  /\ call[c] = "new" /\ peer[asked[c].target] # None
  /\ asked' = [asked EXCEPT ![c].grant = peer[asked[c].target]]
  /\ call' = [call EXCEPT ![c] = "looking"]
  /\ UNCHANGED <<identity, stopped, key, uses, ensuring, pool, links, closing>>

Stale(k) == {l \in pool : key[l].target = k.target /\ key[l] # k}
Pooled(k) == {l \in pool : key[l] = k}

Get(c, l) ==
  /\ call' = [call EXCEPT ![c] = "using"] /\ uses' = [uses EXCEPT ![c] = l]
  /\ UNCHANGED <<ensuring, pool, closing>>

Busy(k) == k \in ensuring

(* The connections of an older identity leave the pool and the call looks
   again; else it takes the connection, waits for the one who dials, or dials. *)
LookAs(c, k) ==
  /\ key' = [key EXCEPT ![c] = k]
  /\ IF Stale(k) # {}
     THEN /\ pool' = pool \ Stale(k) /\ closing' = closing \cup Stale(k)
          /\ UNCHANGED <<call, uses, ensuring>>
     ELSE IF Pooled(k) # {} THEN \E l \in Pooled(k) : Get(c, l)
     ELSE IF Busy(k)
     THEN call' = [call EXCEPT ![c] = "waiting"] /\ UNCHANGED <<uses, ensuring, pool, closing>>
     ELSE /\ call' = [call EXCEPT ![c] = "dialing"] /\ ensuring' = ensuring \cup {k}
          /\ UNCHANGED <<uses, pool, closing>>

ChangedNever(c) == FALSE
(* The identity is not the one the call began under. *)
Changed(c) == key[c] \notin {None, KeyNow(c)}

Look(c) ==
  /\ call[c] = "looking"
  /\ IF Changed(c)
     THEN call' = [call EXCEPT ![c] = "failed"] /\ UNCHANGED <<key, uses, ensuring, pool, closing>>
     ELSE LookAs(c, KeyNow(c))
  /\ UNCHANGED <<identity, stopped, asked, links>>

(* dialClient: refused or failed, or answered, with a reader at work. *)
Dial(c) ==
  /\ call[c] = "dialing" /\ call' = [call EXCEPT ![c] = "dialed"]
  /\ \/ UNCHANGED links
     \/ /\ ~ stopped
        /\ conn' = [conn EXCEPT ![c] = "open"] /\ reader' = [reader EXCEPT ![c] = "reading"]
  /\ UNCHANGED <<identity, stopped, asked, key, uses, ensuring, pool, closing>>

PublishableByToken(c) ==
  conn[c] # "none" /\ ~ CtxDone(c) /\ key[c].relay = relay /\ key[c].token = token
(* The identity is still the one that was dialled with.  A token that was left
   and taken again is another generation. *)
Publishable(c) ==
  /\ conn[c] # "none" /\ ~ CtxDone(c)
  /\ key[c].relay = relay /\ key[c].token = token /\ key[c].generation = generation

Ensured(c) == ensuring \ {key[c]}

(* close(done) lets those who wait look again. *)
Woken(c) == {x \in Call : call[x] = "waiting" /\ key[x] = key[c]}

Refused(c) == closing' = IF conn[c] = "none" THEN closing ELSE closing \cup {c}

Publish(c) ==
  /\ call[c] = "dialed"
  /\ ensuring' = Ensured(c)
  /\ call' = [x \in Call |-> IF x = c THEN IF Publishable(c) THEN "using" ELSE "failed"
                             ELSE IF x \in Woken(c) THEN "looking" ELSE call[x]]
  /\ IF Publishable(c)
     THEN /\ pool' = (pool \ Pooled(key[c])) \cup {c} /\ uses' = [uses EXCEPT ![c] = c]
          /\ UNCHANGED closing
     ELSE Refused(c) /\ UNCHANGED <<pool, uses>>
  /\ UNCHANGED <<identity, stopped, asked, key, links>>

(* d.ctx ends while a call waits. *)
WaitEnds(c) ==
  /\ call[c] = "waiting" /\ stopped /\ call' = [call EXCEPT ![c] = "failed"]
  /\ UNCHANGED <<identity, stopped, asked, key, uses, ensuring, pool, links, closing>>

(* dropClient of one connection. *)
DropPooled(l) == pool' = pool \ {l} /\ closing' = closing \cup ({l} \cap pool)
Drop(l) == pool' = pool \ {l} /\ closing' = closing \cup {l}

(* The call is over (RemoteCall); it drops a connection it cannot send on. *)
UseEnds(c) ==
  /\ call[c] = "using" /\ call' = [call EXCEPT ![c] = "done"]
  /\ \/ UNCHANGED <<pool, closing>>
     \/ conn[uses[c]] # "open" /\ Drop(uses[c])
  /\ UNCHANGED <<identity, stopped, asked, key, uses, ensuring, links>>

CallStep(c) == Begin(c) \/ Look(c) \/ Dial(c) \/ Publish(c) \/ WaitEnds(c) \/ UseEnds(c)

-----------------------------------------------------------------------------
(* Connections. *)
ConnBreaks(l) ==
  /\ conn[l] = "open" /\ conn' = [conn EXCEPT ![l] = "broken"]
  /\ UNCHANGED <<identity, stopped, call, asked, key, uses, ensuring, pool, reader, closing>>

(* closeConn. *)
Close(l) ==
  /\ l \in closing /\ closing' = closing \ {l}
  /\ conn' = [conn EXCEPT ![l] = "closed"]
  /\ UNCHANGED <<identity, stopped, call, asked, key, uses, ensuring, pool, reader>>

(* The reader fails the waiters, then drops the connection. *)
ReadFails(l) ==
  /\ reader[l] = "reading" /\ (conn[l] # "open" \/ stopped)
  /\ reader' = [reader EXCEPT ![l] = "failing"]
  /\ conn' = [conn EXCEPT ![l] = IF @ = "open" THEN "broken" ELSE @]
  /\ UNCHANGED <<identity, stopped, call, asked, key, uses, ensuring, pool, closing>>

ReaderDrops(l) ==
  /\ reader[l] = "failing" /\ reader' = [reader EXCEPT ![l] = "done"]
  /\ Drop(l)
  /\ UNCHANGED <<identity, stopped, call, asked, key, uses, ensuring, conn>>

(* The heartbeat could not be sent, or the daemon stops. *)
HeartbeatDrops(l) ==
  /\ conn[l] = "broken" \/ (conn[l] = "open" /\ stopped)
  /\ l \notin closing /\ Drop(l)
  /\ UNCHANGED <<identity, stopped, call, asked, key, uses, ensuring, links>>

LinkStep(l) == Close(l) \/ ReadFails(l) \/ ReaderDrops(l)

-----------------------------------------------------------------------------
(* Changes of the identity, and of peers. *)
Change == changes < MaxChange /\ changes' = changes + 1

ClearPool == pool' = {} /\ closing' = closing \cup pool

SetAccount(t) ==
  /\ Change /\ token' = t /\ generation' = generation + 1 /\ ClearPool
  /\ UNCHANGED <<relay, peer, switching, stopped, call, asked, key, uses, ensuring, links>>

(* config.set saves the Relay and clears the pool afterwards.  The settings
   gate admits one at a time. *)
SetRelay(r) ==
  /\ Change /\ ~ switching /\ r # relay /\ relay' = r /\ switching' = TRUE
  /\ UNCHANGED <<token, generation, peer, stopped, call, asked, key, uses, ensuring, pool, links, closing>>

RelaySwitched ==
  /\ switching /\ switching' = FALSE /\ ClearPool
  /\ UNCHANGED <<relay, token, generation, peer, changes, stopped, call, asked, key, uses, ensuring, links>>

AddPeer(t, g) ==
  /\ Change /\ g # peer[t] /\ peer' = [peer EXCEPT ![t] = g]
  /\ UNCHANGED <<relay, token, generation, switching, stopped, call, asked, key, uses, ensuring, pool, links, closing>>

RemovePeer(t) ==
  /\ Change /\ peer[t] # None /\ peer' = [peer EXCEPT ![t] = None]
  /\ LET gone == {l \in pool : key[l].target = t}
     IN  pool' = pool \ gone /\ closing' = closing \cup gone
  /\ UNCHANGED <<relay, token, generation, switching, stopped, call, asked, key, uses, ensuring, links>>

Stop ==
  /\ ~ stopped /\ stopped' = TRUE
  /\ UNCHANGED <<identity, call, asked, key, uses, ensuring, pool, links, closing>>

Idle == stopped /\ UNCHANGED vars

Next ==
  \/ \E c \in Call : CallStep(c)
  \/ \E l \in Call : LinkStep(l) \/ ConnBreaks(l) \/ HeartbeatDrops(l)
  \/ \E t \in Token : SetAccount(t)
  \/ \E r \in Relay : SetRelay(r)
  \/ RelaySwitched
  \/ \E t \in Target, g \in Grant : AddPeer(t, g)
  \/ \E t \in Target : RemovePeer(t)
  \/ Stop \/ Idle

Spec == Init /\ [][Next]_vars

(* Goroutines run, and a dial ends within RelayIdentityTimeout. *)
FairSpec ==
  /\ Spec
  /\ \A c \in Call : WF_vars(Look(c) \/ Dial(c) \/ Publish(c) \/ WaitEnds(c)) /\ WF_vars(LinkStep(c))

-----------------------------------------------------------------------------
(* Properties. *)

(* One dial for a key at a time, and what the pool has for it is not replaced
   unseen: two connections of one identity would both be live at the Relay. *)
OneDialPerKey ==
  \A c, x \in Call :
    c # x /\ call[c] \in {"dialing", "dialed"} =>
      ~ (call[x] \in {"dialing", "dialed"} /\ key[x] = key[c]) /\ ~ (x \in pool /\ key[x] = key[c])

(* Whatever is in the pool was opened under the present account, and under the
   present Relay once config.set is through: a dial that ends late never brings
   an older identity back. *)
PoolIsCurrent ==
  \A l \in pool :
    /\ key[l].generation = generation /\ key[l].token = token
    /\ switching \/ key[l].relay = relay

(* An open connection is in the pool, on its way into it, or about to be
   closed: none is forgotten with its goroutines. *)
NoLinkForgotten ==
  \A l \in Call : conn[l] = "open" => l \in pool \cup closing \/ call[l] = "dialed" \/ stopped

(* A call is made with the identity it began under, or fails: it does not end
   up on another account because it had to wait. *)
KeepsIdentity ==
  [][\A c \in Call :
      /\ key[c] # None => key'[c] = key[c]
      /\ uses'[c] # None => key'[uses'[c]] = key[c] \/ key[c] = None]_vars

(* What the pool, the dials and the links promise each other in every state:
   one dial for a key (OneDialPerKey), nothing of an older identity in the pool
   (PoolIsCurrent), no open link without an owner (NoLinkForgotten). *)
PoolInv == TypeOK /\ OneDialPerKey /\ PoolIsCurrent /\ NoLinkForgotten

(* A connection that failed is closed, in the pool or not. *)
BrokenIsClosed == \A l \in Call : conn[l] = "broken" ~> conn[l] = "closed"

(* Who asks for a connection gets one or an error, whoever dials. *)
EnsureReturns == \A c \in Call : call[c] = "looking" ~> call[c] \in {"using", "failed", "done"}

(* Nobody waits for a dial that is over and no failed connection stays open. *)
PoolSettles == BrokenIsClosed /\ EnsureReturns
=============================================================================
