---------------------------- MODULE DeviceAccess ----------------------------
(* Who may use and who may manage a device, as the Relay's database decides it:
   accounts (account/service.go), credentials (principal/service.go), ownership
   and shares (access/manage.go, service.go) and the device's row and sharing
   grant (storage/sqlstore_identity.go, access/device.go).  One transaction is
   one step: the pool has one connection.  A request of several transactions is
   several steps, and what it read in one may be stale in the next.

   A membership stands for its tenant and principal, which determine it (UNIQUE).
   Ids are random in the code; here each is new: 0 is none.  How a connection
   uses what it is granted is in module RelayHub.

   Left out: names, roles, token formats, the migration of old databases, and the
   retry of a busy transaction, which starts over after a confirmed rollback. *)
EXTENDS Naturals, FiniteSets

CONSTANTS Member,     \* memberships
          Cred,       \* credentials
          Operation,  \* operations of a device
          Permits,    \* sets of operations a share may be made for
          TTL,        \* lifetimes of shares and credentials
          DeviceConn, \* authenticated connections of the device
          Client,     \* authenticated connections of clients
          MaxShares,  \* MaxDeviceShares
          MaxSwitch, MaxId, LastDay, \* bounds: changes of memberships, ids drawn, time
          None

AccessAssumption ==
  /\ IsFiniteSet(Member)
  /\ Permits \subseteq SUBSET Operation \ {{}}
  /\ TTL \subseteq Nat \ {0}
  /\ MaxShares \in Nat \ {0} /\ MaxSwitch \in Nat /\ MaxId \in Nat /\ LastDay \in Nat
  /\ None \notin Member \cup Cred

VARIABLES
  today,
  members,  \* memberships: active, version
  creds,    \* principal_credentials: member (None before it is issued), expires, revoked
  device,   \* devices, device_grants and device_ownership of one id; uid 0: no row
  shares,   \* device_shares
  drawn,    \* ids drawn so far
  deviceConn, \* each device connection: the record it was authenticated with, and
            \* the identity its access request was authenticated with
  client    \* each client: its identity, the binding it loaded, its authorization

accessVars == <<today, members, creds, device, shares, drawn, deviceConn, client>>

(***************************************************************************)
(* Types and helpers                                                       *)
(***************************************************************************)

RowId == 0..MaxId
Days == 0..LastDay
Version == 1..(MaxSwitch + 1)
Identity == [member : Member, version : Version, cred : Cred, expires : Nat]
Share == [id : RowId, ownership : RowId, member : Member, perms : Permits, expires : Nat]
NoDevice == [uid |-> 0, grant |-> 0, ownership |-> 0, owner |-> None]

(* Device.Binding: the ownership if there is one, the sharing grant otherwise. *)
Binding(d) == [uid |-> d.uid, ownership |-> d.ownership,
               grant |-> IF d.ownership = 0 THEN d.grant ELSE 0]
Matches(b, current) == b.uid # 0 /\ (b.grant # 0) # (b.ownership # 0) /\ b = current

NoAuthorization == [binding |-> Binding(NoDevice), share |-> 0, perms |-> {}, expires |-> 0]

AccessTypeOK ==
  /\ today \in Days
  /\ \A m \in Member : members[m].active \in BOOLEAN /\ members[m].version \in Version
  /\ \A k \in Cred : creds[k].member \in Member \cup {None} /\ creds[k].revoked \in BOOLEAN
  /\ {device.uid, device.grant, device.ownership, drawn} \subseteq RowId
  /\ device.owner \in Member \cup {None}
  /\ shares \subseteq Share
  /\ \A c \in DeviceConn : deviceConn[c].actor \in Identity \cup {None}
  /\ \A c \in Client : client[c].actor \in Identity \cup {None}

(* The next id of RandomHex; a step that draws takes it. *)
NewId == drawn + 1
Draws == drawn < MaxId /\ drawn' = NewId

(* The credential joined with its membership. *)
IdentityOf(k) == [member |-> creds[k].member, version |-> members[creds[k].member].version,
                  cred |-> k, expires |-> creds[k].expires]
ValidAt(k) ==
  /\ creds[k].member # None /\ members[creds[k].member].active
  /\ ~creds[k].revoked /\ creds[k].expires > today

(* Credential.Verify: valid now, and the very identity that was authenticated. *)
VerifiesActor(actor) ==
  actor # None /\ ValidAt(actor.cred) /\ IdentityOf(actor.cred) = actor

OwnedBy(actor) == device.ownership # 0 /\ device.owner = actor.member
SharesOf(m) == {s \in shares : s.member = m}

(* Service.resolve: the authorizations (one or none) of an identity now. *)
Resolved(actor) ==
  LET As(share, perms, expires) == [binding |-> Binding(device), share |-> share,
                                    perms |-> perms, expires |-> expires]
  IN IF device.uid = 0 \/ device.ownership = 0 \/ ~VerifiesActor(actor) THEN {}
     ELSE IF OwnedBy(actor) THEN {As(0, Operation, 0)}
     ELSE {As(s.id, s.perms, s.expires) : s \in {x \in SharesOf(actor.member) : x.expires > today}}

(* Service.Verify: the whole snapshot is still what the database says. *)
Verify(actor, expected, op) == expected \in Resolved(actor) /\ op \in expected.perms

AccessInit ==
  /\ today = 0 /\ drawn = 0
  /\ members = [m \in Member |-> [active |-> TRUE, version |-> 1]]
  /\ creds = [k \in Cred |-> [member |-> None, expires |-> 0, revoked |-> FALSE]]
  /\ device = NoDevice /\ shares = {}
  /\ deviceConn = [c \in DeviceConn |-> [record |-> NoDevice, actor |-> None]]
  /\ client = [c \in Client |-> [actor |-> None, loaded |-> Binding(NoDevice),
                                 holds |-> NoAuthorization]]

(***************************************************************************)
(* Accounts                                                                *)
(***************************************************************************)

DayPasses ==
  /\ today < LastDay /\ today' = today + 1
  /\ UNCHANGED <<members, creds, device, shares, drawn, deviceConn, client>>

(* CreatePrincipal and IssueCredential: the membership must be active. *)
IssueCredential(k, m, ttl) ==
  /\ creds[k].member = None /\ members[m].active
  /\ creds' = [creds EXCEPT ![k].member = m, ![k].expires = today + ttl]
  /\ UNCHANGED <<today, members, device, shares, drawn, deviceConn, client>>

RevokeCredential(k) ==
  /\ creds[k].member # None
  /\ creds' = [creds EXCEPT ![k].revoked = TRUE]
  /\ UNCHANGED <<today, members, device, shares, drawn, deviceConn, client>>

(* Every version but the first one is a change. *)
Switches == Cardinality({p \in Member \X Version : p[2] < members[p[1]].version})

SetMembershipActiveUnversioned(m, active) ==
  /\ members[m].active # active
  /\ members' = [members EXCEPT ![m].active = active]
  /\ UNCHANGED <<today, creds, device, shares, drawn, deviceConn, client>>

(* Every change is a new version, the repetition of one too. *)
SetMembershipActive(m, active) ==
  /\ Switches < MaxSwitch
  /\ members' = [members EXCEPT ![m] = [active |-> active, version |-> @.version + 1]]
  /\ UNCHANGED <<today, creds, device, shares, drawn, deviceConn, client>>

(***************************************************************************)
(* The device's row                                                        *)
(***************************************************************************)

(* The Hub's gate lets one request of a device run at a time. *)
GateFree == \A c \in DeviceConn : deviceConn[c].actor = None

(* RegisterDevice by the hello of connection c, with the device's secret. *)
RegisterDevice(c) ==
  /\ GateFree
  /\ IF device.uid # 0 THEN UNCHANGED <<device, drawn>>
     ELSE Draws /\ device' = [NoDevice EXCEPT !.uid = NewId]
  /\ deviceConn' = [deviceConn EXCEPT ![c] = [record |-> device', actor |-> None]]
  /\ UNCHANGED <<today, members, creds, shares, client>>

Registered(c) == deviceConn[c].record.uid # 0
Changed(c, d) == [deviceConn EXCEPT ![c] = [record |-> d, actor |-> None]]

(* UpdateDevice: the row must be the one of the connection; WithAccess draws an id
   for a changed grant and keeps the one of an unchanged grant. *)
UpdateDevice(c, access) ==
  /\ GateFree /\ Registered(c) /\ device.uid = deviceConn[c].record.uid
  /\ \/ access = "same" /\ UNCHANGED <<device, drawn>>
     \/ access = "new" /\ Draws /\ device' = [device EXCEPT !.grant = NewId]
     \/ access = "none" /\ device' = [device EXCEPT !.grant = 0] /\ UNCHANGED drawn
  /\ deviceConn' = Changed(c, device')
  /\ UNCHANGED <<today, members, creds, shares, client>>

(* DeleteDevice cascades to the grant, the ownership and the shares. *)
DeleteDevice(c) ==
  /\ GateFree /\ Registered(c) /\ device.uid = deviceConn[c].record.uid
  /\ device' = NoDevice /\ shares' = {}
  /\ deviceConn' = Changed(c, NoDevice)
  /\ UNCHANGED <<today, members, creds, drawn, client>>

(***************************************************************************)
(* Management, from a device connection on behalf of a person              *)
(***************************************************************************)

Authenticate(c, k) ==
  /\ GateFree /\ Registered(c) /\ ValidAt(k)
  /\ deviceConn' = [deviceConn EXCEPT ![c].actor = IdentityOf(k)]
  /\ UNCHANGED <<today, members, creds, device, shares, drawn, client>>

MayManage(c) ==
  LET expected == deviceConn[c].record
  IN /\ VerifiesActor(deviceConn[c].actor)
     /\ device.uid # 0 /\ device.uid = expected.uid /\ device.ownership = expected.ownership
     /\ device.ownership # 0 => OwnedBy(deviceConn[c].actor)

SetOwnerKeepsShares(m) ==
  /\ Draws
  /\ device' = [device EXCEPT !.ownership = NewId, !.owner = m]
  /\ UNCHANGED shares

(* The new ownership has a new id; deleting the old one deletes its shares. *)
SetOwner(m) ==
  /\ Draws
  /\ device' = [device EXCEPT !.ownership = NewId, !.owner = m]
  /\ shares' = {}

(* The effect is committed: the connection goes on with the new record, or, when
   the commit's outcome is unknown to the Relay, is closed. *)
Commits(c) ==
  /\ deviceConn' \in {Changed(c, device'), Changed(c, NoDevice)}
  /\ UNCHANGED <<today, members, creds, client>>

Claim(c) ==
  /\ MayManage(c)
  /\ IF device.ownership = 0 THEN SetOwner(deviceConn[c].actor.member)
     ELSE UNCHANGED <<device, drawn, shares>>
  /\ Commits(c)

Transfer(c, m) ==
  /\ MayManage(c) /\ device.ownership # 0 /\ members[m].active
  /\ IF m # device.owner THEN SetOwner(m) ELSE UNCHANGED <<device, drawn, shares>>
  /\ Commits(c)

(* Shares that stay beside a new one of member m. *)
Others(m) == {s \in shares \ SharesOf(m) : s.expires > today}

(* A replacement has a new id; expired shares make room; the limit counts the
   others. *)
ReplaceShare(c, m, perms, ttl) ==
  /\ MayManage(c) /\ device.ownership # 0 /\ members[m].active
  /\ Cardinality(Others(m)) < MaxShares
  /\ Draws
  /\ shares' = Others(m) \cup {[id |-> NewId, ownership |-> device.ownership, member |-> m,
                                perms |-> perms, expires |-> today + ttl]}
  /\ UNCHANGED device
  /\ Commits(c)

Unshare(c, s) ==
  /\ MayManage(c) /\ s \in shares /\ s.ownership = device.ownership
  /\ shares' = shares \ {s}
  /\ UNCHANGED <<device, drawn>>
  /\ Commits(c)

(* Everything else is answered without a change; an answer that says the outcome
   is unknown also closes the connection. *)
Refuse(c) ==
  /\ deviceConn[c].actor # None
  /\ deviceConn' \in {[deviceConn EXCEPT ![c].actor = None], Changed(c, NoDevice)}
  /\ UNCHANGED <<today, members, creds, device, shares, drawn, client>>

(***************************************************************************)
(* Clients                                                                 *)
(***************************************************************************)

Anonymous(c) == client[c].loaded.uid = 0 /\ client[c].holds = NoAuthorization

AuthenticateClient(c, k) ==
  /\ Anonymous(c) /\ client[c].actor = None /\ ValidAt(k)
  /\ client' = [client EXCEPT ![c].actor = IdentityOf(k)]
  /\ UNCHANGED <<today, members, creds, device, shares, drawn, deviceConn>>

(* The record is loaded by one read and resolved by another. *)
LoadDevice(c) ==
  /\ Anonymous(c) /\ device.uid # 0
  /\ client' = [client EXCEPT ![c].loaded = Binding(device)]
  /\ UNCHANGED <<today, members, creds, device, shares, drawn, deviceConn>>

(* A shared secret is compared with the loaded record; an owned device asks
   Resolve, which refuses another binding than the loaded one. *)
Resolve(c) ==
  LET b == client[c].loaded
  IN /\ b.uid # 0
     /\ \/ /\ b.ownership = 0 /\ b.grant # 0
           /\ client' = [client EXCEPT ![c].loaded = Binding(NoDevice), ![c].holds =
                [binding |-> b, share |-> 0, perms |-> Operation, expires |-> 0]]
        \/ /\ b.ownership # 0
           /\ \E a \in Resolved(client[c].actor) :
                a.binding = b /\ client' = [client EXCEPT ![c].loaded = Binding(NoDevice),
                                                          ![c].holds = a]
     /\ UNCHANGED <<today, members, creds, device, shares, drawn, deviceConn>>

(* The hello is refused, or the client leaves. *)
Leaves(c) ==
  /\ client' = [client EXCEPT ![c] = [actor |-> None, loaded |-> Binding(NoDevice),
                                      holds |-> NoAuthorization]]
  /\ UNCHANGED <<today, members, creds, device, shares, drawn, deviceConn>>

(* verifyClientAccess and the Hub's comparison of bindings (Admissible there). *)
Allowed(c, op) ==
  LET a == client[c].holds
  IN IF a.binding.ownership # 0 THEN Verify(client[c].actor, a, op)
     ELSE /\ Matches(a.binding, Binding(device)) /\ op \in a.perms
          /\ client[c].actor # None => VerifiesActor(client[c].actor)

(***************************************************************************)
(* Specification                                                           *)
(***************************************************************************)

Manage(c) ==
  \/ Claim(c)
  \/ \E m \in Member : Transfer(c, m)
  \/ \E m \in Member, perms \in Permits, ttl \in TTL : ReplaceShare(c, m, perms, ttl)
  \/ \E s \in shares : Unshare(c, s)
  \/ Refuse(c)

AccessNext ==
  \/ DayPasses
  \/ \E k \in Cred, m \in Member, ttl \in TTL : IssueCredential(k, m, ttl)
  \/ \E k \in Cred : RevokeCredential(k)
  \/ \E m \in Member, active \in BOOLEAN : SetMembershipActive(m, active)
  \/ \E c \in DeviceConn : RegisterDevice(c) \/ DeleteDevice(c) \/ Manage(c)
  \/ \E c \in DeviceConn, access \in {"same", "new", "none"} : UpdateDevice(c, access)
  \/ \E c \in DeviceConn, k \in Cred : Authenticate(c, k)
  \/ \E c \in Client, k \in Cred : AuthenticateClient(c, k)
  \/ \E c \in Client : LoadDevice(c) \/ Resolve(c) \/ Leaves(c)

AccessSpec == AccessInit /\ [][AccessNext]_accessVars

(***************************************************************************)
(* Properties                                                              *)
(***************************************************************************)

(* No share outlives the ownership it was granted under, no member has two, and
   no sequence of grants, expiries and replacements leaves more shares behind
   than the limit (manage.go replaceShare, the cascade of device_shares). *)
AccessInv ==
  /\ AccessTypeOK
  /\ \A s \in shares : s.ownership = device.ownership /\ device.ownership # 0
  /\ \A s, t \in shares : s.member = t.member \/ s.id = t.id => s = t
  /\ Cardinality(shares) <= MaxShares

(* What a client holds is refused for good once it is refused: restoring a
   membership, an owner, a share, a grant or a device does not revive it
   (authorization.go Authorization, device.go WithAccess, Credential.Verify). *)
RevokedForGood ==
  [][\A c \in Client, op \in Operation :
       client'[c] = client[c] /\ client[c].holds # NoAuthorization /\ ~Allowed(c, op)
         => ~Allowed(c, op)']_accessVars

(* Ownership and shares of an owned device change only at its owner's request,
   whose credential is still valid and whose membership unchanged when the change
   commits, however long ago the request was authenticated, or with the device
   itself (manage.go Manage). *)
ManagedByOwner ==
  [][(device.ownership # 0 /\ device'.uid # 0
        /\ (device'.ownership # device.ownership \/ device'.owner # device.owner
            \/ shares' # shares))
       => \E c \in DeviceConn :
            /\ deviceConn[c].actor # None /\ deviceConn'[c].actor = None
            /\ deviceConn[c].actor.member = device.owner
            /\ VerifiesActor(deviceConn[c].actor)]_accessVars

(* How the rights to a device change: a right once refused stays refused, and
   only the owner gives any. *)
AccessChanges == RevokedForGood /\ ManagedByOwner
=============================================================================
