---------------------------- MODULE IdentityStore ----------------------------
(* A profile on disk and the Store of the Runtime that has it open (identity/):
   the one row of identity.db, the files of earlier versions it was imported
   from, peers.json, config.json and account.json.  The Runtime may stop at any
   step, and any write may fail.  runtime.lock lets one Runtime open a profile.

   A replacement of a file either happens or not (atomicfile.Write renames at the
   end); a write of the database that reports an error may have happened.  An
   identity is a number, in the order they are made.  What is stored beside it
   carries the identity it was stored under, so that profiles can be told apart.
   The device_id in identity.json is identity 1; it may be one that is not numeric,
   which this version does not accept in a row.

   Left out: the text of the files and of keys, the workspace and the shell, the
   environment's Relay address, and unreadable configuration or peers, with
   which Load fails before it changes anything. *)
EXTENDS Naturals, FiniteSets

CONSTANTS Peer,        \* devices the user may know
          Relay,       \* addresses of Relays; Default is one
          Default,
          MaxIdentity, \* bound: identities made
          MaxRevision, \* bound: writes of the row
          None, Unreadable

VARIABLES
  version,  \* user_version: 0 before the import
  row,      \* the row of identity.db
  legacy,   \* files of the earlier version still there
  peers, config, account, \* the other files; None is no file
  store,    \* the Runtime's Store
  made,     \* identities made so far
  carried,  \* history: this Store read its files before a reset was finished
  numeric   \* the device_id in identity.json is a numeric one

disk == <<version, row, legacy, peers, config, account>>
vars == <<disk, store, made, carried, numeric>>

(***************************************************************************)
(* Types and helpers                                                       *)
(***************************************************************************)

LegacyFile == {"identity.json", "device_secret", "grant"}
Identity == 0..MaxIdentity
Row == [id : Identity, grant : BOOLEAN, inbound : BOOLEAN, active : BOOLEAN,
        cleanup : BOOLEAN, revision : 0..MaxRevision]
NoRow == [id |-> 0, grant |-> FALSE, inbound |-> FALSE, active |-> FALSE,
          cleanup |-> FALSE, revision |-> 0]
Known == [peer : Peer, born : Identity]
Config == [relay : Relay, born : Identity]
Account == [relay : Relay, token : BOOLEAN, born : Identity]
NoAccount == [relay |-> Default, token |-> FALSE, born |-> 0]
DefaultConfig == [relay |-> Default, born |-> 0]

IdentityAssumption ==
  /\ Default \in Relay /\ None \notin Peer \cup Relay \cup Config \cup Account
  /\ MaxIdentity \in Nat \ {0} /\ MaxRevision \in Nat \ {0}

Closed == [pc |-> "closed", device |-> NoRow, peers |-> {}, config |-> DefaultConfig,
           account |-> NoAccount, accountErr |-> FALSE]

TypeOK ==
  /\ version \in {0, 1} /\ row \in Row /\ legacy \subseteq LegacyFile
  /\ peers \subseteq Known
  /\ config \in Config \cup {None} /\ account \in Account \cup {None, Unreadable}
  /\ store.pc \in {"closed", "read", "clearing", "importing", "loaded", "open", "wiping"}
  /\ store.device \in Row /\ store.peers \subseteq Known
  /\ store.config \in Config /\ store.account \in Account
  /\ made \in Identity /\ carried \in BOOLEAN /\ numeric \in BOOLEAN

At(pc) == store.pc = pc
Goes(pc) == store' = [store EXCEPT !.pc = pc]
Fails == store' = Closed
Me == store.device.id

(* The identity of the earlier version counts as made. *)
Init ==
  /\ version = 0 /\ row = NoRow /\ legacy \in SUBSET LegacyFile
  /\ peers = {} /\ config = None /\ account \in {None, Unreadable}
  /\ store = Closed /\ carried = FALSE
  /\ made = IF legacy = {} THEN 0 ELSE 1
  /\ numeric \in BOOLEAN /\ (legacy = {} => numeric)

(***************************************************************************)
(* LoadFrom                                                                *)
(***************************************************************************)

Fresh(revision) == [NoRow EXCEPT !.id = made + 1, !.active = TRUE, !.revision = revision]

(* config.json and peers.json are read before the row. *)
ReadFiles ==
  /\ At("closed")
  /\ store' = [Closed EXCEPT !.pc = "read", !.peers = peers,
                             !.config = IF config = None THEN DefaultConfig ELSE config]
  /\ carried' = (version = 1 /\ ~row.active /\ (peers # {} \/ config # None))
  /\ UNCHANGED <<disk, made, numeric>>

(* The transaction commits, or reports an error with either outcome. *)
Commits(r, pc) ==
  \/ version' = 1 /\ row' = r /\ store' = [store EXCEPT !.pc = pc, !.device = r]
  \/ /\ \/ version' = 1 /\ row' = r
        \/ UNCHANGED <<version, row>>
     /\ Fails

Imported(id) ==
  \E inbound \in BOOLEAN :
    Commits([NoRow EXCEPT !.id = id, !.grant = "grant" \in legacy, !.active = TRUE,
                          !.inbound = inbound /\ "grant" \in legacy,
                          !.cleanup = TRUE, !.revision = 1], "importing")

(* importDeviceFiles: a complete set becomes the row; inbound work needs a grant.
   An id that is not numeric is replaced, by another one each time it is tried. *)
Import ==
  /\ At("read") /\ version = 0 /\ {"identity.json", "device_secret"} \subseteq legacy
  /\ \/ numeric /\ UNCHANGED made /\ Imported(1)
     \/ ~numeric /\ made < MaxIdentity /\ made' = made + 1 /\ Imported(made + 1)
  /\ UNCHANGED <<legacy, peers, config, account, carried, numeric>>

RefuseImport ==
  /\ At("read") /\ version = 0 /\ legacy # {}
  /\ ~ {"identity.json", "device_secret"} \subseteq legacy
  /\ Fails
  /\ UNCHANGED <<disk, made, carried, numeric>>

Create ==
  /\ At("read") /\ version = 0 /\ legacy = {} /\ made < MaxIdentity
  /\ made' = made + 1
  /\ Commits(Fresh(1), "loaded")
  /\ UNCHANGED <<legacy, peers, config, account, carried, numeric>>

LoadRow ==
  /\ At("read") /\ version = 1
  /\ IF row.active
     THEN store' = [store EXCEPT !.device = [row EXCEPT !.cleanup = FALSE],
                                 !.pc = IF row.cleanup THEN "importing" ELSE "loaded"]
     ELSE Goes("clearing")
  /\ UNCHANGED <<disk, made, carried, numeric>>

(* finishDeviceImport: the files one by one, then the mark. *)
RemoveLegacy ==
  /\ At("importing")
  /\ \/ \E f \in legacy : legacy' = legacy \ {f} /\ UNCHANGED <<row, store>>
     \/ /\ legacy = {} /\ row' = [row EXCEPT !.cleanup = FALSE] /\ UNCHANGED legacy
        /\ store' = [store EXCEPT !.pc = "loaded", !.device.cleanup = FALSE]
     \/ Fails /\ UNCHANGED <<row, legacy>>
  /\ UNCHANGED <<version, peers, config, account, made, carried, numeric>>

(* finishProfileReset: peers.json, config.json, account.json, in this order. *)
RemoveProfileFile ==
  \/ peers # {} /\ peers' = {} /\ UNCHANGED <<config, account>>
  \/ peers = {} /\ config # None /\ config' = None /\ UNCHANGED <<peers, account>>
  \/ peers = {} /\ config = None /\ account # None /\ account' = None
     /\ UNCHANGED <<peers, config>>

Cleared == peers = {} /\ config = None /\ account = None

ClearProfile ==
  /\ At("clearing")
  /\ \/ RemoveProfileFile /\ UNCHANGED store
     \/ Fails /\ UNCHANGED <<peers, config, account>>
  /\ UNCHANGED <<version, row, legacy, made, carried, numeric>>

RenewEarly ==
  /\ At("clearing")
  /\ made < MaxIdentity /\ row.revision < MaxRevision
  /\ made' = made + 1
  /\ Commits(Fresh(row.revision + 1), "loaded")
  /\ UNCHANGED <<legacy, peers, config, account, carried, numeric>>

Renew ==
  /\ At("clearing") /\ Cleared
  /\ made < MaxIdentity /\ row.revision < MaxRevision
  /\ made' = made + 1
  /\ Commits(Fresh(row.revision + 1), "loaded")
  /\ UNCHANGED <<legacy, peers, config, account, carried, numeric>>

(* An account that cannot be read leaves the rest usable. *)
LoadAccount ==
  /\ At("loaded")
  /\ store' = [store EXCEPT !.pc = "open", !.accountErr = account = Unreadable,
       !.account = IF account \in {None, Unreadable} THEN NoAccount ELSE account]
  /\ UNCHANGED <<disk, made, carried, numeric>>

(***************************************************************************)
(* Operations of an open Store, under its mutex                            *)
(***************************************************************************)

(* publishDevice: one statement, guarded by the record this Store knows. *)
Publish(next) ==
  LET current == row.active /\ row.id = Me /\ row.revision = store.device.revision
      r == [next EXCEPT !.revision = @ + 1]
  IN /\ At("open") /\ store.device.revision < MaxRevision
     /\ \/ current /\ row' = r /\ store' = [store EXCEPT !.device = r]
        \/ row' \in {row} \cup {x \in {r} : current} /\ UNCHANGED store
     /\ UNCHANGED <<version, legacy, peers, config, account, made, carried, numeric>>

IssueGrant == Publish([store.device EXCEPT !.grant = TRUE, !.inbound = TRUE])
SetInboundOnly(on) == Publish([store.device EXCEPT !.inbound = on])
SetInbound(on) == Publish([store.device EXCEPT !.grant = @ \/ on, !.inbound = on])
ClearGrant == Publish([store.device EXCEPT !.grant = FALSE, !.inbound = FALSE])

RefreshDevice ==
  /\ At("open") /\ row.active /\ row.id = Me
  /\ store' = [store EXCEPT !.device = row]
  /\ UNCHANGED <<disk, made, carried, numeric>>

(* Peers change in memory first; a failed write leaves them changed there. *)
SetPeers(known) ==
  /\ At("open")
  /\ store' = [store EXCEPT !.peers = known]
  /\ peers' \in {peers, known}
  /\ UNCHANGED <<version, row, legacy, config, account, made, carried, numeric>>

AddPeer(p) ==
  SetPeers({k \in store.peers : k.peer # p} \cup {[peer |-> p, born |-> Me]})
RemovePeer(p) == SetPeers({k \in store.peers : k.peer # p})

(* Configuration and account change on disk first. *)
SetConfig(r) ==
  LET next == [relay |-> r, born |-> Me]
  IN /\ At("open")
     /\ config' = next /\ store' = [store EXCEPT !.config = next]
     /\ UNCHANGED <<version, row, legacy, peers, account, made, carried, numeric>>

SetAccount(token) ==
  LET next == IF token THEN [relay |-> store.config.relay, token |-> TRUE, born |-> Me]
              ELSE [NoAccount EXCEPT !.born = Me]
  IN /\ At("open")
     /\ account' = next
     /\ store' = [store EXCEPT !.account = next, !.accountErr = FALSE]
     /\ UNCHANGED <<version, row, legacy, peers, config, made, carried, numeric>>

(* Wipe: the inactive row, then the files, then memory; the Runtime stops. *)
Wipe ==
  LET gone == [NoRow EXCEPT !.revision = row.revision + 1]
      current == row.active /\ row.id = Me /\ row.revision = store.device.revision
  IN /\ At("open") /\ row.revision < MaxRevision
     /\ \/ current /\ row' = gone /\ Goes("wiping")
        \/ row' \in {row} \cup {x \in {gone} : current} /\ Fails
     /\ UNCHANGED <<version, legacy, peers, config, account, made, carried, numeric>>

WipeFiles ==
  /\ At("wiping")
  /\ \/ RemoveProfileFile /\ UNCHANGED store
     \/ Fails /\ UNCHANGED <<peers, config, account>>
  /\ UNCHANGED <<version, row, legacy, made, carried, numeric>>

(* The Runtime stops or dies, at any step. *)
Crash ==
  /\ ~At("closed") /\ store' = Closed
  /\ UNCHANGED <<disk, made, carried, numeric>>

(***************************************************************************)
(* Specification                                                           *)
(***************************************************************************)

Loads == ReadFiles \/ Import \/ RefuseImport \/ Create \/ LoadRow \/ RemoveLegacy
           \/ ClearProfile \/ Renew \/ LoadAccount

Next ==
  \/ Loads
  \/ IssueGrant \/ ClearGrant \/ RefreshDevice
  \/ \E on \in BOOLEAN : SetInbound(on) \/ SetAccount(on)
  \/ \E p \in Peer : AddPeer(p) \/ RemovePeer(p)
  \/ \E r \in Relay : SetConfig(r)
  \/ Wipe \/ WipeFiles
  \/ Crash

Spec == Init /\ [][Next]_vars

(***************************************************************************)
(* Properties                                                              *)
(***************************************************************************)

(* No sequence of imports, settings, resets and crashes leaves a row that the
   next start refuses (readDeviceRecord): an active row has a numeric id, inbound
   work has a grant, and a reset profile has nothing left. *)
RowReadable ==
  version = 1 =>
    /\ row.revision >= 1
    /\ row.active => row.id # 0 /\ (row.id = 1 => numeric) /\ (row.inbound => row.grant)
    /\ ~row.active => row.id = 0 /\ ~row.grant /\ ~row.inbound

(* Configuration and account that a Runtime acts on are what a restart would
   find, whatever writes failed, unless it was started over a reset that its
   predecessor did not finish. *)
MemoryIsDurable ==
  At("open") /\ ~carried /\ row.active =>
    /\ store.config = (IF config = None THEN DefaultConfig ELSE config)
    /\ ~store.accountErr => store.account = (IF account = None THEN NoAccount ELSE account)

IdentityInv == TypeOK /\ RowReadable /\ MemoryIsDurable

(* The first row has the identity of the earlier version, or a new one if there was
   none or its id is not numeric (device_import.go).  It is made once, whatever
   crashes and failed writes precede it, and the device keeps that identity until a
   reset.  After a reset nothing of the old profile is on disk by the time the new
   identity is, and that one is new (finishProfileReset). *)
IdentityKept ==
  [][/\ version = 1 => version' = 1
     /\ version = 0 /\ version' = 1 =>
          IF legacy # {} /\ numeric THEN row'.id = 1 ELSE row'.id > made
     /\ version = 0 /\ version' = 0 => legacy' = legacy
     /\ row.active /\ row'.active => row'.id = row.id
     /\ ~row.active /\ row'.active /\ version = 1 => Cleared /\ row'.id > made]_vars

(* docs/runtime.md: "显式 reset 写入清空身份的标记，下一次启动先完成配置、配对与
   账户文件的清理，再生成新身份": the next start finishes clearing configuration,
   peers and account before it makes a new identity, which so has none of them. *)
FreshProfileIsEmpty ==
  At("open") /\ row.active =>
    /\ \A k \in store.peers : k.born \in {0, Me}
    /\ store.config.born \in {0, Me}
    /\ store.account.born \in {0, Me}
=============================================================================
