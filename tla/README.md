# TLA+ models of xallor-remote

xallor-remote lets an Agent on one machine run commands and read files on another: a *device*
connects out to a *Relay*, a *client* on the other side connects to the same Relay and invokes
operations of the device; every computer runs a *Runtime* that owns its device identity, its
local jobs and the local IPC. The modules here are translated from the Go code under
`src/internal`; file names below are relative to it.

## Inventory

| Component (code) | State | Operations | Interacts with | Hard part | What makes it correct |
|---|---|---|---|---|---|
| Relay routing, `relay/hub*.go` | `devices`, `access`, `clients`, `inflight`, `requests`, admission leases | hello, settings, revoke, access, invoke, cancel, output, terminal, renew, drop | device store, access service, admission, outboxes | database calls outside the mutex, replaced connections, several maps per route | routes agree with the slots they were admitted under, exactly one terminal, authority never stale |
| Connection loop, `relay/server.go`, `inbox.go`, `outbox.go`, `identity_gate.go` | bounded queues, gates | receive, enqueue, write, drain, overflow | Hub | overflow, eviction by a terminal, close during drain | order per call, losses reported, terminals delivered |
| Hello quota, `relay/quota.go` | buckets of an address, counters of devices | check a hello, count, forget | server | the check and the count are separate | the counter is the number of devices up; no minute lets too many hellos pass |
| Access service and Relay storage, `access/`, `account/`, `principal/`, `storage/` | members, credentials, ownership, shares, device rows in SQL | register, bind, share, switch members, verify | Hub | requests of several transactions, expiry, authority that comes back | what was refused stays refused; only the owner gives rights |
| Job ledger, `job/` | `jobs.json`, OS lock, `Owner` | reserve, start, finish, close, recover | process boundary, Runtime | crashes, ambiguous writes, hand-over of the lock | what may run is recorded; doubt is kept |
| Handoff sessions, `handoff/` | receipts on disk, live sessions, generation | submit, run, cancel, list, close, sync | job ledger, lease guard, device settings | restart with sessions in flight, generation changes during authorisation | a session is run at most once, its end is never invented |
| Lease guard, `delegation/guard.go` | deadline of authority | renew, expire | Relay renewal, child process | the answer is late | no execution after the authority ended |
| Client pool, `noderun/clientpool.go`, `clientmux.go`, `remote_lifecycle.go` | one link, dial in progress, waiters | get, dial, subscribe, push, fail, cancel | Relay | single flight, stale dial, waiters of a dead link | every call returns, output in order, no stale link |
| Local execution, `noderun/local_exec_lifecycle.go`, `approval.go`, `exec.go`, `stream.go` | active executions, pending approvals, processes | start, cancel, respond, time out, shut down | device link, IPC, job ledger | cancel before start, answer against timeout, output against exit | nothing runs unapproved or outlives its link, the terminal tells the truth |
| Device settings, `noderun/device_settings.go`, `daemon.go`, `local.go`, `device_replies.go` | settings gate, durable and held settings, published link | change, revoke, reset, change Relay, connect | Relay, identity store | late confirmation, change during reconnect, failed write | a confirmed change is what the Relay has; a quiet link agrees with it |
| Reads, `noderun/ops.go` | none | stat, open, read a window, cut, send | file system | windows, rune boundaries, files replaced in between | not reported as truncated means whole |
| Identity store, `identity/` | `identity.db`, `config.json`, `peers.json`, `account.json` | import, create, change, reset, finish | Runtime | crashes between files, writes with either outcome | the next start accepts what is left; an identity lasts until a reset |
| Release, `release/`, `cli/ensure_runtime.go`, `runtime_control.go` | `state.json`, the running Runtime | install, activate, roll back, ensure | Runtime, process | crash during activation, a Runtime started by hand | a version is selected only after it ran |
| Pure parts: `execution/`, `shell/`, `protocol/`, `ipc/`, `mcpconfig/`, `buildinfo/`, `appdata/`, `diagnostics/` | none | build, parse, merge, format | | quoting, limits | |
| Heads: `cli/`, `tui/`, `packages/mcp`, `apps/gui` | none of their own | call local IPC | Runtime | | |

How they interact: a device's `hello_device` and `device_settings` reach the Hub through its
connection goroutine; the Hub asks the device store and the access service under the device's
identity gate and publishes the answer under its mutex. On the device, changes of settings and
the connection loop take turns at the settings gate; what the Relay confirmed becomes the device
context that lets executions and handoffs start. A client's `invoke` is admitted by the Hub,
reaches the device's Runtime, which asks for approval where its policy says so, reserves a job
in the ledger and starts a process; frames return over the same route. Handoffs are started the
same way and then live on without the connection, under a lease the Runtime renews.

## Modules

| Module | Models | Kind |
|---|---|---|
| `RelayHub` | `relay/hub*.go`, `identity_gate.go`, the frames of `server.go`, the limits of `admission/` and the store calls of `access/` as the Hub sees them | component |
| `InvocationContract`, `RelayHubContract` | what callers are promised; the Hub implements it | abstract specification and refinement |
| `Outbox` | `relay/outbox.go`: the send queue of one connection | component |
| `HelloQuota` | `relay/quota.go` with the part of `serveConn` that uses it | component with time |
| `DeviceAccess` | `access/`, `account/`, `principal/` and the transactions of `storage/` | component with time |
| `JobLedger` | `job/ledger.go`, `job/owner.go`, the process boundary as they use it | component |
| `ResourceSlots` | bounded slots for processes; the ledger implements it | abstract specification |
| `HandoffManager` | `handoff/`: store, manager, device context, session, executor | component |
| `LeaseGuard` | `delegation/guard.go` and `authority.go`, `noderun/delegation.go`, `device_replies.go` | component with time |
| `RemoteCall` | `noderun/ipc.go`, `clientmux.go`, `remote_lifecycle.go`: calls over one link | component |
| `ClientPool` | `noderun/clientpool.go`, `local.go`: the links themselves | component |
| `LocalExec` | `noderun/local_exec_lifecycle.go`, `approval.go`, `exec.go`, `stream.go`, `device_context.go`: executions on the device | component |
| `DeviceSettings` | `noderun/device_settings.go`, `daemon.go`, `local.go`, `device_replies.go`, the row behind `identity/ops.go`, and the Relay's side of one device connection | composition |
| `ReadWindow` | `noderun/ops.go` `runLocalRead` and what it calls | algorithm against its definition |
| `IdentityStore` | `identity/`: a profile on disk and its open Store | component |
| `Release` | `release/`, `cli/ensure_runtime.go`, `cli/runtime_control.go` | component |
| `RelayHubProofs` | theorems about `RelayHub`, its contract and `Outbox` | proofs |
| `LocalExecProofs`, `DeviceSettingsProofs`, `ClientPoolProofs`, `JobLedgerProofs`, `ReleaseProofs` | theorems about the module they are named for | proofs |
| `AuthorityProofs` | theorems about `LeaseGuard`, `HelloQuota` and `DeviceAccess` | proofs |
| `RuntimeProofs` | theorems about `RemoteCall`, `HandoffManager` and `IdentityStore` | proofs |
| `MC*` | constants for TLC, and the runs that check several small components | model checking |

Each component's module is self-contained. Where two of them meet, one uses what the other one
guarantees: `HandoffManager` uses the ledger as a record per scope and session that is kept in
doubt (`JobLedger`'s `UncertainStays` and `KeyHeldOnce`), `RelayHub` uses a queue that keeps
every terminal or loses the connection (`Outbox`'s `NothingLost`), and output that is dropped
is reported in the exit (`EvictionReported`), `RemoteCall` uses a link that `ClientPool` found
for it and sees only its failures, an execution of `RelayHub`, `LocalExec` or `HandoffManager`
ends at any time that `LeaseGuard` ends it, the contexts that `LocalExec` and `HandoffManager`
are told of are those `DeviceSettings` confirms, and an authorisation the Hub holds is checked
as `DeviceAccess` does.

Every action is a whole critical section. A handler that gives up its mutex in between (a
database call, a dial, the start of a process, the wait for an answer) is split where it does,
and everything else may happen there. An operator with a longer name just before another one
(`ForgetFirstRefused` before `ForgetFirst`) is a mistake the code could have made and did not;
no action uses it. Put in the place of the right one it makes the property named with it in
`PROJECT.json` fail, which shows that the property is about the code.

### RelayHub

State: `devices`, `slot`, `access`, `clients`, `client`, `inflight`, `route`, `requests` and
`leased` are the maps of `Hub` and the admission leases; `conn` is what became of each
WebSocket connection, `task` the database call its goroutine is in, `gate` the holder of a
device's identity gate and `store` the committed rows of the database. The remaining variables
(`running`, `cancelSent`, `ended`, `confirmed`, `lost`, `exit`, `shut`, `lease`) record what the
peers were sent.

| Actions | Code |
|---|---|
| `HelloDevice`, `RegisterDevice`, `HelloClient`, `RegisterClient` | `serveConn`, `hub_identity.go` |
| `UpdateSettings`, `PublishSettings`, `Revoke`, `PublishRevoke` | `hub_authorization.go` |
| `ManageAccess`, `PublishAccess` | `hub_access.go`: register, unbind, member grants, status |
| `IdentityTimeout` | `identity_gate.go`: the gate was not free in time |
| `Invoke`, `Admit`, `RejectInvoke`, `Cancel`, `Terminal`, `DropOutput`, `OutputToClosedCaller`, `DropFromInbox` | `hub_invocation.go`, `inbox.go` |
| `RenewRoute`, `ReplyLease` | `hub_execution_lease.go` |
| `ConnFails`, `DropDevice`, `DropClient` | a write that fails or a queue that overflows; `Hub.Drop` |

A transaction's instant is that of its first action; its result, which may be an error although
it was committed, is published by the second. `Enqueue` succeeds exactly on a connection that
is up, since an overflow is a `ConnFails` just before the handler.

### Outbox, HelloQuota

`queue`, `bytes` and `buffered` are the fields of `outbox`; the writer goroutine's critical
sections are `Take`, `Park`, `GoesToSleep`, `Wake`, `Drained`, `Cancelled`, `Written`, `WriteFails`.
`Enqueue` is output that may be refused (`EnqueueOutput`), a terminal that evicts its call's
output to fit (`Evict`), or any other frame, which fits or gives the connection up
(`GiveUp`). `wake` is the channel of capacity one. What a set of messages retains is written as
the number of its units (`Total`, a cardinality), and the queue without some of its messages
(`Without`) by the increasing enumeration of the places that stay, so that both can be
reasoned about without induction.

In `HelloQuota`, `AllowDeviceHello` checks and remembers a hello under the Limiter's mutex,
`Register` registers the device at the Hub and then counts it, `Disconnects` counts it down,
and `AddBytes` is the traffic of a minute, which may end the connection. Because the count comes
after the check, hellos that are being registered at the same time can all pass, so that the
"hard ceiling" (`硬顶`) of `docs/relay.md` 82-84 for devices of one address can be exceeded for
as long as those connections live. `CeilingKept`, a part of `QuotaInv`, says by how much: the
connections up at or above the limit are among those that were being registered when the last
hello passed (`beside`), that hello included. Hellos that come one after the other never exceed
it, and a Limiter that did not compare the count with the limit would.

### DeviceAccess

`members`, `creds`, `device` and `shares` are rows of the Relay's database, `deviceConn` and
`client` what connections remember of an earlier transaction. `RegisterDevice`, `UpdateDevice` and
`DeleteDevice` are what hello, settings and revoke do to the row (`storage/sqlstore_identity.go`,
`access/device.go`); `Authenticate` and then `Claim`, `Transfer`, `ReplaceShare`, `Unshare` or
`Refuse` (together `Manage`) are the two transactions of a management request, before the second
of which the credential may have been revoked and the owner changed. `AuthenticateClient`,
`LoadDevice` and `Resolve` are a client's hello and invoke; `Allowed` is the decision
`Authorization` takes on each frame.

### JobLedger

`disk` is `jobs.json`, `lock` the OS lock, `ledger`, `mem` and `closing` one `Ledger` per
Runtime process, `owner`, `child` and `doubt` the `Owner` a reservation returned, `procs` what
may really be running. `Open` takes the lock, reads the file and recovers it (a reservation
nothing was started for is dropped, an occupied record becomes uncertain); `Reserve`,
`BeginStart`, `StartReturns`, `StartRefused`, `ChildDone`, `Finish` are `Ledger.Reserve`,
`Owner.Start` (split around the launch, which only holds `launch.RLock`), the process's end and
`Owner.Finish`; `RequestClose` and `Close` are `Ledger.Close` around `launch.Lock`. A save
either succeeds (`Saved`) or fails with the old or the new content on disk and the ledger
failed for good (`SaveFails`). `Crash` may come between any two steps and leaves processes
behind (`OrphanEnds`).

### HandoffManager

`receipts` and `items` are the receipts on disk and in `Manager.items`, `active` the workers (one
per CLI session) with the phase `Manager.run` is in, `tickets` requests whose device context
was captured when they were received and that wait to be submitted, `device` and `generation`
the confirmed context, `err` a store that failed. A worker goes through `Authorise` (the lease),
`StartProbe`, `ProbeEnds`, `PreflightPasses` or `PreflightFails`, `Accept`, `Launch`,
`InitEvent`, `AgentEnds`, `Release`, `FinalUpdate` and `Depart`; each write of a receipt or of
the ledger may fail. `ContextEnds` is the lease, the device context or the shutdown that
cancels it at any point. `Restart` is `store.recover` followed by the ledger's recovery.

### LeaseGuard

A guard is one `Maintain`. `Ask` begins a request and measures its start, `Send` registers a
waiter in `deviceReplies` and writes, `NotSent` is a full table or no link, `Unanswered` the
attempt's timeout, `Answered` the answer, refused or granted; `RelayReads` and `RelayAnswers`
are the Relay's database call and reply, on the connection the request came on; `Deliver` hands
an answer to its waiter if it still exists and was made on this link. `Tick` lets a unit of
time pass and waits only for due timers, up to `Lag` units late: a request may be read,
answered and delivered as late as the run allows. `LinkDown` leaves guards running, as handoffs
do; a foreground execution is also killed by `killAllLocal`, which is a `Stop` that follows.
`expires` bounds the time an execution runs, so that `NeverBeyondAuthority` states its limit on
`expires`.

### RemoteCall, ClientPool

`RemoteCall` follows one call from `Dispatch` over the registration of its waiter (`Track`,
`Begin`), the invoke (`SendInvoke`, under the mutex of its `remoteExec`), its output and
terminal (`PushOutput`, `PushTerminal` by the reader, `TakeOutput`, `TakeTerminal` by the
caller) to `Leave`, and what it tells its head: the exec id (`Announce`), each output of a
stream (`WriteOutput`) and the reply (`Leave`). These writes have no deadline (`ipc/codec.go`
77-80) and last while the head does not read (`stalled`, `HeadStalls`, `HeadReads`). All this
runs against `CancelRemote` (from `IpcCancel` and from `CancelAllForConn`), `ConnBreaks` with
`ReadFails` and `ReaderDrops`, and a change of account or Relay (`ChangeTakes`, `ChangeCancels`,
`ChangeFails`, `ChangeCloses`).

`ClientPool` is `ensureClient`: `Look` in the pool, `Dial`, `Publish`, `WaitEnds`, and what
empties the pool: `SetAccount`, `SetRelay` with `RelaySwitched`, `AddPeer`, `RemovePeer`,
`HeartbeatDrops`, `ReaderDrops`, `Stop`. Two things the model shows and the
properties allow: a link whose reader fails just before it is published may stay in the pool,
closed, until a call fails on it; and a peer removed during a dial leaves an idle link in the
pool until it fails or the next change clears the pool.

A streamed call that writes to a head that does not read does not notice that its connection
failed; `CallsReturn` says that this is all it can wait for, and that it ends once the head
reads or goes. Both modules rest on one assumption about `coder/websocket`, outside the
repository: a connection on which a `Read` or `Write` returned an error is closed for both.

### LocalExec

One goroutine per execution (`exec[e].pc`): `Check` the policy, `Ask`, `TellHeads` and
`AskReturns` for the approval, `Prepare`, `Lease`, `ReserveExec`, `Start` and `Launch`, then
`Pump` for the output its process `Writes`, `ChildEnds`, `DrainTimesOut` and the steps to its
terminal (`Steps` is their disjunction). The reader of the link is `StartLocalExec`,
`CancelExec` followed by `CancelLocal` (the pending approval is refused first, the context ended
second), and `SyncDeviceContext`; a head `Respond`s. `LinkFails`, `KillAllLocal` and `LinkUp`
are the loss and the return of the link, `Stop`, `WaitLocalExecs` and `CloseJobs` the Runtime's
end in `Daemon.Run`. What is told to the caller is recorded in `term`, what the process really
did in `run`, so that `TerminalIsTrue` compares the two.

`ask` writes the approval to every subscribed head before it starts its timer and looks at its
context (`approval.go` 79-83), without a deadline: an execution whose head does not read
(`stalled`) outlasts its cancel and `approvalWait`, and with it `waitLocalExecs` and the
Runtime's stop. `EndedReturns` says that nothing else delays an execution whose context ended,
and that both get through once the head reads or goes.

### DeviceSettings

`gate` is the settings gate: `Slots` users may wait or work, one works. An operation takes the
gate (`Queue`, `Acquire`), saves the row (`Save`), sends its frame (`SendSettings`) and waits
for the confirmation, the timeout or the loss of the link (`Deliver`, `GivesUp`); `Revoke`,
`Reset` and `SetConfig` are the other users. `updateDeviceSettings` releases the gate and then
replies. The other three reply with the gate held (`local.go` 37-43, 52-68, 108-146) and without
a deadline: `Replies` leaves them at the write, `HeadStalls` and `HeadReads` are the head that
stops reading it and reads again or goes, and `Reply` is the end of the write, with the release
of the gate and, for `reset`, the stop of the Runtime. A head that does not read thus locks the
settings and the connection loop; `GateMoves` says that nothing else does. The connection loop
is `NodeQueue`, `NodeAcquire`, `Refresh`, `Dial`, `Greeted`, `Publish`, `HandshakeFails` and
`Disconnected`. `RelayHandles` and `RelayDrops` are the Relay's side of one connection, with its
row of the device (`table`) and which connection it takes for the device's (`current`); `up` and
`down` are the frames under way. Grants are numbers, each issued one new, so that an old grant
is told from the current one.

The model shows one thing a reader of the code may not expect: a revoke that ran out of time
before its frame was sent (`local.go` 42, the result of `pushRevoke` is not used) is answered
`ok` while the link stays up, so that the Relay keeps the settings it had until the next
handshake. The variable `mute` remembers it and `QuietLinkAgrees` excepts it.

### ReadWindow

A file is a sequence of classes of bytes (a letter, a newline, the first and the second byte of
a rune, a byte no rune has). `Stat`, `Replace`, `Read` are `runLocalRead` with a replacement of
the file possible in between; `Read` computes what the code computes, with the names of its
helpers (`readWorkspaceWindow`, `sliceRead`, `tailStart`, `snapUTF8Start`, `clampUTF8Prefix`),
and `Selection` says what was asked for. Two things are left to the reader: the lines from the
end are counted with the size asked for before the file was opened, so that a file replaced in
between by one of another size may be read from the wrong byte without a mark
(`UnflaggedIsWhole` excepts it); and the halving of a frame that is too large in
`sendStdoutFrames` never happens, since `stdoutFrameBudget` already allows for the worst
escaping.

### IdentityStore, Release

`IdentityStore`: `version` and `row` are `identity.db`, `legacy` the files of the version
before it, `peers`, `config` and `account` the other files, `store` the open Store with its
place in `LoadFrom`. Loading is `ReadFiles`, `Import`, `RefuseImport` or `Create`, `LoadRow`,
`RemoveLegacy` (one file a step), `ClearProfile` (one file a step), `Renew`, `LoadAccount`; the
operations are those of `ops.go`, `config.go` and `account.go`, with `Publish` the guarded
update of the row. Every write may fail, one of the database with either outcome, and `Crash`
may come at any step. A file carries the identity it was stored under (`born`). The identity of
the earlier version is 1; if its id is not numeric (`numeric`), `Import` replaces it by a new one
(`device_import.go` 40-46, `store_test.go` `TestShould_migrateNonNumericDeviceID`), another one
each time a start gets as far as that, so that `IdentityKept` speaks of the identity of the first
row that is committed.

`Release`: `file` is `state.json`, `running` the version of the running Runtime, `op` the
operation that holds `install.lock` and its place in `activate`, `restore`, `Rollback` or
`ensureRuntime`. Each write, each stop and each start is a step that may fail, and the process
may die between any two (`Fail`, `StopTimesOut`, `StartTimesOut`, `ApplyFails`, `Crash`), while
Runtimes exit and are started by hand beside it.

## What the runs check

`PROJECT.json` says which properties each run checks; each is stated in its module with the
code it is about. Small facts about one component in every state are grouped in one invariant
with named parts.

| Run | Question and bounds |
|---|---|
| `relay_routing` | Two devices, two device connections, two client connections, two routes, one admission place per device. Do the Hub's maps agree, is no invocation lost or answered twice, does a route end only for a cause, does the Hub implement the contract? Two connections are enough for every pair of hazards: replacing, being replaced, arriving late, being untouched. |
| `relay_authority` | One device with two connections, one client, one route, three random identifiers. All frames except output and terminals: settings, revocation, ownership, status and lease renewals race with a reconnection and with errors of the database. Three identifiers are enough for a device recreated after an ownership change. |
| `relay_terminals` | As before with output and fairness. Exits admit dropped output; every invocation ends; no gate is kept. |
| `ledger` | Two Runtimes, two executions of the same key or of two keys, a handoff of the first key, capacity two and one place for handoffs. Ambiguous saves, failed launches, `Close` and crashes in any order; refinement of `ResourceSlots`; `Close` returns under fairness. Two Runtimes are enough for a hand-over, since a third only repeats it, and they are interchangeable, so that the first job may be the first one's. |
| `client_pool` | Two calls, one device, two grants, two Relays, one change (a change of the account is a new generation, whatever credential it sets), under fairness. |
| `local_exec` | One execution of any policy class with a timeout, two links, two reads of two units against an output limit of three, so that the second one exceeds it; every cancel, answer, timeout, lost lease and lost link at every step, and a head that reads what it is asked or does not, under fairness. Executions meet only in the slots, which the model lets refuse at any time, and at the reader, where a frame waits as long as it likes; two executions at once are beyond what the run can explore. |
| `device_settings` | Two operations of any kind with the connection loop at a gate of two slots (so that one user is refused), two Relays (interchangeable, so that the first one configured is fixed), two connections, heads that read their replies or do not, under fairness. |
| `safety` | Three components: two calls of one head, one of them streamed, without output (`RemoteCall`; ids are only compared, so they are taken up to a permutation); two scopes, two ids, one CLI session, two submissions, three context changes, one restart, a ledger of capacity one (`HandoffManager`); two peers, two Relays, three identities (so that an id that is not numeric is replaced and the profile reset once, or it is replaced twice), five writes of the row (`IdentityStore`). |
| `settling` | Three components under fairness: a streamed call with three outputs and one slot (`RemoteCall`), of which it also checks what `safety` checks of calls without output; a submission over two scopes and one restart (`HandoffManager`); three versions, one of which cannot run, and three faults (`Release`): enough for an activation that fails, whose undoing fails, with a Runtime that comes or goes meanwhile. |
| `outbox` | Three messages, two calls, frames of sizes 1 and 2, limits of 2 frames, 3 bytes and 2 per call with reserves of 1: each limit is the first to be reached in some behaviour. |
| `authority` | Four components. `LeaseGuard`: one execution, three requests, two connections; lease 6, interval 2, timeout 2 are tighter than the code's 20 s, 5 s and 5 s, and still let a lease outlive one renewal that fails and its retry; timers are served at once (`Lag` is 0), the caller's own authority ends at 9, and the horizon is 8, past the end of a first lease and its renewal. `DeviceAccess`: two members, two credentials, one device connection, one client, one share, one change of a membership, four ids, one unit of time. `HelloQuota`: three connections, one device and two hellos a minute of two ticks, over three ticks. `ReadWindow`: every text of at most six bytes against limits of four, three and two bytes, with every selection of up to three lines or bytes. |
| `identity_reset` | A profile with one peer: a violation, below. |

A run of several components checks them one at a time: they share no state, a variable `part`
says which of them a behaviour is about, and the others stay where they began. Interleaving the
steps of components that share nothing shows nothing new about either and multiplies their
states. What they have in common is stated between the modules as described above.

Deadlock is checked except where the system may really stop: in `device_settings` all
operations have returned and no connection is left, and in `settling` a component has used up
its bounds, and in `identity_reset` a profile whose identities are used up does not start
again. In the other runs a state in which everything is over has an explicit stuttering
action (`Exhausted`, `Over`, `Idle`; in `authority`, the two components whose time runs out may
stutter).

Symmetry is used in safety runs only, for identities that are only compared. Every bound is a
constant marked as one where it is declared, and named in the guards it caps.

### A disagreement between the code and its documentation

`identity_reset` violates `FreshProfileIsEmpty`, which states `docs/runtime.md` 52 and the
comment in `identity/ops.go` 69-70: the start after a reset finishes clearing the profile before
it makes a new identity. `LoadFrom` does so on disk, but it has read `config.json` and
`peers.json` before (`store.go` 55), so that when the Runtime died in the middle of the reset,
the Store of the new identity still holds the old profile's Relay and peers, works with them,
and writes them back with the next change. `MemoryIsDurable` holds of every other start.

### Fairness

Goroutines that can run do (Go's scheduler); a database call returns within the five seconds of
its context; a write to the Relay or to one of its peers is bounded by `RelayWriteTimeout` and a
dial by `RelayIdentityTimeout`; a Go `RWMutex` lets no new reader pass a waiting writer; an
armed timer fires; a process group that is killed ends; every wait for the Relay's confirmation,
for the answer to an approval, for the stop or the start of a Runtime has a deadline. In
`Release`, someone who finds an interrupted installation sooner or later asks for the rollback
the error message names. Strong fairness is assumed of the terminal a device sends for an
execution (`RelayHub`): the execution ends at its timeout at the latest, and since frames of one
connection are handled in order, the terminal has its turn however often the handler is busy
with another frame.

Writes to local heads have no deadline (`ipc.Conn.WriteFrame`), and no head has to read. Whether
one does is the head's choice at any time, and the only assumption is strong fairness of the
write itself (`TellHeads` of `LocalExec`, `Reply` of `DeviceSettings`, `WritesToHead` of
`RemoteCall`): a head that again and again is found reading, or gone, gets what is written to
it. `EndedReturns`, `GateMoves` and `CallsReturn` therefore have two parts, what happens whatever
the heads do, and what happens if the heads concerned, time and again, read or go (`HeadsRead`,
`HeadTakes`).

Nothing is assumed of peers, users, the network or the Relay as seen from a client: a call may
wait for an answer as long as its connection lives.

## What is proved

All theorems are about every value of the constants that satisfies the module's named
assumption, which is an assumption of the module or, where runs use the module as an instance,
an hypothesis of the theorem (`ASSUME ... PROVE`).

`RelayHubProofs`, for any finite sets of devices, connections, calls and identifiers and any
admission limit (`HubAssumption`):

- `RouterCorrect`, `AuthorityHolds`, `DeviceFollows`, `TruncationHolds`: the four invariants of
  the runs, `RouterInv`, `AuthorityCurrent`, `DeviceInStep` and `TruncationReported`;
- `RoutesEndForCause` and `LeasesAuthorised`: the two action properties;
- `KeepsContract`: `Spec => ImplementsContract`, the refinement of `InvocationContract`.

None of the invariants is inductive. What the Hub knows of a device is only as good as the
handler that holds the device's gate: between its transaction and its publication the database
is ahead of the maps. The inductive invariant `IInv` therefore says what the handler in
progress has still to do (`PendingSound`: the record it is going to publish is the one in the
store, and no other connection has taken the device's slot), that only the holder of a
gate has anything to publish (`GateHeld`), what a connection that is not registered yet may and
may not appear in (`Greeted`, `Newcomer`), and what the slot of a device has when no one is
publishing to it (`SlotSound`); with the gate free, `AuthorityFresh` is what remains. `Known`
collects these; to it come the parts about peers (`DeviceInStep`, `OutputSound`, `ShutSound`),
the bound of admission, and that nothing in flight has been answered. The proof goes over the
steps once: each either settles a set of routes or admits one (`StepRoutes`, `Settles`), and a
route in flight is carried on unchanged or ends for a cause (`Fate`). The action properties and
the refinement are read off the same two facts: `Settles` is a `Settle` of the contract, an
`Admit` that finds the device gone its `AdmitAndSettle`.

`RelayHubProofs`, of `Outbox`, for any calls, any frame sizes and any limits with reserves
(`OutboxAssumption`): `QueueSound`, `OutboxSpec => []QueueInv`, and `NothingIsLost`,
`OutboxSpec => NothingLost`. The strengthening `QueueIInv` says that everything written, being
written and queued stands in one line and was accepted (`InLine`), that output never uses the
reserve (`ReserveKept`: what is then refused to a control frame must be control frames,
`OverflowIs`), that only a terminal has evicted, only output of its own call, and that an exit of
such a call says so (`Evictions`), and that on a connection that was not cut whatever was accepted
and not evicted is somewhere (`Complete`). An eviction leaves counters that are exact again
(`EvictLeaves`) by `WithoutIs` and the additivity of `Total`; `Lossless` states of each step that
it lets go only of what it evicts, from which `NothingLost` is read off.

`LocalExecProofs`, for any set of executions, any sizes of output and any limits
(`ExecAssumption`): `RunsAsAllowed`, `Spec => []ExecInv`, and `EndsWithItsCause`,
`Spec => []NothingOutlives`. The strengthening follows one execution through its goroutine
(`Sound`): what its approval's channel may hold before it is asked for and that an accepted
answer stays (`AskSound`); at which places a slot, a process and unread output exist, that a
command past its approval was allowed, and that a process that was killed had lost its context
(`RunSound`); and what the terminal may say once it is sent (`TermSound`). `Turned` says what one
step of the goroutine leaves alone, so that the other executions, the reader and the daemon are
dealt with once (`TurnKeeps`), and `EndedKeeps` does the same for every step that ends contexts.
`NothingOutlives` needs one more fact: an id is not cancelled before its invoke (`Fresh`).

`DeviceSettingsProofs`, for any finite set of operations, any Relays and any number of
connections and of places at the gate (`SettingsAssumption`): `SettingsAgree`,
`Spec => []SettingsInv`, and `AppliedWhenOk`, `Spec => OkMeansApplied`. That a quiet link agrees
says nothing of a link on which frames are under way, so the strengthening says what those may
be, at each place of the connection loop (`WireSound`): during the handshake a hello or its
answer (`HelloPhase`), then the settings of the row or an answer that is only `""` if the Relay
has them (`ConfirmPhase`), and once the link serves, revokes and last the settings of the one
call that waits (`Said`), whose answer tells what the Relay has (`Answered`). Frames of earlier
connections may arrive at any time; they are harmless because a Relay that greeted the new link
no longer listens to the old one (`Alone`), and because nothing is under way in the name of a
call that has not sent (`KeySound`). The rest is about the device: who works has the writer's
place and gives it back (`GateSound`), what is being sent is what the row and the Store have, and
a change waits on a link to the configured Relay (`RowSound`), and one link at most is up
(`LinkSound`). `OkIsHeard` finds the only step that reports a change as applied, and `Answered`
says what is so when it is taken.

`JobLedgerProofs`, for any number of Runtimes, any finite set of jobs and any limits:

- `TypeCorrect`, and `InvariantHolds` for the inductive invariant
  `IInv == TypeOK /\ LockInv /\ OwnerInv /\ RunningIsRecorded`;
- `RunningRecorded`, `RecordsHold`, `CapacityHeld`: the invariants of the runs, with
  `MemoryCurrent` and `KeyOnce` as parts;
- `LaunchesUnderLock`, `UncertainForGood`: the two action properties;
- `Refinement`: `Spec => ImplementsSlots`.

`RunningIsRecorded` is not inductive: a launch is recorded only because the Runtime that starts
it still holds the lock (`LockInv`: a ledger that may write holds the lock and its memory is the
file) and because its owner's state agrees with the record (`OwnerInv`: `starting` means the
record is occupied and the lock is held; a process that runs under an open owner is known to
it, or the owner is uncertain). A crash removes the memory and the owner but no record, which
is why the file alone has to account for processes. `SaveInv` states once what a save, good or
failed, does to `LockInv`; `InvStep` has one step per action. `DiskStep` and `RecordedStep` say
which changes of the file are possible at all, and the limits, the permanence of doubt, the keys
and the refinement follow from them.

`ClientPoolProofs`, for any calls, devices, grants, tokens and Relays and any number of changes
(`PoolAssumption`, an assumption of the module): `PoolSound`, `Spec => []PoolInv`, and
`CallsKeepIdentity`, `Spec => KeepsIdentity`. A connection bears the name of the call that
dialled it, and what is in the pool is told apart by its key, so the strengthening says what a
call has captured at each place (`CallSound`), that a connection exists only once its call
dialled and is in the pool only once its call published it (`ConnSound`), and that what a call
uses was dialled under its own key (`UseSound`). A dial that ends late is dropped because the
generation in its key is not the present one; `generation <= changes` makes the count of
changes a bound on generations.

`AuthorityProofs`, of `LeaseGuard`: `AuthorityBounds`, `Spec => []NeverBeyondAuthority`, for any
durations, any lag of timers, any number of executions, connections and requests
(`GuardAssumption`). The strengthening says for each execution that its next timer fires before
its lease ends and that the lease is within what its authority allows (`Timed`), and of
everything under way that an answer to the request in progress was read after that request
began (`Backed`) and grants no more, counted from there, than either limit (`Limited`): the
guard counts a lease from before it asked, which is what makes a late answer harmless. Older
answers may say anything; `Latest` excludes them by the number of the request.

`LeaseKept`, `Spec => []LeaseInv`, adds that the waiters are those in use and that one failed
renewal ends no execution. The latter needs `TimingAssumption`, that a lease leaves time for two
requests that fail: it is so of the code's 20 s for a lease, 5 s for a request and 10 ms for the
shortest wait with timers up to a second late, and of the numbers of the run. The second
invariant, `RInv`, says how much of a lease is left before and after its first failure
(`LeavesTime`), that timers are late by the lag at most (`Served`), that failures are counted
among the requests made (`Counted`), and that every answer that grants anything grants a full
lease or all the caller has left (`Full`). `WaitBounds` says what `Wait` returns, a third of
what is left, rounded down, and no less than the minimum.

`AuthorityProofs`, of `HelloQuota`: `QuotaKept`, for any finite set of connections and any limits
(`QuotaAssumption`). `QuotaInv` is not inductive, since the Limiter forgets hellos: `Remembered`
says that those it let through in the last minute are among the ones it keeps. `CeilingHeld`
strengthens `CeilingKept` to the connections that may still come up: apart from those being
registered when the last hello passed, they are what was up then, which the check compared with
the limit, and nothing is added to them afterwards. `HelloRate` is
the step that matters: a minute that contains the new hello contains nothing later and only
remembered ones before.

`AuthorityProofs`, of `DeviceAccess`, for any finite set of members, any credentials,
operations, connections and clients, and any limit of shares (`AccessAssumption`): `AccessSafe`,
`AccessSpec => []AccessInv`, and `RightsKept`, `AccessSpec => AccessChanges`. Rights that are
gone for good rest on ids that are never drawn twice, so the strengthening `AccessIInv` says
that whatever a row, a connection or a client bears was drawn already (`Drawn`), and that who
signed in did so with a credential that is still the same member's, under a version of the
membership that is at most the present one (`ActorSound`). `SharesSound` is the part about
shares, with the fact that a device without a row has no owner and that there are finitely many.
`RowStep` lists what a transaction can do to the device's rows, so that the many requests that
end in one are dealt with once. Three lemmas read a right backwards over a step: a binding in
force after it that bears only old ids was in force before (`BindingBack`), a share with an old
id was there (`ShareBack`), and an identity that verifies after it verified before
(`ActorKept`).

`ReleaseProofs`: `SelectedRun`, `Spec => []ReleaseInv`, and `CandidateLeft`,
`Spec => CandidateNotRetried`, the safety half of `RecoveryIsSound`, for any versions and any
number of faults. The strengthening adds that a version that cannot run never does, and what the
operation in progress knows (`Sound`): the state it falls back to is good, and a candidate being
applied, or tracked after its start, did run. For `CandidateLeft` it adds that what an ensure is
about to start is what `state.json` still selects (`EnsuresSelected`), as nobody else writes the
file while it holds `install.lock`.

`RuntimeProofs`, of `IdentityStore`: `ProfileSound`, `Spec => []IdentityInv`, and
`IdentityForGood`, `Spec => IdentityKept`, of numeric ids and of others, which the first row
never has (`NumericSound`). The strengthening says what the row can be (`RowSound`) and what the
Store holds at each place of `LoadFrom` (`StoreSound`): a record in use from the import on, the
configuration on disk unless it was started over an unfinished reset, and in the end the account
on disk. `CommitStep` and `PublishStep` state once what a transaction with either outcome does.

`RuntimeProofs`, of `RemoteCall`, for any heads and calls, any number of slots of a waiter and any
amount of output (`CallAssumption`): `CallSafe`, `CallSpec => []CallInv`, and `CallHonest`,
`CallSpec => []CallIsHonest`. That an exit comes after all output speaks of the last step of a
message that was pushed, buffered, perhaps dropped and taken before it, so the strengthening
`CallIInv` follows each call's output from end to end (`Flowing`): what the caller has seen and
what its buffer holds are increasing and together all that was pushed unless the waiter says
some was dropped, which is what an exit may then claim. To it come where a call is
against what was sent for it (`Sending`: nothing of it is anywhere before its invoke), that a
waiter is closed exactly when it is finished, and for a cause (`Ending`), and, for cancels, that a
call of a head that was swept is being cancelled or its cancel is on the wire, wherever its worker
stands (`Sweeping`). `SameKept` says once that a step on one call keeps what is known of the others.

`RuntimeProofs`, of `HandoffManager`, for any finite sets of scopes and request ids, any
contents, sessions and device contexts and any limits (`HandoffAssumption`): `ManagerSafe`,
`HandoffSpec => []ManagerInv`, and `ReceiptsKept`, `HandoffSpec => ReceiptsChange`. A receipt is
written before memory, both may fail to be, and the process may die in between, so that neither
alone says whether a request was launched. The strengthening `HandoffIInv` says how far apart
the two may be (`StoresAgree`: memory has nothing the disk has not, with the same contents, and
is the disk while the store reports no error), what a worker at each of its phases relies on and
which slot of the ledger covers it (`WorkerSound`), that a slot, occupied or in doubt, accounts
for each process, the only one of its session (`ProcSound`), and that a submission received
under an older context has an older generation (`TicketSound`). A request is launched only by
the worker of its receipt, which is never forgotten, and a restart makes unfinished receipts
unknown and leaves occupied slots in doubt: this is what rules out a second launch.
`WorkerThinks`, `WorkerStarts` and their neighbours state once what a step of one worker leaves
of the others.

Only model-checked: the invariant of `ReadWindow` and all liveness. `ReadWindow` selects lines
with recursive operators (`HeadLines`, `Framed`); what those compute for every input takes
induction over data. The proof system covers neither that nor liveness under fairness or `ENABLED`.

## What is not modelled

Per component, with its reason, in `PROJECT.json`. In short: text and bytes (shell quoting, IPC
framing, protocol validation, report formatting, `mcp.json` merging), SQL texts and the
versions of the schema, the signature of delegation proofs, cgroup, process-group and Windows
job mechanics below the process boundary, what a release manifest promises of each file, and
the heads, which only speak IPC. Of the modelled components: delegated invocation and renewal
of background leases in the Hub (`hub_delegation.go`), the global and per-connection limits of
`admission/`, the individual preflight checks of a handoff and the parsing of its JSONL stream,
local IPC operations that only answer, and operations on directories and writes of files.

## Plan

In this order:

1. `hub_delegation.go` in `RelayHub`; a composition of `LeaseGuard` with its route.
2. The Relay's `Inbox` with the reader and handler of a connection, composed with `Outbox`.
3. `DeviceSettings` and `LocalExec` composed over the device context, so that a change of
   settings and an execution in progress meet in one model.
4. File writes and edits (`noderun/fs.go`) with concurrent changes of the file.
5. Pure parts as operators with a reference definition: candidate selection in `shell/`, the
   backoff of reconnections.
