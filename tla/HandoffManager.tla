--------------------------- MODULE HandoffManager ---------------------------
(***************************************************************************)
(* Durable Agent handoffs (internal/handoff).  A submitted request gets a  *)
(* receipt on disk and a worker that authorises it, checks the workspace,  *)
(* runs the Agent's CLI and records how that ended.  The receipt outlives  *)
(* the connection it came on, the worker's authority and the Runtime.      *)
(*                                                                         *)
(* Manager.mu makes Submit, SyncDevice and each receipt update one step;   *)
(* the worker's other calls (renew a lease, start a process, wait for it,  *)
(* release the job) happen outside of it and are steps of their own.  The  *)
(* job ledger is used here as JobLedger specifies it: a record per scope   *)
(* and session, kept when doubt remains.  One Runtime at a time runs on a  *)
(* data directory (runtime.lock); it may be restarted.                     *)
(*                                                                         *)
(* An operator defined just before another one, with the same parameters   *)
(* and a longer name, is a mistake the code could have made; no action     *)
(* uses it.                                                                *)
(***************************************************************************)
EXTENDS Naturals, FiniteSets

CONSTANTS
  Scope,          \* invocation scopes: principal, tenant, device and ownership
  Id,             \* request ids callers choose
  Content,        \* what a request says, as its fingerprint tells it apart
  Session,        \* CLI sessions
  SessionOf,      \* the session a content names
  Context,        \* device contexts the Relay confirms
  Allowed,        \* the scopes a context allows
  NoContext,      \* before the first confirmation
  MaxReceipts, Capacity,
  MaxTicket,      \* bound: submissions received
  MaxGeneration,  \* bound: changes of the device context in one Runtime
  MaxRestart      \* bound: restarts

HandoffAssumption ==
  /\ IsFiniteSet(Scope) /\ IsFiniteSet(Id)
  /\ SessionOf \in [Content -> Session]
  /\ Allowed \in [Context -> SUBSET Scope]
  /\ NoContext \in Context /\ Allowed[NoContext] = {}
  /\ MaxReceipts \in Nat /\ Capacity \in Nat
  /\ MaxTicket \in Nat /\ MaxGeneration \in Nat /\ MaxRestart \in Nat

Request == Scope \X Id                  \* requestKey
Job == Scope \X Session                 \* the ledger's key of a handoff
NonTerminal == {"received", "accepted", "running"}
Terminal == {"completed", "failed", "unknown"}
Receipt == [state: NonTerminal \cup Terminal, content: Content]
Tickets == [nr: 1..MaxTicket, request: Request, content: Content, generation: 0..MaxGeneration]
Phase == {"authorising", "preflight", "probing", "accepting", "launching", "reading", "ended", "released", "leaving"}
Worker == [phase: Phase, request: Request, ctx: {"live", "revoked", "over"},
           result: Terminal, doubt: BOOLEAN]

VARIABLES
  receipts,       \* receipt files: a function on the requests that have one
  items,          \* Manager.items
  err,            \* Manager.err is set
  runtime,        \* "up", "stopping" once its context is cancelled, "closed", or "dead"
  restarts,
  device,         \* Manager.device
  generation,     \* Manager.generation
  tickets,        \* submissions received and not yet decided
  received,       \* number of submissions received
  active,         \* Manager.active with its worker, a function on sessions
  slots,          \* jobs.json: records of handoff jobs
  ledgerErr,      \* Ledger.err is set
  procs,          \* requests of which some process may be running
  launched,       \* times the Agent was launched for a request
  settled,        \* requests whose job was released with its cleanup confirmed
  outdated        \* tickets that were captured before the last context change

receiptStore == <<receipts, items, err>>
ledger == <<slots, ledgerErr>>
history == <<procs, launched, settled, outdated>>
handoffVars ==
  <<receiptStore, runtime, restarts, device, generation, tickets, received, active, ledger, history>>

HandoffTypeOK ==
  /\ DOMAIN receipts \subseteq Request /\ \A r \in DOMAIN receipts : receipts[r] \in Receipt
  /\ DOMAIN items \subseteq Request /\ \A r \in DOMAIN items : items[r] \in Receipt
  /\ err \in BOOLEAN /\ ledgerErr \in BOOLEAN
  /\ runtime \in {"up", "stopping", "closed", "dead"}
  /\ restarts \in 0..MaxRestart /\ received \in 0..MaxTicket
  /\ device \in Context /\ generation \in 0..MaxGeneration
  /\ tickets \subseteq Tickets
  /\ DOMAIN active \subseteq Session /\ \A k \in DOMAIN active : active[k] \in Worker
  /\ slots \in [Job -> {"none", "reserved", "occupied", "uncertain"}]
  /\ procs \subseteq Request /\ settled \subseteq Request
  /\ launched \in [Request -> 0..MaxTicket]
  /\ outdated \subseteq 1..MaxTicket

Nothing == [r \in {} |-> 0]
With(f, x, v) == [y \in DOMAIN f \cup {x} |-> IF y = x THEN v ELSE f[y]]
Without(f, x) == [y \in DOMAIN f \ {x} |-> f[y]]

HandoffInit ==
  /\ receipts = Nothing /\ items = Nothing /\ err = FALSE
  /\ runtime = "up" /\ restarts = 0
  /\ device = NoContext /\ generation = 0
  /\ tickets = {} /\ received = 0
  /\ active = Nothing
  /\ slots = [j \in Job |-> "none"] /\ ledgerErr = FALSE
  /\ procs = {} /\ launched = [r \in Request |-> 0] /\ settled = {} /\ outdated = {}

-----------------------------------------------------------------------------
(* The two stores.  A write that fails leaves the old file or the new one and
   makes its owner refuse further work. *)
JobOf(r, c) == <<r[1], SessionOf[c]>>
Records == {j \in Job : slots[j] # "none"}
LedgerSaves(s) == slots' = s /\ UNCHANGED ledgerErr
LedgerFails(s) == slots' \in {slots, s} /\ ledgerErr' = TRUE

Persists(r, x) == receipts' = With(receipts, r, x) /\ items' = With(items, r, x) /\ UNCHANGED err
PersistFails(r, x) == receipts' \in {receipts, With(receipts, r, x)} /\ err' = TRUE /\ UNCHANGED items

(* update: only a receipt that has not ended, and only while the store works. *)
CanUpdate(r) == ~ err /\ r \in DOMAIN items /\ items[r].state \in NonTerminal
Updated(r, state) == [items[r] EXCEPT !.state = state]

-----------------------------------------------------------------------------
(* The device reader and the submissions it receives. *)

(* handleHandoffInvoke captures the generation before the goroutine that
   submits is started. *)
Capture(r, c) ==
  /\ runtime = "up" /\ received < MaxTicket
  /\ received' = received + 1
  /\ tickets' = tickets \cup {[nr |-> received + 1, request |-> r, content |-> c, generation |-> generation]}
  /\ UNCHANGED <<receiptStore, runtime, restarts, device, generation, active, ledger, history>>

(* SyncDevice: a changed context outdates every ticket and revokes the workers
   whose scope it does not allow. *)
SyncDevice(c) ==
  /\ runtime \in {"up", "stopping"} /\ (device # c => generation < MaxGeneration)
  /\ device' = c
  /\ generation' = IF device # c THEN generation + 1 ELSE generation
  /\ outdated' = IF device # c THEN outdated \cup {t.nr : t \in tickets} ELSE outdated
  /\ active' = [k \in DOMAIN active |->
        IF active[k].request[1] \notin Allowed[c] /\ active[k].ctx = "live"
        THEN [active[k] EXCEPT !.ctx = "revoked"] ELSE active[k]]
  /\ UNCHANGED <<receiptStore, runtime, restarts, tickets, received, ledger, procs, launched, settled>>

UpToDate(t) == t.generation = generation /\ t.request[1] \in Allowed[device]

HasReceiptIfUnfinished(r) == r \in DOMAIN items /\ items[r].state \in NonTerminal
HasReceipt(r) == r \in DOMAIN items

OwnsSession(scope, k) ==
  \A r \in DOMAIN items : SessionOf[items[r].content] = k => r[1] = scope

Full(n) == n >= MaxReceipts

Admissible(t) ==
  LET k == SessionOf[t.content]
  IN  /\ ~ err /\ runtime = "up" /\ UpToDate(t)
      /\ ~ HasReceipt(t.request) /\ OwnsSession(t.request[1], k)
      /\ ~ Full(Cardinality(DOMAIN items)) /\ k \notin DOMAIN active

Room(j) == slots[j] = "none" /\ Cardinality(Records) < Capacity

NewWorker(r) == [phase |-> "authorising", request |-> r, ctx |-> "live", result |-> "unknown", doubt |-> FALSE]

(* Submit: reserve the job, then write the receipt, then start the worker.  A
   receipt that cannot be written releases the job again. *)
Submit(t) ==
  LET r == t.request
      j == JobOf(r, t.content)
      reserved == [slots EXCEPT ![j] = "reserved"]
      receipt == [state |-> "received", content |-> t.content]
  IN  /\ t \in tickets /\ Admissible(t) /\ ~ ledgerErr /\ Room(j)
      /\ tickets' = tickets \ {t}
      /\ \/ /\ LedgerSaves(reserved) /\ Persists(r, receipt)
            /\ active' = With(active, SessionOf[t.content], NewWorker(r))
         \/ /\ LedgerSaves(slots) \/ LedgerFails(reserved)   \* Owner.Finish after it
            /\ PersistFails(r, receipt) /\ UNCHANGED active
         \/ /\ LedgerFails(reserved) /\ UNCHANGED <<receiptStore, active>>
      /\ UNCHANGED <<runtime, restarts, device, generation, received, history>>

(* Everything else Submit answers: the receipt that is there already, or a
   refusal.  The common capacity may be taken by exec jobs at any time. *)
SubmitRefused(t) ==
  /\ t \in tickets /\ runtime \in {"up", "stopping"}
  /\ tickets' = tickets \ {t}
  /\ UNCHANGED <<receiptStore, runtime, restarts, device, generation, received, active, ledger, history>>

-----------------------------------------------------------------------------
(* The worker of session k. *)
Step(k, w) == active' = [active EXCEPT ![k] = w]
WorkerAt(k, phase) == k \in DOMAIN active /\ active[k].phase = phase
Req(k) == active[k].request
JobAt(k) == JobOf(Req(k), items[Req(k)].content)
Others == <<runtime, restarts, device, generation, tickets, received>>

(* The run is over: a lost authority outweighs every result but an unconfirmed
   cleanup, which is unknown as well. *)
Result(w, result) == [w EXCEPT !.phase = "ended", !.result = IF w.ctx = "revoked" THEN "unknown" ELSE result]
EndsUnknown(w) == [w EXCEPT !.phase = "ended", !.result = "unknown"]

(* The request's timeout, or the lease guard: denied or expired. *)
ContextEnds(k) ==
  /\ k \in DOMAIN active /\ active[k].ctx = "live"
  /\ \E cause \in {"revoked", "over"} : Step(k, [active[k] EXCEPT !.ctx = cause])
  /\ UNCHANGED <<receiptStore, Others, ledger, history>>

(* delegation.Maintain answers before anything is started. *)
Authorise(k) ==
  /\ WorkerAt(k, "authorising")
  /\ \/ active[k].ctx = "live" /\ Step(k, [active[k] EXCEPT !.phase = "preflight"])
     \/ Step(k, EndsUnknown(active[k]))
  /\ UNCHANGED <<receiptStore, Others, ledger, history>>

(* prepareStart of the job ledger: occupied before a process is started. *)
Occupied(j) ==
  /\ ~ ledgerErr /\ slots[j] \in {"reserved", "occupied"}
  /\ LedgerSaves([slots EXCEPT ![j] = "occupied"])

(* preflight runs git and the CLI itself, one supervised process at a time. *)
StartProbe(k) ==
  /\ WorkerAt(k, "preflight") /\ active[k].ctx = "live" /\ Occupied(JobAt(k))
  /\ procs' = procs \cup {Req(k)}
  /\ Step(k, [active[k] EXCEPT !.phase = "probing"])
  /\ UNCHANGED <<receiptStore, Others, launched, settled, outdated>>

ProbeEnds(k) ==
  /\ WorkerAt(k, "probing")
  /\ \/ procs' = procs \ {Req(k)} /\ Step(k, [active[k] EXCEPT !.phase = "preflight"])
     \/ Step(k, [EndsUnknown(active[k]) EXCEPT !.doubt = TRUE]) /\ UNCHANGED procs
  /\ UNCHANGED <<receiptStore, Others, ledger, launched, settled, outdated>>

(* A check failed, or a probe could not be started: with a ledger that cannot
   record it, or leaving a process behind. *)
PreflightFails(k) ==
  /\ WorkerAt(k, "preflight")
  /\ \/ Step(k, Result(active[k], "failed")) /\ UNCHANGED <<ledger, procs>>
     \/ /\ slots[JobAt(k)] = "reserved" /\ ~ ledgerErr
        /\ LedgerFails([slots EXCEPT ![JobAt(k)] = "occupied"])
        /\ Step(k, Result(active[k], "failed")) /\ UNCHANGED procs
     \/ /\ active[k].ctx = "live" /\ Occupied(JobAt(k))
        /\ procs' = procs \cup {Req(k)}
        /\ Step(k, [Result(active[k], "failed") EXCEPT !.doubt = TRUE])
  /\ UNCHANGED <<receiptStore, Others, launched, settled, outdated>>

PreflightPasses(k) ==
  /\ WorkerAt(k, "preflight") /\ slots[JobAt(k)] = "occupied"
  /\ Step(k, [active[k] EXCEPT !.phase = "accepting"])
  /\ UNCHANGED <<receiptStore, Others, ledger, history>>

Accept(k) ==
  LET r == Req(k)
  IN  /\ WorkerAt(k, "accepting")
      /\ \/ /\ CanUpdate(r) /\ Persists(r, Updated(r, "accepted"))
            /\ Step(k, [active[k] EXCEPT !.phase = "launching"])
         \/ /\ CanUpdate(r) /\ PersistFails(r, Updated(r, "accepted"))
            /\ Step(k, Result(active[k], "unknown"))
         \/ /\ ~ CanUpdate(r) /\ UNCHANGED receiptStore
            /\ Step(k, Result(active[k], "unknown"))
      /\ UNCHANGED <<Others, ledger, history>>

(* Owner.Start of the CLI: it runs, it could not be started, or the start
   failed with a process left. *)
Launch(k) ==
  /\ WorkerAt(k, "launching")
  /\ \/ /\ active[k].ctx = "live" /\ Occupied(JobAt(k))
        /\ procs' = procs \cup {Req(k)}
        /\ \/ /\ Step(k, [active[k] EXCEPT !.phase = "reading"])
              /\ launched' = [launched EXCEPT ![Req(k)] = @ + 1]
           \/ /\ Step(k, [Result(active[k], "failed") EXCEPT !.doubt = TRUE])
              /\ UNCHANGED launched
     \/ /\ Step(k, Result(active[k], "failed"))
        /\ UNCHANGED <<ledger, procs, launched>>
  /\ UNCHANGED <<receiptStore, Others, settled, outdated>>

(* The CLI's first event names the session and the workspace it was asked for. *)
InitEvent(k) ==
  LET r == Req(k)
  IN  /\ WorkerAt(k, "reading") /\ CanUpdate(r) /\ items[r].state = "accepted"
      /\ Persists(r, Updated(r, "running")) \/ PersistFails(r, Updated(r, "running"))
      /\ UNCHANGED <<Others, active, ledger, history>>

(* The CLI ended, by itself or stopped because its context or its output
   ended.  Only a confirmed cleanup can be more than unknown, and only a
   matching result event of a started session can be completed. *)
AgentEnds(k) ==
  LET w == active[k]
  IN  /\ WorkerAt(k, "reading")
      /\ \/ Step(k, [EndsUnknown(w) EXCEPT !.doubt = TRUE]) /\ UNCHANGED procs
         \/ /\ procs' = procs \ {Req(k)}
            /\ \/ Step(k, EndsUnknown(w))
               \/ /\ w.ctx = "live" /\ items[Req(k)].state = "running"
                  /\ \E result \in {"completed", "failed"} : Step(k, Result(w, result))
      /\ UNCHANGED <<receiptStore, Others, ledger, launched, settled, outdated>>

Released(w, confirmed) == [w EXCEPT !.phase = "released", !.result = IF confirmed THEN @ ELSE "unknown"]

(* Owner.Finish: the job is released if its cleanup is confirmed and the ledger
   could record that; if not, whatever the CLI said, the end is unknown. *)
Release(k) ==
  LET w == active[k]
      s == [slots EXCEPT ![JobAt(k)] = IF w.doubt THEN "uncertain" ELSE "none"]
  IN  /\ WorkerAt(k, "ended")
      /\ \/ /\ ~ ledgerErr /\ LedgerSaves(s)
            /\ Step(k, Released(w, ~ w.doubt))
            /\ settled' = IF w.doubt THEN settled ELSE settled \cup {Req(k)}
         \/ /\ ~ ledgerErr /\ LedgerFails(s)
            /\ Step(k, Released(w, FALSE)) /\ UNCHANGED settled
         \/ /\ ledgerErr /\ UNCHANGED <<ledger, settled>>
            /\ Step(k, Released(w, FALSE))
      /\ UNCHANGED <<receiptStore, Others, procs, launched, outdated>>

FinalUpdate(k) ==
  LET r == Req(k)
      x == Updated(r, active[k].result)
  IN  /\ WorkerAt(k, "released")
      /\ \/ CanUpdate(r) /\ (Persists(r, x) \/ PersistFails(r, x))
         \/ ~ CanUpdate(r) /\ UNCHANGED receiptStore
      /\ Step(k, [active[k] EXCEPT !.phase = "leaving"])
      /\ UNCHANGED <<Others, ledger, history>>

Depart(k) ==
  /\ WorkerAt(k, "leaving") /\ active' = Without(active, k)
  /\ UNCHANGED <<receiptStore, Others, ledger, history>>

-----------------------------------------------------------------------------
(* The Runtime. *)

(* Daemon.Stop cancels the context every worker's context comes from. *)
Stop ==
  /\ runtime = "up" /\ runtime' = "stopping"
  /\ active' = [k \in DOMAIN active |->
        IF active[k].ctx = "live" THEN [active[k] EXCEPT !.ctx = "over"] ELSE active[k]]
  /\ UNCHANGED <<receiptStore, restarts, device, generation, tickets, received, ledger, history>>

(* Manager.Close returns when every worker has. *)
Close ==
  /\ runtime = "stopping" /\ active = Nothing /\ runtime' = "closed"
  /\ UNCHANGED <<receiptStore, restarts, device, generation, tickets, received, active, ledger, history>>

(* The Runtime is killed, perhaps in a Submit that has reserved its job and
   not yet written its receipt: the processes it started may live on. *)
RuntimeDies ==
  /\ runtime \in {"up", "stopping"} /\ runtime' = "dead"
  /\ active' = Nothing
  /\ \/ UNCHANGED slots
     \/ \E t \in tickets :
           /\ Admissible(t) /\ ~ ledgerErr /\ Room(JobOf(t.request, t.content))
           /\ slots' = [slots EXCEPT ![JobOf(t.request, t.content)] = "reserved"]
  /\ UNCHANGED <<receiptStore, restarts, device, generation, tickets, received, ledgerErr, history>>

OrphanEnds(r) ==
  /\ r \in procs
  /\ \A k \in DOMAIN active : Req(k) = r => active[k].phase \notin {"probing", "reading"}
  /\ procs' = procs \ {r}
  /\ UNCHANGED <<receiptStore, Others, active, ledger, launched, settled, outdated>>

(* load: what had not ended is unknown, and is never run again. *)
Restarted(x) == IF x.state \in Terminal THEN x ELSE [x EXCEPT !.state = "unknown"]

RecoverFreesOccupied(s) == [j \in Job |-> IF s[j] = "uncertain" THEN "uncertain" ELSE "none"]
(* The job ledger's own recovery, which the first reservation runs. *)
Recover(s) == [j \in Job |-> IF s[j] \in {"none", "reserved"} THEN "none" ELSE "uncertain"]

(* New: load may fail after it has rewritten some of the receipts. *)
Restart ==
  /\ runtime \in {"closed", "dead"} /\ restarts < MaxRestart
  /\ restarts' = restarts + 1 /\ runtime' = "up"
  /\ \E done \in SUBSET DOMAIN receipts :
        /\ receipts' = [r \in DOMAIN receipts |-> IF r \in done THEN Restarted(receipts[r]) ELSE receipts[r]]
        /\ items' = receipts'
        /\ err' = (done # DOMAIN receipts)
  /\ \/ slots' = Recover(slots) /\ ledgerErr' = FALSE
     \/ LedgerFails(Recover(slots))
  /\ device' = NoContext /\ generation' = 0
  /\ tickets' = {}
  /\ UNCHANGED <<received, active, history>>

(* Every Runtime of the instance has run. *)
Exhausted == runtime \in {"closed", "dead"} /\ restarts = MaxRestart /\ procs = {} /\ UNCHANGED handoffVars

WorkerStep(k) ==
  \/ Authorise(k) \/ StartProbe(k) \/ ProbeEnds(k) \/ PreflightFails(k) \/ PreflightPasses(k)
  \/ Accept(k) \/ Launch(k) \/ InitEvent(k) \/ AgentEnds(k)
  \/ Release(k) \/ FinalUpdate(k) \/ Depart(k)

HandoffNext ==
  \/ \E r \in Request, c \in Content : Capture(r, c)
  \/ \E c \in Context \ {NoContext} : SyncDevice(c)
  \/ \E t \in tickets : Submit(t) \/ SubmitRefused(t)
  \/ \E k \in Session : WorkerStep(k) \/ ContextEnds(k)
  \/ \E r \in Request : OrphanEnds(r)
  \/ Stop \/ Close \/ RuntimeDies \/ Restart
  \/ Exhausted

HandoffSpec == HandoffInit /\ [][HandoffNext]_handoffVars

(* Every call a worker waits for returns, its timer fires, a process that is
   stopped ends, and Close gets the lock. *)
HandoffFairness ==
  /\ \A k \in Session : WF_handoffVars(WorkerStep(k)) /\ WF_handoffVars(ContextEnds(k))
  /\ WF_handoffVars(Close)
FairHandoffSpec == HandoffSpec /\ HandoffFairness

-----------------------------------------------------------------------------
(* Properties. *)

(* A request launches the Agent at most once, whatever is submitted again,
   fails to be written or is interrupted by a restart: "Runtime restart marks
   unfinished receipts unknown and never resumes them" (docs/handoff.md). *)
RunOnce == \A r \in Request : launched[r] <= 1

(* No two requests have processes on one CLI session at the same time, the
   ones a killed Runtime left behind included.  It takes the receipts and the
   ledger together: receipts keep other scopes out, the ledger this one. *)
SessionExclusive ==
  \A r, s \in procs : SessionOf[receipts[r].content] = SessionOf[receipts[s].content] => r = s

(* A session belongs to one scope for good. *)
SessionBound ==
  \A r, s \in DOMAIN receipts : SessionOf[receipts[r].content] = SessionOf[receipts[s].content] => r[1] = s[1]

(* Completed or failed is said only when every process of the request is gone
   and the ledger has recorded the release (docs/handoff.md). *)
EndIsSettled ==
  \A r \in DOMAIN receipts : receipts[r].state \in {"completed", "failed"} => r \in settled /\ r \notin procs

(* A worker goes on only while the device context allows its scope. *)
WorkersAllowed ==
  \A k \in DOMAIN active : active[k].ctx = "live" => active[k].request[1] \in Allowed[device]

(* Once Close has returned no worker of the Runtime is left: jobs.Close, which
   follows, cannot take the ledger from under one. *)
ClosedMeansIdle == runtime = "closed" => active = Nothing

(* What the receipts, the workers and the processes promise each other in
   every state: a request runs once (RunOnce), a CLI session has one process
   and one scope (SessionExclusive, SessionBound), an end is only said of what is
   over (EndIsSettled), a worker goes on only where it may (WorkersAllowed), and
   nothing is left of a Manager that is closed (ClosedMeansIdle). *)
ManagerInv ==
  /\ HandoffTypeOK
  /\ RunOnce /\ SessionExclusive /\ SessionBound
  /\ EndIsSettled /\ WorkersAllowed /\ ClosedMeansIdle

(* A terminal receipt is final, across restarts and failed writes. *)
TerminalIsFinal ==
  [][\A r \in DOMAIN receipts : receipts[r].state \in Terminal =>
        r \in DOMAIN receipts' /\ receipts'[r] = receipts[r]]_handoffVars

(* What is admitted was received under the device context that is in force:
   an off and on again in between refuses it, though the scope is the same. *)
AdmittedUnderOneContext ==
  [][runtime = "up" => \A r \in DOMAIN items' \ DOMAIN items :
        \E t \in tickets \ tickets' : t.request = r /\ t.nr \notin outdated]_handoffVars

(* A receipt of a running Runtime reaches its end, or its store failed. *)
ReceiptsEnd ==
  \A r \in Request :
    (r \in DOMAIN receipts /\ receipts[r].state \in NonTerminal)
      ~> ((r \in DOMAIN receipts /\ receipts[r].state \in Terminal) \/ err \/ runtime = "dead")

(* Stop ends every worker, so Close returns. *)
CloseReturns == runtime = "stopping" ~> runtime # "stopping"

(* How receipts change: never once they ended, and never to begin under a device
   context that has passed. *)
ReceiptsChange == TerminalIsFinal /\ AdmittedUnderOneContext
=============================================================================
