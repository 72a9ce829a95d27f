------------------------------ MODULE LocalExec ------------------------------
(* Foreground executions on the device that runs them: the reader of the device
   link starts and cancels them (daemon.go, local_exec_lifecycle.go,
   device_context.go), the people at the device approve some (approval.go), and
   one goroutine each takes them from the invoke to the terminal (exec.go).

   A cancel reaches an execution in two steps of the reader (the approval, then
   the context); an answer claims the pending approval under the hub's mutex and
   fills its channel of one place; select picks any ready case.  The claim and
   the send of respond, and the look-up and the send of cancelExec, are one step
   each: between them only steps commute that change neither.

   Left out: what a command says (its policy class is chosen with the invoke),
   the job ledger behind ReserveExec and Finish (module JobLedger; here a slot
   that may be refused and a release that may fail), how a lease is renewed
   (module LeaseGuard; here it may be lost), and the stream of the terminal's
   frames beyond the link (modules Outbox and RelayHub).  Execution ids are the
   Relay's and are never used twice (module RelayHub). *)
EXTENDS Naturals, Sequences

CONSTANTS Exec,      \* ids of foreground executions
          Policy,    \* what the policy may say of a command
          Timed,     \* executions with a timeout
          Chunk,     \* sizes of what one read of the output returns
          MaxOutput, \* MaxExecOutputBytes, in the unit of Chunk
          MaxReads,  \* bound: chunks an execution writes
          MaxLink,   \* bound: connections of the device
          None

ASSUME ExecAssumption ==
  /\ Policy \subseteq {"plain", "ask", "deny"}
  /\ Timed \subseteq Exec
  /\ Chunk \subseteq Nat \ {0}
  /\ MaxOutput \in Nat \ {0} /\ MaxReads \in Nat /\ MaxLink \in Nat \ {0}
  /\ None \notin Exec

VARIABLES
  daemon,     \* d.ctx and the deferred calls of Run: up, stopping, drained, closed
  link,       \* the device link: its number, and up, down (not yet torn down) or over
  confirmed,  \* the context the Relay confirmed on this link allows inbound work
  reader,     \* the execution whose cancel frame the reader is in the middle of
  inbound,    \* the saved setting
  subscribed, \* a head that can answer approvals is connected
  stalled,    \* executions whose approval is written to a head that does not read
  exec,       \* each execution's goroutine and context
  ask,        \* its approval
  run,        \* its process, output and ledger slot
  term,       \* its terminal, as the Relay received it
  cancelled   \* history: executions whose cancel frame arrived

vars == <<daemon, link, confirmed, reader, inbound, subscribed, stalled, exec, ask, run, term, cancelled>>

(***************************************************************************)
(* Types and helpers                                                       *)
(***************************************************************************)

Working == {"checks", "asking", "telling", "waiting", "timing", "leasing", "reserving",
            "starting", "launching", "running", "draining", "leaving"}
Causes == {"cancelled", "denied", "timeout"}
Nothing == [type |-> "none"]
NoApproval == [pending |-> FALSE, ch |-> "empty", answer |-> "none"]
NoRun == [policy |-> "plain", child |-> "none", clean |-> TRUE, pipe |-> <<>>, reads |-> 0,
          sent |-> 0, lost |-> FALSE, cut |-> FALSE, slot |-> "none"]

RunRecord == [policy : Policy \cup {"plain"}, child : {"none", "running", "exited", "killed"},
              clean : BOOLEAN, pipe : Seq(Chunk), reads : 0..MaxReads, sent : 0..MaxOutput,
              lost : BOOLEAN, cut : BOOLEAN, slot : {"none", "held", "released", "uncertain"}]
Code == {"invalid_execution", "inbound_disabled", "policy_deny", "cancelled", "approval_timeout",
         "unauthorized", "relay_error", "unsupported_program", "quota_exceeded", "agent_error", "timeout"}
Message == {Nothing} \cup [type : {"nack", "error"}, code : Code]
  \cup [type : {"exit"}, status : {"completed", "cancelled", "timeout", "authorization_lost"},
        truncated : BOOLEAN]

TypeOK ==
  /\ daemon \in {"up", "stopping", "drained", "closed"}
  /\ link \in [n : 1..MaxLink, state : {"up", "down", "over"}]
  /\ {confirmed, inbound, subscribed} \subseteq BOOLEAN
  /\ reader \in Exec \cup {None}
  /\ stalled \subseteq Exec
  /\ exec \in [Exec -> [pc : Working \cup {"absent", "refused", "done"},
                        ctx : {"live"} \cup Causes, link : 0..MaxLink]]
  /\ ask \in [Exec -> [pending : BOOLEAN, ch : {"empty", "allow", "deny", "cancelled"},
                       answer : {"none", "allow", "deny"}]]
  /\ run \in [Exec -> RunRecord]
  /\ term \in [Exec -> Message]
  /\ cancelled \subseteq Exec

(* Altered: only executions past their approval are registered. *)
ListedAfterApproval == {e \in Exec : exec[e].pc \in Working \ {"checks", "asking", "telling", "waiting"}}

(* Entries of Daemon.local: from the reader's dispatch to the goroutine's end. *)
Listed == {e \in Exec : exec[e].pc \in Working}

Ending(S, cause) ==
  [e \in Exec |-> IF e \in S /\ exec[e].ctx = "live"
                  THEN [exec[e] EXCEPT !.ctx = cause] ELSE exec[e]]

Goes(e, pc) == exec' = [exec EXCEPT ![e].pc = pc]

OnLink(e) == link.state = "up" /\ link.n = exec[e].link

(* The frame goes out on the link of the invoke, if that still exists. *)
Says(e, message) ==
  /\ Goes(e, "leaving")
  /\ term' = IF OnLink(e) THEN [term EXCEPT ![e] = message] ELSE term

Nack(e, code) == Says(e, [type |-> "nack", code |-> code])
AgentError(e) == Says(e, [type |-> "error", code |-> "agent_error"])

StartFailureCode(e) ==
  CASE exec[e].ctx = "denied"    -> "unauthorized"
    [] exec[e].ctx = "cancelled" -> "cancelled"
    [] exec[e].ctx = "timeout"   -> "timeout"
    [] OTHER                     -> "agent_error"

Init ==
  /\ daemon = "up" /\ link = [n |-> 1, state |-> "up"] /\ reader = None
  /\ inbound = TRUE /\ confirmed = TRUE /\ subscribed \in BOOLEAN /\ stalled = {}
  /\ exec = [e \in Exec |-> [pc |-> "absent", ctx |-> "live", link |-> 0]]
  /\ ask = [e \in Exec |-> NoApproval]
  /\ run = [e \in Exec |-> NoRun]
  /\ term = [e \in Exec |-> Nothing]
  /\ cancelled = {}

(***************************************************************************)
(* The reader of the device link                                           *)
(***************************************************************************)

Reading == link.state = "up" /\ reader = None

(* The Relay routes an invoke to a link only after it confirmed that inbound
   work is allowed on it.  d.ctx is read and the cancel registered under d.mu,
   before the goroutine exists. *)
StartLocalExec(e) ==
  /\ Reading /\ confirmed /\ exec[e].pc = "absent"
  /\ \E policy \in Policy : run' = [run EXCEPT ![e].policy = policy]
  /\ exec' = [exec EXCEPT ![e] =
       [pc |-> IF daemon = "up" THEN "checks" ELSE "refused", ctx |-> "live", link |-> link.n]]
  /\ UNCHANGED <<daemon, link, confirmed, reader, inbound, subscribed, stalled, ask, term, cancelled>>

CancelExec(e) ==
  /\ Reading /\ exec[e].pc # "absent" /\ exec[e].link = link.n
  /\ ask' = IF ask[e].pending /\ ask[e].ch = "empty"
            THEN [ask EXCEPT ![e].ch = "cancelled"] ELSE ask
  /\ reader' = e
  /\ cancelled' = cancelled \cup {e}
  /\ UNCHANGED <<daemon, link, confirmed, inbound, subscribed, stalled, exec, run, term>>

CancelLocal ==
  /\ reader # None
  /\ exec' = Ending(Listed \cap {reader}, "cancelled")
  /\ reader' = None
  /\ UNCHANGED <<daemon, link, confirmed, inbound, subscribed, stalled, ask, run, term, cancelled>>

(* syncDeviceContext, from a settings or access result: an invalid context, one
   without inbound work, or one the handoffs cannot follow revokes every
   foreground execution; the first and the last also close the link. *)
SyncDeviceContext(allows, usable) ==
  /\ Reading
  /\ confirmed' = (allows /\ usable)
  /\ exec' = IF allows /\ usable THEN exec ELSE Ending(Listed, "denied")
  /\ link' = IF usable THEN link ELSE [link EXCEPT !.state = "down"]
  /\ UNCHANGED <<daemon, reader, inbound, subscribed, stalled, ask, run, term, cancelled>>

LinkFails ==
  /\ link.state = "up"
  /\ link' = [link EXCEPT !.state = "down"]
  /\ UNCHANGED <<daemon, confirmed, reader, inbound, subscribed, stalled, exec, ask, run, term, cancelled>>

(* connectDevice returns. *)
KillAllLocal ==
  /\ link.state = "down" /\ reader = None
  /\ link' = [link EXCEPT !.state = "over"]
  /\ exec' = Ending(Listed, "cancelled")
  /\ UNCHANGED <<daemon, confirmed, reader, inbound, subscribed, stalled, ask, run, term, cancelled>>

(* The Relay confirmed the saved settings (module DeviceSettings). *)
LinkUp ==
  /\ daemon = "up" /\ link.state = "over" /\ link.n < MaxLink
  /\ link' = [n |-> link.n + 1, state |-> "up"]
  /\ confirmed' = inbound
  /\ UNCHANGED <<daemon, reader, inbound, subscribed, stalled, exec, ask, run, term, cancelled>>

(***************************************************************************)
(* The heads: settings and approvals                                       *)
(***************************************************************************)

SetInbound ==
  /\ inbound' = ~inbound
  /\ UNCHANGED <<daemon, link, confirmed, reader, subscribed, stalled, exec, ask, run, term, cancelled>>

Subscribe ==
  /\ subscribed' = ~subscribed
  /\ UNCHANGED <<daemon, link, confirmed, reader, inbound, stalled, exec, ask, run, term, cancelled>>

(* A head does not read what is written to it and its buffers are full; it reads
   again, or its connection goes. *)
HeadStalls(e) ==
  /\ exec[e].pc = "telling" /\ e \notin stalled
  /\ stalled' = stalled \cup {e}
  /\ UNCHANGED <<daemon, link, confirmed, reader, inbound, subscribed, exec, ask, run, term, cancelled>>

HeadReads(e) ==
  /\ e \in stalled
  /\ stalled' = stalled \ {e}
  /\ UNCHANGED <<daemon, link, confirmed, reader, inbound, subscribed, exec, ask, run, term, cancelled>>

(* The first answer claims the approval; it is accepted if the channel is free. *)
Respond(e, answer) ==
  /\ ask[e].pending
  /\ ask' = [ask EXCEPT ![e] =
       IF @.ch = "empty" THEN [pending |-> FALSE, ch |-> answer, answer |-> answer]
                         ELSE [@ EXCEPT !.pending = FALSE]]
  /\ UNCHANGED <<daemon, link, confirmed, reader, inbound, subscribed, stalled, exec, run, term, cancelled>>

(***************************************************************************)
(* The goroutine of an execution                                           *)
(***************************************************************************)

Global == <<daemon, link, confirmed, reader, inbound, subscribed, stalled, cancelled>>

(* Decoding, the saved setting, the policy. *)
Check(e) ==
  /\ exec[e].pc = "checks"
  /\ \/ Nack(e, "invalid_execution")
     \/ ~inbound /\ Nack(e, "inbound_disabled")
     \/ inbound /\ run[e].policy = "deny" /\ Nack(e, "policy_deny")
     \/ inbound /\ run[e].policy = "ask" /\ Goes(e, "asking") /\ UNCHANGED term
     \/ inbound /\ run[e].policy = "plain" /\ Goes(e, "timing") /\ UNCHANGED term
  /\ UNCHANGED <<Global, ask, run>>

(* From here on the approval can be answered and cancelled. *)
Ask(e) ==
  /\ exec[e].pc = "asking"
  /\ \/ /\ exec[e].ctx # "live" /\ Nack(e, "cancelled") /\ UNCHANGED ask
     \/ /\ exec[e].ctx = "live" /\ ~subscribed /\ Nack(e, "policy_deny") /\ UNCHANGED ask
     \/ /\ exec[e].ctx = "live" /\ subscribed
        /\ ask' = [ask EXCEPT ![e].pending = TRUE]
        /\ Goes(e, "telling") /\ UNCHANGED term
  /\ UNCHANGED <<Global, run>>

(* The event is written to every subscribed head, without a deadline, before the
   timer is started and the context looked at. *)
TellHeads(e) ==
  /\ exec[e].pc = "telling" /\ e \notin stalled
  /\ Goes(e, "waiting")
  /\ UNCHANGED <<Global, ask, run, term>>

(* Altered: the wait has no timeout and does not look at the context. *)
AskReturnsOnAnswer(e) ==
  /\ exec[e].pc = "waiting"
  /\ \/ ask[e].ch = "allow" /\ Goes(e, "timing") /\ UNCHANGED term
     \/ ask[e].ch = "deny" /\ Nack(e, "policy_deny")
     \/ ask[e].ch = "cancelled" /\ Nack(e, "cancelled")
  /\ ask' = [ask EXCEPT ![e].pending = FALSE]
  /\ UNCHANGED <<Global, run>>

(* The select of ask; approvalWait may be over at any time. *)
AskReturns(e) ==
  /\ exec[e].pc = "waiting"
  /\ \/ exec[e].ctx # "live" /\ Nack(e, "cancelled")
     \/ ask[e].ch = "allow" /\ Goes(e, "timing") /\ UNCHANGED term
     \/ ask[e].ch = "deny" /\ Nack(e, "policy_deny")
     \/ ask[e].ch = "cancelled" /\ Nack(e, "cancelled")
     \/ Nack(e, "approval_timeout")
  /\ ask' = [ask EXCEPT ![e].pending = FALSE]
  /\ UNCHANGED <<Global, run>>

(* The working directory, the timeout's context, the scope. *)
Prepare(e) ==
  /\ exec[e].pc = "timing"
  /\ \/ Nack(e, "policy_deny")
     \/ exec[e].ctx # "live" /\ Nack(e, "cancelled")
     \/ exec[e].ctx = "live" /\ Nack(e, "unauthorized")
     \/ exec[e].ctx = "live" /\ Goes(e, "leasing") /\ UNCHANGED term
  /\ UNCHANGED <<Global, ask, run>>

(* The first lease; a failure has its own code when the context ended first. *)
Lease(e) ==
  /\ exec[e].pc = "leasing"
  /\ \/ Goes(e, "reserving") /\ UNCHANGED term
     \/ exec[e].ctx # "live" /\ Nack(e, StartFailureCode(e))
     \/ exec[e].ctx = "live" /\ \E code \in {"unauthorized", "relay_error"} : Nack(e, code)
  /\ UNCHANGED <<Global, ask, run>>

(* The command is built and a slot of the ledger reserved. *)
ReserveExec(e) ==
  /\ exec[e].pc = "reserving"
  /\ \/ \E code \in {"unsupported_program", "quota_exceeded", "agent_error"} :
          Nack(e, code) /\ UNCHANGED run
     \/ run' = [run EXCEPT ![e].slot = "held"] /\ Goes(e, "starting") /\ UNCHANGED term
  /\ UNCHANGED <<Global, ask>>

(* Altered: a failed start is always a nack. *)
StartFailsNack(e, started, release) ==
  /\ run' = [run EXCEPT ![e].slot = release, ![e].child = IF started THEN "killed" ELSE "none"]
  /\ Nack(e, StartFailureCode(e))

(* failedStartMessage: a nack promises that nothing ran. *)
StartFails(e, started, release) ==
  /\ run' = [run EXCEPT ![e].slot = release, ![e].child = IF started THEN "killed" ELSE "none"]
  /\ IF started \/ release # "released" THEN AgentError(e) ELSE Nack(e, StartFailureCode(e))

(* Pipes, then the context is read before the process is created. *)
Start(e) ==
  /\ exec[e].pc = "starting"
  /\ \/ Nack(e, "agent_error") /\ UNCHANGED run
     \/ /\ exec[e].ctx # "live"
        /\ \E release \in {"released", "uncertain"} : StartFails(e, FALSE, release)
     \/ /\ exec[e].ctx = "live"
        /\ Goes(e, "launching") /\ UNCHANGED <<run, term>>
  /\ UNCHANGED <<Global, ask>>

(* The process is created, or not, or created and given up. *)
Launch(e) ==
  /\ exec[e].pc = "launching"
  /\ \/ /\ run' = [run EXCEPT ![e].child = "running"]
        /\ Goes(e, "running") /\ UNCHANGED term
     \/ \E release \in {"released", "uncertain"} : StartFails(e, FALSE, release)
     \/ StartFails(e, TRUE, "uncertain")
  /\ UNCHANGED <<Global, ask>>

(***************************************************************************)
(* The process and its output                                              *)
(***************************************************************************)

Writes(e, size) ==
  /\ run[e].child = "running" /\ run[e].reads < MaxReads
  /\ run' = [run EXCEPT ![e].pipe = Append(@, size), ![e].reads = @ + 1]
  /\ UNCHANGED <<Global, exec, ask, term>>

(* takeChunk: what is left of the limit is sent, the rest is dropped. *)
Pump(e) ==
  LET room == MaxOutput - run[e].sent
      size == Head(run[e].pipe)
  IN /\ run[e].pipe # <<>>
     /\ run' = IF size <= room
               THEN [run EXCEPT ![e].pipe = Tail(@), ![e].sent = @ + size]
               ELSE [run EXCEPT ![e].pipe = Tail(@), ![e].sent = MaxOutput,
                                ![e].cut = TRUE, ![e].lost = TRUE]
     /\ UNCHANGED <<Global, exec, ask, term>>

(* The process ends, by itself or because its context did; its group's cleanup
   may stay unconfirmed.  Wait returns. *)
ChildEnds(e, how) ==
  /\ exec[e].pc = "running"
  /\ how = "killed" => exec[e].ctx # "live"
  /\ \E clean \in BOOLEAN : run' = [run EXCEPT ![e].child = how, ![e].clean = clean]
  /\ Goes(e, "draining")
  /\ UNCHANGED <<Global, ask, term>>

(* A second passes before the pumps have read everything. *)
DrainTimesOut(e) ==
  /\ exec[e].pc = "draining" /\ run[e].pipe # <<>>
  /\ run' = [run EXCEPT ![e].pipe = <<>>, ![e].cut = TRUE, ![e].lost = TRUE]
  /\ UNCHANGED <<Global, exec, ask, term>>

ExitStatus(e) ==
  CASE exec[e].ctx = "denied"    -> "authorization_lost"
    [] exec[e].ctx = "cancelled" -> "cancelled"
    [] exec[e].ctx = "timeout"   -> "timeout"
    [] OTHER                     -> "completed"

(* Finish releases the slot only if the cleanup and the ledger allow it. *)
Report(e) ==
  /\ exec[e].pc = "draining" /\ run[e].pipe = <<>>
  /\ \E release \in {"released", "uncertain"} :
       /\ ~run[e].clean => release = "uncertain"
       /\ run' = [run EXCEPT ![e].slot = release]
       /\ IF release = "released"
          THEN Says(e, [type |-> "exit", status |-> ExitStatus(e), truncated |-> run[e].cut])
          ELSE AgentError(e)
  /\ UNCHANGED <<Global, ask>>

(* The deferred calls: Finish for a slot still held, and the entry of local. *)
Leave(e) ==
  /\ exec[e].pc = "leaving"
  /\ \E release \in {"released", "uncertain"} :
       run' = IF run[e].slot = "held" THEN [run EXCEPT ![e].slot = release] ELSE run
  /\ exec' = [exec EXCEPT ![e].pc = "done",
                          ![e].ctx = IF @ = "live" THEN "cancelled" ELSE @]
  /\ UNCHANGED <<Global, ask, term>>

(***************************************************************************)
(* Contexts end on their own                                               *)
(***************************************************************************)

Deadline(e) ==
  /\ e \in Timed /\ exec[e].pc \in Working \ {"checks", "asking", "telling", "waiting", "timing"}
  /\ exec[e].ctx = "live"
  /\ exec' = Ending({e}, "timeout")
  /\ UNCHANGED <<Global, ask, run, term>>

LeaseLost(e) ==
  /\ exec[e].pc \in {"reserving", "starting", "launching", "running", "draining"}
  /\ exec[e].ctx = "live"
  /\ exec' = Ending({e}, "denied")
  /\ UNCHANGED <<Global, ask, run, term>>

(***************************************************************************)
(* Shutdown: the deferred calls of Run                                     *)
(***************************************************************************)

Stop ==
  /\ daemon = "up"
  /\ daemon' = "stopping"
  /\ exec' = Ending(Listed, "cancelled")
  /\ UNCHANGED <<link, confirmed, reader, inbound, subscribed, stalled, ask, run, term, cancelled>>

WaitLocalExecs ==
  /\ daemon = "stopping" /\ Listed = {}
  /\ daemon' = "drained"
  /\ UNCHANGED <<link, confirmed, reader, inbound, subscribed, stalled, exec, ask, run, term, cancelled>>

CloseJobs ==
  /\ daemon = "drained"
  /\ daemon' = "closed"
  /\ UNCHANGED <<link, confirmed, reader, inbound, subscribed, stalled, exec, ask, run, term, cancelled>>

(***************************************************************************)
(* Specification                                                           *)
(***************************************************************************)

Steps(e) ==
  \/ Check(e) \/ Ask(e) \/ TellHeads(e) \/ AskReturns(e) \/ Prepare(e) \/ Lease(e) \/ ReserveExec(e)
  \/ Start(e) \/ Launch(e) \/ Pump(e) \/ DrainTimesOut(e) \/ Report(e) \/ Leave(e)

Next ==
  \/ \E e \in Exec : StartLocalExec(e) \/ CancelExec(e)
  \/ CancelLocal
  \/ \E allows, usable \in BOOLEAN : SyncDeviceContext(allows, usable)
  \/ LinkFails \/ KillAllLocal \/ LinkUp
  \/ SetInbound \/ Subscribe \/ \E e \in Exec : HeadStalls(e) \/ HeadReads(e)
  \/ \E e \in Exec, answer \in {"allow", "deny"} : Respond(e, answer)
  \/ \E e \in Exec : Steps(e)
  \/ \E e \in Exec, size \in Chunk : Writes(e, size)
  \/ \E e \in Exec, how \in {"exited", "killed"} : ChildEnds(e, how)
  \/ \E e \in Exec : Deadline(e) \/ LeaseLost(e)
  \/ Stop \/ WaitLocalExecs \/ CloseJobs

Spec == Init /\ [][Next]_vars

(* Goroutines are scheduled, requests to the Relay and waits have timeouts, and a
   killed process group goes.  A write to the heads has no deadline: it returns if
   they read again and again, and nothing says that they do. *)
FairSpec ==
  /\ Spec
  /\ WF_vars(CancelLocal) /\ WF_vars(KillAllLocal) /\ WF_vars(WaitLocalExecs)
  /\ \A e \in Exec : WF_vars(Steps(e)) /\ SF_vars(TellHeads(e)) /\ WF_vars(ChildEnds(e, "killed"))

(***************************************************************************)
(* Properties                                                              *)
(***************************************************************************)

(* A process exists only for a command the policy allows, and for one that needs
   approval only after a head's answer "allow" was accepted: no other answer,
   timeout or cancellation that races it lets it start (approval.go ask,
   respond, cancelExec; exec.go 33-51). *)
OnlyApprovedRuns ==
  \A e \in Exec : run[e].child # "none" =>
    /\ run[e].policy # "deny"
    /\ run[e].policy = "ask" => ask[e].answer = "allow"
    /\ run[e].slot # "none"

(* What a terminal says is true of the process: after a nack nothing ever ran, so
   that the caller may repeat the call; an exit comes after the process and
   its group are gone and its slot is free; "completed" means the process
   ended by itself; and output is missing only if it says truncated
   (exec.go 116-119, 164-189, stream.go takeChunk). *)
TerminalIsTrue ==
  \A e \in Exec :
    /\ term[e].type = "nack" => run[e].child = "none"
    /\ term[e].type = "exit" =>
         /\ run[e].child \in {"exited", "killed"} /\ run[e].clean /\ run[e].slot = "released"
         /\ term[e].status = "completed" => run[e].child = "exited"
         /\ run[e].lost => term[e].truncated
    /\ exec[e].pc = "done" => run[e].child # "running" /\ run[e].slot # "held"

(* What runs was let run, and what is said of it is so. *)
ExecInv == TypeOK /\ OnlyApprovedRuns /\ TerminalIsTrue

(* No execution outlives what it depends on: once the reader has handled its
   cancel, once inbound work is no longer confirmed, once its link was torn
   down, its context has ended; and the jobs are closed over no execution at all
   (local_exec_lifecycle.go, device_context.go, daemon.go killAllLocal and Run). *)
NothingOutlives ==
  /\ \A e \in Exec : exec[e].pc \in Working /\ exec[e].ctx = "live" =>
       /\ confirmed
       /\ exec[e].link = link.n /\ link.state # "over"
       /\ e \in cancelled => reader = e
       /\ daemon = "up"
  /\ daemon \in {"drained", "closed"} =>
       \A e \in Exec : exec[e].pc \notin Working /\ run[e].child # "running"

(* A head that stopped reading reads again, or goes. *)
HeadsRead(e) == []<>(e \notin stalled)

(* If the heads read what they are told, an execution whose context ended is gone
   soon, with its process, and a stop of the Runtime gets through; an approval that
   was announced ends whether or not anybody answers.  Only a head that does not
   read, and only while the approval is announced to it, prevents it: nothing else
   a head does or leaves undone can (approval.go ask, waitLocalExecs). *)
EndedReturns ==
  /\ \A e \in Exec : HeadsRead(e) => (exec[e].ctx # "live" ~> exec[e].pc = "done")
  /\ \A e \in Exec : exec[e].pc = "waiting" ~> exec[e].pc # "waiting"
  /\ (\A e \in Exec : HeadsRead(e)) => (daemon = "stopping" ~> daemon = "drained")
=============================================================================
