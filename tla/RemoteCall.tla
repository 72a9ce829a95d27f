----------------------------- MODULE RemoteCall -----------------------------
(***************************************************************************)
(* The calls a Runtime forwards over one connection to the Relay           *)
(* (internal/noderun/ipc.go, clientmux.go, remote_lifecycle.go): each call *)
(* runs in a goroutine of its own, the connection's reader hands it what   *)
(* arrives, its head (the local program behind an IPC connection) may      *)
(* cancel it or go away, and a change of the account or the Relay closes   *)
(* the connection under it.                                                *)
(*                                                                         *)
(* A remoteExec's mutex is held from the registration of the call until    *)
(* the invoke is sent; it is not held at the start of a step that waits    *)
(* for it (locked).  Daemon.mu, clientLink.mu and execWaiter.mu are held   *)
(* within one step.                                                        *)
(*                                                                         *)
(* What a call tells its head is written to the IPC connection, whose      *)
(* calls share one lock for it, and nothing bounds that write              *)
(* (ipc.Conn.WriteFrame): it lasts while the head does not read, and fails *)
(* when the head goes.  The call is then "sent" (exec id), "writing"       *)
(* (output) or "leaving" (its reply).                                      *)
(*                                                                         *)
(* An operator defined just before another one, with the same parameters   *)
(* and a longer name, is a mistake the code could have made; no action     *)
(* uses it.                                                                *)
(***************************************************************************)
EXTENDS Naturals, Sequences

CONSTANTS
  IpcConn,           \* IPC connections
  Call,
  OwnerOf,          \* the head that makes each call
  Stream,           \* calls whose output goes to the head as it comes (exec)
  Slots,            \* waiterDataSlots
  MaxOutput         \* bound: messages of output of a call

CallAssumption ==
  /\ OwnerOf \in [Call -> IpcConn] /\ Stream \subseteq Call
  /\ Slots \in Nat /\ MaxOutput \in Nat

VARIABLES
  closed,           \* heads whose ipc.Conn is closed
  stalled,          \* heads that do not read what is written to them
  swept,            \* heads whose calls cancelAllForConn has looked up
  call,             \* progress of forwardInvoke
  sent,             \* remoteExec.sent
  cancelling,       \* calls on whose mutex a cancelRemote waits
  subscribed,       \* clientLink.waiters
  chan, trunc, term,\* execWaiter: ch, trunc, term ("none" before finish, "taken" after next)
  closes,           \* how often a waiter's done channel was closed
  conn,             \* the connection: "up", "broken" (a Read or Write failed) or "closed" by us
  reader,           \* runClientReader: "reading", "failing" past failWaiters, "done"
  change,           \* setAccount or config.set: "none", "taken" out of the pool, "failed" its
                    \* waiters, "done"
  due,              \* calls a config.set has still to cancel
  wire,             \* what the Relay got of each call
  pushed,           \* outputs of each call the reader received
  answered,         \* calls whose terminal the reader received
  seen,             \* outputs forwardInvoke consumed
  reply             \* the end the head is told

waiter == <<chan, trunc, term, closes>>
link == <<conn, reader, change, due>>
relay == <<wire, pushed, answered>>
result == <<seen, reply>>
callVars ==
  <<closed, stalled, swept, call, sent, cancelling, subscribed, waiter, link, relay, result>>

Registered ==
  {c \in Call : call[c] \in {"tracked", "subscribed", "sent", "consuming", "writing", "leaving"}}
Locked == {c \in Call : call[c] \in {"tracked", "subscribed"}}
Finished(c) == term[c] # "none"
HeadOpen(c) == OwnerOf[c] \notin closed
HeadTakes(c) == OwnerOf[c] \notin stalled
Up == conn = "up"

End == {"none", "exit", "exit_truncated", "error"}

CallTypeOK ==
  /\ closed \subseteq IpcConn /\ stalled \subseteq IpcConn /\ swept \subseteq closed
  /\ call \in [Call -> {"new", "tracked", "subscribed", "sent", "consuming", "writing", "leaving",
                       "ended"}]
  /\ sent \subseteq Call /\ cancelling \subseteq Call /\ subscribed \subseteq Call
  /\ chan \in [Call -> UNION {[1..n -> 1..MaxOutput] : n \in 0..Slots}]
  /\ trunc \in [Call -> BOOLEAN] /\ term \in [Call -> End \cup {"taken"}]
  /\ closes \in [Call -> 0..1]
  /\ conn \in {"up", "broken", "closed"} /\ reader \in {"reading", "failing", "done"}
  /\ change \in {"none", "taken", "failed", "done"} /\ due \subseteq Call
  /\ wire \in [Call -> Seq({"invoke", "cancel"})] /\ pushed \in [Call -> 0..MaxOutput]
  /\ answered \subseteq Call
  /\ seen \in [Call -> Seq(1..MaxOutput)] /\ reply \in [Call -> End]

CallInit ==
  /\ closed = {} /\ stalled = {} /\ swept = {}
  /\ call = [c \in Call |-> "new"] /\ sent = {} /\ cancelling = {} /\ subscribed = {}
  /\ chan = [c \in Call |-> <<>>] /\ trunc = [c \in Call |-> FALSE]
  /\ term = [c \in Call |-> "none"] /\ closes = [c \in Call |-> 0]
  /\ conn = "up" /\ reader = "reading" /\ change = "none" /\ due = {}
  /\ wire = [c \in Call |-> <<>>] /\ pushed = [c \in Call |-> 0] /\ answered = {}
  /\ seen = [c \in Call |-> <<>>] /\ reply = [c \in Call |-> "none"]

-----------------------------------------------------------------------------
(* The waiters. *)

(* finish on every waiter of S. *)
Finish(S, end) ==
  LET T == {c \in S : ~ Finished(c)}
  IN  /\ term' = [c \in Call |-> IF c \notin T THEN term[c]
                                 ELSE IF end = "exit" /\ trunc[c] THEN "exit_truncated" ELSE end]
      /\ closes' = [c \in Call |-> IF c \in T THEN closes[c] + 1 ELSE closes[c]]

FailWaiters == Finish(subscribed, "error") /\ UNCHANGED <<chan, trunc>>

Overflowed(c) == trunc' = [trunc EXCEPT ![c] = TRUE]

(* The reader received the next output of a call, or its terminal. *)
PushOutput(c) ==
  /\ pushed[c] < MaxOutput /\ pushed' = [pushed EXCEPT ![c] = @ + 1]
  /\ IF c \notin subscribed THEN UNCHANGED waiter
     ELSE IF Len(chan[c]) < Slots
     THEN /\ chan' = [chan EXCEPT ![c] = Append(@, pushed'[c])]
          /\ UNCHANGED <<trunc, term, closes>>
     ELSE Overflowed(c) /\ UNCHANGED <<chan, term, closes>>
  /\ UNCHANGED answered

PushTerminal(c) ==
  /\ \E end \in {"exit", "error"} : Finish({c} \cap subscribed, end)
  /\ answered' = answered \cup {c}
  /\ UNCHANGED <<chan, trunc, pushed>>

Dispatch(c) ==
  /\ Up /\ reader = "reading" /\ wire[c] # <<>> /\ c \notin answered
  /\ PushOutput(c) \/ PushTerminal(c)
  /\ UNCHANGED <<closed, stalled, swept, call, sent, cancelling, subscribed, link, wire,
                 result>>

-----------------------------------------------------------------------------
(* The calls. *)
(* trackRemote: a head that is gone gets no call. *)
Track(c) == call' = [call EXCEPT ![c] = IF HeadOpen(c) THEN "tracked" ELSE "ended"]

Begin(c) ==
  /\ call[c] = "new" /\ Track(c)
  /\ UNCHANGED <<closed, stalled, swept, sent, cancelling, subscribed, waiter, link,
                 relay, result>>

Await(c) ==
  /\ call[c] = "tracked" /\ subscribed' = subscribed \cup {c}
  /\ call' = [call EXCEPT ![c] = "subscribed"]
  /\ UNCHANGED <<closed, stalled, swept, sent, cancelling, waiter, link, relay, result>>

(* What link.send makes of a message for the Relay.  It fails once the
   connection's context is done or an earlier Read or Write failed. *)
Sends(c, op) == Up /\ wire' = [wire EXCEPT ![c] = Append(@, op)]

(* cancelRemote, under the call's mutex. *)
CancelSent(c) == IF c \in sent /\ Up THEN Sends(c, "cancel") ELSE UNCHANGED wire

(* The invoke goes out and the mutex is released. *)
SendInvoke(c) ==
  /\ call[c] = "subscribed" /\ Sends(c, "invoke")
  /\ sent' = sent \cup {c} /\ call' = [call EXCEPT ![c] = "sent"]
  /\ UNCHANGED <<closed, stalled, swept, cancelling, subscribed, waiter, link, pushed,
                 answered, result>>

(* Too large a frame, or a failed write, which closes the connection. *)
SendFails(c) ==
  /\ call[c] = "subscribed"
  /\ \/ UNCHANGED conn
     \/ conn' = "closed"
  /\ reply' = [reply EXCEPT ![c] = "error"]
  /\ call' = [call EXCEPT ![c] = "leaving"]
  /\ UNCHANGED <<closed, stalled, swept, sent, cancelling, subscribed, waiter, reader,
                 change, due, relay, seen>>

(* A stream tells its head the exec id first; without a head it is cancelled. *)
Announce(c) ==
  /\ call[c] = "sent" /\ (c \in Stream => HeadTakes(c))
  /\ IF c \in Stream /\ ~ HeadOpen(c)
     THEN call' = [call EXCEPT ![c] = "leaving"] /\ CancelSent(c)
     ELSE call' = [call EXCEPT ![c] = "consuming"] /\ UNCHANGED wire
  /\ UNCHANGED <<closed, stalled, swept, sent, cancelling, subscribed, waiter, link,
                 pushed, answered, result>>

(* next: buffered output comes before the terminal, whichever branch of its
   select is taken.  A stream writes it to its head; other calls collect it. *)
TakeOutput(c) ==
  /\ call[c] = "consuming" /\ chan[c] # <<>>
  /\ chan' = [chan EXCEPT ![c] = Tail(@)]
  /\ seen' = [seen EXCEPT ![c] = Append(@, Head(chan[c]))]
  /\ call' = [call EXCEPT ![c] = IF c \in Stream THEN "writing" ELSE @]
  /\ UNCHANGED <<closed, stalled, swept, sent, cancelling, subscribed, trunc, term,
                 closes, link, relay, reply>>

(* The write is through, or fails for want of a head. *)
WriteOutput(c) ==
  /\ call[c] = "writing" /\ HeadTakes(c)
  /\ \/ /\ HeadOpen(c) /\ call' = [call EXCEPT ![c] = "consuming"]
        /\ UNCHANGED wire
     \/ /\ ~ HeadOpen(c) /\ call' = [call EXCEPT ![c] = "leaving"]
        /\ IF Up THEN Sends(c, "cancel") ELSE UNCHANGED wire
  /\ UNCHANGED <<closed, stalled, swept, sent, cancelling, subscribed, waiter, link,
                 pushed, answered, result>>

TerminalDueAtOnce(c) == Finished(c)
TerminalDue(c) == Finished(c) /\ chan[c] = <<>>

TakeTerminal(c) ==
  /\ call[c] = "consuming" /\ TerminalDue(c)
  /\ reply' = [reply EXCEPT ![c] = term[c]] /\ term' = [term EXCEPT ![c] = "taken"]
  /\ call' = [call EXCEPT ![c] = "leaving"]
  /\ UNCHANGED <<closed, stalled, swept, sent, cancelling, subscribed, chan, trunc,
                 closes, link, relay, seen>>

(* The head is told how the call ended, if there is one; then the deferred
   unsubscribe and untrackRemote. *)
Leave(c) ==
  /\ call[c] = "leaving" /\ HeadTakes(c)
  /\ call' = [call EXCEPT ![c] = "ended"] /\ subscribed' = subscribed \ {c}
  /\ UNCHANGED <<closed, stalled, swept, sent, cancelling, waiter, link, relay, result>>

WritesToHead(c) == Announce(c) \/ WriteOutput(c) \/ Leave(c)
CallStep(c) ==
  \/ Begin(c) \/ Await(c) \/ SendInvoke(c) \/ SendFails(c)
  \/ TakeOutput(c) \/ TakeTerminal(c) \/ WritesToHead(c)

-----------------------------------------------------------------------------
(* Cancellation. *)
MayCancelUnlocked(c) == c \in cancelling
MayCancel(c) == c \in cancelling /\ c \notin Locked

CancelRemote(c) ==
  /\ MayCancel(c) /\ CancelSent(c)
  /\ cancelling' = cancelling \ {c}
  /\ UNCHANGED <<closed, stalled, swept, call, sent, subscribed, waiter, link, pushed,
                 answered, result>>

(* exec.cancel, over the connection that made the call. *)
IpcCancel(c) ==
  /\ HeadOpen(c) /\ c \in Registered /\ c \notin cancelling
  /\ Len(wire[c]) < 2       \* bound: one cancel that the head asks for is enough
  /\ cancelling' = cancelling \cup {c}
  /\ UNCHANGED <<closed, stalled, swept, call, sent, subscribed, waiter, link, relay,
                 result>>

(* A head stops reading, or reads again. *)
HeadStalls(h) ==
  /\ h \notin closed \cup stalled /\ stalled' = stalled \cup {h}
  /\ UNCHANGED <<closed, swept, call, sent, cancelling, subscribed, waiter, link, relay,
                 result>>

HeadReads(h) ==
  /\ h \in stalled /\ stalled' = stalled \ {h}
  /\ UNCHANGED <<closed, swept, call, sent, cancelling, subscribed, waiter, link, relay,
                 result>>

(* The head goes away: the ipc.Conn is closed, and what is written to it fails;
   then its calls are looked up. *)
HeadCloses(h) ==
  /\ h \notin closed /\ closed' = closed \cup {h} /\ stalled' = stalled \ {h}
  /\ UNCHANGED <<swept, call, sent, cancelling, subscribed, waiter, link, relay, result>>

CancelAllForConn(h) ==
  /\ h \in closed \ swept /\ swept' = swept \cup {h}
  /\ cancelling' = cancelling \cup {c \in Registered : OwnerOf[c] = h}
  /\ UNCHANGED <<closed, stalled, call, sent, subscribed, waiter, link, relay, result>>

-----------------------------------------------------------------------------
(* The connection. *)

(* The peer goes away.  A Read or Write that fails closes the socket
   (github.com/coder/websocket), so no later Write succeeds. *)
ConnBreaks ==
  /\ Up /\ conn' = "broken"
  /\ UNCHANGED <<closed, stalled, swept, call, sent, cancelling, subscribed, waiter,
                 reader, change, due, relay, result>>

ReadFailsUnheard ==
  /\ reader = "reading" /\ ~ Up /\ reader' = "failing"
  /\ UNCHANGED <<closed, stalled, swept, call, sent, cancelling, subscribed, waiter,
                 conn, change, due, relay, result>>
ReadFails ==
  /\ reader = "reading" /\ ~ Up
  /\ reader' = "failing" /\ FailWaiters
  /\ UNCHANGED <<closed, stalled, swept, call, sent, cancelling, subscribed, conn,
                 change, due, relay, result>>

(* dropClient closes the connection, whether the pool still has it or not. *)
ReaderDrops ==
  /\ reader = "failing" /\ reader' = "done" /\ conn' = "closed"
  /\ UNCHANGED <<closed, stalled, swept, call, sent, cancelling, subscribed, waiter,
                 change, due, relay, result>>

(* setAccount and config.set take the connection out of the pool; config.set
   cancels its calls one after the other; both fail the waiters, then close. *)
ChangeTakes ==
  /\ change = "none" /\ change' = "taken"
  /\ due' \in {{}, Registered}
  /\ UNCHANGED <<closed, stalled, swept, call, sent, cancelling, subscribed, waiter,
                 conn, reader, relay, result>>

ChangeCancels(c) ==
  /\ c \in due \ Locked /\ CancelSent(c) /\ due' = due \ {c}
  /\ UNCHANGED <<closed, stalled, swept, call, sent, cancelling, subscribed, waiter,
                 conn, reader, change, pushed, answered, result>>

ChangeFails ==
  /\ change = "taken" /\ due = {} /\ change' = "failed" /\ FailWaiters
  /\ UNCHANGED <<closed, stalled, swept, call, sent, cancelling, subscribed, conn,
                 reader, due, relay, result>>

ChangeCloses ==
  /\ change = "failed" /\ change' = "done" /\ conn' = "closed"
  /\ UNCHANGED <<closed, stalled, swept, call, sent, cancelling, subscribed, waiter,
                 reader, due, relay, result>>

ChangeStep == ChangeFails \/ ChangeCloses \/ \E c \in Call : ChangeCancels(c)
Reads == ReadFails \/ ReaderDrops

Over == reader = "done" /\ UNCHANGED callVars

CallNext ==
  \/ \E c \in Call : CallStep(c) \/ Dispatch(c) \/ IpcCancel(c) \/ CancelRemote(c)
  \/ \E h \in IpcConn : HeadStalls(h) \/ HeadReads(h) \/ HeadCloses(h) \/ CancelAllForConn(h)
  \/ ConnBreaks \/ Reads \/ ChangeTakes \/ ChangeStep \/ Over

CallSpec == CallInit /\ [][CallNext]_callVars

(* Goroutines run; what the Relay answers, and when heads and connections go
   away, is nobody's duty.  A write to a head that reads, or is gone, again and
   again is done; none of them has to read. *)
FairCallSpec ==
  /\ CallSpec
  /\ \A c \in Call :
       /\ WF_callVars(CallStep(c)) /\ WF_callVars(CancelRemote(c))
       /\ SF_callVars(WritesToHead(c))
  /\ \A h \in IpcConn : WF_callVars(CancelAllForConn(h))
  /\ WF_callVars(Reads) /\ WF_callVars(ChangeStep)

-----------------------------------------------------------------------------
(* Properties. *)

(* The Relay never sees a cancel before the invoke it is meant to cancel: it
   would refuse it as unknown and then run the call. *)
CancelFollowsInvoke == \A c \in Call : wire[c] # <<>> => Head(wire[c]) = "invoke"

(* Once the sweep of a head that went away is through, every call of it that
   the Relay still works on was cancelled, unless the connection is about to be
   closed, which cancels it as well: nothing runs for nobody. *)
NothingRunsForNobody ==
  \A c \in Call :
    /\ OwnerOf[c] \in swept /\ c \notin cancelling
    /\ Up /\ change # "failed" /\ wire[c] # <<>> /\ c \notin answered
    => "cancel" \in {wire[c][i] : i \in 1..Len(wire[c])}

(* What the Relay and the waiters of the calls may rely on in every state:
   cancels follow invokes (CancelFollowsInvoke), no waiter is finished twice
   (CallTypeOK), and nothing runs for nobody (NothingRunsForNobody). *)
CallInv == CallTypeOK /\ CancelFollowsInvoke /\ NothingRunsForNobody

(* An exit that claims the output is complete comes after all of it, in order;
   what the consumer was too slow for is admitted as truncated. *)
ExitIsHonest ==
  \A c \in Call :
    /\ \A i, j \in 1..Len(seen[c]) : i < j => seen[c][i] < seen[c][j]
    /\ reply[c] = "exit" => Len(seen[c]) = pushed[c]

(* The same of a call whose output its waiter cannot hold: it still ends once, and
   an exit does not claim output that was dropped (CallInv, ExitIsHonest). *)
CallIsHonest == CallInv /\ ExitIsHonest

(* A failed connection ends every call on it: also one that subscribes while
   the waiters are being failed.  No call waits for the Relay any more then; one
   that writes to its head ends if the head reads or goes (forwardInvoke,
   failWaiters). *)
CallsReturn ==
  \A c \in Call :
    /\ ~ Up /\ call[c] \in {"tracked", "subscribed", "consuming"}
         ~> call[c] \in {"sent", "writing", "leaving", "ended"}
    /\ []<>HeadTakes(c) => (~ Up /\ call[c] # "new" ~> call[c] = "ended")

(* A change of the account or the Relay gets the connection closed, whatever
   its calls are doing. *)
ChangeEnds == change # "none" ~> change = "done"
=============================================================================
