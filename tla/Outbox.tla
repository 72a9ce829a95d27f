------------------------------- MODULE Outbox -------------------------------
(***************************************************************************)
(* The send queue of one Relay connection (internal/relay/outbox.go).  The *)
(* Hub appends to it inside its mutex and never waits; one goroutine takes *)
(* messages out and writes them to the peer.  Output of a call may be      *)
(* refused or evicted, everything else is kept or the connection is given  *)
(* up: a peer never misses a terminal on a connection that lives.          *)
(*                                                                         *)
(* Enqueue, Close and each of the writer's critical sections are one step  *)
(* under outbox.mu.  Sizes count in units: a frame of size n retains n.    *)
(*                                                                         *)
(* An operator defined just before another one, with the same parameters   *)
(* and a longer name, is a mistake the code could have made; no action     *)
(* uses it.                                                                *)
(***************************************************************************)
EXTENDS Naturals, Sequences, FiniteSets

CONSTANTS
  Call,             \* exec ids
  Size,             \* sizes of frames
  MaxFrames, MaxBytes,          \* MaxRelayQueueFrames, MaxRelayQueueBytes
  ReserveFrames, ReserveBytes,  \* the part of them output may not use
  MaxBuffered,      \* MaxRelayBufferBytes: output of one call
  MaxMessage        \* bound: messages the Hub hands over

ASSUME OutboxAssumption ==
  /\ Size \subseteq Nat \ {0}
  /\ MaxFrames \in Nat /\ ReserveFrames \in 0..MaxFrames
  /\ MaxBytes \in Nat /\ ReserveBytes \in 0..MaxBytes
  /\ MaxBuffered \in Nat /\ MaxMessage \in Nat

TerminalKind == {"exit", "error"}       \* an invoke_nack is an error here
FrameKind == {"output", "other"} \cup TerminalKind
Message == [nr: 1..MaxMessage, call: Call, kind: FrameKind, size: Size, truncated: BOOLEAN]

VARIABLES
  queue,            \* outbox.queue
  bytes,            \* outbox.bytes: the queue and the message being written
  buffered,         \* outbox.buffered
  closing,          \* outbox.closing
  timer,            \* the drain's deadline runs
  cancelled,        \* outbox.ctx is done
  wake,             \* a token is in the wake channel
  writer,           \* "checking" the queue, "parking" as it was empty, "waiting",
                    \* "writing", "failed" as a write did, or "done"
  writing,          \* the message being written, as a sequence of at most one
  offered,          \* messages the Hub has handed over
  finished,         \* calls whose terminal was handed over
  kept,             \* messages Enqueue accepted
  evicted,          \* messages accepted and then discarded for a terminal
  written,          \* what the peer was sent, in order
  overflow          \* control frames and their bytes that were queued when the queue overflowed

queues == <<queue, bytes, buffered>>
state == <<closing, timer, cancelled>>
goroutine == <<writer, writing, written>>
handed == <<offered, finished, kept, evicted, overflow>>
outboxVars == <<queues, state, wake, goroutine, handed>>

Elems(s) == {s[i] : i \in 1..Len(s)}
Numbers(S) == {m.nr : m \in S}
(* What the messages of a set retain together, in units. *)
Units(S) == UNION {{m} \X (1..m.size) : m \in S}
Total(S) == Cardinality(Units(S))
Held == Elems(writing) \cup Elems(queue)
OutputOf(S, c) == {m \in S : m.kind = "output" /\ m.call = c}
Control(S) == {m \in S : m.kind # "output"}

OutboxTypeOK ==
  /\ Elems(queue) \subseteq Message /\ Elems(writing) \subseteq Message /\ Len(writing) <= 1
  /\ bytes \in 0..MaxBytes /\ buffered \in [Call -> 0..MaxBuffered]
  /\ closing \in BOOLEAN /\ timer \in BOOLEAN /\ cancelled \in BOOLEAN /\ wake \in BOOLEAN
  /\ writer \in {"checking", "parking", "waiting", "writing", "failed", "done"}
  /\ offered \in 0..MaxMessage /\ finished \subseteq Call
  /\ kept \subseteq Message /\ evicted \subseteq Message /\ Elems(written) \subseteq Message
  /\ overflow \in {<<>>} \cup (Nat \X Nat)

OutboxInit ==
  /\ queue = <<>> /\ bytes = 0 /\ buffered = [c \in Call |-> 0]
  /\ closing = FALSE /\ timer = FALSE /\ cancelled = FALSE /\ wake = FALSE
  /\ writer = "checking" /\ writing = <<>> /\ written = <<>>
  /\ offered = 0 /\ finished = {} /\ kept = {} /\ evicted = {} /\ overflow = <<>>

-----------------------------------------------------------------------------
SignalUnbuffered == wake' = (wake \/ writer = "waiting")
(* A token the writer has not taken yet is enough. *)
Signal == wake' = TRUE

(* Output has to leave the reserve to everything else. *)
OutputFitsWithoutReserve(m) ==
  /\ buffered[m.call] + m.size <= MaxBuffered
  /\ Len(queue) < MaxFrames /\ bytes + m.size <= MaxBytes
OutputFits(m) ==
  /\ buffered[m.call] + m.size <= MaxBuffered
  /\ Len(queue) < MaxFrames - ReserveFrames
  /\ bytes + m.size <= MaxBytes - ReserveBytes

Fits(m, q, b) == Len(q) < MaxFrames /\ b + m.size <= MaxBytes

Discarded(m) == OutputOf(Elems(queue), m.call)
SettledAsEvicted(m) == [m EXCEPT !.truncated = m.kind = "exit" /\ Discarded(m) # {}]

LinedUp(m, q) == Append(q, m)

(* The rest of the queue, in the same order. *)
Without(q, gone) ==
  LET stays == {i \in 1..Len(q) : q[i] \notin gone}
      nth == CHOOSE f \in [1..Cardinality(stays) -> stays] :
               \A i, j \in 1..Cardinality(stays) : i < j => f[i] < f[j]
  IN  [i \in 1..Cardinality(stays) |-> q[nth[i]]]

Push(m, q, b, buf) ==
  /\ queue' = LinedUp(m, q) /\ bytes' = b + m.size /\ buffered' = buf
  /\ kept' = kept \cup {m}
  /\ Signal /\ UNCHANGED <<state, overflow>>

EnqueueOutput(m) ==
  IF OutputFits(m)
  THEN /\ Push(m, queue, bytes, [buffered EXCEPT ![m.call] = @ + m.size])
       /\ UNCHANGED evicted
  ELSE UNCHANGED <<queues, state, wake, kept, evicted, overflow>>

GiveUp(m, q, b, buf) ==
  /\ queue' = q /\ bytes' = b /\ buffered' = buf
  /\ closing' = TRUE /\ cancelled' = TRUE
  /\ overflow' = <<Cardinality(Control(Elems(q))), Total(Control(Held)) + m.size>>
  /\ UNCHANGED <<timer, wake, kept>>

(* A terminal may take the place of its own call's queued output, never
   reorder or drop another's. *)
Evict(m) == IF m.kind \in TerminalKind THEN Discarded(m) ELSE {}

EnqueueControl(m) ==
  LET gone == Evict(m)
      q == Without(queue, gone)
      b == bytes - Total(gone)
      buf == [buffered EXCEPT ![m.call] = @ - Total(OutputOf(gone, m.call))]
  IN  IF Fits(m, queue, bytes)
      THEN Push(m, queue, bytes, buffered) /\ UNCHANGED evicted
      ELSE /\ evicted' = evicted \cup gone
           /\ IF Fits(m, q, b)
              THEN Push(SettledAsEvicted(m), q, b, buf)
              ELSE GiveUp(m, q, b, buf)

(* The Hub hands over the next message.  It sends nothing for a call after its
   terminal (RelayHub: OneTerminal).  A closing outbox refuses everything. *)
Enqueue(c, kind, size) ==
  LET m == [nr |-> offered + 1, call |-> c, kind |-> kind, size |-> size, truncated |-> FALSE]
  IN  /\ offered < MaxMessage /\ c \notin finished
      /\ offered' = offered + 1
      /\ finished' = IF kind \in TerminalKind THEN finished \cup {c} ELSE finished
      /\ IF closing \/ cancelled THEN UNCHANGED <<queues, state, wake, kept, evicted, overflow>>
         ELSE IF kind = "output" THEN EnqueueOutput(m)
         ELSE EnqueueControl(m)
      /\ UNCHANGED goroutine

(* Close asks for a drain that the timer bounds. *)
CloseQueue ==
  /\ ~ closing /\ closing' = TRUE /\ timer' = TRUE
  /\ Signal /\ UNCHANGED <<queues, cancelled, goroutine, handed>>

TimerFires ==
  /\ timer /\ ~ cancelled /\ cancelled' = TRUE
  /\ UNCHANGED <<queues, closing, timer, wake, goroutine, handed>>

(* The connection's context ends: its reader failed. *)
ParentEnds ==
  /\ ~ cancelled /\ cancelled' = TRUE
  /\ UNCHANGED <<queues, closing, timer, wake, goroutine, handed>>

-----------------------------------------------------------------------------
(* The writer. *)
Stop ==
  /\ writer' = "done" /\ writing' = <<>>
  /\ cancelled' = TRUE /\ closing' = TRUE /\ timer' = FALSE
  /\ queue' = <<>> /\ bytes' = 0 /\ buffered' = [c \in Call |-> 0]
  /\ UNCHANGED <<wake, written, handed>>

Take ==
  /\ writer = "checking" /\ ~ cancelled /\ queue # <<>>
  /\ writing' = <<Head(queue)>> /\ queue' = Tail(queue)
  /\ writer' = "writing"
  /\ UNCHANGED <<bytes, buffered, state, wake, written, handed>>

Park ==
  /\ writer = "checking" /\ ~ cancelled /\ queue = <<>> /\ ~ closing
  /\ writer' = "parking"
  /\ UNCHANGED <<queues, state, wake, writing, written, handed>>

(* It has let the mutex go and comes to the select. *)
GoesToSleep ==
  /\ writer = "parking" /\ writer' = "waiting"
  /\ UNCHANGED <<queues, state, wake, writing, written, handed>>

DrainedAtOnce ==
  /\ writer = "checking" /\ ~ cancelled /\ closing
  /\ Stop
Drained ==
  /\ writer = "checking" /\ ~ cancelled /\ queue = <<>> /\ closing
  /\ Stop

Wake ==
  /\ writer = "waiting" /\ wake
  /\ wake' = FALSE /\ writer' = "checking"
  /\ UNCHANGED <<queues, state, writing, written, handed>>

Cancelled ==
  /\ writer \in {"checking", "waiting"} /\ cancelled
  /\ Stop

(* What was being written no longer counts. *)
Released(m) ==
  /\ bytes' = bytes - m.size
  /\ buffered' = IF m.kind = "output" THEN [buffered EXCEPT ![m.call] = @ - m.size] ELSE buffered

Written ==
  /\ writer = "writing" /\ writer' = "checking"
  /\ Released(writing[1])
  /\ written' = Append(written, writing[1]) /\ writing' = <<>>
  /\ UNCHANGED <<queue, state, wake, handed>>

(* A write failed, timed out or was cancelled: the peer may have the message
   or not, and the outbox takes more until the deferred cleanup. *)
WriteFails ==
  /\ writer = "writing" /\ writer' = "failed"
  /\ Released(writing[1])
  /\ written' \in {written, Append(written, writing[1])} /\ writing' = <<>>
  /\ UNCHANGED <<queue, state, wake, handed>>

Failed == writer = "failed" /\ Stop

Writer == Take \/ Park \/ GoesToSleep \/ Drained \/ Wake \/ Cancelled \/ Written \/ WriteFails \/ Failed

Over == writer = "done" /\ UNCHANGED outboxVars

OutboxNext ==
  \/ \E c \in Call, kind \in FrameKind, size \in Size : Enqueue(c, kind, size)
  \/ CloseQueue \/ TimerFires \/ ParentEnds
  \/ Writer
  \/ Over

OutboxSpec == OutboxInit /\ [][OutboxNext]_outboxVars

(* The goroutine runs, a write is bounded by RelayWriteTimeout, the timer fires. *)
OutboxFairSpec == OutboxSpec /\ WF_outboxVars(Writer) /\ WF_outboxVars(TimerFires)

-----------------------------------------------------------------------------
(* Properties. *)

(* The counters that decide admission are exactly what is held, the message
   being written included: a leak would refuse output, or close a connection,
   that is idle. *)
Accounted ==
  /\ bytes = Total(Held)
  /\ \A c \in Call : buffered[c] = Total(OutputOf(Held, c))

(* Messages leave in the order they came: a terminal follows the output of its
   call that was not discarded. *)
InOrder ==
  LET line == written \o writing \o queue
  IN  \A i, j \in 1..Len(line) : i < j => line[i].nr < line[j].nr

(* Until a connection is cut (cancelled, or a write failed) every message that
   Enqueue accepted, a terminal above all, was written or is still to be, but
   for output that gave way to its own call's terminal; the drain that Close
   asked for is no exception. *)
NothingLost ==
  [][~ cancelled /\ writer # "failed" /\ writer' # "failed" =>
      Numbers(kept' \ UNION {OutputOf(evicted', c) : c \in finished'})
        \subseteq Numbers(Elems(written') \cup Held')]_outboxVars

(* An exit says so when output of its call was discarded for it, so a caller
   never takes partial output for all of it. *)
EvictionReported ==
  \A m \in Elems(written) \cup Held :
    m.kind = "exit" /\ (\E x \in evicted : x.call = m.call) => m.truncated

(* However much output there is, the connection is given up only over control
   traffic that outgrew the reserve. *)
OutputNeverOverflows ==
  overflow # <<>> => overflow[1] >= ReserveFrames \/ overflow[2] > ReserveBytes

(* What the queue promises in every state: its counters are exact (Accounted),
   its order is the order of arrival (InOrder), output alone never costs
   the connection (OutputNeverOverflows), and output that had to go is admitted
   (EvictionReported). *)
QueueInv == OutboxTypeOK /\ Accounted /\ InOrder /\ OutputNeverOverflows /\ EvictionReported

(* What is queued does not wait for another message to come, and Close or a
   failed peer end the goroutine. *)
QueueMoves ==
  /\ queue # <<>> ~> (queue = <<>> \/ writer = "writing" \/ cancelled)
  /\ closing \/ cancelled ~> writer = "done"
=============================================================================
