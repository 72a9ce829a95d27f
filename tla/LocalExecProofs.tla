--------------------------- MODULE LocalExecProofs ---------------------------
(* Theorems about LocalExec: what runs was let run, what is said of it is so,
   and no execution outlives what it depends on (LocalExec!ExecInv and
   NothingOutlives). *)
EXTENDS LocalExec, TLAPS

Before == {"absent", "refused", "checks", "asking", "telling", "waiting"}
Unreserved == Before \cup {"timing", "leasing", "reserving"}
Unlaunched == Unreserved \cup {"starting", "launching"}
Decided == Working \ (Before \cup {"leaving"})

(* The approval of an execution: nobody asked before it is asked for, and the
   channel keeps the answer that was accepted. *)
AskSound(e) ==
  /\ exec[e].pc \in {"absent", "checks", "asking"} => ask[e] = NoApproval
  /\ ask[e].answer # "none" => ask[e].ch # "empty"
  /\ ask[e].ch = "allow" => ask[e].answer = "allow"

Allowed(e) == run[e].policy # "deny" /\ (run[e].policy = "ask" => ask[e].answer = "allow")

(* What there is of a process at each place of the goroutine. *)
RunSound(e) ==
  /\ exec[e].pc \in {"asking", "telling", "waiting"} => run[e].policy = "ask"
  /\ exec[e].pc \in Decided \/ run[e].child # "none" => Allowed(e)
  /\ exec[e].pc \in Unreserved => run[e].slot = "none"
  /\ exec[e].pc \in Unlaunched => run[e].child = "none"
  /\ exec[e].pc \in {"starting", "launching", "running", "draining"} => run[e].slot = "held"
  /\ run[e].child = "running" <=> exec[e].pc = "running"
  /\ exec[e].pc = "draining" => run[e].child # "none" /\ (exec[e].ctx = "live" => run[e].child = "exited")
  /\ run[e].child # "none" => run[e].slot # "none"
  /\ run[e].pipe # <<>> => exec[e].pc \in {"running", "draining"}
  /\ run[e].lost => run[e].cut

(* What the terminal says, once there is one. *)
TermSound(e) ==
  /\ term[e].type # "none" => exec[e].pc \in {"leaving", "done"}
  /\ term[e].type = "nack" => run[e].child = "none"
  /\ term[e].type = "exit" =>
       /\ run[e].child # "none" /\ run[e].clean /\ run[e].slot = "released"
       /\ term[e].status = "completed" => run[e].child = "exited"
       /\ run[e].lost => term[e].truncated
  /\ exec[e].pc = "done" => run[e].slot # "held"

Sound(e) == AskSound(e) /\ RunSound(e) /\ TermSound(e)

(* Nothing was cancelled, on this link or another, before it was invoked. *)
Fresh == \A e \in Exec : exec[e].pc = "absent" => e \notin cancelled /\ e # reader

IInv == TypeOK /\ (\A e \in Exec : Sound(e)) /\ Fresh /\ NothingOutlives
-----------------------------------------------------------------------------
(* How the shared updates act. *)

Place == Working \cup {"absent", "refused", "done"}
ExecRecord == [pc : Place, ctx : {"live"} \cup Causes, link : 0..MaxLink]
AskRecord == [pending : BOOLEAN, ch : {"empty", "allow", "deny", "cancelled"},
              answer : {"none", "allow", "deny"}]

(* What an execution's own step leaves of the others, and where it goes. *)
Alone(e) == \A f \in Exec \ {e} :
  exec'[f] = exec[f] /\ ask'[f] = ask[f] /\ run'[f] = run[f] /\ term'[f] = term[f]

LEMMA GoesTo ==
  ASSUME TypeOK, NEW e \in Exec, NEW pc \in Place, Goes(e, pc)
  PROVE  /\ exec' \in [Exec -> ExecRecord] /\ exec'[e].pc = pc
         /\ exec'[e].ctx = exec[e].ctx /\ exec'[e].link = exec[e].link
         /\ \A f \in Exec \ {e} : exec'[f] = exec[f]
<1>1. exec \in [Exec -> ExecRecord]
  BY DEF TypeOK, ExecRecord, Place
<1>2. exec' = [exec EXCEPT ![e] = [exec[e] EXCEPT !.pc = pc]]
  BY DEF Goes
<1>3. [exec[e] EXCEPT !.pc = pc] \in ExecRecord
  BY <1>1 DEF ExecRecord
<1>4. /\ [exec[e] EXCEPT !.pc = pc].pc = pc /\ [exec[e] EXCEPT !.pc = pc].ctx = exec[e].ctx
      /\ [exec[e] EXCEPT !.pc = pc].link = exec[e].link
  BY <1>1 DEF ExecRecord
<1>. QED BY <1>1, <1>2, <1>3, <1>4

LEMMA SaysSo ==
  ASSUME TypeOK, NEW e \in Exec, NEW m \in Message, Says(e, m)
  PROVE  /\ Goes(e, "leaving") /\ term' \in [Exec -> Message] /\ term'[e] \in {term[e], m}
         /\ \A f \in Exec \ {e} : term'[f] = term[f]
<1>1. term \in [Exec -> Message]
  BY DEF TypeOK
<1>. QED BY <1>1 DEF Says

LEMMA Frames ==
  /\ \A c \in Code : [type |-> "nack", code |-> c] \in Message /\ [type |-> "error", code |-> c] \in Message
  /\ \A s \in {"completed", "cancelled", "timeout", "authorization_lost"}, b \in BOOLEAN :
       [type |-> "exit", status |-> s, truncated |-> b] \in Message
  /\ Nothing \in Message
BY DEF Message, Nothing

LEMMA NackSays ==
  ASSUME TypeOK, NEW e \in Exec, NEW c \in Code, Nack(e, c)
  PROVE  /\ Goes(e, "leaving") /\ term' \in [Exec -> Message]
         /\ term'[e] = term[e] \/ term'[e].type = "nack"
         /\ \A f \in Exec \ {e} : term'[f] = term[f]
<1>1. [type |-> "nack", code |-> c] \in Message
  BY Frames
<1>2. Says(e, [type |-> "nack", code |-> c])
  BY DEF Nack
<1>. QED BY <1>1, <1>2, SaysSo

LEMMA ErrorSays ==
  ASSUME TypeOK, NEW e \in Exec, AgentError(e)
  PROVE  /\ Goes(e, "leaving") /\ term' \in [Exec -> Message]
         /\ term'[e] = term[e] \/ term'[e].type = "error"
         /\ \A f \in Exec \ {e} : term'[f] = term[f]
<1>1. [type |-> "error", code |-> "agent_error"] \in Message
  BY Frames DEF Code
<1>2. Says(e, [type |-> "error", code |-> "agent_error"])
  BY DEF AgentError
<1>. QED BY <1>1, <1>2, SaysSo

LEMMA EndingEnds ==
  ASSUME TypeOK, NEW S, NEW cause \in Causes, exec' = Ending(S, cause)
  PROVE  /\ exec' \in [Exec -> ExecRecord]
         /\ \A e \in Exec :
              /\ exec'[e].pc = exec[e].pc /\ exec'[e].link = exec[e].link
              /\ exec'[e].ctx = "live" => exec[e].ctx = "live" /\ e \notin S
<1>1. exec \in [Exec -> ExecRecord]
  BY DEF TypeOK, ExecRecord, Place
<1>2. ASSUME NEW e \in Exec
      PROVE  /\ [exec[e] EXCEPT !.ctx = cause] \in ExecRecord
             /\ [exec[e] EXCEPT !.ctx = cause].pc = exec[e].pc
             /\ [exec[e] EXCEPT !.ctx = cause].link = exec[e].link
             /\ [exec[e] EXCEPT !.ctx = cause].ctx # "live"
  BY <1>1, <1>2 DEF ExecRecord, Causes
<1>3. \A e \in Exec : exec'[e] = IF e \in S /\ exec[e].ctx = "live"
                                THEN [exec[e] EXCEPT !.ctx = cause] ELSE exec[e]
  BY DEF Ending
<1>4. exec' = [e \in Exec |-> exec'[e]]
  BY DEF Ending
<1>. QED BY <1>1, <1>2, <1>3, <1>4

(* No field changes but those of the process and its slot. *)
RunKept(e) ==
  /\ run' \in [Exec -> RunRecord] /\ \A f \in Exec \ {e} : run'[f] = run[f]
  /\ run'[e].policy = run[e].policy /\ run'[e].pipe = run[e].pipe
  /\ run'[e].lost = run[e].lost /\ run'[e].cut = run[e].cut

LEMMA SlotSet ==
  ASSUME TypeOK, NEW e \in Exec, NEW s \in {"none", "held", "released", "uncertain"},
         run' = [run EXCEPT ![e].slot = s]
  PROVE  RunKept(e) /\ run'[e].slot = s /\ run'[e].child = run[e].child /\ run'[e].clean = run[e].clean
<1>1. run \in [Exec -> RunRecord]
  BY DEF TypeOK
<1>2. [run[e] EXCEPT !.slot = s] \in RunRecord
  BY <1>1 DEF RunRecord
<1>. QED BY <1>1, <1>2 DEF RunKept, RunRecord

LEMMA ChildAndSlotSet ==
  ASSUME TypeOK, NEW e \in Exec, NEW s \in {"none", "held", "released", "uncertain"},
         NEW c \in {"none", "running", "exited", "killed"},
         run' = [run EXCEPT ![e].slot = s, ![e].child = c]
  PROVE  RunKept(e) /\ run'[e].slot = s /\ run'[e].child = c
<1>1. run \in [Exec -> RunRecord]
  BY DEF TypeOK
<1>2. [run[e] EXCEPT !.slot = s, !.child = c] \in RunRecord
  BY <1>1 DEF RunRecord
<1>. QED BY <1>1, <1>2 DEF RunKept, RunRecord

LEMMA ChildSet ==
  ASSUME TypeOK, NEW e \in Exec, NEW c \in {"none", "running", "exited", "killed"},
         run' = [run EXCEPT ![e].child = c]
  PROVE  RunKept(e) /\ run'[e].slot = run[e].slot /\ run'[e].child = c
<1>1. run \in [Exec -> RunRecord]
  BY DEF TypeOK
<1>2. [run[e] EXCEPT !.child = c] \in RunRecord
  BY <1>1 DEF RunRecord
<1>. QED BY <1>1, <1>2 DEF RunKept, RunRecord

LEMMA EndSet ==
  ASSUME TypeOK, NEW e \in Exec, NEW c \in {"exited", "killed"}, NEW b \in BOOLEAN,
         run' = [run EXCEPT ![e].child = c, ![e].clean = b]
  PROVE  RunKept(e) /\ run'[e].slot = run[e].slot /\ run'[e].child = c
<1>1. run \in [Exec -> RunRecord]
  BY DEF TypeOK
<1>2. [run[e] EXCEPT !.child = c, !.clean = b] \in RunRecord
  BY <1>1, ZenonT(60) DEF RunRecord
<1>. QED BY <1>1, <1>2 DEF RunKept, RunRecord

LEMMA PumpSet ==
  ASSUME ExecAssumption, TypeOK, NEW e \in Exec, Pump(e)
  PROVE  /\ run' \in [Exec -> RunRecord] /\ \A f \in Exec \ {e} : run'[f] = run[f]
         /\ run[e].pipe # <<>>
         /\ run'[e].policy = run[e].policy /\ run'[e].child = run[e].child /\ run'[e].clean = run[e].clean
         /\ run'[e].slot = run[e].slot
         /\ (run[e].lost => run[e].cut) => (run'[e].lost => run'[e].cut)
<1>1. run \in [Exec -> RunRecord] /\ Chunk \subseteq Nat /\ MaxOutput \in Nat
  BY DEF TypeOK, ExecAssumption
<1>. DEFINE r == run[e]
<1>2. r.pipe \in Seq(Chunk) /\ r.pipe # <<>> /\ r.sent \in 0..MaxOutput /\ r.lost \in BOOLEAN /\ r.cut \in BOOLEAN
  BY <1>1 DEF RunRecord, Pump
<1>3. Head(r.pipe) \in Chunk /\ Tail(r.pipe) \in Seq(Chunk)
  BY <1>2
<1>4. CASE Head(r.pipe) <= MaxOutput - r.sent
  <2>. DEFINE sent == r.sent + Head(r.pipe)
  <2>1. PICK size \in Nat : size = Head(r.pipe)
    BY <1>1, <1>3
  <2>2. sent \in 0..MaxOutput
    BY <1>1, <1>2, <1>4, <2>1
  <2>3. run' = [run EXCEPT ![e].pipe = Tail(@), ![e].sent = @ + size]
    BY <1>4, <2>1, Zenon DEF Pump
  <2>4. run' = [run EXCEPT ![e] = [r EXCEPT !.pipe = Tail(r.pipe), !.sent = sent]]
    <3>1. run' = [run EXCEPT ![e] = [r EXCEPT !.pipe = Tail(r.pipe), !.sent = r.sent + size]]
      BY <1>1, <2>3
    <3>. QED BY <2>1, <3>1, Zenon
  <2>. HIDE DEF sent
  <2>5. [r EXCEPT !.pipe = Tail(r.pipe), !.sent = sent] \in RunRecord
    BY <1>1, <1>3, <2>2, ZenonT(60) DEF RunRecord
  <2>. QED BY <1>1, <1>2, <2>4, <2>5 DEF RunRecord
<1>5. CASE ~ (Head(r.pipe) <= MaxOutput - r.sent)
  <2>1. PICK q \in RunRecord : q = [r EXCEPT !.pipe = Tail(r.pipe), !.sent = MaxOutput]
    <3>1. MaxOutput \in 0..MaxOutput
      BY <1>1
    <3>2. [r EXCEPT !.pipe = Tail(r.pipe), !.sent = MaxOutput] \in RunRecord
      BY <1>1, <1>3, <3>1, ZenonT(60) DEF RunRecord
    <3>. QED BY <3>2
  <2>2. PICK b \in BOOLEAN : b = TRUE
    BY Zenon
  <2>3. [q EXCEPT !.cut = b, !.lost = b] \in RunRecord
    BY DEF RunRecord
  <2>4. run' = [run EXCEPT ![e] = [q EXCEPT !.cut = b, !.lost = b]]
    BY <1>1, <1>5, <2>1, <2>2 DEF Pump
  <2>. QED BY <1>1, <1>2, <2>1, <2>2, <2>3, <2>4 DEF RunRecord
<1>. QED BY <1>4, <1>5

LEMMA WriteSet ==
  ASSUME ExecAssumption, TypeOK, NEW e \in Exec, NEW size \in Chunk, Writes(e, size)
  PROVE  /\ run' \in [Exec -> RunRecord] /\ \A f \in Exec \ {e} : run'[f] = run[f]
         /\ run'[e].policy = run[e].policy /\ run'[e].child = run[e].child /\ run'[e].clean = run[e].clean
         /\ run'[e].slot = run[e].slot /\ run'[e].lost = run[e].lost /\ run'[e].cut = run[e].cut
<1>1. run \in [Exec -> RunRecord] /\ MaxReads \in Nat /\ run[e].reads < MaxReads
  BY DEF TypeOK, ExecAssumption, Writes
<1>. DEFINE r == run[e]
            n == r.reads + 1
<1>2. r.pipe \in Seq(Chunk) /\ r.reads \in 0..MaxReads
  BY <1>1 DEF RunRecord
<1>3. n \in 0..MaxReads
  BY <1>1, <1>2
<1>4. PICK p \in Seq(Chunk) : p = Append(r.pipe, size)
  <2>1. Append(r.pipe, size) \in Seq(Chunk)
    BY <1>2
  <2>. QED BY <2>1
<1>5. run' = [run EXCEPT ![e] = [r EXCEPT !.pipe = p, !.reads = n]]
  <2>1. run' = [run EXCEPT ![e].pipe = Append(@, size), ![e].reads = @ + 1]
    BY DEF Writes
  <2>2. run' = [run EXCEPT ![e] = [r EXCEPT !.pipe = Append(r.pipe, size), !.reads = r.reads + 1]]
    BY <1>1, <2>1
  <2>. QED BY <1>4, <2>2, Zenon
<1>. HIDE DEF n
<1>6. [r EXCEPT !.pipe = p, !.reads = n] \in RunRecord
  BY <1>1, <1>3, ZenonT(60) DEF RunRecord
<1>. QED BY <1>1, <1>5, <1>6 DEF RunRecord

LEMMA DrainSet ==
  ASSUME TypeOK, NEW e \in Exec, DrainTimesOut(e)
  PROVE  /\ run' \in [Exec -> RunRecord] /\ \A f \in Exec \ {e} : run'[f] = run[f]
         /\ run'[e].policy = run[e].policy /\ run'[e].child = run[e].child /\ run'[e].clean = run[e].clean
         /\ run'[e].slot = run[e].slot /\ run'[e].cut
<1>1. run \in [Exec -> RunRecord]
  BY DEF TypeOK
<1>2. <<>> \in Seq(Chunk)
  OBVIOUS
<1>3. PICK p \in Seq(Chunk) : p = <<>>
  BY <1>2
<1>4. PICK b \in BOOLEAN : b = TRUE
  BY Zenon
<1>5. [run[e] EXCEPT !.pipe = p, !.cut = b, !.lost = b] \in RunRecord
  BY <1>1 DEF RunRecord
<1>6. run' = [run EXCEPT ![e] = [run[e] EXCEPT !.pipe = p, !.cut = b, !.lost = b]]
  BY <1>1, <1>3, <1>4 DEF DrainTimesOut
<1>. QED BY <1>1, <1>4, <1>5, <1>6 DEF RunRecord
-----------------------------------------------------------------------------
(* What the own steps of an execution do. *)

Turned(e) ==
  /\ exec' \in [Exec -> ExecRecord] /\ ask' \in [Exec -> AskRecord]
  /\ run' \in [Exec -> RunRecord] /\ term' \in [Exec -> Message]
  /\ Alone(e) /\ UNCHANGED Global
  /\ exec'[e].link = exec[e].link /\ exec'[e].pc # "absent"
  /\ exec'[e].pc \in Working => exec[e].pc \in Working /\ exec'[e].ctx = exec[e].ctx

AskKept(e) ==
  /\ ask' \in [Exec -> AskRecord] /\ \A f \in Exec \ {e} : ask'[f] = ask[f]
  /\ ask'[e].ch = ask[e].ch /\ ask'[e].answer = ask[e].answer

TermKept(e) == term' \in [Exec -> Message] /\ \A f \in Exec \ {e} : term'[f] = term[f]

LEMMA Unchanged ==
  ASSUME TypeOK, NEW e \in Exec
  PROVE  /\ ask' = ask => AskKept(e)
         /\ run' = run => RunKept(e)
         /\ term' = term => TermKept(e)
BY DEF TypeOK, AskKept, RunKept, TermKept, AskRecord

LEMMA Claimed ==
  ASSUME TypeOK, NEW e \in Exec, NEW b \in BOOLEAN, ask' = [ask EXCEPT ![e].pending = b]
  PROVE  AskKept(e)
<1>1. ask \in [Exec -> AskRecord]
  BY DEF TypeOK, AskRecord
<1>2. [ask[e] EXCEPT !.pending = b] \in AskRecord
  BY <1>1 DEF AskRecord
<1>. QED BY <1>1, <1>2 DEF AskKept, AskRecord

(* The execution gives up, or reports its end. *)
LEMMA Leaving ==
  ASSUME TypeOK, NEW e \in Exec, Sound(e), exec[e].pc \in Working \ {"leaving"}, Goes(e, "leaving"),
         AskKept(e), RunKept(e), TermKept(e), UNCHANGED Global,
         run[e].pipe = <<>>, run'[e].child # "running",
         run'[e].child # "none" => Allowed(e) /\ run'[e].slot # "none",
         \/ term'[e] = term[e]
         \/ term'[e].type = "nack" /\ run'[e].child = "none"
         \/ term'[e].type = "error"
         \/ /\ term'[e].type = "exit" /\ run'[e].child # "none" /\ run'[e].clean /\ run'[e].slot = "released"
            /\ term'[e].status = "completed" => run'[e].child = "exited"
            /\ run'[e].lost => term'[e].truncated
  PROVE  Turned(e) /\ Sound(e)'
<1>1. /\ exec' \in [Exec -> ExecRecord] /\ exec'[e].pc = "leaving"
      /\ exec'[e].ctx = exec[e].ctx /\ exec'[e].link = exec[e].link
      /\ \A f \in Exec \ {e} : exec'[f] = exec[f]
  BY GoesTo DEF Place, Working
<1>2. Turned(e)
  BY <1>1 DEF Turned, Alone, AskKept, RunKept, TermKept, Working
<1>3. term[e].type = "none"
  <2>1. term[e] \in Message
    BY DEF TypeOK
  <2>. QED BY <2>1 DEF Sound, TermSound, Working
<1>4. AskSound(e)'
  BY <1>1 DEF Sound, AskSound, AskKept
<1>5. RunSound(e)'
  BY <1>1 DEF Sound, RunSound, RunKept, AskKept, Allowed, Decided, Before, Unreserved, Unlaunched, Working
<1>6. TermSound(e)'
  BY <1>1, <1>3 DEF TermSound
<1>. QED BY <1>2, <1>4, <1>5, <1>6 DEF Sound

(* It goes on to the next place, before there is a process. *)
LEMMA Going ==
  ASSUME TypeOK, NEW e \in Exec, Sound(e), NEW pc \in Working \ {"checks", "leaving", "running", "draining"},
         exec[e].pc \in Unlaunched \cap Working, Goes(e, pc),
         AskKept(e), RunKept(e), term' = term, UNCHANGED Global,
         pc = "asking" => ask' = ask /\ exec[e].pc = "checks",
         pc \in {"asking", "telling", "waiting"} => run[e].policy = "ask", pc \in Decided => Allowed(e),
         run'[e].child = run[e].child,
         pc \in Unreserved => run'[e].slot = "none",
         pc \notin Unreserved => run'[e].slot = "held"
  PROVE  Turned(e) /\ Sound(e)'
<1>1. /\ exec' \in [Exec -> ExecRecord] /\ exec'[e].pc = pc
      /\ exec'[e].ctx = exec[e].ctx /\ exec'[e].link = exec[e].link
      /\ \A f \in Exec \ {e} : exec'[f] = exec[f]
  BY GoesTo DEF Place
<1>2. Turned(e)
  BY <1>1, Unchanged DEF Turned, Alone, AskKept, RunKept, TermKept, Working
<1>3. AskSound(e)'
  BY <1>1 DEF Sound, AskSound, AskKept, Working
<1>4. RunSound(e)'
  BY <1>1 DEF Sound, RunSound, RunKept, AskKept, Allowed, Decided, Before, Unreserved, Unlaunched, Working
<1>5. TermSound(e)'
  <2>1. term[e] \in Message /\ term[e].type = "none"
    BY DEF TypeOK, Sound, TermSound, Working, Unlaunched, Unreserved, Before
  <2>. QED BY <1>1, <2>1 DEF TermSound, Working
<1>. QED BY <1>2, <1>3, <1>4, <1>5 DEF Sound

LEMMA CheckStep == ASSUME TypeOK, NEW e \in Exec, Sound(e), Check(e) PROVE Turned(e) /\ Sound(e)'
<1>0. /\ exec[e].pc = "checks" /\ AskKept(e) /\ RunKept(e) /\ UNCHANGED Global /\ run' = run
      /\ run[e].pipe = <<>> /\ run[e].child = "none" /\ run[e].slot = "none"
  BY Unchanged DEF Check, Sound, RunSound, Unlaunched, Unreserved, Before
<1>1. ASSUME NEW c \in Code, Nack(e, c) PROVE Turned(e) /\ Sound(e)'
  <2>1. Goes(e, "leaving") /\ TermKept(e) /\ (term'[e] = term[e] \/ term'[e].type = "nack")
    BY <1>1, NackSays DEF TermKept
  <2>. QED BY <1>0, <2>1, Leaving DEF Working
<1>2. ASSUME NEW pc \in {"asking", "timing"}, Goes(e, pc), term' = term,
             pc = "asking" => run[e].policy = "ask", pc = "timing" => Allowed(e)
      PROVE Turned(e) /\ Sound(e)'
  BY <1>0, <1>2, Going DEF Check, Working, Unlaunched, Unreserved, Before, Decided
<1>3. CASE \E c \in {"invalid_execution", "inbound_disabled", "policy_deny"} : Nack(e, c)
  BY <1>1, <1>3 DEF Code
<1>4. CASE run[e].policy = "ask" /\ Goes(e, "asking") /\ UNCHANGED term
  BY <1>2, <1>4
<1>5. CASE run[e].policy = "plain" /\ Goes(e, "timing") /\ UNCHANGED term
  BY <1>2, <1>5 DEF Allowed
<1>. QED BY <1>3, <1>4, <1>5 DEF Check

LEMMA AskStep == ASSUME TypeOK, NEW e \in Exec, Sound(e), Ask(e) PROVE Turned(e) /\ Sound(e)'
<1>0. /\ exec[e].pc = "asking" /\ RunKept(e) /\ UNCHANGED Global /\ run' = run
      /\ run[e].pipe = <<>> /\ run[e].child = "none" /\ run[e].slot = "none"
  BY Unchanged DEF Ask, Sound, RunSound, Unlaunched, Unreserved, Before
<1>1. ASSUME NEW c \in Code, Nack(e, c), ask' = ask PROVE Turned(e) /\ Sound(e)'
  <2>1. Goes(e, "leaving") /\ TermKept(e) /\ (term'[e] = term[e] \/ term'[e].type = "nack")
    BY <1>1, NackSays DEF TermKept
  <2>. QED BY <1>0, <1>1, <2>1, Unchanged, Leaving DEF Working
<1>2. ASSUME ask' = [ask EXCEPT ![e].pending = TRUE], Goes(e, "telling"), term' = term
      PROVE  Turned(e) /\ Sound(e)'
  <2>1. AskKept(e)
    BY <1>2, Claimed
  <2>. QED BY <1>0, <1>2, <2>1, Going DEF Working, Unlaunched, Unreserved, Before, Decided, Sound, RunSound
<1>. QED BY <1>1, <1>2 DEF Ask, Code

LEMMA TellStep == ASSUME TypeOK, NEW e \in Exec, Sound(e), TellHeads(e) PROVE Turned(e) /\ Sound(e)'
<1>1. /\ exec[e].pc = "telling" /\ AskKept(e) /\ RunKept(e) /\ UNCHANGED Global /\ run' = run
      /\ run[e].child = "none" /\ run[e].slot = "none" /\ run[e].policy = "ask"
  BY Unchanged DEF TellHeads, Sound, RunSound, Unlaunched, Unreserved, Before
<1>2. Goes(e, "waiting") /\ term' = term
  BY DEF TellHeads
<1>. QED BY <1>1, <1>2, Going DEF Working, Unlaunched, Unreserved, Before, Decided

LEMMA AskReturnsStep == ASSUME TypeOK, NEW e \in Exec, Sound(e), AskReturns(e) PROVE Turned(e) /\ Sound(e)'
<1>0. /\ exec[e].pc = "waiting" /\ RunKept(e) /\ UNCHANGED Global /\ run' = run
      /\ run[e].pipe = <<>> /\ run[e].child = "none" /\ run[e].slot = "none"
  BY Unchanged DEF AskReturns, Sound, RunSound, Unlaunched, Unreserved, Before
<1>k. AskKept(e)
  BY Claimed DEF AskReturns
<1>1. ASSUME NEW c \in Code, Nack(e, c) PROVE Turned(e) /\ Sound(e)'
  <2>1. Goes(e, "leaving") /\ TermKept(e) /\ (term'[e] = term[e] \/ term'[e].type = "nack")
    BY <1>1, NackSays DEF TermKept
  <2>. QED BY <1>0, <1>k, <2>1, Leaving DEF Working
<1>2. ASSUME ask[e].ch = "allow", Goes(e, "timing"), term' = term PROVE Turned(e) /\ Sound(e)'
  <2>1. Allowed(e)
    BY <1>0, <1>2 DEF Sound, AskSound, RunSound, Allowed
  <2>. QED BY <1>0, <1>k, <1>2, <2>1, Going DEF Working, Unlaunched, Unreserved, Before
<1>. QED BY <1>1, <1>2 DEF AskReturns, Code

LEMMA FailureCoded == ASSUME NEW e \in Exec PROVE StartFailureCode(e) \in Code
BY DEF StartFailureCode, Code

LEMMA PrepareStep == ASSUME TypeOK, NEW e \in Exec, Sound(e), Prepare(e) PROVE Turned(e) /\ Sound(e)'
<1>0. /\ exec[e].pc = "timing" /\ AskKept(e) /\ RunKept(e) /\ UNCHANGED Global /\ run' = run /\ Allowed(e)
      /\ run[e].pipe = <<>> /\ run[e].child = "none" /\ run[e].slot = "none"
  BY Unchanged DEF Prepare, Sound, RunSound, Unlaunched, Unreserved, Before, Decided, Working
<1>1. ASSUME NEW c \in Code, Nack(e, c) PROVE Turned(e) /\ Sound(e)'
  <2>1. Goes(e, "leaving") /\ TermKept(e) /\ (term'[e] = term[e] \/ term'[e].type = "nack")
    BY <1>1, NackSays DEF TermKept
  <2>. QED BY <1>0, <2>1, Leaving DEF Working
<1>2. ASSUME Goes(e, "leasing"), term' = term PROVE Turned(e) /\ Sound(e)'
  BY <1>0, <1>2, Going DEF Working, Unlaunched, Unreserved, Before
<1>. QED BY <1>1, <1>2 DEF Prepare, Code

LEMMA LeaseStep == ASSUME TypeOK, NEW e \in Exec, Sound(e), Lease(e) PROVE Turned(e) /\ Sound(e)'
<1>0. /\ exec[e].pc = "leasing" /\ AskKept(e) /\ RunKept(e) /\ UNCHANGED Global /\ run' = run /\ Allowed(e)
      /\ run[e].pipe = <<>> /\ run[e].child = "none" /\ run[e].slot = "none"
  BY Unchanged DEF Lease, Sound, RunSound, Unlaunched, Unreserved, Before, Decided, Working
<1>1. ASSUME NEW c \in Code, Nack(e, c) PROVE Turned(e) /\ Sound(e)'
  <2>1. Goes(e, "leaving") /\ TermKept(e) /\ (term'[e] = term[e] \/ term'[e].type = "nack")
    BY <1>1, NackSays DEF TermKept
  <2>. QED BY <1>0, <2>1, Leaving DEF Working
<1>2. ASSUME Goes(e, "reserving"), term' = term PROVE Turned(e) /\ Sound(e)'
  BY <1>0, <1>2, Going DEF Working, Unlaunched, Unreserved, Before
<1>3. {"unauthorized", "relay_error"} \subseteq Code
  BY DEF Code
<1>. QED BY <1>1, <1>2, <1>3, FailureCoded DEF Lease

LEMMA ReserveStep == ASSUME TypeOK, NEW e \in Exec, Sound(e), ReserveExec(e) PROVE Turned(e) /\ Sound(e)'
<1>0. /\ exec[e].pc = "reserving" /\ AskKept(e) /\ UNCHANGED Global /\ Allowed(e)
      /\ run[e].pipe = <<>> /\ run[e].child = "none"
  BY Unchanged DEF ReserveExec, Sound, RunSound, Unlaunched, Unreserved, Before, Decided, Working
<1>1. ASSUME NEW c \in Code, Nack(e, c), run' = run PROVE Turned(e) /\ Sound(e)'
  <2>1. Goes(e, "leaving") /\ TermKept(e) /\ (term'[e] = term[e] \/ term'[e].type = "nack")
    BY <1>1, NackSays DEF TermKept
  <2>. QED BY <1>0, <1>1, <2>1, Unchanged, Leaving DEF Working
<1>2. ASSUME run' = [run EXCEPT ![e].slot = "held"], Goes(e, "starting"), term' = term
      PROVE  Turned(e) /\ Sound(e)'
  <2>1. RunKept(e) /\ run'[e].child = run[e].child /\ run'[e].slot = "held"
    BY <1>2, SlotSet
  <2>. QED BY <1>0, <1>2, <2>1, Going DEF Working, Unlaunched, Unreserved, Before, Decided
<1>3. {"unsupported_program", "quota_exceeded", "agent_error"} \subseteq Code
  BY DEF Code
<1>. QED BY <1>1, <1>2, <1>3 DEF ReserveExec

(* A start that fails. *)
LEMMA FailsStep ==
  ASSUME TypeOK, NEW e \in Exec, Sound(e), exec[e].pc \in {"starting", "launching"},
         NEW started \in BOOLEAN, NEW release \in {"released", "uncertain"},
         StartFails(e, started, release), UNCHANGED <<Global, ask>>
  PROVE  Turned(e) /\ Sound(e)'
<1>0. /\ AskKept(e) /\ UNCHANGED Global /\ Allowed(e) /\ run[e].pipe = <<>>
  BY Unchanged DEF Sound, RunSound, Unlaunched, Unreserved, Before, Decided, Working
<1>1. PICK c \in {"none", "killed"} : c = IF started THEN "killed" ELSE "none"
  OBVIOUS
<1>2. run' = [run EXCEPT ![e].slot = release, ![e].child = c]
  BY <1>1, Zenon DEF StartFails
<1>3. RunKept(e) /\ run'[e].child = c /\ run'[e].slot = release
  BY <1>2, ChildAndSlotSet
<1>4. CASE started \/ release # "released"
  <2>1. Goes(e, "leaving") /\ TermKept(e) /\ (term'[e] = term[e] \/ term'[e].type = "error")
    BY <1>4, ErrorSays DEF StartFails, TermKept
  <2>. QED BY <1>0, <1>3, <2>1, Leaving DEF Working
<1>5. CASE ~ (started \/ release # "released")
  <2>1. Nack(e, StartFailureCode(e)) /\ c = "none"
    BY <1>1, <1>5 DEF StartFails
  <2>2. Goes(e, "leaving") /\ TermKept(e) /\ (term'[e] = term[e] \/ term'[e].type = "nack")
    BY <2>1, NackSays, FailureCoded DEF TermKept
  <2>. QED BY <1>0, <1>3, <2>1, <2>2, Leaving DEF Working
<1>. QED BY <1>4, <1>5

LEMMA StartStep == ASSUME TypeOK, NEW e \in Exec, Sound(e), Start(e) PROVE Turned(e) /\ Sound(e)'
<1>0. /\ exec[e].pc = "starting" /\ AskKept(e) /\ UNCHANGED <<Global, ask>> /\ Allowed(e)
      /\ run[e].pipe = <<>> /\ run[e].child = "none" /\ run[e].slot = "held"
  BY Unchanged DEF Start, Sound, RunSound, Unlaunched, Unreserved, Before, Decided, Working
<1>1. CASE Nack(e, "agent_error") /\ UNCHANGED run
  <2>1. Goes(e, "leaving") /\ TermKept(e) /\ (term'[e] = term[e] \/ term'[e].type = "nack")
    BY <1>1, NackSays DEF TermKept, Code
  <2>. QED BY <1>0, <1>1, <2>1, Unchanged, Leaving DEF Working
<1>2. CASE \E release \in {"released", "uncertain"} : StartFails(e, FALSE, release)
  BY <1>0, <1>2, FailsStep
<1>3. CASE Goes(e, "launching") /\ UNCHANGED <<run, term>>
  BY <1>0, <1>3, Unchanged, Going DEF Working, Unlaunched, Unreserved, Before
<1>. QED BY <1>1, <1>2, <1>3 DEF Start

LEMMA LaunchStep == ASSUME TypeOK, NEW e \in Exec, Sound(e), Launch(e) PROVE Turned(e) /\ Sound(e)'
<1>0. exec[e].pc = "launching" /\ AskKept(e) /\ UNCHANGED <<Global, ask>>
  BY Unchanged DEF Launch
<1>1. CASE run' = [run EXCEPT ![e].child = "running"] /\ Goes(e, "running") /\ UNCHANGED term
  <2>1. RunKept(e) /\ run'[e].slot = run[e].slot /\ run'[e].child = "running"
    BY <1>1, ChildSet
  <2>2. /\ exec' \in [Exec -> ExecRecord] /\ exec'[e].pc = "running"
        /\ exec'[e].ctx = exec[e].ctx /\ exec'[e].link = exec[e].link
        /\ \A f \in Exec \ {e} : exec'[f] = exec[f]
    BY <1>1, GoesTo DEF Place, Working
  <2>3. Turned(e)
    BY <1>0, <1>1, <2>1, <2>2, Unchanged DEF Turned, Alone, AskKept, RunKept, TermKept, Working
  <2>4. AskSound(e)'
    BY <1>0, <2>2 DEF Sound, AskSound, AskKept
  <2>5. RunSound(e)'
    BY <1>0, <2>1, <2>2
    DEF Sound, RunSound, RunKept, AskKept, Allowed, Decided, Before, Unreserved, Unlaunched, Working
  <2>6. TermSound(e)'
    <3>1. term[e] \in Message /\ term[e].type = "none"
      BY <1>0 DEF TypeOK, Sound, TermSound
    <3>. QED BY <1>1, <2>2, <3>1 DEF TermSound
  <2>. QED BY <2>3, <2>4, <2>5, <2>6 DEF Sound
<1>2. CASE \E release \in {"released", "uncertain"} : StartFails(e, FALSE, release)
  BY <1>0, <1>2, FailsStep
<1>3. CASE StartFails(e, TRUE, "uncertain")
  BY <1>0, <1>3, FailsStep
<1>. QED BY <1>1, <1>2, <1>3 DEF Launch

(* What the process writes and what the pumps read. *)
LEMMA OutputStep ==
  ASSUME TypeOK, NEW e \in Exec, Sound(e), exec[e].pc \in {"running", "draining"},
         UNCHANGED <<Global, exec, ask, term>>,
         run' \in [Exec -> RunRecord], \A f \in Exec \ {e} : run'[f] = run[f],
         run'[e].policy = run[e].policy, run'[e].child = run[e].child, run'[e].clean = run[e].clean,
         run'[e].slot = run[e].slot, run'[e].lost => run'[e].cut
  PROVE  Turned(e) /\ Sound(e)'
<1>1. Turned(e)
  BY DEF Turned, Alone, TypeOK, ExecRecord, AskRecord, Place
<1>2. AskSound(e)'
  BY DEF Sound, AskSound
<1>3. RunSound(e)'
  BY DEF Sound, RunSound, Allowed, Decided, Before, Unreserved, Unlaunched, Working
<1>4. TermSound(e)'
  <2>1. term[e] \in Message /\ term[e].type = "none"
    BY DEF TypeOK, Sound, TermSound
  <2>. QED BY <2>1 DEF TermSound
<1>. QED BY <1>1, <1>2, <1>3, <1>4 DEF Sound

LEMMA PumpStep == ASSUME ExecAssumption, TypeOK, NEW e \in Exec, Sound(e), Pump(e) PROVE Turned(e) /\ Sound(e)'
<1>1. exec[e].pc \in {"running", "draining"} /\ (run[e].lost => run[e].cut)
  BY PumpSet DEF Sound, RunSound
<1>2. UNCHANGED <<Global, exec, ask, term>>
  BY DEF Pump
<1>. QED BY <1>1, <1>2, PumpSet, OutputStep

LEMMA WritesStep ==
  ASSUME ExecAssumption, TypeOK, NEW e \in Exec, NEW size \in Chunk, Sound(e), Writes(e, size)
  PROVE  Turned(e) /\ Sound(e)'
<1>1. exec[e].pc \in {"running", "draining"} /\ (run[e].lost => run[e].cut)
  BY DEF Writes, Sound, RunSound
<1>2. UNCHANGED <<Global, exec, ask, term>>
  BY DEF Writes
<1>. QED BY <1>1, <1>2, WriteSet, OutputStep

LEMMA DrainStep == ASSUME TypeOK, NEW e \in Exec, Sound(e), DrainTimesOut(e) PROVE Turned(e) /\ Sound(e)'
<1>1. exec[e].pc \in {"running", "draining"} /\ UNCHANGED <<Global, exec, ask, term>>
  BY DEF DrainTimesOut
<1>. QED BY <1>1, DrainSet, OutputStep

LEMMA ChildEndsStep ==
  ASSUME TypeOK, NEW e \in Exec, NEW how \in {"exited", "killed"}, Sound(e), ChildEnds(e, how)
  PROVE  Turned(e) /\ Sound(e)'
<1>0. /\ exec[e].pc = "running" /\ AskKept(e) /\ UNCHANGED <<Global, ask, term>> /\ Goes(e, "draining")
      /\ how = "killed" => exec[e].ctx # "live"
  BY Unchanged DEF ChildEnds
<1>1. RunKept(e) /\ run'[e].slot = run[e].slot /\ run'[e].child = how
  BY EndSet DEF ChildEnds
<1>2. /\ exec' \in [Exec -> ExecRecord] /\ exec'[e].pc = "draining"
      /\ exec'[e].ctx = exec[e].ctx /\ exec'[e].link = exec[e].link
      /\ \A f \in Exec \ {e} : exec'[f] = exec[f]
  BY <1>0, GoesTo DEF Place, Working
<1>3. Turned(e)
  BY <1>0, <1>1, <1>2, Unchanged DEF Turned, Alone, AskKept, RunKept, TermKept, Working
<1>4. AskSound(e)'
  BY <1>0, <1>2 DEF Sound, AskSound, AskKept
<1>5. RunSound(e)'
  BY <1>0, <1>1, <1>2
  DEF Sound, RunSound, RunKept, AskKept, Allowed, Decided, Before, Unreserved, Unlaunched, Working
<1>6. TermSound(e)'
  <2>1. term[e] \in Message /\ term[e].type = "none"
    BY <1>0 DEF TypeOK, Sound, TermSound
  <2>. QED BY <1>0, <1>2, <2>1 DEF TermSound
<1>. QED BY <1>3, <1>4, <1>5, <1>6 DEF Sound

LEMMA StatusTold == ASSUME NEW e \in Exec PROVE
  ExitStatus(e) \in {"completed", "cancelled", "timeout", "authorization_lost"}
BY DEF ExitStatus

LEMMA ReportStep == ASSUME TypeOK, NEW e \in Exec, Sound(e), Report(e) PROVE Turned(e) /\ Sound(e)'
<1>0. /\ exec[e].pc = "draining" /\ AskKept(e) /\ UNCHANGED <<Global, ask>> /\ Allowed(e)
      /\ run[e].pipe = <<>> /\ run[e].child \notin {"none", "running"}
      /\ exec[e].ctx = "live" => run[e].child = "exited"
      /\ run[e].lost => run[e].cut
  BY Unchanged DEF Report, Sound, RunSound, Decided, Before, Working
<1>1. PICK release \in {"released", "uncertain"} :
        /\ ~ run[e].clean => release = "uncertain"
        /\ run' = [run EXCEPT ![e].slot = release]
        /\ IF release = "released"
           THEN Says(e, [type |-> "exit", status |-> ExitStatus(e), truncated |-> run[e].cut])
           ELSE AgentError(e)
  BY DEF Report
<1>2. RunKept(e) /\ run'[e].slot = release /\ run'[e].child = run[e].child /\ run'[e].clean = run[e].clean
  BY <1>1, SlotSet
<1>3. CASE release = "released"
  <2>1. PICK s \in {"completed", "cancelled", "timeout", "authorization_lost"} : s = ExitStatus(e)
    BY StatusTold
  <2>2. PICK b \in BOOLEAN : b = run[e].cut
    BY DEF TypeOK, RunRecord
  <2>3. PICK m \in Message : m = [type |-> "exit", status |-> s, truncated |-> b]
    BY Frames
  <2>4. m.type = "exit" /\ m.status = s /\ m.truncated = b
    BY <2>3
  <2>5. Says(e, m)
    BY <1>1, <1>3, <2>1, <2>2, <2>3, Zenon
  <2>6. Goes(e, "leaving") /\ TermKept(e) /\ term'[e] \in {term[e], m}
    BY <2>5, SaysSo DEF TermKept
  <2>7. s = "completed" => run[e].child = "exited"
    <3>1. exec[e].ctx \in {"live"} \cup Causes
      BY DEF TypeOK
    <3>. QED BY <1>0, <2>1, <3>1 DEF ExitStatus, Causes
  <2>8. run[e].clean
    BY <1>1, <1>3
  <2>9. run'[e].lost => m.truncated
    BY <1>0, <1>2, <2>2, <2>4 DEF RunKept
  <2>10. run'[e].clean /\ run'[e].child # "none" /\ run'[e].child # "running" /\ run'[e].slot = "released"
    BY <1>0, <1>2, <1>3, <2>8
  <2>. QED BY <1>0, <1>2, <2>4, <2>6, <2>7, <2>9, <2>10, Leaving DEF Working
<1>4. CASE release # "released"
  <2>1. Goes(e, "leaving") /\ TermKept(e) /\ (term'[e] = term[e] \/ term'[e].type = "error")
    BY <1>1, <1>4, ErrorSays DEF TermKept
  <2>. QED BY <1>0, <1>2, <2>1, Leaving DEF Working
<1>. QED BY <1>3, <1>4

LEMMA LeaveStep == ASSUME TypeOK, NEW e \in Exec, Sound(e), Leave(e) PROVE Turned(e) /\ Sound(e)'
<1>0. exec[e].pc = "leaving" /\ AskKept(e) /\ UNCHANGED <<Global, ask, term>>
  BY Unchanged DEF Leave
<1>1. /\ RunKept(e) /\ run'[e].child = run[e].child /\ run'[e].clean = run[e].clean /\ run'[e].slot # "held"
      /\ run'[e].slot = run[e].slot \/ (run[e].slot = "held" /\ run'[e].slot # "none")
  <2>1. CASE run[e].slot = "held"
    <3>1. PICK release \in {"released", "uncertain"} : run' = [run EXCEPT ![e].slot = release]
      BY <2>1 DEF Leave
    <3>. QED BY <2>1, <3>1, SlotSet
  <2>2. CASE run[e].slot # "held"
    BY <2>2, Unchanged DEF Leave
  <2>. QED BY <2>1, <2>2
<1>2. /\ exec' \in [Exec -> ExecRecord] /\ exec'[e].pc = "done" /\ exec'[e].link = exec[e].link
      /\ \A f \in Exec \ {e} : exec'[f] = exec[f]
  <2>1. exec \in [Exec -> ExecRecord]
    BY DEF TypeOK, ExecRecord, Place
  <2>2. PICK x \in {"live"} \cup Causes : x = IF exec[e].ctx = "live" THEN "cancelled" ELSE exec[e].ctx
    BY <2>1 DEF ExecRecord, Causes
  <2>3. exec' = [exec EXCEPT ![e] = [exec[e] EXCEPT !.pc = "done", !.ctx = x]]
    BY <2>1, <2>2 DEF Leave, ExecRecord
  <2>4. [exec[e] EXCEPT !.pc = "done", !.ctx = x] \in ExecRecord
    BY <2>1, <2>2 DEF ExecRecord, Place
  <2>. QED BY <2>1, <2>3, <2>4 DEF ExecRecord
<1>3. Turned(e)
  BY <1>0, <1>1, <1>2, Unchanged DEF Turned, Alone, AskKept, RunKept, TermKept, Working
<1>4. AskSound(e)'
  BY <1>0, <1>2 DEF Sound, AskSound, AskKept
<1>5. RunSound(e)'
  BY <1>0, <1>1, <1>2
  DEF Sound, RunSound, RunKept, AskKept, Allowed, Decided, Before, Unreserved, Unlaunched, Working
<1>6. TermSound(e)'
  BY <1>0, <1>1, <1>2 DEF Sound, TermSound, RunKept
<1>. QED BY <1>3, <1>4, <1>5, <1>6 DEF Sound

(* One lemma for all of them. *)
LEMMA TurnSound ==
  ASSUME ExecAssumption, TypeOK, NEW e \in Exec, Sound(e),
         \/ Steps(e)
         \/ \E size \in Chunk : Writes(e, size)
         \/ \E how \in {"exited", "killed"} : ChildEnds(e, how)
  PROVE  Turned(e) /\ Sound(e)'
<1>1. CASE Check(e) \/ Ask(e) \/ TellHeads(e) \/ AskReturns(e) \/ Prepare(e) \/ Lease(e) \/ ReserveExec(e)
  BY <1>1, CheckStep, AskStep, TellStep, AskReturnsStep, PrepareStep, LeaseStep, ReserveStep
<1>2. CASE Start(e) \/ Launch(e) \/ Pump(e) \/ DrainTimesOut(e) \/ Report(e) \/ Leave(e)
  BY <1>2, StartStep, LaunchStep, PumpStep, DrainStep, ReportStep, LeaveStep
<1>3. CASE \E size \in Chunk : Writes(e, size)
  BY <1>3, WritesStep
<1>4. CASE \E how \in {"exited", "killed"} : ChildEnds(e, how)
  BY <1>4, ChildEndsStep
<1>. QED BY <1>1, <1>2, <1>3, <1>4 DEF Steps

(* Nothing about e is different in what Sound speaks of. *)
Same(e) ==
  /\ exec'[e].pc = exec[e].pc /\ (exec'[e].ctx = "live" => exec[e].ctx = "live")
  /\ ask'[e] = ask[e] /\ run'[e] = run[e] /\ term'[e] = term[e]

LEMMA SameSound == ASSUME NEW e \in Exec, Sound(e), Same(e) PROVE Sound(e)'
<1>1. AskSound(e)'
  BY DEF Sound, AskSound, Same
<1>2. RunSound(e)'
  BY DEF Sound, RunSound, Same, Allowed
<1>3. TermSound(e)'
  BY DEF Sound, TermSound, Same
<1>. QED BY <1>1, <1>2, <1>3 DEF Sound

LEMMA TurnKeeps ==
  ASSUME ExecAssumption, IInv, NEW e \in Exec, Turned(e), Sound(e)' PROVE IInv'
<1>1. TypeOK'
  BY DEF IInv, TypeOK, Turned, Global, ExecRecord, AskRecord, Place
<1>2. ASSUME NEW f \in Exec PROVE Sound(f)'
  <2>1. f # e => Same(f)
    BY DEF Turned, Alone, Same
  <2>. QED BY <2>1, SameSound DEF IInv
<1>3. Fresh'
  BY DEF IInv, Fresh, Turned, Alone, Global
<1>4. NothingOutlives'
  <2>1. ASSUME NEW f \in Exec, exec'[f].pc \in Working
        PROVE  exec[f].pc \in Working /\ exec'[f].ctx = exec[f].ctx /\ exec'[f].link = exec[f].link
    BY <2>1 DEF Turned, Alone
  <2>2. ASSUME NEW f \in Exec, run'[f].child = "running" PROVE exec'[f].pc \in Working
    BY <1>2, <2>2 DEF Sound, RunSound, Working
  <2>. QED BY <2>1, <2>2 DEF IInv, NothingOutlives, Turned, Global
<1>. QED BY <1>1, <1>2, <1>3, <1>4 DEF IInv
-----------------------------------------------------------------------------
(* Answers and cancels that meet an approval. *)

AskMoved(e) ==
  /\ ask' \in [Exec -> AskRecord] /\ \A f \in Exec \ {e} : ask'[f] = ask[f]
  /\ ask[e].pending
  /\ ask'[e].answer # "none" => ask'[e].ch # "empty"
  /\ ask'[e].ch = "allow" => ask'[e].answer = "allow"
  /\ ask[e].answer = "allow" => ask'[e].answer = "allow"

LEMMA MovedSound ==
  ASSUME TypeOK, NEW e \in Exec, AskMoved(e), UNCHANGED <<exec, run, term>>, \A f \in Exec : Sound(f)
  PROVE  \A f \in Exec : Sound(f)'
<1>1. ASSUME NEW f \in Exec, f # e PROVE Sound(f)'
  <2>1. Same(f)
    BY <1>1 DEF AskMoved, Same
  <2>. QED BY <2>1, SameSound
<1>2. Sound(e)'
  <2>1. exec[e].pc \notin {"absent", "checks", "asking"}
    BY DEF Sound, AskSound, AskMoved, NoApproval
  <2>2. AskSound(e)'
    BY <2>1 DEF AskSound, AskMoved
  <2>3. RunSound(e)'
    BY DEF Sound, RunSound, AskMoved, Allowed
  <2>4. TermSound(e)'
    BY DEF Sound, TermSound
  <2>. QED BY <2>2, <2>3, <2>4 DEF Sound
<1>. QED BY <1>1, <1>2

LEMMA RespondMoves ==
  ASSUME TypeOK, NEW e \in Exec, Sound(e), NEW answer \in {"allow", "deny"}, Respond(e, answer)
  PROVE  AskMoved(e)
<1>1. ask \in [Exec -> AskRecord] /\ ask[e].pending
  BY DEF TypeOK, AskRecord, Respond
<1>2. CASE ask[e].ch = "empty"
  <2>1. [pending |-> FALSE, ch |-> answer, answer |-> answer] \in AskRecord
    BY DEF AskRecord
  <2>2. ask' = [ask EXCEPT ![e] = [pending |-> FALSE, ch |-> answer, answer |-> answer]]
    BY <1>2 DEF Respond
  <2>3. ask[e].answer # "allow"
    BY <1>2 DEF Sound, AskSound
  <2>. QED BY <1>1, <2>1, <2>2, <2>3 DEF AskMoved
<1>3. CASE ask[e].ch # "empty"
  <2>1. [ask[e] EXCEPT !.pending = FALSE] \in AskRecord
    BY <1>1 DEF AskRecord
  <2>2. ask' = [ask EXCEPT ![e] = [ask[e] EXCEPT !.pending = FALSE]]
    BY <1>3 DEF Respond
  <2>. QED BY <1>1, <1>3, <2>1, <2>2 DEF AskMoved, AskRecord, Sound, AskSound
<1>. QED BY <1>2, <1>3

LEMMA CancelMoves ==
  ASSUME TypeOK, NEW e \in Exec, Sound(e), CancelExec(e) PROVE ask' = ask \/ AskMoved(e)
<1>1. ask \in [Exec -> AskRecord]
  BY DEF TypeOK, AskRecord
<1>2. CASE ask[e].pending /\ ask[e].ch = "empty"
  <2>1. [ask[e] EXCEPT !.ch = "cancelled"] \in AskRecord
    BY <1>1 DEF AskRecord
  <2>2. ask' = [ask EXCEPT ![e] = [ask[e] EXCEPT !.ch = "cancelled"]]
    BY <1>2 DEF CancelExec
  <2>. QED BY <1>1, <1>2, <2>1, <2>2 DEF AskMoved, AskRecord
<1>. QED BY <1>2 DEF CancelExec
-----------------------------------------------------------------------------
(* The reader, the heads and the daemon: no execution moves, some end. *)

Ended(S) ==
  /\ exec' \in [Exec -> ExecRecord]
  /\ \A e \in Exec :
       /\ exec'[e].pc = exec[e].pc /\ exec'[e].link = exec[e].link
       /\ exec'[e].ctx = "live" => exec[e].ctx = "live" /\ e \notin S

LEMMA NoneEnded == ASSUME TypeOK, exec' = exec PROVE Ended({})
BY DEF TypeOK, Ended, ExecRecord, Place

LEMMA EndedSound ==
  ASSUME IInv, NEW S, Ended(S), UNCHANGED <<ask, run, term>> PROVE \A e \in Exec : Sound(e)'
<1>1. ASSUME NEW e \in Exec PROVE Sound(e)'
  <2>1. Same(e)
    BY DEF Same, Ended
  <2>. QED BY <2>1, SameSound DEF IInv
<1>. QED BY <1>1

LEMMA StartExecKeeps ==
  ASSUME ExecAssumption, IInv, NEW e \in Exec, StartLocalExec(e) PROVE IInv'
<1>1. /\ exec \in [Exec -> ExecRecord] /\ run \in [Exec -> RunRecord] /\ link.n \in 1..MaxLink
      /\ link.state = "up" /\ reader = None /\ confirmed /\ exec[e].pc = "absent" /\ MaxLink \in Nat
  BY DEF IInv, TypeOK, ExecRecord, Place, StartLocalExec, Reading, ExecAssumption
<1>2. PICK policy \in Policy : run' = [run EXCEPT ![e].policy = policy]
  BY DEF StartLocalExec
<1>3. /\ run' \in [Exec -> RunRecord] /\ \A f \in Exec \ {e} : run'[f] = run[f]
      /\ run'[e].child = run[e].child /\ run'[e].clean = run[e].clean /\ run'[e].pipe = run[e].pipe
      /\ run'[e].slot = run[e].slot /\ run'[e].lost = run[e].lost /\ run'[e].cut = run[e].cut
  <2>1. [run[e] EXCEPT !.policy = policy] \in RunRecord
    BY <1>1, ZenonT(60) DEF RunRecord
  <2>2. run' = [run EXCEPT ![e] = [run[e] EXCEPT !.policy = policy]]
    BY <1>2
  <2>. QED BY <1>1, <2>1, <2>2 DEF RunRecord
<1>4. PICK pc \in {"checks", "refused"} : pc = IF daemon = "up" THEN "checks" ELSE "refused"
  OBVIOUS
<1>5. PICK x \in ExecRecord : x = [pc |-> pc, ctx |-> "live", link |-> link.n]
  <2>1. [pc |-> pc, ctx |-> "live", link |-> link.n] \in ExecRecord
    BY <1>1 DEF ExecRecord, Place, Working
  <2>. QED BY <2>1
<1>6. x.pc = pc /\ x.ctx = "live" /\ x.link = link.n
  BY <1>5
<1>7. exec' = [exec EXCEPT ![e] = x]
  BY <1>4, <1>5, Zenon DEF StartLocalExec
<1>8. exec' \in [Exec -> ExecRecord] /\ exec'[e] = x /\ \A f \in Exec \ {e} : exec'[f] = exec[f]
  BY <1>1, <1>7
<1>9. UNCHANGED <<daemon, link, confirmed, reader, inbound, subscribed, stalled, ask, term, cancelled>>
  BY DEF StartLocalExec
<1>10. TypeOK'
  BY <1>3, <1>8, <1>9 DEF IInv, TypeOK, ExecRecord, Place
<1>11. ASSUME NEW f \in Exec PROVE Sound(f)'
  <2>1. CASE f # e
    <3>1. Same(f)
      BY <1>3, <1>8, <1>9, <2>1 DEF Same
    <3>. QED BY <3>1, SameSound DEF IInv
  <2>2. CASE f = e
    <3>0. Sound(e) /\ exec'[e].pc = pc
      BY <1>6, <1>8 DEF IInv
    <3>1. AskSound(e)'
      BY <1>1, <1>9, <3>0 DEF Sound, AskSound
    <3>2. RunSound(e)'
      BY <1>1, <1>3, <1>9, <3>0 DEF Sound, RunSound, Decided, Before, Unreserved, Unlaunched, Working
    <3>3. TermSound(e)'
      <4>1. term[e] \in Message /\ term[e].type = "none"
        BY <1>1, <3>0 DEF IInv, TypeOK, Sound, TermSound
      <4>. QED BY <1>9, <3>0, <4>1 DEF TermSound
    <3>. QED BY <2>2, <3>1, <3>2, <3>3 DEF Sound
  <2>. QED BY <2>1, <2>2
<1>12. Fresh'
  BY <1>1, <1>6, <1>8, <1>9 DEF IInv, Fresh
<1>13. NothingOutlives'
  <2>1. ASSUME NEW f \in Exec, exec'[f].pc \in Working, exec'[f].ctx = "live"
        PROVE  confirmed /\ exec'[f].link = link.n /\ link.state # "over" /\ f \notin cancelled /\ daemon = "up"
    <3>1. CASE f # e
      <4>1. reader # f
        BY <1>1 DEF ExecAssumption
      <4>. QED BY <1>8, <2>1, <3>1, <4>1 DEF IInv, NothingOutlives
    <3>2. CASE f = e
      BY <1>1, <1>4, <1>6, <1>8, <2>1, <3>2 DEF IInv, Fresh, Working
    <3>. QED BY <3>1, <3>2
  <2>2. ASSUME daemon \in {"drained", "closed"}, NEW f \in Exec
        PROVE  exec'[f].pc \notin Working /\ run'[f].child # "running"
    <3>1. exec[f].pc \notin Working /\ run[f].child # "running"
      BY <2>2 DEF IInv, NothingOutlives
    <3>. QED BY <1>3, <1>4, <1>6, <1>8, <2>2, <3>1 DEF Working
  <2>. QED BY <1>9, <2>1, <2>2 DEF NothingOutlives
<1>. QED BY <1>10, <1>11, <1>12, <1>13 DEF IInv

LEMMA AskKeeps ==
  ASSUME ExecAssumption, IInv, NEW e \in Exec,
         CancelExec(e) \/ \E answer \in {"allow", "deny"} : Respond(e, answer)
  PROVE  IInv'
<1>1. UNCHANGED <<daemon, link, confirmed, inbound, subscribed, stalled, exec, run, term>>
  BY DEF CancelExec, Respond
<1>2. ask' = ask \/ AskMoved(e)
  BY CancelMoves, RespondMoves DEF IInv
<1>3. \A f \in Exec : Sound(f)'
  <2>1. CASE ask' = ask
    BY <1>1, <2>1, NoneEnded, EndedSound DEF IInv
  <2>. QED BY <1>1, <1>2, <2>1, MovedSound DEF IInv
<1>4. reader' \in Exec \cup {None} /\ cancelled' \subseteq Exec
  BY DEF IInv, TypeOK, CancelExec, Respond
<1>5. TypeOK'
  BY <1>1, <1>2, <1>4 DEF IInv, TypeOK, AskMoved, AskRecord
<1>6. CASE CancelExec(e)
  <2>1. reader = None /\ exec[e].pc # "absent" /\ reader' = e /\ cancelled' = cancelled \cup {e}
    BY <1>6 DEF CancelExec, Reading
  <2>2. Fresh'
    BY <1>1, <2>1 DEF IInv, Fresh
  <2>3. NothingOutlives'
    BY <1>1, <2>1 DEF IInv, NothingOutlives, ExecAssumption
  <2>. QED BY <1>3, <1>5, <2>2, <2>3 DEF IInv
<1>7. CASE \E answer \in {"allow", "deny"} : Respond(e, answer)
  <2>1. UNCHANGED <<reader, cancelled>>
    BY <1>7 DEF Respond
  <2>. QED BY <1>1, <1>3, <1>5, <2>1 DEF IInv, Fresh, NothingOutlives
<1>. QED BY <1>6, <1>7

LEMMA EndedKeeps ==
  ASSUME IInv, NEW S, Ended(S), UNCHANGED <<ask, run, term, cancelled>>,
         daemon' \in {"up", "stopping", "drained", "closed"}, link' \in [n : 1..MaxLink, state : {"up", "down", "over"}],
         {confirmed', inbound', subscribed'} \subseteq BOOLEAN, stalled' \subseteq Exec, reader' \in {reader, None}, None \notin Exec,
         \A e \in Exec \ S : exec[e].pc \in Working /\ exec[e].ctx = "live" =>
           confirmed' /\ exec[e].link = link'.n /\ link'.state # "over" /\ (e \in cancelled => reader' = e) /\ daemon' = "up",
         daemon' \in {"drained", "closed"} => \A e \in Exec : exec[e].pc \notin Working
  PROVE  IInv'
<1>1. \A e \in Exec : Sound(e)'
  BY EndedSound
<1>2. TypeOK'
  BY DEF IInv, TypeOK, Ended, ExecRecord, Place
<1>3. Fresh'
  BY DEF IInv, Fresh, Ended
<1>4. NothingOutlives'
  <2>1. ASSUME NEW e \in Exec PROVE run'[e].child = "running" => exec'[e].pc \in Working
    BY <1>1 DEF Sound, RunSound, Working
  <2>. QED BY <2>1 DEF NothingOutlives, Ended
<1>. QED BY <1>1, <1>2, <1>3, <1>4 DEF IInv

LEMMA ReaderKeeps ==
  ASSUME ExecAssumption, IInv, CancelLocal \/ \E allows, usable \in BOOLEAN : SyncDeviceContext(allows, usable)
  PROVE  IInv'
<1>0. TypeOK /\ NothingOutlives /\ None \notin Exec
  BY DEF IInv, ExecAssumption
<1>1. CASE CancelLocal
  <2>1. Ended(Listed \cap {reader})
    BY <1>0, <1>1, EndingEnds DEF CancelLocal, Ended, Causes
  <2>2. reader' = None /\ UNCHANGED <<daemon, link, confirmed, inbound, subscribed, stalled, ask, run, term, cancelled>>
    BY <1>1 DEF CancelLocal
  <2>3. \A e \in Exec \ (Listed \cap {reader}) : exec[e].pc \in Working /\ exec[e].ctx = "live" => e \notin cancelled
    BY <1>0 DEF NothingOutlives, Listed
  <2>. QED BY <1>0, <2>1, <2>2, <2>3, EndedKeeps DEF TypeOK, NothingOutlives
<1>2. ASSUME NEW allows \in BOOLEAN, NEW usable \in BOOLEAN, SyncDeviceContext(allows, usable) PROVE IInv'
  <2>1. /\ UNCHANGED <<daemon, reader, inbound, subscribed, stalled, ask, run, term, cancelled>>
        /\ link.state = "up" /\ link'.n = link.n /\ link'.state # "over"
        /\ link' \in [n : 1..MaxLink, state : {"up", "down", "over"}]
    BY <1>0, <1>2 DEF SyncDeviceContext, Reading, TypeOK
  <2>2. CASE allows /\ usable
    <3>1. Ended({}) /\ confirmed' = TRUE
      BY <1>0, <1>2, <2>2, NoneEnded DEF SyncDeviceContext
    <3>. QED BY <1>0, <2>1, <3>1, EndedKeeps DEF TypeOK, NothingOutlives
  <2>3. CASE ~ (allows /\ usable)
    <3>1. Ended(Listed) /\ confirmed' = FALSE
      BY <1>0, <1>2, <2>3, EndingEnds DEF SyncDeviceContext, Ended, Causes
    <3>2. \A e \in Exec \ Listed : exec[e].pc \notin Working
      BY DEF Listed
    <3>. QED BY <1>0, <2>1, <3>1, <3>2, EndedKeeps DEF TypeOK, NothingOutlives
  <2>. QED BY <2>2, <2>3
<1>. QED BY <1>1, <1>2

LEMMA LinkKeeps ==
  ASSUME ExecAssumption, IInv, \/ LinkFails \/ KillAllLocal \/ LinkUp \/ SetInbound \/ Subscribe
                               \/ \E e \in Exec : HeadStalls(e) \/ HeadReads(e)
  PROVE  IInv'
<1>0. TypeOK /\ NothingOutlives /\ None \notin Exec
  BY DEF IInv, ExecAssumption
<1>1. CASE LinkFails
  <2>1. Ended({}) /\ UNCHANGED <<daemon, confirmed, reader, inbound, subscribed, stalled, ask, run, term, cancelled>>
    BY <1>0, <1>1, NoneEnded DEF LinkFails
  <2>2. /\ link'.n = link.n /\ link'.state # "over"
        /\ link' \in [n : 1..MaxLink, state : {"up", "down", "over"}]
    BY <1>0, <1>1 DEF LinkFails, TypeOK
  <2>. QED BY <1>0, <2>1, <2>2, EndedKeeps DEF TypeOK, NothingOutlives
<1>2. CASE KillAllLocal
  <2>1. Ended(Listed) /\ UNCHANGED <<daemon, confirmed, reader, inbound, subscribed, stalled, ask, run, term, cancelled>>
    BY <1>0, <1>2, EndingEnds DEF KillAllLocal, Ended, Causes
  <2>2. link' \in [n : 1..MaxLink, state : {"up", "down", "over"}]
    BY <1>0, <1>2 DEF KillAllLocal, TypeOK
  <2>3. \A e \in Exec \ Listed : exec[e].pc \notin Working
    BY DEF Listed
  <2>. QED BY <1>0, <2>1, <2>2, <2>3, EndedKeeps DEF TypeOK, NothingOutlives
<1>3. CASE LinkUp
  <2>1. /\ Ended({}) /\ UNCHANGED <<daemon, reader, inbound, subscribed, stalled, ask, run, term, cancelled>>
        /\ confirmed' = inbound /\ link.state = "over"
    BY <1>0, <1>3, NoneEnded DEF LinkUp
  <2>2. link' \in [n : 1..MaxLink, state : {"up", "down", "over"}]
    BY <1>0, <1>3 DEF LinkUp, TypeOK, ExecAssumption
  <2>. QED BY <1>0, <2>1, <2>2, EndedKeeps DEF TypeOK, NothingOutlives
<1>4. CASE SetInbound \/ Subscribe \/ \E e \in Exec : HeadStalls(e) \/ HeadReads(e)
  <2>1. /\ Ended({}) /\ UNCHANGED <<daemon, link, confirmed, reader, ask, run, term, cancelled>>
    BY <1>0, <1>4, NoneEnded DEF SetInbound, Subscribe, HeadStalls, HeadReads
  <2>2. inbound' \in BOOLEAN /\ subscribed' \in BOOLEAN /\ stalled' \subseteq Exec
    BY <1>0, <1>4 DEF SetInbound, Subscribe, HeadStalls, HeadReads, TypeOK
  <2>. QED BY <1>0, <2>1, <2>2, EndedKeeps DEF TypeOK, NothingOutlives
<1>. QED BY <1>1, <1>2, <1>3, <1>4

LEMMA OwnKeeps ==
  ASSUME ExecAssumption, IInv, NEW e \in Exec, Deadline(e) \/ LeaseLost(e) PROVE IInv'
<1>0. TypeOK /\ NothingOutlives /\ None \notin Exec
  BY DEF IInv, ExecAssumption
<1>1. Ended({e}) /\ UNCHANGED <<Global, ask, run, term>>
  BY <1>0, EndingEnds DEF Deadline, LeaseLost, Ended, Causes
<1>. QED BY <1>0, <1>1, EndedKeeps DEF TypeOK, NothingOutlives, Global

LEMMA StopKeeps ==
  ASSUME ExecAssumption, IInv, Stop \/ WaitLocalExecs \/ CloseJobs PROVE IInv'
<1>0. TypeOK /\ NothingOutlives /\ None \notin Exec
  BY DEF IInv, ExecAssumption
<1>1. CASE Stop
  <2>1. /\ Ended(Listed) /\ daemon' = "stopping"
        /\ UNCHANGED <<link, confirmed, reader, inbound, subscribed, stalled, ask, run, term, cancelled>>
    BY <1>0, <1>1, EndingEnds DEF Stop, Ended, Causes
  <2>2. \A f \in Exec \ Listed : exec[f].pc \notin Working
    BY DEF Listed
  <2>. QED BY <1>0, <2>1, <2>2, EndedKeeps DEF TypeOK
<1>2. CASE WaitLocalExecs \/ CloseJobs
  <2>1. /\ Ended({}) /\ daemon' \in {"drained", "closed"}
        /\ UNCHANGED <<link, confirmed, reader, inbound, subscribed, stalled, ask, run, term, cancelled>>
    BY <1>0, <1>2, NoneEnded DEF WaitLocalExecs, CloseJobs
  <2>2. \A f \in Exec : exec[f].pc \notin Working
    BY <1>0, <1>2 DEF WaitLocalExecs, CloseJobs, Listed, NothingOutlives
  <2>. QED BY <1>0, <2>1, <2>2, EndedKeeps DEF TypeOK
<1>. QED BY <1>1, <1>2

LEMMA InitSound == ASSUME ExecAssumption, Init PROVE IInv
<1>1. 1 \in 1..MaxLink /\ 0 \in 0..MaxLink /\ 0 \in 0..MaxReads /\ 0 \in 0..MaxOutput /\ <<>> \in Seq(Chunk)
  BY DEF ExecAssumption
<1>2. NoRun \in RunRecord /\ NoApproval \in AskRecord /\ Nothing \in Message
      /\ [pc |-> "absent", ctx |-> "live", link |-> 0] \in ExecRecord
  BY <1>1, Frames DEF NoRun, RunRecord, NoApproval, AskRecord, ExecRecord, Place
<1>3. TypeOK
  BY <1>1, <1>2 DEF Init, TypeOK, ExecRecord, AskRecord, Place
<1>4. ASSUME NEW e \in Exec PROVE Sound(e)
  BY DEF Init, Sound, AskSound, RunSound, TermSound, NoRun, NoApproval, Nothing, Allowed, Decided, Working
<1>5. Fresh /\ NothingOutlives
  BY DEF Init, Fresh, NothingOutlives, Working, ExecAssumption
<1>. QED BY <1>3, <1>4, <1>5 DEF IInv

LEMMA InvStep == ASSUME ExecAssumption, IInv, [Next]_vars PROVE IInv'
<1>1. CASE UNCHANGED vars
  BY <1>1 DEF vars, IInv, TypeOK, Sound, AskSound, RunSound, TermSound, Allowed, Fresh, NothingOutlives
<1>2. ASSUME NEW e \in Exec,
             Steps(e) \/ (\E size \in Chunk : Writes(e, size)) \/ \E how \in {"exited", "killed"} : ChildEnds(e, how)
      PROVE  IInv'
  BY <1>2, TurnSound, TurnKeeps DEF IInv
<1>. QED BY <1>1, <1>2, StartExecKeeps, AskKeeps, ReaderKeeps, LinkKeeps, OwnKeeps, StopKeeps DEF Next

THEOREM Invariance == ASSUME ExecAssumption PROVE Spec => []IInv
BY InitSound, InvStep, PTL DEF Spec

(* A process exists only for a command that was let run, and what the terminal
   says of it is so: ExecInv, of exec.go's runLocalExec and approval.go. *)
THEOREM RunsAsAllowed == ASSUME ExecAssumption PROVE Spec => []ExecInv
<1>1. IInv => OnlyApprovedRuns
  BY DEF IInv, Sound, RunSound, Allowed, OnlyApprovedRuns
<1>2. IInv => TerminalIsTrue
  BY DEF IInv, TypeOK, RunRecord, Sound, RunSound, TermSound, TerminalIsTrue
<1>3. IInv => ExecInv
  BY <1>1, <1>2 DEF IInv, ExecInv
<1>. QED BY <1>3, Invariance, PTL

(* An execution that may still run has everything it depends on, and the jobs
   are closed over none: NothingOutlives, of local_exec_lifecycle.go,
   device_context.go and the end of daemon.go's Run. *)
THEOREM EndsWithItsCause == ASSUME ExecAssumption PROVE Spec => []NothingOutlives
BY Invariance, PTL DEF IInv
=============================================================================
