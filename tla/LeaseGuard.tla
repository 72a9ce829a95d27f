----------------------------- MODULE LeaseGuard -----------------------------
(***************************************************************************)
(* The authority of running executions: delegation.Maintain keeps a lease  *)
(* alive by asking the Relay again and again (internal/delegation/guard.go,*)
(* noderun/delegation.go, device_replies.go), and the Relay answers from   *)
(* its database (delegation/authority.go).  The execution runs as long as  *)
(* the context Maintain returned is not done.                              *)
(*                                                                         *)
(* Time is a counter.  It passes for everybody alike; timers may be served *)
(* up to Lag late, and Tick waits for nothing else: a message, a database  *)
(* call or the Relay may take as long as they like.                        *)
(*                                                                         *)
(* An operator defined just before another one, with the same parameters   *)
(* and a longer name, is a mistake the code could have made; no action     *)
(* uses it.                                                                *)
(***************************************************************************)
EXTENDS Integers, FiniteSets

CONSTANTS
  Guard,            \* executions, each with a Maintain of its own
  Lease,            \* ExecutionLeaseDuration
  Interval,         \* ExecutionRenewInterval
  Timeout,          \* ExecutionRenewTimeout
  MinWait,          \* 10 ms
  Lag,              \* how late a timer may be served
  ProofEnds,        \* when what the caller signed in with, or the proof, expires
  MaxPending,       \* waiters deviceReplies admits
  MaxLink, MaxAttempt, Horizon  \* bounds: connections to the Relay, requests of an execution, time

GuardAssumption ==
  /\ {Lease, Interval, Timeout, MinWait, MaxLink} \subseteq Nat \ {0}
  /\ {Lag, MaxPending, MaxAttempt, Horizon, ProofEnds} \subseteq Nat

Never == -1

VARIABLES
  now,
  link,             \* Daemon.device: the number of the connection, 0 when there is none
  links,            \* connections there were so far
  revokedAt,        \* when the Relay's database lost the authorisation, or Never
  pc,               \* what each Maintain does: "new", "asking", "waiting" for the answer,
                    \* "sleeping", and "denied", "refused", "expired" or "stopped" for good
  start, deadline,  \* of the request: what request() measured, and the attempt's context
  expires,          \* of the lease
  wake,             \* when the timer of a sleeping Maintain fires
  nr,               \* requests made so far
  missed,           \* requests that failed since the last one that was granted
  pending,          \* deviceReplies.pending
  results,          \* answers in the channels of the waiters
  wire              \* requests and answers on the way, and what the Relay works on

timing == <<start, deadline, expires, wake>>
vars == <<now, link, links, revokedAt, pc, timing, nr, missed, pending, results, wire>>

Time == 0..Horizon
Id == Guard \X (1..MaxAttempt)          \* request ids, random in the code
Code == {"", "unauthorized", "relay_error"}

Asks == {"new", "asking", "waiting", "sleeping"}
(* The execution holds a context that is not done.  During the first request
   Maintain has not returned one. *)
Running(g) == pc[g] \in Asks /\ expires[g] # Never

TypeOK ==
  /\ now \in Time /\ link \in 0..MaxLink /\ links \in 0..MaxLink
  /\ revokedAt \in Time \cup {Never}
  /\ pc \in [Guard -> Asks \cup {"denied", "refused", "expired", "stopped"}]
  /\ start \in [Guard -> Time] /\ deadline \in [Guard -> 0..(Horizon + Timeout)]
  /\ expires \in [Guard -> {Never} \cup 0..(Horizon + Lease)]
  /\ wake \in [Guard -> 0..(Horizon + Lease)]
  /\ nr \in [Guard -> 0..MaxAttempt] /\ missed \in [Guard -> 0..MaxAttempt]
  /\ pending \subseteq [id : Id, link : 1..MaxLink]
  /\ results \subseteq [id : Id, code : Code, ttl : 0..Lease]
  /\ wire \subseteq [id : Id, link : 1..MaxLink, at : {"relay", "checked", "device"}, code : Code, ttl : 0..Lease]

Init ==
  /\ now = 0 /\ link = 1 /\ links = 1 /\ revokedAt = Never
  /\ pc = [g \in Guard |-> "new"]
  /\ start = [g \in Guard |-> 0] /\ deadline = [g \in Guard |-> 0]
  /\ expires = [g \in Guard |-> Never] /\ wake = [g \in Guard |-> 0]
  /\ nr = [g \in Guard |-> 0] /\ missed = [g \in Guard |-> 0]
  /\ pending = {} /\ results = {} /\ wire = {}

-----------------------------------------------------------------------------
Least(S) == CHOOSE x \in S : \A y \in S : x <= y
Greatest(S) == CHOOSE x \in S : \A y \in S : y <= x

(* Maintain asks again after a third of what is left, or the interval. *)
WaitOut(remaining) == remaining
Wait(remaining) == Least({Greatest({Least({remaining \div 3, Interval}), MinWait}), remaining})

(* A request gets five seconds, and never more than the lease has left. *)
AttemptEnds(g) ==
  IF expires[g] = Never THEN now + Timeout ELSE Least({now + Timeout, expires[g]})

(* request() takes the time before anything else. *)
Ask(g) ==
  /\ pc[g] = "new" \/ (pc[g] = "sleeping" /\ now >= wake[g])
  /\ nr[g] < MaxAttempt
  /\ pc' = [pc EXCEPT ![g] = "asking"]
  /\ start' = [start EXCEPT ![g] = now] /\ deadline' = [deadline EXCEPT ![g] = AttemptEnds(g)]
  /\ nr' = [nr EXCEPT ![g] = @ + 1]
  /\ UNCHANGED <<now, link, links, revokedAt, expires, wake, missed, pending, results, wire>>

(* requestExecutionLease: a waiter for the answer, and the request is sent. *)
Send(g) ==
  /\ pc[g] = "asking" /\ link # 0 /\ Cardinality(pending) < MaxPending
  /\ pc' = [pc EXCEPT ![g] = "waiting"]
  /\ pending' = pending \cup {[id |-> <<g, nr[g]>>, link |-> link]}
  /\ wire' = wire \cup {[id |-> <<g, nr[g]>>, link |-> link, at |-> "relay", code |-> "", ttl |-> 0]}
  /\ UNCHANGED <<now, link, links, revokedAt, timing, nr, missed, results>>

(* The waiter goes with the request, however it ends. *)
Released(g) ==
  /\ pending' = {w \in pending : w.id # <<g, nr[g]>>}
  /\ results' = {r \in results : r.id # <<g, nr[g]>>}

Ends(g, state) ==
  /\ pc' = [pc EXCEPT ![g] = state] /\ Released(g)
  /\ UNCHANGED <<now, link, links, revokedAt, timing, nr, missed, wire>>

(* An error that is no denial: the first request is not repeated, a later one
   is, under the old expiry; no grace is added. *)
Missed(g) ==
  IF expires[g] = Never THEN Ends(g, "refused")
  ELSE /\ missed' = [missed EXCEPT ![g] = IF start[g] < deadline[g] THEN @ + 1 ELSE @]
       /\ pc' = [pc EXCEPT ![g] = IF now >= expires[g] THEN "expired" ELSE "sleeping"]
       /\ wake' = [wake EXCEPT ![g] = IF now >= expires[g] THEN @ ELSE now + Wait(expires[g] - now)]
       /\ Released(g)
       /\ UNCHANGED <<now, link, links, revokedAt, start, deadline, expires, nr, wire>>

(* No connection, no room for a waiter, or a write that takes too long. *)
NotSent(g) ==
  /\ pc[g] = "asking"
  /\ link = 0 \/ Cardinality(pending) >= MaxPending \/ now >= deadline[g]
  /\ Missed(g)

(* The attempt's context, or the connection the waiter belongs to, is done. *)
Unanswered(g) ==
  /\ pc[g] = "waiting"
  /\ now >= deadline[g] \/ [id |-> <<g, nr[g]>>, link |-> link] \notin pending
  /\ Missed(g)

(* The lease counts from before the round trip: a delayed answer cannot extend
   the authority. *)
Expiry(g, ttl) == start[g] + ttl

Granted(g, ttl) ==
  /\ pc' = [pc EXCEPT ![g] = "sleeping"] /\ missed' = [missed EXCEPT ![g] = 0]
  /\ expires' = [expires EXCEPT ![g] = Expiry(g, ttl)]
  /\ wake' = [wake EXCEPT ![g] = now + Wait(Expiry(g, ttl) - now)]
  /\ Released(g)
  /\ UNCHANGED <<now, link, links, revokedAt, start, deadline, nr, wire>>

(* The waiter takes the answer.  A denial counts however late it is. *)
Answered(g) ==
  /\ pc[g] = "waiting"
  /\ \E r \in results :
       /\ r.id = <<g, nr[g]>>
       /\ \/ r.code = "unauthorized" /\ Ends(g, "denied")
          \/ r.code = "relay_error" /\ Missed(g)
          \/ r.code = "" /\ now < deadline[g] /\ Expiry(g, r.ttl) > now /\ Granted(g, r.ttl)
          \/ r.code = "" /\ ~ (now < deadline[g] /\ Expiry(g, r.ttl) > now) /\ Missed(g)

(* The caller, or the end of the process, cancels the context. *)
Stop(g) == pc[g] \in Asks /\ Ends(g, "stopped")

-----------------------------------------------------------------------------
Moved(m, x) == wire' = (wire \ {m}) \cup {x}
Elsewhere == UNCHANGED <<now, link, links, revokedAt, pc, timing, nr, missed, pending, results>>

(* Authority.renew loads the device and verifies the caller, or fails to. *)
RelayReads(m) ==
  /\ m.at = "relay"
  /\ \E code \in {"relay_error", IF revokedAt = Never /\ now < ProofEnds THEN "" ELSE "unauthorized"} :
        Moved(m, [m EXCEPT !.at = "checked", !.code = code])
  /\ Elsewhere

(* Nothing is renewed beyond an expiry the caller signed in with. *)
TimeLeft == Least({Lease, ProofEnds - now})

(* It then takes the time, and the Hub answers if the connection is still the
   device's. *)
RelayAnswers(m) ==
  /\ m.at = "checked" /\ m.link = link
  /\ Moved(m, IF m.code # "" THEN [m EXCEPT !.at = "device"]
              ELSE IF TimeLeft <= 0 THEN [m EXCEPT !.at = "device", !.code = "unauthorized"]
              ELSE [m EXCEPT !.at = "device", !.ttl = TimeLeft])
  /\ Elsewhere

Lost(m) == wire' = wire \ {m} /\ Elsewhere

(* deviceReplies finds the waiter by request id and connection. *)
Waiter(m) == {w \in pending : w.link = m.link /\ w.id = m.id}

(* onDeviceMsg: what nobody waits for any more is dropped. *)
Deliver(m) ==
  /\ m.at = "device"
  /\ wire' = wire \ {m}
  /\ results' = results \cup {[id |-> w.id, code |-> m.code, ttl |-> m.ttl] :
                                w \in {x \in Waiter(m) : \A r \in results : r.id # x.id}}
  /\ UNCHANGED <<now, link, links, revokedAt, pc, timing, nr, missed, pending>>

Revoke ==
  /\ revokedAt = Never /\ revokedAt' = now
  /\ UNCHANGED <<now, link, links, pc, timing, nr, missed, pending, results, wire>>

LinkDown ==
  /\ link # 0 /\ link' = 0
  /\ UNCHANGED <<now, links, revokedAt, pc, timing, nr, missed, pending, results, wire>>
LinkUp ==
  /\ link = 0 /\ links < MaxLink /\ links' = links + 1 /\ link' = links + 1
  /\ UNCHANGED <<now, revokedAt, pc, timing, nr, missed, pending, results, wire>>

(* Timers are served in time, but for the lag. *)
Tick ==
  /\ now < Horizon /\ now' = now + 1
  /\ \A g \in Guard :
       /\ pc[g] \in {"asking", "waiting"} => now < deadline[g] + Lag
       /\ pc[g] = "sleeping" => now < wake[g] + Lag
  /\ UNCHANGED <<link, links, revokedAt, pc, timing, nr, missed, pending, results, wire>>

(* The bounds of the instance are reached. *)
Over == (now = Horizon \/ \E g \in Guard : nr[g] = MaxAttempt) /\ UNCHANGED vars

Next ==
  \/ \E g \in Guard : Ask(g) \/ Send(g) \/ NotSent(g) \/ Unanswered(g) \/ Answered(g) \/ Stop(g)
  \/ \E m \in wire : RelayReads(m) \/ RelayAnswers(m) \/ Lost(m) \/ Deliver(m)
  \/ Revoke \/ LinkDown \/ LinkUp \/ Tick \/ Over

Spec == Init /\ [][Next]_vars

-----------------------------------------------------------------------------
(* Properties. *)

(* A waiter belongs to a request in progress: one left behind would take a
   place of the sixteen, and in the end refuse every renewal. *)
WaitersInUse ==
  /\ {w.id : w \in pending} = {<<g, nr[g]>> : g \in {x \in Guard : pc[x] = "waiting"}}
  /\ Cardinality(pending) <= MaxPending

GuardInv == TypeOK /\ WaitersInUse

(* No execution outlives its authority: it stops when its lease ends, and no
   lease it holds reaches further than one lease after the authority was
   revoked, or beyond what the caller signed in with, however long answers
   take, on whichever connection they come, and though only the Relay can see
   either (guard.go: "delayed replies cannot extend execution authority"). *)
NeverBeyondAuthority ==
  \A g \in Guard : Running(g) =>
    /\ now <= expires[g] + Lag
    /\ revokedAt # Never => expires[g] <= revokedAt + Lease
    /\ expires[g] <= ProofEnds

(* A lease has time for two requests that fail and the waits between them:
   20 s, with 5 s for a request, 10 ms for a wait and more than a second for late
   timers (protocol/delegation.go). *)
TimingAssumption ==
  /\ MinWait <= Timeout
  /\ 2 * Lease + 2 > 5 * Timeout + 3 * MinWait + 12 * Lag

(* One renewal that fails, however, does not stop an execution: it runs out
   only after two requests that had time for an answer.  (A lease cut short by
   what the caller signed in with leaves less.) *)
OneMissIsTolerated ==
  \A g \in Guard :
    pc[g] = "expired" /\ expires[g] < ProofEnds - Timeout => missed[g] >= 2

(* What a lease promises: waiters are in use, nothing outlives its authority, and
   it takes two failures to end an execution. *)
LeaseInv == GuardInv /\ NeverBeyondAuthority /\ OneMissIsTolerated
=============================================================================
