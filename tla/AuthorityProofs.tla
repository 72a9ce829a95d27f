--------------------------- MODULE AuthorityProofs ---------------------------
(***************************************************************************)
(* Proofs about the limits the Relay sets: the leases of executions        *)
(* (LeaseGuard), for any number of executions, any durations, any lag of   *)
(* the timers and any number of connections and requests; the limits of an *)
(* address (HelloQuota), for any finite set of connections, any limits and *)
(* any length of a minute; and who may use and manage a device             *)
(* (DeviceAccess), for any finite set of members, any credentials,         *)
(* operations and connections, any limit of shares and any bounds.         *)
(***************************************************************************)
EXTENDS LeaseGuard, HelloQuota, DeviceAccess, FiniteSetTheorems, TLAPS

RequestId == Guard \X Nat
Message == [id : RequestId, link : Nat, at : {"relay", "checked", "device"}, code : Code, ttl : Int]

(* What the proof needs of the types; the bounds of an instance play no part. *)
Types ==
  /\ now \in Nat /\ link \in Nat /\ links \in Nat /\ revokedAt \in Int
  /\ pc \in [Guard -> Asks \cup {"denied", "refused", "expired", "stopped"}]
  /\ start \in [Guard -> Nat] /\ deadline \in [Guard -> Int]
  /\ expires \in [Guard -> Int] /\ wake \in [Guard -> Int] /\ nr \in [Guard -> Nat]
  /\ pending \subseteq [id : RequestId, link : Nat]
  /\ results \subseteq [id : RequestId, code : Code, ttl : Int]
  /\ wire \subseteq Message

(* Every timer of an execution that runs fires before its lease ends, and the lease
   is within what its authority allows. *)
Timed(g) ==
  /\ start[g] <= now
  /\ pc[g] = "new" => expires[g] = Never
  /\ expires[g] # Never =>
       /\ expires[g] <= now + Lease /\ expires[g] <= ProofEnds
       /\ revokedAt # Never => expires[g] <= revokedAt + Lease
  /\ Running(g) => now <= expires[g] + Lag
  /\ pc[g] \in {"asking", "waiting"} /\ expires[g] # Never => deadline[g] <= expires[g]
  /\ pc[g] = "sleeping" => wake[g] <= expires[g]

(* A grant for the request in progress was read after that request began, so that
   a revocation came later than its start, and its time is within both limits when
   it is counted from there. *)
Latest(x) == x.id[2] = nr[x.id[1]]
Backed(x) ==
  Latest(x) /\ x.code = "" /\ revokedAt # Never => start[x.id[1]] <= revokedAt
Limited(x) ==
  Latest(x) /\ x.code = "" => x.ttl <= Lease /\ start[x.id[1]] + x.ttl <= ProofEnds
Asked(x) == x.id[2] <= nr[x.id[1]]

Answers ==
  /\ \A m \in wire : /\ Asked(m)
                     /\ m.at # "relay" => Backed(m)
                     /\ m.at = "device" => Limited(m)
  /\ \A r \in results : Asked(r) /\ Backed(r) /\ Limited(r)

IInv == Types /\ (\A g \in Guard : Timed(g)) /\ Answers
-----------------------------------------------------------------------------
LEMMA LeastOfTwo ==
  ASSUME NEW a \in Int, NEW b \in Int
  PROVE  Least({a, b}) \in Int /\ Least({a, b}) <= a /\ Least({a, b}) <= b
<1>1. \E x \in {a, b} : \A y \in {a, b} : x <= y
  OBVIOUS
<1>. QED BY <1>1 DEF Least

LEMMA GreatestOfTwo ==
  ASSUME NEW a \in Int, NEW b \in Int PROVE Greatest({a, b}) \in Int
<1>1. \E x \in {a, b} : \A y \in {a, b} : y <= x
  OBVIOUS
<1>. QED BY <1>1 DEF Greatest

(* Maintain never sleeps longer than the lease lasts. *)
LEMMA WaitWithin ==
  ASSUME GuardAssumption, NEW r \in Int
  PROVE  Wait(r) \in Int /\ Wait(r) <= r
<1>1. Interval \in Int /\ MinWait \in Int /\ r \div 3 \in Int
  BY DEF GuardAssumption
<1>2. Least({r \div 3, Interval}) \in Int
  BY <1>1, LeastOfTwo
<1>3. Greatest({Least({r \div 3, Interval}), MinWait}) \in Int
  BY <1>1, <1>2, GreatestOfTwo
<1>. QED BY <1>3, LeastOfTwo DEF Wait

LEMMA Initially == ASSUME GuardAssumption, Init PROVE IInv
<1>1. Types
  BY DEF Init, Types, Never, Asks
<1>2. \A g \in Guard : Timed(g)
  BY DEF Init, Timed, Running, Never
<1>3. Answers
  BY DEF Init, Answers
<1>. QED BY <1>1, <1>2, <1>3 DEF IInv
-----------------------------------------------------------------------------
(* A step that takes answers away and keeps requests and the revocation. *)
LEMMA FewerAnswers ==
  ASSUME Answers, wire' \subseteq wire, results' \subseteq results,
         UNCHANGED <<start, nr, revokedAt>>
  PROVE  Answers'
  BY DEF Answers, Asked, Backed, Limited, Latest

LEMMA AskStep == ASSUME GuardAssumption, IInv, NEW g \in Guard, Ask(g) PROVE IInv'
<1>. USE DEF IInv
<1>1. AttemptEnds(g) \in Int /\ (expires[g] # Never => AttemptEnds(g) <= expires[g])
  <2>1. now + Timeout \in Int /\ expires[g] \in Int
    BY DEF Types, GuardAssumption
  <2>. QED BY <2>1, LeastOfTwo DEF AttemptEnds
<1>2. /\ pc' = [pc EXCEPT ![g] = "asking"] /\ start' = [start EXCEPT ![g] = now]
      /\ deadline' = [deadline EXCEPT ![g] = AttemptEnds(g)] /\ nr' = [nr EXCEPT ![g] = @ + 1]
      /\ UNCHANGED <<now, link, links, revokedAt, expires, wake, pending, results, wire>>
  BY DEF Ask
<1>3. Types'
  BY <1>1, <1>2 DEF Types, Asks
<1>4. ASSUME NEW h \in Guard PROVE Timed(h)'
  <2>1. Timed(h) /\ pc[g] \in {"new", "sleeping"}
    BY DEF Ask
  <2>2. CASE h = g
    BY <1>1, <1>2, <2>1, <2>2 DEF Types, Timed, Running, Asks
  <2>3. CASE h # g
    BY <1>2, <2>1, <2>3 DEF Types, Timed, Running, Asks
  <2>. QED BY <2>2, <2>3
<1>5. Answers'
  <2>1. ASSUME NEW x \in wire \cup results
        PROVE  /\ Asked(x)' /\ (Latest(x)' => Latest(x) /\ x.id[1] # g)
               /\ (x.id[1] # g => start'[x.id[1]] = start[x.id[1]])
    <3>1. x.id \in RequestId /\ Asked(x)
      BY DEF Types, Message, Answers
    <3>. QED BY <1>2, <3>1 DEF Types, RequestId, Asked, Latest
  <2>. QED BY <1>2, <2>1 DEF Answers, Backed, Limited
<1>. QED BY <1>3, <1>4, <1>5

LEMMA SendStep == ASSUME GuardAssumption, IInv, NEW g \in Guard, Send(g) PROVE IInv'
<1>. USE DEF IInv
<1>. DEFINE m == [id |-> <<g, nr[g]>>, link |-> link, at |-> "relay", code |-> "", ttl |-> 0]
<1>1. /\ pc[g] = "asking" /\ pc' = [pc EXCEPT ![g] = "waiting"]
      /\ wire' = wire \cup {m}
      /\ UNCHANGED <<now, link, links, revokedAt, timing, nr, results>>
      /\ pending' = pending \cup {[id |-> <<g, nr[g]>>, link |-> link]}
  BY DEF Send
<1>0. <<g, nr[g]>> \in RequestId /\ nr[g] \in Nat /\ link \in Nat
  BY DEF Types, RequestId
<1>2. Types'
  <2>1. m \in Message /\ [id |-> <<g, nr[g]>>, link |-> link] \in [id : RequestId, link : Nat]
    BY <1>0 DEF Message, Code
  <2>2. wire' \subseteq Message /\ pending' \subseteq [id : RequestId, link : Nat]
    BY <1>1, <2>1 DEF Types
  <2>3. pc' \in [Guard -> Asks \cup {"denied", "refused", "expired", "stopped"}]
    BY <1>1 DEF Types, Asks
  <2>. QED BY <1>1, <2>2, <2>3 DEF Types, timing
<1>3. \A h \in Guard : Timed(h)'
  BY <1>1 DEF Types, Timed, timing, Running, Asks
<1>4. Answers'
  <2>1. m.id[1] = g /\ m.id[2] = nr[g] /\ m.at = "relay"
    OBVIOUS
  <2>2. nr[g] <= nr[g]
    BY <1>0
  <2>3. ASSUME NEW x \in wire'
        PROVE  /\ Asked(x)' /\ (x.at # "relay" => Backed(x)') /\ (x.at = "device" => Limited(x)')
    <3>1. CASE x \in wire
      BY <1>1, <3>1 DEF Answers, Asked, Backed, Limited, Latest, timing
    <3>2. CASE x = m
      BY <1>1, <2>1, <2>2, <3>2 DEF Asked
    <3>. QED BY <1>1, <3>1, <3>2
  <2>4. \A r \in results' : Asked(r)' /\ Backed(r)' /\ Limited(r)'
    BY <1>1 DEF Answers, Asked, Backed, Limited, Latest, timing
  <2>. QED BY <2>3, <2>4 DEF Answers
<1>. QED BY <1>2, <1>3, <1>4

(* A request that ends takes its waiter and its answers with it. *)
LEMMA EndsStep ==
  ASSUME GuardAssumption, IInv, NEW g \in Guard,
         NEW s \in {"denied", "refused", "stopped"}, Ends(g, s)
  PROVE  IInv'
<1>. USE DEF IInv
<1>1. /\ pc' = [pc EXCEPT ![g] = s] /\ pending' \subseteq pending /\ results' \subseteq results
      /\ UNCHANGED <<now, link, links, revokedAt, timing, nr, wire>>
  BY DEF Ends, Released
<1>2. Types'
  BY <1>1 DEF Types, timing
<1>3. \A h \in Guard : Timed(h)'
  BY <1>1 DEF Types, Timed, timing, Running, Asks
<1>4. Answers'
  BY <1>1, FewerAnswers DEF timing
<1>. QED BY <1>2, <1>3, <1>4

(* A failed request leaves the lease as it is. *)
LEMMA MissedStep ==
  ASSUME GuardAssumption, IInv, NEW g \in Guard, pc[g] \in {"asking", "waiting"}, Missed(g)
  PROVE  IInv'
<1>. USE DEF IInv
<1>1. CASE expires[g] = Never
  BY <1>1, EndsStep DEF Missed
<1>2. CASE expires[g] # Never
  <2>1. /\ pc' = [pc EXCEPT ![g] = IF now >= expires[g] THEN "expired" ELSE "sleeping"]
        /\ wake' = [wake EXCEPT ![g] = IF now >= expires[g] THEN @ ELSE now + Wait(expires[g] - now)]
        /\ pending' \subseteq pending /\ results' \subseteq results
        /\ UNCHANGED <<now, link, links, revokedAt, start, deadline, expires, nr, wire>>
    BY <1>2 DEF Missed, Released
  <2>2. /\ Wait(expires[g] - now) \in Int /\ now + Wait(expires[g] - now) <= expires[g]
        /\ expires[g] \in Int /\ now \in Int
    <3>1. expires[g] \in Int /\ now \in Int /\ expires[g] - now \in Int
      BY DEF Types
    <3>2. Wait(expires[g] - now) \in Int /\ Wait(expires[g] - now) <= expires[g] - now
      BY <3>1, WaitWithin
    <3>. QED BY <3>1, <3>2
  <2>3. Types'
    BY <2>1, <2>2 DEF Types, Asks
  <2>4. ASSUME NEW h \in Guard PROVE Timed(h)'
    <3>1. Timed(h) /\ Timed(g)
      OBVIOUS
    <3>2. CASE h = g
      BY <2>1, <2>2, <3>1, <3>2 DEF Types, Timed, Running, Asks
    <3>3. CASE h # g
      BY <2>1, <3>1, <3>3 DEF Types, Timed, Running, Asks
    <3>. QED BY <3>2, <3>3
  <2>5. Answers'
    BY <2>1, FewerAnswers
  <2>. QED BY <2>3, <2>4, <2>5
<1>. QED BY <1>1, <1>2

(* A renewal is counted from the start of its request. *)
LEMMA GrantedStep ==
  ASSUME GuardAssumption, IInv, NEW g \in Guard, NEW ttl \in Int,
         ttl <= Lease, start[g] + ttl <= ProofEnds,
         revokedAt # Never => start[g] <= revokedAt,
         start[g] + ttl > now, Granted(g, ttl)
  PROVE  IInv'
<1>. USE DEF IInv
<1>1. PICK e \in Int : e = start[g] + ttl
  BY DEF Types
<1>2. PICK w \in Int : w = now + Wait(e - now) /\ w <= e
  <2>1. e - now \in Int /\ now \in Int
    BY DEF Types
  <2>2. Wait(e - now) \in Int /\ Wait(e - now) <= e - now
    BY <2>1, WaitWithin
  <2>. QED BY <2>1, <2>2
<1>3. /\ pc' = [pc EXCEPT ![g] = "sleeping"] /\ expires' = [expires EXCEPT ![g] = e]
      /\ wake' = [wake EXCEPT ![g] = w]
      /\ pending' \subseteq pending /\ results' \subseteq results
      /\ UNCHANGED <<now, link, links, revokedAt, start, deadline, nr, wire>>
  BY <1>1, <1>2 DEF Granted, Released, Expiry
<1>4. Types'
  BY <1>3 DEF Types, Asks
<1>5. ASSUME NEW h \in Guard PROVE Timed(h)'
  <2>1. /\ Timed(h) /\ start[g] <= now /\ start[g] \in Nat /\ now \in Nat
        /\ {Lease, Lag} \subseteq Nat /\ revokedAt \in Int
    BY DEF Timed, Types, GuardAssumption
  <2>2. CASE h = g
    <3>1. /\ expires'[g] = e /\ pc'[g] = "sleeping" /\ wake'[g] <= e
          /\ UNCHANGED <<now, start, revokedAt>>
      BY <1>2, <1>3 DEF Types
    <3>2. /\ e <= now + Lease /\ e <= ProofEnds /\ now <= e + Lag
          /\ revokedAt # Never => e <= revokedAt + Lease
      BY <1>1, <2>1
    <3>. QED BY <2>1, <2>2, <3>1, <3>2 DEF Timed
  <2>3. CASE h # g
    BY <1>3, <2>1, <2>3 DEF Types, Timed, Running, Asks
  <2>. QED BY <2>2, <2>3
<1>6. Answers'
  BY <1>3, FewerAnswers
<1>. QED BY <1>4, <1>5, <1>6

LEMMA IdParts ==
  ASSUME NEW x, NEW a, NEW b, x.id = <<a, b>> PROVE x.id[1] = a /\ x.id[2] = b
  OBVIOUS

LEMMA AnsweredStep == ASSUME GuardAssumption, IInv, NEW g \in Guard, Answered(g) PROVE IInv'
<1>1. PICK r \in results :
        /\ r.id = <<g, nr[g]>>
        /\ \/ r.code = "unauthorized" /\ Ends(g, "denied")
           \/ Missed(g)
           \/ r.code = "" /\ now < deadline[g] /\ Expiry(g, r.ttl) > now /\ Granted(g, r.ttl)
  BY DEF Answered
<1>2. pc[g] = "waiting"
  BY DEF Answered
<1>3. CASE r.code = "" /\ Expiry(g, r.ttl) > now /\ Granted(g, r.ttl)
  <2>1. r \in [id : RequestId, code : Code, ttl : Int]
    BY DEF IInv, Types
  <2>2. r.ttl \in Int
    BY <2>1
  <2>3. r.id[1] = g /\ r.id[2] = nr[g] /\ Backed(r) /\ Limited(r)
    <3>1. \A x \in results : Backed(x) /\ Limited(x)
      BY DEF IInv, Answers
    <3>2. r.id[1] = g /\ r.id[2] = nr[g]
      BY <1>1, IdParts
    <3>. QED BY <3>1, <3>2
  <2>4. /\ r.ttl <= Lease /\ start[g] + r.ttl <= ProofEnds
        /\ revokedAt # Never => start[g] <= revokedAt
    BY <1>3, <2>3 DEF Backed, Limited, Latest
  <2>5. start[g] + r.ttl > now
    BY <1>3 DEF Expiry
  <2>. QED BY <1>3, <2>2, <2>4, <2>5, GrantedStep
<1>. QED BY <1>1, <1>2, <1>3, EndsStep, MissedStep
-----------------------------------------------------------------------------
(* The Relay's side: a message is replaced by what the Relay makes of it. *)
LEMMA MovedStep ==
  ASSUME GuardAssumption, IInv, NEW m \in wire, NEW x \in Message, x.id = m.id,
         Moved(m, x), Elsewhere,
         x.at # "relay" => Backed(x), x.at = "device" => Limited(x)
  PROVE  IInv'
<1>. USE DEF IInv
<1>1. UNCHANGED <<now, link, links, revokedAt, pc, timing, nr, pending, results>>
  BY DEF Elsewhere
<1>2. wire' = (wire \ {m}) \cup {x}
  BY DEF Moved
<1>3. Types'
  BY <1>1, <1>2 DEF Types, timing
<1>4. \A h \in Guard : Timed(h)'
  BY <1>1 DEF Timed, Running, timing
<1>5. Answers'
  <2>1. Asked(x)
    BY DEF Answers, Asked
  <2>. QED BY <1>1, <1>2, <2>1 DEF Answers, Asked, Backed, Limited, Latest, timing
<1>. QED BY <1>3, <1>4, <1>5

LEMMA RelayReadsStep == ASSUME GuardAssumption, IInv, NEW m \in wire, RelayReads(m) PROVE IInv'
<1>1. PICK code \in {"relay_error", IF revokedAt = Never /\ now < ProofEnds THEN "" ELSE "unauthorized"} :
        Moved(m, [m EXCEPT !.at = "checked", !.code = code])
  BY DEF RelayReads
<1>. DEFINE x == [m EXCEPT !.at = "checked", !.code = code]
<1>2. m \in Message
  BY DEF IInv, Types
<1>3. x \in Message /\ x.id = m.id /\ x.at = "checked" /\ x.code = code
  BY <1>2 DEF Message, Code
<1>4. Backed(x)
  BY <1>3 DEF Backed
<1>. QED BY <1>1, <1>3, <1>4, MovedStep DEF RelayReads

LEMMA RelayAnswersStep == ASSUME GuardAssumption, IInv, NEW m \in wire, RelayAnswers(m) PROVE IInv'
<1>1. m \in Message /\ m.at = "checked" /\ Backed(m)
  BY DEF IInv, Types, RelayAnswers, Answers
<1>2. now \in Nat /\ Lease \in Int /\ ProofEnds \in Int
  BY DEF IInv, Types, GuardAssumption
<1>3. TimeLeft \in Int /\ TimeLeft <= Lease /\ TimeLeft <= ProofEnds - now
  BY <1>2, LeastOfTwo DEF TimeLeft
<1>4. start[m.id[1]] <= now /\ start[m.id[1]] \in Nat
  BY <1>1 DEF IInv, Types, Timed, Message, RequestId
<1>5. CASE m.code # ""
  <2>. DEFINE x == [m EXCEPT !.at = "device"]
  <2>1. x \in Message /\ x.id = m.id /\ x.code = m.code /\ Moved(m, x)
    BY <1>1, <1>5 DEF Message, RelayAnswers
  <2>2. Backed(x) /\ Limited(x)
    BY <1>5, <2>1 DEF Backed, Limited
  <2>. QED BY <2>1, <2>2, MovedStep DEF RelayAnswers
<1>6. CASE m.code = "" /\ TimeLeft <= 0
  <2>. DEFINE x == [m EXCEPT !.at = "device", !.code = "unauthorized"]
  <2>1. x \in Message /\ x.id = m.id /\ x.code = "unauthorized" /\ Moved(m, x)
    BY <1>1, <1>6 DEF Message, Code, RelayAnswers
  <2>2. Backed(x) /\ Limited(x)
    BY <2>1 DEF Backed, Limited
  <2>. QED BY <2>1, <2>2, MovedStep DEF RelayAnswers
<1>7. CASE m.code = "" /\ ~(TimeLeft <= 0)
  <2>. DEFINE x == [m EXCEPT !.at = "device", !.ttl = TimeLeft]
  <2>1. x \in Message /\ x.id = m.id /\ x.code = "" /\ x.ttl = TimeLeft /\ Moved(m, x)
    BY <1>1, <1>3, <1>7 DEF Message, RelayAnswers
  <2>2. Limited(x)
    <3>1. start[m.id[1]] + TimeLeft <= ProofEnds
      BY <1>2, <1>3, <1>4
    <3>. QED BY <1>3, <2>1, <3>1 DEF Limited
  <2>3. Backed(x)
    BY <1>1, <1>7, <2>1 DEF Backed, Latest
  <2>. QED BY <2>1, <2>2, <2>3, MovedStep DEF RelayAnswers
<1>. QED BY <1>5, <1>6, <1>7

LEMMA DeliverStep == ASSUME GuardAssumption, IInv, NEW m \in wire, Deliver(m) PROVE IInv'
<1>. USE DEF IInv
<1>1. /\ m.at = "device" /\ wire' \subseteq wire
      /\ UNCHANGED <<now, link, links, revokedAt, pc, timing, nr, pending>>
  BY DEF Deliver
<1>2. ASSUME NEW r \in results'
      PROVE  r \in results \/ r = [id |-> m.id, code |-> m.code, ttl |-> m.ttl]
  BY DEF Deliver, Waiter
<1>3. m \in Message
  BY DEF Types
<1>4. Types'
  <2>1. results' \subseteq [id : RequestId, code : Code, ttl : Int]
    BY <1>2, <1>3 DEF Types, Message
  <2>. QED BY <1>1, <2>1 DEF Types, timing
<1>5. \A h \in Guard : Timed(h)'
  BY <1>1 DEF Timed, Running, timing
<1>6. Answers'
  <2>1. ASSUME NEW w \in wire'
        PROVE  /\ Asked(w)' /\ (w.at # "relay" => Backed(w)') /\ (w.at = "device" => Limited(w)')
    BY <1>1 DEF Answers, Asked, Backed, Limited, Latest, timing
  <2>2. ASSUME NEW r \in results' PROVE Asked(r)' /\ Backed(r)' /\ Limited(r)'
    <3>1. Asked(r) /\ Backed(r) /\ Limited(r)
      <4>1. Asked(m) /\ Backed(m) /\ Limited(m)
        BY <1>1 DEF Answers
      <4>2. CASE r \in results
        BY <4>2 DEF Answers
      <4>3. CASE r = [id |-> m.id, code |-> m.code, ttl |-> m.ttl]
        BY <4>1, <4>3 DEF Asked, Backed, Limited, Latest
      <4>. QED BY <1>2, <4>2, <4>3
    <3>. QED BY <1>1, <3>1 DEF Asked, Backed, Limited, Latest, timing
  <2>. QED BY <2>1, <2>2 DEF Answers
<1>. QED BY <1>4, <1>5, <1>6
-----------------------------------------------------------------------------
LEMMA LostStep == ASSUME GuardAssumption, IInv, NEW m \in wire, Lost(m) PROVE IInv'
<1>. USE DEF IInv
<1>1. /\ wire' \subseteq wire
      /\ UNCHANGED <<now, link, links, revokedAt, pc, timing, nr, pending, results>>
  BY DEF Lost, Elsewhere
<1>2. Types' /\ \A h \in Guard : Timed(h)'
  BY <1>1 DEF Types, Timed, Running, timing
<1>. QED BY <1>1, <1>2, FewerAnswers DEF timing

(* A lease in force, and an answer on its way, began before the revocation. *)
LEMMA RevokeStep == ASSUME GuardAssumption, IInv, Revoke PROVE IInv'
<1>. USE DEF IInv
<1>1. /\ revokedAt = Never /\ revokedAt' = now /\ now \in Nat
      /\ UNCHANGED <<now, link, links, pc, timing, nr, pending, results, wire>>
  BY DEF Revoke, Types
<1>2. Types'
  BY <1>1 DEF Types, timing
<1>3. \A h \in Guard : Timed(h)'
  BY <1>1 DEF Timed, Running, timing
<1>4. Answers'
  <2>1. ASSUME NEW x \in wire \cup results
        PROVE  /\ Asked(x)' = Asked(x) /\ Limited(x)' = Limited(x) /\ Backed(x)'
    <3>1. x.id[1] \in Guard
      BY DEF Types, Message, RequestId
    <3>2. start[x.id[1]] <= now
      BY <3>1 DEF Timed
    <3>. QED BY <1>1, <3>2 DEF Asked, Limited, Backed, Latest, timing
  <2>. QED BY <1>1, <2>1 DEF Answers
<1>. QED BY <1>2, <1>3, <1>4

LEMMA LinkStep == ASSUME IInv, LinkDown \/ LinkUp \/ Over \/ UNCHANGED vars PROVE IInv'
<1>. USE DEF IInv
<1>1. /\ link' \in {link, 0, links + 1} /\ links' \in {links, links + 1}
      /\ UNCHANGED <<now, revokedAt, pc, timing, nr, pending, results, wire>>
  BY DEF LinkDown, LinkUp, Over, vars
<1>2. Types' /\ \A h \in Guard : Timed(h)'
  BY <1>1 DEF Types, Timed, Running, timing
<1>. QED BY <1>1, <1>2, FewerAnswers DEF timing

(* Time waits for the timers of what runs, but for the lag. *)
LEMMA TickStep == ASSUME GuardAssumption, IInv, Tick PROVE IInv'
<1>. USE DEF IInv
<1>1. /\ now' = now + 1 /\ now \in Nat /\ {Lease, Lag} \subseteq Nat
      /\ UNCHANGED <<link, links, revokedAt, pc, timing, nr, pending, results, wire>>
  BY DEF Tick, Types, GuardAssumption
<1>2. Types'
  BY <1>1 DEF Types, timing
<1>3. ASSUME NEW g \in Guard PROVE Timed(g)'
  <2>1. /\ Timed(g) /\ start[g] \in Nat /\ {deadline[g], expires[g], wake[g]} \subseteq Int
        /\ pc[g] \in {"asking", "waiting"} => now < deadline[g] + Lag
        /\ pc[g] = "sleeping" => now < wake[g] + Lag
    BY DEF Tick, Types
  <2>2. Running(g) => now + 1 <= expires[g] + Lag
    BY <1>1, <2>1 DEF Timed, Running, Asks
  <2>. QED BY <1>1, <2>1, <2>2 DEF Timed, Running, timing
<1>4. Answers'
  BY <1>1, FewerAnswers DEF timing
<1>. QED BY <1>2, <1>3, <1>4

LEMMA Inductive == ASSUME GuardAssumption, IInv, [Next]_vars PROVE IInv'
<1>1. ASSUME NEW g \in Guard, Ask(g) \/ Send(g) \/ NotSent(g) \/ Unanswered(g) \/ Answered(g) \/ Stop(g)
      PROVE  IInv'
  <2>1. NotSent(g) \/ Unanswered(g) => pc[g] \in {"asking", "waiting"} /\ Missed(g)
    BY DEF NotSent, Unanswered
  <2>2. Stop(g) => Ends(g, "stopped")
    BY DEF Stop
  <2>. QED BY <1>1, <2>1, <2>2, AskStep, SendStep, MissedStep, AnsweredStep, EndsStep
<1>. QED
  BY <1>1, RelayReadsStep, RelayAnswersStep, LostStep, DeliverStep, RevokeStep, LinkStep,
     TickStep DEF Next

(***************************************************************************)
(* The second layer: the waiters, the types of an instance, and how much   *)
(* time is left for requests that fail.                                    *)
(***************************************************************************)

(* Failed requests are counted among the requests made. *)
Counted(g) ==
  /\ missed[g] <= nr[g]
  /\ pc[g] \in {"asking", "waiting"} => missed[g] < nr[g]

(* Timers are served in time, but for the lag. *)
Served(g) ==
  /\ pc[g] = "sleeping" => now <= wake[g] + Lag
  /\ pc[g] \in {"asking", "waiting"} => now <= deadline[g] + Lag /\ deadline[g] <= start[g] + Timeout
  /\ pc[g] = "expired" => expires[g] # Never

(* What is left of a lease that was not cut short, before and after its first
   failure, is enough for the next request. *)
Whole(g) == expires[g] # Never /\ expires[g] < ProofEnds - Timeout
LeavesTime(g) ==
  Whole(g) =>
    /\ missed[g] = 0 /\ pc[g] = "sleeping" => wake[g] + Timeout + MinWait + 4 * Lag < expires[g]
    /\ missed[g] = 0 /\ pc[g] \in {"asking", "waiting"} =>
         deadline[g] + MinWait + 3 * Lag < expires[g]
    /\ missed[g] = 1 /\ pc[g] = "sleeping" => wake[g] + Lag < expires[g]
    /\ missed[g] <= 1 /\ pc[g] \in {"asking", "waiting"} => start[g] < deadline[g]
    /\ pc[g] = "expired" => missed[g] >= 2

(* A grant is for a full lease, or for all that is left of the caller's own. *)
Full(x) == x.code = "" => x.ttl = Lease \/ x.ttl >= ProofEnds - now
FullAnswers == (\A m \in wire : m.at = "device" => Full(m)) /\ (\A r \in results : Full(r))

Renewing(g) == Counted(g) /\ Served(g) /\ LeavesTime(g)
RInv ==
  /\ GuardInv /\ IsFiniteSet(pending)
  /\ \A g \in Guard : Renewing(g)
  /\ FullAnswers
-----------------------------------------------------------------------------
(* Maintain sleeps, and no longer than the minimum or a third of what is left. *)
LEMMA WaitBounds ==
  ASSUME GuardAssumption, NEW r \in Nat \ {0}
  PROVE  /\ Wait(r) \in Nat /\ Wait(r) <= r
         /\ Wait(r) <= MinWait \/ 3 * Wait(r) <= r
<1>1. PICK t \in Int : t = r \div 3 /\ 3 * t <= r
  OBVIOUS
<1>2. Interval \in Int /\ MinWait \in Nat \ {0}
  BY DEF GuardAssumption
<1>3. PICK a \in Int : a = Least({t, Interval}) /\ a <= t
  BY <1>2, LeastOfTwo
<1>4. PICK b \in {a, MinWait} : b = Greatest({a, MinWait}) /\ a <= b /\ MinWait <= b
  <2>1. \E x \in {a, MinWait} : \A y \in {a, MinWait} : y <= x
    BY <1>2
  <2> QED  BY <2>1 DEF Greatest
<1>5. PICK w \in {b, r} : w = Least({b, r}) /\ w <= b /\ w <= r
  <2>1. \E x \in {b, r} : \A y \in {b, r} : x <= y
    BY <1>2
  <2> QED  BY <2>1 DEF Least
<1>6. Wait(r) = w
  BY <1>1, <1>3, <1>4, <1>5 DEF Wait
<1> QED  BY <1>1, <1>2, <1>3, <1>4, <1>5, <1>6

LEMMA AtFirst == ASSUME GuardAssumption, Init PROVE RInv
<1>1. TypeOK
  BY DEF Init, TypeOK, GuardAssumption, Never, Asks, Time
<1>2. WaitersInUse /\ IsFiniteSet(pending)
  <2>1. pending = {} /\ Cardinality({}) = 0 /\ IsFiniteSet({}) /\ MaxPending \in Nat
    BY FS_EmptySet DEF Init, GuardAssumption
  <2>2. {x \in Guard : pc[x] = "waiting"} = {}
    BY DEF Init
  <2> QED  BY <2>1, <2>2 DEF WaitersInUse
<1>3. \A g \in Guard : Renewing(g)
  BY DEF Init, Renewing, Counted, Served, LeavesTime, Whole, Never
<1>4. FullAnswers
  BY DEF Init, FullAnswers
<1> QED  BY <1>1, <1>2, <1>3, <1>4 DEF RInv, GuardInv

(* A request that ends frees its waiter, and no other. *)
LEMMA WaiterFreed ==
  ASSUME GuardAssumption, TypeOK, WaitersInUse, IsFiniteSet(pending), NEW g \in Guard, Released(g),
         NEW s \in (Asks \ {"waiting"}) \cup {"denied", "refused", "expired", "stopped"},
         pc' = [pc EXCEPT ![g] = s], UNCHANGED nr
  PROVE  WaitersInUse' /\ IsFiniteSet(pending')
<1>1. pending' = {w \in pending : w.id # <<g, nr[g]>>}
  BY DEF Released
<1>2. IsFiniteSet(pending') /\ Cardinality(pending') <= Cardinality(pending)
      /\ Cardinality(pending) \in Nat /\ Cardinality(pending') \in Nat
  BY <1>1, FS_Subset, FS_CardinalityType
<1>3. Cardinality(pending') <= MaxPending
  BY <1>2 DEF WaitersInUse, GuardAssumption
<1>4. {x \in Guard : pc'[x] = "waiting"} = {x \in Guard : pc[x] = "waiting"} \ {g}
  BY DEF TypeOK
<1>5. {w.id : w \in pending'} = {w.id : w \in pending} \ {<<g, nr[g]>>}
  BY <1>1
<1>6. {<<x, nr[x]>> : x \in {y \in Guard : pc[y] = "waiting"} \ {g}}
        = {<<x, nr[x]>> : x \in {y \in Guard : pc[y] = "waiting"}} \ {<<g, nr[g]>>}
  OBVIOUS
<1> QED  BY <1>2, <1>3, <1>4, <1>5, <1>6 DEF WaitersInUse

(* What TypeOK says of one execution. *)
LEMMA TypesOf ==
  ASSUME TypeOK, GuardAssumption, NEW g \in Guard
  PROVE  /\ now \in 0..Horizon /\ start[g] \in 0..Horizon /\ deadline[g] \in 0..(Horizon + Timeout)
         /\ expires[g] \in {-1} \cup 0..(Horizon + Lease) /\ wake[g] \in 0..(Horizon + Lease)
         /\ nr[g] \in 0..MaxAttempt /\ missed[g] \in 0..MaxAttempt
         /\ {Lease, Interval, Timeout, MinWait, MaxLink} \subseteq Nat \ {0}
         /\ {Lag, MaxPending, MaxAttempt, Horizon, ProofEnds} \subseteq Nat
BY DEF TypeOK, GuardAssumption, Time, Never

LEMMA AskRenews == ASSUME GuardAssumption, TimingAssumption, IInv, RInv, NEW g \in Guard, Ask(g) PROVE RInv'
<1> USE DEF RInv, GuardInv
<1>0. pc[g] \in {"new", "sleeping"} /\ nr[g] < MaxAttempt
  BY DEF Ask
<1>1. /\ pc' = [pc EXCEPT ![g] = "asking"] /\ start' = [start EXCEPT ![g] = now]
      /\ deadline' = [deadline EXCEPT ![g] = AttemptEnds(g)] /\ nr' = [nr EXCEPT ![g] = @ + 1]
      /\ UNCHANGED <<now, link, links, revokedAt, expires, wake, missed, pending, results, wire>>
  BY DEF Ask
<1>2. PICK d \in Int : d = AttemptEnds(g)
  <2>1. now + Timeout \in Int /\ expires[g] \in Int
    BY TypesOf DEF Never
  <2> QED  BY <2>1, LeastOfTwo DEF AttemptEnds
<1>3. /\ expires[g] = Never => d = now + Timeout
      /\ expires[g] # Never => d \in {now + Timeout, expires[g]} /\ d <= now + Timeout
  <2>1. now + Timeout \in Int /\ expires[g] \in Int
    BY TypesOf
  <2>2. expires[g] # Never => (\E x \in {now + Timeout, expires[g]} : \A y \in {now + Timeout, expires[g]} : x <= y)
    BY <2>1
  <2> QED  BY <1>2, <2>1, <2>2, LeastOfTwo DEF AttemptEnds, Least
<1>4. /\ d \in 0..(Horizon + Timeout) /\ d <= now + Timeout /\ now <= d + Lag
      /\ Timed(g) /\ Renewing(g)
  <2>1. Timed(g) /\ Renewing(g)
    BY DEF IInv
  <2>2. expires[g] # Never => now <= expires[g] + Lag
    BY <1>0, <2>1 DEF Timed, Running, Asks
  <2> QED  BY <1>3, <2>1, <2>2, TypesOf DEF Never
<1>5. /\ pc' \in [Guard -> Asks \cup {"denied", "refused", "expired", "stopped"}]
      /\ start' \in [Guard -> Time] /\ deadline' \in [Guard -> 0..(Horizon + Timeout)]
      /\ nr' \in [Guard -> 0..MaxAttempt]
  <2>1. nr[g] + 1 \in 0..MaxAttempt
    BY <1>0, TypesOf
  <2> QED  BY <1>1, <1>2, <1>4, <2>1 DEF TypeOK, Asks
<1>6. TypeOK'
  BY <1>1, <1>5 DEF TypeOK
<1>7. WaitersInUse' /\ IsFiniteSet(pending')
  <2>1. /\ {x \in Guard : pc'[x] = "waiting"} = {x \in Guard : pc[x] = "waiting"}
        /\ \A x \in Guard : pc[x] = "waiting" => nr'[x] = nr[x]
    BY <1>0, <1>1 DEF TypeOK
  <2> QED  BY <1>1, <2>1 DEF WaitersInUse
<1>8. ASSUME NEW h \in Guard PROVE Renewing(h)'
  <2>1. Renewing(h)
    OBVIOUS
  <2>2. CASE h # g
    <3>1. /\ pc'[h] = pc[h] /\ start'[h] = start[h] /\ deadline'[h] = deadline[h] /\ nr'[h] = nr[h]
      BY <1>1, <2>2 DEF TypeOK
    <3> QED  BY <1>1, <2>1, <3>1 DEF Renewing, Counted, Served, LeavesTime, Whole
  <2>3. CASE h = g
    <3>1. /\ pc'[g] = "asking" /\ start'[g] = now /\ deadline'[g] = d /\ nr'[g] = nr[g] + 1
      BY <1>1, <1>2 DEF TypeOK
    <3>2. Counted(g)'
      BY <1>1, <1>4, <3>1, TypesOf DEF Renewing, Counted
    <3>3. Served(g)'
      BY <1>1, <1>4, <3>1 DEF Served
    <3>4. ASSUME Whole(g) PROVE LeavesTime(g)'
      <4>1. pc[g] = "sleeping" /\ expires[g] # Never
        BY <1>0, <1>4, <3>4 DEF Timed, Whole
      <4>2. /\ now <= wake[g] + Lag
            /\ missed[g] = 0 => wake[g] + Timeout + MinWait + 4 * Lag < expires[g]
            /\ missed[g] = 1 => wake[g] + Lag < expires[g]
        BY <1>4, <3>4, <4>1 DEF Renewing, Served, LeavesTime
      <4>3. /\ missed[g] = 0 => d + MinWait + 3 * Lag < expires[g]
            /\ missed[g] <= 1 => now < d
        BY <1>3, <4>1, <4>2, TypesOf, TimingAssumption DEF TimingAssumption
      <4> QED  BY <1>1, <3>1, <4>3 DEF LeavesTime
    <3>5. LeavesTime(g)'
      BY <1>1, <3>4 DEF LeavesTime, Whole
    <3> QED  BY <2>3, <3>2, <3>3, <3>5 DEF Renewing
  <2> QED  BY <2>2, <2>3
<1>9. FullAnswers'
  BY <1>1 DEF FullAnswers, Full
<1> QED  BY <1>6, <1>7, <1>8, <1>9

LEMMA SendRenews == ASSUME GuardAssumption, IInv, RInv, NEW g \in Guard, Send(g) PROVE RInv'
<1> USE DEF RInv, GuardInv
<1> DEFINE m == [id |-> <<g, nr[g]>>, link |-> link, at |-> "relay", code |-> "", ttl |-> 0]
           w == [id |-> <<g, nr[g]>>, link |-> link]
<1>0. pc[g] = "asking" /\ link # 0 /\ Cardinality(pending) < MaxPending
  BY DEF Send
<1>1. /\ pc' = [pc EXCEPT ![g] = "waiting"] /\ wire' = wire \cup {m} /\ pending' = pending \cup {w}
      /\ UNCHANGED <<now, link, links, revokedAt, timing, nr, missed, results>>
  BY DEF Send
<1>2. Renewing(g) /\ <<g, nr[g]>> \in Id /\ link \in 1..MaxLink
  <2>1. nr[g] \in 1..MaxAttempt /\ Renewing(g)
    BY <1>0, TypesOf DEF Renewing, Counted
  <2>2. link \in 1..MaxLink
    BY <1>0 DEF TypeOK, GuardAssumption
  <2> QED  BY <2>1, <2>2 DEF Id
<1>3. m \in [id : Id, link : 1..MaxLink, at : {"relay", "checked", "device"}, code : Code, ttl : 0..Lease]
      /\ w \in [id : Id, link : 1..MaxLink]
  BY <1>2, TypesOf DEF Code
<1>4. pc' \in [Guard -> Asks \cup {"denied", "refused", "expired", "stopped"}]
  BY <1>1 DEF TypeOK, Asks
<1>5. TypeOK'
  BY <1>1, <1>3, <1>4 DEF TypeOK, timing
<1>6. IsFiniteSet(pending') /\ Cardinality(pending') <= MaxPending
  <2>1. /\ IsFiniteSet(pending \cup {w})
        /\ Cardinality(pending \cup {w}) =
             IF w \in pending THEN Cardinality(pending) ELSE Cardinality(pending) + 1
    BY FS_AddElement, Zenon
  <2>2. Cardinality(pending) \in Nat /\ MaxPending \in Nat
    BY FS_CardinalityType DEF GuardAssumption
  <2>3. pending' = pending \cup {w}
    BY <1>1
  <2> QED  BY <1>0, <2>1, <2>2, <2>3
<1>7. WaitersInUse'
  <2>1. {x \in Guard : pc'[x] = "waiting"} = {x \in Guard : pc[x] = "waiting"} \cup {g}
    BY <1>1 DEF TypeOK
  <2>2. {x.id : x \in pending'} = {x.id : x \in pending} \cup {<<g, nr[g]>>}
    <3>1. pending' = pending \cup {w} /\ w.id = <<g, nr[g]>>
      BY <1>1
    <3> QED  BY <3>1
  <2>3. nr' = nr
    BY <1>1
  <2> QED  BY <1>6, <2>1, <2>2, <2>3 DEF WaitersInUse
<1>8. ASSUME NEW h \in Guard PROVE Renewing(h)'
  <2>1. Renewing(h) /\ (pc'[h] = pc[h] \/ (pc[h] = "asking" /\ pc'[h] = "waiting"))
    BY <1>0, <1>1 DEF TypeOK
  <2> QED  BY <1>1, <2>1 DEF Renewing, Counted, Served, LeavesTime, Whole, timing
<1>9. FullAnswers'
  <2>1. m.at = "relay" /\ wire' = wire \cup {m} /\ UNCHANGED <<now, results>>
    BY <1>1
  <2> HIDE DEF m
  <2> QED  BY <2>1 DEF FullAnswers, Full
<1> QED  BY <1>5, <1>6, <1>7, <1>8, <1>9

(* A request that ends the execution, for a cause of its own. *)
LEMMA EndsRenews ==
  ASSUME GuardAssumption, IInv, RInv, NEW g \in Guard,
         NEW s \in {"denied", "refused", "stopped"}, Ends(g, s)
  PROVE  RInv'
<1> USE DEF RInv, GuardInv
<1>1. /\ pc' = [pc EXCEPT ![g] = s] /\ Released(g) /\ pending' \subseteq pending /\ results' \subseteq results
      /\ UNCHANGED <<now, link, links, revokedAt, timing, nr, missed, wire>>
  BY DEF Ends, Released
<1>2. TypeOK'
  BY <1>1 DEF TypeOK, timing
<1>3. WaitersInUse' /\ IsFiniteSet(pending')
  BY <1>1, WaiterFreed
<1>4. ASSUME NEW h \in Guard PROVE Renewing(h)'
  <2>1. Renewing(h) /\ (pc'[h] = pc[h] \/ pc'[h] = s)
    BY <1>1 DEF TypeOK
  <2> QED  BY <1>1, <2>1 DEF Renewing, Counted, Served, LeavesTime, Whole, timing
<1>5. FullAnswers'
  BY <1>1 DEF FullAnswers, Full
<1> QED  BY <1>2, <1>3, <1>4, <1>5

(* A request that failed: there was time for it, and there is for another. *)
LEMMA MissedRenews ==
  ASSUME GuardAssumption, TimingAssumption, IInv, RInv, NEW g \in Guard,
         pc[g] \in {"asking", "waiting"}, Missed(g)
  PROVE  RInv'
<1> USE DEF RInv, GuardInv
<1>1. CASE expires[g] = Never
  BY <1>1, EndsRenews DEF Missed
<1>2. CASE expires[g] # Never
  <2>1. /\ missed' = [missed EXCEPT ![g] = IF start[g] < deadline[g] THEN @ + 1 ELSE @]
        /\ pc' = [pc EXCEPT ![g] = IF now >= expires[g] THEN "expired" ELSE "sleeping"]
        /\ wake' = [wake EXCEPT ![g] = IF now >= expires[g] THEN @ ELSE now + Wait(expires[g] - now)]
        /\ Released(g) /\ pending' \subseteq pending /\ results' \subseteq results
        /\ UNCHANGED <<now, link, links, revokedAt, start, deadline, expires, nr, wire>>
    BY <1>2 DEF Missed, Released
  <2>2. Renewing(g) /\ Timed(g)
    BY DEF IInv
  <2>3. PICK n \in 0..MaxAttempt :
          /\ n = IF start[g] < deadline[g] THEN missed[g] + 1 ELSE missed[g]
          /\ n <= nr[g]
    BY <2>2, TypesOf DEF Renewing, Counted
  <2>4. PICK v \in 0..(Horizon + Lease) :
          /\ v = IF now >= expires[g] THEN wake[g] ELSE now + Wait(expires[g] - now)
          /\ now < expires[g] => now <= v
          /\ now < expires[g] => /\ v <= expires[g]
                                 /\ v - now <= MinWait \/ 3 * (v - now) <= expires[g] - now
    <3>1. CASE now >= expires[g]
      BY <3>1, TypesOf
    <3>2. CASE ~ (now >= expires[g])
      <4>1. expires[g] - now \in Nat \ {0} /\ now \in Nat /\ expires[g] \in 0..(Horizon + Lease)
        BY <1>2, <3>2, TypesOf DEF Never
      <4>2. PICK x \in Nat : /\ x = Wait(expires[g] - now) /\ x <= expires[g] - now
                             /\ x <= MinWait \/ 3 * x <= expires[g] - now
        BY <4>1, WaitBounds
      <4> QED  BY <3>2, <4>1, <4>2, TypesOf
    <3> QED  BY <3>1, <3>2
  <2>5. PICK s \in {"expired", "sleeping"} : s = IF now >= expires[g] THEN "expired" ELSE "sleeping"
    OBVIOUS
  <2>6. /\ pc' = [pc EXCEPT ![g] = s] /\ missed' = [missed EXCEPT ![g] = n] /\ wake' = [wake EXCEPT ![g] = v]
    BY <2>1, <2>3, <2>4, <2>5 DEF TypeOK
  <2>7. /\ pc' \in [Guard -> Asks \cup {"denied", "refused", "expired", "stopped"}]
        /\ missed' \in [Guard -> 0..MaxAttempt] /\ wake' \in [Guard -> 0..(Horizon + Lease)]
    BY <2>6 DEF TypeOK, Asks
  <2>8. TypeOK'
    BY <2>1, <2>7 DEF TypeOK
  <2>9. WaitersInUse' /\ IsFiniteSet(pending')
    BY <2>1, <2>6, WaiterFreed DEF Asks
  <2>10. ASSUME NEW h \in Guard PROVE Renewing(h)'
    <3>1. CASE h # g
      <4>1. Renewing(h) /\ pc'[h] = pc[h] /\ missed'[h] = missed[h] /\ wake'[h] = wake[h]
        BY <2>6, <3>1 DEF TypeOK
      <4> QED  BY <2>1, <4>1 DEF Renewing, Counted, Served, LeavesTime, Whole
    <3>2. CASE h = g
      <4>1. pc'[g] = s /\ missed'[g] = n /\ wake'[g] = v
        BY <2>6 DEF TypeOK
      <4>2. Counted(g)' /\ Served(g)'
        <5>1. UNCHANGED <<now, start, deadline, expires, nr>>
          BY <2>1
        <5>2. s = "sleeping" => now <= v + Lag
          <6>1. now \in Nat /\ v \in Nat /\ Lag \in Nat /\ expires[g] \in Int
            BY TypesOf
          <6>2. s = "sleeping" => now < expires[g]
            BY <2>5, <6>1
          <6>3. now < expires[g] => now <= v
            BY <2>4
          <6> QED  BY <6>1, <6>2, <6>3
        <5> QED  BY <1>2, <2>3, <4>1, <5>1, <5>2 DEF Counted, Served
      <4>3. ASSUME Whole(g) PROVE LeavesTime(g)'
        <5>1. /\ now <= deadline[g] + Lag
              /\ missed[g] = 0 => deadline[g] + MinWait + 3 * Lag < expires[g]
              /\ missed[g] <= 1 => start[g] < deadline[g]
          BY <2>2, <4>3 DEF Renewing, Served, LeavesTime
        <5>2. n >= 1 /\ (missed[g] # 0 => n >= 2)
          BY <2>3, <5>1, TypesOf
        <5>3. CASE missed[g] # 0
          BY <2>1, <2>5, <4>1, <5>2, <5>3, TypesOf DEF LeavesTime
        <5>4. CASE missed[g] = 0
          <6>1. now + MinWait + 2 * Lag < expires[g] /\ n = 1
            BY <2>3, <5>1, <5>4, TypesOf
          <6>2. v + Lag < expires[g] /\ s = "sleeping"
            BY <2>4, <2>5, <6>1, TypesOf
          <6> QED  BY <2>1, <4>1, <6>1, <6>2 DEF LeavesTime
        <5> QED  BY <5>3, <5>4
      <4>4. LeavesTime(g)'
        BY <2>1, <4>3 DEF LeavesTime, Whole
      <4> QED  BY <3>2, <4>2, <4>4 DEF Renewing
    <3> QED  BY <3>1, <3>2
  <2>11. FullAnswers'
    BY <2>1 DEF FullAnswers, Full
  <2> QED  BY <2>8, <2>9, <2>10, <2>11
<1> QED  BY <1>1, <1>2

(* A full lease leaves time for two failures; one that was cut short ends with
   what the caller signed in with. *)
LEMMA GrantedRenews ==
  ASSUME GuardAssumption, TimingAssumption, IInv, RInv, NEW g \in Guard, pc[g] = "waiting",
         NEW ttl \in 0..Lease, ttl = Lease \/ ttl >= ProofEnds - now,
         now < deadline[g], Expiry(g, ttl) > now, Granted(g, ttl)
  PROVE  RInv'
<1> USE DEF RInv, GuardInv
<1>1. Renewing(g) /\ now \in 0..Horizon /\ start[g] \in 0..Horizon /\ Lease \in Nat \ {0} /\ Horizon \in Nat
      /\ start[g] <= now
  BY TypesOf DEF IInv, Timed
<1>2. PICK e \in 0..(Horizon + Lease) : e = start[g] + ttl /\ e > now
  BY <1>1 DEF Expiry
<1>3. PICK v \in 0..(Horizon + Lease) :
        /\ v = now + Wait(e - now) /\ now <= v /\ v <= e
        /\ v - now <= MinWait \/ 3 * (v - now) <= e - now
  <2>1. e - now \in Nat \ {0}
    BY <1>1, <1>2
  <2>2. PICK x \in Nat : /\ x = Wait(e - now) /\ x <= e - now
                         /\ x <= MinWait \/ 3 * x <= e - now
    BY <2>1, WaitBounds
  <2> QED  BY <1>1, <1>2, <2>2
<1>4. /\ pc' = [pc EXCEPT ![g] = "sleeping"] /\ missed' = [missed EXCEPT ![g] = 0]
      /\ expires' = [expires EXCEPT ![g] = e] /\ wake' = [wake EXCEPT ![g] = v]
      /\ Released(g) /\ pending' \subseteq pending /\ results' \subseteq results
      /\ UNCHANGED <<now, link, links, revokedAt, start, deadline, nr, wire>>
  BY <1>2, <1>3 DEF Granted, Released, Expiry
<1>5. /\ pc' \in [Guard -> Asks \cup {"denied", "refused", "expired", "stopped"}]
      /\ missed' \in [Guard -> 0..MaxAttempt] /\ wake' \in [Guard -> 0..(Horizon + Lease)]
      /\ expires' \in [Guard -> {Never} \cup 0..(Horizon + Lease)]
  <2>1. 0 \in 0..MaxAttempt
    BY DEF GuardAssumption
  <2> QED  BY <1>4, <2>1 DEF TypeOK, Asks
<1>6. TypeOK'
  BY <1>4, <1>5 DEF TypeOK
<1>7. WaitersInUse' /\ IsFiniteSet(pending')
  BY <1>4, WaiterFreed DEF Asks
<1>8. ASSUME NEW h \in Guard PROVE Renewing(h)'
  <2>1. CASE h # g
    <3>1. /\ Renewing(h) /\ pc'[h] = pc[h] /\ missed'[h] = missed[h] /\ wake'[h] = wake[h]
          /\ expires'[h] = expires[h]
      BY <1>4, <2>1 DEF TypeOK
    <3> QED  BY <1>4, <3>1 DEF Renewing, Counted, Served, LeavesTime, Whole
  <2>2. CASE h = g
    <3>1. pc'[g] = "sleeping" /\ missed'[g] = 0 /\ wake'[g] = v /\ expires'[g] = e
      BY <1>4 DEF TypeOK
    <3>2. nr'[g] \in Nat /\ now' = now
      BY <1>4, TypesOf
    <3>3. Counted(g)' /\ Served(g)'
      BY <1>1, <1>3, <3>1, <3>2, TypesOf DEF Counted, Served
    <3>4. ASSUME e < ProofEnds - Timeout
          PROVE  v + Timeout + MinWait + 4 * Lag < e
      <4>1. deadline[g] <= start[g] + Timeout /\ deadline[g] \in Int
        BY <1>1, TypesOf DEF Renewing, Served
      <4>2. ttl = Lease
        BY <1>1, <1>2, <3>4, <4>1, TypesOf
      <4>3. e - now >= Lease - Timeout + 1
        BY <1>1, <1>2, <4>1, <4>2, TypesOf
      <4> QED  BY <1>1, <1>3, <4>3, TypesOf DEF TimingAssumption
    <3>5. LeavesTime(g)'
      BY <3>1, <3>4 DEF LeavesTime, Whole
    <3> QED  BY <2>2, <3>3, <3>5 DEF Renewing
  <2> QED  BY <2>1, <2>2
<1>9. FullAnswers'
  BY <1>4 DEF FullAnswers, Full
<1> QED  BY <1>6, <1>7, <1>8, <1>9

LEMMA AnsweredRenews ==
  ASSUME GuardAssumption, TimingAssumption, IInv, RInv, NEW g \in Guard, Answered(g) PROVE RInv'
<1>1. PICK r \in results :
        \/ Ends(g, "denied")
        \/ Missed(g)
        \/ r.code = "" /\ now < deadline[g] /\ Expiry(g, r.ttl) > now /\ Granted(g, r.ttl)
  BY DEF Answered
<1>2. pc[g] = "waiting"
  BY DEF Answered
<1>3. r.ttl \in 0..Lease
  <2>1. r \in [id : Id, code : Code, ttl : 0..Lease]
    BY DEF RInv, GuardInv, TypeOK
  <2> QED  BY <2>1
<1>4. r.code = "" => r.ttl = Lease \/ r.ttl >= ProofEnds - now
  BY DEF RInv, FullAnswers, Full
<1> QED  BY <1>1, <1>2, <1>3, <1>4, EndsRenews, MissedRenews, GrantedRenews
-----------------------------------------------------------------------------
(* The executions are left alone. *)
LEMMA WireRenews ==
  ASSUME GuardAssumption, RInv, UNCHANGED <<now, pc, timing, nr, missed, pending>>,
         link' \in 0..MaxLink, links' \in 0..MaxLink, revokedAt' \in Time \cup {Never},
         results' \subseteq [id : Id, code : Code, ttl : 0..Lease],
         wire' \subseteq [id : Id, link : 1..MaxLink, at : {"relay", "checked", "device"}, code : Code, ttl : 0..Lease],
         FullAnswers'
  PROVE  RInv'
<1> USE DEF RInv, GuardInv
<1>1. TypeOK'
  BY DEF TypeOK, timing
<1>2. WaitersInUse' /\ IsFiniteSet(pending')
  BY DEF WaitersInUse
<1>3. ASSUME NEW h \in Guard PROVE Renewing(h)'
  BY DEF Renewing, Counted, Served, LeavesTime, Whole, timing
<1> QED  BY <1>1, <1>2, <1>3

LEMMA RelayReadsRenews == ASSUME GuardAssumption, RInv, NEW m \in wire, RelayReads(m) PROVE RInv'
<1>1. PICK code \in {"relay_error", IF revokedAt = Never /\ now < ProofEnds THEN "" ELSE "unauthorized"} :
        Moved(m, [m EXCEPT !.at = "checked", !.code = code])
  BY DEF RelayReads
<1> DEFINE x == [m EXCEPT !.at = "checked", !.code = code]
<1>2. m \in [id : Id, link : 1..MaxLink, at : {"relay", "checked", "device"}, code : Code, ttl : 0..Lease]
  BY DEF RInv, GuardInv, TypeOK
<1>3. x \in [id : Id, link : 1..MaxLink, at : {"relay", "checked", "device"}, code : Code, ttl : 0..Lease]
      /\ x.at = "checked"
  BY <1>2 DEF Code
<1>4. wire' = (wire \ {m}) \cup {x} /\ Elsewhere
  BY <1>1 DEF Moved, RelayReads
<1> HIDE DEF x
<1>5. FullAnswers'
  BY <1>3, <1>4 DEF RInv, FullAnswers, Full, Elsewhere
<1> QED  BY <1>3, <1>4, <1>5, WireRenews DEF Elsewhere, RInv, GuardInv, TypeOK

LEMMA RelayAnswersRenews == ASSUME GuardAssumption, RInv, NEW m \in wire, RelayAnswers(m) PROVE RInv'
<1> DEFINE M == [id : Id, link : 1..MaxLink, at : {"relay", "checked", "device"}, code : Code, ttl : 0..Lease]
<1>1. m \in M
  BY DEF RInv, GuardInv, TypeOK
<1>2. /\ now \in Nat /\ Lease \in Int /\ ProofEnds \in Int
      /\ TimeLeft \in {Lease, ProofEnds - now} /\ TimeLeft <= Lease
  <2>1. now \in Nat /\ Lease \in Int /\ ProofEnds \in Int
    BY DEF RInv, GuardInv, TypeOK, GuardAssumption, Time
  <2>2. \E x \in {Lease, ProofEnds - now} : \A y \in {Lease, ProofEnds - now} : x <= y
    BY <2>1
  <2> QED  BY <2>1, <2>2 DEF TimeLeft, Least
<1>3. PICK x \in M : Moved(m, x) /\ (x.code = "" => x.ttl = Lease \/ x.ttl >= ProofEnds - now)
  <2>1. CASE m.code # ""
    <3>1. [m EXCEPT !.at = "device"] \in M /\ [m EXCEPT !.at = "device"].code = m.code
      BY <1>1
    <3> QED  BY <2>1, <3>1 DEF RelayAnswers
  <2>2. CASE m.code = "" /\ TimeLeft <= 0
    <3>1. [m EXCEPT !.at = "device", !.code = "unauthorized"] \in M
          /\ [m EXCEPT !.at = "device", !.code = "unauthorized"].code = "unauthorized"
      BY <1>1 DEF Code
    <3> QED  BY <2>2, <3>1 DEF RelayAnswers
  <2>3. CASE m.code = "" /\ ~ (TimeLeft <= 0)
    <3>1. PICK t \in 0..Lease : t = TimeLeft
      <4>1. PICK t \in Int : t = TimeLeft
        BY <1>2
      <4>2. t <= Lease /\ ~ (t <= 0)
        BY <1>2, <2>3, <4>1
      <4> QED  BY <1>2, <4>1, <4>2
    <3>2. [m EXCEPT !.at = "device", !.ttl = t] \in M /\ [m EXCEPT !.at = "device", !.ttl = t].ttl = t
      BY <1>1
    <3>3. t = Lease \/ t >= ProofEnds - now
      BY <1>2, <3>1
    <3> QED  BY <2>3, <3>1, <3>2, <3>3 DEF RelayAnswers
  <2> QED  BY <2>1, <2>2, <2>3
<1>4. wire' = (wire \ {m}) \cup {x} /\ Elsewhere
  BY <1>3 DEF Moved, RelayAnswers
<1>5. FullAnswers'
  BY <1>3, <1>4 DEF RInv, FullAnswers, Full, Elsewhere
<1> QED  BY <1>3, <1>4, <1>5, WireRenews DEF Elsewhere, RInv, GuardInv, TypeOK

LEMMA DeliverRenews == ASSUME GuardAssumption, RInv, NEW m \in wire, Deliver(m) PROVE RInv'
<1>1. /\ m.at = "device" /\ wire' \subseteq wire
      /\ UNCHANGED <<now, link, links, revokedAt, pc, timing, nr, missed, pending>>
      /\ \A r \in results' : r \in results \/ \E w \in pending : r = [id |-> w.id, code |-> m.code, ttl |-> m.ttl]
  BY DEF Deliver, Waiter
<1>2. m \in [id : Id, link : 1..MaxLink, at : {"relay", "checked", "device"}, code : Code, ttl : 0..Lease]
      /\ Full(m)
  BY <1>1 DEF RInv, GuardInv, TypeOK, FullAnswers
<1>3. m.code \in Code /\ m.ttl \in 0..Lease /\ \A w \in pending : w.id \in Id
  BY <1>2 DEF RInv, GuardInv, TypeOK
<1>4. results' \subseteq [id : Id, code : Code, ttl : 0..Lease]
  BY <1>1, <1>3 DEF RInv, GuardInv, TypeOK
<1>5. FullAnswers'
  <2>1. ASSUME NEW r \in results' PROVE Full(r)'
    <3>1. CASE r \in results
      BY <1>1, <3>1 DEF RInv, FullAnswers, Full
    <3>2. CASE \E w \in pending : r = [id |-> w.id, code |-> m.code, ttl |-> m.ttl]
      <4>1. r.code = m.code /\ r.ttl = m.ttl
        BY <3>2
      <4> QED  BY <1>1, <1>2, <4>1 DEF Full
    <3> QED  BY <1>1, <3>1, <3>2
  <2> QED  BY <1>1, <2>1 DEF RInv, FullAnswers, Full
<1> QED  BY <1>1, <1>4, <1>5, WireRenews DEF RInv, GuardInv, TypeOK

LEMMA TickRenews == ASSUME GuardAssumption, RInv, Tick PROVE RInv'
<1> USE DEF RInv, GuardInv
<1>0. \A g \in Guard : /\ pc[g] \in {"asking", "waiting"} => now < deadline[g] + Lag
                       /\ pc[g] = "sleeping" => now < wake[g] + Lag
  BY DEF Tick
<1>1. /\ now' = now + 1 /\ now < Horizon
      /\ UNCHANGED <<link, links, revokedAt, pc, timing, nr, missed, pending, results, wire>>
  BY DEF Tick
<1>2. TypeOK'
  BY <1>1 DEF TypeOK, timing, Time, GuardAssumption
<1>3. WaitersInUse' /\ IsFiniteSet(pending')
  BY <1>1 DEF WaitersInUse
<1>4. ASSUME NEW h \in Guard PROVE Renewing(h)'
  <2>1. /\ pc[h] \in {"asking", "waiting"} => now + 1 <= deadline[h] + Lag
        /\ pc[h] = "sleeping" => now + 1 <= wake[h] + Lag
    <3>1. now \in Int /\ deadline[h] \in Int /\ wake[h] \in Int /\ Lag \in Int
      BY TypesOf
    <3> QED  BY <1>0, <3>1
  <2>2. Renewing(h)
    OBVIOUS
  <2> QED  BY <1>1, <2>1, <2>2 DEF Renewing, Counted, Served, LeavesTime, Whole, timing
<1>5. FullAnswers'
  <2>1. now \in Nat /\ ProofEnds \in Nat
    BY DEF TypeOK, Time, GuardAssumption
  <2>2. \A m \in wire : m.ttl \in Int
    BY DEF TypeOK
  <2>3. \A r \in results : r.ttl \in Int
    BY DEF TypeOK
  <2>4. ASSUME NEW t \in Int, t >= ProofEnds - now PROVE t >= ProofEnds - (now + 1)
    BY <2>1, <2>4
  <2>5. \A m \in wire : m.at = "device" /\ m.code = "" => m.ttl = Lease \/ m.ttl >= ProofEnds - (now + 1)
    BY <2>2, <2>4 DEF FullAnswers, Full
  <2>6. \A r \in results : r.code = "" => r.ttl = Lease \/ r.ttl >= ProofEnds - (now + 1)
    BY <2>3, <2>4 DEF FullAnswers, Full
  <2> QED  BY <1>1, <2>5, <2>6 DEF FullAnswers, Full
<1> QED  BY <1>2, <1>3, <1>4, <1>5

LEMMA Renews == ASSUME GuardAssumption, TimingAssumption, IInv, RInv, [Next]_vars PROVE RInv'
<1>1. ASSUME NEW g \in Guard, Ask(g) \/ Send(g) \/ NotSent(g) \/ Unanswered(g) \/ Answered(g) \/ Stop(g)
      PROVE  RInv'
  <2>1. NotSent(g) \/ Unanswered(g) => pc[g] \in {"asking", "waiting"} /\ Missed(g)
    BY DEF NotSent, Unanswered
  <2>2. Stop(g) => Ends(g, "stopped")
    BY DEF Stop
  <2> QED  BY <1>1, <2>1, <2>2, AskRenews, SendRenews, MissedRenews, AnsweredRenews, EndsRenews
<1>2. CASE Revoke \/ LinkDown \/ LinkUp \/ Over \/ UNCHANGED vars
  <2>1. /\ UNCHANGED <<now, pc, timing, nr, missed, pending, results, wire>>
        /\ link' \in 0..MaxLink /\ links' \in 0..MaxLink /\ revokedAt' \in Time \cup {Never}
    BY <1>2 DEF Revoke, LinkDown, LinkUp, Over, vars, RInv, GuardInv, TypeOK, GuardAssumption
  <2>2. FullAnswers'
    BY <2>1 DEF RInv, FullAnswers, Full
  <2> QED  BY <2>1, <2>2, WireRenews DEF RInv, GuardInv, TypeOK
<1>3. ASSUME NEW m \in wire, Lost(m) PROVE RInv'
  <2>1. wire' \subseteq wire /\ Elsewhere
    BY <1>3 DEF Lost
  <2>2. FullAnswers'
    BY <2>1 DEF RInv, FullAnswers, Full, Elsewhere
  <2> QED  BY <2>1, <2>2, WireRenews DEF RInv, GuardInv, TypeOK, Elsewhere
<1> QED  BY <1>1, <1>2, <1>3, RelayReadsRenews, RelayAnswersRenews, DeliverRenews, TickRenews DEF Next

(* No execution outlives its authority: whatever the durations and the lag, however
   late answers come and on whichever connection, it ends with its lease, and no
   lease reaches further than one lease after the revocation, or beyond what the
   caller signed in with. *)
THEOREM AuthorityBounds == ASSUME GuardAssumption PROVE Spec => []NeverBeyondAuthority
<1>1. Init => IInv
  BY Initially
<1>2. IInv /\ [Next]_vars => IInv'
  BY Inductive
<1>3. IInv => NeverBeyondAuthority
  BY DEF IInv, Timed, Running, NeverBeyondAuthority
<1>. QED BY <1>1, <1>2, <1>3, PTL DEF Spec

(* A lease as the code's durations make it: its waiters are those in use, it never
   reaches beyond its authority, and a single failed renewal ends no execution, for
   any durations with time for two requests, any lag within that, and any number
   of executions, connections and requests (guard.go, Maintain). *)
THEOREM LeaseKept == ASSUME GuardAssumption, TimingAssumption PROVE Spec => []LeaseInv
<1>1. Init => IInv /\ RInv
  BY Initially, AtFirst
<1>2. IInv /\ RInv /\ [Next]_vars => IInv' /\ RInv'
  BY Inductive, Renews
<1>3. IInv => NeverBeyondAuthority
  BY DEF IInv, Timed, Running, NeverBeyondAuthority
<1>4. RInv => GuardInv /\ OneMissIsTolerated
  <2>1. ASSUME RInv, NEW g \in Guard, pc[g] = "expired", expires[g] < ProofEnds - Timeout
        PROVE  missed[g] >= 2
    BY <2>1 DEF RInv, Renewing, Served, LeavesTime, Whole
  <2> QED  BY <2>1 DEF RInv, OneMissIsTolerated
<1>5. IInv /\ RInv => LeaseInv
  BY <1>3, <1>4 DEF LeaseInv
<1> QED  BY <1>1, <1>2, <1>5, PTL DEF Spec

(***************************************************************************)
(* HelloQuota: the counters of one address.                                *)
(***************************************************************************)
(* What the Limiter remembers is enough to count the hellos it let through: those
   of the last minute are among the times it keeps, and none is in the future. *)
Remembered ==
  /\ passed \subseteq Conn \X (0..clock)
  /\ hellos \subseteq Conn \X (0..clock)
  /\ \A h \in passed : h[2] + Minute > clock => h \in hellos

(* Who is up or may still come up, apart from those that were being registered
   when the last one passed. *)
Earlier == (In("up") \cup In("registering")) \ beside
CeilingHeld == Cardinality(Earlier) < MaxDevices

QuotaIInv ==
  QuotaTypeOK /\ Remembered /\ devices = Cardinality(In("up")) /\ RateKept /\ CeilingHeld
-----------------------------------------------------------------------------
LEMMA FiniteIn ==
  ASSUME QuotaAssumption, NEW s
  PROVE  IsFiniteSet(In(s)) /\ Cardinality(In(s)) \in Nat /\ Cardinality(In(s)) <= Cardinality(Conn)
<1>1. IsFiniteSet(Conn) /\ In(s) \subseteq Conn
  BY DEF QuotaAssumption, In
<1>. QED BY <1>1, FS_Subset, FS_CardinalityType

(* A set of pairs of connections and times is finite. *)
LEMMA FinitePairs ==
  ASSUME QuotaAssumption, NEW n \in Nat, NEW S \in SUBSET (Conn \X (0..n))
  PROVE  IsFiniteSet(S) /\ Cardinality(S) \in Nat
<1>1. IsFiniteSet(Conn) /\ IsFiniteSet(0..n)
  BY FS_Interval DEF QuotaAssumption
<1>2. IsFiniteSet(Conn \X (0..n))
  BY <1>1, FS_Product
<1>. QED BY <1>2, FS_Subset, FS_CardinalityType

LEMMA QuotaInitially == ASSUME QuotaAssumption, QuotaInit PROVE QuotaIInv
<1>1. In("up") = {} /\ In("over") = {}
  BY DEF QuotaInit, In
<1>2. Cardinality(In("up")) = 0
  BY <1>1, FS_EmptySet
<1>3. Cardinality(Conn) \in Nat
  BY FS_CardinalityType DEF QuotaAssumption
<1>4. QuotaTypeOK
  BY <1>1, <1>3 DEF QuotaInit, QuotaTypeOK, Ticks, QuotaAssumption, Unset
<1>5. RateKept
  <2> SUFFICES ASSUME NEW t \in Ticks
               PROVE  Cardinality({h \in passed : h[2] \in t..(t + Minute - 1)}) <= HelloPerMinute
    BY DEF RateKept
  <2> DEFINE heard == {h \in passed : h[2] \in t..(t + Minute - 1)}
  <2>1. heard = {}
    BY DEF QuotaInit
  <2> HIDE DEF heard
  <2>2. Cardinality(heard) = 0 /\ HelloPerMinute \in Nat
    BY <2>1, FS_EmptySet DEF QuotaAssumption
  <2>3. Cardinality(heard) <= HelloPerMinute
    BY <2>2
  <2>. QED BY <2>3 DEF heard
<1>6. CeilingHeld
  <2>1. Earlier = {} /\ MaxDevices \in Nat \ {0}
    BY DEF QuotaInit, QuotaAssumption, Earlier, In
  <2>2. Cardinality({}) = 0
    BY FS_EmptySet
  <2>. QED BY <2>1, <2>2 DEF CeilingHeld
<1>. QED BY <1>2, <1>4, <1>5, <1>6 DEF QuotaIInv, QuotaInit, Remembered

(* What happens to the connections up when one of them changes. *)
LEMMA UpChanges ==
  ASSUME QuotaAssumption, helloConn \in [Conn -> {"new", "registering", "up", "over"}],
         NEW c \in Conn, NEW s \in {"new", "registering", "up", "over"},
         helloConn' = [helloConn EXCEPT ![c] = s]
  PROVE  Cardinality(In("up")') =
           Cardinality(In("up")) + (IF s = "up" THEN 1 ELSE 0) - (IF helloConn[c] = "up" THEN 1 ELSE 0)
<1>1. IsFiniteSet(In("up")) /\ Cardinality(In("up")) \in Nat
  BY FiniteIn
<1>2. CASE (s = "up") = (helloConn[c] = "up")
  <2>1. In("up")' = In("up")
    BY <1>2 DEF In
  <2>. QED BY <1>1, <1>2, <2>1
<1>3. CASE s = "up" /\ helloConn[c] # "up"
  <2>1. In("up")' = In("up") \cup {c} /\ c \notin In("up")
    BY <1>3 DEF In
  <2>. QED BY <1>1, <1>3, <2>1, FS_AddElement
<1>4. CASE s # "up" /\ helloConn[c] = "up"
  <2>1. In("up")' = In("up") \ {c} /\ c \in In("up")
    BY <1>4 DEF In
  <2>. QED BY <1>1, <1>4, <2>1, FS_RemoveElement
<1>. QED BY <1>2, <1>3, <1>4
-----------------------------------------------------------------------------
(* A hello is let through only if, with it, no minute that ends now or later has
   too many. *)
LEMMA HelloRate ==
  ASSUME QuotaAssumption, QuotaIInv, NEW c \in Conn, AllowDeviceHello(c)
  PROVE  RateKept' /\ Remembered'
<1>. DEFINE heard == WithinMinute \cup {<<c, clock>>}
<1>. /\ clock \in Nat /\ Minute \in Nat \ {0} /\ HelloPerMinute \in Nat /\ LastTick \in Nat
  BY DEF QuotaIInv, QuotaTypeOK, QuotaAssumption, Ticks
<1>1. hellos' = heard /\ clock' = clock /\ heard \subseteq Conn \X (0..clock)
  BY DEF AllowDeviceHello, WithinMinute, QuotaIInv, Remembered
<1>2. Remembered'
  BY <1>1 DEF AllowDeviceHello, WithinMinute, QuotaIInv, Remembered
<1>3. RateKept'
  <2> SUFFICES ASSUME NEW t \in Ticks
               PROVE  Cardinality({h \in passed' : h[2] \in t..(t + Minute - 1)}) <= HelloPerMinute
    BY DEF RateKept
  <2>. DEFINE before == {h \in passed : h[2] \in t..(t + Minute - 1)}
              after == {h \in passed' : h[2] \in t..(t + Minute - 1)}
  <2>. t \in Nat
    BY DEF Ticks
  <2>1. CASE after = before
    BY <2>1 DEF QuotaIInv, RateKept
  <2>2. CASE after # before
    <3>1. passed' = passed \cup {<<c, clock>>} /\ Cardinality(heard) <= HelloPerMinute
      BY <2>2 DEF AllowDeviceHello
    <3>2. clock \in t..(t + Minute - 1)
      BY <2>2, <3>1
    <3>3. \A h \in passed : h[2] \in 0..clock
      BY DEF QuotaIInv, Remembered
    <3>4. after \subseteq heard
      BY <3>1, <3>2, <3>3 DEF QuotaIInv, Remembered, WithinMinute
    <3>5. IsFiniteSet(heard) /\ Cardinality(heard) \in Nat
      BY <1>1, FinitePairs
    <3>6. Cardinality(after) \in Nat /\ Cardinality(after) <= Cardinality(heard)
      BY <3>4, <3>5, FS_Subset, FS_CardinalityType
    <3>. QED BY <3>1, <3>5, <3>6
  <2>. QED BY <2>1, <2>2
<1>. QED BY <1>2, <1>3

(* Only a hello that passes adds to those that may be up, and it finds the limit not
   reached by those that are. *)
LEMMA FewEarlier ==
  ASSUME QuotaAssumption, QuotaIInv,
         \/ Earlier' \subseteq Earlier
         \/ Earlier' \subseteq In("up") /\ devices < MaxDevices
  PROVE  CeilingHeld'
<1>1. /\ IsFiniteSet(Conn) /\ MaxDevices \in Nat
      /\ Earlier \subseteq Conn /\ In("up") \subseteq Conn
  BY DEF QuotaAssumption, Earlier, In
<1>2. PICK S \in {Earlier, In("up")} : Earlier' \subseteq S /\ Cardinality(S) < MaxDevices
  BY DEF QuotaIInv, CeilingHeld
<1>3. IsFiniteSet(S)
  BY <1>1, <1>2, FS_Subset
<1>4. /\ Cardinality(S) \in Nat /\ Cardinality(Earlier') \in Nat
      /\ Cardinality(Earlier') <= Cardinality(S)
  BY <1>2, <1>3, FS_Subset, FS_CardinalityType
<1>5. Cardinality(Earlier') < MaxDevices
  BY <1>1, <1>2, <1>4
<1>. QED BY <1>5 DEF CeilingHeld

(* Of those up at most MaxDevices - 1 are not among those registered together. *)
LEMMA CeilingFollows == ASSUME QuotaAssumption, QuotaIInv PROVE CeilingKept
<1>. DEFINE together == beside \cap In("up")
            others == In("up") \ beside
<1>1. /\ IsFiniteSet(Conn) /\ MaxDevices \in Nat
      /\ Earlier \subseteq Conn /\ In("up") \subseteq Conn
  BY DEF QuotaAssumption, Earlier, In
<1>2. /\ IsFiniteSet(Earlier) /\ IsFiniteSet(together) /\ IsFiniteSet(others)
      /\ others \subseteq Earlier /\ together \cap others = {} /\ In("up") = together \cup others
  BY <1>1, FS_Subset DEF Earlier
<1>3. Cardinality(others) <= Cardinality(Earlier)
  BY <1>2, FS_Subset
<1>4. /\ Cardinality(Earlier) \in Nat /\ Cardinality(together) \in Nat
      /\ Cardinality(others) \in Nat
  BY <1>2, FS_CardinalityType
<1>5. Cardinality(In("up")) = Cardinality(together) + Cardinality(others) - Cardinality(together \cap others)
  BY <1>2, FS_Union
<1>6. Cardinality(together \cap others) = 0
  BY <1>2, FS_EmptySet
<1>7. devices = Cardinality(In("up")) /\ Cardinality(Earlier) < MaxDevices
  BY DEF QuotaIInv, CeilingHeld
<1>. HIDE DEF together, others
<1>8. devices < MaxDevices + Cardinality(together)
  BY <1>1, <1>3, <1>4, <1>5, <1>6, <1>7
<1>. QED BY <1>8 DEF CeilingKept, together

LEMMA QuotaInductive == ASSUME QuotaAssumption, QuotaIInv, [QuotaNext]_quotaVars PROVE QuotaIInv'
<1>. /\ QuotaTypeOK /\ Remembered /\ RateKept /\ devices = Cardinality(In("up"))
     /\ Cardinality(Conn) \in Nat /\ devices \in Nat
  BY FS_CardinalityType DEF QuotaIInv, QuotaAssumption, QuotaTypeOK
<1>0. ASSUME UNCHANGED <<passed, clock, hellos>> PROVE RateKept' /\ Remembered'
  BY <1>0 DEF RateKept, Remembered
<1>1. CASE ClockTicks
  <2>1. In("up")' = In("up") /\ In("over")' = In("over")
    BY <1>1 DEF ClockTicks, In
  <2>2. QuotaTypeOK'
    BY <1>1, <2>1 DEF ClockTicks, QuotaTypeOK, Ticks, QuotaAssumption
  <2>3. RateKept' /\ Remembered'
    BY <1>1 DEF ClockTicks, RateKept, Remembered, QuotaTypeOK, Ticks, QuotaAssumption
  <2>4. CeilingHeld'
    BY <1>1, FewEarlier DEF ClockTicks, Earlier, In
  <2>. QED BY <1>1, <2>1, <2>2, <2>3, <2>4 DEF QuotaIInv, ClockTicks
<1>2. ASSUME NEW c \in Conn, AllowDeviceHello(c) PROVE QuotaIInv'
  <2>1. PICK s \in {"registering", "over"} : helloConn' = [helloConn EXCEPT ![c] = s]
    BY <1>2 DEF AllowDeviceHello, Returns
  <2>2. helloConn[c] = "new" /\ UNCHANGED <<devices, clock, bytes, window>>
    BY <1>2 DEF AllowDeviceHello
  <2>3. devices' = Cardinality(In("up")')
    <3>1. Cardinality(In("up")') = Cardinality(In("up")) + 0 - 0
      BY <2>1, <2>2, UpChanges DEF QuotaTypeOK
    <3>. QED BY <2>2, <3>1
  <2>4. RateKept' /\ Remembered'
    BY <1>2, HelloRate
  <2>5. reading' \subseteq Conn \ In("over")'
    BY <1>2 DEF AllowDeviceHello, Returns, QuotaTypeOK, In
  <2>6. passed' \subseteq Conn \X Ticks /\ hellos' \subseteq Conn \X Ticks
    BY <2>2, <2>4 DEF Remembered, QuotaTypeOK, Ticks, QuotaAssumption
  <2>7. beside' \subseteq Conn
    BY <1>2 DEF AllowDeviceHello, QuotaTypeOK, In
  <2>8. QuotaTypeOK'
    BY <2>1, <2>2, <2>5, <2>6, <2>7 DEF QuotaTypeOK
  <2>9. CeilingHeld'
    <3>1. CASE s = "over"
      <4>1. Earlier' \subseteq Earlier
        BY <1>2, <2>1, <3>1 DEF AllowDeviceHello, Returns, Earlier, In, QuotaTypeOK
      <4>. QED BY <4>1, FewEarlier
    <3>2. CASE s = "registering"
      <4>1. helloConn'[c] = "registering"
        BY <2>1, <3>2 DEF QuotaTypeOK
      <4>2. beside' = In("registering") \cup {c} /\ devices < MaxDevices
        BY <1>2, <4>1 DEF AllowDeviceHello, Returns, QuotaTypeOK
      <4>3. Earlier' \subseteq In("up")
        BY <2>1, <3>2, <4>2 DEF Earlier, In, QuotaTypeOK
      <4>. QED BY <4>2, <4>3, FewEarlier
    <3>. QED BY <3>1, <3>2
  <2>. QED BY <2>3, <2>4, <2>8, <2>9 DEF QuotaIInv
<1>3. ASSUME NEW c \in Conn, Register(c) PROVE QuotaIInv'
  <2>1. PICK s \in {"up", "over"} : /\ helloConn' = [helloConn EXCEPT ![c] = s]
                                    /\ devices' = devices + (IF s = "up" THEN 1 ELSE 0)
    BY <1>3 DEF Register, Returns
  <2>2. helloConn[c] = "registering" /\ UNCHANGED <<clock, hellos, bytes, window, passed, beside>>
    BY <1>3 DEF Register
  <2>3. devices' = Cardinality(In("up")')
    <3>1. Cardinality(In("up")') = Cardinality(In("up")) + (IF s = "up" THEN 1 ELSE 0) - 0
      BY <2>1, <2>2, UpChanges DEF QuotaTypeOK
    <3>. QED BY <2>1, <3>1
  <2>4. helloConn' \in [Conn -> {"new", "registering", "up", "over"}]
    BY <2>1 DEF QuotaTypeOK
  <2>5. Cardinality(In("up")') \in 0..Cardinality(Conn)
    <3>1. In("up")' \subseteq Conn /\ IsFiniteSet(Conn)
      BY DEF In, QuotaAssumption
    <3>. QED BY <3>1, FS_Subset, FS_CardinalityType
  <2>6. reading' \subseteq Conn \ In("over")'
    BY <1>3 DEF Register, Returns, QuotaTypeOK, In
  <2>7. QuotaTypeOK'
    BY <2>2, <2>3, <2>4, <2>5, <2>6 DEF QuotaTypeOK
  <2>8. CeilingHeld'
    <3>1. Earlier' \subseteq Earlier
      BY <2>1, <2>2 DEF Earlier, In, QuotaTypeOK
    <3>. QED BY <3>1, FewEarlier
  <2>. QED BY <1>0, <2>2, <2>3, <2>7, <2>8 DEF QuotaIInv
<1>4. ASSUME NEW c \in Conn, Disconnects(c) PROVE QuotaIInv'
  <2>1. helloConn[c] = "up" /\ helloConn' = [helloConn EXCEPT ![c] = "over"] /\ reading' = reading \ {c}
    BY <1>4 DEF Disconnects, Returns
  <2>2. devices # 0
    <3>1. c \in In("up") /\ IsFiniteSet(In("up"))
      BY <2>1, FiniteIn DEF In
    <3>. QED BY <3>1, FS_EmptySet
  <2>3. devices' = devices - 1 /\ UNCHANGED <<clock, hellos, bytes, window, passed, beside>>
    BY <1>4, <2>2 DEF Disconnects
  <2>4. devices' = Cardinality(In("up")')
    <3>1. Cardinality(In("up")') = Cardinality(In("up")) + 0 - 1
      BY <2>1, UpChanges DEF QuotaTypeOK
    <3>. QED BY <2>3, <3>1
  <2>5. QuotaTypeOK'
    BY <2>1, <2>2, <2>3 DEF QuotaTypeOK, In
  <2>6. CeilingHeld'
    <3>1. Earlier' \subseteq Earlier
      BY <2>1, <2>3 DEF Earlier, In, QuotaTypeOK
    <3>. QED BY <3>1, FewEarlier
  <2>. QED BY <1>0, <2>3, <2>4, <2>5, <2>6 DEF QuotaIInv
<1>5. ASSUME NEW c \in Conn, NEW size \in Size, AddBytes(c, size) PROVE QuotaIInv'
  <2>1. UNCHANGED <<clock, hellos, devices, helloConn, passed, beside>> /\ reading' \subseteq reading
    BY <1>5 DEF AddBytes
  <2>2. In("up")' = In("up") /\ In("over")' = In("over")
    BY <2>1 DEF In
  <2>3. bytes' \in Nat /\ window' \in Ticks \cup {Unset}
    BY <1>5 DEF AddBytes, QuotaTypeOK, QuotaAssumption
  <2>4. QuotaTypeOK'
    BY <2>1, <2>2, <2>3 DEF QuotaTypeOK
  <2>5. CeilingHeld'
    BY <2>1, FewEarlier DEF Earlier, In
  <2>. QED BY <1>0, <2>1, <2>2, <2>4, <2>5 DEF QuotaIInv
<1>6. CASE UNCHANGED quotaVars
  <2>1. In("up")' = In("up") /\ In("over")' = In("over")
    BY <1>6 DEF quotaVars, In
  <2>2. UNCHANGED <<clock, hellos, devices, bytes, window, helloConn, reading, passed, beside>>
    BY <1>6 DEF quotaVars
  <2>3. QuotaTypeOK'
    BY <2>1, <2>2 DEF QuotaTypeOK
  <2>4. CeilingHeld'
    BY <2>2, FewEarlier DEF Earlier, In
  <2>. QED BY <1>0, <2>1, <2>2, <2>3, <2>4 DEF QuotaIInv
<1>. QED BY <1>1, <1>2, <1>3, <1>4, <1>5, <1>6 DEF QuotaNext

(* The counter of an address is the number of its devices that are up; it is above
   its limit only by hellos that were being registered together; and in no minute
   do more hellos pass the check than the limit, for every limit, number of
   connections and order of hellos, refusals and disconnections. *)
THEOREM QuotaKept == ASSUME QuotaAssumption PROVE QuotaSpec => []QuotaInv
<1>1. QuotaInit => QuotaIInv
  BY QuotaInitially
<1>2. QuotaIInv /\ [QuotaNext]_quotaVars => QuotaIInv'
  BY QuotaInductive
<1>3. QuotaIInv => QuotaInv
  BY CeilingFollows DEF QuotaIInv, QuotaInv
<1>. QED BY <1>1, <1>2, <1>3, PTL DEF QuotaSpec
-----------------------------------------------------------------------------
(* Access to a device (DeviceAccess).  The sets that follow hold whatever bears ids up
   to n. *)
Rows(n) == [uid : 0..n, grant : 0..n, ownership : 0..n, owner : Member \cup {None}]
Bindings(n) == [uid : 0..n, ownership : 0..n, grant : 0..n]
Authorizations(n) ==
  [binding : Bindings(n), share : 0..n, perms : SUBSET Operation, expires : Nat]
SharesUpTo(n) ==
  [id : 0..n, ownership : 0..n, member : Member, perms : Permits, expires : Nat]
DeviceSides(n) == [record : Rows(n), actor : Identity \cup {None}]
ClientSides(n) ==
  [actor : Identity \cup {None}, loaded : Bindings(n), holds : Authorizations(n)]
Credentials == [member : Member \cup {None}, expires : Nat, revoked : BOOLEAN]
Memberships == [active : BOOLEAN, version : Version]

(* Whatever is stored or remembered bears ids that were drawn. *)
People ==
  /\ today \in Days
  /\ members \in [Member -> Memberships] /\ creds \in [Cred -> Credentials]
Drawn ==
  /\ drawn \in RowId /\ device \in Rows(drawn) /\ shares \subseteq SharesUpTo(drawn)
  /\ deviceConn \in [DeviceConn -> DeviceSides(drawn)]
  /\ client \in [Client -> ClientSides(drawn)]

(* The shares of a device are its present owner's, and there is room for them. *)
SharesSound ==
  /\ device.uid = 0 => device.ownership = 0
  /\ \A s \in shares : s.ownership = device.ownership /\ device.ownership # 0
  /\ \A s, t \in shares : s.member = t.member \/ s.id = t.id => s = t
  /\ IsFiniteSet(shares) /\ Cardinality(shares) <= MaxShares

(* Who signed in did so with a credential that is still that member's, under a
   version of the membership that may be over. *)
ActorSound(a) ==
  creds[a.cred].member = a.member /\ a.version <= members[a.member].version

AccessIInv ==
  /\ People /\ Drawn /\ SharesSound
  /\ \A c \in Client : client[c].actor # None => ActorSound(client[c].actor)
-----------------------------------------------------------------------------
(* The transactions by what they do to the device's rows. *)
Added(m, perms, ttl) == [id |-> NewId, ownership |-> device.ownership, member |-> m,
                         perms |-> perms, expires |-> today + ttl]
RowStep ==
  \/ UNCHANGED <<device, shares, drawn>>
  \/ /\ device.uid = 0 /\ Draws /\ device' = [NoDevice EXCEPT !.uid = NewId]
     /\ UNCHANGED shares
  \/ Draws /\ device' = [device EXCEPT !.grant = NewId] /\ UNCHANGED shares
  \/ device' = [device EXCEPT !.grant = 0] /\ UNCHANGED <<drawn, shares>>
  \/ device' = NoDevice /\ shares' = {} /\ UNCHANGED drawn
  \/ device.uid # 0 /\ \E m \in Member : SetOwner(m)
  \/ /\ device.ownership # 0 /\ Draws /\ UNCHANGED device
     /\ \E m \in Member, perms \in Permits, ttl \in TTL :
          /\ Cardinality(Others(m)) < MaxShares
          /\ shares' = Others(m) \cup {Added(m, perms, ttl)}
  \/ (\E s \in shares : shares' = shares \ {s}) /\ UNCHANGED <<device, drawn>>

(* Something is added to the credentials, a membership gets a new version, or time
   passes; everything else leaves people alone. *)
PeopleSame == UNCHANGED <<today, members, creds>>

LEMMA RowFields ==
  ASSUME NEW n, NEW d \in Rows(n)
  PROVE  d.uid \in 0..n /\ d.grant \in 0..n /\ d.ownership \in 0..n /\ d.owner \in Member \cup {None}
  BY DEF Rows

LEMMA Widens ==
  ASSUME NEW n \in Nat, NEW k \in Nat, n <= k
  PROVE  /\ Rows(n) \subseteq Rows(k) /\ Bindings(n) \subseteq Bindings(k)
         /\ SharesUpTo(n) \subseteq SharesUpTo(k)
         /\ DeviceSides(n) \subseteq DeviceSides(k) /\ ClientSides(n) \subseteq ClientSides(k)
<1>1. 0..n \subseteq 0..k
  OBVIOUS
<1>2. Rows(n) \subseteq Rows(k) /\ Bindings(n) \subseteq Bindings(k) /\ SharesUpTo(n) \subseteq SharesUpTo(k)
  BY <1>1 DEF Rows, Bindings, SharesUpTo
<1>3. Authorizations(n) \subseteq Authorizations(k)
  BY <1>1, <1>2 DEF Authorizations
<1> QED  BY <1>2, <1>3 DEF DeviceSides, ClientSides

LEMMA AccessInitially == ASSUME AccessAssumption, AccessInit PROVE AccessIInv
<1>1. NoDevice \in Rows(0) /\ Binding(NoDevice) \in Bindings(0) /\ NoAuthorization \in Authorizations(0)
  BY DEF NoDevice, Rows, Binding, Bindings, NoAuthorization, Authorizations
<1>2. People
  <2>1. [active |-> TRUE, version |-> 1] \in Memberships
    BY DEF Memberships, Version, AccessAssumption
  <2>2. [member |-> None, expires |-> 0, revoked |-> FALSE] \in Credentials
    BY DEF Credentials
  <2> QED  BY <2>1, <2>2 DEF AccessInit, People, Days, AccessAssumption
<1>3. Drawn
  BY <1>1 DEF AccessInit, Drawn, RowId, AccessAssumption, DeviceSides, ClientSides
<1>4. SharesSound
  BY FS_EmptySet DEF AccessInit, SharesSound, NoDevice, AccessAssumption
<1>5. \A c \in Client : client[c].actor = None
  BY DEF AccessInit
<1> QED  BY <1>2, <1>3, <1>4, <1>5 DEF AccessIInv

(* A membership that may change once more has a version to spare. *)
LEMMA VersionToSpare ==
  ASSUME AccessAssumption, People, NEW m \in Member, Switches < MaxSwitch
  PROVE  members[m].version \in Version /\ members[m].version + 1 \in Version
<1> DEFINE changes == {p \in Member \X Version : p[2] < members[p[1]].version}
           n == members[m].version - 1
           mine == {m} \X (1..n)
<1>1. members[m].version \in Version /\ MaxSwitch \in Nat
  BY DEF People, Memberships, AccessAssumption
<1>2. n \in Nat /\ n <= MaxSwitch /\ members[m].version = n + 1
  BY <1>1 DEF Version
<1>3. mine \subseteq changes
  <2>1. ASSUME NEW v \in 1..n PROVE v \in Version /\ v < members[m].version
    BY <1>1, <1>2, <2>1 DEF Version
  <2> QED  BY <2>1
<1>4. IsFiniteSet(changes)
  <2>1. IsFiniteSet(Version) /\ IsFiniteSet(Member)
    BY <1>1, FS_Interval DEF Version, AccessAssumption
  <2>2. IsFiniteSet(Member \X Version)
    BY <2>1, FS_Product
  <2> QED  BY <2>2, FS_Subset
<1>5. Cardinality(mine) = n
  <2>1. IsFiniteSet({m}) /\ Cardinality({m}) = 1
    BY FS_Singleton
  <2>2. IsFiniteSet(1..n) /\ Cardinality(1..n) = n
    <3>1. 1 \in Int /\ n \in Int
      BY <1>2
    <3>2. /\ IsFiniteSet(1..n)
          /\ Cardinality(1..n) = IF 1 > n THEN 0 ELSE n - 1 + 1
      BY <3>1, FS_Interval
    <3> QED  BY <1>2, <3>2
  <2>3. Cardinality(mine) = Cardinality({m}) * Cardinality(1..n)
    <3> HIDE DEF n
    <3> QED  BY <2>1, <2>2, FS_Product
  <2> QED  BY <1>2, <2>1, <2>2, <2>3
<1> HIDE DEF changes, mine, n
<1>6. n <= Cardinality(changes) /\ Cardinality(changes) \in Nat
  BY <1>3, <1>4, <1>5, FS_Subset, FS_CardinalityType
<1>7. Cardinality(changes) < MaxSwitch
  BY DEF Switches, changes
<1> QED  BY <1>1, <1>2, <1>6, <1>7 DEF Version

LEMMA RowSteps ==
  ASSUME Drawn, AccessNext
  PROVE  RowStep
<1>1. ASSUME NEW c \in DeviceConn, RegisterDevice(c) PROVE RowStep
  BY <1>1 DEF RegisterDevice, RowStep
<1>2. ASSUME NEW c \in DeviceConn, DeleteDevice(c) PROVE RowStep
  BY <1>2 DEF DeleteDevice, RowStep
<1>3. ASSUME NEW c \in DeviceConn, NEW access \in {"same", "new", "none"}, UpdateDevice(c, access)
      PROVE  RowStep
  BY <1>3 DEF UpdateDevice, RowStep
<1>4. ASSUME NEW c \in DeviceConn, Claim(c) PROVE RowStep
  <2>1. device.uid # 0
    BY <1>4 DEF Claim, MayManage
  <2>2. CASE device.ownership = 0
    <3>1. deviceConn[c].actor.member \in Member
      BY <1>4 DEF Claim, MayManage, VerifiesActor, Drawn, DeviceSides, Identity
    <3> QED  BY <1>4, <2>1, <2>2, <3>1 DEF Claim, RowStep
  <2>3. CASE device.ownership # 0
    BY <1>4, <2>3 DEF Claim, RowStep
  <2> QED  BY <2>2, <2>3
<1>5. ASSUME NEW c \in DeviceConn, NEW m \in Member, Transfer(c, m) PROVE RowStep
  BY <1>5 DEF Transfer, MayManage, RowStep
<1>6. ASSUME NEW c \in DeviceConn, NEW m \in Member, NEW perms \in Permits, NEW ttl \in TTL,
             ReplaceShare(c, m, perms, ttl)
      PROVE  RowStep
  BY <1>6 DEF ReplaceShare, RowStep, Added
<1>7. ASSUME NEW c \in DeviceConn, NEW s \in shares, Unshare(c, s) PROVE RowStep
  BY <1>7 DEF Unshare, RowStep
<1>8. ASSUME NEW c \in DeviceConn, Refuse(c) PROVE RowStep
  BY <1>8 DEF Refuse, RowStep
<1>9. ASSUME UNCHANGED <<device, shares, drawn>> PROVE RowStep
  BY <1>9 DEF RowStep
<1> QED
  BY <1>1, <1>2, <1>3, <1>4, <1>5, <1>6, <1>7, <1>8, <1>9
    DEF AccessNext, Manage, DayPasses, IssueCredential, RevokeCredential, SetMembershipActive,
        Authenticate, AuthenticateClient, LoadDevice, Resolve, Leaves

(* Fewer shares of the same ownership. *)
LEMMA SharesLeft ==
  ASSUME AccessAssumption, SharesSound, NEW S \in SUBSET shares
  PROVE  IsFiniteSet(S) /\ Cardinality(S) \in Nat /\ Cardinality(S) <= MaxShares
<1>1. IsFiniteSet(shares) /\ Cardinality(shares) <= MaxShares /\ MaxShares \in Nat
  BY DEF SharesSound, AccessAssumption
<1>2. IsFiniteSet(S) /\ Cardinality(S) <= Cardinality(shares)
  BY <1>1, FS_Subset
<1>3. Cardinality(S) \in Nat /\ Cardinality(shares) \in Nat
  BY <1>1, <1>2, FS_CardinalityType
<1> QED  BY <1>1, <1>2, <1>3

(* A row that is not given a new ownership keeps what is left of its shares. *)
LEMMA RowWithLess ==
  ASSUME AccessAssumption, People, Drawn, SharesSound,
         drawn' \in RowId, drawn' \in Nat, drawn <= drawn',
         device' \in Rows(drawn'), device'.uid = 0 => device'.ownership = 0,
         shares' \subseteq shares, shares' = {} \/ device'.ownership = device.ownership
  PROVE  SharesSound' /\ shares' \subseteq SharesUpTo(drawn')
<1>1. IsFiniteSet(shares') /\ Cardinality(shares') <= MaxShares
  BY SharesLeft
<1>2. drawn \in Nat
  BY DEF Drawn, RowId, AccessAssumption
<1>3. shares' \subseteq SharesUpTo(drawn')
  BY <1>2, Widens DEF Drawn
<1> QED  BY <1>1, <1>3 DEF SharesSound

LEMMA ShareAdded ==
  ASSUME AccessAssumption, People, Drawn, SharesSound, Draws, UNCHANGED device, device.ownership # 0,
         NEW m \in Member, NEW perms \in Permits, NEW ttl \in TTL,
         Cardinality(Others(m)) < MaxShares, shares' = Others(m) \cup {Added(m, perms, ttl)}
  PROVE  SharesSound' /\ shares' \subseteq SharesUpTo(drawn')
<1> DEFINE x == Added(m, perms, ttl)
<1>1. /\ drawn \in Nat /\ drawn' = drawn + 1 /\ NewId = drawn + 1 /\ today \in Nat /\ ttl \in Nat
      /\ MaxShares \in Nat
  BY DEF Drawn, RowId, AccessAssumption, Draws, NewId, People, Days
<1>2. device.ownership \in 0..drawn
  BY RowFields DEF Drawn
<1>3. /\ x.id = drawn + 1 /\ x.ownership = device.ownership /\ x.member = m
      /\ x \in SharesUpTo(drawn + 1)
  <2>1. today + ttl \in Nat /\ drawn + 1 \in 0..(drawn + 1) /\ device.ownership \in 0..(drawn + 1)
    BY <1>1, <1>2
  <2> QED  BY <1>1, <2>1 DEF Added, SharesUpTo
<1> HIDE DEF x
<1>4. /\ Others(m) \subseteq shares /\ \A s \in Others(m) : s.member # m
  BY DEF Others, SharesOf
<1>5. \A s \in shares : s.id \in 0..drawn
  BY DEF Drawn, SharesUpTo
<1>6. x \notin shares
  BY <1>1, <1>3, <1>5
<1>7. shares' \subseteq SharesUpTo(drawn')
  <2>1. shares \subseteq SharesUpTo(drawn + 1)
    BY <1>1, Widens DEF Drawn
  <2> QED  BY <1>1, <1>3, <1>4, <2>1 DEF x
<1>8. IsFiniteSet(Others(m)) /\ Cardinality(Others(m)) \in Nat
  BY <1>4, SharesLeft
<1>9. IsFiniteSet(shares') /\ Cardinality(shares') = Cardinality(Others(m)) + 1
  <2>1. x \notin Others(m)
    BY <1>4, <1>6
  <2> QED  BY <1>8, <2>1, FS_AddElement DEF x
<1>10. Cardinality(shares') <= MaxShares
  BY <1>1, <1>8, <1>9
<1>11. \A s \in shares' : s = x \/ (s \in shares /\ s.member # m /\ s.id # x.id)
  BY <1>1, <1>3, <1>4, <1>5 DEF x
<1>12. \A s, t \in shares' : s.member = t.member \/ s.id = t.id => s = t
  BY <1>3, <1>11 DEF SharesSound
<1>13. \A s \in shares' : s.ownership = device'.ownership
  BY <1>3, <1>11 DEF SharesSound
<1> QED  BY <1>7, <1>9, <1>10, <1>12, <1>13 DEF SharesSound

LEMMA RowKeeps ==
  ASSUME AccessAssumption, People, Drawn, SharesSound, RowStep
  PROVE  /\ drawn' \in RowId /\ drawn' \in Nat /\ drawn <= drawn' /\ device' \in Rows(drawn')
         /\ SharesSound' /\ shares' \subseteq SharesUpTo(drawn')
<1>1. /\ drawn \in Nat /\ MaxId \in Nat /\ drawn <= MaxId /\ device \in Rows(drawn)
      /\ drawn \in RowId /\ NewId = drawn + 1
  BY DEF Drawn, RowId, AccessAssumption, NewId
<1>2. Draws => drawn' = drawn + 1 /\ drawn' \in RowId /\ drawn' \in Nat /\ drawn <= drawn'
  BY <1>1 DEF Draws, RowId
<1>3. UNCHANGED drawn => drawn' \in RowId /\ drawn' \in Nat /\ drawn <= drawn'
  BY <1>1
<1>4. \A n \in Nat : NoDevice \in Rows(n)
  BY DEF NoDevice, Rows
<1>5. NoDevice.uid = 0 /\ NoDevice.ownership = 0
  BY DEF NoDevice
<1>7. CASE UNCHANGED <<device, shares, drawn>>
  BY <1>1, <1>3, <1>7, RowWithLess DEF SharesSound
<1>8. CASE device.uid = 0 /\ Draws /\ device' = [NoDevice EXCEPT !.uid = NewId] /\ UNCHANGED shares
  <2>1. device' \in Rows(drawn')
    BY <1>1, <1>2, <1>8 DEF NoDevice, Rows
  <2>2. device'.uid = drawn + 1 /\ device'.ownership = 0 /\ device.ownership = 0
    BY <1>1, <1>8 DEF NoDevice, SharesSound
  <2> QED  BY <1>1, <1>2, <1>8, <2>1, <2>2, RowWithLess
<1>9. CASE Draws /\ device' = [device EXCEPT !.grant = NewId] /\ UNCHANGED shares
  <2>1. device \in Rows(drawn')
    BY <1>1, <1>2, <1>9, Widens
  <2>2. /\ device' \in Rows(drawn') /\ device'.uid = device.uid
        /\ device'.ownership = device.ownership
    BY <1>1, <1>2, <1>9, <2>1 DEF Rows
  <2> QED  BY <1>2, <1>9, <2>2, RowWithLess DEF SharesSound
<1>10. CASE device' = [device EXCEPT !.grant = 0] /\ UNCHANGED <<drawn, shares>>
  <2>1. /\ device' \in Rows(drawn') /\ device'.uid = device.uid
        /\ device'.ownership = device.ownership
    BY <1>1, <1>10 DEF Rows
  <2> QED  BY <1>3, <1>10, <2>1, RowWithLess DEF SharesSound
<1>11. CASE device' = NoDevice /\ shares' = {} /\ UNCHANGED drawn
  <2>1. device' \in Rows(drawn')
    BY <1>3, <1>4, <1>11
  <2>2. device'.ownership = 0 /\ shares' \subseteq shares
    BY <1>5, <1>11
  <2> QED  BY <1>3, <1>11, <2>1, <2>2, RowWithLess
<1>12. ASSUME device.uid # 0, NEW m \in Member, SetOwner(m)
       PROVE  /\ drawn' \in RowId /\ drawn' \in Nat /\ drawn <= drawn' /\ device' \in Rows(drawn')
              /\ SharesSound' /\ shares' \subseteq SharesUpTo(drawn')
  <2>1. Draws /\ device' = [device EXCEPT !.ownership = NewId, !.owner = m] /\ shares' = {}
    BY <1>12 DEF SetOwner
  <2>2. device \in Rows(drawn')
    BY <1>1, <1>2, <2>1, Widens
  <2>3. device' \in Rows(drawn') /\ device'.uid = device.uid
    <3>1. NewId \in 0..drawn'
      BY <1>1, <1>2, <2>1
    <3>2. device' = [device EXCEPT !.ownership = NewId, !.owner = m]
      BY <2>1
    <3> QED  BY <2>2, <3>1, <3>2 DEF Rows
  <2> QED  BY <1>2, <1>12, <2>1, <2>3, RowWithLess
<1>13. CASE /\ device.ownership # 0 /\ Draws /\ UNCHANGED device
            /\ \E m \in Member, perms \in Permits, ttl \in TTL :
                 /\ Cardinality(Others(m)) < MaxShares
                 /\ shares' = Others(m) \cup {Added(m, perms, ttl)}
  <2>1. device' \in Rows(drawn')
    BY <1>1, <1>2, <1>13, Widens
  <2>2. SharesSound' /\ shares' \subseteq SharesUpTo(drawn')
    BY <1>13, ShareAdded
  <2> QED  BY <1>2, <1>13, <2>1, <2>2
<1>14. CASE (\E s \in shares : shares' = shares \ {s}) /\ UNCHANGED <<device, drawn>>
  BY <1>1, <1>3, <1>14, RowWithLess DEF SharesSound
<1> QED  BY <1>7, <1>8, <1>9, <1>10, <1>11, <1>12, <1>13, <1>14 DEF RowStep
-----------------------------------------------------------------------------
(* Four actions change people; the others leave them alone. *)
LEMMA PeopleSteps ==
  ASSUME AccessNext
  PROVE  \/ PeopleSame
         \/ DayPasses
         \/ \E k \in Cred, m \in Member, ttl \in TTL : IssueCredential(k, m, ttl)
         \/ \E k \in Cred : RevokeCredential(k)
         \/ \E m \in Member, active \in BOOLEAN : SetMembershipActive(m, active)
<1>1. ASSUME NEW c \in DeviceConn,
             RegisterDevice(c) \/ DeleteDevice(c) \/ Manage(c)
             \/ (\E access \in {"same", "new", "none"} : UpdateDevice(c, access))
             \/ (\E k \in Cred : Authenticate(c, k))
      PROVE  PeopleSame
  BY <1>1 DEF PeopleSame, RegisterDevice, DeleteDevice, Manage, Claim, Transfer, ReplaceShare, Unshare,
              Refuse, Commits, UpdateDevice, Authenticate
<1>2. ASSUME NEW c \in Client,
             LoadDevice(c) \/ Resolve(c) \/ Leaves(c) \/ (\E k \in Cred : AuthenticateClient(c, k))
      PROVE  PeopleSame
  BY <1>2 DEF PeopleSame, LoadDevice, Resolve, Leaves, AuthenticateClient
<1> QED  BY <1>1, <1>2 DEF AccessNext

LEMMA PeopleKept ==
  ASSUME AccessAssumption, People, AccessNext
  PROVE  People'
<1>1. CASE PeopleSame
  BY <1>1 DEF PeopleSame, People
<1>2. CASE DayPasses
  BY <1>2 DEF DayPasses, People, Days, AccessAssumption
<1>3. ASSUME NEW k \in Cred, NEW m \in Member, NEW ttl \in TTL, IssueCredential(k, m, ttl)
      PROVE  People'
  <2>1. today + ttl \in Nat
    BY DEF People, Days, AccessAssumption
  <2>2. creds[k] \in Credentials
    BY DEF People
  <2>3. creds' \in [Cred -> Credentials]
    BY <1>3, <2>1, <2>2 DEF IssueCredential, People, Credentials
  <2> QED  BY <1>3, <2>3 DEF IssueCredential, People
<1>4. ASSUME NEW k \in Cred, RevokeCredential(k) PROVE People'
  <2>1. creds' \in [Cred -> Credentials]
    BY <1>4 DEF RevokeCredential, People, Credentials
  <2> QED  BY <1>4, <2>1 DEF RevokeCredential, People
<1>5. ASSUME NEW m \in Member, NEW active \in BOOLEAN, SetMembershipActive(m, active) PROVE People'
  <2>1. members[m].version + 1 \in Version
    BY <1>5, VersionToSpare DEF SetMembershipActive
  <2>2. members' = [members EXCEPT ![m] = [active |-> active, version |-> members[m].version + 1]]
    BY <1>5 DEF SetMembershipActive
  <2>3. members' \in [Member -> Memberships]
    BY <2>1, <2>2 DEF People, Memberships
  <2> QED  BY <1>5, <2>3 DEF SetMembershipActive, People
<1> QED  BY <1>1, <1>2, <1>3, <1>4, <1>5, PeopleSteps

(* What a credential says of its holder, when it is valid. *)
LEMMA IdentityIs ==
  ASSUME AccessAssumption, People, NEW k \in Cred, ValidAt(k)
  PROVE  IdentityOf(k) \in Identity /\ ActorSound(IdentityOf(k))
<1>1. creds[k] \in Credentials /\ creds[k].member \in Member
  BY DEF People, ValidAt, Credentials
<1>2. members[creds[k].member] \in Memberships /\ members[creds[k].member].version \in Nat
  BY <1>1 DEF People, Memberships, Version
<1>3. IdentityOf(k) \in Identity
  BY <1>1, <1>2 DEF IdentityOf, Identity, Credentials, Memberships
<1> QED  BY <1>2, <1>3 DEF ActorSound, IdentityOf

(* An identity that was refused is not accepted again: its credential is not issued
   anew, and a change of its membership gives it another version. *)
LEMMA ActorKept ==
  ASSUME AccessAssumption, People, AccessNext, NEW a \in Identity, ActorSound(a)
  PROVE  ActorSound(a)' /\ (VerifiesActor(a)' => VerifiesActor(a))
<1>1. /\ a.cred \in Cred /\ a.member \in Member /\ a.version \in Nat /\ a.member # None
      /\ creds[a.cred].member = a.member /\ a.version <= members[a.member].version
  BY DEF Identity, Version, AccessAssumption, ActorSound
<1>2. creds \in [Cred -> Credentials] /\ members \in [Member -> Memberships] /\ today \in Nat
  BY DEF People, Days, AccessAssumption
<1>3. /\ creds[a.cred] \in Credentials /\ members[a.member] \in Memberships
      /\ members[a.member].version \in Nat /\ creds[a.cred].expires \in Nat
  BY <1>1, <1>2 DEF Memberships, Version, Credentials
<1>4. ASSUME members'[a.member] = members[a.member], creds'[a.cred] = creds[a.cred],
             today' \in Nat, today <= today'
      PROVE  ActorSound(a)' /\ (VerifiesActor(a)' => VerifiesActor(a))
  BY <1>1, <1>2, <1>3, <1>4 DEF ActorSound, VerifiesActor, ValidAt, IdentityOf
<1>5. CASE PeopleSame
  BY <1>2, <1>4, <1>5 DEF PeopleSame
<1>6. CASE DayPasses
  BY <1>2, <1>4, <1>6 DEF DayPasses
<1>7. ASSUME NEW k \in Cred, NEW m \in Member, NEW ttl \in TTL, IssueCredential(k, m, ttl)
      PROVE  ActorSound(a)' /\ (VerifiesActor(a)' => VerifiesActor(a))
  <2>1. k # a.cred
    BY <1>1, <1>7 DEF IssueCredential
  <2>2. creds'[a.cred] = creds[a.cred]
    BY <1>1, <1>2, <1>7, <2>1 DEF IssueCredential
  <2> QED  BY <1>2, <1>4, <1>7, <2>2 DEF IssueCredential
<1>8. ASSUME NEW k \in Cred, RevokeCredential(k)
      PROVE  ActorSound(a)' /\ (VerifiesActor(a)' => VerifiesActor(a))
  <2>1. CASE k # a.cred
    <3>1. creds'[a.cred] = creds[a.cred]
      BY <1>1, <1>2, <1>8, <2>1 DEF RevokeCredential
    <3> QED  BY <1>2, <1>4, <1>8, <3>1 DEF RevokeCredential
  <2>2. CASE k = a.cred
    <3>1. creds'[a.cred].revoked /\ creds'[a.cred].member = creds[a.cred].member /\ members' = members
      BY <1>1, <1>2, <1>3, <1>8, <2>2 DEF RevokeCredential, Credentials
    <3> QED  BY <1>1, <3>1 DEF ActorSound, VerifiesActor, ValidAt
  <2> QED  BY <2>1, <2>2
<1>9. ASSUME NEW m \in Member, NEW active \in BOOLEAN, SetMembershipActive(m, active)
      PROVE  ActorSound(a)' /\ (VerifiesActor(a)' => VerifiesActor(a))
  <2>1. CASE m # a.member
    <3>1. members'[a.member] = members[a.member]
      BY <1>1, <1>2, <1>9, <2>1 DEF SetMembershipActive
    <3> QED  BY <1>2, <1>4, <1>9, <3>1 DEF SetMembershipActive
  <2>2. CASE m = a.member
    <3>1. members'[a.member].version = members[a.member].version + 1 /\ creds' = creds
      BY <1>1, <1>2, <1>9, <2>2 DEF SetMembershipActive
    <3>2. a.version < members'[a.member].version
      BY <1>1, <1>3, <3>1
    <3>3. ActorSound(a)'
      BY <1>1, <1>3, <3>1 DEF ActorSound
    <3>4. ~ VerifiesActor(a)'
      <4>1. IdentityOf(a.cred)'.version = members'[a.member].version
        BY <1>1, <3>1 DEF IdentityOf
      <4>2. IdentityOf(a.cred)' # a
        BY <1>1, <1>3, <3>1, <4>1
      <4> QED  BY <4>2 DEF VerifiesActor
    <3> QED  BY <3>3, <3>4
  <2> QED  BY <2>1, <2>2
<1> QED  BY <1>5, <1>6, <1>7, <1>8, <1>9, PeopleSteps
-----------------------------------------------------------------------------
(* What a connection of the device remembers afterwards: the row as it is, the row
   of before, or none. *)
LEMMA DeviceSidesKept ==
  ASSUME AccessAssumption, People, Drawn, SharesSound, AccessNext
  PROVE  deviceConn' \in [DeviceConn -> DeviceSides(drawn')]
<1>1. /\ drawn' \in Nat /\ device' \in Rows(drawn') /\ NoDevice \in Rows(drawn')
      /\ deviceConn \in [DeviceConn -> DeviceSides(drawn')]
  <2>1. drawn \in Nat /\ drawn' \in Nat /\ drawn <= drawn' /\ device' \in Rows(drawn')
    BY RowKeeps, RowSteps DEF Drawn, RowId, AccessAssumption
  <2>2. NoDevice \in Rows(drawn')
    BY <2>1 DEF NoDevice, Rows
  <2> QED  BY <2>1, <2>2, Widens DEF Drawn
<1>2. ASSUME NEW c \in DeviceConn, NEW d \in Rows(drawn'), deviceConn' = Changed(c, d)
      PROVE  deviceConn' \in [DeviceConn -> DeviceSides(drawn')]
  <2>1. [record |-> d, actor |-> None] \in DeviceSides(drawn')
    BY DEF DeviceSides
  <2> QED  BY <1>1, <1>2, <2>1 DEF Changed
<1>3. ASSUME NEW c \in DeviceConn, NEW a \in Identity \cup {None},
             deviceConn' = [deviceConn EXCEPT ![c].actor = a]
      PROVE  deviceConn' \in [DeviceConn -> DeviceSides(drawn')]
  <2>1. deviceConn[c] \in DeviceSides(drawn')
    BY <1>1
  <2>2. [deviceConn[c] EXCEPT !.actor = a] \in DeviceSides(drawn')
    BY <2>1 DEF DeviceSides
  <2> QED  BY <1>1, <1>3, <2>2
<1>4. CASE UNCHANGED deviceConn
  BY <1>1, <1>4
<1>5. ASSUME NEW c \in DeviceConn, RegisterDevice(c) \/ DeleteDevice(c) \/ Manage(c)
      PROVE  \/ \E d \in {device', NoDevice} : deviceConn' = Changed(c, d)
             \/ deviceConn' = [deviceConn EXCEPT ![c].actor = None]
  BY <1>5 DEF RegisterDevice, DeleteDevice, Manage, Claim, Transfer, ReplaceShare, Unshare, Refuse,
              Commits, Changed
<1>6. ASSUME NEW c \in DeviceConn, NEW access \in {"same", "new", "none"}, UpdateDevice(c, access)
      PROVE  deviceConn' = Changed(c, device')
  BY <1>6 DEF UpdateDevice
<1>7. ASSUME NEW c \in DeviceConn, NEW k \in Cred, Authenticate(c, k)
      PROVE  \E a \in Identity : deviceConn' = [deviceConn EXCEPT ![c].actor = a]
  BY <1>7, IdentityIs DEF Authenticate
<1> QED
  BY <1>1, <1>2, <1>3, <1>4, <1>5, <1>6, <1>7
    DEF AccessNext, DayPasses, IssueCredential, RevokeCredential, SetMembershipActive,
        AuthenticateClient, LoadDevice, Resolve, Leaves

LEMMA BindingTyped ==
  ASSUME NEW n \in Nat, NEW d \in Rows(n)
  PROVE  Binding(d) \in Bindings(n) /\ Binding(d).uid = d.uid /\ Binding(d).ownership = d.ownership
         /\ Binding(d).grant = (IF d.ownership = 0 THEN d.grant ELSE 0)
<1>1. d.uid \in 0..n /\ d.ownership \in 0..n /\ d.grant \in 0..n
  BY RowFields
<1>2. (IF d.ownership = 0 THEN d.grant ELSE 0) \in 0..n
  BY <1>1
<1> QED  BY <1>1, <1>2 DEF Binding, Bindings

(* What Resolve gives is of the row as it is and bears ids that were drawn. *)
LEMMA ResolvedTyped ==
  ASSUME AccessAssumption, Drawn, NEW a, NEW x \in Resolved(a)
  PROVE  x \in Authorizations(drawn)
<1>1. drawn \in Nat /\ Binding(device) \in Bindings(drawn)
  BY BindingTyped DEF Drawn, RowId, AccessAssumption
<1>2. CASE x = [binding |-> Binding(device), share |-> 0, perms |-> Operation, expires |-> 0]
  BY <1>1, <1>2 DEF Authorizations
<1>3. ASSUME NEW s \in shares,
             x = [binding |-> Binding(device), share |-> s.id, perms |-> s.perms, expires |-> s.expires]
      PROVE  x \in Authorizations(drawn)
  <2>1. s.id \in 0..drawn /\ s.perms \in SUBSET Operation /\ s.expires \in Nat
    BY DEF Drawn, SharesUpTo, AccessAssumption
  <2> QED  BY <1>1, <1>3, <2>1 DEF Authorizations
<1>4. \/ x = [binding |-> Binding(device), share |-> 0, perms |-> Operation, expires |-> 0]
      \/ \E s \in shares :
           x = [binding |-> Binding(device), share |-> s.id, perms |-> s.perms, expires |-> s.expires]
  BY DEF Resolved, SharesOf
<1> QED  BY <1>2, <1>3, <1>4

LEMMA ClientSidesKept ==
  ASSUME AccessAssumption, People, Drawn, SharesSound, AccessNext
  PROVE  /\ client' \in [Client -> ClientSides(drawn')]
         /\ \A x \in Client :
              \/ client'[x].actor \in {client[x].actor, None}
              \/ PeopleSame /\ \E k \in Cred : ValidAt(k) /\ client'[x].actor = IdentityOf(k)
<1>1. /\ drawn \in Nat /\ drawn' \in Nat /\ drawn <= drawn' /\ device \in Rows(drawn)
      /\ client \in [Client -> ClientSides(drawn)]
      /\ ClientSides(drawn) \subseteq ClientSides(drawn')
  <2>1. drawn \in Nat /\ drawn' \in Nat /\ drawn <= drawn' /\ device \in Rows(drawn)
    BY RowKeeps, RowSteps DEF Drawn, RowId, AccessAssumption
  <2> QED  BY <2>1, Widens DEF Drawn
<1>2. Binding(NoDevice) \in Bindings(drawn) /\ NoAuthorization \in Authorizations(drawn)
  <2>1. NoDevice \in Rows(drawn) /\ 0 \in 0..drawn
    BY <1>1 DEF NoDevice, Rows
  <2>2. Binding(NoDevice) \in Bindings(drawn)
    BY <1>1, <2>1, BindingTyped
  <2> QED  BY <2>1, <2>2 DEF NoAuthorization, Authorizations
<1>3. CASE UNCHANGED client
  BY <1>1, <1>3
<1>4. ASSUME NEW c \in Client, NEW y \in ClientSides(drawn), client' = [client EXCEPT ![c] = y],
             \/ y.actor \in {client[c].actor, None}
             \/ PeopleSame /\ \E k \in Cred : ValidAt(k) /\ y.actor = IdentityOf(k)
      PROVE  /\ client' \in [Client -> ClientSides(drawn')]
             /\ \A x \in Client :
                  \/ client'[x].actor \in {client[x].actor, None}
                  \/ PeopleSame /\ \E k \in Cred : ValidAt(k) /\ client'[x].actor = IdentityOf(k)
  <2>1. client'[c] = y /\ \A x \in Client : x # c => client'[x] = client[x]
    BY <1>1, <1>4
  <2>2. client' \in [Client -> ClientSides(drawn')]
    BY <1>1, <1>4
  <2> QED  BY <1>4, <2>1, <2>2
<1>5. ASSUME NEW c \in Client, NEW k \in Cred, AuthenticateClient(c, k)
      PROVE  \E y \in ClientSides(drawn) :
               client' = [client EXCEPT ![c] = y] /\ PeopleSame /\ y.actor = IdentityOf(k) /\ ValidAt(k)
  <2> DEFINE y == [client[c] EXCEPT !.actor = IdentityOf(k)]
  <2>1. IdentityOf(k) \in Identity /\ client[c] \in ClientSides(drawn)
    BY <1>1, <1>5, IdentityIs DEF AuthenticateClient
  <2>2. y \in ClientSides(drawn) /\ y.actor = IdentityOf(k)
    BY <2>1 DEF ClientSides
  <2>3. client' = [client EXCEPT ![c] = y] /\ PeopleSame /\ ValidAt(k)
    BY <1>5 DEF AuthenticateClient, PeopleSame
  <2> QED  BY <2>2, <2>3
<1>6. ASSUME NEW c \in Client, LoadDevice(c)
      PROVE  \E y \in ClientSides(drawn) : client' = [client EXCEPT ![c] = y] /\ y.actor = client[c].actor
  <2> DEFINE y == [client[c] EXCEPT !.loaded = Binding(device)]
  <2>1. client[c] \in ClientSides(drawn) /\ Binding(device) \in Bindings(drawn)
    BY <1>1, BindingTyped
  <2>2. y \in ClientSides(drawn) /\ y.actor = client[c].actor
    BY <2>1 DEF ClientSides
  <2>3. client' = [client EXCEPT ![c] = y]
    BY <1>6 DEF LoadDevice
  <2> QED  BY <2>2, <2>3
<1>7. ASSUME NEW c \in Client, Resolve(c)
      PROVE  \E y \in ClientSides(drawn) : client' = [client EXCEPT ![c] = y] /\ y.actor = client[c].actor
  <2>1. PICK h \in Authorizations(drawn) :
          client' = [client EXCEPT ![c].loaded = Binding(NoDevice), ![c].holds = h]
    <3>1. CASE \E a \in Resolved(client[c].actor) :
                 client' = [client EXCEPT ![c].loaded = Binding(NoDevice), ![c].holds = a]
      BY <3>1, ResolvedTyped
    <3>2. CASE client' = [client EXCEPT ![c].loaded = Binding(NoDevice), ![c].holds =
                  [binding |-> client[c].loaded, share |-> 0, perms |-> Operation, expires |-> 0]]
      <4>1. [binding |-> client[c].loaded, share |-> 0, perms |-> Operation, expires |-> 0]
              \in Authorizations(drawn)
        BY <1>1 DEF ClientSides, Authorizations
      <4> QED  BY <3>2, <4>1
    <3> QED  BY <1>7, <3>1, <3>2 DEF Resolve
  <2> DEFINE y == [[client[c] EXCEPT !.loaded = Binding(NoDevice)] EXCEPT !.holds = h]
  <2>2. client[c] \in ClientSides(drawn)
    BY <1>1
  <2>3. y \in ClientSides(drawn) /\ y.actor = client[c].actor
    BY <1>2, <2>2 DEF ClientSides
  <2>4. client' = [client EXCEPT ![c] = y]
    BY <1>1, <2>1
  <2> QED  BY <2>3, <2>4
<1>8. ASSUME NEW c \in Client, Leaves(c)
      PROVE  \E y \in ClientSides(drawn) : client' = [client EXCEPT ![c] = y] /\ y.actor = None
  <2> DEFINE y == [actor |-> None, loaded |-> Binding(NoDevice), holds |-> NoAuthorization]
  <2>1. y \in ClientSides(drawn)
    BY <1>2 DEF ClientSides
  <2> QED  BY <1>8, <2>1 DEF Leaves
<1>9. \/ UNCHANGED client
      \/ \E c \in Client, k \in Cred : AuthenticateClient(c, k)
      \/ \E c \in Client : LoadDevice(c) \/ Resolve(c) \/ Leaves(c)
  BY DEF AccessNext, DayPasses, IssueCredential, RevokeCredential, SetMembershipActive,
         RegisterDevice, DeleteDevice, Manage, Claim, Transfer, ReplaceShare, Unshare, Refuse, Commits,
         UpdateDevice, Authenticate
<1> QED  BY <1>3, <1>4, <1>5, <1>6, <1>7, <1>8, <1>9

LEMMA AccessInductive ==
  ASSUME AccessAssumption, AccessIInv, [AccessNext]_accessVars
  PROVE  AccessIInv'
<1>1. CASE UNCHANGED accessVars
  BY <1>1 DEF accessVars, AccessIInv, People, Drawn, SharesSound, ActorSound
<1>2. CASE AccessNext
  <2>1. People'
    BY <1>2, PeopleKept DEF AccessIInv
  <2>2. Drawn' /\ SharesSound'
    BY <1>2, RowSteps, RowKeeps, DeviceSidesKept, ClientSidesKept DEF AccessIInv, Drawn
  <2>3. ASSUME NEW c \in Client, client'[c].actor # None PROVE ActorSound(client[c].actor)'
    <3>1. CASE client'[c].actor = client[c].actor
      <4>1. client[c].actor \in Identity /\ ActorSound(client[c].actor)
        BY <2>3, <3>1 DEF AccessIInv, Drawn, ClientSides
      <4>2. ASSUME NEW a \in Identity, ActorSound(a) PROVE ActorSound(a)'
        BY <1>2, <4>2, ActorKept DEF AccessIInv
      <4>3. creds'[client[c].actor.cred].member = client[c].actor.member
            /\ client[c].actor.version <= members'[client[c].actor.member].version
        BY <4>1, <4>2 DEF ActorSound
      <4> QED  BY <3>1, <4>3 DEF ActorSound
    <3>2. ASSUME PeopleSame, NEW k \in Cred, ValidAt(k), client'[c].actor = IdentityOf(k)
          PROVE  ActorSound(client[c].actor)'
      <4>1. ActorSound(IdentityOf(k))
        BY <3>2, IdentityIs DEF AccessIInv
      <4> QED  BY <3>2, <4>1 DEF ActorSound, PeopleSame
    <3> QED  BY <1>2, <2>3, <3>1, <3>2, ClientSidesKept DEF AccessIInv
  <2> QED  BY <2>1, <2>2, <2>3 DEF AccessIInv
<1> QED  BY <1>1, <1>2

(* Shares belong to the ownership of the device, one for a member, and never are more
   than the limit (manage.go replaceShare), for any members, credentials, connections,
   clients, lifetimes and limits. *)
THEOREM AccessSafe == ASSUME AccessAssumption PROVE AccessSpec => []AccessInv
<1>1. AccessInit => AccessIInv
  BY AccessInitially
<1>2. AccessIInv /\ [AccessNext]_accessVars => AccessIInv'
  BY AccessInductive
<1>3. ASSUME AccessIInv PROVE AccessInv
  <2>1. \A n \in RowId : 0..n \subseteq RowId
    BY DEF RowId, AccessAssumption
  <2>2. {device.uid, device.grant, device.ownership, drawn} \subseteq RowId
        /\ device.owner \in Member \cup {None}
    BY <1>3, <2>1, RowFields DEF AccessIInv, Drawn
  <2>3. shares \subseteq Share
    BY <1>3, <2>1 DEF AccessIInv, Drawn, SharesUpTo, Share
  <2>4. AccessTypeOK
    BY <1>3, <2>2, <2>3
      DEF AccessTypeOK, AccessIInv, People, Drawn, Memberships, Credentials, DeviceSides, ClientSides
  <2> QED  BY <1>3, <2>4 DEF AccessInv, AccessIInv, SharesSound
<1> QED  BY <1>1, <1>2, <1>3, PTL DEF AccessSpec
-----------------------------------------------------------------------------
(* A binding that is in force after a step and bears ids drawn before it was in force
   before the step. *)
LEMMA BindingBack ==
  ASSUME AccessAssumption, Drawn, SharesSound, RowStep, NEW b \in Bindings(drawn),
         b = Binding(device'), b.uid # 0, b.ownership # 0 \/ b.grant # 0
  PROVE  /\ Binding(device) = b /\ device'.uid = device.uid
         /\ device'.ownership = device.ownership /\ device'.owner = device.owner
<1>1. /\ drawn \in Nat /\ device \in Rows(drawn) /\ NewId = drawn + 1
      /\ b.uid \in 0..drawn /\ b.ownership \in 0..drawn /\ b.grant \in 0..drawn
  BY DEF Drawn, RowId, AccessAssumption, NewId, Bindings
<1>2. /\ b.uid = device'.uid /\ b.ownership = device'.ownership
      /\ b.grant = (IF device'.ownership = 0 THEN device'.grant ELSE 0)
  BY DEF Binding
<1>3. CASE UNCHANGED device
  BY <1>3
<1>4. CASE device' = [NoDevice EXCEPT !.uid = NewId]
  <2>1. device'.uid = drawn + 1
    BY <1>1, <1>4 DEF NoDevice
  <2> QED  BY <1>1, <1>2, <2>1
<1>5. ASSUME NEW g, g = NewId \/ g = 0, device' = [device EXCEPT !.grant = g]
      PROVE  /\ Binding(device) = b /\ device'.uid = device.uid
             /\ device'.ownership = device.ownership /\ device'.owner = device.owner
  <2>1. /\ device'.uid = device.uid /\ device'.ownership = device.ownership
        /\ device'.owner = device.owner /\ device'.grant = g
    BY <1>1, <1>5 DEF Rows
  <2>2. device.ownership # 0
    BY <1>1, <1>2, <1>5, <2>1
  <2> QED  BY <2>1, <2>2 DEF Binding
<1>6. CASE device' = NoDevice
  BY <1>2, <1>6 DEF NoDevice
<1>7. ASSUME NEW m \in Member, SetOwner(m) PROVE FALSE
  <2>1. device'.ownership = drawn + 1
    BY <1>1, <1>7 DEF SetOwner, Rows
  <2> QED  BY <1>1, <1>2, <2>1
<1> QED  BY <1>3, <1>4, <1>5, <1>6, <1>7 DEF RowStep

LEMMA ShareBack ==
  ASSUME AccessAssumption, Drawn, RowStep, NEW s \in shares', s.id \in 0..drawn
  PROVE  s \in shares
<1>1. CASE shares' \subseteq shares
  BY <1>1
<1>2. ASSUME NEW m \in Member, NEW perms \in Permits, NEW ttl \in TTL,
             shares' = Others(m) \cup {Added(m, perms, ttl)}
      PROVE  s \in shares
  <2>1. Added(m, perms, ttl).id = drawn + 1 /\ drawn \in Nat
    BY DEF Added, NewId, Drawn, RowId, AccessAssumption
  <2>2. s # Added(m, perms, ttl)
    BY <2>1
  <2> QED  BY <1>2, <2>2 DEF Others
<1>3. shares' \subseteq shares
      \/ \E m \in Member, perms \in Permits, ttl \in TTL :
           shares' = Others(m) \cup {Added(m, perms, ttl)}
  BY DEF RowStep, SetOwner
<1> QED  BY <1>1, <1>2, <1>3

(* What an identity is given to a device, in a form that shows its parts. *)
LEMMA ResolvedIs ==
  ASSUME NEW a, NEW x
  PROVE  x \in Resolved(a) <=>
           /\ device.uid # 0 /\ device.ownership # 0 /\ VerifiesActor(a)
           /\ \/ /\ device.owner = a.member
                 /\ x = [binding |-> Binding(device), share |-> 0, perms |-> Operation, expires |-> 0]
              \/ /\ device.owner # a.member
                 /\ \E s \in shares :
                      /\ s.member = a.member /\ s.expires > today
                      /\ x = [binding |-> Binding(device), share |-> s.id, perms |-> s.perms,
                              expires |-> s.expires]
  BY DEF Resolved, OwnedBy, SharesOf

(* What is given after a step, to who signed in before it, was given before it. *)
LEMMA GivenBack ==
  ASSUME AccessAssumption, AccessIInv, AccessNext, NEW a \in Identity, ActorSound(a),
         NEW x \in Authorizations(drawn), x.binding.ownership # 0, x \in Resolved(a)'
  PROVE  x \in Resolved(a)
<1>1. RowStep /\ Drawn /\ SharesSound /\ People /\ People'
  BY RowSteps, PeopleKept DEF AccessIInv
<1>2. /\ device'.uid # 0 /\ device'.ownership # 0 /\ VerifiesActor(a)'
      /\ \/ /\ device'.owner = a.member
            /\ x = [binding |-> Binding(device'), share |-> 0, perms |-> Operation, expires |-> 0]
         \/ /\ device'.owner # a.member
            /\ \E s \in shares' :
                 /\ s.member = a.member /\ s.expires > today'
                 /\ x = [binding |-> Binding(device'), share |-> s.id, perms |-> s.perms,
                         expires |-> s.expires]
  BY DEF Resolved, OwnedBy, SharesOf, Binding
<1>3. x.binding = Binding(device') /\ x.binding \in Bindings(drawn) /\ x.binding.uid # 0
  BY <1>2 DEF Authorizations, Binding
<1>4. /\ Binding(device) = Binding(device') /\ device'.uid = device.uid
      /\ device'.ownership = device.ownership /\ device'.owner = device.owner
  BY <1>1, <1>3, BindingBack
<1>5. VerifiesActor(a)
  BY <1>1, <1>2, ActorKept
<1>6. CASE device'.owner = a.member
  BY <1>2, <1>4, <1>5, <1>6, ResolvedIs
<1>7. CASE device'.owner # a.member
  <2>1. PICK s \in shares' :
          /\ s.member = a.member /\ s.expires > today'
          /\ x = [binding |-> Binding(device'), share |-> s.id, perms |-> s.perms, expires |-> s.expires]
    BY <1>2, <1>7
  <2>2. s.id \in 0..drawn
    BY <2>1 DEF Authorizations
  <2>3. s \in shares
    BY <1>1, <2>2, ShareBack
  <2>4. s.expires > today
    <3>1. today \in Nat /\ today' \in Nat /\ today <= today' /\ s.expires \in Nat
      <4>1. today' = today \/ today' = today + 1
        BY PeopleSteps DEF PeopleSame, DayPasses, IssueCredential, RevokeCredential, SetMembershipActive
      <4> QED  BY <1>1, <2>3, <4>1 DEF People, Days, AccessAssumption, Drawn, SharesUpTo
    <3> QED  BY <2>1, <3>1
  <2> QED  BY <1>2, <1>4, <1>5, <1>7, <2>1, <2>3, <2>4, ResolvedIs
<1> QED  BY <1>6, <1>7

LEMMA NeverRevived ==
  ASSUME AccessAssumption, AccessIInv, AccessNext, NEW c \in Client, NEW op \in Operation,
         client'[c] = client[c], Allowed(c, op)'
  PROVE  Allowed(c, op)
<1>1. PICK a, x : a = client[c].actor /\ x = client[c].holds
  OBVIOUS
<1>2. a = client'[c].actor /\ x = client'[c].holds
  BY <1>1
<1>3. /\ a \in Identity \cup {None} /\ x \in Authorizations(drawn)
      /\ a # None => a \in Identity /\ ActorSound(a)
  BY <1>1 DEF AccessIInv, Drawn, ClientSides
<1>4. CASE x.binding.ownership # 0
  <2>1. x \in Resolved(a)' /\ op \in x.perms
    BY <1>2, <1>4 DEF Allowed, Verify
  <2>2. a # None
    BY <2>1 DEF Resolved, VerifiesActor
  <2>3. x \in Resolved(a)
    BY <1>3, <1>4, <2>1, <2>2, GivenBack
  <2> QED  BY <1>1, <1>4, <2>1, <2>3 DEF Allowed, Verify
<1>5. CASE x.binding.ownership = 0
  <2>1. /\ Matches(x.binding, Binding(device)') /\ op \in x.perms
        /\ a # None => VerifiesActor(a)'
    BY <1>2, <1>5 DEF Allowed
  <2>2. x.binding = Binding(device)' /\ x.binding.uid # 0 /\ x.binding.grant # 0
    BY <1>5, <2>1 DEF Matches
  <2>3. RowStep /\ Drawn /\ SharesSound /\ x.binding \in Bindings(drawn)
    BY <1>3, RowSteps DEF AccessIInv, Authorizations
  <2>4. Binding(device)' = Binding(device')
    BY DEF Binding
  <2>5. Binding(device) = x.binding
    BY <2>2, <2>3, <2>4, BindingBack
  <2>6. a # None => VerifiesActor(a)
    BY <1>3, <2>1, ActorKept DEF AccessIInv
  <2> QED  BY <1>1, <1>5, <2>1, <2>2, <2>5, <2>6 DEF Allowed, Matches
<1> QED  BY <1>4, <1>5

(* Only the owner's request moves an ownership or a share of a device that stays. *)
LEMMA OwnerAsks ==
  ASSUME AccessAssumption, AccessIInv, AccessNext, device.ownership # 0, device'.uid # 0,
         \/ device'.ownership # device.ownership \/ device'.owner # device.owner
         \/ shares' # shares
  PROVE  \E c \in DeviceConn :
           /\ deviceConn[c].actor # None /\ deviceConn'[c].actor = None
           /\ deviceConn[c].actor.member = device.owner
           /\ VerifiesActor(deviceConn[c].actor)
<1>1. device.uid # 0 /\ device \in Rows(drawn) /\ deviceConn \in [DeviceConn -> DeviceSides(drawn)]
  BY DEF AccessIInv, SharesSound, Drawn
<1>2. ASSUME NEW c \in DeviceConn, MayManage(c), Commits(c)
      PROVE  /\ deviceConn[c].actor # None /\ deviceConn'[c].actor = None
             /\ deviceConn[c].actor.member = device.owner
             /\ VerifiesActor(deviceConn[c].actor)
  <2>1. VerifiesActor(deviceConn[c].actor) /\ deviceConn[c].actor.member = device.owner
    BY <1>2 DEF MayManage, OwnedBy
  <2>2. deviceConn'[c].actor = None
    BY <1>1, <1>2 DEF Commits, Changed
  <2> QED  BY <2>1, <2>2 DEF VerifiesActor
<1>3. ASSUME NEW c \in DeviceConn, RegisterDevice(c) PROVE FALSE
  BY <1>1, <1>3 DEF RegisterDevice
<1>4. ASSUME NEW c \in DeviceConn, DeleteDevice(c) PROVE FALSE
  BY <1>4 DEF DeleteDevice, NoDevice
<1>5. ASSUME NEW c \in DeviceConn, NEW access \in {"same", "new", "none"}, UpdateDevice(c, access)
      PROVE  FALSE
  BY <1>1, <1>5 DEF UpdateDevice, Rows
<1>6. ASSUME NEW c \in DeviceConn, Manage(c) PROVE MayManage(c) /\ Commits(c)
  BY <1>6 DEF Manage, Claim, Transfer, ReplaceShare, Unshare, Refuse
<1>7. \E c \in DeviceConn : MayManage(c) /\ Commits(c)
  BY <1>3, <1>4, <1>5, <1>6
    DEF AccessNext, DayPasses, IssueCredential, RevokeCredential, SetMembershipActive,
        Authenticate, AuthenticateClient, LoadDevice, Resolve, Leaves
<1> QED  BY <1>2, <1>7

(* A right that was refused stays refused, whatever is restored afterwards, and only
   the owner of a device, signed in and valid at that moment, gives or takes rights to
   it (authorization.go, manage.go), for any members, credentials, connections,
   clients and limits. *)
THEOREM RightsKept == ASSUME AccessAssumption PROVE AccessSpec => AccessChanges
<1>1. AccessInit => AccessIInv
  BY AccessInitially
<1>2. AccessIInv /\ [AccessNext]_accessVars => AccessIInv'
  BY AccessInductive
<1> DEFINE Kept == \A c \in Client, op \in Operation :
                      client'[c] = client[c] /\ client[c].holds # NoAuthorization /\ ~Allowed(c, op)
                        => ~Allowed(c, op)'
           Managed == (device.ownership # 0 /\ device'.uid # 0
                        /\ (device'.ownership # device.ownership \/ device'.owner # device.owner
                            \/ shares' # shares))
                       => \E c \in DeviceConn :
                            /\ deviceConn[c].actor # None /\ deviceConn'[c].actor = None
                            /\ deviceConn[c].actor.member = device.owner
                            /\ VerifiesActor(deviceConn[c].actor)
<1>3. ASSUME AccessIInv, [AccessNext]_accessVars PROVE [Kept]_accessVars /\ [Managed]_accessVars
  <2>1. CASE AccessNext
    BY <1>3, <2>1, NeverRevived, OwnerAsks
  <2> QED  BY <1>3, <2>1
<1>4. AccessIInv /\ [AccessNext]_accessVars => [Kept]_accessVars /\ [Managed]_accessVars
  BY <1>3
<1> HIDE DEF Kept, Managed
<1>5. AccessSpec => [][Kept]_accessVars /\ [][Managed]_accessVars
  BY <1>1, <1>2, <1>4, PTL DEF AccessSpec
<1> QED  BY <1>5 DEF AccessChanges, RevokedForGood, ManagedByOwner, Kept, Managed
=============================================================================
