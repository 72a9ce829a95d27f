--------------------------- MODULE ClientPoolProofs ---------------------------
(***************************************************************************)
(* Proofs about ClientPool: one dial for a key, a pool of the present      *)
(* identity, no connection without an owner, and calls that keep the       *)
(* identity they began under, for any calls, devices, grants, tokens and   *)
(* Relays and any number of changes.                                       *)
(***************************************************************************)
EXTENDS ClientPool, TLAPS

Dials == {c \in Call : call[c] \in {"dialing", "dialed"}}
Early == {"new", "looking", "waiting", "dialing"}

(* Where a call is says what it has captured, and that no connection bears its
   name before it dialled one. *)
CallSound(c) ==
  /\ call[c] = "new" => key[c] = None
  /\ call[c] \in {"looking", "waiting"} => asked[c].grant # None
  /\ call[c] \in {"waiting", "dialing", "dialed", "using", "done"} => key[c] # None
  /\ call[c] \in Early => conn[c] = "none"
  /\ call[c] = "using" => uses[c] # None

(* A connection in the pool was published by its call, and nothing that was never
   opened is in the pool, closed or read. *)
ConnSound(l) ==
  /\ conn[l] = "none" => l \notin pool \cup closing /\ reader[l] = "none"
  /\ l \in pool => call[l] \in {"using", "done"}

(* What a call uses was dialled under its own key. *)
UseSound(c) ==
  uses[c] # None =>
    /\ call[c] \in {"using", "done"} /\ conn[uses[c]] # "none" /\ key[uses[c]] = key[c]

Sound == \A c \in Call : CallSound(c) /\ ConnSound(c) /\ UseSound(c)

IInv == PoolInv /\ generation <= changes /\ Sound
-----------------------------------------------------------------------------
LEMMA Initially == ASSUME Init PROVE IInv
<1>1. TypeOK
  <2>1. asked \in [Call -> [target: Target, grant: Grant \cup {None}]]
    BY DEF Init
  <2>2. ensuring = {key[c] : c \in {x \in Call : call[x] \in {"dialing", "dialed"}}}
    BY DEF Init
  <2>3. 0 \in 0..MaxChange
    BY PoolAssumption
  <2> QED  BY <2>1, <2>2, <2>3 DEF Init, TypeOK
<1>2. OneDialPerKey /\ PoolIsCurrent /\ NoLinkForgotten
  BY DEF Init, OneDialPerKey, PoolIsCurrent, NoLinkForgotten
<1>3. Sound
  BY DEF Init, Sound, CallSound, ConnSound, UseSound, Early
<1> QED  BY <1>1, <1>2, <1>3 DEF IInv, PoolInv, Init

(* Who dials, and under which keys, is as it was. *)
LEMMA SameDials ==
  ASSUME TypeOK, UNCHANGED ensuring, \A c \in Call : c \in Dials <=> c \in Dials',
         \A c \in Dials : key'[c] = key[c]
  PROVE  ensuring' = {key'[c] : c \in {x \in Call : call'[x] \in {"dialing", "dialed"}}}
BY DEF TypeOK, Dials

(* One call that moves, and does not start or end a dial. *)
LEMMA OneMoves ==
  ASSUME TypeOK, NEW c \in Call, NEW s \in {"new", "looking", "waiting", "dialing", "dialed", "using", "failed", "done"},
         call' = [call EXCEPT ![c] = s]
  PROVE  /\ call' \in [Call -> {"new", "looking", "waiting", "dialing", "dialed", "using", "failed", "done"}]
         /\ call'[c] = s /\ \A x \in Call : x # c => call'[x] = call[x]
BY DEF TypeOK

(* The pool loses links, and every one of them is to be closed. *)
Leaves(gone) == pool' = pool \ gone /\ closing' = closing \cup gone
-----------------------------------------------------------------------------
(* The steps of a call. *)
LEMMA BeginStep == ASSUME IInv, NEW c \in Call, Begin(c) PROVE IInv'
<1> USE DEF IInv, PoolInv
<1>1. /\ call[c] = "new" /\ peer[asked[c].target] \in Grant
      /\ asked' = [asked EXCEPT ![c].grant = peer[asked[c].target]]
      /\ call' = [call EXCEPT ![c] = "looking"]
      /\ UNCHANGED <<identity, stopped, key, uses, ensuring, pool, links, closing>>
  BY DEF Begin, TypeOK
<1>2. asked' \in [Call -> [target: Target, grant: Grant \cup {None}]] /\ asked'[c].grant # None
      /\ \A x \in Call : x # c => asked'[x] = asked[x]
  BY <1>1, PoolAssumption DEF TypeOK
<1>3. /\ call' \in [Call -> {"new", "looking", "waiting", "dialing", "dialed", "using", "failed", "done"}]
      /\ call'[c] = "looking" /\ \A x \in Call : x # c => call'[x] = call[x]
  BY <1>1, OneMoves
<1>4. ensuring' = {key'[x] : x \in {y \in Call : call'[y] \in {"dialing", "dialed"}}}
  BY <1>1, <1>3, SameDials DEF Dials
<1>5. TypeOK'
  BY <1>1, <1>2, <1>3, <1>4 DEF TypeOK, identity, links
<1>6. OneDialPerKey' /\ PoolIsCurrent' /\ NoLinkForgotten'
  BY <1>1, <1>3 DEF OneDialPerKey, PoolIsCurrent, NoLinkForgotten, identity, links
<1>7. Sound'
  BY <1>1, <1>2, <1>3 DEF Sound, CallSound, ConnSound, UseSound, Early, links
<1> QED  BY <1>1, <1>5, <1>6, <1>7 DEF identity

LEMMA LookStep == ASSUME IInv, NEW c \in Call, Look(c) PROVE IInv'
<1> USE DEF IInv, PoolInv
<1> DEFINE k == KeyNow(c)
<1>1. /\ call[c] = "looking" /\ UNCHANGED <<identity, stopped, asked, links>>
      /\ CallSound(c) /\ ConnSound(c) /\ UseSound(c) /\ uses[c] = None
  BY DEF Look, Sound, UseSound
<1>2. k \in Key /\ k # None
  BY <1>1, PoolAssumption DEF KeyNow, Key, CallSound, TypeOK
<1>3. CASE Changed(c)
  <2>1. call' = [call EXCEPT ![c] = "failed"] /\ UNCHANGED <<key, uses, ensuring, pool, closing>>
    BY <1>3 DEF Look
  <2>2. /\ call' \in [Call -> {"new", "looking", "waiting", "dialing", "dialed", "using", "failed", "done"}]
        /\ call'[c] = "failed" /\ \A x \in Call : x # c => call'[x] = call[x]
    BY <2>1, OneMoves
  <2>3. ensuring' = {key'[x] : x \in {y \in Call : call'[y] \in {"dialing", "dialed"}}}
    BY <1>1, <2>1, <2>2, SameDials DEF Dials
  <2>4. TypeOK'
    BY <1>1, <2>1, <2>2, <2>3 DEF TypeOK, identity, links
  <2>5. OneDialPerKey' /\ PoolIsCurrent' /\ NoLinkForgotten'
    BY <1>1, <2>1, <2>2 DEF OneDialPerKey, PoolIsCurrent, NoLinkForgotten, identity, links
  <2>6. Sound'
    BY <1>1, <2>1, <2>2 DEF Sound, CallSound, ConnSound, UseSound, Early, links
  <2> QED  BY <1>1, <2>4, <2>5, <2>6 DEF identity
<1>4. CASE ~ Changed(c)
  <2>1. /\ LookAs(c, k) /\ key' = [key EXCEPT ![c] = k] /\ key[c] \in {None, k}
    BY <1>4 DEF Look, LookAs, Changed
  <2>2. /\ key' \in [Call -> Key \cup {None}] /\ key'[c] = k
        /\ \A x \in Call : x # c => key'[x] = key[x]
    BY <1>2, <2>1 DEF TypeOK
  <2>3. /\ c \notin Dials /\ pool \subseteq Call /\ \A l \in pool : l # c /\ key'[l] = key[l]
        /\ \A x \in Call : uses[x] # None =>
             x # c /\ uses[x] \in Call /\ key'[uses[x]] = key[uses[x]]
    <3>1. c \notin Dials /\ c \notin pool /\ pool \subseteq Call /\ conn[c] = "none"
      BY <1>1 DEF ConnSound, CallSound, Early, Dials, TypeOK
    <3>2. ASSUME NEW x \in Call, uses[x] # None
          PROVE  x # c /\ uses[x] \in Call /\ uses[x] # c
      BY <1>1, <3>1, <3>2 DEF Sound, UseSound, TypeOK
    <3> QED  BY <2>2, <3>1, <3>2
  <2>4. CASE Stale(k) # {}
    <3>1. pool' = pool \ Stale(k) /\ closing' = closing \cup Stale(k) /\ Stale(k) \subseteq pool
          /\ UNCHANGED <<call, uses, ensuring>>
      BY <2>1, <2>4 DEF LookAs, Stale
    <3>2. ensuring' = {key'[x] : x \in {y \in Call : call'[y] \in {"dialing", "dialed"}}}
      BY <2>2, <2>3, <3>1, SameDials DEF Dials
    <3>3. TypeOK'
      BY <1>1, <2>2, <3>1, <3>2 DEF TypeOK, identity, links
    <3>4. OneDialPerKey'
      BY <1>1, <2>2, <2>3, <3>1 DEF OneDialPerKey
    <3>5. PoolIsCurrent' /\ NoLinkForgotten'
      BY <1>1, <2>2, <2>3, <3>1 DEF PoolIsCurrent, NoLinkForgotten, identity, links
    <3>6. Sound'
      BY <1>1, <1>2, <2>2, <2>3, <3>1 DEF Sound, CallSound, ConnSound, UseSound, Early, links
    <3> QED  BY <1>1, <3>3, <3>4, <3>5, <3>6 DEF identity
  <2>5. CASE Stale(k) = {} /\ Pooled(k) # {}
    <3>1. PICK l \in Pooled(k) : Get(c, l)
      BY <2>1, <2>5 DEF LookAs
    <3>2. /\ l \in pool /\ key[l] = k /\ l # c /\ l \in Call /\ conn[l] # "none"
          /\ call' = [call EXCEPT ![c] = "using"] /\ uses' = [uses EXCEPT ![c] = l]
          /\ UNCHANGED <<ensuring, pool, closing>> /\ l # None
      BY <2>3, <3>1, PoolAssumption DEF Pooled, Get, TypeOK, Sound, ConnSound
    <3>3. /\ call' \in [Call -> {"new", "looking", "waiting", "dialing", "dialed", "using", "failed", "done"}]
          /\ call'[c] = "using" /\ \A x \in Call : x # c => call'[x] = call[x]
      BY <3>2, OneMoves
    <3>4. /\ uses' \in [Call -> Call \cup {None}] /\ uses'[c] = l
          /\ \A x \in Call : x # c => uses'[x] = uses[x]
      BY <3>2 DEF TypeOK
    <3>5. ensuring' = {key'[x] : x \in {y \in Call : call'[y] \in {"dialing", "dialed"}}}
      BY <2>2, <2>3, <3>2, <3>3, SameDials DEF Dials
    <3>6. TypeOK'
      BY <1>1, <2>2, <3>2, <3>3, <3>4, <3>5 DEF TypeOK, identity, links
    <3>7. OneDialPerKey'
      BY <1>1, <2>2, <2>3, <3>2, <3>3 DEF OneDialPerKey
    <3>8. PoolIsCurrent' /\ NoLinkForgotten'
      BY <1>1, <2>2, <2>3, <3>2, <3>3 DEF PoolIsCurrent, NoLinkForgotten, identity, links
    <3>9. Sound'
      BY <1>1, <1>2, <2>2, <2>3, <3>2, <3>3, <3>4 DEF Sound, CallSound, ConnSound, UseSound, Early, links
    <3> QED  BY <1>1, <3>6, <3>7, <3>8, <3>9 DEF identity
  <2>6. CASE Stale(k) = {} /\ Pooled(k) = {} /\ Busy(k)
    <3>1. call' = [call EXCEPT ![c] = "waiting"] /\ UNCHANGED <<uses, ensuring, pool, closing>>
      BY <2>1, <2>6 DEF LookAs
    <3>2. /\ call' \in [Call -> {"new", "looking", "waiting", "dialing", "dialed", "using", "failed", "done"}]
          /\ call'[c] = "waiting" /\ \A x \in Call : x # c => call'[x] = call[x]
      BY <3>1, OneMoves
    <3>3. ensuring' = {key'[x] : x \in {y \in Call : call'[y] \in {"dialing", "dialed"}}}
      BY <2>2, <2>3, <3>1, <3>2, SameDials DEF Dials
    <3>4. TypeOK'
      BY <1>1, <2>2, <3>1, <3>2, <3>3 DEF TypeOK, identity, links
    <3>5. OneDialPerKey'
      BY <1>1, <2>2, <2>3, <3>1, <3>2 DEF OneDialPerKey
    <3>6. PoolIsCurrent' /\ NoLinkForgotten'
      BY <1>1, <2>2, <2>3, <3>1, <3>2 DEF PoolIsCurrent, NoLinkForgotten, identity, links
    <3>7. Sound'
      BY <1>1, <1>2, <2>2, <2>3, <3>1, <3>2 DEF Sound, CallSound, ConnSound, UseSound, Early, links
    <3> QED  BY <1>1, <3>4, <3>5, <3>6, <3>7 DEF identity
  <2>7. CASE Stale(k) = {} /\ Pooled(k) = {} /\ ~ Busy(k)
    <3>1. /\ call' = [call EXCEPT ![c] = "dialing"] /\ ensuring' = ensuring \cup {k}
          /\ UNCHANGED <<uses, pool, closing>>
      BY <2>1, <2>7 DEF LookAs
    <3>2. /\ call' \in [Call -> {"new", "looking", "waiting", "dialing", "dialed", "using", "failed", "done"}]
          /\ call'[c] = "dialing" /\ \A x \in Call : x # c => call'[x] = call[x]
      BY <3>1, OneMoves
    <3>3. k \notin ensuring /\ (\A x \in Dials : key[x] # k) /\ (\A x \in pool : key[x] # k)
      BY <2>7 DEF Busy, Pooled, TypeOK, Dials
    <3>4. ensuring' = {key'[x] : x \in {y \in Call : call'[y] \in {"dialing", "dialed"}}}
      <4>1. {y \in Call : call'[y] \in {"dialing", "dialed"}} = Dials \cup {c}
        BY <3>2 DEF Dials
      <4>2. ensuring = {key[x] : x \in Dials}
        BY DEF TypeOK, Dials
      <4> QED  BY <2>2, <2>3, <3>1, <4>1, <4>2
    <3>5. TypeOK'
      BY <1>1, <2>2, <3>1, <3>2, <3>4 DEF TypeOK, identity, links
    <3>6. OneDialPerKey'
      BY <1>1, <2>2, <2>3, <3>1, <3>2, <3>3 DEF OneDialPerKey, Dials
    <3>7. PoolIsCurrent' /\ NoLinkForgotten'
      BY <1>1, <2>2, <2>3, <3>1, <3>2 DEF PoolIsCurrent, NoLinkForgotten, identity, links
    <3>8. Sound'
      BY <1>1, <1>2, <2>2, <2>3, <3>1, <3>2 DEF Sound, CallSound, ConnSound, UseSound, Early, links
    <3> QED  BY <1>1, <3>5, <3>6, <3>7, <3>8 DEF identity
  <2> QED  BY <2>4, <2>5, <2>6, <2>7
<1> QED  BY <1>3, <1>4

LEMMA DialStep == ASSUME IInv, NEW c \in Call, Dial(c) PROVE IInv'
<1> USE DEF IInv, PoolInv
<1>1. /\ call[c] = "dialing" /\ call' = [call EXCEPT ![c] = "dialed"]
      /\ UNCHANGED <<identity, stopped, asked, key, uses, ensuring, pool, closing>>
      /\ conn[c] = "none" /\ reader[c] = "none" /\ c \notin pool \cup closing
  BY DEF Dial, Sound, CallSound, ConnSound, Early
<1>2. /\ call' \in [Call -> {"new", "looking", "waiting", "dialing", "dialed", "using", "failed", "done"}]
      /\ call'[c] = "dialed" /\ \A x \in Call : x # c => call'[x] = call[x]
  BY <1>1, OneMoves
<1>3. /\ conn' \in [Call -> {"none", "open", "broken", "closed"}]
      /\ reader' \in [Call -> {"none", "reading", "failing", "done"}]
      /\ conn'[c] = "none" => reader'[c] = "none"
      /\ \A x \in Call : x # c => conn'[x] = conn[x] /\ reader'[x] = reader[x]
  BY <1>1 DEF Dial, TypeOK, links
<1>4. ensuring' = {key'[x] : x \in {y \in Call : call'[y] \in {"dialing", "dialed"}}}
  BY <1>1, <1>2, SameDials DEF Dials
<1>5. TypeOK'
  BY <1>1, <1>2, <1>3, <1>4 DEF TypeOK, identity
<1>6. OneDialPerKey'
  BY <1>1, <1>2 DEF OneDialPerKey
<1>7. PoolIsCurrent' /\ NoLinkForgotten'
  BY <1>1, <1>2, <1>3 DEF PoolIsCurrent, NoLinkForgotten, identity
<1>8. ASSUME NEW x \in Call, uses[x] # None
      PROVE  x # c /\ conn'[uses[x]] # "none"
  BY <1>1, <1>3, <1>8 DEF Sound, UseSound, TypeOK
<1>9. Sound'
  BY <1>1, <1>2, <1>3, <1>8 DEF Sound, CallSound, ConnSound, UseSound, Early
<1> QED  BY <1>1, <1>5, <1>6, <1>7, <1>9 DEF identity

(* A dial that is published takes a place nobody has. *)
LEMMA PublishStep == ASSUME IInv, NEW c \in Call, Publish(c) PROVE IInv'
<1> USE DEF IInv, PoolInv
<1>1. /\ call[c] = "dialed" /\ ensuring' = ensuring \ {key[c]}
      /\ UNCHANGED <<identity, stopped, asked, key, links>>
      /\ CallSound(c) /\ ConnSound(c) /\ uses[c] = None /\ c \notin pool /\ key[c] \in Key
  BY DEF Publish, Ensured, Sound, ConnSound, UseSound, CallSound, TypeOK
<1>2. Pooled(key[c]) = {} /\ \A x \in Dials : x # c => key[x] # key[c]
  BY <1>1 DEF OneDialPerKey, Dials, Pooled, TypeOK
<1>3. PICK s \in {"using", "failed"} :
        /\ s = IF Publishable(c) THEN "using" ELSE "failed"
        /\ call' = [x \in Call |-> IF x = c THEN s ELSE IF x \in Woken(c) THEN "looking" ELSE call[x]]
  BY DEF Publish
<1>4. /\ call' \in [Call -> {"new", "looking", "waiting", "dialing", "dialed", "using", "failed", "done"}]
      /\ call'[c] = s
      /\ \A x \in Call : x # c =>
           call'[x] = call[x] \/ (call[x] = "waiting" /\ call'[x] = "looking" /\ key[x] = key[c])
  BY <1>1, <1>3 DEF TypeOK, Woken
<1>5. ensuring' = {key'[x] : x \in {y \in Call : call'[y] \in {"dialing", "dialed"}}}
  <2>1. {y \in Call : call'[y] \in {"dialing", "dialed"}} = Dials \ {c}
    BY <1>4 DEF Dials
  <2>2. ensuring = {key[x] : x \in Dials}
    BY DEF TypeOK, Dials
  <2> QED  BY <1>1, <1>2, <2>1, <2>2
<1>6. \A x \in Call : call'[x] = "looking" => asked[x].grant # None
  <2> SUFFICES ASSUME NEW x \in Call, call'[x] = "looking", call[x] = "waiting" PROVE asked[x].grant # None
    BY <1>3, <1>4 DEF Sound, CallSound
  <2> QED  BY DEF Sound, CallSound
<1>7. CASE Publishable(c)
  <2>1. s = "using" /\ pool' = pool \cup {c} /\ uses' = [uses EXCEPT ![c] = c] /\ UNCHANGED closing
    BY <1>2, <1>3, <1>7 DEF Publish
  <2>2. uses' \in [Call -> Call \cup {None}] /\ uses'[c] = c /\ \A x \in Call : x # c => uses'[x] = uses[x]
    BY <2>1 DEF TypeOK
  <2>3. TypeOK'
    BY <1>1, <1>4, <1>5, <2>1, <2>2 DEF TypeOK, identity, links
  <2>4. OneDialPerKey'
    BY <1>1, <1>2, <1>4, <2>1 DEF OneDialPerKey, Dials
  <2>5. PoolIsCurrent'
    BY <1>1, <1>7, <2>1 DEF PoolIsCurrent, Publishable, identity
  <2>6. NoLinkForgotten'
    BY <1>1, <1>4, <2>1 DEF NoLinkForgotten, links
  <2>7. Sound'
    BY <1>1, <1>4, <1>6, <1>7, <2>1, <2>2, PoolAssumption
    DEF Sound, CallSound, ConnSound, UseSound, Early, Publishable, links
  <2> QED  BY <1>1, <2>3, <2>4, <2>5, <2>6, <2>7 DEF identity
<1>8. CASE ~ Publishable(c)
  <2>1. s = "failed" /\ Refused(c) /\ UNCHANGED <<pool, uses>>
    BY <1>3, <1>8 DEF Publish
  <2>2. closing' = IF conn[c] = "none" THEN closing ELSE closing \cup {c}
    BY <2>1 DEF Refused
  <2>3. TypeOK'
    BY <1>1, <1>4, <1>5, <2>1, <2>2 DEF TypeOK, identity, links
  <2>4. OneDialPerKey'
    BY <1>1, <1>4, <2>1 DEF OneDialPerKey
  <2>5. PoolIsCurrent' /\ NoLinkForgotten'
    BY <1>1, <1>4, <2>1, <2>2 DEF PoolIsCurrent, NoLinkForgotten, identity, links
  <2>6. Sound'
    BY <1>1, <1>4, <1>6, <2>1, <2>2
    DEF Sound, CallSound, ConnSound, UseSound, Early, links
  <2> QED  BY <1>1, <2>3, <2>4, <2>5, <2>6 DEF identity
<1> QED  BY <1>7, <1>8

LEMMA WaitEndsStep == ASSUME IInv, NEW c \in Call, WaitEnds(c) PROVE IInv'
<1> USE DEF IInv, PoolInv
<1>1. /\ call[c] = "waiting" /\ call' = [call EXCEPT ![c] = "failed"]
      /\ UNCHANGED <<identity, stopped, asked, key, uses, ensuring, pool, links, closing>>
  BY DEF WaitEnds
<1>2. /\ call' \in [Call -> {"new", "looking", "waiting", "dialing", "dialed", "using", "failed", "done"}]
      /\ call'[c] = "failed" /\ \A x \in Call : x # c => call'[x] = call[x]
  BY <1>1, OneMoves
<1>3. ensuring' = {key'[x] : x \in {y \in Call : call'[y] \in {"dialing", "dialed"}}}
  BY <1>1, <1>2, SameDials DEF Dials
<1>4. TypeOK'
  BY <1>1, <1>2, <1>3 DEF TypeOK, identity, links
<1>5. OneDialPerKey' /\ PoolIsCurrent' /\ NoLinkForgotten'
  BY <1>1, <1>2 DEF OneDialPerKey, PoolIsCurrent, NoLinkForgotten, identity, links
<1>6. Sound'
  BY <1>1, <1>2 DEF Sound, CallSound, ConnSound, UseSound, Early, links
<1> QED  BY <1>1, <1>4, <1>5, <1>6 DEF identity

LEMMA UseEndsStep == ASSUME IInv, NEW c \in Call, UseEnds(c) PROVE IInv'
<1> USE DEF IInv, PoolInv
<1>1. /\ call[c] = "using" /\ call' = [call EXCEPT ![c] = "done"]
      /\ UNCHANGED <<identity, stopped, asked, key, uses, ensuring, links>>
      /\ uses[c] \in Call /\ conn[uses[c]] # "none"
  BY DEF UseEnds, Sound, CallSound, UseSound, TypeOK
<1>2. PICK gone \in SUBSET {uses[c]} : Leaves(gone)
  <2>1. Leaves({}) \/ Leaves({uses[c]})
    BY DEF UseEnds, Drop, Leaves
  <2> QED  BY <2>1
<1>3. /\ call' \in [Call -> {"new", "looking", "waiting", "dialing", "dialed", "using", "failed", "done"}]
      /\ call'[c] = "done" /\ \A x \in Call : x # c => call'[x] = call[x]
  BY <1>1, OneMoves
<1>4. ensuring' = {key'[x] : x \in {y \in Call : call'[y] \in {"dialing", "dialed"}}}
  BY <1>1, <1>3, SameDials DEF Dials
<1>5. TypeOK'
  BY <1>1, <1>2, <1>3, <1>4 DEF TypeOK, identity, links, Leaves
<1>6. OneDialPerKey' /\ PoolIsCurrent' /\ NoLinkForgotten'
  BY <1>1, <1>2, <1>3 DEF OneDialPerKey, PoolIsCurrent, NoLinkForgotten, identity, links, Leaves
<1>7. Sound'
  BY <1>1, <1>2, <1>3 DEF Sound, CallSound, ConnSound, UseSound, Early, links, Leaves
<1> QED  BY <1>1, <1>5, <1>6, <1>7 DEF identity
-----------------------------------------------------------------------------
(* The steps of connections: calls, keys and the identity stay as they are. *)
LEMMA LinkKeeps ==
  ASSUME IInv, UNCHANGED <<identity, stopped, call, asked, key, uses, ensuring>>,
         conn' \in [Call -> {"none", "open", "broken", "closed"}],
         reader' \in [Call -> {"none", "reading", "failing", "done"}],
         closing' \subseteq Call, pool' \subseteq pool,
         \A l \in Call : /\ conn'[l] = "none" <=> conn[l] = "none"
                         /\ conn[l] = "none" => reader'[l] = "none" /\ l \notin closing'
                         /\ conn'[l] = "open" => conn[l] = "open"
                         /\ conn'[l] = "open" /\ l \in pool \cup closing => l \in pool' \cup closing'
  PROVE  IInv'
<1> USE DEF IInv, PoolInv
<1>1. ensuring' = {key'[x] : x \in {y \in Call : call'[y] \in {"dialing", "dialed"}}}
  BY SameDials DEF Dials
<1>2. TypeOK'
  BY <1>1 DEF TypeOK, identity
<1>3. OneDialPerKey' /\ PoolIsCurrent' /\ NoLinkForgotten'
  BY DEF OneDialPerKey, PoolIsCurrent, NoLinkForgotten, identity
<1>4. Sound'
  <2> SUFFICES ASSUME NEW c \in Call PROVE CallSound(c)' /\ ConnSound(c)' /\ UseSound(c)'
    BY DEF Sound
  <2>1. CallSound(c) /\ ConnSound(c) /\ UseSound(c) /\ uses[c] \in Call \cup {None}
    BY DEF Sound, TypeOK
  <2> QED  BY <2>1 DEF CallSound, ConnSound, UseSound, Early
<1> QED  BY <1>2, <1>3, <1>4 DEF identity

(* Only what was opened is broken, closed, read or dropped. *)
LEMMA ConnStep ==
  ASSUME IInv, NEW l \in Call, LinkStep(l) \/ ConnBreaks(l) \/ HeartbeatDrops(l)
  PROVE  IInv'
<1> USE DEF IInv, PoolInv
<1>1. /\ conn \in [Call -> {"none", "open", "broken", "closed"}]
      /\ reader \in [Call -> {"none", "reading", "failing", "done"}]
      /\ pool \subseteq Call /\ closing \subseteq Call
      /\ \A x \in Call : conn[x] = "none" => x \notin pool \cup closing /\ reader[x] = "none"
  BY DEF TypeOK, Sound, ConnSound
<1>2. CASE ConnBreaks(l)
  BY <1>1, <1>2, LinkKeeps DEF ConnBreaks
<1>3. CASE Close(l)
  BY <1>1, <1>3, LinkKeeps DEF Close
<1>4. CASE ReadFails(l)
  BY <1>1, <1>4, LinkKeeps DEF ReadFails
<1>5. CASE ReaderDrops(l)
  BY <1>1, <1>5, LinkKeeps DEF ReaderDrops, Drop
<1>6. CASE HeartbeatDrops(l)
  BY <1>1, <1>6, LinkKeeps DEF HeartbeatDrops, Drop, links
<1> QED  BY <1>2, <1>3, <1>4, <1>5, <1>6 DEF LinkStep
-----------------------------------------------------------------------------
(* Changes of the identity and of peers: what leaves the pool is closed. *)
LEMMA Switch ==
  ASSUME IInv, NEW gone \in SUBSET pool, Leaves(gone),
         UNCHANGED <<call, asked, key, uses, ensuring, links>>,
         relay' \in Relay, token' \in Token, changes' \in 0..MaxChange,
         generation' \in 0..changes', switching' \in BOOLEAN,
         peer' \in [Target -> Grant \cup {None}],
         stopped' \in BOOLEAN, stopped => stopped', PoolIsCurrent'
  PROVE  IInv'
<1> USE DEF IInv, PoolInv
<1>1. ensuring' = {key'[x] : x \in {y \in Call : call'[y] \in {"dialing", "dialed"}}}
  BY SameDials DEF Dials
<1>2. generation' \in 0..MaxChange /\ generation' <= changes'
  BY PoolAssumption
<1>3. TypeOK'
  BY <1>1, <1>2 DEF TypeOK, links, Leaves
<1>4. OneDialPerKey' /\ NoLinkForgotten'
  BY DEF OneDialPerKey, NoLinkForgotten, links, Leaves, TypeOK
<1>5. Sound'
  BY DEF Sound, CallSound, ConnSound, UseSound, Early, links, Leaves
<1> QED  BY <1>2, <1>3, <1>4, <1>5

LEMMA ChangeStep ==
  ASSUME IInv,
         \/ \E t \in Token : SetAccount(t)
         \/ \E r \in Relay : SetRelay(r)
         \/ RelaySwitched
         \/ \E t \in Target, g \in Grant : AddPeer(t, g)
         \/ \E t \in Target : RemovePeer(t)
         \/ Stop
  PROVE  IInv'
<1> USE DEF IInv, PoolInv
<1>1. /\ relay \in Relay /\ token \in Token /\ changes \in 0..MaxChange /\ MaxChange \in Nat
      /\ generation \in 0..changes /\ generation \in Nat /\ switching \in BOOLEAN
      /\ peer \in [Target -> Grant \cup {None}] /\ stopped \in BOOLEAN /\ PoolIsCurrent
  BY PoolAssumption DEF TypeOK
<1>2. CASE \E t \in Token : SetAccount(t)
  <2>1. /\ Leaves(pool) /\ changes' \in 0..MaxChange /\ generation' \in 0..changes' /\ token' \in Token
        /\ UNCHANGED <<relay, peer, switching, stopped, call, asked, key, uses, ensuring, links>>
    BY <1>1, <1>2 DEF SetAccount, Change, ClearPool, Leaves
  <2>2. PoolIsCurrent'
    BY <2>1 DEF Leaves, PoolIsCurrent
  <2> QED  BY <1>1, <2>1, <2>2, Switch
<1>3. CASE \E r \in Relay : SetRelay(r)
  <2>1. /\ Leaves({}) /\ changes' \in 0..MaxChange /\ generation' \in 0..changes' /\ relay' \in Relay
        /\ switching' = TRUE
        /\ UNCHANGED <<token, generation, peer, stopped, call, asked, key, uses, ensuring, pool, links>>
    BY <1>1, <1>3 DEF SetRelay, Change, Leaves
  <2>2. PoolIsCurrent'
    BY <1>1, <2>1 DEF PoolIsCurrent
  <2> QED  BY <1>1, <2>1, <2>2, Switch
<1>4. CASE RelaySwitched
  <2>1. /\ Leaves(pool) /\ switching' = FALSE
        /\ UNCHANGED <<relay, token, generation, peer, changes, stopped, call, asked, key, uses, ensuring, links>>
    BY <1>4 DEF RelaySwitched, ClearPool, Leaves
  <2>2. PoolIsCurrent'
    BY <2>1 DEF Leaves, PoolIsCurrent
  <2> QED  BY <1>1, <2>1, <2>2, Switch
<1>5. CASE \E t \in Target, g \in Grant : AddPeer(t, g)
  <2>1. /\ Leaves({}) /\ changes' \in 0..MaxChange /\ generation' \in 0..changes'
        /\ peer' \in [Target -> Grant \cup {None}]
        /\ UNCHANGED <<relay, token, generation, switching, stopped, call, asked, key, uses, ensuring, pool, links>>
    BY <1>1, <1>5 DEF AddPeer, Change, Leaves
  <2>2. PoolIsCurrent'
    BY <1>1, <2>1 DEF PoolIsCurrent
  <2> QED  BY <1>1, <2>1, <2>2, Switch
<1>6. CASE \E t \in Target : RemovePeer(t)
  <2>1. PICK t \in Target : RemovePeer(t)
    BY <1>6
  <2>2. PICK gone \in SUBSET pool : Leaves(gone)
    BY <2>1 DEF RemovePeer, Leaves
  <2>3. /\ changes' \in 0..MaxChange /\ generation' \in 0..changes'
        /\ peer' \in [Target -> Grant \cup {None}]
        /\ UNCHANGED <<relay, token, generation, switching, stopped, call, asked, key, uses, ensuring, links>>
    BY <1>1, <2>1 DEF RemovePeer, Change
  <2>4. PoolIsCurrent'
    BY <1>1, <2>2, <2>3 DEF PoolIsCurrent, Leaves
  <2> QED  BY <1>1, <2>2, <2>3, <2>4, Switch
<1>7. CASE Stop
  <2>1. /\ Leaves({}) /\ stopped' = TRUE
        /\ UNCHANGED <<identity, call, asked, key, uses, ensuring, pool, links>>
    BY <1>7 DEF Stop, Leaves
  <2>2. PoolIsCurrent'
    BY <1>1, <2>1 DEF PoolIsCurrent, identity
  <2> QED  BY <1>1, <2>1, <2>2, Switch DEF identity
<1> QED  BY <1>2, <1>3, <1>4, <1>5, <1>6, <1>7

LEMMA Stutter == ASSUME IInv, UNCHANGED vars PROVE IInv'
<1>1. relay' \in Relay /\ UNCHANGED <<identity, stopped, call, asked, key, uses, ensuring, pool, links, closing>>
  BY DEF vars, IInv, PoolInv, TypeOK, identity
<1> QED  BY <1>1 DEF IInv, PoolInv, TypeOK, OneDialPerKey, PoolIsCurrent, NoLinkForgotten, Sound, CallSound,
            ConnSound, UseSound, Early, identity, links

LEMMA Inductive == ASSUME IInv, [Next]_vars PROVE IInv'
BY BeginStep, LookStep, DialStep, PublishStep, WaitEndsStep, UseEndsStep, ConnStep, ChangeStep, Stutter
DEF Next, CallStep, Idle

(* The pool, the dials and the links keep what they promise each other, for any
   calls, devices, grants, tokens and Relays and any number of changes
   (clientpool.go, ensureClient and dropClient). *)
THEOREM PoolSound == Spec => []PoolInv
<1>1. Init => IInv
  BY Initially
<1>2. IInv /\ [Next]_vars => IInv'
  BY Inductive
<1>3. IInv => PoolInv
  BY DEF IInv
<1> QED  BY <1>1, <1>2, <1>3, PTL DEF Spec
-----------------------------------------------------------------------------
(* A key once captured stays, and what is in use has the key of who uses it. *)
LEMMA KeyStays ==
  ASSUME IInv, [Next]_vars, NEW c \in Call
  PROVE  key[c] # None => key'[c] = key[c]
<1> USE DEF IInv, PoolInv
<1>1. CASE UNCHANGED key
  BY <1>1
<1>2. CASE \E x \in Call : Look(x)
  <2>1. PICK x \in Call : Look(x)
    BY <1>2
  <2>2. CASE Changed(x)
    BY <2>1, <2>2 DEF Look
  <2>3. CASE ~ Changed(x)
    <3>1. key' = [key EXCEPT ![x] = KeyNow(x)] /\ key[x] \in {None, KeyNow(x)}
      BY <2>1, <2>3 DEF Look, LookAs, Changed
    <3> QED  BY <3>1 DEF TypeOK
  <2> QED  BY <2>2, <2>3
<1>3. UNCHANGED key \/ \E x \in Call : Look(x)
  BY DEF Next, CallStep, LinkStep, Begin, Dial, Publish, WaitEnds, UseEnds, Close, ReadFails,
         ReaderDrops, ConnBreaks, HeartbeatDrops, SetAccount, SetRelay, RelaySwitched, AddPeer,
         RemovePeer, Stop, Idle, vars
<1> QED  BY <1>1, <1>2, <1>3

LEMMA UsesItsKey ==
  ASSUME IInv, [Next]_vars, NEW c \in Call, uses'[c] # None
  PROVE  key'[uses'[c]] = key[c] \/ key[c] = None
<1>1. IInv'
  BY Inductive
<1>2. key'[uses'[c]] = key'[c]
  BY <1>1 DEF IInv, Sound, UseSound
<1> QED  BY <1>2, KeyStays

(* For the same values: a call keeps the identity it began under, and gets only
   a connection that was dialled with it (clientpool.go, ensureClient). *)
THEOREM CallsKeepIdentity == Spec => KeepsIdentity
<1> DEFINE A == \A c \in Call :
      /\ key[c] # None => key'[c] = key[c]
      /\ uses'[c] # None => key'[uses'[c]] = key[c] \/ key[c] = None
<1>1. Init => IInv
  BY Initially
<1>2. IInv /\ [Next]_vars => IInv'
  BY Inductive
<1>3. IInv /\ [Next]_vars => [A]_vars
  BY KeyStays, UsesItsKey
<1>4. KeepsIdentity <=> [][A]_vars
  BY DEF KeepsIdentity
<1> HIDE DEF A
<1> QED  BY <1>1, <1>2, <1>3, <1>4, PTL DEF Spec
=============================================================================
