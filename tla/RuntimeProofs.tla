---------------------------- MODULE RuntimeProofs ----------------------------
(***************************************************************************)
(* Proofs about what a node runs and keeps beside its jobs: remote calls   *)
(* (RemoteCall), the receipts of handoffs (HandoffManager) and the         *)
(* identity on disk (IdentityStore), for any number of them.               *)
(***************************************************************************)
EXTENDS RemoteCall, HandoffManager, IdentityStore, SequenceTheorems, TLAPS

(***************************************************************************)
(* RemoteCall                                                              *)
(***************************************************************************)

Cancelled(c) == "cancel" \in {wire[c][i] : i \in 1..Len(wire[c])}

(* Nothing of a call is anywhere before its invoke is sent. *)
Unsent(c) ==
  /\ wire[c] = <<>> /\ pushed[c] = 0 /\ c \notin answered
  /\ chan[c] = <<>> /\ seen[c] = <<>> /\ ~ trunc[c]

(* Where a call is says whether its invoke was sent and whether it still listens. *)
Sending(c) ==
  /\ call[c] \in {"new", "tracked", "subscribed"} => c \notin sent
  /\ call[c] \in {"sent", "writing", "consuming"} => c \in sent
  /\ c \notin sent => Unsent(c)
  /\ c \in sent => wire[c] # <<>> /\ Head(wire[c]) = "invoke"
  /\ c \in subscribed <=> call[c] \in {"subscribed", "sent", "writing", "consuming", "leaving"}

(* A waiter is finished once, by a terminal or with its connection, and an exit
   is said of what the Relay answered. *)
Ending(c) ==
  /\ closes[c] = IF Finished(c) THEN 1 ELSE 0
  /\ term[c] \in {"exit", "exit_truncated"} => c \in answered
  /\ term[c] = "exit" => ~ trunc[c]
  /\ term[c] = "taken" => call[c] \in {"leaving", "ended"}
  /\ Finished(c) => c \in answered \/ ~ Up \/ change = "failed"
  /\ reply[c] = "exit" => /\ c \in answered /\ Len(seen[c]) = pushed[c]
                          /\ call[c] \in {"leaving", "ended"}

Increasing(s) == \A i, j \in 1..Len(s) : i < j => s[i] < s[j]
InOrder(s, b) ==
  /\ Increasing(s) /\ Increasing(b)
  /\ \A i \in 1..Len(s), j \in 1..Len(b) : s[i] < b[j]
UpTo(n, s) == \A i \in 1..Len(s) : s[i] <= n

(* What was consumed, and what waits after it, is in order; unless some was
   dropped it is all the reader received. *)
Flowing(c) ==
  /\ InOrder(seen[c], chan[c]) /\ UpTo(pushed[c], seen[c]) /\ UpTo(pushed[c], chan[c])
  /\ c \in subscribed /\ ~ trunc[c] => Len(seen[c]) + Len(chan[c]) = pushed[c]

(* What the sweep of a head that went away has found is being cancelled, and
   no call is left that the Relay works on without a cancel. *)
Sweeping(c) ==
  /\ OwnerOf[c] \in swept /\ call[c] \in {"tracked", "subscribed"} => c \in cancelling
  /\ OwnerOf[c] \in swept /\ call[c] \in {"sent", "writing", "consuming"} /\ Up =>
       c \in cancelling \/ Cancelled(c)
  /\ call[c] \in {"leaving", "ended"} /\ c \in sent /\ Up /\ change # "failed"
       /\ c \notin answered => Cancelled(c)

CallSound(c) == Sending(c) /\ Ending(c) /\ Flowing(c) /\ Sweeping(c)
CallIInv ==
  /\ CallTypeOK /\ (change = "done" => ~ Up)
  /\ \A c \in Call : CallSound(c)
-----------------------------------------------------------------------------
(* The buffers of waiters are the sequences of output that fit. *)
Buffers == UNION {[1..n -> 1..MaxOutput] : n \in 0..Slots}
LEMMA BufferType ==
  ASSUME CallAssumption, NEW s
  PROVE  s \in Buffers <=> s \in Seq(1..MaxOutput) /\ Len(s) <= Slots
<1>1. ASSUME s \in Buffers PROVE s \in Seq(1..MaxOutput) /\ Len(s) <= Slots
  <2>1. PICK n \in 0..Slots : s \in [1..n -> 1..MaxOutput]
    BY <1>1 DEF Buffers
  <2>2. n \in Nat /\ n <= Slots
    BY DEF CallAssumption
  <2>3. s \in Seq(1..MaxOutput)
    BY <2>1, <2>2, SeqDef
  <2>4. DOMAIN s = 1..n /\ DOMAIN s = 1..Len(s) /\ Len(s) \in Nat
    BY <2>1, <2>3, LenProperties
  <2>5. Len(s) = n
    BY <2>2, <2>4
  <2> QED  BY <2>2, <2>3, <2>5
<1>2. ASSUME s \in Seq(1..MaxOutput), Len(s) <= Slots PROVE s \in Buffers
  <2>1. Len(s) \in 0..Slots /\ s \in [1..Len(s) -> 1..MaxOutput]
    BY <1>2, LenProperties DEF CallAssumption
  <2> QED  BY <2>1 DEF Buffers
<1> QED  BY <1>1, <1>2

LEMMA Appended ==
  ASSUME NEW S, NEW s \in Seq(S), NEW e \in S
  PROVE  /\ Append(s, e) \in Seq(S) /\ Append(s, e) # <<>>
         /\ Len(Append(s, e)) = Len(s) + 1 /\ Len(s) \in Nat
         /\ \A i \in 1..Len(s) : Append(s, e)[i] = s[i] /\ s[i] \in S
         /\ Append(s, e)[Len(s) + 1] = e
         /\ Head(Append(s, e)) = IF s = <<>> THEN e ELSE Head(s)
<1>1. Append(s, e) \in Seq(S) /\ Len(Append(s, e)) = Len(s) + 1 /\ Len(s) \in Nat
  BY AppendProperties, LenProperties
<1>2. \A i \in 1..Len(s) : Append(s, e)[i] = s[i] /\ s[i] \in S
  BY AppendProperties, ElementOfSeq
<1>3. Append(s, e)[Len(s) + 1] = e
  BY AppendProperties
<1>4. Append(s, e) # <<>>
  BY <1>1, EmptySeq
<1>5. Head(Append(s, e)) = Append(s, e)[1]
  BY <1>1, <1>4, HeadTailProperties
<1>6. CASE s = <<>>
  BY <1>1, <1>3, <1>4, <1>5, <1>6, EmptySeq
<1>7. CASE s # <<>>
  <2>1. Len(s) >= 1 /\ Head(s) = s[1]
    BY <1>7, EmptySeq, HeadTailProperties, LenProperties
  <2> QED  BY <1>1, <1>2, <1>4, <1>5, <1>7, <2>1
<1> QED  BY <1>1, <1>2, <1>3, <1>4, <1>6, <1>7

LEMMA Tailed ==
  ASSUME NEW S, NEW s \in Seq(S), s # <<>>
  PROVE  /\ Tail(s) \in Seq(S) /\ Len(Tail(s)) = Len(s) - 1 /\ Len(s) \in Nat \ {0}
         /\ Head(s) \in S /\ Head(s) = s[1]
         /\ \A i \in 1..Len(Tail(s)) : Tail(s)[i] = s[i + 1] /\ i + 1 \in 1..Len(s)
<1>1. Tail(s) \in Seq(S) /\ Len(Tail(s)) = Len(s) - 1 /\ Head(s) \in S
  BY HeadTailProperties
<1>2. Len(s) \in Nat \ {0}
  BY LenProperties, EmptySeq
<1>3. Head(s) = s[1]
  BY HeadTailProperties
<1>4. \A i \in 1..Len(Tail(s)) : Tail(s)[i] = s[i + 1]
  BY <1>1, HeadTailProperties
<1> QED  BY <1>1, <1>2, <1>3, <1>4
-----------------------------------------------------------------------------
(* What a step leaves to a call whose own state it does not touch. *)
Same(x) ==
  /\ call'[x] = call[x] /\ chan'[x] = chan[x] /\ trunc'[x] = trunc[x] /\ term'[x] = term[x]
  /\ closes'[x] = closes[x] /\ wire'[x] = wire[x] /\ pushed'[x] = pushed[x]
  /\ seen'[x] = seen[x] /\ reply'[x] = reply[x]
  /\ (x \in sent' <=> x \in sent) /\ (x \in subscribed' <=> x \in subscribed)
  /\ (x \in answered' <=> x \in answered) /\ (x \in cancelling => x \in cancelling')

(* A connection never comes up again, and a change that failed its waiters has
   closed it when it is done. *)
Calm ==
  /\ Up' => Up
  /\ change = "failed" => change' = "failed" \/ ~ Up'

LEMMA SendingKept ==
  ASSUME NEW x, Sending(x), call'[x] = call[x], x \in sent' <=> x \in sent,
         x \in subscribed' <=> x \in subscribed, wire'[x] = wire[x], pushed'[x] = pushed[x],
         x \in answered' <=> x \in answered, chan'[x] = chan[x], seen'[x] = seen[x],
         trunc'[x] = trunc[x]
  PROVE  Sending(x)'
  BY DEF Sending, Unsent

LEMMA EndingKept ==
  ASSUME NEW x, Ending(x), Calm, call'[x] = call[x], closes'[x] = closes[x], term'[x] = term[x],
         trunc'[x] = trunc[x], reply'[x] = reply[x], seen'[x] = seen[x], pushed'[x] = pushed[x],
         x \in answered' <=> x \in answered
  PROVE  Ending(x)'
  BY DEF Ending, Finished, Calm

LEMMA FlowingKept ==
  ASSUME NEW x, Flowing(x), seen'[x] = seen[x], chan'[x] = chan[x], pushed'[x] = pushed[x],
         trunc'[x] = trunc[x], x \in subscribed' => x \in subscribed
  PROVE  Flowing(x)'
  BY DEF Flowing

LEMMA SweepingKept ==
  ASSUME NEW x, Sweeping(x), Calm, call'[x] = call[x], wire'[x] = wire[x],
         x \in sent' <=> x \in sent, x \in answered' <=> x \in answered,
         x \in cancelling => x \in cancelling', swept' = swept
  PROVE  Sweeping(x)'
  BY DEF Sweeping, Cancelled, Calm

LEMMA SameKept ==
  ASSUME NEW x, CallSound(x), Calm, Same(x), swept' = swept
  PROVE  CallSound(x)'
<1> USE DEF Same, CallSound
<1>1. Sending(x)'
  BY SendingKept
<1>2. Ending(x)'
  BY EndingKept
<1>3. Flowing(x)'
  BY FlowingKept
<1>4. Sweeping(x)'
  BY SweepingKept
<1> QED  BY <1>1, <1>2, <1>3, <1>4
-----------------------------------------------------------------------------
(* The steps of a call, one lemma each. *)
LEMMA BeginSound ==
  ASSUME CallAssumption, CallIInv, NEW c \in Call, Begin(c)
  PROVE  CallIInv'
<1>0. CallTypeOK /\ CallSound(c)
  BY DEF CallIInv
<1>1. /\ call[c] = "new" /\ call'[c] \in {"tracked", "ended"} /\ DOMAIN call' = Call
      /\ (call'[c] = "tracked" => HeadOpen(c)) /\ call' \in [Call -> {"new", "tracked", "subscribed", "sent", "consuming", "writing", "leaving", "ended"}]
      /\ \A x \in Call : x # c => call'[x] = call[x]
      /\ UNCHANGED <<closed, stalled, swept, sent, cancelling, subscribed, chan, trunc, term, closes>>
      /\ UNCHANGED <<conn, reader, change, due, wire, pushed, answered, seen, reply>>
  BY <1>0 DEF Begin, Track, waiter, link, relay, result, CallTypeOK
<1>5. Calm /\ (change = "done" => ~ Up)'
  BY <1>1 DEF Calm, Up, CallIInv
<1>2. CallTypeOK'
  BY <1>0, <1>1 DEF CallTypeOK
<1>3. CallSound(c)'
  <2>1. Sending(c)'
    BY <1>0, <1>1 DEF CallSound, Sending, Unsent
  <2>2. Ending(c)'
    BY <1>0, <1>1 DEF CallSound, Ending, Finished, Up
  <2>3. Flowing(c)'
    BY <1>0, <1>1, FlowingKept DEF CallSound
  <2>4. Sweeping(c)'
    BY <1>0, <1>1 DEF CallSound, Sweeping, Sending, HeadOpen, CallTypeOK
  <2> QED  BY <2>1, <2>2, <2>3, <2>4 DEF CallSound
<1>4. ASSUME NEW x \in Call, x # c PROVE CallSound(x)'
  <2>1. Same(x) /\ swept' = swept
    BY <1>0, <1>1, <1>4 DEF Same
  <2> QED  BY <1>5, <2>1, SameKept DEF CallIInv
<1> QED  BY <1>2, <1>3, <1>4, <1>5 DEF CallIInv

LEMMA AwaitSound ==
  ASSUME CallAssumption, CallIInv, NEW c \in Call, Await(c)
  PROVE  CallIInv'
<1>0. CallTypeOK /\ CallSound(c)
  BY DEF CallIInv
<1>1. /\ call[c] = "tracked" /\ call'[c] = "subscribed" /\ subscribed' = subscribed \cup {c}
      /\ \A x \in Call : x # c => call'[x] = call[x]
      /\ UNCHANGED <<closed, stalled, swept, sent, cancelling, chan, trunc, term, closes>>
      /\ UNCHANGED <<conn, reader, change, due, wire, pushed, answered, seen, reply>>
  BY <1>0 DEF Await, waiter, link, relay, result, CallTypeOK
<1>6. call' = [call EXCEPT ![c] = "subscribed"]
  BY DEF Await
<1>5. Calm /\ (change = "done" => ~ Up)'
  BY <1>1 DEF Calm, Up, CallIInv
<1>2. CallTypeOK'
  BY <1>0, <1>1, <1>6 DEF CallTypeOK
<1>3. CallSound(c)'
  <2>1. Sending(c)'
    BY <1>0, <1>1 DEF CallSound, Sending, Unsent
  <2>2. Ending(c)'
    BY <1>0, <1>1 DEF CallSound, Ending, Finished, Up
  <2>3. Flowing(c)'
    <3>1. Unsent(c)
      BY <1>0, <1>1 DEF CallSound, Sending
    <3>2. seen'[c] = <<>> /\ chan'[c] = <<>> /\ pushed'[c] = 0
      BY <1>1, <3>1 DEF Unsent
    <3> QED  BY <3>2, EmptySeq DEF Flowing, InOrder, Increasing, UpTo
  <2>4. Sweeping(c)'
    BY <1>0, <1>1 DEF CallSound, Sweeping
  <2> QED  BY <2>1, <2>2, <2>3, <2>4 DEF CallSound
<1>4. ASSUME NEW x \in Call, x # c PROVE CallSound(x)'
  <2>1. Same(x) /\ swept' = swept
    BY <1>0, <1>1, <1>4 DEF Same
  <2> QED  BY <1>5, <2>1, SameKept DEF CallIInv
<1> QED  BY <1>2, <1>3, <1>4, <1>5 DEF CallIInv

LEMMA SendInvokeSound ==
  ASSUME CallAssumption, CallIInv, NEW c \in Call, SendInvoke(c)
  PROVE  CallIInv'
<1>0. CallTypeOK /\ CallSound(c)
  BY DEF CallIInv
<1>7. /\ call' = [call EXCEPT ![c] = "sent"] /\ wire' = [wire EXCEPT ![c] = Append(@, "invoke")]
      /\ call[c] = "subscribed" /\ Up
  BY DEF SendInvoke, Sends
<1>6. wire[c] = <<>> /\ wire'[c] = Append(wire[c], "invoke") /\ wire'[c] \in Seq({"invoke", "cancel"})
      /\ wire'[c] # <<>> /\ Head(wire'[c]) = "invoke"
  <2>1. wire[c] = <<>>
    BY <1>0, <1>7 DEF CallSound, Sending, Unsent
  <2>2. wire'[c] = Append(wire[c], "invoke") /\ wire[c] \in Seq({"invoke", "cancel"})
    BY <1>0, <1>7 DEF CallTypeOK
  <2> QED  BY <2>1, <2>2, Appended
<1>1. /\ call[c] = "subscribed" /\ call'[c] = "sent" /\ sent' = sent \cup {c}
      /\ \A x \in Call : x # c => call'[x] = call[x] /\ wire'[x] = wire[x]
      /\ UNCHANGED <<closed, stalled, swept, subscribed, cancelling, chan, trunc, term, closes>>
      /\ UNCHANGED <<conn, reader, change, due, pushed, answered, seen, reply>>
  BY <1>0, <1>7 DEF SendInvoke, waiter, link, relay, result, CallTypeOK
<1>5. Calm /\ (change = "done" => ~ Up)'
  BY <1>1 DEF Calm, Up, CallIInv
<1>2. CallTypeOK'
  <2>1. wire' \in [Call -> Seq({"invoke", "cancel"})]
    BY <1>0, <1>6, <1>7 DEF CallTypeOK
  <2>2. call' \in [Call -> {"new", "tracked", "subscribed", "sent", "consuming", "writing", "leaving", "ended"}]
    BY <1>0, <1>7 DEF CallTypeOK
  <2> QED  BY <1>0, <1>1, <2>1, <2>2 DEF CallTypeOK
<1>3. CallSound(c)'
  <2>1. Sending(c)'
    BY <1>0, <1>1, <1>6 DEF CallSound, Sending
  <2>2. Ending(c)'
    BY <1>0, <1>1 DEF CallSound, Ending, Finished, Up
  <2>3. Flowing(c)'
    BY <1>0, <1>1, FlowingKept DEF CallSound
  <2>4. Sweeping(c)'
    BY <1>0, <1>1 DEF CallSound, Sweeping
  <2> QED  BY <2>1, <2>2, <2>3, <2>4 DEF CallSound
<1>4. ASSUME NEW x \in Call, x # c PROVE CallSound(x)'
  <2>1. Same(x) /\ swept' = swept
    BY <1>0, <1>1, <1>4 DEF Same
  <2> QED  BY <1>5, <2>1, SameKept DEF CallIInv
<1> QED  BY <1>2, <1>3, <1>4, <1>5 DEF CallIInv

LEMMA SendFailsSound ==
  ASSUME CallAssumption, CallIInv, NEW c \in Call, SendFails(c)
  PROVE  CallIInv'
<1>0. CallTypeOK /\ CallSound(c)
  BY DEF CallIInv
<1>6. /\ call' = [call EXCEPT ![c] = "leaving"] /\ reply' = [reply EXCEPT ![c] = "error"]
      /\ call[c] = "subscribed"
  BY DEF SendFails
<1>1. /\ call[c] = "subscribed" /\ call'[c] = "leaving" /\ conn' \in {conn, "closed"}
      /\ reply'[c] = "error"
      /\ \A x \in Call : x # c => call'[x] = call[x] /\ reply'[x] = reply[x]
      /\ UNCHANGED <<closed, stalled, swept, subscribed, cancelling, chan, trunc, term, closes>>
      /\ UNCHANGED <<reader, change, due, wire, sent, pushed, answered, seen>>
  BY <1>0, <1>6 DEF SendFails, waiter, link, relay, result, CallTypeOK
<1>5. Calm /\ (change = "done" => ~ Up)'
  BY <1>1 DEF Calm, Up, CallIInv
<1>2. CallTypeOK'
  <2>1. reply' \in [Call -> End]
    BY <1>0, <1>6 DEF CallTypeOK, End
  <2>2. call' \in [Call -> {"new", "tracked", "subscribed", "sent", "consuming", "writing", "leaving", "ended"}]
    BY <1>0, <1>6 DEF CallTypeOK
  <2> QED  BY <1>0, <1>1, <2>1, <2>2 DEF CallTypeOK
<1>3. CallSound(c)'
  <2>1. Sending(c)'
    BY <1>0, <1>1 DEF CallSound, Sending, Unsent
  <2>2. Ending(c)'
    BY <1>0, <1>1, <1>5 DEF CallSound, Ending, Finished, Calm
  <2>3. Flowing(c)'
    BY <1>0, <1>1, FlowingKept DEF CallSound
  <2>4. Sweeping(c)'
    BY <1>0, <1>1 DEF CallSound, Sweeping, Sending
  <2> QED  BY <2>1, <2>2, <2>3, <2>4 DEF CallSound
<1>4. ASSUME NEW x \in Call, x # c PROVE CallSound(x)'
  <2>1. Same(x) /\ swept' = swept
    BY <1>0, <1>1, <1>4 DEF Same
  <2> QED  BY <1>5, <2>1, SameKept DEF CallIInv
<1> QED  BY <1>2, <1>3, <1>4, <1>5 DEF CallIInv

(* A cancel that is sent follows the invoke, and a call that got one is cancelled. *)
LEMMA CancelGoesOut ==
  ASSUME CallTypeOK, NEW c \in Call, CancelSent(c)
  PROVE  /\ wire' \in [Call -> Seq({"invoke", "cancel"})]
         /\ \A x \in Call : x # c => wire'[x] = wire[x]
         /\ wire[c] # <<>> => wire'[c] # <<>> /\ Head(wire'[c]) = Head(wire[c])
         /\ c \in sent /\ Up => Cancelled(c)'
         /\ c \notin sent => wire' = wire
         /\ Cancelled(c) => Cancelled(c)'
<1>1. CASE ~ (c \in sent /\ Up)
  BY <1>1 DEF CancelSent, CallTypeOK, Cancelled
<1>2. CASE c \in sent /\ Up
  <2>1. wire' = [wire EXCEPT ![c] = Append(@, "cancel")]
    BY <1>2 DEF CancelSent, Sends
  <2>2. /\ wire \in [Call -> Seq({"invoke", "cancel"})] /\ wire[c] \in Seq({"invoke", "cancel"})
        /\ wire'[c] = Append(wire[c], "cancel")
    BY <2>1 DEF CallTypeOK
  <2>3. /\ wire'[c] \in Seq({"invoke", "cancel"}) /\ wire'[c] # <<>>
        /\ Len(wire'[c]) = Len(wire[c]) + 1 /\ Len(wire[c]) \in Nat
        /\ \A i \in 1..Len(wire[c]) : wire'[c][i] = wire[c][i]
        /\ wire'[c][Len(wire[c]) + 1] = "cancel"
        /\ (wire[c] # <<>> => Head(wire'[c]) = Head(wire[c]))
    BY <2>2, Appended
  <2>4. wire' \in [Call -> Seq({"invoke", "cancel"})] /\ \A x \in Call : x # c => wire'[x] = wire[x]
    BY <2>1, <2>2, <2>3
  <2>5. Cancelled(c)'
    <3>1. Len(wire[c]) + 1 \in 1..Len(wire'[c])
      BY <2>3
    <3> QED  BY <2>3, <3>1 DEF Cancelled
  <2> QED  BY <1>2, <2>3, <2>4, <2>5
<1> QED  BY <1>1, <1>2

LEMMA AnnounceSound ==
  ASSUME CallAssumption, CallIInv, NEW c \in Call, Announce(c)
  PROVE  CallIInv'
<1>0. CallTypeOK /\ CallSound(c) /\ c \in sent
  BY DEF CallIInv, CallSound, Sending, Announce
<1>7. /\ call[c] = "sent" /\ \E w \in {"leaving", "consuming"} : call' = [call EXCEPT ![c] = w]
  BY DEF Announce
<1>6. /\ wire' \in [Call -> Seq({"invoke", "cancel"})]
      /\ \A x \in Call : x # c => wire'[x] = wire[x]
      /\ wire[c] # <<>> => wire'[c] # <<>> /\ Head(wire'[c]) = Head(wire[c])
      /\ Cancelled(c) => Cancelled(c)'
      /\ call'[c] = "leaving" /\ Up => Cancelled(c)'
  <2>1. CASE c \in Stream /\ ~ HeadOpen(c)
    <3>1. CancelSent(c)
      BY <2>1 DEF Announce
    <3> QED  BY <1>0, <3>1, CancelGoesOut
  <2>2. CASE ~ (c \in Stream /\ ~ HeadOpen(c))
    <3>1. wire' = wire /\ call'[c] = "consuming"
      BY <1>0, <2>2 DEF Announce, CallTypeOK
    <3> QED  BY <1>0, <3>1 DEF CallTypeOK, Cancelled
  <2> QED  BY <2>1, <2>2
<1>1. /\ call'[c] \in {"leaving", "consuming"}
      /\ \A x \in Call : x # c => call'[x] = call[x] /\ wire'[x] = wire[x]
      /\ UNCHANGED <<closed, stalled, swept, subscribed, cancelling, chan, trunc, term, closes>>
      /\ UNCHANGED <<conn, reader, change, due, sent, pushed, answered, seen, reply>>
  BY <1>0, <1>6, <1>7 DEF Announce, waiter, link, relay, result, CallTypeOK
<1>5. Calm /\ (change = "done" => ~ Up)'
  BY <1>1 DEF Calm, Up, CallIInv
<1>2. CallTypeOK'
  <2>1. call' \in [Call -> {"new", "tracked", "subscribed", "sent", "consuming", "writing", "leaving", "ended"}]
    BY <1>0, <1>7 DEF CallTypeOK
  <2> QED  BY <1>0, <1>1, <1>6, <2>1 DEF CallTypeOK
<1>3. CallSound(c)'
  <2>1. Sending(c)'
    BY <1>0, <1>1, <1>6, <1>7 DEF CallSound, Sending
  <2>2. Ending(c)'
    BY <1>0, <1>1, <1>7 DEF CallSound, Ending, Finished, Up
  <2>3. Flowing(c)'
    BY <1>0, <1>1, FlowingKept DEF CallSound
  <2>4. Sweeping(c)'
    BY <1>0, <1>1, <1>6, <1>7 DEF CallSound, Sweeping, Up
  <2> QED  BY <2>1, <2>2, <2>3, <2>4 DEF CallSound
<1>4. ASSUME NEW x \in Call, x # c PROVE CallSound(x)'
  <2>1. Same(x) /\ swept' = swept
    BY <1>0, <1>1, <1>4 DEF Same
  <2> QED  BY <1>5, <2>1, SameKept DEF CallIInv
<1> QED  BY <1>2, <1>3, <1>4, <1>5 DEF CallIInv

LEMMA WriteOutputSound ==
  ASSUME CallAssumption, CallIInv, NEW c \in Call, WriteOutput(c)
  PROVE  CallIInv'
<1>0. CallTypeOK /\ CallSound(c) /\ c \in sent
  BY DEF CallIInv, CallSound, Sending, WriteOutput
<1>7. /\ call[c] = "writing" /\ \E w \in {"leaving", "consuming"} : call' = [call EXCEPT ![c] = w]
  BY DEF WriteOutput
<1>6. /\ wire' \in [Call -> Seq({"invoke", "cancel"})]
      /\ \A x \in Call : x # c => wire'[x] = wire[x]
      /\ wire[c] # <<>> => wire'[c] # <<>> /\ Head(wire'[c]) = Head(wire[c])
      /\ Cancelled(c) => Cancelled(c)'
      /\ call'[c] = "leaving" /\ Up => Cancelled(c)'
  <2>1. CASE ~ HeadOpen(c)
    <3>1. CancelSent(c)
      BY <1>0, <2>1 DEF WriteOutput, CancelSent
    <3> QED  BY <1>0, <3>1, CancelGoesOut
  <2>2. CASE HeadOpen(c)
    <3>1. wire' = wire /\ call'[c] = "consuming"
      BY <1>0, <2>2 DEF WriteOutput, CallTypeOK
    <3> QED  BY <1>0, <3>1 DEF CallTypeOK, Cancelled
  <2> QED  BY <2>1, <2>2
<1>1. /\ call'[c] \in {"leaving", "consuming"}
      /\ \A x \in Call : x # c => call'[x] = call[x] /\ wire'[x] = wire[x]
      /\ UNCHANGED <<closed, stalled, swept, subscribed, cancelling, chan, trunc, term, closes>>
      /\ UNCHANGED <<conn, reader, change, due, sent, pushed, answered, seen, reply>>
  BY <1>0, <1>6, <1>7 DEF WriteOutput, waiter, link, relay, result, CallTypeOK
<1>5. Calm /\ (change = "done" => ~ Up)'
  BY <1>1 DEF Calm, Up, CallIInv
<1>2. CallTypeOK'
  <2>1. call' \in [Call -> {"new", "tracked", "subscribed", "sent", "consuming", "writing", "leaving", "ended"}]
    BY <1>0, <1>7 DEF CallTypeOK
  <2> QED  BY <1>0, <1>1, <1>6, <2>1 DEF CallTypeOK
<1>3. CallSound(c)'
  <2>1. Sending(c)'
    BY <1>0, <1>1, <1>6, <1>7 DEF CallSound, Sending
  <2>2. Ending(c)'
    BY <1>0, <1>1, <1>7 DEF CallSound, Ending, Finished, Up
  <2>3. Flowing(c)'
    BY <1>0, <1>1, FlowingKept DEF CallSound
  <2>4. Sweeping(c)'
    BY <1>0, <1>1, <1>6, <1>7 DEF CallSound, Sweeping, Up
  <2> QED  BY <2>1, <2>2, <2>3, <2>4 DEF CallSound
<1>4. ASSUME NEW x \in Call, x # c PROVE CallSound(x)'
  <2>1. Same(x) /\ swept' = swept
    BY <1>0, <1>1, <1>4 DEF Same
  <2> QED  BY <1>5, <2>1, SameKept DEF CallIInv
<1> QED  BY <1>2, <1>3, <1>4, <1>5 DEF CallIInv

LEMMA TakeTerminalSound ==
  ASSUME CallAssumption, CallIInv, NEW c \in Call, TakeTerminal(c)
  PROVE  CallIInv'
<1>0. CallTypeOK /\ CallSound(c) /\ c \in sent /\ c \in subscribed
  BY DEF CallIInv, CallSound, Sending, TakeTerminal
<1>6. /\ call' = [call EXCEPT ![c] = "leaving"] /\ reply' = [reply EXCEPT ![c] = term[c]]
      /\ term' = [term EXCEPT ![c] = "taken"]
      /\ call[c] = "consuming" /\ term[c] # "none" /\ chan[c] = <<>>
  BY DEF TakeTerminal, TerminalDue, Finished
<1>1. /\ call'[c] = "leaving" /\ term'[c] = "taken" /\ reply'[c] = term[c]
      /\ \A x \in Call : x # c => call'[x] = call[x] /\ reply'[x] = reply[x] /\ term'[x] = term[x]
      /\ UNCHANGED <<closed, stalled, swept, subscribed, cancelling, chan, trunc, closes>>
      /\ UNCHANGED <<conn, reader, change, due, wire, sent, pushed, answered, seen>>
  BY <1>0, <1>6 DEF TakeTerminal, link, relay, CallTypeOK
<1>7. term[c] \in {"exit", "exit_truncated", "error"}
  BY <1>0, <1>6 DEF CallTypeOK, End, CallSound, Ending
<1>5. Calm /\ (change = "done" => ~ Up)'
  BY <1>1 DEF Calm, Up, CallIInv
<1>2. CallTypeOK'
  <2>1. reply' \in [Call -> End] /\ term' \in [Call -> End \cup {"taken"}]
    BY <1>0, <1>6, <1>7 DEF CallTypeOK, End
  <2>2. call' \in [Call -> {"new", "tracked", "subscribed", "sent", "consuming", "writing", "leaving", "ended"}]
    BY <1>0, <1>6 DEF CallTypeOK
  <2> QED  BY <1>0, <1>1, <2>1, <2>2 DEF CallTypeOK
<1>3. CallSound(c)'
  <2>1. Sending(c)'
    BY <1>0, <1>1, <1>6 DEF CallSound, Sending
  <2>2. Ending(c)'
    <3>1. term[c] = "exit" => Len(seen[c]) = pushed[c]
      <4>1. Len(chan[c]) = 0 /\ Len(seen[c]) \in Nat
        BY <1>0, <1>6, EmptySeq, LenProperties DEF CallTypeOK
      <4> QED  BY <1>0, <4>1 DEF CallSound, Ending, Flowing
    <3> QED  BY <1>0, <1>1, <1>6, <1>7, <3>1 DEF CallSound, Ending, Finished, Up
  <2>3. Flowing(c)'
    BY <1>0, <1>1, FlowingKept DEF CallSound
  <2>4. Sweeping(c)'
    BY <1>0, <1>1, <1>6 DEF CallSound, Sweeping, Ending, Finished, Cancelled, Up
  <2> QED  BY <2>1, <2>2, <2>3, <2>4 DEF CallSound
<1>4. ASSUME NEW x \in Call, x # c PROVE CallSound(x)'
  <2>1. Same(x) /\ swept' = swept
    BY <1>0, <1>1, <1>4 DEF Same
  <2> QED  BY <1>5, <2>1, SameKept DEF CallIInv
<1> QED  BY <1>2, <1>3, <1>4, <1>5 DEF CallIInv

LEMMA LeaveSound ==
  ASSUME CallAssumption, CallIInv, NEW c \in Call, Leave(c)
  PROVE  CallIInv'
<1>0. CallTypeOK /\ CallSound(c)
  BY DEF CallIInv
<1>6. call' = [call EXCEPT ![c] = "ended"] /\ call[c] = "leaving"
  BY DEF Leave
<1>1. /\ call'[c] = "ended" /\ subscribed' = subscribed \ {c}
      /\ \A x \in Call : x # c => call'[x] = call[x]
      /\ UNCHANGED <<closed, stalled, swept, sent, cancelling, chan, trunc, term, closes>>
      /\ UNCHANGED <<conn, reader, change, due, wire, pushed, answered, seen, reply>>
  BY <1>0, <1>6 DEF Leave, waiter, link, relay, result, CallTypeOK
<1>5. Calm /\ (change = "done" => ~ Up)'
  BY <1>1 DEF Calm, Up, CallIInv
<1>2. CallTypeOK'
  BY <1>0, <1>1, <1>6 DEF CallTypeOK
<1>3. CallSound(c)'
  <2>1. Sending(c)'
    BY <1>0, <1>1, <1>6 DEF CallSound, Sending, Unsent
  <2>2. Ending(c)'
    BY <1>0, <1>1, <1>6 DEF CallSound, Ending, Finished, Up
  <2>3. Flowing(c)'
    BY <1>0, <1>1, FlowingKept DEF CallSound
  <2>4. Sweeping(c)'
    BY <1>0, <1>1, <1>6 DEF CallSound, Sweeping, Cancelled, Up
  <2> QED  BY <2>1, <2>2, <2>3, <2>4 DEF CallSound
<1>4. ASSUME NEW x \in Call, x # c PROVE CallSound(x)'
  <2>1. Same(x) /\ swept' = swept
    BY <1>0, <1>1, <1>4 DEF Same
  <2> QED  BY <1>5, <2>1, SameKept DEF CallIInv
<1> QED  BY <1>2, <1>3, <1>4, <1>5 DEF CallIInv

(* Taking the oldest output from a buffer keeps the output in order and loses none. *)
LEMMA OutputMoves ==
  ASSUME NEW s \in Seq(Nat), NEW b \in Seq(Nat), b # <<>>, InOrder(s, b),
         NEW n \in Nat, UpTo(n, s), UpTo(n, b)
  PROVE  /\ InOrder(Append(s, Head(b)), Tail(b))
         /\ UpTo(n, Append(s, Head(b))) /\ UpTo(n, Tail(b))
         /\ Len(Append(s, Head(b))) + Len(Tail(b)) = Len(s) + Len(b)
<1> DEFINE t == Append(s, Head(b))
           r == Tail(b)
<1>1. /\ r \in Seq(Nat) /\ Len(r) = Len(b) - 1 /\ Len(b) \in Nat \ {0}
      /\ Head(b) \in Nat /\ Head(b) = b[1]
      /\ \A i \in 1..Len(r) : r[i] = b[i + 1] /\ i + 1 \in 1..Len(b)
  BY Tailed
<1>2. /\ t \in Seq(Nat) /\ Len(t) = Len(s) + 1 /\ Len(s) \in Nat
      /\ \A i \in 1..Len(s) : t[i] = s[i] /\ s[i] \in Nat
      /\ t[Len(s) + 1] = Head(b)
  BY <1>1, Appended
<1> HIDE DEF t, r
<1>9. 1 \in 1..Len(b) /\ \A j \in 1..Len(b) : b[j] \in Nat
  BY <1>1, ElementOfSeq
<1>13. Len(t) = Len(s) + 1 /\ Len(s) \in Nat
  BY <1>2
<1>3. ASSUME NEW i \in 1..Len(t)
      PROVE  (i \in 1..Len(s) /\ t[i] = s[i]) \/ (i = Len(s) + 1 /\ t[i] = b[1])
  <2>1. i \in 1..Len(s) \/ i = Len(s) + 1
    BY <1>13
  <2>2. t[Len(s) + 1] = b[1]
    BY <1>1, <1>2
  <2> QED  BY <1>2, <2>1, <2>2
<1>4. \A i \in 1..Len(s) : s[i] < b[1]
  BY <1>9 DEF InOrder
<1>5. Increasing(t)
  <2> SUFFICES ASSUME NEW i \in 1..Len(t), NEW j \in 1..Len(t), i < j PROVE t[i] < t[j]
    BY DEF Increasing
  <2>1. i \in 1..Len(s) /\ t[i] = s[i]
    <3>1. i \in 1..Len(s)
      BY <1>13
    <3> QED  BY <1>2, <3>1
  <2>2. CASE j \in 1..Len(s)
    BY <1>2, <2>1, <2>2 DEF Increasing, InOrder
  <2>3. CASE j = Len(s) + 1
    BY <1>1, <1>2, <1>4, <2>1, <2>3
  <2> QED  BY <1>3, <2>2, <2>3
<1>6. Increasing(r)
  <2> SUFFICES ASSUME NEW i \in 1..Len(r), NEW j \in 1..Len(r), i < j PROVE r[i] < r[j]
    BY DEF Increasing
  <2>1. r[i] = b[i + 1] /\ r[j] = b[j + 1] /\ i + 1 \in 1..Len(b) /\ j + 1 \in 1..Len(b) /\ i + 1 < j + 1
    BY <1>1
  <2> QED  BY <2>1 DEF Increasing, InOrder
<1>7. ASSUME NEW i \in 1..Len(t), NEW j \in 1..Len(r) PROVE t[i] < r[j]
  <2>1. r[j] = b[j + 1] /\ j + 1 \in 1..Len(b) /\ 1 < j + 1
    BY <1>1
  <2>2. CASE i \in 1..Len(s) /\ t[i] = s[i]
    BY <2>1, <2>2 DEF InOrder
  <2>3. CASE t[i] = b[1]
    BY <1>9, <2>1, <2>3 DEF Increasing, InOrder
  <2> QED  BY <1>3, <2>2, <2>3
<1>8. Len(t) + Len(r) = Len(s) + Len(b)
  BY <1>1, <1>2
<1>10. UpTo(n, t)
  BY <1>3, <1>9 DEF UpTo
<1>11. UpTo(n, r)
  BY <1>1 DEF UpTo
<1>12. InOrder(t, r)
  BY <1>5, <1>6, <1>7 DEF InOrder
<1> QED  BY <1>8, <1>10, <1>11, <1>12 DEF t, r

(* The next output, put into a buffer, comes after everything before it. *)
LEMMA OutputArrives ==
  ASSUME NEW s \in Seq(Nat), NEW b \in Seq(Nat), InOrder(s, b),
         NEW n \in Nat, UpTo(n, s), UpTo(n, b)
  PROVE  /\ InOrder(s, Append(b, n + 1)) /\ InOrder(s, b)
         /\ UpTo(n + 1, Append(b, n + 1)) /\ UpTo(n + 1, s) /\ UpTo(n + 1, b)
<1> DEFINE t == Append(b, n + 1)
<1>1. /\ t \in Seq(Nat) /\ Len(t) = Len(b) + 1 /\ Len(b) \in Nat
      /\ \A i \in 1..Len(b) : t[i] = b[i] /\ b[i] \in Nat
      /\ t[Len(b) + 1] = n + 1
  BY Appended
<1> HIDE DEF t
<1>2. \A i \in 1..Len(s) : s[i] \in Nat /\ s[i] <= n
  BY ElementOfSeq DEF UpTo
<1>3. \A i \in 1..Len(t) : (i \in 1..Len(b) /\ t[i] = b[i]) \/ (i = Len(b) + 1 /\ t[i] = n + 1)
  BY <1>1
<1>4. \A i \in 1..Len(b) : b[i] \in Nat /\ b[i] <= n
  BY <1>1 DEF UpTo
<1>5. Increasing(t)
  <2> SUFFICES ASSUME NEW i \in 1..Len(t), NEW j \in 1..Len(t), i < j PROVE t[i] < t[j]
    BY DEF Increasing
  <2>1. i \in 1..Len(b) /\ t[i] = b[i]
    BY <1>1, <1>3
  <2>2. CASE j \in 1..Len(b) /\ t[j] = b[j]
    BY <2>1, <2>2 DEF Increasing, InOrder
  <2>3. CASE t[j] = n + 1
    BY <1>4, <2>1, <2>3
  <2> QED  BY <1>3, <2>2, <2>3
<1>6. ASSUME NEW i \in 1..Len(s), NEW j \in 1..Len(t) PROVE s[i] < t[j]
  <2>2. CASE j \in 1..Len(b) /\ t[j] = b[j]
    BY <2>2 DEF InOrder
  <2>3. CASE t[j] = n + 1
    BY <1>2, <2>3
  <2> QED  BY <1>3, <2>2, <2>3
<1>7. InOrder(s, t)
  BY <1>5, <1>6 DEF InOrder
<1>8. UpTo(n + 1, t)
  BY <1>3, <1>4 DEF UpTo
<1>9. UpTo(n + 1, s) /\ UpTo(n + 1, b)
  BY <1>2, <1>4 DEF UpTo
<1> QED  BY <1>7, <1>8, <1>9 DEF t

LEMMA TakeOutputSound ==
  ASSUME CallAssumption, CallIInv, NEW c \in Call, TakeOutput(c)
  PROVE  CallIInv'
<1>0. CallTypeOK /\ CallSound(c) /\ c \in sent /\ c \in subscribed
  BY DEF CallIInv, CallSound, Sending, TakeOutput
<1>7. /\ call[c] = "consuming" /\ chan[c] # <<>>
      /\ chan' = [chan EXCEPT ![c] = Tail(@)] /\ seen' = [seen EXCEPT ![c] = Append(@, Head(chan[c]))]
  BY DEF TakeOutput
<1>8. /\ chan[c] \in Seq(1..MaxOutput) /\ Len(chan[c]) <= Slots /\ seen[c] \in Seq(1..MaxOutput)
      /\ chan[c] \in Seq(Nat) /\ seen[c] \in Seq(Nat)
  <2>1. chan[c] \in Seq(1..MaxOutput) /\ Len(chan[c]) <= Slots /\ seen[c] \in Seq(1..MaxOutput)
    BY <1>0, BufferType DEF CallTypeOK, Buffers
  <2> QED  BY <2>1, SeqDef DEF CallAssumption
<1>9. /\ chan'[c] = Tail(chan[c]) /\ seen'[c] = Append(seen[c], Head(chan[c]))
      /\ \A x \in Call : x # c => chan'[x] = chan[x] /\ seen'[x] = seen[x]
      /\ Tail(chan[c]) \in Seq(1..MaxOutput) /\ Len(Tail(chan[c])) <= Slots
      /\ Append(seen[c], Head(chan[c])) \in Seq(1..MaxOutput)
  <2>1. chan'[c] = Tail(chan[c]) /\ seen'[c] = Append(seen[c], Head(chan[c]))
      /\ \A x \in Call : x # c => chan'[x] = chan[x] /\ seen'[x] = seen[x]
    BY <1>0, <1>7 DEF CallTypeOK
  <2>2. /\ Tail(chan[c]) \in Seq(1..MaxOutput) /\ Len(Tail(chan[c])) = Len(chan[c]) - 1
        /\ Len(chan[c]) \in Nat /\ Head(chan[c]) \in 1..MaxOutput
    BY <1>7, <1>8, Tailed
  <2>3. Len(Tail(chan[c])) <= Slots
    BY <1>8, <2>2 DEF CallAssumption
  <2>4. Append(seen[c], Head(chan[c])) \in Seq(1..MaxOutput)
    BY <1>8, <2>2, Appended
  <2> QED  BY <2>1, <2>2, <2>3, <2>4
<1>6. /\ \A x \in Call : x # c => call'[x] = call[x]
      /\ call'[c] \in {"writing", "consuming"}
      /\ call' \in [Call -> {"new", "tracked", "subscribed", "sent", "consuming", "writing", "leaving", "ended"}]
  <2>1. \E w \in {"writing", "consuming"} : call' = [call EXCEPT ![c] = w]
    BY <1>0, <1>7 DEF TakeOutput
  <2> QED  BY <1>0, <2>1 DEF CallTypeOK
<1>1. /\ \A x \in Call : x # c => call'[x] = call[x] /\ chan'[x] = chan[x] /\ seen'[x] = seen[x]
      /\ UNCHANGED <<closed, stalled, swept, subscribed, cancelling, trunc, term, closes>>
      /\ UNCHANGED <<conn, reader, change, due, wire, sent, pushed, answered, reply>>
  BY <1>6, <1>9 DEF TakeOutput, link, relay
<1>5. Calm /\ (change = "done" => ~ Up)'
  BY <1>1 DEF Calm, Up, CallIInv
<1>2. CallTypeOK'
  <2>1. chan' \in [Call -> Buffers]
    <3>1. Tail(chan[c]) \in Buffers
      BY <1>9, BufferType
    <3>2. chan \in [Call -> Buffers]
      BY <1>0 DEF CallTypeOK, Buffers
    <3> QED  BY <1>7, <3>1, <3>2
  <2>2. seen' \in [Call -> Seq(1..MaxOutput)]
    BY <1>0, <1>7, <1>9 DEF CallTypeOK
  <2> QED  BY <1>0, <1>1, <1>6, <2>1, <2>2 DEF CallTypeOK, Buffers
<1>3. CallSound(c)'
  <2>1. Sending(c)'
    BY <1>0, <1>1, <1>6, <1>7 DEF CallSound, Sending
  <2>2. Ending(c)'
    BY <1>0, <1>1, <1>7, <1>6 DEF CallSound, Ending, Finished, Up
  <2>3. Flowing(c)'
    <3>1. /\ chan[c] # <<>> /\ chan[c] \in Seq(Nat) /\ seen[c] \in Seq(Nat) /\ pushed[c] \in Nat
      BY <1>0, <1>7, <1>8 DEF CallTypeOK, CallAssumption
    <3>2. /\ InOrder(Append(seen[c], Head(chan[c])), Tail(chan[c]))
          /\ UpTo(pushed[c], Append(seen[c], Head(chan[c]))) /\ UpTo(pushed[c], Tail(chan[c]))
          /\ Len(Append(seen[c], Head(chan[c]))) + Len(Tail(chan[c])) = Len(seen[c]) + Len(chan[c])
      BY <1>0, <3>1, OutputMoves DEF CallSound, Flowing
    <3> QED  BY <1>0, <1>1, <1>9, <3>2 DEF Flowing, CallSound
  <2>4. Sweeping(c)'
    BY <1>0, <1>1, <1>6, <1>7 DEF CallSound, Sweeping, Cancelled, Up
  <2> QED  BY <2>1, <2>2, <2>3, <2>4 DEF CallSound
<1>4. ASSUME NEW x \in Call, x # c PROVE CallSound(x)'
  <2>1. Same(x) /\ swept' = swept
    BY <1>0, <1>1, <1>4 DEF Same
  <2> QED  BY <1>5, <2>1, SameKept DEF CallIInv
<1> QED  BY <1>2, <1>3, <1>4, <1>5 DEF CallIInv
-----------------------------------------------------------------------------
(* What the reader makes of what arrives. *)

(* finish ends the waiters it finds unfinished, each of them once. *)
LEMMA Finishes ==
  ASSUME CallTypeOK, NEW S, NEW end \in {"exit", "error"}, Finish(S, end),
         \A x \in Call : Ending(x)
  PROVE  /\ term' \in [Call -> End \cup {"taken"}] /\ closes' \in [Call -> 0..1]
         /\ \A x \in Call :
              \/ term'[x] = term[x] /\ closes'[x] = closes[x] /\ (x \notin S \/ Finished(x))
              \/ /\ x \in S /\ ~ Finished(x) /\ closes'[x] = 1
                 /\ term'[x] \in {"exit", "exit_truncated", "error"}
                 /\ term'[x] = "exit" => ~ trunc[x]
                 /\ end = "error" => term'[x] = "error"
<1> DEFINE T == {x \in S : ~ Finished(x)}
           t(x) == IF x \notin T THEN term[x]
                   ELSE IF end = "exit" /\ trunc[x] THEN "exit_truncated" ELSE end
           n(x) == IF x \in T THEN closes[x] + 1 ELSE closes[x]
<1>1. term' = [x \in Call |-> t(x)] /\ closes' = [x \in Call |-> n(x)]
  BY DEF Finish
<1>2. ASSUME NEW x \in Call
      PROVE  /\ t(x) \in End \cup {"taken"} /\ n(x) \in 0..1
             /\ \/ t(x) = term[x] /\ n(x) = closes[x] /\ (x \notin S \/ Finished(x))
                \/ /\ x \in S /\ ~ Finished(x) /\ n(x) = 1
                   /\ t(x) \in {"exit", "exit_truncated", "error"}
                   /\ t(x) = "exit" => ~ trunc[x]
                   /\ end = "error" => t(x) = "error"
  <2>1. closes[x] \in 0..1 /\ term[x] \in End \cup {"taken"} /\ (~ Finished(x) => closes[x] = 0)
    BY DEF CallTypeOK, Ending
  <2>2. CASE x \in T
    BY <2>1, <2>2 DEF End
  <2>3. CASE x \notin T
    BY <2>1, <2>3
  <2> QED  BY <2>2, <2>3
<1> HIDE DEF t, n
<1> QED  BY <1>1, <1>2

LEMMA PushOutputSound ==
  ASSUME CallAssumption, CallIInv, NEW c \in Call, Dispatch(c), PushOutput(c)
  PROVE  CallIInv'
<1>0. CallTypeOK /\ CallSound(c) /\ c \in sent /\ c \notin answered
  BY DEF CallIInv, CallSound, Sending, Unsent, Dispatch
<1>1. UNCHANGED <<closed, stalled, swept, call, sent, cancelling, subscribed, conn, reader, change, due, wire,
                  term, closes, answered, seen, reply>>
  BY DEF Dispatch, PushOutput, Overflowed, link, result, waiter
<1>7. pushed' = [pushed EXCEPT ![c] = @ + 1] /\ pushed[c] < MaxOutput
  BY DEF PushOutput
<1>8. /\ pushed'[c] = pushed[c] + 1 /\ pushed[c] \in Nat /\ pushed' \in [Call -> 0..MaxOutput]
      /\ pushed'[c] \in 1..MaxOutput /\ \A x \in Call : x # c => pushed'[x] = pushed[x]
  <2>1. pushed[c] \in Nat /\ pushed[c] + 1 \in 0..MaxOutput /\ pushed[c] + 1 \in 1..MaxOutput
    BY <1>0, <1>7 DEF CallTypeOK, CallAssumption
  <2> QED  BY <1>0, <1>7, <2>1 DEF CallTypeOK
<1>9. /\ chan[c] \in Seq(1..MaxOutput) /\ Len(chan[c]) <= Slots /\ seen[c] \in Seq(1..MaxOutput)
      /\ chan[c] \in Seq(Nat) /\ seen[c] \in Seq(Nat)
  <2>1. chan[c] \in Seq(1..MaxOutput) /\ Len(chan[c]) <= Slots /\ seen[c] \in Seq(1..MaxOutput)
    BY <1>0, BufferType DEF CallTypeOK, Buffers
  <2> QED  BY <2>1, SeqDef DEF CallAssumption
<1>6. /\ InOrder(seen[c], Append(chan[c], pushed'[c])) /\ InOrder(seen[c], chan[c])
      /\ UpTo(pushed'[c], Append(chan[c], pushed'[c]))
      /\ UpTo(pushed'[c], seen[c]) /\ UpTo(pushed'[c], chan[c])
  BY <1>0, <1>8, <1>9, OutputArrives DEF CallSound, Flowing
<1>10. /\ Append(chan[c], pushed'[c]) \in Seq(1..MaxOutput)
       /\ Len(Append(chan[c], pushed'[c])) = Len(chan[c]) + 1 /\ Len(chan[c]) \in Nat
  BY <1>8, <1>9, Appended
<1>11. /\ chan' \in [Call -> Buffers] /\ trunc' \in [Call -> BOOLEAN]
       /\ \A x \in Call : x # c => chan'[x] = chan[x] /\ trunc'[x] = trunc[x]
       /\ InOrder(seen[c], chan'[c]) /\ UpTo(pushed'[c], chan'[c])
       /\ c \in subscribed /\ ~ trunc'[c] => ~ trunc[c] /\ Len(chan'[c]) = Len(chan[c]) + 1
       /\ c \notin subscribed => chan' = chan /\ trunc' = trunc
  <2>0. chan \in [Call -> Buffers] /\ trunc \in [Call -> BOOLEAN]
    BY <1>0 DEF CallTypeOK, Buffers
  <2>1. CASE c \notin subscribed
    <3>1. chan' = chan /\ trunc' = trunc
      BY <2>1 DEF PushOutput, waiter
    <3> QED  BY <1>6, <2>0, <2>1, <3>1
  <2>2. CASE c \in subscribed /\ Len(chan[c]) < Slots
    <3>1. chan' = [chan EXCEPT ![c] = Append(@, pushed'[c])] /\ trunc' = trunc
      BY <2>2 DEF PushOutput
    <3>2. Append(chan[c], pushed'[c]) \in Buffers
      <4>1. Len(Append(chan[c], pushed'[c])) <= Slots
        BY <1>10, <2>2 DEF CallAssumption
      <4> QED  BY <1>10, <4>1, BufferType
    <3>3. /\ chan' \in [Call -> Buffers] /\ chan'[c] = Append(chan[c], pushed'[c])
          /\ \A x \in Call : x # c => chan'[x] = chan[x]
      BY <2>0, <3>1, <3>2
    <3> QED  BY <1>6, <1>10, <2>0, <2>2, <3>1, <3>3
  <2>3. CASE c \in subscribed /\ ~ (Len(chan[c]) < Slots)
    <3>1. chan' = chan /\ trunc' = [trunc EXCEPT ![c] = TRUE]
      BY <2>3 DEF PushOutput, Overflowed
    <3>2. trunc' \in [Call -> BOOLEAN] /\ trunc'[c] /\ \A x \in Call : x # c => trunc'[x] = trunc[x]
      BY <2>0, <3>1
    <3>3. chan' = chan
      BY <3>1
    <3> QED  BY <1>6, <2>0, <2>3, <3>2, <3>3
  <2> QED  BY <2>1, <2>2, <2>3
<1>5. Calm /\ (change = "done" => ~ Up)'
  BY <1>1 DEF Calm, Up, CallIInv
<1>2. CallTypeOK'
  BY <1>0, <1>1, <1>8, <1>11 DEF CallTypeOK, Buffers
<1>3. CallSound(c)'
  <2>1. Sending(c)'
    BY <1>0, <1>1 DEF CallSound, Sending
  <2>2. Ending(c)'
    BY <1>0, <1>1, <1>11 DEF CallSound, Ending, Finished, Up
  <2>3. Flowing(c)'
    <3>1. c \in subscribed /\ ~ trunc'[c] => Len(seen[c]) + Len(chan'[c]) = pushed'[c]
      <4>1. Len(seen[c]) \in Nat /\ Len(chan[c]) \in Nat
        BY <1>9, LenProperties
      <4>2. c \in subscribed /\ ~ trunc[c] => Len(seen[c]) + Len(chan[c]) = pushed[c]
        BY <1>0 DEF CallSound, Flowing
      <4>3. c \in subscribed /\ ~ trunc'[c] => ~ trunc[c] /\ Len(chan'[c]) = Len(chan[c]) + 1
        BY <1>11
      <4>4. pushed'[c] = pushed[c] + 1 /\ pushed[c] \in Nat
        BY <1>8
      <4>5. ASSUME c \in subscribed, ~ trunc'[c] PROVE Len(seen[c]) + Len(chan'[c]) = pushed'[c]
        <5>1. Len(chan'[c]) = Len(chan[c]) + 1 /\ Len(seen[c]) + Len(chan[c]) = pushed[c]
          BY <4>2, <4>3, <4>5
        <5>2. \A a, b, p \in Nat : a + b = p => a + (b + 1) = p + 1
          OBVIOUS
        <5>3. Len(seen[c]) + (Len(chan[c]) + 1) = pushed[c] + 1
          BY <4>1, <4>4, <5>1, <5>2
        <5> QED  BY <4>4, <5>1, <5>3, Zenon
      <4> QED  BY <4>5
    <3> QED  BY <1>1, <1>6, <1>11, <3>1 DEF Flowing
  <2>4. Sweeping(c)'
    BY <1>0, <1>1, <1>5, SweepingKept DEF CallSound
  <2> QED  BY <2>1, <2>2, <2>3, <2>4 DEF CallSound
<1>4. ASSUME NEW x \in Call, x # c PROVE CallSound(x)'
  <2>1. Same(x) /\ swept' = swept
    BY <1>0, <1>1, <1>4, <1>8, <1>11 DEF Same
  <2> QED  BY <1>5, <2>1, SameKept DEF CallIInv
<1> QED  BY <1>2, <1>3, <1>4, <1>5 DEF CallIInv

LEMMA PushTerminalSound ==
  ASSUME CallAssumption, CallIInv, NEW c \in Call, Dispatch(c), PushTerminal(c)
  PROVE  CallIInv'
<1>0. CallTypeOK /\ CallSound(c) /\ c \in sent /\ c \notin answered
  BY DEF CallIInv, CallSound, Sending, Unsent, Dispatch
<1>1. /\ UNCHANGED <<closed, stalled, swept, call, sent, cancelling, subscribed, conn, reader, change, due, wire,
                     chan, trunc, pushed, seen, reply>>
      /\ answered' = answered \cup {c}
  BY DEF Dispatch, PushTerminal, link, result
<1>6. PICK end \in {"exit", "error"} : Finish({c} \cap subscribed, end)
  BY DEF PushTerminal
<1>9. \A x \in Call : Ending(x)
  BY DEF CallIInv, CallSound
<1>7. /\ term' \in [Call -> End \cup {"taken"}] /\ closes' \in [Call -> 0..1]
      /\ \A x \in Call :
           \/ term'[x] = term[x] /\ closes'[x] = closes[x]
           \/ /\ x = c /\ closes'[x] = 1 /\ ~ Finished(x)
              /\ term'[x] \in {"exit", "exit_truncated", "error"}
              /\ term'[x] = "exit" => ~ trunc[x]
  BY <1>0, <1>6, <1>9, Finishes
<1>5. Calm /\ (change = "done" => ~ Up)'
  BY <1>1 DEF Calm, Up, CallIInv
<1>2. CallTypeOK'
  BY <1>0, <1>1, <1>7 DEF CallTypeOK
<1>3. CallSound(c)'
  <2>1. Sending(c)'
    BY <1>0, <1>1 DEF CallSound, Sending
  <2>2. Ending(c)'
    BY <1>0, <1>1, <1>7 DEF CallSound, Ending, Finished, Up
  <2>3. Flowing(c)'
    BY <1>0, <1>1, FlowingKept DEF CallSound
  <2>4. Sweeping(c)'
    BY <1>0, <1>1 DEF CallSound, Sweeping, Cancelled, Up
  <2> QED  BY <2>1, <2>2, <2>3, <2>4 DEF CallSound
<1>4. ASSUME NEW x \in Call, x # c PROVE CallSound(x)'
  <2>1. Same(x) /\ swept' = swept
    BY <1>0, <1>1, <1>4, <1>7 DEF Same
  <2> QED  BY <1>5, <2>1, SameKept DEF CallIInv
<1> QED  BY <1>2, <1>3, <1>4, <1>5 DEF CallIInv

(* Failing the waiters of a connection that is down, or about to be closed,
   ends no call that was not answered without saying so. *)
LEMMA FailWaitersSound ==
  ASSUME CallAssumption, CallIInv, FailWaiters, Calm, ~ Up' \/ change' = "failed", 
         reader' \in {"reading", "failing", "done"}, change' \in {"none", "taken", "failed", "done"},
         change' = "done" => ~ Up',
         UNCHANGED <<closed, stalled, swept, call, sent, cancelling, subscribed, conn, due, relay, result>>
  PROVE  CallIInv'
<1>0. CallTypeOK /\ \A x \in Call : CallSound(x) /\ Ending(x)
  BY DEF CallIInv, CallSound
<1>1. UNCHANGED <<closed, stalled, swept, call, sent, cancelling, subscribed, conn, due, wire, chan, trunc,
                  pushed, answered, seen, reply>>
  BY DEF FailWaiters, relay, result
<1>7. /\ term' \in [Call -> End \cup {"taken"}] /\ closes' \in [Call -> 0..1]
      /\ \A x \in Call :
           \/ term'[x] = term[x] /\ closes'[x] = closes[x]
           \/ closes'[x] = 1 /\ term'[x] = "error"
  BY <1>0, Finishes DEF FailWaiters
<1>2. CallTypeOK'
  BY <1>0, <1>1, <1>7 DEF CallTypeOK
<1>3. ASSUME NEW x \in Call PROVE CallSound(x)'
  <2>1. Sending(x)'
    BY <1>0, <1>1, SendingKept DEF CallSound
  <2>2. Ending(x)'
    BY <1>0, <1>1, <1>7 DEF Ending, Finished, Calm
  <2>3. Flowing(x)'
    BY <1>0, <1>1, FlowingKept DEF CallSound
  <2>4. Sweeping(x)'
    BY <1>0, <1>1, SweepingKept DEF CallSound
  <2> QED  BY <2>1, <2>2, <2>3, <2>4 DEF CallSound
<1> QED  BY <1>2, <1>3 DEF CallIInv

(* A step that touches no call's own state and leaves the sweeps alone. *)
LEMMA QuietSound ==
  ASSUME CallAssumption, CallIInv, CallTypeOK', Calm, change' = "done" => ~ Up', swept' = swept,
         UNCHANGED <<call, sent, subscribed, waiter, relay, result>>,
         cancelling \subseteq cancelling'
  PROVE  CallIInv'
<1>1. UNCHANGED <<call, sent, subscribed, chan, trunc, term, closes, wire, pushed, answered, seen, reply>>
  BY DEF waiter, relay, result
<1>2. ASSUME NEW x \in Call PROVE CallSound(x)'
  <2>1. Same(x)
    BY <1>1 DEF Same
  <2> QED  BY <2>1, SameKept DEF CallIInv
<1> QED  BY <1>2 DEF CallIInv

(* A cancel of a call whose mutex is free. *)
LEMMA CancelSound ==
  ASSUME CallAssumption, CallIInv, NEW c \in Call, c \notin Locked, CancelSent(c),
         cancelling' \in {cancelling, cancelling \ {c}}, due' \subseteq Call,
         UNCHANGED <<closed, stalled, swept, call, sent, subscribed, waiter, conn, reader, change,
                     pushed, answered, result>>
  PROVE  CallIInv'
<1>0. CallTypeOK /\ CallSound(c) /\ call[c] \notin {"tracked", "subscribed"}
  BY DEF CallIInv, Locked
<1>1. UNCHANGED <<closed, stalled, swept, call, sent, subscribed, chan, trunc, term, closes, conn, reader, change,
                  pushed, answered, seen, reply>>
  BY DEF waiter, result
<1>6. /\ wire' \in [Call -> Seq({"invoke", "cancel"})]
      /\ \A x \in Call : x # c => wire'[x] = wire[x]
      /\ wire[c] # <<>> => wire'[c] # <<>> /\ Head(wire'[c]) = Head(wire[c])
      /\ c \in sent /\ Up => Cancelled(c)'
      /\ c \notin sent => wire' = wire
      /\ Cancelled(c) => Cancelled(c)'
  BY <1>0, CancelGoesOut
<1>5. Calm /\ (change = "done" => ~ Up)'
  BY <1>1 DEF Calm, Up, CallIInv
<1>2. CallTypeOK'
  BY <1>0, <1>1, <1>6 DEF CallTypeOK
<1>3. CallSound(c)'
  <2>1. Sending(c)'
    BY <1>0, <1>1, <1>6 DEF CallSound, Sending, Unsent
  <2>2. Ending(c)'
    BY <1>0, <1>1, <1>5, EndingKept DEF CallSound
  <2>3. Flowing(c)'
    BY <1>0, <1>1, FlowingKept DEF CallSound
  <2>4. Sweeping(c)'
    BY <1>0, <1>1, <1>6 DEF CallSound, Sweeping, Sending, Up
  <2> QED  BY <2>1, <2>2, <2>3, <2>4 DEF CallSound
<1>4. ASSUME NEW x \in Call, x # c PROVE CallSound(x)'
  <2>1. Same(x) /\ swept' = swept
    BY <1>1, <1>4, <1>6 DEF Same
  <2> QED  BY <1>5, <2>1, SameKept DEF CallIInv
<1> QED  BY <1>2, <1>3, <1>4, <1>5 DEF CallIInv

(* The sweep of a head that went away finds every call of it that is under way. *)
LEMMA SweepSound ==
  ASSUME CallAssumption, CallIInv, NEW h \in IpcConn, CancelAllForConn(h)
  PROVE  CallIInv'
<1>0. CallTypeOK
  BY DEF CallIInv
<1>1. /\ swept' = swept \cup {h} /\ h \in closed
      /\ cancelling' = cancelling \cup {c \in Registered : OwnerOf[c] = h}
      /\ UNCHANGED <<closed, stalled, call, sent, subscribed, chan, trunc, term, closes, conn, reader, change, due,
                     wire, pushed, answered, seen, reply>>
  BY DEF CancelAllForConn, waiter, link, relay, result
<1>2. CallTypeOK'
  BY <1>0, <1>1 DEF CallTypeOK, Registered
<1>5. Calm /\ (change = "done" => ~ Up)'
  BY <1>1 DEF Calm, Up, CallIInv
<1>3. ASSUME NEW x \in Call PROVE CallSound(x)'
  <2>0. CallSound(x)
    BY DEF CallIInv
  <2>1. Sending(x)'
    BY <2>0, <1>1, SendingKept DEF CallSound
  <2>2. Ending(x)'
    BY <2>0, <1>1, <1>5, EndingKept DEF CallSound
  <2>3. Flowing(x)'
    BY <2>0, <1>1, FlowingKept DEF CallSound
  <2>4. Sweeping(x)'
    <3>1. OwnerOf[x] = h /\ call[x] \in {"tracked", "subscribed", "sent", "writing", "consuming"}
            => x \in cancelling'
      BY <1>1 DEF Registered
    <3> QED  BY <2>0, <1>1, <3>1 DEF CallSound, Sweeping, Cancelled, Up
  <2> QED  BY <2>1, <2>2, <2>3, <2>4 DEF CallSound
<1> QED  BY <1>2, <1>3, <1>5 DEF CallIInv
-----------------------------------------------------------------------------
LEMMA CallStepSound ==
  ASSUME CallAssumption, CallIInv, [CallNext]_callVars
  PROVE  CallIInv'
<1>0. CallTypeOK
  BY DEF CallIInv
<1>1. ASSUME NEW c \in Call, CallStep(c) PROVE CallIInv'
  BY <1>1, BeginSound, AwaitSound, SendInvokeSound, SendFailsSound, AnnounceSound, TakeOutputSound,
     WriteOutputSound, TakeTerminalSound, LeaveSound DEF CallStep, WritesToHead
<1>2. ASSUME NEW c \in Call, Dispatch(c) PROVE CallIInv'
  BY <1>2, PushOutputSound, PushTerminalSound DEF Dispatch
<1>3. ASSUME NEW c \in Call, IpcCancel(c) PROVE CallIInv'
  <2>1. cancelling' = cancelling \cup {c}
        /\ UNCHANGED <<closed, stalled, swept, call, sent, subscribed, waiter, link, relay, result>>
    BY <1>3 DEF IpcCancel
  <2>2. CallTypeOK'
    BY <1>0, <2>1 DEF CallTypeOK, waiter, link, relay, result
  <2>3. Calm /\ (change' = "done" => ~ Up')
    BY <2>1 DEF Calm, Up, CallIInv, link
  <2> QED  BY <2>1, <2>2, <2>3, QuietSound
<1>4. ASSUME NEW c \in Call, CancelRemote(c) PROVE CallIInv'
  <2>1. /\ c \notin Locked /\ CancelSent(c) /\ cancelling' = cancelling \ {c}
        /\ UNCHANGED <<closed, stalled, swept, call, sent, subscribed, waiter, conn, reader, change, due,
                       pushed, answered, result>>
    BY <1>4 DEF CancelRemote, MayCancel, link
  <2>2. due' \subseteq Call
    BY <1>0, <2>1 DEF CallTypeOK
  <2> QED  BY <2>1, <2>2, CancelSound
<1>5. ASSUME NEW h \in IpcConn, HeadCloses(h) \/ HeadStalls(h) \/ HeadReads(h) PROVE CallIInv'
  <2>1. closed' \in {closed, closed \cup {h}} /\ stalled' \in {stalled \cup {h}, stalled \ {h}}
        /\ UNCHANGED <<swept, call, sent, cancelling, subscribed, waiter, link, relay, result>>
    BY <1>5 DEF HeadCloses, HeadStalls, HeadReads
  <2>2. CallTypeOK'
    BY <1>0, <2>1 DEF CallTypeOK, waiter, link, relay, result
  <2>3. Calm /\ (change' = "done" => ~ Up')
    BY <2>1 DEF Calm, Up, CallIInv, link
  <2> QED  BY <2>1, <2>2, <2>3, QuietSound
<1>6. ASSUME NEW h \in IpcConn, CancelAllForConn(h) PROVE CallIInv'
  BY <1>6, SweepSound
<1>7. CASE ConnBreaks
  <2>1. conn' = "broken" /\ UNCHANGED <<closed, stalled, swept, call, sent, cancelling, subscribed, waiter,
                                        reader, change, due, relay, result>>
    BY <1>7 DEF ConnBreaks
  <2>2. CallTypeOK'
    BY <1>0, <2>1 DEF CallTypeOK, waiter, relay, result
  <2>3. Calm /\ (change' = "done" => ~ Up')
    BY <2>1 DEF Calm, Up
  <2> QED  BY <2>1, <2>2, <2>3, QuietSound
<1>8. CASE ReadFails
  <2>1. /\ FailWaiters /\ ~ Up /\ reader' = "failing"
        /\ UNCHANGED <<closed, stalled, swept, call, sent, cancelling, subscribed, conn, change, due, relay, result>>
    BY <1>8 DEF ReadFails
  <2>2. Calm /\ ~ Up' /\ change' \in {"none", "taken", "failed", "done"}
    BY <1>0, <2>1 DEF Calm, Up, CallTypeOK
  <2> QED  BY <2>1, <2>2, FailWaitersSound
<1>9. CASE ReaderDrops
  <2>1. conn' = "closed" /\ reader' = "done"
        /\ UNCHANGED <<closed, stalled, swept, call, sent, cancelling, subscribed, waiter, change, due, relay, result>>
    BY <1>9 DEF ReaderDrops
  <2>2. CallTypeOK'
    BY <1>0, <2>1 DEF CallTypeOK, waiter, relay, result
  <2>3. Calm /\ (change' = "done" => ~ Up')
    BY <2>1 DEF Calm, Up
  <2> QED  BY <2>1, <2>2, <2>3, QuietSound
<1>10. CASE ChangeTakes
  <2>1. change = "none" /\ change' = "taken" /\ due' \in {{}, Registered}
        /\ UNCHANGED <<closed, stalled, swept, call, sent, cancelling, subscribed, waiter, conn, reader, relay, result>>
    BY <1>10 DEF ChangeTakes
  <2>2. CallTypeOK'
    BY <1>0, <2>1 DEF CallTypeOK, waiter, relay, result, Registered
  <2>3. Calm /\ (change' = "done" => ~ Up')
    BY <2>1 DEF Calm, Up
  <2> QED  BY <2>1, <2>2, <2>3, QuietSound
<1>11. CASE ChangeFails
  <2>1. /\ FailWaiters /\ change' = "failed" /\ change = "taken"
        /\ UNCHANGED <<closed, stalled, swept, call, sent, cancelling, subscribed, conn, reader, due, relay, result>>
    BY <1>11 DEF ChangeFails
  <2>2. Calm /\ reader' \in {"reading", "failing", "done"}
    BY <1>0, <2>1 DEF Calm, Up, CallTypeOK
  <2> QED  BY <2>1, <2>2, FailWaitersSound
<1>12. CASE ChangeCloses
  <2>1. change' = "done" /\ conn' = "closed"
        /\ UNCHANGED <<closed, stalled, swept, call, sent, cancelling, subscribed, waiter, reader, due, relay, result>>
    BY <1>12 DEF ChangeCloses
  <2>2. CallTypeOK'
    BY <1>0, <2>1 DEF CallTypeOK, waiter, relay, result
  <2>3. Calm /\ (change' = "done" => ~ Up')
    BY <2>1 DEF Calm, Up
  <2> QED  BY <2>1, <2>2, <2>3, QuietSound
<1>13. ASSUME NEW c \in Call, ChangeCancels(c) PROVE CallIInv'
  <2>1. /\ c \notin Locked /\ CancelSent(c) /\ due' = due \ {c}
        /\ UNCHANGED <<closed, stalled, swept, call, sent, cancelling, subscribed, waiter, conn, reader, change,
                       pushed, answered, result>>
    BY <1>13 DEF ChangeCancels
  <2>2. due' \subseteq Call
    BY <1>0, <2>1 DEF CallTypeOK
  <2> QED  BY <2>1, <2>2, CancelSound
<1>14. CASE UNCHANGED callVars
  <2>1. UNCHANGED <<closed, stalled, swept, call, sent, cancelling, subscribed, waiter, link, relay, result>>
    BY <1>14 DEF callVars
  <2>2. CallTypeOK'
    BY <1>0, <2>1 DEF CallTypeOK, waiter, link, relay, result
  <2>3. Calm /\ (change' = "done" => ~ Up')
    BY <2>1 DEF Calm, Up, CallIInv, link
  <2> QED  BY <2>1, <2>2, <2>3, QuietSound
<1> QED
  BY <1>1, <1>2, <1>3, <1>4, <1>5, <1>6, <1>7, <1>8, <1>9, <1>10, <1>11, <1>12, <1>13, <1>14
  DEF CallNext, Reads, ChangeStep, Over

LEMMA CallInitSound == ASSUME CallAssumption, CallInit PROVE CallIInv
<1>1. CallTypeOK
  <2>1. <<>> \in Seq(1..MaxOutput) /\ <<>> \in Seq({"invoke", "cancel"}) /\ Len(<<>>) = 0
    OBVIOUS
  <2>2. Len(<<>>) <= Slots
    BY <2>1 DEF CallAssumption
  <2>3. <<>> \in Buffers
    BY <2>1, <2>2, BufferType
  <2>4. /\ chan = [c \in Call |-> <<>>] /\ wire = [c \in Call |-> <<>>] /\ seen = [c \in Call |-> <<>>]
    BY DEF CallInit
  <2>5. chan \in [Call -> Buffers] /\ wire \in [Call -> Seq({"invoke", "cancel"})]
        /\ seen \in [Call -> Seq(1..MaxOutput)]
    BY <2>1, <2>3, <2>4
  <2>6. pushed \in [Call -> 0..MaxOutput]
    BY DEF CallInit, CallAssumption
  <2> QED  BY <2>5, <2>6 DEF CallInit, CallTypeOK, Buffers, End
<1>2. ASSUME NEW c \in Call PROVE CallSound(c)
  BY EmptySeq DEF CallInit, CallSound, Sending, Unsent, Ending, Finished, Flowing, InOrder, Increasing,
                  UpTo, Sweeping
<1> QED  BY <1>1, <1>2 DEF CallIInv, CallInit

(* What is known of every call, wherever its worker, the link's reader and the
   Relay's answers are: each message sent is in one of a few places, in order
   (forwardInvoke, dispatchInvoke, execWaiter). *)
THEOREM CallInvariant == ASSUME CallAssumption PROVE CallSpec => []CallIInv
<1>1. CallInit => CallIInv
  BY CallInitSound
<1>2. CallIInv /\ [CallNext]_callVars => CallIInv'
  BY CallStepSound
<1> QED  BY <1>1, <1>2, PTL DEF CallSpec

(* Nothing of a call is cancelled before it is sent, no waiter is finished
   twice, and what the head of a call left behind is cancelled (forwardInvoke,
   cancelRemote, cancelAllForConn). *)
THEOREM CallSafe == ASSUME CallAssumption PROVE CallSpec => []CallInv
<1>1. ASSUME CallIInv PROVE CallInv
  <2>1. ASSUME NEW c \in Call, wire[c] # <<>> PROVE c \in sent /\ Head(wire[c]) = "invoke"
    BY <1>1, <2>1 DEF CallIInv, CallSound, Sending, Unsent
  <2>2. CancelFollowsInvoke
    BY <2>1 DEF CancelFollowsInvoke
  <2>3. ASSUME NEW c \in Call, OwnerOf[c] \in swept, c \notin cancelling, Up, change # "failed",
               wire[c] # <<>>, c \notin answered
        PROVE  Cancelled(c)
    <3>1. CallSound(c) /\ CallTypeOK
      BY <1>1 DEF CallIInv
    <3>2. call[c] \in {"sent", "writing", "consuming", "leaving", "ended"}
      BY <2>1, <2>3, <3>1 DEF CallSound, Sending, CallTypeOK
    <3> QED  BY <2>1, <2>3, <3>1, <3>2 DEF CallSound, Sweeping
  <2>4. NothingRunsForNobody
    BY <2>3 DEF NothingRunsForNobody, Cancelled
  <2> QED  BY <1>1, <2>2, <2>4 DEF CallInv, CallIInv
<1> QED  BY <1>1, CallInvariant, PTL

(* An exit that claims the output is complete comes after all of it, in order
   (execWaiter.next, finish). *)
THEOREM CallHonest == ASSUME CallAssumption PROVE CallSpec => []CallIsHonest
<1>1. ASSUME CallIInv PROVE ExitIsHonest
  BY <1>1 DEF CallIInv, CallSound, Flowing, InOrder, Increasing, Ending, ExitIsHonest
<1> QED  BY <1>1, CallInvariant, CallSafe, PTL DEF CallIsHonest

(***************************************************************************)
(* HandoffManager                                                          *)
(***************************************************************************)

(* The phases before a launch, and those after the end of the CLI. *)
Before == {"authorising", "preflight", "probing", "accepting", "launching"}
Finishing == {"ended", "released", "leaving"}
SessionAt(r) == SessionOf[items[r].content]

(* Memory has no receipt that the disk has not, and is the disk unless a write
   failed. *)
StoresAgree ==
  /\ DOMAIN items \subseteq DOMAIN receipts
  /\ \A r \in DOMAIN items : receipts[r].content = items[r].content
  /\ ~ err => receipts = items

(* What a worker relies on: its receipt, unfinished until it leaves and launched
   only from its launch on; the slot of the ledger that covers it until its
   release; and no other process in its session. *)
WorkerSound(k) ==
  LET w == active[k]
      r == active[k].request
  IN  /\ r \in DOMAIN items /\ SessionAt(r) = k
      /\ w.phase # "leaving" => items[r].state \in NonTerminal /\ receipts[r].state \in NonTerminal
      /\ w.phase \in Before => launched[r] = 0
      /\ w.phase \notin Finishing => ~ w.doubt
      /\ r \in procs => w.phase \in {"probing", "reading"} \/ w.doubt
      /\ w.phase \notin {"released", "leaving"} => slots[JobOf(r, items[r].content)] \in {"reserved", "occupied"}
      /\ w.phase \in {"released", "leaving"} /\ w.result \in {"completed", "failed"} => r \in settled /\ ~ w.doubt
      /\ \A s \in procs : SessionAt(s) = k => s = r

(* A process is the only one of its session, and the ledger knows of it. *)
ProcSound(s) ==
  /\ s \in DOMAIN items /\ slots[JobOf(s, items[s].content)] \in {"occupied", "uncertain"}
  /\ \A r \in procs : SessionAt(r) = SessionAt(s) => r = s

(* What was received under another context has an older generation. *)
TicketSound(t) ==
  t.nr <= received /\ t.generation <= generation /\ (t.nr \in outdated => t.generation < generation)

(* The inductive invariant: a request is launched once at most, and only if it
   has a receipt. *)
HandoffIInv ==
  /\ HandoffTypeOK /\ StoresAgree /\ SessionBound /\ EndIsSettled /\ WorkersAllowed
  /\ \A k \in DOMAIN active : WorkerSound(k)
  /\ \A s \in procs : ProcSound(s)
  /\ \A r \in Request : launched[r] <= 1 /\ (launched[r] = 1 => r \in DOMAIN items)
  /\ runtime \in {"closed", "dead"} => active = Nothing
  /\ \A t \in tickets : TicketSound(t)
  /\ outdated \subseteq 1..received /\ (DOMAIN receipts # {} => received # 0)
-----------------------------------------------------------------------------
(* What a worker becomes. *)
LEMMA WorkerFields ==
  ASSUME NEW w \in Worker
  PROVE  /\ w.phase \in Phase /\ w.request \in Request /\ w.ctx \in {"live", "revoked", "over"}
         /\ w.result \in Terminal /\ w.doubt \in BOOLEAN
  BY DEF Worker

(* Two workers that differ in these fields at most. *)
AlikeBut(v, w, fields) ==
  /\ v \in Worker /\ v.request = w.request
  /\ "phase" \notin fields => v.phase = w.phase
  /\ "ctx" \notin fields => v.ctx = w.ctx
  /\ "result" \notin fields => v.result = w.result
  /\ "doubt" \notin fields => v.doubt = w.doubt

LEMMA PhaseField ==
  ASSUME NEW w \in Worker, NEW p \in Phase, NEW v, v = [w EXCEPT !.phase = p]
  PROVE  AlikeBut(v, w, {"phase"}) /\ v.phase = p
  BY DEF Worker, AlikeBut

LEMMA CtxField ==
  ASSUME NEW w \in Worker, NEW c \in {"live", "revoked", "over"}, NEW v, v = [w EXCEPT !.ctx = c]
  PROVE  AlikeBut(v, w, {"ctx"}) /\ v.ctx = c
  BY DEF Worker, AlikeBut

LEMMA DoubtField ==
  ASSUME NEW w \in Worker, NEW v, v = [w EXCEPT !.doubt = TRUE]
  PROVE  AlikeBut(v, w, {"doubt"}) /\ v.doubt
  BY DEF Worker, AlikeBut

LEMMA ResultFields ==
  ASSUME NEW w \in Worker, NEW res \in Terminal, NEW v, v = Result(w, res) \/ v = EndsUnknown(w)
  PROVE  AlikeBut(v, w, {"phase", "result"}) /\ v.phase = "ended"
  BY DEF Worker, AlikeBut, Result, EndsUnknown, Terminal, Phase

LEMMA ReleasedFields ==
  ASSUME NEW w \in Worker, NEW confirmed \in BOOLEAN, NEW v, v = Released(w, confirmed)
  PROVE  AlikeBut(v, w, {"phase", "result"}) /\ v.phase = "released" /\ (~ confirmed => v.result = "unknown")
  BY DEF Worker, AlikeBut, Released, Terminal, Phase

JobState == {"none", "reserved", "occupied", "uncertain"}

(* A session names one worker and one request: the job of a process that is
   not the worker's own is another one. *)
LEMMA OwnJob ==
  ASSUME HandoffAssumption, HandoffIInv, NEW k \in DOMAIN active
  PROVE  /\ active[k] \in Worker /\ active[k].request \in Request /\ k \in Session
         /\ active[k].request \in DOMAIN items /\ items[active[k].request] \in Receipt
         /\ JobAt(k) = <<active[k].request[1], k>> /\ JobAt(k) \in Job
         /\ \A s \in procs : s # active[k].request => JobOf(s, items[s].content) # JobAt(k)
         /\ \A x \in DOMAIN active : x # k => JobAt(x) # JobAt(k) /\ active[x].request # active[k].request
         /\ runtime \in {"up", "stopping"} /\ WorkerSound(k)
<1> DEFINE r == active[k].request
<1>1. WorkerSound(k) /\ HandoffTypeOK
  BY DEF HandoffIInv
<1>2. active[k] \in Worker /\ r \in Request /\ k \in Session
  BY <1>1, WorkerFields DEF HandoffTypeOK
<1>3. r \in DOMAIN items /\ SessionAt(r) = k /\ items[r] \in Receipt
  BY <1>1 DEF WorkerSound, HandoffTypeOK
<1>4. JobAt(k) = <<r[1], k>>
  BY <1>3 DEF JobAt, JobOf, Req, SessionAt
<1>5. JobAt(k) \in Job
  BY <1>2, <1>4 DEF Job, Request
<1>6. ASSUME NEW s \in procs, s # r PROVE JobOf(s, items[s].content) # JobAt(k)
  <2>1. SessionAt(s) # k
    BY <1>1, <1>6 DEF WorkerSound
  <2> QED  BY <1>4, <2>1 DEF JobOf, SessionAt
<1>7. ASSUME NEW x \in DOMAIN active, x # k PROVE JobAt(x) # JobAt(k) /\ active[x].request # r
  <2>1. WorkerSound(x)
    BY DEF HandoffIInv
  <2>2. SessionAt(active[x].request) = x
    BY <2>1 DEF WorkerSound
  <2>3. JobAt(x) = <<active[x].request[1], x>>
    BY <2>2 DEF JobAt, JobOf, Req, SessionAt
  <2> QED  BY <1>3, <1>4, <1>7, <2>2, <2>3
<1>8. runtime \in {"up", "stopping"}
  <2>1. active # Nothing
    BY DEF Nothing
  <2> QED  BY <1>1, <2>1 DEF HandoffIInv, HandoffTypeOK
<1> QED  BY <1>1, <1>2, <1>3, <1>4, <1>5, <1>6, <1>7, <1>8

(* A step of a worker that writes no receipt. *)
LEMMA WorkerMoves ==
  ASSUME HandoffAssumption, HandoffIInv, NEW k \in DOMAIN active, NEW w \in Worker, Step(k, w),
         w.request = active[k].request, w.ctx = "live" => active[k].ctx = "live",
         w.phase # "leaving" => active[k].phase # "leaving",
         UNCHANGED <<receiptStore, Others, outdated>>,
         slots' \in [Job -> JobState], ledgerErr' \in BOOLEAN,
         \A j \in Job : j # JobAt(k) => slots'[j] = slots[j],
         procs' \subseteq procs \cup {active[k].request}, procs' # procs => active[k].phase # "leaving",
         settled' \in {settled, settled \cup {active[k].request}},
         launched' = launched \/
           (active[k].phase \in Before /\ launched' = [launched EXCEPT ![active[k].request] = @ + 1]),
         w.phase \in Before => launched' = launched /\ active[k].phase \in Before,
         w.phase \notin Finishing => ~ w.doubt,
         active[k].request \in procs' =>
           /\ w.phase \in {"probing", "reading"} \/ w.doubt
           /\ slots'[JobAt(k)] \in {"occupied", "uncertain"},
         w.phase \notin {"released", "leaving"} => slots'[JobAt(k)] \in {"reserved", "occupied"},
         w.phase \in {"released", "leaving"} /\ w.result \in {"completed", "failed"}
           => active[k].request \in settled' /\ ~ w.doubt
  PROVE  HandoffIInv'
<1> DEFINE r == active[k].request
<1>0. /\ HandoffTypeOK /\ StoresAgree /\ SessionBound /\ EndIsSettled /\ WorkersAllowed
      /\ \A s \in procs : ProcSound(s)
      /\ \A x \in DOMAIN active : WorkerSound(x)
      /\ \A q \in Request : launched[q] <= 1 /\ (launched[q] = 1 => q \in DOMAIN items)
      /\ \A t \in tickets : TicketSound(t)
      /\ outdated \subseteq 1..received /\ (DOMAIN receipts # {} => received # 0)
  BY DEF HandoffIInv
<1>1. /\ active[k] \in Worker /\ r \in Request /\ k \in Session /\ r \in DOMAIN items
      /\ JobAt(k) \in Job /\ WorkerSound(k) /\ runtime \in {"up", "stopping"}
  BY OwnJob
<1>2. /\ \A s \in procs : s # r => JobOf(s, items[s].content) # JobAt(k)
      /\ \A x \in DOMAIN active : x # k => JobAt(x) # JobAt(k) /\ active[x].request # r
  BY OwnJob
<1>3. DOMAIN active' = DOMAIN active /\ active'[k] = w /\ \A x \in DOMAIN active : x # k => active'[x] = active[x]
  BY DEF Step
<1>4. UNCHANGED <<receipts, items, err, runtime, restarts, device, generation, tickets, received, outdated>>
  BY DEF receiptStore, Others
<1>5. launched \in [Request -> 0..MaxTicket]
  BY <1>0 DEF HandoffTypeOK
<1>6. /\ launched' \in [Request -> 0..MaxTicket] /\ \A q \in Request : q # r => launched'[q] = launched[q]
      /\ launched'[r] \in {0, 1} /\ (w.phase \in Before => launched'[r] = 0)
  <2>1. CASE launched' = launched
    <3>1. launched[r] \in {0, 1}
      BY <1>0, <1>1, <1>5 DEF HandoffAssumption
    <3>2. w.phase \in Before => launched[r] = 0
      BY <1>1 DEF WorkerSound
    <3> QED  BY <1>5, <2>1, <3>1, <3>2
  <2>2. CASE launched' # launched
    <3>1. launched' = [launched EXCEPT ![r] = @ + 1] /\ active[k].phase \in Before
      BY <2>2
    <3>2. launched[r] = 0
      BY <1>1, <3>1 DEF WorkerSound
    <3>3. 1 \in 0..MaxTicket
      <4>1. DOMAIN receipts # {}
        BY <1>0, <1>1 DEF StoresAgree
      <4>2. received \in 0..MaxTicket /\ received # 0
        BY <1>0, <4>1 DEF HandoffTypeOK
      <4> QED  BY <4>2 DEF HandoffAssumption
    <3>4. launched' \in [Request -> 0..MaxTicket] /\ launched'[r] = 1
          /\ \A q \in Request : q # r => launched'[q] = launched[q]
      BY <1>1, <1>5, <3>1, <3>2, <3>3
    <3> QED  BY <2>2, <3>4
  <2> QED  BY <2>1, <2>2
<1>7. \A q \in Request : launched'[q] <= 1 /\ (launched'[q] = 1 => q \in DOMAIN items')
  <2> TAKE q \in Request
  <2>1. CASE q = r
    BY <1>1, <1>4, <1>6, <2>1
  <2>2. CASE q # r
    BY <1>0, <1>4, <1>6, <2>2
  <2> QED  BY <2>1, <2>2
<1>8. HandoffTypeOK'
  <2>1. procs' \subseteq Request /\ settled' \subseteq Request
    BY <1>0, <1>1 DEF HandoffTypeOK
  <2>2. DOMAIN active' \subseteq Session /\ \A x \in DOMAIN active' : active'[x] \in Worker
    BY <1>0, <1>3 DEF HandoffTypeOK
  <2> QED  BY <1>0, <1>4, <1>6, <2>1, <2>2 DEF HandoffTypeOK, JobState
<1>9. StoresAgree' /\ SessionBound'
  BY <1>0, <1>4 DEF StoresAgree, SessionBound
<1>10. EndIsSettled'
  <2> SUFFICES ASSUME NEW q \in DOMAIN receipts, receipts[q].state \in {"completed", "failed"}
               PROVE  q \in settled' /\ q \notin procs'
    BY <1>4 DEF EndIsSettled
  <2>1. q \in settled /\ q \notin procs
    BY <1>0 DEF EndIsSettled
  <2>2. q = r => active[k].phase = "leaving"
    BY <1>1 DEF WorkerSound, NonTerminal
  <2> QED  BY <2>1, <2>2
<1>11. WorkersAllowed'
  <2> SUFFICES ASSUME NEW x \in DOMAIN active, active'[x].ctx = "live"
               PROVE  active'[x].request[1] \in Allowed[device]
    BY <1>3, <1>4 DEF WorkersAllowed
  <2>1. CASE x = k
    BY <1>0, <1>3, <2>1 DEF WorkersAllowed
  <2>2. CASE x # k
    BY <1>0, <1>3, <2>2 DEF WorkersAllowed
  <2> QED  BY <2>1, <2>2
<1>12. ASSUME NEW x \in DOMAIN active' PROVE WorkerSound(x)'
  <2>1. CASE x = k
    <3>1. active'[x] = w /\ w.request = r
      BY <1>3, <2>1
    <3>2. /\ SessionAt(r) = k /\ (w.phase # "leaving" => items[r].state \in NonTerminal /\ receipts[r].state \in NonTerminal)
          /\ \A s \in procs : SessionAt(s) = k => s = r
      BY <1>1 DEF WorkerSound
    <3>3. \A s \in procs' : SessionAt(s)' = k => s = r
      BY <1>4, <3>2 DEF SessionAt
    <3>4. slots'[JobOf(r, items'[r].content)] = slots'[JobAt(k)]
      BY <1>4 DEF JobAt, Req
    <3>5. SessionAt(r)' = k
      BY <1>4, <2>1, <3>1, <3>2 DEF SessionAt
    <3> QED  BY <1>1, <1>4, <1>6, <2>1, <3>1, <3>2, <3>3, <3>4, <3>5 DEF WorkerSound
  <2>2. CASE x # k
    <3>1. WorkerSound(x) /\ active'[x] = active[x] /\ x \in DOMAIN active
      BY <1>0, <1>3, <2>2
    <3>2. active[x].request # r /\ JobAt(x) # JobAt(k) /\ JobAt(x) \in Job /\ active[x].request \in Request
      BY <1>2, <2>2, <3>1, OwnJob
    <3>3. slots'[JobOf(active[x].request, items'[active[x].request].content)]
          = slots[JobOf(active[x].request, items[active[x].request].content)]
      BY <1>4, <3>2 DEF JobAt, Req
    <3>4. launched'[active[x].request] = launched[active[x].request]
      BY <1>6, <3>2
    <3>5. (active[x].request \in procs' => active[x].request \in procs)
          /\ (active[x].request \in settled => active[x].request \in settled')
      BY <3>2
    <3>6. \A s \in procs' : SessionAt(s)' = x => s = active[x].request
      <4> SUFFICES ASSUME NEW s \in procs', SessionAt(s) = x PROVE s = active[x].request
        BY <1>4 DEF SessionAt
      <4>1. s # r
        BY <1>1, <2>2 DEF WorkerSound
      <4> QED  BY <3>1, <4>1 DEF WorkerSound
    <3>7. SessionAt(active[x].request)' = SessionAt(active[x].request)
      BY <1>4, <3>1 DEF SessionAt
    <3> QED  BY <1>4, <3>1, <3>3, <3>4, <3>5, <3>6, <3>7 DEF WorkerSound
  <2> QED  BY <2>1, <2>2
<1>13. ASSUME NEW s \in procs' PROVE ProcSound(s)'
  <2>1. CASE s = r
    <3>1. \A q \in procs' : SessionAt(q)' = SessionAt(s)' => q = s
      <4> SUFFICES ASSUME NEW q \in procs', SessionAt(q) = SessionAt(r) PROVE q = r
        BY <1>4, <2>1 DEF SessionAt
      <4> QED  BY <1>1 DEF WorkerSound
    <3>2. slots'[JobOf(r, items'[r].content)] \in {"occupied", "uncertain"}
      BY <1>4, <2>1 DEF JobAt, Req
    <3> QED  BY <1>1, <1>4, <2>1, <3>1, <3>2 DEF ProcSound
  <2>2. CASE s # r
    <3>1. s \in procs /\ ProcSound(s)
      BY <1>0, <2>2
    <3>2. JobOf(s, items[s].content) # JobAt(k) /\ JobOf(s, items[s].content) \in Job
      <4>1. s \in Request /\ items[s] \in Receipt
        BY <1>0, <3>1 DEF HandoffTypeOK, ProcSound
      <4>2. JobOf(s, items[s].content) \in Job
        BY <4>1 DEF JobOf, Job, Request, Receipt, HandoffAssumption
      <4> QED  BY <1>2, <2>2, <3>1, <4>2
    <3>3. slots'[JobOf(s, items'[s].content)] = slots[JobOf(s, items[s].content)]
      BY <1>4, <3>2
    <3>4. \A q \in procs' : SessionAt(q)' = SessionAt(s)' => q = s
      <4> SUFFICES ASSUME NEW q \in procs', SessionAt(q) = SessionAt(s) PROVE q = s
        BY <1>4 DEF SessionAt
      <4>1. q # r
        BY <1>1, <2>2, <3>1 DEF WorkerSound
      <4> QED  BY <3>1, <4>1 DEF ProcSound
    <3> QED  BY <1>4, <3>1, <3>3, <3>4 DEF ProcSound
  <2> QED  BY <2>1, <2>2
<1>14. runtime' \in {"up", "stopping"}
  BY <1>1, <1>4
<1>15. \A t \in tickets' : TicketSound(t)'
  BY <1>0, <1>4 DEF TicketSound
<1>16. outdated' \subseteq 1..received' /\ (DOMAIN receipts' # {} => received' # 0)
  BY <1>0, <1>4
<1> QED  BY <1>7, <1>8, <1>9, <1>10, <1>11, <1>12, <1>13, <1>14, <1>15, <1>16 DEF HandoffIInv

LEMMA ContextEndsSound ==
  ASSUME HandoffAssumption, HandoffIInv, NEW k, ContextEnds(k)
  PROVE  HandoffIInv'
<1>1. k \in DOMAIN active /\ active[k].ctx = "live" /\ UNCHANGED <<receiptStore, Others, ledger, history>>
  BY DEF ContextEnds
<1>2. PICK cause \in {"revoked", "over"} : Step(k, [active[k] EXCEPT !.ctx = cause])
  BY DEF ContextEnds
<1> DEFINE w == [active[k] EXCEPT !.ctx = cause]
<1>3. active[k] \in Worker /\ WorkerSound(k)
  BY <1>1, OwnJob
<1>4. /\ w \in Worker /\ w.phase = active[k].phase /\ w.request = active[k].request /\ w.ctx # "live"
      /\ w.result = active[k].result /\ w.doubt = active[k].doubt
  <2>1. AlikeBut(w, active[k], {"ctx"}) /\ w.ctx = cause
    BY <1>3, CtxField
  <2> QED  BY <2>1 DEF AlikeBut
<1>5. HandoffTypeOK /\ \A s \in procs : ProcSound(s)
  BY DEF HandoffIInv
<1>6. UNCHANGED <<slots, ledgerErr, procs, launched, settled, outdated, receiptStore, Others>>
  BY <1>1 DEF ledger, history
<1>7. slots \in [Job -> JobState] /\ ledgerErr \in BOOLEAN
  BY <1>5 DEF HandoffTypeOK, JobState
<1>8. active[k].request \in procs => slots[JobAt(k)] \in {"occupied", "uncertain"}
  BY <1>5 DEF ProcSound, JobAt, Req
<1>9. w.phase \notin {"released", "leaving"} => slots[JobAt(k)] \in {"reserved", "occupied"}
  BY <1>3, <1>4 DEF WorkerSound, JobAt, Req
<1> HIDE DEF w
<1>10. Step(k, w)
  BY <1>2 DEF w
<1> QED  BY <1>1, <1>3, <1>4, <1>6, <1>7, <1>8, <1>9, <1>10, WorkerMoves DEF WorkerSound

(* A step of a worker that starts no process and leaves its job alone. *)
LEMMA WorkerThinks ==
  ASSUME HandoffAssumption, HandoffIInv, NEW k \in DOMAIN active, NEW w \in Worker, Step(k, w),
         w.request = active[k].request, w.ctx = "live" => active[k].ctx = "live",
         active[k].phase \notin {"released", "leaving"}, w.phase \notin {"released", "leaving"},
         UNCHANGED <<receiptStore, Others, ledger, launched, settled, outdated>>, procs' \subseteq procs,
         w.phase \in Before => active[k].phase \in Before,
         w.phase \notin Finishing => ~ w.doubt,
         active[k].request \in procs' => w.phase \in {"probing", "reading"} \/ w.doubt
  PROVE  HandoffIInv'
<1>1. HandoffTypeOK /\ \A s \in procs : ProcSound(s)
  BY DEF HandoffIInv
<1>2. WorkerSound(k)
  BY OwnJob
<1>3. UNCHANGED <<slots, ledgerErr, launched, settled, outdated, receiptStore, Others>>
  BY DEF ledger
<1>4. slots \in [Job -> JobState] /\ ledgerErr \in BOOLEAN
  BY <1>1 DEF HandoffTypeOK, JobState
<1>5. active[k].request \in procs => slots[JobAt(k)] \in {"occupied", "uncertain"}
  BY <1>1 DEF ProcSound, JobAt, Req
<1>6. slots[JobAt(k)] \in {"reserved", "occupied"}
  BY <1>2 DEF WorkerSound, JobAt, Req
<1>7. procs' \subseteq procs \cup {active[k].request}
  OBVIOUS
<1>8. active[k].phase # "leaving"
  OBVIOUS
<1> QED  BY <1>3, <1>4, <1>5, <1>6, <1>7, <1>8, WorkerMoves

LEMMA AuthoriseSound ==
  ASSUME HandoffAssumption, HandoffIInv, NEW k, Authorise(k)
  PROVE  HandoffIInv'
<1>1. /\ k \in DOMAIN active /\ active[k].phase = "authorising"
      /\ UNCHANGED <<receiptStore, Others, ledger, launched, settled, outdated>> /\ procs' = procs
  BY DEF Authorise, WorkerAt, history
<1>2. active[k] \in Worker /\ WorkerSound(k)
  BY <1>1, OwnJob
<1>3. active[k].request \notin procs /\ ~ active[k].doubt
  BY <1>1, <1>2 DEF WorkerSound, Finishing
<1>4. CASE active[k].ctx = "live" /\ Step(k, [active[k] EXCEPT !.phase = "preflight"])
  <2> DEFINE w == [active[k] EXCEPT !.phase = "preflight"]
  <2>1. AlikeBut(w, active[k], {"phase"}) /\ w.phase = "preflight"
    BY <1>2, PhaseField DEF Phase
  <2>2. Step(k, w)
    BY <1>4
  <2> HIDE DEF w
  <2> QED  BY <1>1, <1>3, <2>1, <2>2, WorkerThinks DEF AlikeBut, Before, Finishing
<1>5. CASE Step(k, EndsUnknown(active[k]))
  <2>1. AlikeBut(EndsUnknown(active[k]), active[k], {"phase", "result"}) /\ EndsUnknown(active[k]).phase = "ended"
    BY <1>2, ResultFields DEF Terminal
  <2> QED  BY <1>1, <1>3, <1>5, <2>1, WorkerThinks DEF AlikeBut, Before, Finishing
<1> QED  BY <1>4, <1>5 DEF Authorise

LEMMA ProbeEndsSound ==
  ASSUME HandoffAssumption, HandoffIInv, NEW k, ProbeEnds(k)
  PROVE  HandoffIInv'
<1>1. /\ k \in DOMAIN active /\ active[k].phase = "probing"
      /\ UNCHANGED <<receiptStore, Others, ledger, launched, settled, outdated>>
  BY DEF ProbeEnds, WorkerAt
<1>2. active[k] \in Worker /\ WorkerSound(k)
  BY <1>1, OwnJob
<1>3. ~ active[k].doubt
  BY <1>1, <1>2 DEF WorkerSound, Finishing
<1>4. CASE procs' = procs \ {Req(k)} /\ Step(k, [active[k] EXCEPT !.phase = "preflight"])
  <2> DEFINE w == [active[k] EXCEPT !.phase = "preflight"]
  <2>1. AlikeBut(w, active[k], {"phase"}) /\ w.phase = "preflight"
    BY <1>2, PhaseField DEF Phase
  <2>2. Step(k, w) /\ procs' \subseteq procs /\ active[k].request \notin procs'
    BY <1>4 DEF Req
  <2> HIDE DEF w
  <2> QED  BY <1>1, <1>3, <2>1, <2>2, WorkerThinks DEF AlikeBut, Before, Finishing
<1>5. CASE Step(k, [EndsUnknown(active[k]) EXCEPT !.doubt = TRUE]) /\ procs' = procs
  <2> DEFINE u == EndsUnknown(active[k])
             w == [u EXCEPT !.doubt = TRUE]
  <2>1. AlikeBut(u, active[k], {"phase", "result"}) /\ u.phase = "ended"
    BY <1>2, ResultFields DEF Terminal
  <2> HIDE DEF u
  <2>2. AlikeBut(w, u, {"doubt"}) /\ w.doubt
    BY <2>1, DoubtField DEF AlikeBut
  <2>3. Step(k, w)
    BY <1>5 DEF u
  <2> HIDE DEF w
  <2> QED  BY <1>1, <1>5, <2>1, <2>2, <2>3, WorkerThinks DEF AlikeBut, Before, Finishing
<1> QED  BY <1>4, <1>5 DEF ProbeEnds

LEMMA PreflightPassesSound ==
  ASSUME HandoffAssumption, HandoffIInv, NEW k, PreflightPasses(k)
  PROVE  HandoffIInv'
<1>1. /\ k \in DOMAIN active /\ active[k].phase = "preflight"
      /\ UNCHANGED <<receiptStore, Others, ledger, launched, settled, outdated>> /\ procs' = procs
  BY DEF PreflightPasses, WorkerAt, history
<1>2. active[k] \in Worker /\ WorkerSound(k)
  BY <1>1, OwnJob
<1>3. active[k].request \notin procs /\ ~ active[k].doubt
  BY <1>1, <1>2 DEF WorkerSound, Finishing
<1> DEFINE w == [active[k] EXCEPT !.phase = "accepting"]
<1>4. AlikeBut(w, active[k], {"phase"}) /\ w.phase = "accepting"
  BY <1>2, PhaseField DEF Phase
<1>5. Step(k, w)
  BY DEF PreflightPasses
<1> HIDE DEF w
<1> QED  BY <1>1, <1>3, <1>4, <1>5, WorkerThinks DEF AlikeBut, Before, Finishing

LEMMA AgentEndsSound ==
  ASSUME HandoffAssumption, HandoffIInv, NEW k, AgentEnds(k)
  PROVE  HandoffIInv'
<1>1. /\ k \in DOMAIN active /\ active[k].phase = "reading"
      /\ UNCHANGED <<receiptStore, Others, ledger, launched, settled, outdated>>
  BY DEF AgentEnds, WorkerAt
<1>2. active[k] \in Worker /\ WorkerSound(k)
  BY <1>1, OwnJob
<1>4. CASE Step(k, [EndsUnknown(active[k]) EXCEPT !.doubt = TRUE]) /\ procs' = procs
  <2> DEFINE u == EndsUnknown(active[k])
             w == [u EXCEPT !.doubt = TRUE]
  <2>1. AlikeBut(u, active[k], {"phase", "result"}) /\ u.phase = "ended"
    BY <1>2, ResultFields DEF Terminal
  <2> HIDE DEF u
  <2>2. AlikeBut(w, u, {"doubt"}) /\ w.doubt
    BY <2>1, DoubtField DEF AlikeBut
  <2>3. Step(k, w)
    BY <1>4 DEF u
  <2> HIDE DEF w
  <2> QED  BY <1>1, <1>4, <2>1, <2>2, <2>3, WorkerThinks DEF AlikeBut, Before, Finishing
<1>5. ASSUME NEW w, Step(k, w), procs' = procs \ {Req(k)}, NEW res \in Terminal,
             w = EndsUnknown(active[k]) \/ w = Result(active[k], res)
      PROVE  HandoffIInv'
  <2>1. AlikeBut(w, active[k], {"phase", "result"}) /\ w.phase = "ended"
    BY <1>2, <1>5, ResultFields
  <2>2. procs' \subseteq procs /\ active[k].request \notin procs'
    BY <1>5 DEF Req
  <2> QED  BY <1>1, <1>5, <2>1, <2>2, WorkerThinks DEF AlikeBut, Before, Finishing
<1>6. {"completed", "failed", "unknown"} \subseteq Terminal
  BY DEF Terminal
<1> QED  BY <1>4, <1>5, <1>6 DEF AgentEnds

(* A step of a worker that starts a process, or leaves one behind in trying to. *)
LEMMA WorkerStarts ==
  ASSUME HandoffAssumption, HandoffIInv, NEW k \in DOMAIN active, NEW w \in Worker, Step(k, w),
         w.request = active[k].request, w.ctx = "live" => active[k].ctx = "live",
         active[k].phase \in {"preflight", "launching"},
         Occupied(JobAt(k)), procs' = procs \cup {active[k].request},
         UNCHANGED <<receiptStore, Others, settled, outdated>>,
         \/ launched' = launched /\ w.phase \in {"probing", "ended"}
         \/ launched' = [launched EXCEPT ![active[k].request] = @ + 1] /\ w.phase = "reading",
         w.phase = "ended" <=> w.doubt
  PROVE  HandoffIInv'
<1>1. HandoffTypeOK /\ \A s \in procs : ProcSound(s)
  BY DEF HandoffIInv
<1>2. WorkerSound(k) /\ JobAt(k) \in Job
  BY OwnJob
<1>3. slots' = [slots EXCEPT ![JobAt(k)] = "occupied"] /\ ledgerErr' = ledgerErr
  BY DEF Occupied, LedgerSaves
<1>4. /\ slots' \in [Job -> JobState] /\ slots'[JobAt(k)] = "occupied" /\ ledgerErr' \in BOOLEAN
      /\ \A j \in Job : j # JobAt(k) => slots'[j] = slots[j]
  BY <1>1, <1>2, <1>3 DEF HandoffTypeOK, JobState
<1>5. procs' \subseteq procs \cup {active[k].request} /\ active[k].phase # "leaving"
  OBVIOUS
<1>6. active[k].phase \in Before
  BY DEF Before
<1>7. UNCHANGED <<receiptStore, Others, outdated>> /\ settled' = settled
  OBVIOUS
<1>8. w.phase \in {"probing", "ended", "reading"}
  OBVIOUS
<1>9. launched' = launched \/
           (active[k].phase \in Before /\ launched' = [launched EXCEPT ![active[k].request] = @ + 1])
  BY <1>6
<1>10. w.phase \in Before => launched' = launched /\ active[k].phase \in Before
  BY <1>6, <1>8 DEF Before
<1>11. /\ w.phase \notin Finishing => ~ w.doubt
       /\ w.phase \in {"probing", "reading"} \/ w.doubt
       /\ w.phase \notin {"released", "leaving"} /\ w.phase # "leaving"
  BY <1>8 DEF Finishing
<1> HIDE DEF Before, Finishing
<1> QED  BY <1>4, <1>5, <1>7, <1>9, <1>10, <1>11, WorkerMoves

LEMMA StartProbeSound ==
  ASSUME HandoffAssumption, HandoffIInv, NEW k, StartProbe(k)
  PROVE  HandoffIInv'
<1>1. /\ k \in DOMAIN active /\ active[k].phase = "preflight" /\ Occupied(JobAt(k))
      /\ procs' = procs \cup {active[k].request}
      /\ UNCHANGED <<receiptStore, Others, launched, settled, outdated>>
  BY DEF StartProbe, WorkerAt, Req
<1>2. active[k] \in Worker /\ WorkerSound(k)
  BY <1>1, OwnJob
<1>3. ~ active[k].doubt
  BY <1>1, <1>2 DEF WorkerSound, Finishing
<1> DEFINE w == [active[k] EXCEPT !.phase = "probing"]
<1>4. AlikeBut(w, active[k], {"phase"}) /\ w.phase = "probing"
  BY <1>2, PhaseField DEF Phase
<1>5. Step(k, w)
  BY DEF StartProbe
<1> HIDE DEF w
<1> QED  BY <1>1, <1>3, <1>4, <1>5, WorkerStarts DEF AlikeBut

LEMMA FailsFields ==
  ASSUME NEW w \in Worker, NEW res \in Terminal, NEW v, v = [Result(w, res) EXCEPT !.doubt = TRUE]
  PROVE  AlikeBut(v, w, {"phase", "result", "doubt"}) /\ v.phase = "ended" /\ v.doubt
<1>1. AlikeBut(Result(w, res), w, {"phase", "result"}) /\ Result(w, res).phase = "ended"
  BY ResultFields
<1>2. AlikeBut(v, Result(w, res), {"doubt"}) /\ v.doubt
  BY <1>1, DoubtField DEF AlikeBut
<1> QED  BY <1>1, <1>2 DEF AlikeBut

LEMMA PreflightFailsSound ==
  ASSUME HandoffAssumption, HandoffIInv, NEW k, PreflightFails(k)
  PROVE  HandoffIInv'
<1>1. /\ k \in DOMAIN active /\ active[k].phase = "preflight"
      /\ UNCHANGED <<receiptStore, Others, launched, settled, outdated>>
  BY DEF PreflightFails, WorkerAt
<1>2. active[k] \in Worker /\ WorkerSound(k) /\ JobAt(k) \in Job
  BY <1>1, OwnJob
<1>3. active[k].request \notin procs /\ ~ active[k].doubt
  BY <1>1, <1>2 DEF WorkerSound, Finishing
<1> DEFINE w == Result(active[k], "failed")
<1>4. AlikeBut(w, active[k], {"phase", "result"}) /\ w.phase = "ended"
  BY <1>2, ResultFields DEF Terminal
<1>5. CASE Step(k, w) /\ UNCHANGED <<ledger, procs>>
  <2> HIDE DEF w
  <2> QED  BY <1>1, <1>3, <1>4, <1>5, WorkerThinks DEF AlikeBut, Before, Finishing
<1>6. CASE /\ slots[JobAt(k)] = "reserved" /\ LedgerFails([slots EXCEPT ![JobAt(k)] = "occupied"])
           /\ Step(k, w) /\ UNCHANGED procs
  <2> HIDE DEF w
  <2>1. slots \in [Job -> JobState]
    BY DEF HandoffIInv, HandoffTypeOK, JobState
  <2>2. slots' \in {slots, [slots EXCEPT ![JobAt(k)] = "occupied"]} /\ ledgerErr' = TRUE
    BY <1>6 DEF LedgerFails
  <2>3. /\ slots' \in [Job -> JobState] /\ slots'[JobAt(k)] \in {"reserved", "occupied"}
        /\ \A j \in Job : j # JobAt(k) => slots'[j] = slots[j]
    BY <1>2, <1>6, <2>1, <2>2 DEF JobState
  <2>4. /\ ledgerErr' \in BOOLEAN /\ Step(k, w) /\ procs' = procs /\ active[k].request \notin procs'
        /\ UNCHANGED <<receiptStore, Others, outdated>> /\ settled' = settled /\ launched' = launched
    BY <1>1, <1>3, <1>6, <2>2
  <2>5. w \in Worker /\ w.request = active[k].request /\ w.ctx = active[k].ctx /\ w.phase = "ended"
    BY <1>4 DEF AlikeBut
  <2> QED  BY <1>1, <2>3, <2>4, <2>5, WorkerMoves DEF Before, Finishing
<1>7. CASE /\ Occupied(JobAt(k)) /\ procs' = procs \cup {Req(k)}
           /\ Step(k, [w EXCEPT !.doubt = TRUE])
  <2> DEFINE v == [w EXCEPT !.doubt = TRUE]
  <2>1. AlikeBut(v, active[k], {"phase", "result", "doubt"}) /\ v.phase = "ended" /\ v.doubt
    BY <1>2, FailsFields DEF Terminal
  <2>2. Step(k, v) /\ procs' = procs \cup {active[k].request}
    BY <1>7 DEF Req
  <2> HIDE DEF v
  <2> QED  BY <1>1, <1>7, <2>1, <2>2, WorkerStarts DEF AlikeBut
<1> QED  BY <1>5, <1>6, <1>7 DEF PreflightFails

LEMMA LaunchSound ==
  ASSUME HandoffAssumption, HandoffIInv, NEW k, Launch(k)
  PROVE  HandoffIInv'
<1>1. /\ k \in DOMAIN active /\ active[k].phase = "launching"
      /\ UNCHANGED <<receiptStore, Others, settled, outdated>>
  BY DEF Launch, WorkerAt
<1>2. active[k] \in Worker /\ WorkerSound(k)
  BY <1>1, OwnJob
<1>3. active[k].request \notin procs /\ ~ active[k].doubt
  BY <1>1, <1>2 DEF WorkerSound, Finishing
<1>4. CASE /\ Occupied(JobAt(k)) /\ procs' = procs \cup {Req(k)}
           /\ Step(k, [active[k] EXCEPT !.phase = "reading"])
           /\ launched' = [launched EXCEPT ![Req(k)] = @ + 1]
  <2> DEFINE w == [active[k] EXCEPT !.phase = "reading"]
  <2>1. AlikeBut(w, active[k], {"phase"}) /\ w.phase = "reading"
    BY <1>2, PhaseField DEF Phase
  <2>2. Step(k, w) /\ procs' = procs \cup {active[k].request} /\ Occupied(JobAt(k))
        /\ launched' = [launched EXCEPT ![active[k].request] = @ + 1]
    BY <1>4 DEF Req
  <2> HIDE DEF w
  <2> QED  BY <1>1, <1>3, <2>1, <2>2, WorkerStarts DEF AlikeBut
<1>5. CASE /\ Occupied(JobAt(k)) /\ procs' = procs \cup {Req(k)}
           /\ Step(k, [Result(active[k], "failed") EXCEPT !.doubt = TRUE]) /\ launched' = launched
  <2> DEFINE v == [Result(active[k], "failed") EXCEPT !.doubt = TRUE]
  <2>1. AlikeBut(v, active[k], {"phase", "result", "doubt"}) /\ v.phase = "ended" /\ v.doubt
    BY <1>2, FailsFields DEF Terminal
  <2>2. Step(k, v) /\ procs' = procs \cup {active[k].request}
    BY <1>5 DEF Req
  <2> HIDE DEF v
  <2> QED  BY <1>1, <1>5, <2>1, <2>2, WorkerStarts DEF AlikeBut
<1>6. CASE Step(k, Result(active[k], "failed")) /\ UNCHANGED <<ledger, procs, launched>>
  <2> DEFINE w == Result(active[k], "failed")
  <2>1. AlikeBut(w, active[k], {"phase", "result"}) /\ w.phase = "ended"
    BY <1>2, ResultFields DEF Terminal
  <2> HIDE DEF w
  <2>2. Step(k, w) /\ procs' \subseteq procs /\ active[k].request \notin procs'
        /\ UNCHANGED <<receiptStore, Others, ledger, launched, settled, outdated>>
    BY <1>1, <1>3, <1>6 DEF w
  <2> QED  BY <1>1, <2>1, <2>2, WorkerThinks DEF AlikeBut, Before, Finishing
<1> QED  BY <1>4, <1>5, <1>6 DEF Launch

LEMMA ReleaseSound ==
  ASSUME HandoffAssumption, HandoffIInv, NEW k, Release(k)
  PROVE  HandoffIInv'
<1> DEFINE s == [slots EXCEPT ![JobAt(k)] = IF active[k].doubt THEN "uncertain" ELSE "none"]
<1>1. /\ k \in DOMAIN active /\ active[k].phase = "ended"
      /\ UNCHANGED <<receiptStore, Others, outdated>> /\ procs' = procs /\ launched' = launched
  BY DEF Release, WorkerAt
<1>2. active[k] \in Worker /\ WorkerSound(k) /\ JobAt(k) \in Job /\ active[k].doubt \in BOOLEAN
  BY <1>1, OwnJob, WorkerFields
<1>3. slots \in [Job -> JobState] /\ ledgerErr \in BOOLEAN /\ \A r \in procs : ProcSound(r)
  BY DEF HandoffIInv, HandoffTypeOK, JobState
<1>4. /\ s \in [Job -> JobState] /\ \A j \in Job : j # JobAt(k) => s[j] = slots[j]
      /\ s[JobAt(k)] = IF active[k].doubt THEN "uncertain" ELSE "none"
  BY <1>2, <1>3 DEF JobState
<1>5. active[k].request \in procs => active[k].doubt /\ slots[JobAt(k)] \in {"occupied", "uncertain"}
  BY <1>1, <1>2, <1>3 DEF WorkerSound, ProcSound, JobAt, Req
<1> HIDE DEF s
<1>6. ASSUME NEW confirmed \in BOOLEAN, Step(k, Released(active[k], confirmed)),
             slots' \in {slots, s}, ledgerErr' \in BOOLEAN,
             settled' \in {settled, settled \cup {active[k].request}},
             confirmed => ~ active[k].doubt /\ settled' = settled \cup {active[k].request}
      PROVE  HandoffIInv'
  <2> DEFINE w == Released(active[k], confirmed)
  <2>1. AlikeBut(w, active[k], {"phase", "result"}) /\ w.phase = "released"
        /\ (~ confirmed => w.result = "unknown")
    BY <1>2, ReleasedFields
  <2> HIDE DEF w
  <2>2. /\ slots' \in [Job -> JobState] /\ \A j \in Job : j # JobAt(k) => slots'[j] = slots[j]
        /\ active[k].request \in procs => slots'[JobAt(k)] \in {"occupied", "uncertain"}
    BY <1>3, <1>4, <1>5, <1>6
  <2>3. Step(k, w)
    BY <1>6 DEF w
  <2>4. w.result \in {"completed", "failed"} => active[k].request \in settled' /\ ~ w.doubt
    BY <1>6, <2>1 DEF AlikeBut
  <2>5. w \in Worker /\ w.request = active[k].request /\ w.ctx = active[k].ctx /\ w.doubt = active[k].doubt
    BY <2>1 DEF AlikeBut
  <2>6. active[k].request \in procs => w.doubt
    BY <1>5, <2>5
  <2>7. w.phase \notin Before /\ w.phase \in Finishing
    BY <2>1 DEF Before, Finishing
  <2> QED  BY <1>1, <1>6, <2>1, <2>2, <2>3, <2>4, <2>5, <2>6, <2>7, WorkerMoves
<1>7. CASE /\ LedgerSaves(s) /\ Step(k, Released(active[k], ~ active[k].doubt))
           /\ settled' = IF active[k].doubt THEN settled ELSE settled \cup {Req(k)}
  BY <1>2, <1>3, <1>6, <1>7 DEF LedgerSaves, Req
<1>8. CASE LedgerFails(s) /\ Step(k, Released(active[k], FALSE)) /\ UNCHANGED settled
  BY <1>6, <1>8 DEF LedgerFails
<1>9. CASE UNCHANGED <<ledger, settled>> /\ Step(k, Released(active[k], FALSE))
  BY <1>3, <1>6, <1>9 DEF ledger
<1> QED  BY <1>7, <1>8, <1>9 DEF Release, s

(* What a write of a receipt leaves: the stores differ only once it failed. *)
LEMMA WriteFields ==
  ASSUME HandoffTypeOK, StoresAgree, ~ err, NEW r \in Request, NEW x \in Receipt,
         r \in DOMAIN items => items[r].content = x.content,
         Persists(r, x) \/ PersistFails(r, x)
  PROVE  /\ DOMAIN receipts' \subseteq Request /\ \A q \in DOMAIN receipts' : receipts'[q] \in Receipt
         /\ DOMAIN items' \subseteq Request /\ \A q \in DOMAIN items' : items'[q] \in Receipt
         /\ err' \in BOOLEAN /\ StoresAgree'
         /\ \A q \in Request : q # r => /\ q \in DOMAIN receipts' <=> q \in DOMAIN receipts
                                        /\ q \in DOMAIN items' <=> q \in DOMAIN items
                                        /\ receipts'[q] = receipts[q] \/ q \notin DOMAIN receipts
                                        /\ items'[q] = items[q] \/ q \notin DOMAIN items
         /\ r \in DOMAIN items => r \in DOMAIN items'
         /\ r \in DOMAIN receipts => r \in DOMAIN receipts'
         /\ r \in DOMAIN items' => items'[r] = x \/ (r \in DOMAIN items /\ items'[r] = items[r])
         /\ r \in DOMAIN receipts' => receipts'[r] = x \/ (r \in DOMAIN receipts /\ receipts'[r] = receipts[r])
<1>1. receipts = items
  BY DEF StoresAgree
<1>2. /\ DOMAIN With(items, r, x) = DOMAIN items \cup {r} /\ With(items, r, x)[r] = x
      /\ \A q \in DOMAIN items : q # r => With(items, r, x)[q] = items[q]
  BY DEF With
<1>3. DOMAIN items \subseteq Request /\ \A q \in DOMAIN items : items[q] \in Receipt
  BY DEF HandoffTypeOK
<1>4. CASE Persists(r, x)
  <2>1. receipts' = With(items, r, x) /\ items' = With(items, r, x) /\ err' = err
    BY <1>1, <1>4 DEF Persists
  <2>2. StoresAgree'
    BY <2>1 DEF StoresAgree
  <2>3. DOMAIN items' = DOMAIN items \cup {r} /\ items'[r] = x
        /\ \A q \in DOMAIN items : q # r => items'[q] = items[q]
    BY <1>2, <2>1
  <2>4. receipts' = items' /\ err' \in BOOLEAN
    BY <2>1 DEF HandoffTypeOK
  <2> HIDE <2>1
  <2> QED  BY <1>1, <1>3, <2>2, <2>3, <2>4
<1>5. CASE PersistFails(r, x)
  <2>1. receipts' \in {items, With(items, r, x)} /\ items' = items /\ err' = TRUE
    BY <1>1, <1>5 DEF PersistFails
  <2>2. CASE receipts' = items
    BY <1>1, <1>3, <2>1, <2>2 DEF StoresAgree
  <2>3. CASE receipts' = With(items, r, x)
    BY <1>1, <1>2, <1>3, <2>1, <2>3 DEF StoresAgree
  <2> QED  BY <2>1, <2>2, <2>3
<1> QED  BY <1>4, <1>5

LEMMA UpdatedFields ==
  ASSUME HandoffTypeOK, NEW r \in DOMAIN items, NEW st \in NonTerminal \cup Terminal
  PROVE  /\ Updated(r, st) \in Receipt /\ Updated(r, st).state = st
         /\ Updated(r, st).content = items[r].content
  BY DEF HandoffTypeOK, Updated, Receipt

(* A step of a worker that writes its receipt. *)
LEMMA ReceiptMoves ==
  ASSUME HandoffAssumption, HandoffIInv, NEW k \in DOMAIN active, NEW w \in Worker,
         DOMAIN active' = DOMAIN active, active'[k] = w,
         \A x \in DOMAIN active : x # k => active'[x] = active[x],
         w.request = active[k].request, w.ctx = active[k].ctx, w.doubt = active[k].doubt,
         active[k].phase # "leaving", UNCHANGED <<Others, ledger, history>>,
         NEW st \in NonTerminal \cup Terminal, CanUpdate(active[k].request),
         Persists(active[k].request, Updated(active[k].request, st))
           \/ PersistFails(active[k].request, Updated(active[k].request, st)),
         w.phase # "leaving" => st \in NonTerminal,
         st \in {"completed", "failed"} => active[k].request \in settled /\ active[k].request \notin procs,
         w.phase \in Before => active[k].phase \in Before,
         w.phase \notin Finishing => active[k].phase \notin Finishing,
         active[k].request \in procs => w.phase \in {"probing", "reading"} \/ w.doubt,
         w.phase \notin {"released", "leaving"} => active[k].phase \notin {"released", "leaving"},
         w.phase \in {"released", "leaving"} /\ w.result \in {"completed", "failed"}
           => active[k].request \in settled /\ ~ w.doubt
  PROVE  HandoffIInv'
<1> DEFINE r == active[k].request
<1>0. /\ HandoffTypeOK /\ StoresAgree /\ SessionBound /\ EndIsSettled /\ WorkersAllowed
      /\ \A s \in procs : ProcSound(s)
      /\ \A x \in DOMAIN active : WorkerSound(x)
      /\ \A q \in Request : launched[q] <= 1 /\ (launched[q] = 1 => q \in DOMAIN items)
      /\ \A t \in tickets : TicketSound(t)
      /\ outdated \subseteq 1..received /\ (DOMAIN receipts # {} => received # 0)
  BY DEF HandoffIInv
<1>1. /\ r \in Request /\ r \in DOMAIN items /\ WorkerSound(k) /\ runtime \in {"up", "stopping"}
      /\ \A x \in DOMAIN active : x # k => active[x].request # r
  BY OwnJob
<1>2. /\ UNCHANGED <<runtime, restarts, device, generation, tickets, received, slots, ledgerErr>>
      /\ UNCHANGED <<procs, launched, settled, outdated>>
  BY DEF Others, ledger, history
<1>3. /\ DOMAIN receipts' \subseteq Request /\ \A q \in DOMAIN receipts' : receipts'[q] \in Receipt
      /\ DOMAIN items' \subseteq Request /\ \A q \in DOMAIN items' : items'[q] \in Receipt
      /\ err' \in BOOLEAN /\ StoresAgree'
      /\ \A q \in Request : q # r => /\ q \in DOMAIN receipts' <=> q \in DOMAIN receipts
                                     /\ q \in DOMAIN items' <=> q \in DOMAIN items
                                     /\ receipts'[q] = receipts[q] \/ q \notin DOMAIN receipts
                                     /\ items'[q] = items[q] \/ q \notin DOMAIN items
      /\ r \in DOMAIN items' /\ r \in DOMAIN receipts'
      /\ items'[r].content = items[r].content /\ items'[r].state \in {st, items[r].state}
      /\ receipts'[r].content = receipts[r].content /\ receipts'[r].state \in {st, receipts[r].state}
  <2>1. /\ Updated(r, st) \in Receipt /\ Updated(r, st).state = st /\ Updated(r, st).content = items[r].content
    BY <1>0, <1>1, UpdatedFields
  <2>2. ~ err /\ r \in DOMAIN receipts /\ receipts[r].content = items[r].content
    BY <1>0, <1>1 DEF CanUpdate, StoresAgree
  <2> HIDE DEF r
  <2>3. Persists(r, Updated(r, st)) \/ PersistFails(r, Updated(r, st))
    BY DEF r
  <2>4. /\ DOMAIN receipts' \subseteq Request /\ \A q \in DOMAIN receipts' : receipts'[q] \in Receipt
        /\ DOMAIN items' \subseteq Request /\ \A q \in DOMAIN items' : items'[q] \in Receipt
        /\ err' \in BOOLEAN /\ StoresAgree'
        /\ \A q \in Request : q # r => /\ q \in DOMAIN receipts' <=> q \in DOMAIN receipts
                                       /\ q \in DOMAIN items' <=> q \in DOMAIN items
                                       /\ receipts'[q] = receipts[q] \/ q \notin DOMAIN receipts
                                       /\ items'[q] = items[q] \/ q \notin DOMAIN items
    BY <1>0, <1>1, <2>1, <2>2, <2>3, WriteFields
  <2>5. /\ r \in DOMAIN items' /\ r \in DOMAIN receipts'
        /\ items'[r] = Updated(r, st) \/ items'[r] = items[r]
        /\ receipts'[r] = Updated(r, st) \/ receipts'[r] = receipts[r]
    BY <1>0, <1>1, <2>1, <2>2, <2>3, WriteFields
  <2> QED  BY <2>1, <2>2, <2>4, <2>5
<1>4. /\ \A q \in DOMAIN items : q \in DOMAIN items' /\ items'[q].content = items[q].content
      /\ \A q \in DOMAIN receipts' : q \in DOMAIN receipts /\ receipts'[q].content = receipts[q].content
      /\ \A q \in DOMAIN receipts : q \in DOMAIN receipts'
  <2>1. DOMAIN items \subseteq Request /\ r \in DOMAIN receipts
    BY <1>0, <1>1 DEF HandoffTypeOK, StoresAgree
  <2>2. DOMAIN receipts \subseteq Request
    BY <1>0 DEF HandoffTypeOK
  <2> QED  BY <1>1, <1>3, <2>1, <2>2
<1>5. \A s \in procs : s \in DOMAIN items /\ SessionAt(s)' = SessionAt(s)
  BY <1>0, <1>4 DEF ProcSound, SessionAt
<1>6. HandoffTypeOK'
  <2>1. DOMAIN active' \subseteq Session /\ \A x \in DOMAIN active' : active'[x] \in Worker
    BY <1>0 DEF HandoffTypeOK
  <2> QED  BY <1>0, <1>2, <1>3, <2>1 DEF HandoffTypeOK
<1>7. SessionBound'
  BY <1>0, <1>4 DEF SessionBound
<1>8. EndIsSettled'
  <2> SUFFICES ASSUME NEW q \in DOMAIN receipts', receipts'[q].state \in {"completed", "failed"}
               PROVE  q \in settled /\ q \notin procs
    BY <1>2 DEF EndIsSettled
  <2>1. CASE q = r
    <3>1. receipts[r].state \notin {"completed", "failed"}
      BY <1>1 DEF WorkerSound, NonTerminal
    <3> QED  BY <1>3, <2>1, <3>1
  <2>2. CASE q # r
    BY <1>0, <1>3, <1>4, <2>2 DEF EndIsSettled
  <2> QED  BY <2>1, <2>2
<1>9. WorkersAllowed'
  <2> SUFFICES ASSUME NEW x \in DOMAIN active, active'[x].ctx = "live"
               PROVE  active'[x].request[1] \in Allowed[device]
    BY <1>2 DEF WorkersAllowed
  <2> QED  BY <1>0 DEF WorkersAllowed
<1>10. ASSUME NEW x \in DOMAIN active' PROVE WorkerSound(x)'
  <2>1. CASE x = k
    <3>1. active'[x] = w /\ w.request = r
      BY <2>1
    <3>2. /\ SessionAt(r) = k /\ \A s \in procs : SessionAt(s) = k => s = r
          /\ items[r].state \in NonTerminal /\ receipts[r].state \in NonTerminal
          /\ active[k].phase \in Before => launched[r] = 0
          /\ active[k].phase \notin Finishing => ~ active[k].doubt
          /\ active[k].phase \notin {"released", "leaving"} =>
               slots[JobOf(r, items[r].content)] \in {"reserved", "occupied"}
      BY <1>1 DEF WorkerSound
    <3>3. \A s \in procs' : SessionAt(s)' = k => s = r
      BY <1>2, <1>5, <3>2
    <3>4. SessionOf[items'[r].content] = k /\ r \in DOMAIN items'
      BY <1>3, <3>2 DEF SessionAt
    <3>5. w.phase # "leaving" => items'[r].state \in NonTerminal /\ receipts'[r].state \in NonTerminal
      BY <1>3, <3>2
    <3>6. slots'[JobOf(r, items'[r].content)] = slots[JobOf(r, items[r].content)]
      BY <1>2, <1>3
    <3> HIDE DEF r
    <3> QED  BY <1>2, <2>1, <3>1, <3>2, <3>3, <3>4, <3>5, <3>6 DEF WorkerSound, SessionAt, r
  <2>2. CASE x # k
    <3>1. WorkerSound(x) /\ active'[x] = active[x] /\ x \in DOMAIN active
      BY <1>0, <2>2
    <3>2. active[x].request # r /\ active[x].request \in DOMAIN items /\ active[x].request \in Request
          /\ active[x].request \in DOMAIN receipts
      BY <1>0, <1>1, <2>2, <3>1, OwnJob DEF StoresAgree
    <3>3. /\ active[x].request \in DOMAIN items'
          /\ items'[active[x].request] = items[active[x].request]
          /\ receipts'[active[x].request] = receipts[active[x].request]
      BY <1>3, <3>2
    <3>4. \A s \in procs' : SessionAt(s)' = x => s = active[x].request
      BY <1>2, <1>5, <3>1 DEF WorkerSound
    <3> QED  BY <1>2, <3>1, <3>3, <3>4 DEF WorkerSound, SessionAt
  <2> QED  BY <2>1, <2>2
<1>11. ASSUME NEW s \in procs' PROVE ProcSound(s)'
  BY <1>0, <1>2, <1>4, <1>5 DEF ProcSound
<1>12. \A q \in Request : launched'[q] <= 1 /\ (launched'[q] = 1 => q \in DOMAIN items')
  BY <1>0, <1>2, <1>4
<1>13. \A t \in tickets' : TicketSound(t)'
  BY <1>0, <1>2 DEF TicketSound
<1>14. outdated' \subseteq 1..received' /\ (DOMAIN receipts' # {} => received' # 0)
  BY <1>0, <1>2, <1>4
<1>15. runtime' \in {"up", "stopping"}
  BY <1>1, <1>2
<1> QED  BY <1>3, <1>6, <1>7, <1>8, <1>9, <1>10, <1>11, <1>12, <1>13, <1>14, <1>15 DEF HandoffIInv

LEMMA Stepped ==
  ASSUME NEW k \in DOMAIN active, NEW w, Step(k, w)
  PROVE  /\ DOMAIN active' = DOMAIN active /\ active'[k] = w
         /\ \A x \in DOMAIN active : x # k => active'[x] = active[x]
  BY DEF Step

LEMMA AcceptSound ==
  ASSUME HandoffAssumption, HandoffIInv, NEW k, Accept(k)
  PROVE  HandoffIInv'
<1> DEFINE r == active[k].request
<1>1. /\ k \in DOMAIN active /\ active[k].phase = "accepting" /\ UNCHANGED <<Others, ledger, history>>
  BY DEF Accept, WorkerAt
<1>2. active[k] \in Worker /\ WorkerSound(k)
  BY <1>1, OwnJob
<1>3. r \notin procs /\ ~ active[k].doubt
  BY <1>1, <1>2 DEF WorkerSound, Finishing
<1> DEFINE u == Result(active[k], "unknown")
           v == [active[k] EXCEPT !.phase = "launching"]
<1>4. AlikeBut(u, active[k], {"phase", "result"}) /\ u.phase = "ended"
  BY <1>2, ResultFields DEF Terminal
<1>5. AlikeBut(v, active[k], {"phase"}) /\ v.phase = "launching"
  BY <1>2, PhaseField DEF Phase
<1>6. "accepted" \in NonTerminal
  BY DEF NonTerminal
<1>7. CASE CanUpdate(r) /\ Persists(r, Updated(r, "accepted")) /\ Step(k, v)
  <2> HIDE DEF v, u
  <2>1. DOMAIN active' = DOMAIN active /\ active'[k] = v /\ \A x \in DOMAIN active : x # k => active'[x] = active[x]
    BY <1>1, <1>7, Stepped
  <2>2. /\ v.phase # "leaving" /\ v.phase \notin {"released", "leaving"} /\ active[k].phase \in Before
        /\ active[k].phase \notin Finishing /\ active[k].phase \notin {"released", "leaving"}
    BY <1>1, <1>5 DEF Before, Finishing
  <2>3. v \in Worker /\ v.request = r /\ v.ctx = active[k].ctx /\ v.doubt = active[k].doubt
    BY <1>5 DEF AlikeBut
  <2> QED  BY <1>1, <1>3, <1>6, <1>7, <2>1, <2>2, <2>3, ReceiptMoves
<1>8. CASE CanUpdate(r) /\ PersistFails(r, Updated(r, "accepted")) /\ Step(k, u)
  <2> HIDE DEF v, u
  <2>1. DOMAIN active' = DOMAIN active /\ active'[k] = u /\ \A x \in DOMAIN active : x # k => active'[x] = active[x]
    BY <1>1, <1>8, Stepped
  <2>2. /\ u.phase # "leaving" /\ u.phase \notin {"released", "leaving"} /\ active[k].phase \in Before
        /\ active[k].phase \notin Finishing /\ active[k].phase \notin {"released", "leaving"}
    BY <1>1, <1>4 DEF Before, Finishing
  <2>3. u \in Worker /\ u.request = r /\ u.ctx = active[k].ctx /\ u.doubt = active[k].doubt
    BY <1>4 DEF AlikeBut
  <2> QED  BY <1>1, <1>3, <1>6, <1>8, <2>1, <2>2, <2>3, ReceiptMoves
<1>9. CASE UNCHANGED receiptStore /\ Step(k, u)
  <2> HIDE DEF v, u
  <2>1. UNCHANGED <<receiptStore, Others, ledger, launched, settled, outdated>> /\ procs' = procs
    BY <1>1, <1>9 DEF history
  <2> QED  BY <1>1, <1>3, <1>4, <1>9, <2>1, WorkerThinks DEF AlikeBut, Before, Finishing
<1> QED  BY <1>7, <1>8, <1>9 DEF Accept, Req

LEMMA InitEventSound ==
  ASSUME HandoffAssumption, HandoffIInv, NEW k, InitEvent(k)
  PROVE  HandoffIInv'
<1> DEFINE r == active[k].request
<1>1. /\ k \in DOMAIN active /\ active[k].phase = "reading" /\ UNCHANGED <<Others, active, ledger, history>>
      /\ CanUpdate(r)
      /\ Persists(r, Updated(r, "running")) \/ PersistFails(r, Updated(r, "running"))
  BY DEF InitEvent, WorkerAt, Req
<1>2. active[k] \in Worker /\ WorkerSound(k)
  BY <1>1, OwnJob
<1>3. /\ DOMAIN active' = DOMAIN active /\ active'[k] = active[k]
      /\ \A x \in DOMAIN active : x # k => active'[x] = active[x]
  BY <1>1
<1>4. "running" \in NonTerminal /\ active[k].phase \notin Before /\ active[k].phase \notin Finishing
  BY <1>1 DEF NonTerminal, Before, Finishing
<1>5. active[k].phase # "leaving" /\ active[k].phase \notin {"released", "leaving"}
  BY <1>1
<1> QED  BY <1>1, <1>2, <1>3, <1>4, <1>5, ReceiptMoves

LEMMA FinalUpdateSound ==
  ASSUME HandoffAssumption, HandoffIInv, NEW k, FinalUpdate(k)
  PROVE  HandoffIInv'
<1> DEFINE r == active[k].request
           w == [active[k] EXCEPT !.phase = "leaving"]
<1>1. /\ k \in DOMAIN active /\ active[k].phase = "released" /\ UNCHANGED <<Others, ledger, history>>
      /\ Step(k, w)
  BY DEF FinalUpdate, WorkerAt
<1>2. active[k] \in Worker /\ WorkerSound(k) /\ active[k].result \in Terminal
  BY <1>1, OwnJob, WorkerFields
<1>3. AlikeBut(w, active[k], {"phase"}) /\ w.phase = "leaving"
  BY <1>2, PhaseField DEF Phase
<1> HIDE DEF w
<1>4. /\ r \in procs => active[k].doubt
      /\ active[k].result \in {"completed", "failed"} => r \in settled /\ ~ active[k].doubt
  BY <1>1, <1>2 DEF WorkerSound
<1>5. w \in Worker /\ w.request = r /\ w.ctx = active[k].ctx /\ w.doubt = active[k].doubt
      /\ w.result = active[k].result
  BY <1>3 DEF AlikeBut
<1>6. w.phase \notin Before /\ w.phase \in Finishing
  BY <1>3 DEF Before, Finishing
<1>7. CASE CanUpdate(r) /\ (Persists(r, Updated(r, active[k].result)) \/ PersistFails(r, Updated(r, active[k].result)))
  <2>1. DOMAIN active' = DOMAIN active /\ active'[k] = w /\ \A x \in DOMAIN active : x # k => active'[x] = active[x]
    BY <1>1, Stepped
  <2> QED  BY <1>1, <1>2, <1>3, <1>4, <1>5, <1>6, <1>7, <2>1, ReceiptMoves
<1>8. CASE UNCHANGED receiptStore
  <2>1. HandoffTypeOK /\ \A s \in procs : ProcSound(s)
    BY DEF HandoffIInv
  <2>2. UNCHANGED <<receiptStore, Others, outdated, slots, ledgerErr, procs, launched, settled>>
    BY <1>1, <1>8 DEF ledger, history
  <2>3. slots \in [Job -> JobState] /\ ledgerErr \in BOOLEAN
    BY <2>1 DEF HandoffTypeOK, JobState
  <2>4. r \in procs => slots[JobAt(k)] \in {"occupied", "uncertain"}
    BY <2>1 DEF ProcSound, JobAt, Req
  <2> QED  BY <1>1, <1>3, <1>4, <1>5, <1>6, <2>2, <2>3, <2>4, WorkerMoves
<1> QED  BY <1>7, <1>8 DEF FinalUpdate, Req

-----------------------------------------------------------------------------
(* The Manager and the Runtime. *)

(* Steps that write no receipt and start nothing: workers may go or lose their
   context, processes may end, and a free job may be reserved. *)
LEMMA ManagerMoves ==
  ASSUME HandoffAssumption, HandoffIInv,
         UNCHANGED <<receiptStore, launched, settled>>, ledgerErr' \in BOOLEAN, procs' \subseteq procs,
         slots' \in [Job -> JobState], \A j \in Job : slots'[j] = slots[j] \/ slots[j] = "none",
         DOMAIN active' \subseteq DOMAIN active,
         \A x \in DOMAIN active' : AlikeBut(active'[x], active[x], {"ctx"}),
         WorkersAllowed', runtime' \in {"up", "stopping", "closed", "dead"},
         runtime' \in {"closed", "dead"} => active' = Nothing,
         restarts' \in 0..MaxRestart, received' \in 0..MaxTicket, received' >= received,
         device' \in Context, generation' \in 0..MaxGeneration, tickets' \subseteq Tickets,
         outdated' \subseteq 1..received', \A t \in tickets' : TicketSound(t)'
  PROVE  HandoffIInv'
<1>0. /\ HandoffTypeOK /\ StoresAgree /\ SessionBound /\ EndIsSettled /\ \A s \in procs : ProcSound(s)
      /\ \A x \in DOMAIN active : WorkerSound(x)
  BY DEF HandoffIInv
<1>1. UNCHANGED <<receipts, items, err>>
  BY DEF receiptStore
<1>2. outdated' \subseteq 1..MaxTicket /\ (DOMAIN receipts' # {} => received' # 0)
  <2>1. received \in Nat /\ received' \in Nat /\ received' <= MaxTicket
    BY <1>0 DEF HandoffTypeOK, HandoffAssumption
  <2> QED  BY <1>1, <2>1 DEF HandoffIInv, HandoffAssumption
<1>3. HandoffTypeOK'
  BY <1>0, <1>1, <1>2 DEF HandoffTypeOK, AlikeBut, JobState
<1>4. StoresAgree' /\ SessionBound' /\ EndIsSettled'
  BY <1>0, <1>1 DEF StoresAgree, SessionBound, EndIsSettled
<1>5. ASSUME NEW x \in DOMAIN active' PROVE WorkerSound(x)'
  <2>1. /\ WorkerSound(x) /\ JobAt(x) \in Job /\ x \in DOMAIN active
    BY <1>0, OwnJob
  <2>2. /\ active'[x].request = active[x].request /\ active'[x].phase = active[x].phase
        /\ active'[x].result = active[x].result /\ active'[x].doubt = active[x].doubt
    BY DEF AlikeBut
  <2>3. slots[JobAt(x)] \in {"reserved", "occupied"} => slots'[JobAt(x)] = slots[JobAt(x)]
    BY <2>1
  <2>4. JobAt(x) = JobOf(active[x].request, items[active[x].request].content)
    BY DEF JobAt, Req
  <2> QED  BY <1>1, <2>1, <2>2, <2>3, <2>4 DEF WorkerSound, SessionAt
<1>6. ASSUME NEW s \in procs' PROVE ProcSound(s)'
  <2>1. ProcSound(s) /\ s \in Request /\ items[s] \in Receipt
    BY <1>0 DEF ProcSound, HandoffTypeOK
  <2>2. JobOf(s, items[s].content) \in Job
    BY <2>1 DEF JobOf, Job, Request, Receipt, HandoffAssumption
  <2> QED  BY <1>1, <2>1, <2>2 DEF ProcSound, SessionAt
<1>7. \A q \in Request : launched'[q] <= 1 /\ (launched'[q] = 1 => q \in DOMAIN items')
  BY <1>1 DEF HandoffIInv
<1> QED  BY <1>2, <1>3, <1>4, <1>5, <1>6, <1>7 DEF HandoffIInv

LEMMA SameWorker == ASSUME NEW w \in Worker PROVE AlikeBut(w, w, {"ctx"})
  BY DEF AlikeBut, Worker

(* What the Runtime's steps that are not about tickets keep. *)
LEMMA TicketsKept ==
  ASSUME HandoffAssumption, HandoffIInv, tickets' \subseteq tickets,
         UNCHANGED <<generation, received, outdated>>
  PROVE  /\ tickets' \subseteq Tickets /\ outdated' \subseteq 1..received' /\ received' >= received
         /\ received' \in 0..MaxTicket /\ generation' \in 0..MaxGeneration
         /\ \A t \in tickets' : TicketSound(t)'
<1>1. received \in 0..MaxTicket /\ generation \in 0..MaxGeneration /\ tickets \subseteq Tickets
  BY DEF HandoffIInv, HandoffTypeOK
<1>2. received' >= received
  BY <1>1 DEF HandoffAssumption
<1> QED  BY <1>1, <1>2 DEF HandoffIInv, TicketSound

LEMMA DepartSound ==
  ASSUME HandoffAssumption, HandoffIInv, NEW k, Depart(k)
  PROVE  HandoffIInv'
<1>1. /\ active' = Without(active, k) /\ k \in DOMAIN active
      /\ UNCHANGED <<receiptStore, runtime, restarts, device, generation, tickets, received,
                     slots, ledgerErr, procs, launched, settled, outdated>>
  BY DEF Depart, WorkerAt, Others, ledger, history
<1>2. DOMAIN active' \subseteq DOMAIN active /\ \A x \in DOMAIN active' : active'[x] = active[x]
  BY <1>1 DEF Without
<1>3. runtime \in {"up", "stopping"}
  BY <1>1, OwnJob
<1>4. HandoffTypeOK /\ WorkersAllowed
  BY DEF HandoffIInv
<1>5. WorkersAllowed' /\ \A x \in DOMAIN active' : AlikeBut(active'[x], active[x], {"ctx"})
  BY <1>1, <1>2, <1>4, SameWorker DEF WorkersAllowed, HandoffTypeOK
<1>6. /\ slots' \in [Job -> JobState] /\ ledgerErr' \in BOOLEAN /\ restarts' \in 0..MaxRestart
      /\ device' \in Context
  BY <1>1, <1>4 DEF HandoffTypeOK, JobState
<1> QED  BY <1>1, <1>2, <1>3, <1>5, <1>6, TicketsKept, ManagerMoves

LEMMA OrphanEndsSound ==
  ASSUME HandoffAssumption, HandoffIInv, NEW r, OrphanEnds(r)
  PROVE  HandoffIInv'
<1>1. /\ procs' = procs \ {r}
      /\ UNCHANGED <<receiptStore, runtime, restarts, device, generation, tickets, received, active,
                     slots, ledgerErr, launched, settled, outdated>>
  BY DEF OrphanEnds, Others, ledger
<1>2. HandoffTypeOK /\ WorkersAllowed
  BY DEF HandoffIInv
<1>3. /\ WorkersAllowed' /\ \A x \in DOMAIN active' : AlikeBut(active'[x], active[x], {"ctx"})
  BY <1>1, <1>2, SameWorker DEF WorkersAllowed, HandoffTypeOK
<1>4. /\ slots' \in [Job -> JobState] /\ ledgerErr' \in BOOLEAN /\ restarts' \in 0..MaxRestart
      /\ device' \in Context /\ runtime' \in {"up", "stopping", "closed", "dead"}
      /\ runtime' \in {"closed", "dead"} => active' = Nothing
  BY <1>1, <1>2 DEF HandoffTypeOK, JobState, HandoffIInv
<1> QED  BY <1>1, <1>3, <1>4, TicketsKept, ManagerMoves

LEMMA CaptureSound ==
  ASSUME HandoffAssumption, HandoffIInv, NEW r \in Request, NEW c \in Content, Capture(r, c)
  PROVE  HandoffIInv'
<1> DEFINE n == [nr |-> received + 1, request |-> r, content |-> c, generation |-> generation]
<1>1. /\ received' = received + 1 /\ received < MaxTicket /\ tickets' = tickets \cup {n} /\ runtime = "up"
      /\ UNCHANGED <<receiptStore, runtime, restarts, device, generation, active, slots, ledgerErr,
                     procs, launched, settled, outdated>>
  BY DEF Capture, ledger, history
<1>2. HandoffTypeOK /\ WorkersAllowed /\ outdated \subseteq 1..received /\ \A t \in tickets : TicketSound(t)
  BY DEF HandoffIInv
<1>3. WorkersAllowed' /\ \A x \in DOMAIN active' : AlikeBut(active'[x], active[x], {"ctx"})
  BY <1>1, <1>2, SameWorker DEF WorkersAllowed, HandoffTypeOK
<1>4. /\ slots' \in [Job -> JobState] /\ ledgerErr' \in BOOLEAN /\ restarts' \in 0..MaxRestart
      /\ device' \in Context /\ generation' \in 0..MaxGeneration
  BY <1>1, <1>2 DEF HandoffTypeOK, JobState
<1>5. /\ received \in Nat /\ received' \in 0..MaxTicket /\ received + 1 \in 1..MaxTicket /\ received' >= received
      /\ generation \in Nat
  BY <1>1, <1>2 DEF HandoffTypeOK, HandoffAssumption
<1>6. n \in Tickets
  BY <1>1, <1>4, <1>5 DEF Tickets
<1>7. tickets' \subseteq Tickets
  BY <1>1, <1>2, <1>6 DEF HandoffTypeOK
<1>8. ASSUME NEW t \in tickets' PROVE TicketSound(t)'
  <2>1. CASE t = n
    <3>1. t.nr = received + 1 /\ t.generation = generation /\ t.nr \notin outdated
      BY <1>2, <1>5, <2>1
    <3> QED  BY <1>1, <1>5, <3>1 DEF TicketSound
  <2>2. CASE t \in tickets
    <3>1. TicketSound(t) /\ t.nr \in Nat
      BY <1>2, <2>2 DEF HandoffTypeOK, Tickets
    <3> QED  BY <1>1, <1>5, <3>1 DEF TicketSound
  <2> QED  BY <1>1, <2>1, <2>2
<1>9. outdated' \subseteq 1..received'
  BY <1>1, <1>2, <1>5
<1> HIDE DEF n
<1> QED  BY <1>1, <1>3, <1>4, <1>5, <1>7, <1>8, <1>9, ManagerMoves

LEMMA SubmitRefusedSound ==
  ASSUME HandoffAssumption, HandoffIInv, NEW t, SubmitRefused(t)
  PROVE  HandoffIInv'
<1>1. /\ tickets' = tickets \ {t} /\ runtime \in {"up", "stopping"}
      /\ UNCHANGED <<receiptStore, runtime, restarts, device, generation, received, active, slots, ledgerErr,
                     procs, launched, settled, outdated>>
  BY DEF SubmitRefused, ledger, history
<1>2. HandoffTypeOK /\ WorkersAllowed
  BY DEF HandoffIInv
<1>3. /\ WorkersAllowed' /\ \A x \in DOMAIN active' : AlikeBut(active'[x], active[x], {"ctx"})
  BY <1>1, <1>2, SameWorker DEF WorkersAllowed, HandoffTypeOK
<1>4. /\ slots' \in [Job -> JobState] /\ ledgerErr' \in BOOLEAN /\ restarts' \in 0..MaxRestart
      /\ device' \in Context
  BY <1>1, <1>2 DEF HandoffTypeOK, JobState
<1> QED  BY <1>1, <1>3, <1>4, TicketsKept, ManagerMoves

LEMMA SyncDeviceSound ==
  ASSUME HandoffAssumption, HandoffIInv, NEW c \in Context, SyncDevice(c)
  PROVE  HandoffIInv'
<1>1. /\ runtime \in {"up", "stopping"} /\ (device # c => generation < MaxGeneration) /\ device' = c
      /\ generation' = (IF device # c THEN generation + 1 ELSE generation)
      /\ outdated' = (IF device # c THEN outdated \cup {t.nr : t \in tickets} ELSE outdated)
      /\ UNCHANGED <<receiptStore, runtime, restarts, tickets, received, slots, ledgerErr,
                     procs, launched, settled>>
  BY DEF SyncDevice, ledger
<1>2. /\ HandoffTypeOK /\ WorkersAllowed /\ outdated \subseteq 1..received /\ \A t \in tickets : TicketSound(t)
  BY DEF HandoffIInv
<1>3. DOMAIN active' = DOMAIN active
  BY DEF SyncDevice
<1>4. ASSUME NEW x \in DOMAIN active
      PROVE  AlikeBut(active'[x], active[x], {"ctx"})
             /\ (active'[x].ctx = "live" => active'[x].request[1] \in Allowed[c])
  <2>0. active[x] \in Worker
    BY <1>2 DEF HandoffTypeOK
  <2>1. CASE active[x].request[1] \notin Allowed[c] /\ active[x].ctx = "live"
    <3>1. active'[x] = [active[x] EXCEPT !.ctx = "revoked"]
      BY <2>1 DEF SyncDevice
    <3>2. AlikeBut(active'[x], active[x], {"ctx"}) /\ active'[x].ctx = "revoked"
      BY <2>0, <3>1, CtxField
    <3> QED  BY <3>2
  <2>2. CASE ~ (active[x].request[1] \notin Allowed[c] /\ active[x].ctx = "live")
    <3>1. active'[x] = active[x]
      BY <2>2 DEF SyncDevice
    <3> QED  BY <2>0, <2>2, <3>1, SameWorker
  <2> QED  BY <2>1, <2>2
<1>5. WorkersAllowed' /\ \A x \in DOMAIN active' : AlikeBut(active'[x], active[x], {"ctx"})
  BY <1>1, <1>3, <1>4 DEF WorkersAllowed
<1>6. /\ slots' \in [Job -> JobState] /\ ledgerErr' \in BOOLEAN /\ restarts' \in 0..MaxRestart
      /\ tickets' \subseteq Tickets /\ received' \in 0..MaxTicket
  BY <1>1, <1>2 DEF HandoffTypeOK, JobState
<1>7. /\ generation \in Nat /\ generation' \in 0..MaxGeneration /\ received \in Nat /\ received' >= received
      /\ generation' >= generation /\ (device # c => generation' = generation + 1)
  <2>1. generation \in 0..MaxGeneration /\ received \in 0..MaxTicket
    BY <1>2 DEF HandoffTypeOK
  <2> QED  BY <1>1, <2>1 DEF HandoffAssumption
<1>8. \A t \in tickets : t.nr \in 1..received /\ t.generation \in Nat /\ t.generation <= generation
  BY <1>2, <1>7 DEF TicketSound, HandoffTypeOK, Tickets, HandoffAssumption
<1>9. outdated' \subseteq 1..received'
  BY <1>1, <1>2, <1>8
<1>10. ASSUME NEW t \in tickets' PROVE TicketSound(t)'
  <2>1. TicketSound(t) /\ t.generation \in Nat /\ t.generation <= generation
    BY <1>1, <1>2, <1>8
  <2>2. CASE device # c
    <3>1. t.generation < generation'
      BY <1>7, <2>1, <2>2
    <3> QED  BY <1>1, <1>7, <2>1, <3>1 DEF TicketSound
  <2>3. CASE device = c
    BY <1>1, <2>1, <2>3 DEF TicketSound
  <2> QED  BY <2>2, <2>3
<1>11. \A j \in Job : slots'[j] = slots[j]
  BY <1>1
<1>12. runtime' \in {"up", "stopping"} /\ device' \in Context /\ procs' \subseteq procs
       /\ UNCHANGED <<receiptStore, launched, settled>>
  BY <1>1
<1> QED  BY <1>3, <1>5, <1>6, <1>7, <1>9, <1>10, <1>11, <1>12, ManagerMoves

LEMMA StopSound ==
  ASSUME HandoffAssumption, HandoffIInv, Stop
  PROVE  HandoffIInv'
<1>1. /\ runtime' = "stopping"
      /\ UNCHANGED <<receiptStore, restarts, device, generation, tickets, received, slots, ledgerErr,
                     procs, launched, settled, outdated>>
  BY DEF Stop, ledger, history
<1>2. HandoffTypeOK /\ WorkersAllowed
  BY DEF HandoffIInv
<1>3. DOMAIN active' = DOMAIN active
  BY DEF Stop
<1>4. ASSUME NEW x \in DOMAIN active
      PROVE  AlikeBut(active'[x], active[x], {"ctx"}) /\ active'[x].ctx # "live"
  <2>0. active[x] \in Worker
    BY <1>2 DEF HandoffTypeOK
  <2>1. CASE active[x].ctx = "live"
    <3>1. active'[x] = [active[x] EXCEPT !.ctx = "over"]
      BY <2>1 DEF Stop
    <3>2. AlikeBut(active'[x], active[x], {"ctx"}) /\ active'[x].ctx = "over"
      BY <2>0, <3>1, CtxField
    <3> QED  BY <3>2
  <2>2. CASE active[x].ctx # "live"
    <3>1. active'[x] = active[x]
      BY <2>2 DEF Stop
    <3> QED  BY <2>0, <2>2, <3>1, SameWorker
  <2> QED  BY <2>1, <2>2
<1>5. WorkersAllowed' /\ \A x \in DOMAIN active' : AlikeBut(active'[x], active[x], {"ctx"})
  BY <1>3, <1>4 DEF WorkersAllowed
<1>6. /\ slots' \in [Job -> JobState] /\ ledgerErr' \in BOOLEAN /\ restarts' \in 0..MaxRestart
      /\ device' \in Context
  BY <1>1, <1>2 DEF HandoffTypeOK, JobState
<1> QED  BY <1>1, <1>3, <1>5, <1>6, TicketsKept, ManagerMoves

LEMMA CloseSound ==
  ASSUME HandoffAssumption, HandoffIInv, Close
  PROVE  HandoffIInv'
<1>1. /\ runtime' = "closed" /\ active = Nothing
      /\ UNCHANGED <<receiptStore, restarts, device, generation, tickets, received, active, slots, ledgerErr,
                     procs, launched, settled, outdated>>
  BY DEF Close, ledger, history
<1>2. HandoffTypeOK /\ WorkersAllowed
  BY DEF HandoffIInv
<1>3. /\ WorkersAllowed' /\ \A x \in DOMAIN active' : AlikeBut(active'[x], active[x], {"ctx"})
  BY <1>1, <1>2, SameWorker DEF WorkersAllowed, HandoffTypeOK
<1>4. /\ slots' \in [Job -> JobState] /\ ledgerErr' \in BOOLEAN /\ restarts' \in 0..MaxRestart
      /\ device' \in Context
  BY <1>1, <1>2 DEF HandoffTypeOK, JobState
<1> QED  BY <1>1, <1>3, <1>4, TicketsKept, ManagerMoves

LEMMA RuntimeDiesSound ==
  ASSUME HandoffAssumption, HandoffIInv, RuntimeDies
  PROVE  HandoffIInv'
<1>1. /\ runtime' = "dead" /\ active' = Nothing
      /\ UNCHANGED <<receiptStore, restarts, device, generation, tickets, received, ledgerErr,
                     procs, launched, settled, outdated>>
  BY DEF RuntimeDies, history
<1>2. HandoffTypeOK
  BY DEF HandoffIInv
<1>3. DOMAIN active' = {}
  BY <1>1 DEF Nothing
<1>4. WorkersAllowed'
  BY <1>3 DEF WorkersAllowed
<1>5. slots' \in [Job -> JobState] /\ \A j \in Job : slots'[j] = slots[j] \/ slots[j] = "none"
  <2>1. slots \in [Job -> JobState]
    BY <1>2 DEF HandoffTypeOK, JobState
  <2>2. CASE slots' = slots
    BY <2>1, <2>2
  <2>3. CASE slots' # slots
    <3>1. PICK t \in tickets : /\ Room(JobOf(t.request, t.content))
                               /\ slots' = [slots EXCEPT ![JobOf(t.request, t.content)] = "reserved"]
      BY <2>3 DEF RuntimeDies
    <3> DEFINE i == JobOf(t.request, t.content)
    <3>2. slots[i] = "none"
      BY <3>1 DEF Room
    <3> HIDE DEF i
    <3>3. slots' = [slots EXCEPT ![i] = "reserved"]
      BY <3>1 DEF i
    <3> QED  BY <2>1, <3>2, <3>3 DEF JobState
  <2> QED  BY <2>2, <2>3
<1>6. ledgerErr' \in BOOLEAN /\ restarts' \in 0..MaxRestart /\ device' \in Context
  BY <1>1, <1>2 DEF HandoffTypeOK
<1> QED  BY <1>1, <1>3, <1>4, <1>5, <1>6, TicketsKept, ManagerMoves

(* Submit writes a receipt, or fails to; a worker is started with the receipt. *)
LEMMA SubmitWrites ==
  ASSUME HandoffAssumption, HandoffIInv, NEW t \in tickets, NEW r, r = t.request, NEW k, k = SessionOf[t.content],
         NEW x, x = [state |-> "received", content |-> t.content],
         ~ err, runtime = "up", UpToDate(t), r \notin DOMAIN items, OwnsSession(r[1], k), k \notin DOMAIN active,
         slots[JobOf(r, t.content)] = "none",
         slots' \in [Job -> JobState], ledgerErr' \in BOOLEAN,
         \A j \in Job : j # JobOf(r, t.content) => slots'[j] = slots[j],
         tickets' \subseteq tickets,
         UNCHANGED <<runtime, restarts, device, generation, received, history>>,
         \/ Persists(r, x) /\ slots'[JobOf(r, t.content)] = "reserved" /\ active' = With(active, k, NewWorker(r))
         \/ PersistFails(r, x) /\ active' = active
  PROVE  HandoffIInv'
<1>0. /\ HandoffTypeOK /\ StoresAgree /\ SessionBound /\ EndIsSettled /\ WorkersAllowed
      /\ \A s \in procs : ProcSound(s)
      /\ \A y \in DOMAIN active : WorkerSound(y)
      /\ \A q \in Request : launched[q] <= 1 /\ (launched[q] = 1 => q \in DOMAIN items)
      /\ \A u \in tickets : TicketSound(u)
      /\ outdated \subseteq 1..received
  BY DEF HandoffIInv
<1>1. /\ r \in Request /\ t.content \in Content /\ k \in Session /\ x \in Receipt /\ x.state = "received"
      /\ x.content = t.content /\ SessionOf[x.content] = k /\ r[1] \in Allowed[device]
  BY <1>0 DEF HandoffTypeOK, Tickets, Receipt, NonTerminal, HandoffAssumption, UpToDate
<1>2. UNCHANGED <<runtime, restarts, device, generation, received, procs, launched, settled, outdated>>
  BY DEF history
<1>3. receipts = items
  BY <1>0 DEF StoresAgree
<1>4. /\ DOMAIN receipts' \subseteq Request /\ \A q \in DOMAIN receipts' : receipts'[q] \in Receipt
      /\ DOMAIN items' \subseteq Request /\ \A q \in DOMAIN items' : items'[q] \in Receipt
      /\ err' \in BOOLEAN /\ StoresAgree'
      /\ \A q \in Request : q # r => /\ q \in DOMAIN receipts' <=> q \in DOMAIN receipts
                                     /\ q \in DOMAIN items' <=> q \in DOMAIN items
                                     /\ receipts'[q] = receipts[q] \/ q \notin DOMAIN receipts
                                     /\ items'[q] = items[q] \/ q \notin DOMAIN items
      /\ r \in DOMAIN items' => items'[r] = x
      /\ r \in DOMAIN receipts' => receipts'[r] = x
  BY <1>0, <1>1, <1>3, WriteFields
<1>5. /\ \A q \in DOMAIN items : q # r /\ q \in DOMAIN items' /\ items'[q] = items[q] /\ receipts'[q] = items[q]
      /\ \A q \in DOMAIN receipts' : q = r \/ (q \in DOMAIN items /\ receipts'[q] = items[q])
  <2>1. DOMAIN items \subseteq Request
    BY <1>0 DEF HandoffTypeOK
  <2> QED  BY <1>3, <1>4, <2>1
<1>6. \A s \in procs : s \in DOMAIN items /\ SessionAt(s)' = SessionAt(s) /\ s # r
  BY <1>0, <1>5 DEF ProcSound, SessionAt
<1>7. r \notin procs /\ launched[r] = 0
  <2>1. launched[r] \in 0..MaxTicket /\ launched[r] <= 1 /\ launched[r] # 1
    BY <1>0, <1>1 DEF HandoffTypeOK
  <2> QED  BY <1>6, <2>1 DEF HandoffAssumption
<1>8. ASSUME NEW s \in procs PROVE SessionAt(s) # k
  <2>1. ProcSound(s) /\ s \in DOMAIN items
    BY <1>0, <1>6
  <2>2. SessionAt(s) = k => JobOf(s, items[s].content) = JobOf(r, t.content)
    BY <1>1, <2>1 DEF OwnsSession, SessionAt, JobOf
  <2> QED  BY <2>1, <2>2 DEF ProcSound
<1>9. /\ DOMAIN active' \subseteq DOMAIN active \cup {k}
      /\ \A y \in DOMAIN active : y # k /\ active'[y] = active[y]
      /\ k \in DOMAIN active' => active'[k] = NewWorker(r) /\ Persists(r, x)
                                 /\ slots'[JobOf(r, t.content)] = "reserved"
  <2>1. CASE active' = active
    BY <2>1
  <2>2. CASE active' = With(active, k, NewWorker(r)) /\ Persists(r, x)
             /\ slots'[JobOf(r, t.content)] = "reserved"
    BY <2>2 DEF With
  <2> QED  BY <2>1, <2>2
<1>10. k \in DOMAIN active' => r \in DOMAIN items' /\ r \in DOMAIN receipts' /\ items'[r] = x /\ receipts'[r] = x
  <2>1. ASSUME Persists(r, x) PROVE r \in DOMAIN items' /\ r \in DOMAIN receipts'
    BY <2>1 DEF Persists, With
  <2> QED  BY <1>4, <1>9, <2>1
<1>11. NewWorker(r) \in Worker /\ NewWorker(r).phase = "authorising" /\ NewWorker(r).request = r
       /\ ~ NewWorker(r).doubt
  BY <1>1 DEF NewWorker, Worker, Phase, Terminal
<1>12. HandoffTypeOK'
  <2>1. DOMAIN active' \subseteq Session /\ \A y \in DOMAIN active' : active'[y] \in Worker
    BY <1>0, <1>1, <1>9, <1>11 DEF HandoffTypeOK
  <2>2. tickets' \subseteq Tickets
    BY <1>0 DEF HandoffTypeOK
  <2> QED  BY <1>0, <1>2, <1>4, <2>1, <2>2 DEF HandoffTypeOK, JobState
<1>13. SessionBound'
  <2>1. \A q \in DOMAIN items : SessionOf[items[q].content] = k => q[1] = r[1]
    BY DEF OwnsSession
  <2> SUFFICES ASSUME NEW p \in DOMAIN receipts', NEW q \in DOMAIN receipts',
                      SessionOf[receipts'[p].content] = SessionOf[receipts'[q].content]
               PROVE  p[1] = q[1]
    BY DEF SessionBound
  <2>2. CASE p = r /\ q = r
    BY <2>2
  <2>3. CASE p = r /\ q # r
    BY <1>1, <1>4, <1>5, <2>1, <2>3
  <2>4. CASE p # r /\ q = r
    BY <1>1, <1>4, <1>5, <2>1, <2>4
  <2>5. CASE p # r /\ q # r
    <3>1. p \in DOMAIN items /\ q \in DOMAIN items /\ SessionOf[items[p].content] = SessionOf[items[q].content]
      BY <1>5, <2>5
    <3> QED  BY <1>0, <1>3, <3>1 DEF SessionBound
  <2> QED  BY <2>2, <2>3, <2>4, <2>5
<1>14. EndIsSettled'
  <2> SUFFICES ASSUME NEW q \in DOMAIN receipts', receipts'[q].state \in {"completed", "failed"}
               PROVE  q \in settled /\ q \notin procs
    BY <1>2 DEF EndIsSettled
  <2>1. q \in DOMAIN items /\ receipts'[q] = items[q]
    BY <1>1, <1>4, <1>5
  <2> QED  BY <1>0, <1>3, <2>1 DEF EndIsSettled
<1>15. WorkersAllowed'
  BY <1>0, <1>1, <1>2, <1>9, <1>11 DEF WorkersAllowed
<1>16. ASSUME NEW y \in DOMAIN active' PROVE WorkerSound(y)'
  <2>1. CASE y = k
    <3>1. active'[y] = NewWorker(r) /\ slots'[JobOf(r, t.content)] = "reserved"
      BY <1>9, <2>1
    <3>2. r \in DOMAIN items' /\ items'[r] = x /\ receipts'[r] = x
      BY <1>10, <2>1
    <3>3. \A s \in procs' : SessionAt(s)' # k
      BY <1>2, <1>6, <1>8
    <3>4. SessionOf[items'[r].content] = k /\ items'[r].content = t.content
          /\ items'[r].state \in NonTerminal /\ receipts'[r].state \in NonTerminal
      BY <1>1, <3>2 DEF NonTerminal
    <3>5. slots'[JobOf(r, items'[r].content)] = "reserved"
      BY <3>1, <3>4
    <3> QED  BY <1>2, <1>7, <1>11, <2>1, <3>1, <3>2, <3>3, <3>4, <3>5 DEF WorkerSound, SessionAt
  <2>2. CASE y # k
    <3>1. y \in DOMAIN active /\ WorkerSound(y) /\ active'[y] = active[y] /\ active[y].request \in DOMAIN items
      BY <1>0, <1>9, <2>2 DEF WorkerSound
    <3>2. /\ active[y].request \in DOMAIN items'
          /\ items'[active[y].request] = items[active[y].request]
          /\ receipts'[active[y].request] = receipts[active[y].request]
      BY <1>3, <1>5, <3>1
    <3>3. \A s \in procs' : SessionAt(s)' = y => s = active[y].request
      BY <1>2, <1>6, <3>1 DEF WorkerSound
    <3>4. JobAt(y) \in Job /\ JobAt(y) = JobOf(active[y].request, items[active[y].request].content)
      BY <3>1, OwnJob DEF JobAt, Req
    <3>5. slots[JobAt(y)] \in {"reserved", "occupied"} => slots'[JobAt(y)] = slots[JobAt(y)]
      BY <3>4
    <3> QED  BY <1>2, <3>1, <3>2, <3>3, <3>4, <3>5 DEF WorkerSound, SessionAt
  <2> QED  BY <2>1, <2>2
<1>17. ASSUME NEW s \in procs' PROVE ProcSound(s)'
  <2>1. s \in procs /\ ProcSound(s) /\ s \in Request /\ items[s] \in Receipt
    BY <1>0, <1>2, <1>6 DEF HandoffTypeOK
  <2>2. JobOf(s, items[s].content) \in Job
    BY <2>1 DEF JobOf, Job, Request, Receipt, HandoffAssumption
  <2>3. slots'[JobOf(s, items[s].content)] = slots[JobOf(s, items[s].content)]
    BY <2>1, <2>2 DEF ProcSound
  <2> QED  BY <1>2, <1>5, <1>6, <2>1, <2>3 DEF ProcSound
<1>18. \A q \in Request : launched'[q] <= 1 /\ (launched'[q] = 1 => q \in DOMAIN items')
  BY <1>0, <1>2, <1>5
<1>19. \A u \in tickets' : TicketSound(u)'
  BY <1>0, <1>2 DEF TicketSound
<1>20. outdated' \subseteq 1..received' /\ received' # 0 /\ runtime' = "up"
  <2>1. t.nr \in 1..MaxTicket /\ t.nr <= received /\ received \in Nat
    BY <1>0 DEF HandoffTypeOK, Tickets, TicketSound, HandoffAssumption
  <2>2. received # 0
    BY <2>1
  <2> QED  BY <1>0, <1>2, <2>2
<1> QED  BY <1>4, <1>12, <1>13, <1>14, <1>15, <1>16, <1>17, <1>18, <1>19, <1>20 DEF HandoffIInv

LEMMA SubmitSound ==
  ASSUME HandoffAssumption, HandoffIInv, NEW t, Submit(t)
  PROVE  HandoffIInv'
<1> DEFINE r == t.request
           k == SessionOf[t.content]
           j == JobOf(r, t.content)
           x == [state |-> "received", content |-> t.content]
           reserved == [slots EXCEPT ![j] = "reserved"]
<1>1. /\ t \in tickets /\ Admissible(t) /\ Room(j) /\ tickets' = tickets \ {t}
      /\ UNCHANGED <<runtime, restarts, device, generation, received, history>>
      /\ \/ LedgerSaves(reserved) /\ Persists(r, x) /\ active' = With(active, k, NewWorker(r))
         \/ (LedgerSaves(slots) \/ LedgerFails(reserved)) /\ PersistFails(r, x) /\ UNCHANGED active
         \/ LedgerFails(reserved) /\ UNCHANGED <<receiptStore, active>>
  BY DEF Submit
<1>2. /\ ~ err /\ runtime = "up" /\ UpToDate(t) /\ r \notin DOMAIN items /\ OwnsSession(r[1], k)
      /\ k \notin DOMAIN active /\ slots[j] = "none"
  BY <1>1 DEF Admissible, HasReceipt, Room
<1>3. HandoffTypeOK /\ slots \in [Job -> JobState] /\ ledgerErr \in BOOLEAN /\ WorkersAllowed
  BY DEF HandoffIInv, HandoffTypeOK, JobState
<1>4. j \in Job
  BY <1>1, <1>3 DEF HandoffTypeOK, Tickets, JobOf, Job, Request, HandoffAssumption
<1>5. /\ reserved \in [Job -> JobState] /\ reserved[j] = "reserved"
      /\ \A i \in Job : i # j => reserved[i] = slots[i]
  BY <1>3, <1>4 DEF JobState
<1> HIDE DEF reserved, x, j
<1>6. CASE LedgerSaves(reserved) /\ Persists(r, x) /\ active' = With(active, k, NewWorker(r))
  <2>1. slots' = reserved /\ ledgerErr' = ledgerErr
    BY <1>6 DEF LedgerSaves
  <2>2. /\ slots' \in [Job -> JobState] /\ ledgerErr' \in BOOLEAN /\ slots'[j] = "reserved"
        /\ \A i \in Job : i # j => slots'[i] = slots[i]
    BY <1>3, <1>5, <2>1
  <2>3. tickets' \subseteq tickets
    BY <1>1
  <2> QED  BY <1>1, <1>2, <1>6, <2>2, <2>3, SubmitWrites DEF x, j
<1>7. CASE (LedgerSaves(slots) \/ LedgerFails(reserved)) /\ PersistFails(r, x) /\ UNCHANGED active
  <2>1. slots' \in {slots, reserved} /\ ledgerErr' \in BOOLEAN
    BY <1>3, <1>7 DEF LedgerSaves, LedgerFails
  <2>2. /\ slots' \in [Job -> JobState] /\ \A i \in Job : i # j => slots'[i] = slots[i]
    BY <1>3, <1>5, <2>1
  <2>3. tickets' \subseteq tickets
    BY <1>1
  <2> QED  BY <1>1, <1>2, <1>7, <2>1, <2>2, <2>3, SubmitWrites DEF x, j
<1>8. CASE LedgerFails(reserved) /\ UNCHANGED <<receiptStore, active>>
  <2>1. slots' \in {slots, reserved} /\ ledgerErr' \in BOOLEAN
    BY <1>8 DEF LedgerFails
  <2>2. /\ slots' \in [Job -> JobState] /\ \A i \in Job : slots'[i] = slots[i] \/ slots[i] = "none"
    BY <1>2, <1>3, <1>5, <2>1
  <2>3. /\ tickets' \subseteq tickets
        /\ UNCHANGED <<receiptStore, launched, settled, runtime, restarts, device, generation, received, active,
                       procs, outdated>>
    BY <1>1, <1>8 DEF history
  <2>4. WorkersAllowed' /\ \A y \in DOMAIN active' : AlikeBut(active'[y], active[y], {"ctx"})
    BY <1>3, <2>3, SameWorker DEF WorkersAllowed, HandoffTypeOK
  <2>5. restarts' \in 0..MaxRestart /\ device' \in Context /\ runtime' = "up"
    BY <1>2, <1>3, <2>3 DEF HandoffTypeOK
  <2> QED  BY <2>1, <2>2, <2>3, <2>4, <2>5, TicketsKept, ManagerMoves
<1> QED  BY <1>1, <1>6, <1>7, <1>8

(* load makes unknown what had not ended, and leaves what had. *)
LEMMA RestartedFields ==
  ASSUME NEW x \in Receipt
  PROVE  /\ Restarted(x) \in Receipt /\ Restarted(x).content = x.content
         /\ x.state \in Terminal => Restarted(x) = x
         /\ Restarted(x).state \in {"completed", "failed"} => Restarted(x) = x
  BY DEF Restarted, Receipt, Terminal, NonTerminal

LEMMA RestartSound ==
  ASSUME HandoffAssumption, HandoffIInv, Restart
  PROVE  HandoffIInv'
<1>0. /\ HandoffTypeOK /\ StoresAgree /\ SessionBound /\ EndIsSettled
      /\ \A s \in procs : ProcSound(s)
      /\ \A q \in Request : launched[q] <= 1 /\ (launched[q] = 1 => q \in DOMAIN items)
      /\ outdated \subseteq 1..received /\ (DOMAIN receipts # {} => received # 0)
      /\ active = Nothing
  BY DEF HandoffIInv, Restart
<1>1. /\ restarts < MaxRestart /\ restarts' = restarts + 1 /\ runtime' = "up" /\ device' = NoContext
      /\ generation' = 0 /\ tickets' = {}
      /\ UNCHANGED <<received, active, procs, launched, settled, outdated>>
  BY DEF Restart, history
<1>2. PICK done \in SUBSET DOMAIN receipts :
        /\ receipts' = [r \in DOMAIN receipts |-> IF r \in done THEN Restarted(receipts[r]) ELSE receipts[r]]
        /\ items' = receipts' /\ err' = (done # DOMAIN receipts)
  BY DEF Restart
<1>3. DOMAIN receipts' = DOMAIN receipts
  BY <1>2
<1>4. ASSUME NEW q \in DOMAIN receipts
      PROVE  /\ receipts'[q] \in Receipt /\ receipts'[q].content = receipts[q].content
             /\ receipts'[q].state \in {"completed", "failed"} => receipts'[q] = receipts[q]
  <2>1. receipts[q] \in Receipt
    BY <1>0 DEF HandoffTypeOK
  <2>2. receipts'[q] \in {receipts[q], Restarted(receipts[q])}
    BY <1>2
  <2> QED  BY <2>1, <2>2, RestartedFields
<1>5. items' = receipts' /\ err' \in BOOLEAN
  BY <1>2
<1>6. /\ slots' \in [Job -> JobState] /\ ledgerErr' \in BOOLEAN
      /\ \A j \in Job : slots[j] \in {"occupied", "uncertain"} => slots'[j] \in {"occupied", "uncertain"}
  <2>1. slots' \in {slots, Recover(slots)} /\ ledgerErr' \in BOOLEAN
    BY DEF Restart, LedgerFails
  <2>2. slots \in [Job -> JobState]
    BY <1>0 DEF HandoffTypeOK, JobState
  <2>3. /\ Recover(slots) \in [Job -> JobState]
        /\ \A j \in Job : slots[j] \in {"occupied", "uncertain"} => Recover(slots)[j] = "uncertain"
    BY <2>2 DEF Recover, JobState
  <2> QED  BY <2>1, <2>2, <2>3
<1>7. DOMAIN active' = {}
  BY <1>0, <1>1 DEF Nothing
<1>8. HandoffTypeOK'
  <2>1. restarts' \in 0..MaxRestart /\ generation' \in 0..MaxGeneration
    BY <1>0, <1>1 DEF HandoffTypeOK, HandoffAssumption
  <2>2. NoContext \in Context
    BY DEF HandoffAssumption
  <2>3. DOMAIN receipts' \subseteq Request /\ \A q \in DOMAIN receipts' : receipts'[q] \in Receipt
    BY <1>0, <1>3, <1>4 DEF HandoffTypeOK
  <2>4. DOMAIN items' \subseteq Request /\ \A q \in DOMAIN items' : items'[q] \in Receipt
    BY <1>5, <2>3
  <2> QED  BY <1>0, <1>1, <1>5, <1>6, <1>7, <2>1, <2>2, <2>3, <2>4 DEF HandoffTypeOK, JobState
<1>9. StoresAgree'
  BY <1>5 DEF StoresAgree
<1>10. SessionBound'
  BY <1>0, <1>3, <1>4 DEF SessionBound
<1>11. EndIsSettled'
  BY <1>0, <1>1, <1>3, <1>4 DEF EndIsSettled
<1>12. WorkersAllowed'
  BY <1>7 DEF WorkersAllowed
<1>13. ASSUME NEW s \in procs' PROVE ProcSound(s)'
  <2>1. s \in procs /\ ProcSound(s) /\ s \in DOMAIN receipts /\ s \in Request /\ items[s] \in Receipt
    BY <1>0, <1>1 DEF ProcSound, StoresAgree, HandoffTypeOK
  <2>2. JobOf(s, items[s].content) \in Job
    BY <2>1 DEF JobOf, Job, Request, Receipt, HandoffAssumption
  <2>3. \A q \in procs : q \in DOMAIN receipts /\ items'[q].content = items[q].content
    BY <1>0, <1>4, <1>5 DEF ProcSound, StoresAgree
  <2>4. slots'[JobOf(s, items'[s].content)] \in {"occupied", "uncertain"}
    BY <1>6, <2>1, <2>2, <2>3 DEF ProcSound
  <2> QED  BY <1>1, <1>3, <1>5, <2>1, <2>3, <2>4 DEF ProcSound, SessionAt
<1>14. \A q \in Request : launched'[q] <= 1 /\ (launched'[q] = 1 => q \in DOMAIN items')
  BY <1>0, <1>1, <1>3, <1>5 DEF StoresAgree
<1>15. outdated' \subseteq 1..received' /\ (DOMAIN receipts' # {} => received' # 0)
  BY <1>0, <1>1, <1>3
<1> QED  BY <1>1, <1>7, <1>8, <1>9, <1>10, <1>11, <1>12, <1>13, <1>14, <1>15 DEF HandoffIInv

LEMMA HandoffStepSound ==
  ASSUME HandoffAssumption, HandoffIInv, [HandoffNext]_handoffVars
  PROVE  HandoffIInv'
<1>1. ASSUME NEW r \in Request, NEW c \in Content, Capture(r, c) PROVE HandoffIInv'
  BY <1>1, CaptureSound
<1>2. ASSUME NEW c \in Context, SyncDevice(c) PROVE HandoffIInv'
  BY <1>2, SyncDeviceSound
<1>3. ASSUME NEW t \in tickets, Submit(t) \/ SubmitRefused(t) PROVE HandoffIInv'
  BY <1>3, SubmitSound, SubmitRefusedSound
<1>4. ASSUME NEW k \in Session, WorkerStep(k) PROVE HandoffIInv'
  BY <1>4, AuthoriseSound, StartProbeSound, ProbeEndsSound, PreflightFailsSound, PreflightPassesSound,
     AcceptSound, LaunchSound, InitEventSound, AgentEndsSound, ReleaseSound, FinalUpdateSound, DepartSound
  DEF WorkerStep
<1>5. ASSUME NEW k \in Session, ContextEnds(k) PROVE HandoffIInv'
  BY <1>5, ContextEndsSound
<1>6. ASSUME NEW r \in Request, OrphanEnds(r) PROVE HandoffIInv'
  BY <1>6, OrphanEndsSound
<1>7. CASE Stop \/ Close \/ RuntimeDies \/ Restart
  BY <1>7, StopSound, CloseSound, RuntimeDiesSound, RestartSound
<1>8. CASE UNCHANGED handoffVars
  <2>1. UNCHANGED <<receipts, items, err, runtime, restarts, device, generation, tickets, received, active,
                    slots, ledgerErr, procs, launched, settled, outdated>>
    BY <1>8 DEF handoffVars, receiptStore, ledger, history
  <2>2. HandoffTypeOK' /\ StoresAgree' /\ SessionBound' /\ EndIsSettled' /\ WorkersAllowed'
    BY <2>1 DEF HandoffIInv, HandoffTypeOK, StoresAgree, SessionBound, EndIsSettled, WorkersAllowed
  <2>3. /\ \A x \in DOMAIN active' : WorkerSound(x)'
        /\ \A s \in procs' : ProcSound(s)'
        /\ \A t \in tickets' : TicketSound(t)'
    BY <2>1 DEF HandoffIInv, WorkerSound, ProcSound, TicketSound, SessionAt
  <2> QED  BY <2>1, <2>2, <2>3 DEF HandoffIInv
<1> QED  BY <1>1, <1>2, <1>3, <1>4, <1>5, <1>6, <1>7, <1>8 DEF HandoffNext, Exhausted

LEMMA HandoffInitSound == ASSUME HandoffAssumption, HandoffInit PROVE HandoffIInv
<1>1. DOMAIN Nothing = {}
  BY DEF Nothing
<1>3. /\ slots \in [Job -> {"none", "reserved", "occupied", "uncertain"}]
      /\ 0 \in 0..MaxTicket /\ 0 \in 0..MaxRestart /\ 0 \in 0..MaxGeneration
  BY DEF HandoffInit, HandoffAssumption
<1>4. launched \in [Request -> 0..MaxTicket]
  BY <1>3 DEF HandoffInit
<1>5. /\ DOMAIN receipts = {} /\ DOMAIN items = {} /\ DOMAIN active = {} /\ err = FALSE /\ ledgerErr = FALSE
      /\ runtime = "up" /\ restarts = 0 /\ received = 0 /\ generation = 0 /\ device = NoContext
      /\ tickets = {} /\ procs = {} /\ settled = {} /\ outdated = {}
  BY <1>1 DEF HandoffInit
<1>6. NoContext \in Context
  BY DEF HandoffAssumption
<1>2. HandoffTypeOK
  BY <1>3, <1>4, <1>5, <1>6 DEF HandoffTypeOK
<1> QED
  BY <1>1, <1>2 DEF HandoffInit, HandoffIInv, StoresAgree, SessionBound, EndIsSettled, WorkersAllowed,
                    HandoffAssumption

(* Memory and disk agree wherever the store reports no error, every worker is
   bound to the receipt of its session, and an end is known or unknown for the
   right reason (Manager.Submit, load, run, update). *)
THEOREM HandoffInvariant == ASSUME HandoffAssumption PROVE HandoffSpec => []HandoffIInv
<1>1. HandoffInit => HandoffIInv
  BY HandoffInitSound
<1>2. HandoffIInv /\ [HandoffNext]_handoffVars => HandoffIInv'
  BY HandoffStepSound
<1> QED  BY <1>1, <1>2, PTL DEF HandoffSpec

(* What the receipts, the workers and the processes promise each other
   (Manager.Submit, run, load; the ledger's Owner): see ManagerInv. *)
THEOREM ManagerSafe == ASSUME HandoffAssumption PROVE HandoffSpec => []ManagerInv
<1>1. ASSUME HandoffIInv PROVE ManagerInv
  <2>1. HandoffTypeOK /\ SessionBound /\ EndIsSettled /\ WorkersAllowed /\ StoresAgree
        /\ \A s \in procs : ProcSound(s)
    BY <1>1 DEF HandoffIInv
  <2>2. RunOnce
    BY <1>1 DEF HandoffIInv, RunOnce
  <2>3. SessionExclusive
    <3>1. \A s \in procs : SessionAt(s) = SessionOf[receipts[s].content]
      BY <2>1 DEF ProcSound, StoresAgree, SessionAt
    <3> QED  BY <2>1, <3>1 DEF SessionExclusive, ProcSound
  <2>4. ClosedMeansIdle
    BY <1>1 DEF HandoffIInv, ClosedMeansIdle
  <2> QED  BY <2>1, <2>2, <2>3, <2>4 DEF ManagerInv
<1> QED  BY <1>1, HandoffInvariant, PTL
-----------------------------------------------------------------------------
(* How receipts change. *)
ReceiptsKeep ==
  /\ \A r \in DOMAIN receipts : receipts[r].state \in Terminal => r \in DOMAIN receipts' /\ receipts'[r] = receipts[r]
  /\ runtime = "up" => \A r \in DOMAIN items' \ DOMAIN items :
        \E t \in tickets \ tickets' : t.request = r /\ t.nr \notin outdated

(* A worker writes the receipt of its own request, which has not ended. *)
LEMMA WorkerKeeps ==
  ASSUME HandoffAssumption, HandoffIInv, NEW k \in DOMAIN active, active[k].phase # "leaving",
         NEW st \in NonTerminal \cup Terminal, CanUpdate(Req(k)),
         Persists(Req(k), Updated(Req(k), st)) \/ PersistFails(Req(k), Updated(Req(k), st))
  PROVE  ReceiptsKeep
<1> DEFINE r == Req(k)
<1>1. HandoffTypeOK /\ StoresAgree /\ ~ err
  BY DEF HandoffIInv, CanUpdate
<1>2. r \in Request /\ r \in DOMAIN items /\ receipts[r].state \in NonTerminal
  BY OwnJob DEF WorkerSound, Req
<1>3. Updated(r, st) \in Receipt /\ items[r].content = Updated(r, st).content
  BY <1>1, <1>2, UpdatedFields
<1> HIDE DEF r
<1>4. Persists(r, Updated(r, st)) \/ PersistFails(r, Updated(r, st))
  BY DEF r
<1>5. \A q \in Request : q # r => /\ q \in DOMAIN receipts' <=> q \in DOMAIN receipts
                                  /\ q \in DOMAIN items' <=> q \in DOMAIN items
                                  /\ receipts'[q] = receipts[q] \/ q \notin DOMAIN receipts
  BY <1>1, <1>2, <1>3, <1>4, WriteFields
<1>6. DOMAIN items' \subseteq Request /\ DOMAIN receipts \subseteq Request
  <2>1. DOMAIN items' \subseteq Request
    BY <1>1, <1>2, <1>3, <1>4, WriteFields
  <2> QED  BY <1>1, <2>1 DEF HandoffTypeOK
<1>7. receipts[r].state \notin Terminal
  BY <1>2 DEF NonTerminal, Terminal
<1>8. DOMAIN items' \subseteq DOMAIN items
  BY <1>2, <1>5, <1>6
<1> QED  BY <1>5, <1>6, <1>7, <1>8 DEF ReceiptsKeep

LEMMA SubmitKeeps ==
  ASSUME HandoffAssumption, HandoffIInv, NEW t, Submit(t)
  PROVE  ReceiptsKeep
<1> DEFINE r == t.request
           x == [state |-> "received", content |-> t.content]
<1>1. /\ t \in tickets /\ Admissible(t) /\ tickets' = tickets \ {t}
      /\ Persists(r, x) \/ PersistFails(r, x) \/ UNCHANGED receiptStore
  BY DEF Submit
<1>2. ~ err /\ r \notin DOMAIN items /\ t.generation = generation
  BY <1>1 DEF Admissible, HasReceipt, UpToDate
<1>3. /\ HandoffTypeOK /\ StoresAgree /\ TicketSound(t) /\ generation \in Nat /\ t \in Tickets
  BY <1>1 DEF HandoffIInv, HandoffTypeOK, HandoffAssumption
<1>4. t.nr \notin outdated
  BY <1>2, <1>3 DEF TicketSound
<1>5. r \in Request /\ x \in Receipt /\ receipts = items
  BY <1>2, <1>3 DEF Tickets, Receipt, NonTerminal, StoresAgree
<1> HIDE DEF x, r
<1>6. CASE Persists(r, x) \/ PersistFails(r, x)
  <2>1. \A q \in Request : q # r => /\ q \in DOMAIN receipts' <=> q \in DOMAIN receipts
                                    /\ q \in DOMAIN items' <=> q \in DOMAIN items
                                    /\ receipts'[q] = receipts[q] \/ q \notin DOMAIN receipts
    BY <1>2, <1>3, <1>5, <1>6, WriteFields
  <2>2. DOMAIN items' \subseteq Request
    BY <1>2, <1>3, <1>5, <1>6, WriteFields
  <2>3. \A q \in DOMAIN items' \ DOMAIN items : q = r
    BY <2>1, <2>2
  <2>4. \A q \in DOMAIN receipts : q \in Request /\ q # r
    BY <1>2, <1>3, <1>5 DEF HandoffTypeOK
  <2>5. t \in tickets \ tickets' /\ t.request = r
    BY <1>1 DEF r
  <2> QED  BY <1>4, <2>1, <2>3, <2>4, <2>5 DEF ReceiptsKeep
<1>7. CASE UNCHANGED receiptStore
  BY <1>7 DEF ReceiptsKeep, receiptStore
<1> QED  BY <1>1, <1>6, <1>7 DEF r, x

LEMMA RestartKeeps ==
  ASSUME HandoffAssumption, HandoffIInv, Restart
  PROVE  ReceiptsKeep
<1>1. PICK done \in SUBSET DOMAIN receipts :
        receipts' = [r \in DOMAIN receipts |-> IF r \in done THEN Restarted(receipts[r]) ELSE receipts[r]]
  BY DEF Restart
<1>2. runtime # "up"
  BY DEF Restart
<1>3. ASSUME NEW r \in DOMAIN receipts, receipts[r].state \in Terminal
      PROVE  r \in DOMAIN receipts' /\ receipts'[r] = receipts[r]
  <2>1. receipts[r] \in Receipt
    BY DEF HandoffIInv, HandoffTypeOK
  <2>2. Restarted(receipts[r]) = receipts[r]
    BY <1>3, <2>1, RestartedFields
  <2> QED  BY <1>1, <2>2
<1> QED  BY <1>2, <1>3 DEF ReceiptsKeep

(* An end is final, and what is admitted came under the device context in force
   (Manager.Submit, update, load). *)
THEOREM ReceiptsKept == ASSUME HandoffAssumption PROVE HandoffSpec => ReceiptsChange
<1>1. ASSUME HandoffIInv, [HandoffNext]_handoffVars PROVE ReceiptsKeep
  <2>1. CASE UNCHANGED receiptStore
    BY <2>1 DEF ReceiptsKeep, receiptStore
  <2>2. ASSUME NEW t \in tickets, Submit(t) PROVE ReceiptsKeep
    BY <1>1, <2>2, SubmitKeeps
  <2>3. ASSUME NEW k, Accept(k) PROVE ReceiptsKeep
    <3>1. k \in DOMAIN active /\ active[k].phase # "leaving" /\ "accepted" \in NonTerminal \cup Terminal
      BY <2>3 DEF Accept, WorkerAt, NonTerminal
    <3>2. \/ /\ CanUpdate(Req(k))
             /\ Persists(Req(k), Updated(Req(k), "accepted")) \/ PersistFails(Req(k), Updated(Req(k), "accepted"))
          \/ UNCHANGED receiptStore
      BY <2>3 DEF Accept
    <3> QED  BY <1>1, <2>1, <3>1, <3>2, WorkerKeeps
  <2>4. ASSUME NEW k, InitEvent(k) PROVE ReceiptsKeep
    <3>1. k \in DOMAIN active /\ active[k].phase # "leaving" /\ "running" \in NonTerminal \cup Terminal
      BY <2>4 DEF InitEvent, WorkerAt, NonTerminal
    <3>2. /\ CanUpdate(Req(k))
          /\ Persists(Req(k), Updated(Req(k), "running")) \/ PersistFails(Req(k), Updated(Req(k), "running"))
      BY <2>4 DEF InitEvent
    <3> QED  BY <1>1, <3>1, <3>2, WorkerKeeps
  <2>5. ASSUME NEW k, FinalUpdate(k) PROVE ReceiptsKeep
    <3>1. k \in DOMAIN active /\ active[k].phase # "leaving"
      BY <2>5 DEF FinalUpdate, WorkerAt
    <3>2. active[k].result \in NonTerminal \cup Terminal
      BY <1>1, <3>1, OwnJob, WorkerFields
    <3>3. \/ /\ CanUpdate(Req(k))
             /\ \/ Persists(Req(k), Updated(Req(k), active[k].result))
                \/ PersistFails(Req(k), Updated(Req(k), active[k].result))
          \/ UNCHANGED receiptStore
      BY <2>5 DEF FinalUpdate
    <3> QED  BY <1>1, <2>1, <3>1, <3>2, <3>3, WorkerKeeps
  <2>6. ASSUME NEW k, WorkerStep(k) PROVE ReceiptsKeep
    BY <2>1, <2>3, <2>4, <2>5, <2>6
    DEF WorkerStep, Authorise, StartProbe, ProbeEnds, PreflightFails, PreflightPasses, Launch, AgentEnds,
        Release, Depart
  <2>7. CASE Restart
    BY <1>1, <2>7, RestartKeeps
  <2> QED
    BY <1>1, <2>1, <2>2, <2>6, <2>7
    DEF HandoffNext, Capture, SyncDevice, SubmitRefused, ContextEnds, OrphanEnds, Stop, Close, RuntimeDies,
        Exhausted, handoffVars
<1>2. ASSUME HandoffIInv, [HandoffNext]_handoffVars
      PROVE  [\A r \in DOMAIN receipts : receipts[r].state \in Terminal
                => r \in DOMAIN receipts' /\ receipts'[r] = receipts[r]]_handoffVars
  BY <1>1, <1>2 DEF ReceiptsKeep
<1>3. ASSUME HandoffIInv, [HandoffNext]_handoffVars
      PROVE  [runtime = "up" => \A r \in DOMAIN items' \ DOMAIN items :
                \E t \in tickets \ tickets' : t.request = r /\ t.nr \notin outdated]_handoffVars
  BY <1>1, <1>3 DEF ReceiptsKeep
<1> QED
  BY <1>2, <1>3, HandoffInvariant, PTL DEF HandoffSpec, ReceiptsChange, TerminalIsFinal, AdmittedUnderOneContext

(***************************************************************************)
(* IdentityStore                                                           *)
(***************************************************************************)

Stores == [pc : {"closed", "read", "clearing", "importing", "loaded", "open", "wiping"},
           device : Row, peers : SUBSET Known, config : Config, account : Account,
           accountErr : BOOLEAN]

(* A record that the node can work with. *)
Live(d) ==
  /\ d \in Row /\ d.active /\ d.id # 0 /\ d.revision >= 1
  /\ d.inbound => d.grant

(* The row of the database: none before the import, then one in use or a mark. *)
RowSound ==
  /\ row \in Row /\ version \in {0, 1}
  /\ version = 0 => ~row.active
  /\ version = 1 =>
       \/ Live(row)
       \/ ~row.active /\ row.revision >= 1 /\ row.id = 0 /\ ~row.grant /\ ~row.inbound

FilesSound ==
  /\ legacy \subseteq LegacyFile /\ peers \subseteq Known
  /\ config \in Config \cup {None} /\ account \in Account \cup {None, Unreadable}
  /\ made \in Identity /\ carried \in BOOLEAN /\ numeric \in BOOLEAN

(* What a restart would make of the files. *)
StoredConfig == IF config = None THEN DefaultConfig ELSE config
StoredAccount == IF account = None THEN NoAccount ELSE account

(* Where a Store is tells what it holds: a record in use from the import on; the
   configuration on disk unless it was started over an unfinished reset, which, if
   it was not, has no configuration left; and in the end the account on disk. *)
StoreSound ==
  /\ store \in Stores
  /\ store.pc \in {"importing", "loaded", "open"} => Live(store.device) /\ version = 1
  /\ At("clearing") => version = 1 /\ ~row.active
  /\ ~carried =>
       /\ store.pc \notin {"closed", "wiping"} => store.config = StoredConfig
       /\ At("clearing") \/ (At("read") /\ version = 1 /\ ~row.active) => config = None
  /\ At("open") /\ ~store.accountErr => store.account = StoredAccount

IInv == RowSound /\ FilesSound /\ StoreSound
-----------------------------------------------------------------------------
LEMMA ClosedStore ==
  ASSUME IdentityAssumption
  PROVE  /\ Closed \in Stores /\ Closed.pc = "closed" /\ Closed.config = DefaultConfig
         /\ DefaultConfig \in Config /\ NoAccount \in Account /\ NoRow \in Row
         /\ Closed.peers = {} /\ Closed.account = NoAccount /\ Closed.accountErr = FALSE
<1>1. 0 \in Identity /\ 0 \in 0..MaxRevision /\ Default \in Relay
  BY DEF IdentityAssumption, Identity
<1>2. NoRow \in Row
  BY <1>1 DEF NoRow, Row
<1>3. DefaultConfig \in Config
  BY <1>1 DEF DefaultConfig, Config
<1>4. NoAccount \in Account
  BY <1>1 DEF NoAccount, Account
<1>. QED BY <1>2, <1>3, <1>4 DEF Closed, Stores

LEMMA Initially == ASSUME IdentityAssumption, Init PROVE IInv
<1>1. made \in Identity
  BY DEF Init, IdentityAssumption, Identity
<1>2. RowSound
  BY ClosedStore DEF Init, RowSound, NoRow
<1>3. FilesSound
  BY <1>1 DEF Init, FilesSound
<1>4. StoreSound
  <2>1. store \in Stores /\ store.pc = "closed"
    BY ClosedStore DEF Init
  <2>. QED BY <2>1 DEF StoreSound, At
<1>. QED BY <1>2, <1>3, <1>4 DEF IInv

(* A Store that is given up. *)
LEMMA StoreCloses == ASSUME IdentityAssumption, store' = Closed PROVE StoreSound'
<1>1. store' \in Stores /\ store'.pc = "closed"
  BY ClosedStore
<1>. QED BY <1>1 DEF StoreSound, At

(* A Store that goes on with what it holds. *)
LEMMA StoreGoes ==
  ASSUME IdentityAssumption, store \in Stores, NEW p, store' = [store EXCEPT !.pc = p],
         p \in {"closed", "read", "clearing", "importing", "loaded", "open", "wiping"}
  PROVE  /\ store' \in Stores /\ store'.pc = p /\ store'.device = store.device
         /\ store'.config = store.config /\ store'.account = store.account
         /\ store'.accountErr = store.accountErr
  BY DEF Stores

(* What a transaction that writes a record in use can end in. *)
LEMMA CommitStep ==
  ASSUME IdentityAssumption, IInv, NEW r, Live(r), NEW p, p \in {"importing", "loaded"},
         store.pc \in {"read", "clearing"}, Commits(r, p),
         UNCHANGED <<legacy, peers, config, account, carried, numeric>>, made' \in Identity
  PROVE  IInv'
<1>1. FilesSound'
  BY DEF IInv, FilesSound
<1>2. CASE version' = 1 /\ row' = r /\ store' = [store EXCEPT !.pc = p, !.device = r]
  <2>1. /\ store' \in Stores /\ store'.pc = p /\ store'.device = r
        /\ store'.config = store.config
    BY <1>2 DEF IInv, StoreSound, Stores, Live
  <2>2. RowSound'
    BY <1>2 DEF RowSound, Live
  <2>3. StoreSound'
    BY <1>2, <2>1 DEF IInv, StoreSound, At, StoredConfig
  <2>. QED BY <1>1, <2>2, <2>3 DEF IInv
<1>3. CASE store' = Closed /\ ((version' = 1 /\ row' = r) \/ UNCHANGED <<version, row>>)
  <2>1. RowSound'
    BY <1>3 DEF IInv, RowSound, Live
  <2>. QED BY <1>1, <1>3, <2>1, StoreCloses DEF IInv
<1>. QED BY <1>2, <1>3 DEF Commits, Fails

(* What is imported from the files of the earlier version. *)
LEMMA ImportedIsLive ==
  ASSUME IdentityAssumption, NEW n \in Identity \ {0}, NEW g \in BOOLEAN, NEW i \in BOOLEAN, i => g
  PROVE  LET r == [NoRow EXCEPT !.id = n, !.grant = g, !.active = TRUE, !.inbound = i,
                                !.cleanup = TRUE, !.revision = 1]
         IN  Live(r) /\ r.id = n
<1>. DEFINE r == [NoRow EXCEPT !.id = n, !.grant = g, !.active = TRUE, !.inbound = i,
                               !.cleanup = TRUE, !.revision = 1]
<1>1. n \in Identity /\ n # 0 /\ 1 \in 0..MaxRevision
  BY DEF IdentityAssumption, Identity
<1>2. /\ r \in Row /\ r.active = TRUE /\ r.id = n /\ r.revision = 1
      /\ r.inbound = i /\ r.grant = g
  BY <1>1 DEF NoRow, Row
<1>. QED BY <1>2 DEF Live

LEMMA ImportCommits ==
  ASSUME IdentityAssumption, NEW n \in Identity \ {0}, Imported(n)
  PROVE  \E r : Live(r) /\ r.id = n /\ Commits(r, "importing")
<1>1. PICK inbound \in BOOLEAN :
        Commits([NoRow EXCEPT !.id = n, !.grant = "grant" \in legacy, !.active = TRUE,
                              !.inbound = inbound /\ "grant" \in legacy,
                              !.cleanup = TRUE, !.revision = 1], "importing")
  BY DEF Imported
<1>2. PICK g \in BOOLEAN : g = ("grant" \in legacy)
  <2>1. ("grant" \in legacy) \in BOOLEAN
    OBVIOUS
  <2>. QED BY <2>1, Zenon
<1>3. PICK i \in BOOLEAN : i = (inbound /\ "grant" \in legacy)
  <2>1. (inbound /\ "grant" \in legacy) \in BOOLEAN
    OBVIOUS
  <2>. QED BY <2>1, Zenon
<1>4. i => g
  BY <1>2, <1>3
<1>5. Commits([NoRow EXCEPT !.id = n, !.grant = g, !.active = TRUE, !.inbound = i,
                            !.cleanup = TRUE, !.revision = 1], "importing")
  BY <1>1, <1>2, <1>3, Zenon
<1>. DEFINE r == [NoRow EXCEPT !.id = n, !.grant = g, !.active = TRUE, !.inbound = i,
                               !.cleanup = TRUE, !.revision = 1]
<1>6. Live(r) /\ r.id = n
  BY <1>4, ImportedIsLive
<1>7. Commits(r, "importing")
  BY <1>5
<1>. HIDE DEF r
<1>. QED BY <1>6, <1>7

(* The identity an import writes: that of the file if it is numeric, or a new one. *)
LEMMA ImportStep ==
  ASSUME IdentityAssumption, made \in Identity, Import
  PROVE  \E r : /\ Live(r) /\ Commits(r, "importing") /\ made' \in Identity
                /\ r.id = (IF numeric THEN 1 ELSE made + 1) /\ made' \in {made, made + 1}
<1>1. CASE numeric
  <2>1. 1 \in Identity \ {0} /\ Imported(1) /\ made' = made
    BY <1>1 DEF Import, IdentityAssumption, Identity
  <2>. QED BY <1>1, <2>1, ImportCommits
<1>2. CASE ~numeric
  <2>1. made + 1 \in Identity \ {0} /\ Imported(made + 1) /\ made' = made + 1
    BY <1>2 DEF Import, IdentityAssumption, Identity
  <2>. QED BY <1>2, <2>1, ImportCommits
<1>. QED BY <1>1, <1>2

LEMMA FreshIsLive ==
  ASSUME IdentityAssumption, made \in Identity, made < MaxIdentity,
         NEW n \in 1..MaxRevision
  PROVE  Live(Fresh(n)) /\ Fresh(n).id = made + 1 /\ made + 1 \in Identity
<1>1. made + 1 \in Identity /\ made + 1 # 0 /\ n \in 0..MaxRevision /\ n >= 1
  BY DEF IdentityAssumption, Identity
<1>2. /\ Fresh(n) \in Row /\ Fresh(n).active = TRUE /\ Fresh(n).id = made + 1
      /\ Fresh(n).revision = n /\ Fresh(n).inbound = FALSE
  BY <1>1 DEF Fresh, NoRow, Row
<1>. QED BY <1>1, <1>2 DEF Live
-----------------------------------------------------------------------------
LEMMA LoadStep == ASSUME IdentityAssumption, IInv, Loads PROVE IInv'
<1>. USE DEF IInv
<1>1. ASSUME ReadFiles PROVE IInv'
  <2>1. RowSound' /\ FilesSound'
    BY <1>1 DEF ReadFiles, disk, RowSound, FilesSound
  <2>2. /\ store' \in Stores /\ store'.pc = "read" /\ store'.config = StoredConfig
    BY <1>1, ClosedStore DEF ReadFiles, Stores, StoredConfig, FilesSound
  <2>3. StoreSound'
    BY <1>1, <2>2 DEF ReadFiles, disk, StoreSound, At, StoredConfig
  <2>. QED BY <2>1, <2>3
<1>2. ASSUME Import PROVE IInv'
  <2>1. PICK r : Live(r) /\ Commits(r, "importing") /\ made' \in Identity
    BY <1>2, ImportStep DEF FilesSound
  <2>2. store.pc = "read" /\ UNCHANGED <<legacy, peers, config, account, carried, numeric>>
    BY <1>2 DEF Import, At
  <2>. QED BY <2>1, <2>2, CommitStep
<1>3. ASSUME RefuseImport PROVE IInv'
  BY <1>3, StoreCloses DEF RefuseImport, Fails, disk, RowSound, FilesSound
<1>4. ASSUME Create PROVE IInv'
  <2>1. 1 \in 1..MaxRevision /\ made \in Identity /\ made < MaxIdentity
    BY <1>4 DEF IdentityAssumption, Create, FilesSound
  <2>2. Live(Fresh(1)) /\ made + 1 \in Identity
    BY <2>1, FreshIsLive
  <2>. QED BY <1>4, <2>2, CommitStep DEF Create, At
<1>5. ASSUME LoadRow PROVE IInv'
  <2>1. RowSound' /\ FilesSound'
    BY <1>5 DEF LoadRow, disk, RowSound, FilesSound
  <2>2. CASE row.active
    <3>. DEFINE d == [row EXCEPT !.cleanup = FALSE]
                p == IF row.cleanup THEN "importing" ELSE "loaded"
    <3>1. Live(row)
      BY <1>5, <2>2 DEF LoadRow, RowSound
    <3>2. /\ d \in Row /\ d.active = row.active /\ d.id = row.id
          /\ d.revision = row.revision /\ d.inbound = row.inbound /\ d.grant = row.grant
      BY <3>1 DEF Live, Row
    <3>3. Live(d)
      BY <3>1, <3>2 DEF Live
    <3>4. store' = [store EXCEPT !.device = d, !.pc = p] /\ p \in {"importing", "loaded"}
      BY <1>5, <2>2 DEF LoadRow
    <3>5. /\ store' \in Stores /\ store'.pc \in {"importing", "loaded"} /\ store'.device = d
          /\ store'.config = store.config
      BY <3>2, <3>4 DEF StoreSound, Stores
    <3>6. StoreSound'
      BY <1>5, <3>3, <3>5 DEF LoadRow, disk, StoreSound, At, StoredConfig
    <3>. QED BY <2>1, <3>6
  <2>3. CASE ~row.active
    <3>1. /\ store' \in Stores /\ store'.pc = "clearing" /\ store'.config = store.config
      BY <1>5, <2>3, StoreGoes DEF LoadRow, Goes, StoreSound
    <3>2. StoreSound'
      BY <1>5, <2>3, <3>1 DEF LoadRow, disk, StoreSound, At, StoredConfig
    <3>. QED BY <2>1, <3>2
  <2>. QED BY <2>2, <2>3
<1>6. ASSUME RemoveLegacy PROVE IInv'
  <2>1. FilesSound'
    BY <1>6 DEF RemoveLegacy, FilesSound
  <2>2. store.pc = "importing" /\ Live(store.device) /\ version = 1 /\ UNCHANGED <<version, config, carried>>
    BY <1>6 DEF RemoveLegacy, At, StoreSound
  <2>3. CASE UNCHANGED <<row, store>>
    BY <2>1, <2>2, <2>3 DEF RowSound, StoreSound, At, StoredConfig
  <2>4. CASE row' = [row EXCEPT !.cleanup = FALSE] /\ store' = [store EXCEPT !.pc = "loaded", !.device.cleanup = FALSE]
    <3>1. /\ row' \in Row /\ row'.active = row.active /\ row'.id = row.id
          /\ row'.revision = row.revision /\ row'.inbound = row.inbound /\ row'.grant = row.grant
      BY <2>4 DEF RowSound, Row
    <3>2. RowSound'
      BY <2>2, <3>1 DEF RowSound, Live
    <3>. DEFINE d == [store.device EXCEPT !.cleanup = FALSE]
    <3>3. /\ d \in Row /\ d.active = store.device.active /\ d.id = store.device.id
          /\ d.revision = store.device.revision /\ d.inbound = store.device.inbound
          /\ d.grant = store.device.grant
      BY <2>2 DEF Live, Row
    <3>4. Live(d)
      BY <2>2, <3>3 DEF Live
    <3>5. /\ store' \in Stores /\ store'.pc = "loaded" /\ store'.device = d
          /\ store'.config = store.config
      BY <2>4, <3>3 DEF StoreSound, Stores
    <3>6. StoreSound'
      BY <2>2, <3>4, <3>5 DEF StoreSound, At, StoredConfig
    <3>. QED BY <2>1, <3>2, <3>6
  <2>5. CASE store' = Closed /\ UNCHANGED row
    BY <2>1, <2>2, <2>5, StoreCloses DEF RowSound
  <2>. QED BY <1>6, <2>3, <2>4, <2>5 DEF RemoveLegacy, Fails
<1>7. ASSUME ClearProfile PROVE IInv'
  <2>1. /\ FilesSound' /\ RowSound' /\ config' \in {config, None}
        /\ UNCHANGED <<version, row, carried>> /\ store.pc = "clearing"
    BY <1>7 DEF ClearProfile, RemoveProfileFile, RowSound, FilesSound, At
  <2>2. CASE UNCHANGED store
    BY <2>1, <2>2 DEF StoreSound, At, StoredConfig
  <2>3. CASE store' = Closed
    BY <2>1, <2>3, StoreCloses
  <2>. QED BY <1>7, <2>2, <2>3 DEF ClearProfile, Fails, IInv, FilesSound, RowSound
<1>8. ASSUME Renew PROVE IInv'
  <2>1. /\ row.revision + 1 \in 1..MaxRevision /\ made \in Identity /\ made < MaxIdentity
    <3>1. row.revision \in 0..MaxRevision
      BY DEF RowSound, Row
    <3>. QED BY <1>8, <3>1 DEF IdentityAssumption, Renew, FilesSound
  <2>2. Live(Fresh(row.revision + 1)) /\ made + 1 \in Identity
    BY <2>1, FreshIsLive
  <2>. QED BY <1>8, <2>2, CommitStep DEF Renew, At
<1>9. ASSUME LoadAccount PROVE IInv'
  <2>1. RowSound' /\ FilesSound'
    BY <1>9 DEF LoadAccount, disk, RowSound, FilesSound
  <2>. DEFINE a == IF account \in {None, Unreadable} THEN NoAccount ELSE account
  <2>2. a \in Account /\ (account # Unreadable => a = StoredAccount)
    BY ClosedStore DEF FilesSound, StoredAccount
  <2>3. store' = [store EXCEPT !.pc = "open", !.accountErr = (account = Unreadable), !.account = a]
    BY <1>9 DEF LoadAccount
  <2>4. /\ store' \in Stores /\ store'.pc = "open" /\ store'.device = store.device
        /\ store'.config = store.config /\ store'.account = a
        /\ store'.accountErr = (account = Unreadable)
    BY <2>2, <2>3 DEF StoreSound, Stores
  <2>5. StoreSound'
    BY <1>9, <2>2, <2>4 DEF LoadAccount, disk, StoreSound, At, StoredConfig, StoredAccount
  <2>. QED BY <2>1, <2>5
<1>. QED BY <1>1, <1>2, <1>3, <1>4, <1>5, <1>6, <1>7, <1>8, <1>9 DEF Loads
-----------------------------------------------------------------------------
(* A guarded statement on the record this Store knows. *)
LEMMA PublishStep ==
  ASSUME IdentityAssumption, IInv, NEW next, Live(next), next.revision = store.device.revision,
         Publish(next)
  PROVE  IInv'
<1>. USE DEF IInv
<1>. DEFINE r == [next EXCEPT !.revision = @ + 1]
<1>1. store.pc = "open" /\ store \in Stores /\ store.device.revision < MaxRevision
  BY DEF Publish, At, StoreSound
<1>2. store.device.revision \in 0..MaxRevision /\ next \in Row
  BY <1>1 DEF Stores, Row, Live
<1>3. /\ r \in Row /\ r.active = next.active /\ r.id = next.id /\ r.inbound = next.inbound
      /\ r.grant = next.grant /\ r.revision = store.device.revision + 1
  BY <1>1, <1>2 DEF Row, IdentityAssumption
<1>4. Live(r)
  BY <1>2, <1>3 DEF Live
<1>5. row' \in {row, r} /\ store' \in {store, [store EXCEPT !.device = r]}
      /\ UNCHANGED <<version, legacy, peers, config, account, made, carried, numeric>>
  BY DEF Publish
<1>. HIDE DEF r
<1>6. RowSound' /\ FilesSound'
  BY <1>1, <1>4, <1>5 DEF RowSound, FilesSound, StoreSound, Live
<1>7. /\ store' \in Stores /\ store'.pc = "open" /\ Live(store'.device)
      /\ store'.config = store.config /\ store'.account = store.account
      /\ store'.accountErr = store.accountErr
  <2>1. CASE store' = store
    BY <1>1, <2>1 DEF StoreSound
  <2>2. CASE store' = [store EXCEPT !.device = r]
    BY <1>1, <1>3, <1>4, <2>2 DEF Stores
  <2>. QED BY <1>5, <2>1, <2>2
<1>8. StoreSound'
  BY <1>1, <1>5, <1>7 DEF StoreSound, At, StoredConfig, StoredAccount
<1>. QED BY <1>6, <1>8

LEMMA SettingsStep ==
  ASSUME IdentityAssumption, IInv,
         IssueGrant \/ ClearGrant \/ RefreshDevice \/ \E on \in BOOLEAN : SetInbound(on)
  PROVE  IInv'
<1>. DEFINE Settings(g, i) == [store.device EXCEPT !.grant = g, !.inbound = i]
<1>0. ASSUME store.pc = "open", NEW g \in BOOLEAN, NEW i \in BOOLEAN, i => g, Publish(Settings(g, i))
      PROVE  IInv'
  <2>1. Live(store.device)
    BY <1>0 DEF IInv, StoreSound
  <2>2. /\ Settings(g, i) \in Row /\ Settings(g, i).active = store.device.active
        /\ Settings(g, i).id = store.device.id /\ Settings(g, i).inbound = i
        /\ Settings(g, i).grant = g /\ Settings(g, i).revision = store.device.revision
    BY <2>1 DEF Live, Row
  <2>3. Live(Settings(g, i))
    BY <1>0, <2>1, <2>2 DEF Live
  <2>. QED BY <1>0, <2>2, <2>3, PublishStep
<1>1. ASSUME IssueGrant PROVE IInv'
  <2>1. store.pc = "open"
    BY <1>1 DEF IssueGrant, Publish, At
  <2>. QED BY <1>0, <1>1, <2>1 DEF IssueGrant
<1>2. ASSUME ClearGrant PROVE IInv'
  <2>1. store.pc = "open"
    BY <1>2 DEF ClearGrant, Publish, At
  <2>. QED BY <1>0, <1>2, <2>1 DEF ClearGrant
<1>3. ASSUME NEW on \in BOOLEAN, SetInbound(on) PROVE IInv'
  <2>1. store.pc = "open"
    BY <1>3 DEF SetInbound, Publish, At
  <2>2. (store.device.grant \/ on) \in BOOLEAN /\ (on => store.device.grant \/ on)
    OBVIOUS
  <2>3. Publish(Settings(store.device.grant \/ on, on))
    BY <1>3 DEF SetInbound
  <2>. QED BY <1>0, <2>1, <2>2, <2>3
<1>4. ASSUME RefreshDevice PROVE IInv'
  <2>1. /\ store.pc = "open" /\ Live(row) /\ store' = [store EXCEPT !.device = row]
        /\ UNCHANGED <<disk, made, carried, numeric>> /\ version = 1
    BY <1>4 DEF RefreshDevice, At, IInv, RowSound, StoreSound
  <2>2. /\ store' \in Stores /\ store'.pc = "open" /\ store'.device = row
        /\ store'.config = store.config /\ store'.account = store.account
        /\ store'.accountErr = store.accountErr
    BY <2>1 DEF IInv, StoreSound, Stores, Live
  <2>3. StoreSound'
    BY <2>1, <2>2 DEF IInv, StoreSound, At, StoredConfig, StoredAccount, disk
  <2>. QED BY <2>1, <2>3 DEF IInv, RowSound, FilesSound, disk
<1>. QED BY <1>1, <1>2, <1>3, <1>4

(* The files a Store writes beside the row. *)
LEMMA FilesStep ==
  ASSUME IdentityAssumption, IInv,
         \/ \E p \in Peer : AddPeer(p) \/ RemovePeer(p)
         \/ \E r \in Relay : SetConfig(r)
         \/ \E on \in BOOLEAN : SetAccount(on)
  PROVE  IInv'
<1>. USE DEF IInv
<1>0. store.pc = "open" /\ store \in Stores /\ Me \in Identity /\ store.config.relay \in Relay
      /\ store.peers \subseteq Known /\ Live(store.device) /\ version = 1
  <2>1. store.pc = "open" /\ store \in Stores
    BY DEF AddPeer, RemovePeer, SetPeers, SetConfig, SetAccount, At, StoreSound
  <2>2. store.device \in Row /\ store.config \in Config /\ store.peers \subseteq Known
    BY <2>1 DEF Stores
  <2>. QED BY <2>1, <2>2 DEF StoreSound, Me, Row, Config
<1>1. ASSUME NEW known \in SUBSET Known, SetPeers(known) PROVE IInv'
  <2>1. /\ store' \in Stores /\ store'.pc = "open" /\ store'.device = store.device
        /\ store'.config = store.config /\ store'.account = store.account
        /\ store'.accountErr = store.accountErr
    BY <1>0, <1>1 DEF SetPeers, Stores
  <2>2. RowSound' /\ FilesSound'
    BY <1>1 DEF SetPeers, RowSound, FilesSound
  <2>3. StoreSound'
    BY <1>0, <1>1, <2>1 DEF SetPeers, StoreSound, At, StoredConfig, StoredAccount
  <2>. QED BY <2>2, <2>3
<1>2. ASSUME NEW p \in Peer, AddPeer(p) \/ RemovePeer(p) PROVE IInv'
  <2>1. [peer |-> p, born |-> Me] \in Known
    BY <1>0 DEF Known
  <2>. QED BY <1>0, <1>1, <1>2, <2>1 DEF AddPeer, RemovePeer
<1>3. ASSUME NEW r \in Relay, SetConfig(r) PROVE IInv'
  <2>. DEFINE next == [relay |-> r, born |-> Me]
  <2>1. next \in Config /\ next # None
    BY <1>0 DEF Config, IdentityAssumption
  <2>2. /\ store' \in Stores /\ store'.pc = "open" /\ store'.device = store.device
        /\ store'.config = next /\ store'.account = store.account
        /\ store'.accountErr = store.accountErr
    BY <1>0, <1>3, <2>1 DEF SetConfig, Stores
  <2>3. RowSound' /\ FilesSound'
    BY <1>3, <2>1 DEF SetConfig, RowSound, FilesSound
  <2>4. StoreSound'
    BY <1>0, <1>3, <2>1, <2>2 DEF SetConfig, StoreSound, At, StoredConfig, StoredAccount
  <2>. QED BY <2>3, <2>4
<1>4. ASSUME NEW on \in BOOLEAN, SetAccount(on) PROVE IInv'
  <2>1. PICK next \in Account :
          account' = next /\ store' = [store EXCEPT !.account = next, !.accountErr = FALSE]
    <3>1. [relay |-> store.config.relay, token |-> TRUE, born |-> Me] \in Account
      BY <1>0 DEF Account
    <3>2. [NoAccount EXCEPT !.born = Me] \in Account
      BY <1>0, ClosedStore DEF Account
    <3>. QED BY <1>4, <3>1, <3>2 DEF SetAccount
  <2>2. next # None
    BY <2>1 DEF IdentityAssumption
  <2>3. /\ store' \in Stores /\ store'.pc = "open" /\ store'.device = store.device
        /\ store'.config = store.config /\ store'.account = next
    BY <1>0, <2>1 DEF Stores
  <2>4. RowSound' /\ FilesSound'
    BY <1>4, <2>1 DEF SetAccount, RowSound, FilesSound
  <2>5. StoreSound'
    BY <1>0, <1>4, <2>1, <2>2, <2>3 DEF SetAccount, StoreSound, At, StoredConfig, StoredAccount
  <2>. QED BY <2>4, <2>5
<1>. QED BY <1>2, <1>3, <1>4

(* A reset, and the end of the Runtime. *)
LEMMA ResetStep ==
  ASSUME IdentityAssumption, IInv, Wipe \/ WipeFiles \/ Crash PROVE IInv'
<1>. USE DEF IInv
<1>1. ASSUME Wipe PROVE IInv'
  <2>. DEFINE gone == [NoRow EXCEPT !.revision = row.revision + 1]
  <2>1. row.revision \in 0..MaxRevision /\ row.revision < MaxRevision
    BY <1>1 DEF Wipe, RowSound, Row
  <2>2. /\ gone \in Row /\ gone.active = FALSE /\ gone.revision = row.revision + 1
        /\ gone.id = 0 /\ gone.grant = FALSE /\ gone.inbound = FALSE
    <3>1. 0 \in Identity /\ row.revision + 1 \in 0..MaxRevision
      BY <2>1 DEF Identity, IdentityAssumption
    <3>. QED BY <3>1 DEF NoRow, Row
  <2>3. row' \in {row, gone} /\ UNCHANGED <<version, legacy, peers, config, account, made, carried, numeric>>
    BY <1>1 DEF Wipe
  <2>. HIDE DEF gone
  <2>4. RowSound' /\ FilesSound'
    BY <2>1, <2>2, <2>3 DEF RowSound, FilesSound, Live
  <2>5. CASE store' = [store EXCEPT !.pc = "wiping"]
    <3>1. store' \in Stores /\ store'.pc = "wiping"
      BY <2>5, StoreGoes DEF StoreSound
    <3>. QED BY <2>4, <3>1 DEF StoreSound, At
  <2>6. CASE store' = Closed
    BY <2>4, <2>6, StoreCloses
  <2>. QED BY <1>1, <2>5, <2>6 DEF Wipe, Goes, Fails
<1>2. ASSUME WipeFiles PROVE IInv'
  <2>1. RowSound' /\ FilesSound' /\ store.pc = "wiping"
    BY <1>2 DEF WipeFiles, RemoveProfileFile, RowSound, FilesSound, At
  <2>2. CASE UNCHANGED store
    BY <2>1, <2>2 DEF StoreSound, At
  <2>3. CASE store' = Closed
    BY <2>1, <2>3, StoreCloses
  <2>. QED BY <1>2, <2>2, <2>3 DEF WipeFiles, Fails, IInv, RowSound, FilesSound
<1>3. ASSUME Crash PROVE IInv'
  BY <1>3, StoreCloses DEF Crash, disk, RowSound, FilesSound
<1>. QED BY <1>1, <1>2, <1>3

LEMMA Inductive == ASSUME IdentityAssumption, IInv, [Next]_vars PROVE IInv'
<1>1. CASE UNCHANGED vars
  BY <1>1 DEF vars, disk, IInv, RowSound, FilesSound, StoreSound, At, StoredConfig, StoredAccount
<1>. QED BY <1>1, LoadStep, SettingsStep, FilesStep, ResetStep DEF Next

(* An id that is not numeric is not imported, and no other gets its number. *)
NumericSound == ~numeric => made >= 1 /\ row.id # 1 /\ store.device.id # 1

(* Every id a row or a Store gets is one of theirs, none, or drawn; and 1 only from a
   file whose id is numeric. *)
LEMMA IdStep ==
  ASSUME IdentityAssumption, IInv, Next
  PROVE  /\ numeric' = numeric /\ made' \in {made, made + 1}
         /\ row'.id \in {row.id, store.device.id, 0, IF numeric THEN 1 ELSE made + 1, made + 1}
         /\ store'.device.id \in {row.id, store.device.id, 0, IF numeric THEN 1 ELSE made + 1, made + 1}
<1>. DEFINE ids == {row.id, store.device.id, 0, IF numeric THEN 1 ELSE made + 1, made + 1}
            Goal == /\ numeric' = numeric /\ made' \in {made, made + 1}
                    /\ row'.id \in ids /\ store'.device.id \in ids
<1>1. /\ row \in Row /\ store \in Stores /\ store.device \in Row /\ made \in Identity
      /\ Closed.device.id = 0
  BY DEF IInv, RowSound, StoreSound, FilesSound, Stores, Closed, NoRow
<1>2. ASSUME NEW r, NEW p, Commits(r, p), r.id \in ids
      PROVE  row'.id \in ids /\ store'.device.id \in ids
  BY <1>1, <1>2 DEF Commits, Fails, Stores
<1>3. ASSUME NEW r \in Row, r.id = store.device.id, Publish(r) PROVE Goal
  <2>1. [r EXCEPT !.revision = @ + 1].id = store.device.id
    BY <1>3 DEF Row
  <2>. QED BY <1>1, <1>3, <2>1 DEF Publish, Stores
<1>4. ASSUME Import PROVE Goal
  <2>1. PICK r : /\ Commits(r, "importing") /\ made' \in {made, made + 1}
                 /\ r.id = (IF numeric THEN 1 ELSE made + 1)
    BY <1>1, <1>4, ImportStep
  <2>. QED BY <1>2, <1>4, <2>1 DEF Import
<1>5. ASSUME Create \/ Renew PROVE Goal
  <2>1. PICK n : Commits(Fresh(n), "loaded") /\ made' = made + 1 /\ numeric' = numeric
    BY <1>5 DEF Create, Renew
  <2>2. Fresh(n).id = made + 1
    BY DEF Fresh, NoRow
  <2>. QED BY <1>2, <2>1, <2>2
<1>6. ASSUME RemoveLegacy PROVE Goal
  <2>1. /\ [row EXCEPT !.cleanup = FALSE].id = row.id
        /\ [store EXCEPT !.pc = "loaded", !.device.cleanup = FALSE].device.id = store.device.id
    BY <1>1 DEF Row, Stores
  <2>. QED BY <1>1, <1>6, <2>1 DEF RemoveLegacy, Fails
<1>7. ASSUME LoadRow PROVE Goal
  <2>1. [row EXCEPT !.cleanup = FALSE].id = row.id
    BY <1>1 DEF Row
  <2>. QED BY <1>1, <1>7, <2>1 DEF LoadRow, Goes, Stores, disk
<1>8. ASSUME IssueGrant \/ ClearGrant \/ \E on \in BOOLEAN : SetInbound(on) PROVE Goal
  <2>. DEFINE Settings(g, i) == [store.device EXCEPT !.grant = g, !.inbound = i]
  <2>1. PICK g \in BOOLEAN, i \in BOOLEAN : Publish(Settings(g, i))
    BY <1>8, Zenon DEF IssueGrant, ClearGrant, SetInbound
  <2>2. Settings(g, i) \in Row /\ Settings(g, i).id = store.device.id
    BY <1>1 DEF Row
  <2>. QED BY <1>3, <2>1, <2>2
<1>9. ASSUME Wipe PROVE Goal
  <2>. DEFINE gone == [NoRow EXCEPT !.revision = row.revision + 1]
  <2>1. gone.id = 0 /\ row' \in {row, gone} /\ store'.device.id \in ids
    BY <1>1, <1>9 DEF Wipe, NoRow, Goes, Fails, Stores
  <2>. QED BY <1>9, <2>1 DEF Wipe
<1>10. ASSUME RefreshDevice PROVE Goal
  BY <1>1, <1>10 DEF RefreshDevice, Stores, disk
<1>11. ASSUME \/ ReadFiles \/ RefuseImport \/ ClearProfile \/ LoadAccount \/ WipeFiles \/ Crash
              \/ \E p \in Peer : AddPeer(p) \/ RemovePeer(p)
              \/ \E r \in Relay : SetConfig(r)
              \/ \E on \in BOOLEAN : SetAccount(on)
       PROVE  Goal
  <2>1. row' = row /\ made' = made /\ numeric' = numeric
    BY <1>11 DEF ReadFiles, RefuseImport, ClearProfile, LoadAccount, WipeFiles, Crash,
                 AddPeer, RemovePeer, SetPeers, SetConfig, SetAccount, disk
  <2>2. store'.device.id \in ids
    BY <1>1, <1>11 DEF ReadFiles, RefuseImport, ClearProfile, LoadAccount, WipeFiles, Crash,
                 AddPeer, RemovePeer, SetPeers, SetConfig, SetAccount, Fails, Stores, Closed, NoRow
  <2>. QED BY <2>1, <2>2
<1>. QED
  BY <1>4, <1>5, <1>6, <1>7, <1>8, <1>9, <1>10, <1>11, Zenon DEF Next, Loads

LEMMA NumericInductive ==
  ASSUME IdentityAssumption, IInv, NumericSound, [Next]_vars PROVE NumericSound'
<1>1. CASE UNCHANGED vars
  BY <1>1 DEF vars, disk, NumericSound
<1>2. CASE Next
  <2>1. made \in Nat
    BY DEF IInv, FilesSound, Identity
  <2>. QED BY <1>2, <2>1, IdStep DEF NumericSound
<1>. QED BY <1>1, <1>2

(* No sequence of imports, resets, failed writes and crashes leaves a row that the
   next start refuses, or a Runtime that works with another configuration or account
   than a restart would find, unless it was started over an unfinished reset. *)
THEOREM ProfileSound == ASSUME IdentityAssumption PROVE Spec => []IdentityInv
<1>1. Init => IInv /\ NumericSound
  <2>1. Closed.device.id = 0 /\ NoRow.id = 0
    BY DEF Closed, NoRow
  <2>2. Init /\ ~numeric => legacy # {}
    BY Zenon DEF Init
  <2>3. Init /\ legacy # {} => made = 1 /\ row = NoRow /\ store = Closed
    BY DEF Init
  <2>4. Init => NumericSound
    BY <2>1, <2>2, <2>3 DEF NumericSound
  <2>. QED BY <2>4, Initially
<1>2. IInv /\ NumericSound /\ [Next]_vars => IInv' /\ NumericSound'
  BY Inductive, NumericInductive
<1>3. IInv /\ NumericSound => IdentityInv
  <2> SUFFICES ASSUME IInv, NumericSound PROVE IdentityInv
    OBVIOUS
  <2>1. TypeOK
    BY DEF IInv, RowSound, FilesSound, StoreSound, Stores, TypeOK
  <2>2. RowReadable
    BY DEF IInv, RowSound, Live, RowReadable, NumericSound
  <2>3. MemoryIsDurable
    BY DEF IInv, StoreSound, At, MemoryIsDurable, StoredConfig, StoredAccount
  <2>. QED BY <2>1, <2>2, <2>3 DEF IdentityInv
<1>. QED BY <1>1, <1>2, <1>3, PTL DEF Spec
-----------------------------------------------------------------------------
(* How the row changes in one step. *)
LEMMA KeptStep ==
  ASSUME IdentityAssumption, IInv, Next
  PROVE  /\ version = 1 => version' = 1
         /\ version = 0 /\ version' = 1 =>
              IF legacy # {} /\ numeric THEN row'.id = 1 ELSE row'.id > made
         /\ version = 0 /\ version' = 0 => legacy' = legacy
         /\ row.active /\ row'.active => row'.id = row.id
         /\ ~row.active /\ row'.active /\ version = 1 => Cleared /\ row'.id > made
<1>. DEFINE Kept ==
         /\ version = 1 => version' = 1
         /\ version = 0 /\ version' = 1 =>
              IF legacy # {} /\ numeric THEN row'.id = 1 ELSE row'.id > made
         /\ version = 0 /\ version' = 0 => legacy' = legacy
         /\ row.active /\ row'.active => row'.id = row.id
         /\ ~row.active /\ row'.active /\ version = 1 => Cleared /\ row'.id > made
<1>1. UNCHANGED <<version, row, legacy>> => Kept
  BY DEF IInv, RowSound
<1>2. Import => Kept
  <2> SUFFICES ASSUME Import PROVE Kept
    OBVIOUS
  <2>1. version = 0 /\ ~row.active /\ UNCHANGED legacy /\ legacy # {} /\ made \in Identity
    BY DEF Import, IInv, RowSound, FilesSound
  <2>2. PICK r : r.id = (IF numeric THEN 1 ELSE made + 1) /\ Commits(r, "importing")
    BY <2>1, ImportStep
  <2>3. (row' = row /\ version' = version) \/ row'.id = (IF numeric THEN 1 ELSE made + 1)
    BY <2>2 DEF Commits
  <2>4. made + 1 > made
    BY <2>1 DEF Identity
  <2>. QED BY <2>1, <2>2, <2>3, <2>4
<1>3. Create => Kept
  <2> SUFFICES ASSUME Create PROVE Kept
    OBVIOUS
  <2>1. version = 0 /\ legacy = {} /\ ~row.active /\ UNCHANGED legacy /\ made \in Nat
    BY DEF Create, IInv, RowSound, FilesSound, Identity
  <2>2. (row' = row /\ version' = version) \/ row' = Fresh(1)
    BY DEF Create, Commits
  <2>3. Fresh(1).id = made + 1
    BY DEF Fresh, NoRow
  <2>. QED BY <2>1, <2>2, <2>3
<1>4. Renew => Kept
  <2> SUFFICES ASSUME Renew PROVE Kept
    OBVIOUS
  <2>1. version = 1 /\ version' = 1 /\ ~row.active /\ Cleared
    BY DEF Renew, Commits, IInv, StoreSound, At
  <2>2. row' = row \/ row' = Fresh(row.revision + 1)
    BY DEF Renew, Commits
  <2>3. Fresh(row.revision + 1).id = made + 1 /\ made \in Nat
    BY DEF Fresh, NoRow, IInv, FilesSound, Identity
  <2>. QED BY <2>1, <2>2, <2>3
<1>5. RemoveLegacy => Kept
  <2> SUFFICES ASSUME RemoveLegacy PROVE Kept
    OBVIOUS
  <2>1. version = 1 /\ version' = 1
    BY DEF RemoveLegacy, IInv, StoreSound, At
  <2>2. row' = row \/ row' = [row EXCEPT !.cleanup = FALSE]
    BY DEF RemoveLegacy
  <2>3. row'.active = row.active /\ row'.id = row.id
    BY <2>2 DEF IInv, RowSound, Row
  <2>. QED BY <2>1, <2>3
<1>6. ASSUME NEW next, next.id = store.device.id, next \in Row, Publish(next) PROVE Kept
  <2>1. version = 1 /\ version' = 1 /\ (row' = row \/ (row' = [next EXCEPT !.revision = @ + 1] /\ row.active /\ row.id = Me))
    BY <1>6 DEF Publish, IInv, StoreSound, At
  <2>2. [next EXCEPT !.revision = @ + 1].id = store.device.id
    BY <1>6 DEF Row
  <2>3. row' = row \/ (row.active /\ row.id = Me /\ row'.id = Me)
    BY <2>1, <2>2 DEF Me
  <2>. QED BY <2>1, <2>3
<1>7. ASSUME IssueGrant \/ ClearGrant \/ \E on \in BOOLEAN : SetInbound(on) PROVE Kept
  <2>. DEFINE Settings(g, i) == [store.device EXCEPT !.grant = g, !.inbound = i]
  <2>1. PICK g \in BOOLEAN, i \in BOOLEAN : Publish(Settings(g, i))
    BY <1>7, Zenon DEF IssueGrant, ClearGrant, SetInbound
  <2>2. store.device \in Row
    BY <2>1 DEF IInv, StoreSound, Stores
  <2>3. Settings(g, i) \in Row /\ Settings(g, i).id = store.device.id
    BY <2>2 DEF Row
  <2>. QED BY <1>6, <2>1, <2>3
<1>8. Wipe => Kept
  <2> SUFFICES ASSUME Wipe PROVE Kept
    OBVIOUS
  <2>1. version = 1 /\ version' = 1 /\ (row' = row \/ row'.active = FALSE)
    BY DEF Wipe, IInv, StoreSound, At, NoRow
  <2>. QED BY <2>1
<1>9. ReadFiles \/ RefuseImport \/ LoadRow \/ ClearProfile \/ LoadAccount \/ RefreshDevice
        \/ (\E p \in Peer : AddPeer(p) \/ RemovePeer(p)) \/ (\E r \in Relay : SetConfig(r))
        \/ (\E on \in BOOLEAN : SetAccount(on)) \/ WipeFiles \/ Crash
      => UNCHANGED <<version, row, legacy>>
  BY DEF ReadFiles, RefuseImport, LoadRow, ClearProfile, LoadAccount, RefreshDevice, AddPeer,
         RemovePeer, SetPeers, SetConfig, SetAccount, WipeFiles, Crash, disk
<1>. QED
  BY <1>1, <1>2, <1>3, <1>4, <1>5, <1>7, <1>8, <1>9 DEF Next, Loads

(* A device gets an identity once: that of the files of the earlier version if it is
   numeric, and else a new one.  It keeps it through crashes and failed writes until
   a reset; and another one is only made once nothing of the old profile is on disk,
   and is not one there ever was. *)
THEOREM IdentityForGood == ASSUME IdentityAssumption PROVE Spec => IdentityKept
<1>1. Init => IInv
  BY Initially
<1>2. IInv /\ [Next]_vars => IInv'
  BY Inductive
<1>3. IInv /\ [Next]_vars =>
        [/\ version = 1 => version' = 1
         /\ version = 0 /\ version' = 1 =>
              IF legacy # {} /\ numeric THEN row'.id = 1 ELSE row'.id > made
         /\ version = 0 /\ version' = 0 => legacy' = legacy
         /\ row.active /\ row'.active => row'.id = row.id
         /\ ~row.active /\ row'.active /\ version = 1 => Cleared /\ row'.id > made]_vars
  BY KeptStep
<1>. QED BY <1>1, <1>2, <1>3, PTL DEF Spec, IdentityKept
=============================================================================
