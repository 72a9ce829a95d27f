----------------------------- MODULE ReadWindow -----------------------------
(* Reading a file of the workspace for a remote caller: runLocalRead in
   noderun/ops.go, which asks for the file's size, opens it, reads the selected
   window, cuts it to the caller's budget at a rune's boundary and sends it in
   frames.  Another operation may replace the file in between (writes go through
   a temporary file and a rename, so an opened file does not change).

   A file is a sequence of byte classes: "x" a letter, "n" a newline, "L" and "C"
   the first and second byte of a longer rune, "?" a byte no rune has.  Left out:
   paths (they decide refusals), NUL bytes (they refuse the read) and the buffer
   sizes of readers. *)
EXTENDS Integers, Sequences, FiniteSetsExt, SequencesExt

CONSTANTS Content,         \* contents the file may have
          Later,           \* contents it may be replaced with
          Request,         \* [head, tail, offset, limit]
          UTFMax,          \* the longest rune
          MaxReadBytes, DefaultReadBytes,
          Budget           \* stdoutFrameBudget

Byte == {"x", "n", "L", "C", "?"}

ReadAssumption ==
  /\ Content \subseteq Seq(Byte) /\ Later \subseteq Content
  /\ UTFMax >= 2 /\ Budget >= UTFMax /\ DefaultReadBytes <= MaxReadBytes

VARIABLES
  file,
  request,
  pc,       \* "stat", "open", "sent" or "refused"
  size,     \* what stat said
  opened,   \* the content of the opened file
  out,      \* what the caller was sent
  truncated

vars == <<file, request, pc, size, opened, out, truncated>>

Init ==
  /\ file \in Content /\ request \in Request /\ pc = "stat" /\ size = 0
  /\ opened = <<>> /\ out = <<>> /\ truncated = FALSE
-----------------------------------------------------------------------------
Least(a, b) == IF a < b THEN a ELSE b
Upto(b, n) == SubSeq(b, 1, Least(n, Len(b)))
After(b, n) == SubSeq(b, n + 1, Len(b))

(* utf8.Valid and utf8.RuneStart. *)
Valid(b) ==
  /\ \A i \in 1..Len(b) : b[i] # "?"
  /\ \A i \in 1..Len(b) : b[i] = "L" <=> i < Len(b) /\ b[i + 1] = "C"
  /\ b = <<>> \/ b[1] # "C"
  /\ \A i \in 2..Len(b) : b[i] = "C" => b[i - 1] = "L"
RuneStart(byte) == byte # "C"

clampUTF8Prefix(b) == Upto(b, Max({n \in 0..Len(b) : Valid(Upto(b, n))}))

snapUTF8Start(b, off) ==
  IF off >= Len(b) THEN Len(b)
  ELSE Max({0} \cup {i \in 0..off : RuneStart(b[i + 1])})

Newlines(b) == {i \in 1..Len(b) : b[i] = "n"}

(* Where splitLines ends its lines; the empty piece after a final newline is not
   a line. *)
LineEnds(b) == Newlines(b) \cup (IF b # <<>> /\ Last(b) # "n" THEN {Len(b)} ELSE {})

(* The cut to the byte budget. *)
Clamped(raw, limit) ==
  LET kept == clampUTF8Prefix(Upto(raw, limit))
  IN [data |-> kept, cut |-> Len(kept) < Len(raw)]

(* lines[:head] or lines[len-tail:] joined again: without a final newline. *)
Lines(raw, head, tail) ==
  LET ends == LineEnds(raw)
      Nth(i) == CHOOSE e \in ends : Cardinality({d \in ends : d <= e}) = i
      Bare(b) == IF b # <<>> /\ Last(b) = "n" THEN Front(b) ELSE b
  IN CASE head > 0 /\ head < Cardinality(ends) -> Bare(Upto(raw, Nth(head)))
       [] head = 0 /\ tail > 0 /\ tail < Cardinality(ends) ->
            Bare(After(raw, Nth(Cardinality(ends) - tail)))
       [] OTHER -> raw

sliceRead(raw, p, limit) ==
  IF p.head > 0 \/ p.tail > 0 THEN Clamped(Lines(raw, p.head, p.tail), limit)
  ELSE LET off == snapUTF8Start(raw, p.offset)
           rest == After(raw, off)
       IN Clamped(IF p.limit > 0 THEN Upto(rest, p.limit) ELSE rest, limit)
-----------------------------------------------------------------------------
(* readLinePrefix: the first line of what is left, or the part of it that fits. *)
LinePrefix(left, keep) ==
  LET stop == Min({Len(left)} \cup Newlines(left))
      line == Upto(left, stop)
  IN IF stop <= keep THEN line
     ELSE IF Last(line) # "n" THEN Upto(line, keep)
     ELSE clampUTF8Prefix(Upto(line, keep - 1)) \o <<"n">>

(* The loop over head lines: what it collects, and whether some was left out. *)
RECURSIVE HeadLines(_, _, _, _)
HeadLines(left, n, lineBudget, got) ==
  IF n = 0 THEN got
  ELSE LET keep == Least(lineBudget, MaxReadBytes - Len(got.data))
           stop == Min({Len(left)} \cup Newlines(left))
           eof == stop = 0 \/ left[stop] # "n"
           now == [data |-> got.data \o LinePrefix(left, keep), cut |-> got.cut \/ stop > keep]
       IN IF Len(now.data) >= MaxReadBytes THEN [now EXCEPT !.cut = TRUE]
          ELSE IF eof THEN now
          ELSE HeadLines(After(left, stop), n - 1, lineBudget, now)

lineBudget ==
  IF size <= MaxReadBytes THEN MaxReadBytes
  ELSE IF request.limit = 0 THEN DefaultReadBytes ELSE Least(request.limit, MaxReadBytes)

tailStartCountsLast(b, n, lines) ==
  LET seen == Newlines(b) \cap 1..n
  IN Max({0} \cup {i \in seen : Cardinality({j \in seen : j >= i}) = lines})

(* Where the last lines begin, looking back from byte n. *)
tailStart(b, n, lines) ==
  LET seen == (Newlines(b) \cap 1..n) \ {n}
  IN Max({0} \cup {i \in seen : Cardinality({j \in seen : j >= i}) = lines})

AtMost(b) == [data |-> Upto(b, MaxReadBytes + 1), cut |-> Len(b) > MaxReadBytes]

WindowLimit ==
  IF request.limit = 0 THEN MaxReadBytes ELSE Least(request.limit, MaxReadBytes)

SeekStart == Max({0, request.offset - UTFMax})

readWorkspaceWindow(b) ==
  IF request.head > 0
  THEN HeadLines(b, request.head, lineBudget, [data |-> <<>>, cut |-> FALSE])
  ELSE IF request.tail > 0 THEN AtMost(After(b, tailStart(b, size, request.tail)))
  ELSE IF request.offset # 0 \/ request.limit # 0
  THEN LET start == SeekStart
           data == Upto(After(b, start), WindowLimit + request.offset - start + 1)
       IN sliceRead(data, [request EXCEPT !.offset = @ - start], WindowLimit)
  ELSE AtMost(b)
-----------------------------------------------------------------------------
(* Without a selection the file must fit. *)
readTooLarge ==
  /\ {request.head, request.tail, request.offset, request.limit} = {0}
  /\ size' > MaxReadBytes

Stat ==
  /\ pc = "stat"
  /\ size' = Len(file) /\ pc' = IF readTooLarge THEN "refused" ELSE "open"
  /\ UNCHANGED <<file, request, opened, out, truncated>>

(* writeWorkspaceFile by another operation. *)
Replace ==
  /\ pc \in {"stat", "open"}
  /\ file' \in Later /\ UNCHANGED <<request, pc, size, opened, out, truncated>>

(* nextUTF8Frame and the loop of sendStdoutFrames: what arrives of the frames. *)
RECURSIVE Framed(_)
Framed(data) ==
  LET frame == Upto(data, Max({n \in 0..Least(Budget, Len(data)) : Valid(Upto(data, n))}))
  IN IF frame = <<>> THEN <<>> ELSE frame \o Framed(After(data, Len(frame)))

FinalLimit == IF request.limit = 0 THEN DefaultReadBytes ELSE Least(request.limit, MaxReadBytes)

(* runLocalRead from the open on. *)
Read ==
  /\ pc = "open"
  /\ opened' = file
  /\ LET window == readWorkspaceWindow(file)
         sent == sliceRead(window.data, [request EXCEPT !.offset = 0, !.limit = 0], FinalLimit)
     IN /\ out' = Framed(sent.data)
        /\ truncated' = (sent.cut \/ window.cut)
  /\ pc' = "sent" /\ UNCHANGED <<file, request, size>>

Over == pc \in {"sent", "refused"} /\ UNCHANGED vars

Next == Stat \/ Replace \/ Read \/ Over

Spec == Init /\ [][Next]_vars
-----------------------------------------------------------------------------
TypeOK ==
  /\ ToSet(file) \cup ToSet(opened) \subseteq Byte
  /\ pc \in {"stat", "open", "sent", "refused"} /\ size \in Nat /\ truncated \in BOOLEAN
  /\ Len(out) <= MaxReadBytes

(* What was asked for, by the whole content: the first or the last lines with
   their newlines, a range of bytes from the start of its first rune, or all. *)
Selection(b) ==
  LET newlines == Newlines(b)
      inner == newlines \ {Len(b)}
      Start == snapUTF8Start(b, request.offset)
  IN IF request.head > 0
     THEN Upto(b, Min({Len(b)} \cup
                      {i \in newlines : Cardinality(newlines \cap 1..i) = request.head}))
     ELSE IF request.tail > 0
     THEN After(b, Max({0} \cup
                       {i \in inner : Cardinality({j \in inner : j >= i}) = request.tail}))
     ELSE IF request.limit > 0 THEN Upto(After(b, Start), request.limit)
     ELSE After(b, Start)

(* A read that is not reported as truncated returned everything that was asked
   for of the content the file had when it was opened, however the window, the
   budgets and the frames cut it (ops.go runLocalRead).  Lines counted from the
   end are found with the size asked for before the file was opened: a file
   replaced in between by one of another size is not covered. *)
UnflaggedIsWhole ==
  (pc = "sent" /\ ~truncated /\ (request.tail = 0 \/ request.head > 0 \/ size = Len(opened)))
    => out = Selection(opened)

(* Text stays text: what the caller gets can be decoded. *)
WholeRunes == Valid(out)

ReadInv == TypeOK /\ UnflaggedIsWhole /\ WholeRunes
=============================================================================
