---------------------------- MODULE ResourceSlots ----------------------------
(***************************************************************************)
(* What the job ledger promises the machine it runs on: the processes of   *)
(* remote requests run in a bounded number of slots, a process runs only   *)
(* in a slot that is held, and a slot is given back only when nothing runs *)
(* in it.  No runtimes, restarts, files or locks.                          *)
(***************************************************************************)
EXTENDS Naturals, FiniteSets

CONSTANTS
  Job,              \* whatever may hold a slot
  HandoffJob,       \* the jobs that count against the smaller limit
  Capacity, HandoffCapacity

VARIABLES
  held,             \* jobs that hold a slot
  live              \* jobs of which a process may be running

slots == <<held, live>>

Within(S) == Cardinality(S) <= Capacity /\ Cardinality(S \cap HandoffJob) <= HandoffCapacity

Init == held = {} /\ live = {}

Hold(j) == j \notin held /\ Within(held \cup {j}) /\ held' = held \cup {j} /\ UNCHANGED live
Launch(S) == S \subseteq held /\ live' = live \cup S /\ UNCHANGED held
Exit(j) == live' = live \ {j} /\ UNCHANGED held
Release(S) == S \cap live = {} /\ held' = held \ S /\ UNCHANGED live

Next ==
  \/ \E j \in Job : Hold(j) \/ Exit(j)
  \/ \E S \in SUBSET held : Launch(S) \/ Release(S)

Slots == Init /\ [][Next]_slots

=============================================================================
