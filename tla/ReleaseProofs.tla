---------------------------- MODULE ReleaseProofs ----------------------------
(***************************************************************************)
(* Proofs about Release, for any set of versions, any that cannot run and  *)
(* any number of faults.                                                   *)
(***************************************************************************)
EXTENDS Release, TLAPS

Operations == [at : Step, goal : Goal, next : Selected, original : File, tracked : BOOLEAN]

(* A state of state.json that names no version that cannot run. *)
Good(f) == f \in File /\ f.current \notin Bad /\ f.previous \notin Bad

(* What an operation knows of the versions in its hands: the state it goes back
   to is good, and the candidate it applies did run; and which goals it can have
   where it stops a Runtime and before. *)
Sound(o) ==
  /\ o \in Operations /\ Good(o.original)
  /\ o.at = "verify" /\ o.tracked => o.next \notin Bad
  /\ o.at = "apply" => o.next \notin Bad
  /\ o.at \in {"select", "mark"} => o.goal = "activate"
  /\ o.at = "recover" => o.goal = "recover"
  /\ o.at \in {"stop", "stopping"} => o.goal \in {"activate", "undo", "recover"}

(* A bad version never runs, however it was started, so that a process that is
   still tracked after its start is the candidate's, and a good one. *)
IInv == Good(file) /\ running \in Selected \ Bad /\ Sound(op) /\ faults \in 0..MaxFault
-----------------------------------------------------------------------------
LEMMA NothingIsGood == ASSUME ReleaseAssumption PROVE Good(Nothing)
  BY DEF ReleaseAssumption, Good, Nothing, File, Selected

LEMMA IdleIsSound ==
  ASSUME ReleaseAssumption
  PROVE  /\ Sound(Idle) /\ Idle.at = "idle"
         /\ Idle.original = Nothing /\ Idle.tracked = FALSE
<1>1. Idle \in Operations /\ Idle.at = "idle" /\ Idle.original = Nothing /\ Idle.tracked = FALSE
  BY NothingIsGood DEF ReleaseAssumption, Idle, Operations, Step, Goal, Selected, Good
<1>. QED BY <1>1, NothingIsGood DEF Sound

(* What an operation turns into by going to another step. *)
LEMMA Goes ==
  ASSUME Sound(op), NEW s \in Step, op' = [op EXCEPT !.at = s],
         s \in {"verify", "apply"} => op.next \notin Bad,
         s \in {"select", "mark"} => op.goal = "activate",
         s = "recover" => op.goal = "recover",
         s \in {"stop", "stopping"} => op.goal \in {"activate", "undo", "recover"}
  PROVE  Sound(op')
<1>1. /\ op' \in Operations /\ op'.at = s /\ op'.goal = op.goal /\ op'.next = op.next
      /\ op'.original = op.original /\ op'.tracked = op.tracked
  BY DEF Sound, Operations
<1>. QED BY <1>1 DEF Sound

(* A process that exits is no longer tracked. *)
LEMMA Untracks == ASSUME Sound(op), op' = [op EXCEPT !.tracked = FALSE] PROVE Sound(op')
<1>1. /\ op' \in Operations /\ op'.at = op.at /\ op'.goal = op.goal /\ op'.next = op.next
      /\ op'.original = op.original /\ op'.tracked = FALSE
  BY DEF Sound, Operations
<1>. QED BY <1>1 DEF Sound

LEMMA Initially == ASSUME ReleaseAssumption, Init PROVE IInv
<1>1. Sound(op) /\ Good(file)
  BY IdleIsSound, NothingIsGood DEF Init
<1>2. running \in Selected \ Bad /\ faults \in 0..MaxFault
  BY DEF ReleaseAssumption, Init, Selected
<1>. QED BY <1>1, <1>2 DEF IInv
-----------------------------------------------------------------------------
LEMMA InstallStep == ASSUME ReleaseAssumption, IInv, NEW v \in Version, Install(v) PROVE IInv'
<1>1. /\ op' \in Operations /\ op'.at = "select" /\ op'.goal = "activate"
      /\ op'.original = Nothing
  BY IdleIsSound DEF Install, Sound, Operations, Step, Goal, Selected
<1>2. Sound(op')
  BY <1>1, NothingIsGood DEF Sound
<1>. QED BY <1>2 DEF Install, IInv

LEMMA SelectStep == ASSUME ReleaseAssumption, IInv, Select PROVE IInv'
<1>1. Baseline \in Selected \ Bad
  BY DEF Baseline, IInv, Good, File
<1>2. CASE Baseline = op.next
  BY <1>2, IdleIsSound DEF Select, IInv
<1>3. CASE Baseline # op.next
  <2>1. Good(file')
    BY <1>1, <1>3 DEF Select, IInv, Good, File
  <2>2. op' = [op EXCEPT !.at = "mark", !.original = file'] /\ op.at = "select"
    BY <1>3 DEF Select, At
  <2>3. /\ op' \in Operations /\ op'.at = "mark" /\ op'.goal = op.goal /\ op'.original = file'
    BY <2>1, <2>2 DEF IInv, Sound, Operations, Good, Step
  <2>4. Sound(op')
    BY <2>1, <2>2, <2>3 DEF IInv, Sound
  <2>. QED BY <2>1, <2>4, <1>3 DEF Select, IInv
<1>. QED BY <1>2, <1>3

LEMMA RollbackStep == ASSUME ReleaseAssumption, IInv, Rollback PROVE IInv'
<1>1. CASE op' = [Idle EXCEPT !.at = "recover", !.goal = "recover"]
  <2>1. /\ op' \in Operations /\ op'.at = "recover" /\ op'.goal = "recover"
        /\ op'.original = Nothing
    BY <1>1, IdleIsSound DEF Sound, Operations, Step, Goal
  <2>2. Sound(op')
    BY <2>1, NothingIsGood DEF Sound
  <2>. QED BY <2>2 DEF Rollback, IInv
<1>2. CASE op' = [Idle EXCEPT !.at = "mark", !.goal = "activate", !.next = RollbackTarget,
                              !.original = [file EXCEPT !.pending = None]]
  <2>1. Good([file EXCEPT !.pending = None]) /\ RollbackTarget \in Selected
    BY DEF IInv, Good, File, Selected, RollbackTarget
  <2>2. /\ op' \in Operations /\ op'.at = "mark" /\ op'.goal = "activate"
        /\ op'.original = [file EXCEPT !.pending = None]
    BY <1>2, <2>1, IdleIsSound DEF Sound, Operations, Step, Goal, Good
  <2>3. Sound(op')
    BY <2>1, <2>2 DEF Sound
  <2>. QED BY <2>3 DEF Rollback, IInv
<1>. QED BY <1>1, <1>2 DEF Rollback

LEMMA EnsureStep == ASSUME ReleaseAssumption, IInv, Ensure PROVE IInv'
<1>1. PICK v \in ActivePath \ {None} :
        op' = [Idle EXCEPT !.at = "start", !.goal = "ensure", !.next = v]
  BY DEF Ensure
<1>2. v \in Selected
  BY DEF ActivePath, IInv, Good, File, Selected
<1>3. op' \in Operations /\ op'.at = "start" /\ op'.original = Nothing
  BY <1>1, <1>2, IdleIsSound DEF Sound, Operations, Step, Goal
<1>4. Sound(op')
  BY <1>3, NothingIsGood DEF Sound
<1>. QED BY <1>4 DEF Ensure, IInv

(* Steps that only move the operation on, or end it. *)
LEMMA ControlStep ==
  ASSUME ReleaseAssumption, IInv, Recover \/ Verified \/ Restore \/ Fail \/ Crash
  PROVE  IInv'
<1>1. Good(file') /\ running' \in Selected \ Bad /\ faults' \in 0..MaxFault
  BY DEF Recover, Verified, Restore, Fail, Crash, Fault, IInv, ReleaseAssumption
<1>2. Sound(op)
  BY DEF IInv
<1>3. ASSUME Recover PROVE Sound(op')
  <2>1. CASE op' = Idle
    BY <2>1, IdleIsSound
  <2>2. CASE op' = [op EXCEPT !.at = "stop"]
    <3>1. op.goal = "recover"
      BY <1>2, <1>3 DEF Recover, At, Sound
    <3>. QED BY <1>2, <2>2, <3>1, Goes DEF Step
  <2>. QED BY <1>3, <2>1, <2>2 DEF Recover, GoTo
<1>4. ASSUME Verified PROVE Sound(op')
  <2>1. op.next \notin Bad
    BY <1>2, <1>4 DEF Verified, At, Sound
  <2>2. CASE op' = [op EXCEPT !.at = "apply"]
    BY <1>2, <2>1, <2>2, Goes DEF Step
  <2>3. CASE op' = [op EXCEPT !.at = "settle"]
    BY <1>2, <2>3, Goes DEF Step
  <2>4. CASE op' = Idle
    BY <2>4, IdleIsSound
  <2>. QED BY <1>4, <2>2, <2>3, <2>4 DEF Verified
<1>5. ASSUME Restore PROVE Sound(op')
  <2>1. CASE op' = [op EXCEPT !.at = "settle"]
    BY <1>2, <2>1, Goes DEF Step
  <2>2. CASE op' = [op EXCEPT !.at = "start", !.goal = "restore", !.next = op.original.current]
    <3>1. /\ op' \in Operations /\ op'.at = "start" /\ op'.original = op.original
      BY <1>2, <2>2 DEF Sound, Operations, Good, File, Step, Goal
    <3>. QED BY <1>2, <3>1 DEF Sound
  <2>. QED BY <1>5, <2>1, <2>2 DEF Restore
<1>6. ASSUME Fail \/ Crash PROVE Sound(op')
  BY <1>6, IdleIsSound DEF Fail, Crash
<1>. QED BY <1>1, <1>3, <1>4, <1>5, <1>6 DEF IInv

(* Stopping the Runtime that is to be replaced. *)
LEMMA StopStep ==
  ASSUME ReleaseAssumption, IInv,
         Stop \/ RuntimeStops \/ Stopped \/ AnotherStarted \/ StopTimesOut
  PROVE  IInv'
<1>0. Sound(op) /\ None \in Selected \ Bad
  BY DEF IInv, Selected, ReleaseAssumption
<1>1. ASSUME Stop PROVE IInv'
  <2>1. /\ op' \in Operations /\ op'.at = "stopping" /\ op'.goal = op.goal
        /\ op'.original = op.original
    BY <1>0, <1>1 DEF Stop, Sound, Operations, Step
  <2>2. Sound(op')
    BY <1>0, <1>1, <2>1 DEF Stop, At, Sound
  <2>. QED BY <1>1, <2>2 DEF Stop, IInv
<1>2. ASSUME RuntimeStops PROVE IInv'
  BY <1>0, <1>2, Untracks DEF RuntimeStops, IInv
<1>3. ASSUME Stopped PROVE IInv'
  <2>1. op.goal \in {"activate", "undo", "recover"}
    BY <1>0, <1>3 DEF Stopped, At, Sound
  <2>2. CASE op.goal = "activate"
    <3>1. op' = [op EXCEPT !.at = "start"] /\ UNCHANGED <<file, running, faults>>
      BY <1>3, <2>2 DEF Stopped, AfterStop, GoTo
    <3>. QED BY <1>0, <3>1, Goes DEF Step, IInv
  <2>3. CASE op.goal = "undo"
    <3>1. op' = [op EXCEPT !.at = "restore"] /\ UNCHANGED <<file, running, faults>>
      BY <1>3, <2>3 DEF Stopped, AfterStop, GoTo
    <3>. QED BY <1>0, <3>1, Goes DEF Step, IInv
  <2>4. CASE op.goal = "recover"
    <3>1. op' = Idle /\ file' = Nothing /\ UNCHANGED <<running, faults>>
      BY <1>3, <2>4 DEF Stopped, AfterStop
    <3>. QED BY <3>1, IdleIsSound, NothingIsGood DEF IInv
  <2>. QED BY <2>1, <2>2, <2>3, <2>4
<1>4. ASSUME AnotherStarted \/ StopTimesOut PROVE IInv'
  <2>1. StopErrs /\ faults' \in 0..MaxFault
    BY <1>4 DEF AnotherStarted, StopTimesOut, Fault, IInv, ReleaseAssumption
  <2>2. op' = Idle /\ file' \in {file, op.original} /\ UNCHANGED running
    BY <2>1 DEF StopErrs
  <2>3. Good(file')
    BY <1>0, <2>2 DEF IInv, Sound
  <2>. QED BY <2>1, <2>2, <2>3, IdleIsSound DEF IInv
<1>. QED BY <1>1, <1>2, <1>3, <1>4

(* Starting a version, which exits if it is a bad one. *)
LEMMA StartStep ==
  ASSUME ReleaseAssumption, IInv, Start \/ Exited \/ StartTimesOut
  PROVE  IInv'
<1>0. Sound(op) /\ op.next \in Selected /\ None \in Selected \ Bad
  BY DEF IInv, Sound, Operations, Selected, ReleaseAssumption
<1>1. StartErrs => Sound(op')
  <2>1. CASE op' = [op EXCEPT !.at = "restore"]
    BY <1>0, <2>1, Goes DEF Step
  <2>2. CASE op' = Idle
    BY <2>2, IdleIsSound
  <2>. QED BY <2>1, <2>2 DEF StartErrs
<1>2. ASSUME Start PROVE IInv'
  <2>1. CASE running = None /\ op.next \notin Bad
    <3>1. op' = [op EXCEPT !.at = "verify", !.tracked = TRUE] /\ running' = op.next
      BY <1>2, <2>1 DEF Start
    <3>2. /\ op' \in Operations /\ op'.at = "verify" /\ op'.next = op.next
          /\ op'.original = op.original
      BY <1>0, <3>1 DEF Sound, Operations, Step
    <3>3. Sound(op')
      BY <1>0, <2>1, <3>2 DEF Sound
    <3>. QED BY <1>0, <1>2, <2>1, <3>1, <3>3 DEF Start, IInv
  <2>2. CASE ~(running = None /\ op.next \notin Bad)
    BY <1>1, <1>2, <2>2 DEF Start, IInv
  <2>. QED BY <2>1, <2>2
<1>3. ASSUME Exited \/ StartTimesOut PROVE IInv'
  <2>1. /\ StartErrs /\ UNCHANGED file /\ running' \in {running, None}
        /\ faults' \in 0..MaxFault
    BY <1>3 DEF Exited, StartTimesOut, Fault, IInv, ReleaseAssumption
  <2>. QED BY <1>0, <1>1, <2>1 DEF IInv
<1>. QED BY <1>2, <1>3

(* The steps that write state.json after Select. *)
LEMMA WriteStep ==
  ASSUME ReleaseAssumption, IInv, Mark \/ Apply \/ ApplyFails \/ Settle
  PROVE  IInv'
<1>0. Sound(op) /\ Good(op.original) /\ op.next \in Selected
  BY DEF IInv, Sound, Operations
<1>1. ASSUME Mark PROVE IInv'
  <2>1. Good(file')
    BY <1>0, <1>1 DEF Mark, Good, File
  <2>2. op.goal = "activate" /\ op' = [op EXCEPT !.at = "stop"]
    BY <1>0, <1>1 DEF Mark, At, GoTo, Sound
  <2>3. Sound(op')
    BY <1>0, <2>2, Goes DEF Step
  <2>. QED BY <1>1, <2>1, <2>3 DEF Mark, IInv
<1>2. ASSUME Apply PROVE IInv'
  <2>1. op.next \notin Bad
    BY <1>0, <1>2 DEF Apply, At, Sound
  <2>2. Good(Applied)
    BY <1>0, <2>1 DEF Applied, Good, File, Selected
  <2>. QED BY <1>2, <2>2, IdleIsSound DEF Apply, IInv
<1>3. ASSUME ApplyFails PROVE IInv'
  <2>1. op' = [op EXCEPT !.at = "stop", !.goal = "undo"] /\ UNCHANGED <<file, running>>
        /\ faults' \in 0..MaxFault
    BY <1>3 DEF ApplyFails, Fault, IInv, ReleaseAssumption
  <2>2. /\ op' \in Operations /\ op'.at = "stop" /\ op'.goal = "undo"
        /\ op'.original = op.original
    BY <1>0, <2>1 DEF Sound, Operations, Step, Goal
  <2>3. Sound(op')
    BY <1>0, <2>2 DEF Sound
  <2>. QED BY <2>1, <2>3 DEF IInv
<1>4. ASSUME Settle PROVE IInv'
  BY <1>0, <1>4, IdleIsSound DEF Settle, IInv
<1>. QED BY <1>1, <1>2, <1>3, <1>4

(* What happens beside an operation. *)
LEMMA OutsideStep ==
  ASSUME ReleaseAssumption, IInv, RuntimeExits \/ \E v \in Version : UserStarts(v)
  PROVE  IInv'
<1>1. Sound(op) /\ None \in Selected \ Bad /\ Version \subseteq Selected
  BY DEF IInv, Selected, ReleaseAssumption
<1>2. ASSUME RuntimeExits PROVE IInv'
  <2>1. op' = [op EXCEPT !.tracked = FALSE] /\ running' = None /\ UNCHANGED file
        /\ faults' \in 0..MaxFault
    BY <1>2 DEF RuntimeExits, Fault, IInv, ReleaseAssumption
  <2>. QED BY <1>1, <2>1, Untracks DEF IInv
<1>3. ASSUME NEW v \in Version, UserStarts(v) PROVE IInv'
  BY <1>1, <1>3 DEF UserStarts, Fault, IInv, ReleaseAssumption
<1>. QED BY <1>2, <1>3

LEMMA StepKeeps == ASSUME ReleaseAssumption, IInv, [Next]_vars PROVE IInv'
<1>1. IInv /\ UNCHANGED vars => IInv'
  BY DEF vars, IInv
<1>. QED
  BY <1>1, InstallStep, SelectStep, RollbackStep, EnsureStep, ControlStep, StopStep,
     StartStep, WriteStep, OutsideStep DEF Next

(* No failure, crash or Runtime started by hand between the steps of an
   installation or a rollback selects a version that cannot run, for any set of
   versions and any number of faults. *)
THEOREM SelectedRun == ASSUME ReleaseAssumption PROVE Spec => []ReleaseInv
<1>1. Init => IInv
  BY Initially
<1>2. IInv /\ [Next]_vars => IInv'
  BY StepKeeps
<1>3. IInv => ReleaseInv
  BY DEF IInv, Good, Sound, Operations, ReleaseInv, TypeOK, SelectedVersionsRun
<1>. QED BY <1>1, <1>2, <1>3, PTL DEF Spec
-----------------------------------------------------------------------------
(* What ensure starts while an activation is interrupted is the version that was
   selected before: it read state.json under install.lock, and nobody writes the
   file while it holds the lock. *)
EnsuresSelected == At("start") /\ op.goal = "ensure" /\ file.pending # None => op.next = file.current

LEMMA EnsuresSelectedKept == ASSUME IInv, EnsuresSelected, [Next]_vars PROVE EnsuresSelected'
<1>1. /\ op \in Operations /\ Sound(op) /\ file \in File
      /\ op = [at |-> op.at, goal |-> op.goal, next |-> op.next, original |-> op.original, tracked |-> op.tracked]
  BY DEF IInv, Sound, Good, Operations
<1>2. Idle.at = "idle"
  BY DEF Idle
<1>3. CASE UNCHANGED <<file, op>>
  BY <1>3 DEF EnsuresSelected, At
<1>4. CASE op' = Idle
  BY <1>2, <1>4 DEF EnsuresSelected, At
<1>5. CASE op' = [op EXCEPT !.tracked = FALSE] /\ UNCHANGED file
  <2>1. op'.at = op.at /\ op'.goal = op.goal /\ op'.next = op.next
    BY <1>1, <1>5 DEF Operations
  <2>. QED BY <1>5, <2>1 DEF EnsuresSelected, At
<1>6. CASE op'.at # "start" \/ op'.goal # "ensure"
  BY <1>6 DEF EnsuresSelected, At
<1>7. CASE UNCHANGED vars
  BY <1>3, <1>7 DEF vars
<1>8. CASE Ensure
  <2>1. PICK v \in ActivePath \ {None} : op' = [Idle EXCEPT !.at = "start", !.goal = "ensure", !.next = v]
    BY <1>8 DEF Ensure
  <2>2. op'.next = v /\ UNCHANGED file
    BY <1>8, <2>1 DEF Ensure, Idle
  <2>3. file.pending # None => v = file.current
    BY <2>1 DEF ActivePath
  <2>. QED BY <2>2, <2>3 DEF EnsuresSelected
<1>9. ASSUME NEW v \in Version, Install(v) PROVE EnsuresSelected'
  <2>1. op'.at = "select"
    BY <1>9 DEF Install, Idle
  <2>. QED BY <1>6, <2>1
<1>10. CASE Rollback
  <2>1. op'.at \in {"recover", "mark"}
    BY <1>10 DEF Rollback, Idle
  <2>. QED BY <1>6, <2>1
<1>11. CASE Select
  BY <1>1, <1>4, <1>6, <1>11 DEF Select, Operations
<1>12. CASE Recover \/ Mark \/ Stop \/ Verified \/ ApplyFails
  BY <1>1, <1>4, <1>6, <1>12 DEF Recover, Mark, Stop, Verified, ApplyFails, GoTo, Operations
<1>13. CASE Stopped
  <2>1. op.goal \in {"activate", "undo", "recover"}
    BY <1>1, <1>13 DEF Stopped, At, Sound
  <2>. QED BY <1>1, <1>4, <1>6, <1>13, <2>1 DEF Stopped, AfterStop, GoTo, Operations
<1>14. CASE RuntimeStops \/ RuntimeExits
  BY <1>5, <1>14 DEF RuntimeStops, RuntimeExits
<1>15. CASE Start \/ Exited \/ StartTimesOut
  BY <1>1, <1>4, <1>6, <1>15 DEF Start, Exited, StartTimesOut, StartErrs, Operations
<1>16. CASE Restore
  BY <1>1, <1>6, <1>16 DEF Restore, Operations
<1>17. CASE AnotherStarted \/ StopTimesOut \/ Apply \/ Settle \/ Fail \/ Crash
  BY <1>4, <1>17 DEF AnotherStarted, StopTimesOut, StopErrs, Apply, Settle, Fail, Crash
<1>18. ASSUME NEW v \in Version, UserStarts(v) PROVE EnsuresSelected'
  BY <1>3, <1>18 DEF UserStarts
<1>. QED
  BY <1>7, <1>8, <1>9, <1>10, <1>11, <1>12, <1>13, <1>14, <1>15, <1>16, <1>17, <1>18 DEF Next

(* Whatever fails, dies or is started by hand, ensure never starts the candidate of
   an activation that was interrupted (CandidateNotRetried): ActivePath in
   store.go and ensure_runtime.go. *)
THEOREM CandidateLeft == ASSUME ReleaseAssumption PROVE Spec => CandidateNotRetried
<1> DEFINE Retry == file.pending # None /\ op.goal = "ensure" /\ At("start") /\ op'.at = "verify"
                      => running' = file.current
<1>1. Init => IInv /\ EnsuresSelected
  <2>1. Init => EnsuresSelected
    BY DEF Init, Nothing, EnsuresSelected
  <2>. QED BY <2>1, Initially
<1>2. IInv /\ [Next]_vars => IInv'
  BY StepKeeps
<1>3. IInv /\ EnsuresSelected /\ [Next]_vars => Retry
  <2> SUFFICES ASSUME IInv, EnsuresSelected, [Next]_vars, file.pending # None, op.goal = "ensure",
                      At("start"), op'.at = "verify"
               PROVE  running' = file.current
    OBVIOUS
  <2>1. op \in Operations /\ op.at = "start" /\ Idle.at = "idle" /\ op.next = file.current
    BY DEF IInv, Sound, At, EnsuresSelected, Idle
  <2>2. op' # op /\ op' # Idle /\ op' # [op EXCEPT !.tracked = FALSE]
    BY <2>1 DEF Operations
  <2>3. CASE Start
    BY <2>1, <2>2, <2>3 DEF Start, StartErrs
  <2>4. ~ UNCHANGED vars /\ ~ Crash /\ ~ RuntimeExits /\ \A v \in Version : ~ UserStarts(v)
    BY <2>2 DEF vars, Crash, RuntimeExits, UserStarts
  <2>5. CASE Fail
    BY <2>1, <2>5 DEF Fail
  <2>. QED
    BY <2>1, <2>3, <2>4, <2>5 DEF Next, At, Install, Rollback, Ensure, Select, Recover, Mark, Stop,
       RuntimeStops, Stopped, AnotherStarted, StopTimesOut, Verified, Exited, StartTimesOut, Apply,
       ApplyFails, Restore, Settle
<1>4. IInv /\ EnsuresSelected /\ [Next]_vars => EnsuresSelected'
  BY EnsuresSelectedKept
<1>5. CandidateNotRetried <=> [][Retry]_vars
  BY DEF CandidateNotRetried
<1> HIDE DEF Retry
<1>. QED BY <1>1, <1>2, <1>3, <1>4, <1>5, PTL DEF Spec
=============================================================================
