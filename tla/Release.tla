------------------------------- MODULE Release -------------------------------
(* Installing a version of the Runtime, rolling back and ensuring that one runs:
   release/activate.go and store.go with the process control of
   cli/runtime_control.go, and cli/ensure_runtime.go.  One operation at a time
   holds install.lock, which the operating system frees when its process dies;
   starting a Runtime by hand takes another lock (runtime.lock), so that the
   running process can change under an operation's feet.

   A version stands for an executable's digest.  Left out: how a bundle and a
   manifest are checked byte by byte (Install begins with a candidate that
   passed; Fail covers the rest) and the wording of errors. *)
EXTENDS Naturals

CONSTANTS Version,
          Bad,        \* versions that report their identity and exit when started
          None,
          MaxFault    \* bound: crashes, failures and Runtimes that come and go

ReleaseAssumption == Bad \subseteq Version /\ None \notin Version /\ MaxFault \in Nat

VARIABLES
  file,     \* state.json
  running,  \* the version of the running Runtime, None when none runs
  op,       \* the operation that holds install.lock
  faults

vars == <<file, running, op, faults>>

Selected == Version \cup {None}
File == [current : Selected, previous : Selected, pending : Selected]
Nothing == [current |-> None, previous |-> None, pending |-> None]

(* An operation: where it is, what it returns to on failure, the version it
   starts, and whether the process it last looked at or started still lives. *)
Step == {"idle", "select", "mark", "recover", "stop", "stopping", "start", "verify",
         "apply", "undo", "restore", "settle"}
Goal == {"activate", "recover", "undo", "restore", "ensure"}
Idle == [at |-> "idle", goal |-> "ensure", next |-> None, original |-> Nothing, tracked |-> FALSE]

TypeOK ==
  /\ file \in File /\ running \in Selected /\ faults \in 0..MaxFault
  /\ op \in [at : Step, goal : Goal, next : Selected, original : File, tracked : BOOLEAN]

Init == file = Nothing /\ running = None /\ op = Idle /\ faults = 0

At(step) == op.at = step
GoTo(step) == op' = [op EXCEPT !.at = step]
Fault == faults < MaxFault /\ faults' = faults + 1
------------------------------------------------------------------------------
(* The operations. *)

(* Install: an interrupted activation is refused; the candidate is staged and
   reports its identity. *)
Install(v) ==
  /\ At("idle") /\ file.pending = None
  /\ op' = [Idle EXCEPT !.at = "select", !.goal = "activate", !.next = v]
  /\ UNCHANGED <<file, running, faults>>

(* The running version becomes the current one before it is replaced. *)
Baseline == IF running # None THEN running ELSE file.current

Select ==
  /\ At("select")
  /\ IF Baseline = op.next
     THEN op' = Idle /\ UNCHANGED file
     ELSE /\ file' = [file EXCEPT !.current = Baseline]
          /\ op' = [op EXCEPT !.at = "mark", !.original = file']
  /\ UNCHANGED <<running, faults>>

RollbackTarget == IF file.pending # None THEN file.current ELSE file.previous

ForgetFirstRefused == FALSE

(* The first install was interrupted: nothing to go back to but nothing. *)
ForgetFirst == file.pending # None /\ RollbackTarget = None

Rollback ==
  /\ At("idle")
  /\ \/ ForgetFirst /\ op' = [Idle EXCEPT !.at = "recover", !.goal = "recover"]
     \/ /\ RollbackTarget # None
        /\ op' = [Idle EXCEPT !.at = "mark", !.goal = "activate", !.next = RollbackTarget,
                              !.original = [file EXCEPT !.pending = None]]
  /\ UNCHANGED <<file, running, faults>>

Recover ==
  /\ At("recover")
  /\ IF running \in {None, file.pending} THEN GoTo("stop") ELSE op' = Idle
  /\ UNCHANGED <<file, running, faults>>

(* ActivePath, or this executable when no version is selected: what ensure may
   start.  A candidate whose first install was interrupted is not it. *)
ActivePath == IF file.current # None THEN {file.current}
              ELSE IF file.pending # None THEN {} ELSE Version

Ensure ==
  /\ At("idle") /\ running = None
  /\ \E v \in ActivePath \ {None} :
       op' = [Idle EXCEPT !.at = "start", !.goal = "ensure", !.next = v]
  /\ UNCHANGED <<file, running, faults>>
------------------------------------------------------------------------------
(* Steps of an activation. *)

MarkSelects ==
  /\ At("mark")
  /\ file' = [op.original EXCEPT !.pending = op.next, !.current = op.next]
  /\ GoTo("stop") /\ UNCHANGED <<running, faults>>

Mark ==
  /\ At("mark")
  /\ file' = [op.original EXCEPT !.pending = op.next]
  /\ GoTo("stop") /\ UNCHANGED <<running, faults>>

(* runtimeControl.Stop: nothing runs, or the process is asked to stop. *)
Stop ==
  /\ At("stop")
  /\ op' = [op EXCEPT !.at = "stopping", !.tracked = running # None]
  /\ UNCHANGED <<file, running, faults>>

(* The Runtime answers a stop by exiting. *)
RuntimeStops ==
  /\ At("stopping") /\ op.tracked
  /\ running' = None /\ op' = [op EXCEPT !.tracked = FALSE]
  /\ UNCHANGED <<file, faults>>

(* Stop returned without an error. *)
AfterStop ==
  CASE op.goal = "activate" -> GoTo("start") /\ UNCHANGED file
    [] op.goal = "undo" -> GoTo("restore") /\ UNCHANGED file
    [] op.goal = "recover" -> file' = Nothing /\ op' = Idle

Stopped ==
  /\ At("stopping") /\ running = None
  /\ AfterStop /\ UNCHANGED <<running, faults>>

(* Stop returned an error: the activation is cancelled and its mark erased;
   anything else keeps the mark. *)
StopErrs ==
  /\ file' = IF op.goal = "activate" THEN op.original ELSE file
  /\ op' = Idle /\ UNCHANGED running

AnotherStarted == At("stopping") /\ running # None /\ ~op.tracked /\ StopErrs /\ UNCHANGED faults
StopTimesOut == At("stopping") /\ op.tracked /\ Fault /\ StopErrs

(* A Runtime that cannot be started, or is not the one expected. *)
StartErrs ==
  op' = CASE op.goal = "activate" -> [op EXCEPT !.at = "restore"]
          [] OTHER -> Idle

(* The process takes runtime.lock, or exits: another Runtime holds it, or the
   version is bad. *)
Start ==
  /\ At("start")
  /\ IF running = None /\ op.next \notin Bad
     THEN running' = op.next /\ op' = [op EXCEPT !.at = "verify", !.tracked = TRUE]
     ELSE StartErrs /\ UNCHANGED running
  /\ UNCHANGED <<file, faults>>

(* The answering process is the one started, with its digest. *)
Verified ==
  /\ At("verify") /\ op.tracked
  /\ op' = CASE op.goal = "activate" -> [op EXCEPT !.at = "apply"]
             [] op.goal = "restore" -> [op EXCEPT !.at = "settle"]
             [] OTHER -> Idle
  /\ UNCHANGED <<file, running, faults>>

(* It exited before it answered. *)
Exited == At("verify") /\ ~op.tracked /\ StartErrs /\ UNCHANGED <<file, running, faults>>

(* No answer in time: it is killed. *)
StartTimesOut ==
  At("verify") /\ op.tracked /\ Fault /\ running' = None /\ StartErrs /\ UNCHANGED file

(* The version that ran becomes the previous one. *)
Applied ==
  [current |-> op.next, pending |-> None,
   previous |-> IF op.original.current = op.next THEN op.original.previous
                ELSE op.original.current]

Apply ==
  /\ At("apply")
  /\ file' = Applied /\ op' = Idle /\ UNCHANGED <<running, faults>>

(* The state cannot be written: the candidate is stopped again. *)
ApplyFails ==
  /\ At("apply") /\ Fault
  /\ op' = [op EXCEPT !.at = "stop", !.goal = "undo"]
  /\ UNCHANGED <<file, running>>

(* restore: back to the version selected before, if there was one. *)
Restore ==
  /\ At("restore")
  /\ op' = IF op.original.current = None THEN [op EXCEPT !.at = "settle"]
           ELSE [op EXCEPT !.at = "start", !.goal = "restore", !.next = op.original.current]
  /\ UNCHANGED <<file, running, faults>>

Settle ==
  /\ At("settle")
  /\ file' = op.original /\ op' = Idle /\ UNCHANGED <<running, faults>>
------------------------------------------------------------------------------
(* What goes wrong, and what happens beside an operation. *)

(* A write or a Verify that fails, a status call that is not answered: the
   operation returns an error and leaves state.json as it is. *)
Fail ==
  /\ op.at \in {"select", "mark", "recover", "restore", "settle"} /\ Fault
  /\ op' = Idle /\ UNCHANGED <<file, running>>

(* The process of the operation dies; the lock is free again. *)
Crash == ~At("idle") /\ Fault /\ op' = Idle /\ UNCHANGED <<file, running>>

RuntimeExits ==
  /\ running # None /\ Fault
  /\ running' = None /\ op' = [op EXCEPT !.tracked = FALSE] /\ UNCHANGED file

(* xallor-remote start, by hand. *)
UserStarts(v) ==
  /\ running = None /\ v \notin Bad /\ Fault
  /\ running' = v /\ UNCHANGED <<file, op>>

Proceeds == \/ Select \/ Recover \/ Mark \/ Stop \/ RuntimeStops \/ Stopped \/ AnotherStarted
            \/ Start \/ Verified \/ Exited \/ Apply \/ Restore \/ Settle

Next ==
  \/ \E v \in Version : Install(v)
  \/ Rollback \/ Ensure
  \/ Select \/ Recover \/ Mark \/ Stop \/ RuntimeStops \/ Stopped \/ AnotherStarted
  \/ StopTimesOut \/ Start \/ Verified \/ Exited \/ StartTimesOut \/ Apply \/ ApplyFails
  \/ Restore \/ Settle
  \/ Fail \/ Crash \/ RuntimeExits
  \/ \E v \in Version : UserStarts(v)

RecoveryTried == file.pending # None /\ Rollback

(* A started operation goes on (its waits have deadlines), and whoever finds an
   interrupted activation sooner or later asks for the rollback. *)
Fairness == WF_vars(Proceeds) /\ WF_vars(RecoveryTried)

Spec == Init /\ [][Next]_vars
FairSpec == Spec /\ Fairness
------------------------------------------------------------------------------
(* A version is selected, or kept to fall back to, only after it ran and answered
   with its digest: through every failure, crash and Runtime started by hand, a
   version that cannot run is never the current nor the previous one
   (activate.go activate, restore). *)
SelectedVersionsRun == file.current \notin Bad /\ file.previous \notin Bad

ReleaseInv == TypeOK /\ SelectedVersionsRun

(* While an activation is interrupted, only the operation that recovers it starts
   anything but the version selected before: ensure never retries a candidate
   (store.go ActivePath; stack.md). *)
CandidateNotRetried ==
  [][(file.pending # None /\ op.goal = "ensure" /\ At("start") /\ op'.at = "verify")
        => running' = file.current]_vars

(* An interrupted activation does not last: rollback gets rid of it, to the
   version selected before or to none, unless a Runtime somebody else started
   keeps the first install from being cleaned up (activate.go Rollback). *)
RollbackRecovers ==
  []<>(file.pending = None \/ (file.current = None /\ running \notin {None, file.pending}))
==============================================================================
