--------------------------- MODULE JobLedgerProofs ---------------------------
(***************************************************************************)
(* Proofs about JobLedger, for any number of Runtimes, jobs and keys and   *)
(* any two limits.                                                         *)
(***************************************************************************)
EXTENDS JobLedger, FiniteSetTheorems, TLAPS

(* A Ledger that holds the OS lock is open or failed, an open one holds it and
   its memory is the file, and a Ledger not yet used has no Owner. *)
LockInv ==
  /\ MemoryIsDisk
  /\ \A l \in Runtime : lock = l => ledger[l] \in {"open", "failed"}
  /\ \A j \in Job : ledger[home[j]] = "new" => owner[j] = "none"

(* What the Owner of a job knows of its processes and of its record. *)
OwnerInv ==
  \A j \in Job :
    /\ owner[j] = "none" => disk[j] = "none" /\ j \notin procs /\ j \notin doubt /\ child[j] = "none"
    /\ owner[j] = "starting" =>
         lock = home[j] /\ disk[j] = "occupied" /\ j \notin doubt /\ child[j] = "none" /\ j \notin procs
    /\ owner[j] = "open" /\ j \in procs => child[j] = "running" \/ Uncertain(j)
    /\ owner[j] = "open" /\ ledger[home[j]] = "open" => disk[j] # "uncertain"

IInv == TypeOK /\ LockInv /\ OwnerInv /\ RunningIsRecorded


-----------------------------------------------------------------------------
(* The type invariant alone is inductive. *)
LEMMA TypeInit == Init => TypeOK
  BY DEF Init, TypeOK, Jobs, State, Empty

(* A save that succeeds or fails keeps the types of what it touches. *)
LEMMA SaveType ==
  ASSUME TypeOK, NEW l \in Runtime, NEW jobs \in Jobs, Saved(l, jobs) \/ SaveFails(l, jobs)
  PROVE  /\ disk' \in Jobs /\ mem' \in [Runtime -> Jobs]
         /\ ledger' \in [Runtime -> {"new", "open", "failed", "closed", "dead"}]
<1>1. CASE Saved(l, jobs)
  BY <1>1 DEF TypeOK, Saved
<1>2. CASE SaveFails(l, jobs)
  BY <1>2 DEF TypeOK, SaveFails
<1>. QED BY <1>1, <1>2

LEMMA UpdateType ==
  ASSUME TypeOK, NEW l \in Runtime, NEW j \in Job, NEW s \in State
  PROVE  [mem[l] EXCEPT ![j] = s] \in Jobs
  BY DEF TypeOK, Jobs

LEMMA TypeStep == TypeOK /\ [Next]_vars => TypeOK'
<1> SUFFICES ASSUME TypeOK, [Next]_vars PROVE TypeOK'
  OBVIOUS
<1> USE DEF TypeOK, Jobs, State, order
<1>1. ASSUME NEW j \in Job, Reserve(j) PROVE TypeOK'
  <2>1. home[j] \in Runtime /\ [mem[home[j]] EXCEPT ![j] = "reserved"] \in Jobs
    BY UpdateType
  <2>. QED BY <1>1, <2>1, SaveType DEF Reserve
<1>2. ASSUME NEW j \in Job, BeginStart(j) PROVE TypeOK'
  <2>1. home[j] \in Runtime /\ [mem[home[j]] EXCEPT ![j] = "occupied"] \in Jobs
    BY UpdateType
  <2>2. CASE PrepareStart(j)
    BY <1>2, <2>1, <2>2, SaveType DEF BeginStart, PrepareStart
  <2>3. CASE UNCHANGED <<disk, ledger, mem, owner>>
    BY <1>2, <2>3 DEF BeginStart
  <2>. QED BY <1>2, <2>2, <2>3 DEF BeginStart
<1>3. ASSUME NEW j \in Job, StartRefused(j) PROVE TypeOK'
  BY <1>3 DEF StartRefused
<1>4. ASSUME NEW j \in Job, StartReturns(j) PROVE TypeOK'
  BY <1>4 DEF StartReturns
<1>5. ASSUME NEW j \in Job, ChildDone(j) PROVE TypeOK'
  BY <1>5 DEF ChildDone
<1>6. ASSUME NEW j \in Job, OrphanEnds(j) PROVE TypeOK'
  BY <1>6 DEF OrphanEnds
<1>7. ASSUME NEW j \in Job, Finish(j) PROVE TypeOK'
  <2>1. home[j] \in Runtime /\ [mem[home[j]] EXCEPT ![j] = IF Uncertain(j) THEN "uncertain" ELSE "none"] \in Jobs
    BY UpdateType
  <2>. QED BY <1>7, <2>1, SaveType DEF Finish
<1>8. ASSUME NEW l \in Runtime, Open(l) PROVE TypeOK'
  <2>. Recover(disk) \in Jobs
    BY DEF Recover
  <2>. QED BY <1>8 DEF Open, SaveFails
<1>9. ASSUME NEW l \in Runtime, RequestClose(l) PROVE TypeOK'
  BY <1>9 DEF RequestClose
<1>10. ASSUME NEW l \in Runtime, Close(l) PROVE TypeOK'
  BY <1>10 DEF Close, Unlock
<1>11. ASSUME NEW l \in Runtime, Crash(l) PROVE TypeOK'
  BY <1>11 DEF Crash, Unlock, Starting
<1>12. CASE UNCHANGED vars
  BY <1>12 DEF vars
<1>. QED
  BY <1>1, <1>2, <1>3, <1>4, <1>5, <1>6, <1>7, <1>8, <1>9, <1>10, <1>11, <1>12
  DEF Next, JobStep, Exhausted

(* Every variable keeps its type: the records of every Ledger and of the file
   are states of jobs, the lock is held by a Runtime or by none. *)
THEOREM TypeCorrect == Spec => []TypeOK
  BY TypeInit, TypeStep, PTL DEF Spec

-----------------------------------------------------------------------------
(* Inductive invariant. *)
LEMMA InvInit == Init => IInv
<1> SUFFICES ASSUME Init PROVE IInv
  OBVIOUS
<1>1. TypeOK
  BY TypeInit
<1>2. LockInv
  BY <1>1, LedgerAssumption DEF Init, LockInv, MemoryIsDisk, TypeOK
<1>3. OwnerInv
  BY DEF Init, OwnerInv, Empty
<1>4. RunningIsRecorded
  BY DEF Init, RunningIsRecorded
<1>. QED BY <1>1, <1>2, <1>3, <1>4 DEF IInv

(* A save by the open Ledger l of a state that differs from the file in j only. *)
LEMMA SaveInv ==
  ASSUME TypeOK, LockInv, NEW l \in Runtime, ledger[l] = "open", UNCHANGED lock,
         NEW j \in Job, NEW s \in State,
         \/ Saved(l, [mem[l] EXCEPT ![j] = s])
         \/ SaveFails(l, [mem[l] EXCEPT ![j] = s])
  PROVE  /\ MemoryIsDisk'
         /\ \A i \in Runtime : lock' = i => ledger'[i] \in {"open", "failed"}
         /\ \A i \in Runtime : ledger'[i] = "new" <=> ledger[i] = "new"
         /\ \A i \in Runtime : ledger'[i] = "open" => ledger[i] = "open"
         /\ \A i \in Job : i # j => disk'[i] = disk[i]
         /\ disk'[j] \in {disk[j], s}
<1>. USE DEF TypeOK, LockInv, MemoryIsDisk, Jobs
<1>1. mem[l] = disk /\ \A i \in Runtime : ledger[i] = "open" => i = l
  OBVIOUS
<1>2. CASE Saved(l, [mem[l] EXCEPT ![j] = s])
  BY <1>1, <1>2 DEF Saved
<1>3. CASE SaveFails(l, [mem[l] EXCEPT ![j] = s])
  BY <1>1, <1>3 DEF SaveFails
<1>. QED BY <1>2, <1>3

LEMMA InvStep == IInv /\ [Next]_vars => IInv'
<1> SUFFICES ASSUME IInv, [Next]_vars PROVE IInv'
  OBVIOUS
<1>. TypeOK /\ TypeOK'
  BY TypeStep DEF IInv
<1>1. ASSUME NEW j \in Job, Reserve(j) PROVE IInv'
  <2>. DEFINE l == home[j]
  <2>1. /\ l \in Runtime /\ ledger[l] = "open" /\ owner[j] = "none" /\ "reserved" \in State
        /\ UNCHANGED <<key, home, lock, closing, child, doubt, procs>>
        /\ owner' \in {[owner EXCEPT ![j] = "open"], [owner EXCEPT ![j] = "closed"]}
        /\ \/ Saved(l, [mem[l] EXCEPT ![j] = "reserved"])
           \/ SaveFails(l, [mem[l] EXCEPT ![j] = "reserved"])
    BY <1>1 DEF Reserve, TypeOK, order, State
  <2>2. /\ MemoryIsDisk'
        /\ \A i \in Runtime : lock' = i => ledger'[i] \in {"open", "failed"}
        /\ \A i \in Runtime : ledger'[i] = "new" <=> ledger[i] = "new"
        /\ \A i \in Runtime : ledger'[i] = "open" => ledger[i] = "open"
        /\ \A i \in Job : i # j => disk'[i] = disk[i]
        /\ disk'[j] \in {disk[j], "reserved"}
    BY <2>1, SaveInv DEF IInv
  <2>3. LockInv'
    BY <2>1, <2>2 DEF IInv, LockInv, TypeOK
  <2>4. OwnerInv'
    BY <2>1, <2>2 DEF IInv, OwnerInv, TypeOK, Uncertain
  <2>5. RunningIsRecorded'
    BY <2>1, <2>2 DEF IInv, OwnerInv, RunningIsRecorded, TypeOK
  <2>. QED BY <2>3, <2>4, <2>5 DEF IInv
<1>2. ASSUME NEW j \in Job, BeginStart(j) PROVE IInv'
  <2>. DEFINE l == home[j]
  <2>1. /\ l \in Runtime /\ owner[j] = "open" /\ j \notin doubt /\ child[j] \in {"none", "clean"} /\ j \notin procs
        /\ UNCHANGED <<key, home, lock, closing, doubt, procs>>
        /\ child' = [child EXCEPT ![j] = "none"]
    BY <1>2 DEF BeginStart, IInv, OwnerInv, Uncertain, TypeOK, order
  <2>2. CASE UNCHANGED <<disk, ledger, mem, owner>>
    <3>1. LockInv'
      BY <2>1, <2>2 DEF IInv, LockInv, MemoryIsDisk
    <3>2. OwnerInv'
      BY <2>1, <2>2 DEF IInv, OwnerInv, TypeOK, Uncertain
    <3>3. RunningIsRecorded'
      BY <2>1, <2>2 DEF IInv, RunningIsRecorded
    <3>. QED BY <3>1, <3>2, <3>3 DEF IInv
  <2>3. CASE ledger[l] = "open" /\ PrepareStart(j)
    <3>1. lock = l /\ mem[l] = disk
      BY <2>1, <2>3 DEF IInv, LockInv, MemoryIsDisk
    <3>2. CASE /\ disk[j] = "occupied" /\ owner' = [owner EXCEPT ![j] = "starting"]
               /\ UNCHANGED <<disk, ledger, mem>>
      <4>1. LockInv'
        BY <2>1, <2>3, <3>2 DEF IInv, LockInv, MemoryIsDisk, TypeOK
      <4>2. OwnerInv'
        BY <2>1, <3>1, <3>2 DEF IInv, OwnerInv, TypeOK, Uncertain
      <4>3. RunningIsRecorded'
        BY <2>1, <3>2 DEF IInv, RunningIsRecorded
      <4>. QED BY <4>1, <4>2, <4>3 DEF IInv
    <3>3. CASE /\ disk[j] = "reserved"
               /\ \/ Saved(l, [mem[l] EXCEPT ![j] = "occupied"]) /\ owner' = [owner EXCEPT ![j] = "starting"]
                  \/ SaveFails(l, [mem[l] EXCEPT ![j] = "occupied"]) /\ UNCHANGED owner
      <4>1. /\ MemoryIsDisk'
            /\ \A i \in Runtime : lock' = i => ledger'[i] \in {"open", "failed"}
            /\ \A i \in Runtime : ledger'[i] = "new" <=> ledger[i] = "new"
            /\ \A i \in Runtime : ledger'[i] = "open" => ledger[i] = "open"
            /\ \A i \in Job : i # j => disk'[i] = disk[i]
            /\ disk'[j] \in {disk[j], "occupied"}
        BY <2>1, <2>3, <3>3, SaveInv DEF IInv, State
      <4>2. owner' = owner \/ (owner' = [owner EXCEPT ![j] = "starting"] /\ disk'[j] = "occupied")
        BY <2>1, <3>3 DEF Saved, TypeOK, Jobs
      <4>3. LockInv'
        BY <2>1, <4>1, <4>2 DEF IInv, LockInv, TypeOK
      <4>4. OwnerInv'
        BY <2>1, <3>1, <3>3, <4>1, <4>2 DEF IInv, OwnerInv, TypeOK, Uncertain
      <4>5. RunningIsRecorded'
        BY <2>1, <4>1 DEF IInv, RunningIsRecorded, TypeOK
      <4>. QED BY <4>3, <4>4, <4>5 DEF IInv
    <3>. QED BY <2>3, <3>1, <3>2, <3>3 DEF PrepareStart
  <2>. QED BY <1>2, <2>2, <2>3 DEF BeginStart
<1>3. ASSUME NEW j \in Job, StartRefused(j) PROVE IInv'
  <2>1. LockInv' /\ RunningIsRecorded'
    BY <1>3 DEF StartRefused, IInv, LockInv, MemoryIsDisk, RunningIsRecorded, order
  <2>2. OwnerInv'
    BY <1>3 DEF StartRefused, IInv, OwnerInv, Uncertain, order
  <2>. QED BY <2>1, <2>2 DEF IInv
<1>4. ASSUME NEW j \in Job, StartReturns(j) PROVE IInv'
  <2>1. LockInv'
    BY <1>4 DEF StartReturns, IInv, LockInv, MemoryIsDisk, TypeOK, order
  <2>2. OwnerInv'
    BY <1>4 DEF StartReturns, IInv, OwnerInv, Uncertain, TypeOK, order
  <2>3. RunningIsRecorded'
    BY <1>4 DEF StartReturns, IInv, OwnerInv, RunningIsRecorded, order
  <2>. QED BY <2>1, <2>2, <2>3 DEF IInv
<1>5. ASSUME NEW j \in Job, ChildDone(j) PROVE IInv'
  <2>1. LockInv' /\ RunningIsRecorded'
    BY <1>5 DEF ChildDone, IInv, LockInv, MemoryIsDisk, RunningIsRecorded, order
  <2>2. OwnerInv'
    BY <1>5 DEF ChildDone, IInv, OwnerInv, Uncertain, TypeOK, order
  <2>. QED BY <2>1, <2>2 DEF IInv
<1>6. ASSUME NEW j \in Job, OrphanEnds(j) PROVE IInv'
  BY <1>6 DEF OrphanEnds, IInv, LockInv, MemoryIsDisk, OwnerInv, Uncertain, RunningIsRecorded, order
<1>7. ASSUME NEW j \in Job, Finish(j) PROVE IInv'
  <2>. DEFINE l == home[j]
              s == IF Uncertain(j) THEN "uncertain" ELSE "none"
  <2>1. /\ l \in Runtime /\ owner[j] = "open" /\ child[j] # "running" /\ s \in State
        /\ UNCHANGED <<key, home, lock, closing, child, procs>>
        /\ owner' = [owner EXCEPT ![j] = "closed"]
        /\ doubt' \in {doubt, doubt \cup {j}}
    BY <1>7 DEF Finish, TypeOK, order, State
  <2>2. s # "uncertain" => j \notin procs
    BY <2>1 DEF IInv, OwnerInv
  <2>3. CASE UNCHANGED <<disk, ledger, mem>>
    <3>1. LockInv'
      BY <2>1, <2>3 DEF IInv, LockInv, MemoryIsDisk, TypeOK
    <3>2. OwnerInv'
      BY <2>1, <2>3 DEF IInv, OwnerInv, TypeOK, Uncertain
    <3>3. RunningIsRecorded'
      BY <2>1, <2>3 DEF IInv, RunningIsRecorded
    <3>. QED BY <3>1, <3>2, <3>3 DEF IInv
  <2>4. CASE ledger[l] = "open" /\ (Saved(l, [mem[l] EXCEPT ![j] = s]) \/ SaveFails(l, [mem[l] EXCEPT ![j] = s]))
    <3>. HIDE DEF s
    <3>1. /\ MemoryIsDisk'
          /\ \A i \in Runtime : lock' = i => ledger'[i] \in {"open", "failed"}
          /\ \A i \in Runtime : ledger'[i] = "new" <=> ledger[i] = "new"
          /\ \A i \in Runtime : ledger'[i] = "open" => ledger[i] = "open"
          /\ \A i \in Job : i # j => disk'[i] = disk[i]
          /\ disk'[j] \in {disk[j], s}
      BY <2>1, <2>4, SaveInv DEF IInv
    <3>2. LockInv'
      BY <2>1, <3>1 DEF IInv, LockInv, TypeOK
    <3>3. OwnerInv'
      BY <2>1, <3>1 DEF IInv, OwnerInv, TypeOK, Uncertain
    <3>4. RunningIsRecorded'
      BY <2>1, <2>2, <3>1 DEF IInv, RunningIsRecorded, TypeOK
    <3>. QED BY <3>2, <3>3, <3>4 DEF IInv
  <2>. QED BY <1>7, <2>3, <2>4 DEF Finish
<1>8. ASSUME NEW l \in Runtime, Open(l) PROVE IInv'
  <2>1. /\ ledger[l] = "new" /\ \A j \in Job : home[j] = l => owner[j] = "none"
        /\ UNCHANGED <<key, home, closing, owner, child, doubt, procs>>
    BY <1>8 DEF Open, IInv, LockInv, order
  <2>2. CASE UNCHANGED <<lock, disk, mem>> /\ ledger' = [ledger EXCEPT ![l] = "failed"]
    <3>1. LockInv'
      BY <2>1, <2>2 DEF IInv, LockInv, MemoryIsDisk, TypeOK
    <3>2. OwnerInv'
      BY <2>1, <2>2 DEF IInv, OwnerInv, TypeOK, Uncertain
    <3>3. RunningIsRecorded'
      BY <2>1, <2>2 DEF IInv, RunningIsRecorded
    <3>. QED BY <3>1, <3>2, <3>3 DEF IInv
  <2>3. CASE /\ lock = NoRuntime /\ lock' = l /\ disk' \in {disk, Recover(disk)}
             /\ \/ /\ ledger' = [ledger EXCEPT ![l] = "open"]
                   /\ disk' = Recover(disk) /\ mem' = [mem EXCEPT ![l] = Recover(disk)]
                \/ ledger' = [ledger EXCEPT ![l] = "failed"] /\ UNCHANGED mem
    <3>1. \A i \in Runtime : ledger[i] # "open"
      BY <2>3, LedgerAssumption DEF IInv, LockInv, MemoryIsDisk
    <3>2. \A j \in Job : owner[j] # "starting"
      BY <2>3, LedgerAssumption DEF IInv, OwnerInv, TypeOK
    <3>3. \A j \in Job : /\ disk[j] = "none" => disk'[j] = "none"
                         /\ disk[j] \in {"occupied", "uncertain"} => disk'[j] \in {"occupied", "uncertain"}
      BY <2>3 DEF Recover
    <3>4. LockInv'
      BY <2>1, <2>3, <3>1 DEF IInv, LockInv, MemoryIsDisk, TypeOK
    <3>5. OwnerInv'
      BY <2>1, <2>3, <3>1, <3>2, <3>3 DEF IInv, OwnerInv, TypeOK, Uncertain
    <3>6. RunningIsRecorded'
      BY <2>1, <3>3 DEF IInv, RunningIsRecorded, TypeOK
    <3>. QED BY <3>4, <3>5, <3>6 DEF IInv
  <2>. QED BY <1>8, <2>2, <2>3 DEF Open, SaveFails
<1>9. ASSUME NEW l \in Runtime, RequestClose(l) PROVE IInv'
  BY <1>9 DEF RequestClose, IInv, LockInv, MemoryIsDisk, OwnerInv, Uncertain, RunningIsRecorded, order
<1>10. ASSUME NEW l \in Runtime, Close(l) PROVE IInv'
  <2>1. /\ UNCHANGED <<key, home, disk, mem, owner, child, doubt, procs>>
        /\ ledger' = [ledger EXCEPT ![l] = "closed"]
        /\ lock' = IF lock = l THEN NoRuntime ELSE lock
        /\ \A j \in Job : owner[j] = "starting" => home[j] # l
    BY <1>10 DEF Close, Unlock, Starting, order
  <2>2. LockInv'
    BY <2>1, LedgerAssumption DEF IInv, LockInv, MemoryIsDisk, TypeOK
  <2>3. OwnerInv'
    BY <2>1 DEF IInv, OwnerInv, TypeOK, Uncertain
  <2>4. RunningIsRecorded'
    BY <2>1 DEF IInv, RunningIsRecorded
  <2>. QED BY <2>2, <2>3, <2>4 DEF IInv
<1>11. ASSUME NEW l \in Runtime, Crash(l) PROVE IInv'
  <2>1. /\ UNCHANGED <<key, home, disk, mem, child, doubt>>
        /\ ledger' = [ledger EXCEPT ![l] = "dead"]
        /\ lock' = IF lock = l THEN NoRuntime ELSE lock
        /\ owner' = [j \in Job |-> IF home[j] = l THEN "lost" ELSE owner[j]]
    BY <1>11 DEF Crash, Unlock, order
  <2>2. PICK launched \in SUBSET Starting(l) : procs' = procs \cup launched
    BY <1>11 DEF Crash
  <2>3. \A j \in launched : home[j] = l /\ owner[j] = "starting" /\ disk[j] = "occupied"
    BY <2>2 DEF Starting, IInv, OwnerInv
  <2>4. LockInv'
    BY <2>1, LedgerAssumption DEF IInv, LockInv, MemoryIsDisk, TypeOK
  <2>5. OwnerInv'
    BY <2>1, <2>2, <2>3 DEF IInv, OwnerInv, TypeOK, Uncertain
  <2>6. RunningIsRecorded'
    BY <2>1, <2>2, <2>3 DEF IInv, RunningIsRecorded
  <2>. QED BY <2>4, <2>5, <2>6 DEF IInv
<1>12. CASE UNCHANGED vars
  BY <1>12 DEF vars, order, IInv, LockInv, MemoryIsDisk, OwnerInv, Uncertain, RunningIsRecorded
<1>. QED
  BY <1>1, <1>2, <1>3, <1>4, <1>5, <1>6, <1>7, <1>8, <1>9, <1>10, <1>11, <1>12
  DEF Next, JobStep, Exhausted

-----------------------------------------------------------------------------
(* The theorems that follow from the inductive invariant. *)
THEOREM InvariantHolds == Spec => []IInv
  BY InvInit, InvStep, PTL DEF Spec

(* No process runs that jobs.json does not account for, whatever crashes,
   failed writes and restarts came before. *)
THEOREM RunningRecorded == Spec => []RunningIsRecorded
<1>1. IInv => RunningIsRecorded
  BY DEF IInv
<1>. QED BY <1>1, InvariantHolds, PTL

(* Two Ledgers that can write never exist at once, and the one that can knows
   the file. *)
THEOREM MemoryCurrent == Spec => []MemoryIsDisk
<1>1. IInv => MemoryIsDisk
  BY DEF IInv, LockInv
<1>. QED BY <1>1, InvariantHolds, PTL

(* No process starts but under its own Runtime's file lock and record. *)
THEOREM LaunchesUnderLock == Spec => LaunchUnderLock
<1>. DEFINE A == \A j \in procs' \ procs : lock = home[j] /\ disk[j] = "occupied"
<1>1. IInv /\ [Next]_vars => [A]_vars
  <2> SUFFICES ASSUME IInv, [Next]_vars, NEW i \in procs' \ procs
               PROVE  lock = home[i] /\ disk[i] = "occupied"
    OBVIOUS
  <2>1. i \in Job
    <3>. TypeOK'
      BY TypeStep DEF IInv
    <3>. QED BY DEF TypeOK
  <2>2. CASE \E j \in Job : StartReturns(j)
    BY <2>2, <2>1 DEF StartReturns, IInv, OwnerInv
  <2>3. CASE \E l \in Runtime : Crash(l)
    BY <2>3, <2>1 DEF Crash, Starting, IInv, OwnerInv
  <2>4. procs' \subseteq procs \/ (\E j \in Job : StartReturns(j)) \/ (\E l \in Runtime : Crash(l))
    <3>. USE DEF order
    <3>1. ASSUME NEW j \in Job, Reserve(j) PROVE procs' = procs
      BY <3>1 DEF Reserve
    <3>2. ASSUME NEW j \in Job, BeginStart(j) PROVE procs' = procs
      BY <3>2 DEF BeginStart
    <3>3. ASSUME NEW j \in Job, StartRefused(j) \/ ChildDone(j) \/ OrphanEnds(j) PROVE procs' \subseteq procs
      BY <3>3 DEF StartRefused, ChildDone, OrphanEnds
    <3>4. ASSUME NEW j \in Job, Finish(j) PROVE procs' = procs
      BY <3>4 DEF Finish
    <3>5. ASSUME NEW l \in Runtime, Open(l) \/ RequestClose(l) \/ Close(l) PROVE procs' = procs
      BY <3>5 DEF Open, RequestClose, Close
    <3>6. CASE UNCHANGED vars
      BY <3>6 DEF vars
    <3>. QED BY <3>1, <3>2, <3>3, <3>4, <3>5, <3>6 DEF Next, JobStep, Exhausted
  <2>. QED BY <2>2, <2>3, <2>4
<1>. QED BY <1>1, InvariantHolds, PTL DEF Spec, LaunchUnderLock

-----------------------------------------------------------------------------
(* How one step changes the file. *)

(* Every step but a reservation and a recovery leaves each record, adds what is
   known of a job that has one, or deletes one whose Owner holds no process. *)
LEMMA DiskStep ==
  ASSUME IInv, [Next]_vars
  PROVE  \/ UNCHANGED disk
         \/ \E j \in Job : /\ disk[j] = "none" /\ Room(disk, j) /\ owner[j] = "none"
                           /\ disk' = [disk EXCEPT ![j] = "reserved"] /\ UNCHANGED procs
         \/ \E j \in Job : /\ disk[j] \in {"reserved", "occupied"} /\ owner[j] = "open"
                           /\ \/ \E s \in {"occupied", "uncertain"} : disk' = [disk EXCEPT ![j] = s]
                              \/ j \notin procs /\ disk' = [disk EXCEPT ![j] = "none"]
                           /\ UNCHANGED procs
         \/ disk' = Recover(disk) /\ UNCHANGED procs
<1>. DEFINE Goal ==
         \/ UNCHANGED disk
         \/ \E j \in Job : /\ disk[j] = "none" /\ Room(disk, j) /\ owner[j] = "none"
                           /\ disk' = [disk EXCEPT ![j] = "reserved"] /\ UNCHANGED procs
         \/ \E j \in Job : /\ disk[j] \in {"reserved", "occupied"} /\ owner[j] = "open"
                           /\ \/ \E s \in {"occupied", "uncertain"} : disk' = [disk EXCEPT ![j] = s]
                              \/ j \notin procs /\ disk' = [disk EXCEPT ![j] = "none"]
                           /\ UNCHANGED procs
         \/ disk' = Recover(disk) /\ UNCHANGED procs
<1>. USE DEF order
<1>0. TypeOK /\ \A l \in Runtime : ledger[l] = "open" => mem[l] = disk
  BY DEF IInv, LockInv, MemoryIsDisk
<1>1. ASSUME NEW j \in Job, Reserve(j) PROVE Goal
  <2>1. home[j] \in Runtime /\ mem[home[j]] = disk
    BY <1>0, <1>1 DEF Reserve, TypeOK
  <2>2. owner[j] = "none" /\ Room(disk, j) /\ UNCHANGED procs
    BY <1>1, <2>1 DEF Reserve
  <2>3. disk' \in {disk, [disk EXCEPT ![j] = "reserved"]}
    BY <1>1, <2>1 DEF Reserve, Saved, SaveFails
  <2>4. disk[j] = "none"
    BY <2>2 DEF IInv, OwnerInv
  <2>. QED BY <2>2, <2>3, <2>4
<1>2. ASSUME NEW j \in Job, BeginStart(j) PROVE Goal
  <2>1. CASE UNCHANGED disk
    BY <2>1
  <2>2. CASE ledger[home[j]] = "open" /\ PrepareStart(j)
    <3>1. home[j] \in Runtime /\ mem[home[j]] = disk
      BY <1>0, <2>2 DEF TypeOK
    <3>2. \/ UNCHANGED disk
          \/ disk[j] = "reserved" /\ disk' \in {disk, [disk EXCEPT ![j] = "occupied"]}
      BY <2>2, <3>1 DEF PrepareStart, Saved, SaveFails
    <3>3. owner[j] = "open" /\ UNCHANGED procs
      BY <1>2 DEF BeginStart
    <3>. QED BY <3>2, <3>3
  <2>. QED BY <1>2, <2>1, <2>2 DEF BeginStart
<1>3. ASSUME NEW j \in Job, StartRefused(j) \/ StartReturns(j) \/ ChildDone(j) \/ OrphanEnds(j) PROVE Goal
  BY <1>3 DEF StartRefused, StartReturns, ChildDone, OrphanEnds
<1>4. ASSUME NEW j \in Job, Finish(j) PROVE Goal
  <2>1. CASE UNCHANGED disk
    BY <2>1
  <2>2. CASE ledger[home[j]] = "open" /\ mem[home[j]][j] # "none" /\ ~ UNCHANGED disk
    <3>1. home[j] \in Runtime /\ mem[home[j]] = disk
      BY <1>0, <2>2 DEF TypeOK
    <3>2. disk' = [disk EXCEPT ![j] = IF Uncertain(j) THEN "uncertain" ELSE "none"]
      BY <1>4, <2>2, <3>1 DEF Finish, Saved, SaveFails
    <3>3. owner[j] = "open" /\ child[j] # "running" /\ UNCHANGED procs
      BY <1>4 DEF Finish
    <3>4. disk[j] \in {"reserved", "occupied"}
      BY <1>0, <2>2, <3>1, <3>3 DEF IInv, OwnerInv, TypeOK, Jobs, State
    <3>5. ~ Uncertain(j) => j \notin procs
      BY <3>3 DEF IInv, OwnerInv
    <3>. QED BY <3>2, <3>3, <3>4, <3>5
  <2>. QED BY <1>4, <2>1, <2>2 DEF Finish
<1>5. ASSUME NEW l \in Runtime, Open(l) PROVE Goal
  BY <1>5 DEF Open, SaveFails
<1>6. ASSUME NEW l \in Runtime, RequestClose(l) \/ Close(l) \/ Crash(l) PROVE Goal
  BY <1>6 DEF RequestClose, Close, Crash
<1>7. CASE UNCHANGED vars
  BY <1>7 DEF vars
<1>. QED BY <1>1, <1>2, <1>3, <1>4, <1>5, <1>6, <1>7 DEF Next, JobStep, Exhausted

(* Doubt about running processes never turns into free capacity. *)
THEOREM UncertainForGood == Spec => UncertainStays
<1>. DEFINE A == \A j \in Job : disk[j] = "uncertain" => disk'[j] = "uncertain"
<1>1. IInv /\ [Next]_vars => [A]_vars
  <2> SUFFICES ASSUME IInv, [Next]_vars, NEW i \in Job, disk[i] = "uncertain"
               PROVE  disk'[i] = "uncertain"
    OBVIOUS
  <2>1. disk \in [Job -> State]
    BY DEF IInv, TypeOK, Jobs
  <2>. QED BY <2>1, DiskStep DEF Recover
<1>. QED BY <1>1, InvariantHolds, PTL DEF Spec, UncertainStays

-----------------------------------------------------------------------------
(* Capacity and refinement. *)

(* A job for which reserve finds room fits into both limits. *)
LEMMA RoomFits ==
  ASSUME NEW j \in Job, disk \in Jobs, disk[j] = "none", Room(disk, j), WithinCapacity
  PROVE  /\ Cardinality(Recorded(disk) \cup {j}) <= Capacity
         /\ Cardinality((Recorded(disk) \cup {j}) \cap HandoffJob) <= HandoffCapacity
<1>. DEFINE R == Recorded(disk)
<1>1. IsFiniteSet(R) /\ IsFiniteSet(R \cap HandoffJob) /\ j \notin R
  BY FS_Subset, LedgerAssumption DEF Recorded
<1>2. Cardinality(R) \in Nat /\ Cardinality(R \cap HandoffJob) \in Nat
  BY <1>1, FS_CardinalityType
<1>3. Cardinality(R \cup {j}) = Cardinality(R) + 1
  BY <1>1, FS_AddElement
<1>. /\ Cardinality(R) < Capacity
     /\ j \in HandoffJob => Cardinality(R \cap HandoffJob) < HandoffCapacity
     /\ Cardinality(R \cap HandoffJob) <= HandoffCapacity
  BY DEF Room, WithinCapacity
<1>. HIDE DEF R
<1>. SUFFICES Cardinality(R \cup {j}) <= Capacity /\ Cardinality((R \cup {j}) \cap HandoffJob) <= HandoffCapacity
  BY DEF R
<1>4. CASE j \in HandoffJob
  <2>1. (R \cup {j}) \cap HandoffJob = (R \cap HandoffJob) \cup {j}
    BY <1>4
  <2>2. Cardinality((R \cap HandoffJob) \cup {j}) = Cardinality(R \cap HandoffJob) + 1
    BY <1>1, FS_AddElement
  <2>. QED BY <1>2, <1>3, <1>4, <2>1, <2>2, LedgerAssumption
<1>5. CASE j \notin HandoffJob
  <2>1. (R \cup {j}) \cap HandoffJob = R \cap HandoffJob
    BY <1>5
  <2>. QED BY <1>2, <1>3, <2>1, LedgerAssumption
<1>. QED BY <1>4, <1>5

(* A step either adds to the recorded jobs one for which there was room, or
   records no other job than before. *)
LEMMA RecordedStep ==
  ASSUME IInv, [Next]_vars
  PROVE  \/ \E j \in Job : /\ disk[j] = "none" /\ Room(disk, j) /\ UNCHANGED procs
                           /\ Recorded(disk') = Recorded(disk) \cup {j}
         \/ Recorded(disk') \subseteq Recorded(disk)
<1>1. disk \in [Job -> State]
  BY DEF IInv, TypeOK, Jobs
<1>2. CASE UNCHANGED disk
  BY <1>2
<1>3. ASSUME NEW j \in Job, disk[j] = "none", Room(disk, j), disk' = [disk EXCEPT ![j] = "reserved"], UNCHANGED procs
      PROVE  Recorded(disk') = Recorded(disk) \cup {j}
  BY <1>1, <1>3 DEF Recorded
<1>4. ASSUME NEW j \in Job, disk[j] \in {"reserved", "occupied"},
             NEW s \in {"occupied", "uncertain", "none"}, disk' = [disk EXCEPT ![j] = s]
      PROVE  Recorded(disk') \subseteq Recorded(disk)
  BY <1>1, <1>4 DEF Recorded
<1>5. CASE disk' = Recover(disk)
  BY <1>1, <1>5 DEF Recorded, Recover
<1>. QED BY <1>2, <1>3, <1>4, <1>5, DiskStep

LEMMA CapacityStep == IInv /\ WithinCapacity /\ [Next]_vars => WithinCapacity'
<1> SUFFICES ASSUME IInv, WithinCapacity, [Next]_vars PROVE WithinCapacity'
  OBVIOUS
<1>1. disk \in Jobs
  BY DEF IInv, TypeOK
<1>2. ASSUME NEW j \in Job, disk[j] = "none", Room(disk, j), Recorded(disk') = Recorded(disk) \cup {j}
      PROVE  WithinCapacity'
  BY <1>1, <1>2, RoomFits DEF WithinCapacity
<1>3. CASE Recorded(disk') \subseteq Recorded(disk)
  <2>1. IsFiniteSet(Recorded(disk)) /\ IsFiniteSet(Recorded(disk) \cap HandoffJob)
    BY FS_Subset, LedgerAssumption DEF Recorded
  <2>2. /\ Cardinality(Recorded(disk')) <= Cardinality(Recorded(disk))
        /\ Cardinality(Recorded(disk') \cap HandoffJob) <= Cardinality(Recorded(disk) \cap HandoffJob)
    BY <1>3, <2>1, FS_Subset
  <2>3. /\ Cardinality(Recorded(disk)) \in Nat /\ Cardinality(Recorded(disk) \cap HandoffJob) \in Nat
        /\ Cardinality(Recorded(disk')) \in Nat /\ Cardinality(Recorded(disk') \cap HandoffJob) \in Nat
    BY <1>3, <2>1, FS_Subset, FS_CardinalityType
  <2>. QED BY <2>2, <2>3, LedgerAssumption DEF WithinCapacity
<1>. QED BY <1>2, <1>3, RecordedStep

(* Occupied, lost and uncertain jobs together stay within both limits. *)
THEOREM CapacityHeld == Spec => []WithinCapacity
<1>1. Init => WithinCapacity
  <2> SUFFICES ASSUME Init PROVE WithinCapacity
    OBVIOUS
  <2>1. Recorded(disk) = {} /\ Recorded(disk) \cap HandoffJob = {}
    BY DEF Init, Empty, Recorded
  <2>. QED BY <2>1, FS_EmptySet, LedgerAssumption DEF WithinCapacity
<1>. QED BY <1>1, CapacityStep, InvariantHolds, PTL DEF Spec

(* One scope, kind and key never has two records. *)
THEOREM KeyOnce == Spec => []KeyHeldOnce
<1>1. Init => KeyHeldOnce
  BY DEF Init, Empty, Recorded, KeyHeldOnce
<1>2. IInv /\ KeyHeldOnce /\ [Next]_vars => KeyHeldOnce'
  <2> SUFFICES ASSUME IInv, KeyHeldOnce, [Next]_vars PROVE KeyHeldOnce'
    OBVIOUS
  <2>1. UNCHANGED key
    BY DEF Next, vars, order, JobStep, Reserve, BeginStart, StartRefused, StartReturns, ChildDone,
           OrphanEnds, Finish, Open, RequestClose, Close, Crash, Exhausted
  <2>2. CASE Recorded(disk') \subseteq Recorded(disk)
    BY <2>1, <2>2 DEF KeyHeldOnce, SameKey
  <2>3. ASSUME NEW j \in Job, Room(disk, j), Recorded(disk') = Recorded(disk) \cup {j} PROVE KeyHeldOnce'
    BY <2>1, <2>3 DEF KeyHeldOnce, SameKey, Room
  <2>. QED BY <2>2, <2>3, RecordedStep
<1>. QED BY <1>1, <1>2, InvariantHolds, PTL DEF Spec

(* What memory and file say of the jobs fits together in every state. *)
THEOREM RecordsHold == Spec => []RecordsSound
<1>1. TypeOK /\ MemoryIsDisk /\ KeyHeldOnce /\ WithinCapacity => RecordsSound
  BY DEF RecordsSound
<1>. QED BY <1>1, TypeCorrect, MemoryCurrent, KeyOnce, CapacityHeld, PTL

LEMMA SameCardinality == \A S : Slot!Cardinality(S) = Cardinality(S)
  BY DEF Slot!Cardinality, Cardinality

(* The ledger implements bounded slots: jobs run in slots, there are never too
   many of them, and a slot is freed only when nothing runs in it. *)
THEOREM Refinement == Spec => ImplementsSlots
<1>1. Init => Slot!Init
  BY DEF Init, Slot!Init, Recorded, Empty
<1>2. IInv /\ WithinCapacity /\ [Next]_vars => [Slot!Next]_Slot!slots
  <2> SUFFICES ASSUME IInv, WithinCapacity, [Next]_vars PROVE [Slot!Next]_Slot!slots
    OBVIOUS
  <2>. USE DEF Slot!Next, Slot!slots
  <2>1. disk \in Jobs /\ disk \in [Job -> State]
    BY DEF IInv, TypeOK, Jobs
  <2>2. CASE UNCHANGED procs
    <3>1. ASSUME NEW j \in Job, disk[j] = "none", Room(disk, j), Recorded(disk') = Recorded(disk) \cup {j}
          PROVE  Slot!Hold(j)
      BY <2>1, <2>2, <3>1, RoomFits, SameCardinality DEF Slot!Hold, Slot!Within, Recorded
    <3>2. ASSUME Recorded(disk') \subseteq Recorded(disk)
          PROVE  \E S \in SUBSET Recorded(disk) : Slot!Release(S)
      <4>1. \A j \in procs : disk'[j] # "none"
        BY <2>1, DiskStep DEF Recover, IInv, RunningIsRecorded, TypeOK
      <4>2. procs \subseteq Recorded(disk')
        BY <4>1 DEF Recorded, IInv, TypeOK
      <4>. WITNESS Recorded(disk) \ Recorded(disk') \in SUBSET Recorded(disk)
      <4>. QED BY <2>2, <3>2, <4>2 DEF Slot!Release
    <3>. QED BY <3>1, <3>2, RecordedStep
  <2>3. CASE ~ UNCHANGED procs
    <3>1. UNCHANGED disk
      BY <2>3, DiskStep
    <3>2. CASE \E j \in Job : procs' = procs \ {j}
      BY <3>1, <3>2 DEF Slot!Exit
    <3>3. CASE \E S \in SUBSET Job : procs' = procs \cup S
      <4>1. PICK S \in SUBSET Job : procs' = procs \cup S
        BY <3>3
      <4>2. procs' \subseteq Recorded(disk)
        BY <3>1, InvStep DEF IInv, RunningIsRecorded, Recorded, TypeOK
      <4>3. S \subseteq Recorded(disk) /\ Slot!Launch(S)
        BY <3>1, <4>1, <4>2 DEF Slot!Launch
      <4>. QED BY <4>3
    <3>4. (\E j \in Job : procs' = procs \ {j}) \/ (\E S \in SUBSET Job : procs' = procs \cup S)
      BY <2>3 DEF Next, vars, JobStep, Reserve, BeginStart, StartRefused, StartReturns, ChildDone,
             OrphanEnds, Finish, Open, RequestClose, Close, Crash, Starting, Exhausted
    <3>. QED BY <3>2, <3>3, <3>4
  <2>. QED BY <2>2, <2>3
<1>. QED BY <1>1, <1>2, InvariantHolds, CapacityHeld, PTL DEF Spec, ImplementsSlots, Slot!Slots

=============================================================================
