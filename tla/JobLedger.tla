------------------------------ MODULE JobLedger ------------------------------
(***************************************************************************)
(* Durable local resource occupancy (internal/job): every job that may     *)
(* start a process is recorded in jobs.json before it does, and its record *)
(* is removed only when the cleanup of its processes is confirmed, however *)
(* often the Runtime crashes, restarts or fails to write in between.       *)
(*                                                                         *)
(* A Runtime is one process with one Ledger; several may run in turn, or   *)
(* at the same time, on the same directory.  A job is a random id together *)
(* with the Owner that reserve returns for it.  Ledger.mu makes every      *)
(* method but Owner.Start one step: Start is split where the OS starts the *)
(* process, which happens outside Ledger.mu, under launch.RLock.           *)
(*                                                                         *)
(* An operator defined just before another one, with the same parameters   *)
(* and a longer name, is a mistake the code could have made; no action     *)
(* uses it.                                                                *)
(***************************************************************************)
EXTENDS Naturals, FiniteSets

CONSTANTS
  Runtime,          \* Runtime processes, each started once
  Job,              \* random job ids, each drawn once
  HandoffJob,       \* those drawn for a job of kind handoff
  Key,              \* what a job is for: its scope and exec_id or session
  NoRuntime,        \* the OS lock is free
  Capacity, HandoffCapacity

ASSUME LedgerAssumption ==
  /\ IsFiniteSet(Job) /\ HandoffJob \subseteq Job /\ NoRuntime \notin Runtime
  /\ Capacity \in Nat /\ HandoffCapacity \in Nat

VARIABLES
  key,              \* the key each job is reserved for
  home,             \* the Runtime whose Ledger reserves it
  disk,             \* jobs.json: the state of every job, "none" if absent
  lock,             \* jobs.lock: the Runtime that holds the OS lock
  ledger,           \* "new", "open", "failed" (Ledger.err), "closed", or the process is "dead"
  mem,              \* Ledger.jobs
  closing,          \* Runtimes that wait in Close for launch.Lock
  owner,            \* Owner: "none" yet, "open", "starting" a process, "closed", or "lost" with its Runtime
  child,            \* Owner.child: "none", "running", or done with "clean" or "unclean" processes
  doubt,            \* jobs whose Owner is uncertain
  procs             \* jobs of which some process may be running

order == <<key, home>>
vars == <<order, disk, lock, ledger, mem, closing, owner, child, doubt, procs>>

State == {"none", "reserved", "occupied", "uncertain"}
Jobs == [Job -> State]
Empty == [j \in Job |-> "none"]
Recorded(jobs) == {j \in Job : jobs[j] # "none"}
SameKey(i, j) == key[i] = key[j] /\ (i \in HandoffJob <=> j \in HandoffJob)

TypeOK ==
  /\ key \in [Job -> Key] /\ home \in [Job -> Runtime]
  /\ disk \in Jobs
  /\ lock \in Runtime \cup {NoRuntime}
  /\ ledger \in [Runtime -> {"new", "open", "failed", "closed", "dead"}]
  /\ mem \in [Runtime -> Jobs]
  /\ closing \subseteq Runtime
  /\ owner \in [Job -> {"none", "open", "starting", "closed", "lost"}]
  /\ child \in [Job -> {"none", "running", "clean", "unclean"}]
  /\ doubt \subseteq Job /\ procs \subseteq Job

Init ==
  /\ key \in [Job -> Key] /\ home \in [Job -> Runtime]
  /\ disk = Empty
  /\ lock = NoRuntime
  /\ ledger = [l \in Runtime |-> "new"]
  /\ mem = [l \in Runtime |-> Empty]
  /\ closing = {}
  /\ owner = [j \in Job |-> "none"]
  /\ child = [j \in Job |-> "none"]
  /\ doubt = {} /\ procs = {}

-----------------------------------------------------------------------------
(* saveLocked replaces jobs.json.  After an error the file may be the old or
   the new one, the Ledger keeps what it had and refuses all further work. *)
Saved(l, jobs) ==
  /\ disk' = jobs
  /\ mem' = [mem EXCEPT ![l] = jobs]
  /\ UNCHANGED ledger
SaveFails(l, jobs) ==
  /\ disk' \in {disk, jobs}
  /\ ledger' = [ledger EXCEPT ![l] = "failed"]
  /\ UNCHANGED mem

RecoverForgetsAll(jobs) == [j \in Job |-> "none"]
RecoverForgetsUncertain(jobs) ==
  [j \in Job |-> IF jobs[j] = "occupied" THEN "uncertain" ELSE "none"]

(* A reservation proves that its lost owner started nothing; of any other job
   the end of the Runtime proves nothing. *)
Recover(jobs) ==
  [j \in Job |-> IF jobs[j] \in {"none", "reserved"} THEN "none" ELSE "uncertain"]


(* initializeLocked, which the first reserve or Snapshot of a Ledger runs:
   take the OS lock, load jobs.json and write back what recovery makes of it.
   An error of any of these is final for this Ledger. *)
Open(l) ==
  /\ ledger[l] = "new"
  /\ \/ /\ lock = NoRuntime /\ lock' = l
        /\ disk' = Recover(disk)
        /\ mem' = [mem EXCEPT ![l] = Recover(disk)]
        /\ ledger' = [ledger EXCEPT ![l] = "open"]
     \/ /\ lock = NoRuntime /\ lock' = l
        /\ SaveFails(l, Recover(disk))
     \/ /\ UNCHANGED <<lock, disk, mem>>
        /\ ledger' = [ledger EXCEPT ![l] = "failed"]
  /\ UNCHANGED <<order, closing, owner, child, doubt, procs>>

RoomAnyKey(jobs, j) ==
  /\ Cardinality(Recorded(jobs)) < Capacity
  /\ j \in HandoffJob => Cardinality(Recorded(jobs) \cap HandoffJob) < HandoffCapacity

(* reserve: no record of the same scope, kind and key, and capacity left. *)
Room(jobs, j) ==
  /\ \A i \in Recorded(jobs) : ~ SameKey(i, j)
  /\ Cardinality(Recorded(jobs)) < Capacity
  /\ j \in HandoffJob => Cardinality(Recorded(jobs) \cap HandoffJob) < HandoffCapacity

Reserve(j) ==
  LET l == home[j]
      jobs == [mem[l] EXCEPT ![j] = "reserved"]
  IN  /\ owner[j] = "none" /\ ledger[l] = "open" /\ Room(mem[l], j)
      /\ \/ /\ Saved(l, jobs)
            /\ owner' = [owner EXCEPT ![j] = "open"]
         \/ /\ SaveFails(l, jobs)
            \* No Owner is returned for an id the file may hold.
            /\ owner' = [owner EXCEPT ![j] = "closed"]
      /\ UNCHANGED <<order, lock, closing, child, doubt, procs>>

PrepareStartInMemory(j) ==
  LET l == home[j]
  IN  /\ mem' = [mem EXCEPT ![l][j] = "occupied"]
      /\ owner' = [owner EXCEPT ![j] = "starting"]
      /\ UNCHANGED <<disk, ledger>>

(* prepareStart: occupied is on disk before the OS starts a process; a failed
   or ambiguous write never permits a launch. *)
PrepareStart(j) ==
  LET l == home[j]
      jobs == [mem[l] EXCEPT ![j] = "occupied"]
  IN  \/ /\ mem[l][j] = "occupied"
         /\ owner' = [owner EXCEPT ![j] = "starting"]
         /\ UNCHANGED <<disk, ledger, mem>>
      \/ /\ mem[l][j] = "reserved"
         /\ \/ Saved(l, jobs) /\ owner' = [owner EXCEPT ![j] = "starting"]
            \/ SaveFails(l, jobs) /\ UNCHANGED owner

(* Owner.Start up to the launch of the process.  beginStart takes
   launch.RLock, which waits behind a Close that waits. *)
BeginStart(j) ==
  LET l == home[j]
  IN  /\ owner[j] = "open" /\ j \notin doubt /\ child[j] \in {"none", "clean"}
      /\ l \notin closing
      /\ child' = [child EXCEPT ![j] = "none"]
      /\ IF ledger[l] = "open"
         THEN PrepareStart(j)
         ELSE UNCHANGED <<disk, ledger, mem, owner>>
      /\ UNCHANGED <<order, lock, closing, doubt, procs>>

(* Owner.Start after a process whose cleanup failed: never again. *)
StartRefused(j) ==
  /\ owner[j] = "open" /\ child[j] = "unclean"
  /\ doubt' = doubt \cup {j}
  /\ UNCHANGED <<order, disk, lock, ledger, mem, closing, owner, child, procs>>

(* process.Start returns and launch.RLock is released: with a running child,
   with an error and no process, or with an error that leaves a process. *)
StartReturns(j) ==
  /\ owner[j] = "starting"
  /\ owner' = [owner EXCEPT ![j] = "open"]
  /\ \/ /\ child' = [child EXCEPT ![j] = "running"]
        /\ procs' = procs \cup {j} /\ UNCHANGED doubt
     \/ UNCHANGED <<child, doubt, procs>>
     \/ /\ doubt' = doubt \cup {j}
        /\ procs' = procs \cup {j} /\ UNCHANGED child
  /\ UNCHANGED <<order, disk, lock, ledger, mem, closing>>

(* The root process exits and its group is reclaimed, or is not confirmed to
   be (process.ErrCleanup). *)
ChildDone(j) ==
  /\ child[j] = "running" /\ owner[j] # "lost"
  /\ \/ child' = [child EXCEPT ![j] = "clean"] /\ procs' = procs \ {j}
     \/ child' = [child EXCEPT ![j] = "unclean"] /\ UNCHANGED procs
  /\ UNCHANGED <<order, disk, lock, ledger, mem, closing, owner, doubt>>

(* A process that nobody supervises any more ends unnoticed. *)
OrphanEnds(j) ==
  /\ j \in procs /\ (child[j] # "running" \/ owner[j] = "lost")
  /\ procs' = procs \ {j}
  /\ UNCHANGED <<order, disk, lock, ledger, mem, closing, owner, child, doubt>>

Uncertain(j) == j \in doubt \/ child[j] = "unclean"

(* Owner.Finish, once its child is done, and Ledger.finish. *)
Finish(j) ==
  LET l == home[j]
      jobs == [mem[l] EXCEPT ![j] = IF Uncertain(j) THEN "uncertain" ELSE "none"]
  IN  /\ owner[j] = "open" /\ child[j] # "running"
      /\ owner' = [owner EXCEPT ![j] = "closed"]
      /\ doubt' = IF Uncertain(j) THEN doubt \cup {j} ELSE doubt
      /\ IF ledger[l] = "open" /\ mem[l][j] # "none"
         THEN Saved(l, jobs) \/ SaveFails(l, jobs)
         ELSE UNCHANGED <<disk, ledger, mem>>
      /\ UNCHANGED <<order, lock, closing, child, procs>>

RequestClose(l) ==
  /\ ledger[l] \notin {"closed", "dead"} /\ l \notin closing
  /\ closing' = closing \cup {l}
  /\ UNCHANGED <<order, disk, lock, ledger, mem, owner, child, doubt, procs>>

Starting(l) == {j \in Job : home[j] = l /\ owner[j] = "starting"}
Unlock(l) == lock' = IF lock = l THEN NoRuntime ELSE lock

CloseDuringStart(l) ==
  /\ l \in closing
  /\ closing' = closing \ {l} /\ Unlock(l)
  /\ ledger' = [ledger EXCEPT ![l] = "closed"]
  /\ UNCHANGED <<order, disk, mem, owner, child, doubt, procs>>
CloseAfterOwners(l) ==
  /\ l \in closing /\ \A j \in Job : home[j] = l => owner[j] \in {"none", "closed"}
  /\ closing' = closing \ {l} /\ Unlock(l)
  /\ ledger' = [ledger EXCEPT ![l] = "closed"]
  /\ UNCHANGED <<order, disk, mem, owner, child, doubt, procs>>

(* Close waits for every OS startup in progress and then hands the file lock
   over; it does not wait for running processes. *)
Close(l) ==
  /\ l \in closing /\ Starting(l) = {}
  /\ closing' = closing \ {l} /\ Unlock(l)
  /\ ledger' = [ledger EXCEPT ![l] = "closed"]
  /\ UNCHANGED <<order, disk, mem, owner, child, doubt, procs>>

(* The Runtime process ends, killed or of itself: the OS frees its lock and
   its Owners are gone.  Its processes, one being started included, may live on. *)
Crash(l) ==
  /\ ledger[l] # "dead"
  /\ ledger' = [ledger EXCEPT ![l] = "dead"]
  /\ Unlock(l) /\ closing' = closing \ {l}
  /\ owner' = [j \in Job |-> IF home[j] = l THEN "lost" ELSE owner[j]]
  /\ \E launched \in SUBSET Starting(l) : procs' = procs \cup launched
  /\ UNCHANGED <<order, disk, mem, child, doubt>>

(* Every Runtime of the instance has run. *)
Exhausted == (\A l \in Runtime : ledger[l] = "dead") /\ procs = {} /\ UNCHANGED vars

JobStep(j) ==
  \/ Reserve(j) \/ BeginStart(j) \/ StartRefused(j) \/ StartReturns(j)
  \/ ChildDone(j) \/ OrphanEnds(j) \/ Finish(j)

Next ==
  \/ \E j \in Job : JobStep(j)
  \/ \E l \in Runtime : Open(l) \/ RequestClose(l) \/ Close(l) \/ Crash(l)
  \/ Exhausted

Spec == Init /\ [][Next]_vars

(* The OS answers a process launch, and a goroutine that waits for a free
   lock gets it: a Go RWMutex lets no new reader pass a waiting writer. *)
Fairness ==
  /\ \A j \in Job : WF_vars(StartReturns(j))
  /\ \A l \in Runtime : WF_vars(Close(l))

-----------------------------------------------------------------------------
(* Properties. *)

(* Wherever a process may be running, jobs.json says occupied or uncertain:
   "Start must persist occupied before it can launch any child", and no crash,
   failed write or restart loses the record while the process lives. *)
RunningIsRecorded == \A j \in procs : disk[j] \in {"occupied", "uncertain"}

(* The jobs on disk, lost and uncertain ones included, stay within the two
   limits, in whatever order Runtimes come and go. *)
WithinCapacity ==
  /\ Cardinality(Recorded(disk)) <= Capacity
  /\ Cardinality(Recorded(disk) \cap HandoffJob) <= HandoffCapacity

(* A Ledger that may still write holds the OS lock and knows what the file
   says: two Runtimes never publish stale state over each other. *)
MemoryIsDisk == \A l \in Runtime : ledger[l] = "open" => lock = l /\ mem[l] = disk

(* One scope, kind and key never has two records, even when the first one is
   the debt of a Runtime that is gone: a retried request cannot run beside
   what may still be running of it. *)
KeyHeldOnce ==
  \A i, j \in Recorded(disk) : SameKey(i, j) => i = j

(* What the ledger keeps in memory and on disk fit together: the file is the
   memory of the one Ledger that may write (MemoryIsDisk), no key is held by two
   records (KeyHeldOnce), and the limits hold (WithinCapacity). *)
RecordsSound == TypeOK /\ MemoryIsDisk /\ KeyHeldOnce /\ WithinCapacity

(* A process is launched only while its Runtime holds the file lock: after
   Close has handed the lock over, or a crash has, nothing starts any more
   (ledger.go: "Close must not hand off the file lock during OS startup"). *)
LaunchUnderLock ==
  [][\A j \in procs' \ procs : lock = home[j] /\ disk[j] = "occupied"]_vars

(* An uncertain record stays: neither its own Owner nor a restart turns doubt
   about running processes into free capacity. *)
UncertainStays == [][\A j \in Job : disk[j] = "uncertain" => disk'[j] = "uncertain"]_vars

(* Close returns whatever the processes do: it waits for launches only. *)
CloseReturns == \A l \in Runtime : l \in closing ~> l \notin closing

-----------------------------------------------------------------------------
(* The ledger implements bounded slots: the records on disk are the slots. *)
Slot == INSTANCE ResourceSlots WITH held <- Recorded(disk), live <- procs
ImplementsSlots == Slot!Slots

=============================================================================
