----------------------------- MODULE ArchiveJobs -----------------------------
(***************************************************************************)
(* Staged ZIP archives (jobs.py) and their HTTP routes (http.py 334-435).  *)
(*                                                                         *)
(* One asyncio event loop runs every request handler and one packing task  *)
(* per job; only the chunk writes of a packing task run in threads.  An    *)
(* action is therefore the code between two awaits of a handler or task,   *)
(* or one iteration of the loop in SplitWriter.write on its thread.        *)
(*                                                                         *)
(* Abstracted: an archive is Chunks writes of ChunkUnits units followed by *)
(* Overhead units of ZIP structure; directories, names and the ZIP format  *)
(* are left out.  The walk of the selection (plan) is one suspension that  *)
(* may succeed or fail.  Failures to write job.json are not modelled.      *)
(***************************************************************************)
EXTENDS Integers, FiniteSets, Functions

CONSTANTS
  Jobs,         \* job ids; secrets.token_hex never repeats one
  Owners,       \* principals
  Devices,      \* filesystems that hold staging stores
  Owner,        \* Owner[j]: who asks for job j
  Device,       \* Device[j]: filesystem of the staging store job j names
  Disk,         \* Disk[d]: units of space on filesystem d
  PartLimit,    \* PartLimit[j]: units per part, 0 for a single ZIP
  Chunks,       \* chunks a source stream yields
  ChunkUnits,   \* units per chunk
  Overhead,     \* units of ZIP structure written when the archive closes
  MaxUnpurged,  \* 32 in the code
  MaxPurges,    \* bound: purge requests waiting for one job
  MaxStarts     \* bound: starts of the service after the first

Needed == Chunks * ChunkUnits + Overhead

ASSUME ArchiveAssumption ==
  /\ IsFiniteSet(Jobs)   \* tokens of 32 hex digits
  /\ Owner \in [Jobs -> Owners]
  /\ Device \in [Jobs -> Devices]
  /\ Disk \in [Devices -> Nat]
  /\ PartLimit \in [Jobs -> Nat]
  /\ Chunks \in Nat \ {0}
  /\ ChunkUnits \in Nat \ {0}
  /\ Overhead \in Nat
  /\ Needed \in Nat
  /\ MaxUnpurged \in Nat
  /\ MaxPurges \in Nat
  /\ MaxStarts \in Nat

VARIABLES
  process,      \* "up", "stopping" (lifespan shutdown) or "down"
  rec,          \* rec[j]: entry of ArchiveJobs.jobs, NoRecord when absent
  saved,        \* saved[j]: job.json of j, NoRecord when absent
  used,         \* ids already drawn
  files,        \* files[j][i]: size of part i in the job's directory, 0: no file
  planning,     \* jobs whose create call awaits plan
  task,         \* task[j]: where the packing task of j is
  cancelled,    \* jobs whose task has a cancellation not yet delivered
  gate,         \* gate[j]: the asyncio.Event of j is set
  position,     \* SplitWriter.position of j
  chunk,        \* chunk[j]: units its thread still has to write, 0: no thread
  handle,       \* handle[j]: SplitWriter.handle is "none", "open" or "closed"
  packed,       \* packed[j]: chunks the event loop has accounted for
  reserved,     \* reserved[j]: ArchiveJobs.reserved, Unreserved when absent
  purging,      \* purging[j]: purge calls awaiting the cancelled task of j
  serving,      \* <<j, i>>: part requests past their check, awaiting allowed()
  given,        \* history: <<j, i, size>> of parts handed to a client during packing
  cut,          \* history: jobs whose purge a crash interrupted
  starts        \* history: starts of the service after the first

archive  == <<rec, saved, used>>
writers  == <<position, chunk, handle, packed>>
calls    == <<planning, purging, serving>>
history  == <<given, cut, starts>>
vars == <<process, archive, files, task, cancelled, gate, writers, reserved, calls, history>>

-----------------------------------------------------------------------------
(* Records, parts and capacity *)

Record     == [stage : {"absent", "packing", "ready", "failed", "purged"}, staged : Nat]
NoRecord   == [stage |-> "absent", staged |-> 0]
Unreserved == -1

(* Part numbers of a whole archive: one for a single ZIP. *)
Parts(j) == IF PartLimit[j] = 0 THEN {1} ELSE 1 .. ((Needed + PartLimit[j] - 1) \div PartLimit[j])

Clip(n, lo, hi) == IF n < lo THEN lo ELSE IF n > hi THEN hi ELSE n

(* Size of part i once the writer of j has written n units. *)
PartSize(j, n, i) ==
  IF PartLimit[j] = 0 THEN n ELSE Clip(n - (i - 1) * PartLimit[j], 0, PartLimit[j])

(* Is the part being written at its limit, so that the next unit opens a new one? *)
AtBoundary(j) == PartLimit[j] # 0 /\ position[j] % PartLimit[j] = 0

(* The directory of j after the writer has appended n more units. *)
Appended(j, n) ==
  [i \in Parts(j) |-> files[j][i] + PartSize(j, position[j] + n, i) - PartSize(j, position[j], i)]

Empty(j) == [i \in Parts(j) |-> 0]

Staged(j) == SumFunctionOnSet(files[j], Parts(j))

OnDevice(d) == {j \in Jobs : Device[j] = d}
StagedOn(d) == SumFunctionOnSet([j \in Jobs |-> Staged(j)], OnDevice(d))

(* ArchiveJobs.capacity: stores on one filesystem share its reservations. *)
Reservations(d) == SumFunctionOnSet(reserved, {j \in OnDevice(d) : reserved[j] # Unreserved})
\* Mutant of Free: what other jobs have reserved is not counted.
FreeOnDisk(d) == Disk[d] - StagedOn(d)

Free(d) == Disk[d] - StagedOn(d) - Reservations(d)

Unpurged(o) == {j \in Jobs : Owner[j] = o /\ rec[j].stage \notin {"absent", "purged"}}

Live(j) == task[j] \notin {"none", "done"}

(* jobs.save: the manifest on disk becomes the record in memory. *)
Save(j, r) ==
  /\ rec' = [rec EXCEPT ![j] = r]
  /\ saved' = [saved EXCEPT ![j] = r]

-----------------------------------------------------------------------------
(* Creating a job: POST /api/downloads *)

(* create checks the number of unpurged jobs, then awaits the walk of the
   selection (plan). *)
CreateBegin(j) ==
  /\ process = "up"
  /\ j \notin used \cup planning
  /\ Cardinality(Unpurged(Owner[j])) < MaxUnpurged
  /\ planning' = planning \cup {j}
  /\ UNCHANGED <<process, archive, files, task, cancelled, gate, writers, reserved, purging, serving, history>>

(* The walk or a check of its result fails: nothing is registered. *)
CreateRefuse(j) ==
  /\ j \in planning
  /\ planning' = planning \ {j}
  /\ UNCHANGED <<process, archive, files, task, cancelled, gate, writers, reserved, purging, serving, history>>

(* The rest of create runs without an await: capacity, registration,
   reservation, manifest, gate and packing task. *)
CreateAdmit(j) ==
  /\ j \in planning
  /\ Needed <= Free(Device[j])
  /\ planning' = planning \ {j}
  /\ used' = used \cup {j}
  /\ Save(j, [stage |-> "packing", staged |-> 0])
  /\ reserved' = [reserved EXCEPT ![j] = Needed]
  /\ gate' = [gate EXCEPT ![j] = TRUE]
  /\ task' = [task EXCEPT ![j] = "scheduled"]
  /\ UNCHANGED <<process, files, cancelled, writers, purging, serving, history>>

-----------------------------------------------------------------------------
(* The packing task (ArchiveJobs.pack) and its writer thread *)

Running(j, where) == task[j] = where /\ j \notin cancelled

(* First step of the task, up to the gate, the check or the first read. *)
PackStart(j) ==
  /\ Running(j, "scheduled")
  /\ task' = [task EXCEPT ![j] = "waiting"]
  /\ UNCHANGED <<process, archive, files, cancelled, gate, writers, reserved, calls, history>>

(* A chunk arrived and the gate is open: a thread starts writing it. *)
PackChunk(j) ==
  /\ Running(j, "waiting")
  /\ gate[j]
  /\ packed[j] < Chunks
  /\ task' = [task EXCEPT ![j] = "writing"]
  /\ chunk' = [chunk EXCEPT ![j] = ChunkUnits]
  /\ UNCHANGED <<process, archive, files, cancelled, gate, position, handle, packed, reserved, calls, history>>

(* What one write of the thread may put in the current part. *)
Room(j)  == IF PartLimit[j] = 0 THEN chunk[j] ELSE PartLimit[j] - (position[j] % PartLimit[j])

Piece(j) == IF chunk[j] < Room(j) THEN chunk[j] ELSE Room(j)

(* One iteration of SplitWriter.write on the thread, which survives the
   cancellation of the task that awaits it.  At the limit of a part it opens
   the next one; otherwise a closed handle raises and ends the thread. *)
ThreadWrite(j) ==
  /\ chunk[j] > 0
  /\ IF handle[j] = "closed" /\ ~AtBoundary(j)
     THEN /\ chunk' = [chunk EXCEPT ![j] = 0]
          /\ UNCHANGED <<files, position, handle>>
     ELSE /\ files' = [files EXCEPT ![j] = Appended(j, Piece(j))]
          /\ position' = [position EXCEPT ![j] = @ + Piece(j)]
          /\ chunk' = [chunk EXCEPT ![j] = @ - Piece(j)]
          /\ handle' = [handle EXCEPT ![j] = "open"]
  /\ UNCHANGED <<process, archive, task, cancelled, gate, packed, reserved, calls, history>>

(* The chunk is on disk: progress and the rest of the reservation are
   recorded in memory; the manifest is not saved here. *)
PackWrote(j) ==
  /\ Running(j, "writing")
  /\ chunk[j] = 0
  /\ task' = [task EXCEPT ![j] = "waiting"]
  /\ packed' = [packed EXCEPT ![j] = @ + 1]
  /\ rec' = [rec EXCEPT ![j].staged = position[j]]
  /\ reserved' = [reserved EXCEPT ![j] = Clip(Needed - position[j], 0, Needed)]
  /\ UNCHANGED <<process, saved, used, files, cancelled, gate, position, chunk, handle, calls, history>>

\* Mutant of Settle: the manifest keeps what create or control saved.
SettleUnsaved(j, stage, n) ==
  /\ files' = [files EXCEPT ![j] = Appended(j, n)]
  /\ position' = [position EXCEPT ![j] = @ + n]
  /\ handle' = [handle EXCEPT ![j] = "closed"]
  /\ rec' = [rec EXCEPT ![j] = [stage |-> stage, staged |-> position[j] + n]]
  /\ reserved' = [reserved EXCEPT ![j] = Unreserved]
  /\ task' = [task EXCEPT ![j] = "done"]
  /\ cancelled' = cancelled \ {j}
  /\ UNCHANGED saved

(* The task's way out, without an await: closing the archive writes the last
   n units, then stage, parts, reservation and manifest settle. *)
Settle(j, stage, n) ==
  /\ files' = [files EXCEPT ![j] = Appended(j, n)]
  /\ position' = [position EXCEPT ![j] = @ + n]
  /\ handle' = [handle EXCEPT ![j] = "closed"]
  /\ Save(j, [stage |-> stage, staged |-> position[j] + n])
  /\ reserved' = [reserved EXCEPT ![j] = Unreserved]
  /\ task' = [task EXCEPT ![j] = "done"]
  /\ cancelled' = cancelled \ {j}

\* Mutant of PackFinish: a source that ends early is not noticed.
PackFinishShort(j) ==
  /\ Running(j, "waiting")
  /\ Settle(j, "ready", Overhead)
  /\ UNCHANGED <<process, used, gate, chunk, packed, calls, history>>

(* Every row is written: the parts become ready with the job. *)
PackFinish(j) ==
  /\ Running(j, "waiting")
  /\ packed[j] = Chunks
  /\ Settle(j, "ready", Overhead)
  /\ UNCHANGED <<process, used, gate, chunk, packed, calls, history>>

(* A refused check, a failed or changed source, or a failed write; closing
   the archive may fail as well. *)
PackFail(j) ==
  /\ Running(j, "waiting") \/ Running(j, "writing")
  /\ \E n \in {0, Overhead} : Settle(j, "failed", n)
  /\ chunk' = [chunk EXCEPT ![j] = 0]
  /\ UNCHANGED <<process, used, gate, packed, calls, history>>

\* Mutant of PackCancelled: the cancellation of a paused job waits for its gate.
PackCancelledAtGate(j) ==
  /\ j \in cancelled
  /\ gate[j]
  /\ IF task[j] = "writing"
     THEN /\ task' = [task EXCEPT ![j] = "draining"]
          /\ cancelled' = cancelled \ {j}
          /\ UNCHANGED <<rec, saved, files, position, handle, reserved>>
     ELSE Settle(j, "failed", Overhead)
  /\ UNCHANGED <<process, used, gate, chunk, packed, calls, history>>

(* Task.cancel is delivered.  A task that never ran ends without entering
   pack; one that awaits a thread goes on to drain it (except CancelledError:
   await pending); a second cancellation while draining abandons the thread. *)
PackCancelled(j) ==
  /\ j \in cancelled
  /\ IF task[j] \in {"scheduled", "writing"}
     THEN /\ task' = [task EXCEPT ![j] = IF @ = "writing" THEN "draining" ELSE "done"]
          /\ cancelled' = cancelled \ {j}
          /\ UNCHANGED <<rec, saved, files, position, handle, reserved>>
     ELSE Settle(j, "failed", Overhead)
  /\ UNCHANGED <<process, used, gate, chunk, packed, calls, history>>

\* Mutant of PackDrained: a cancellation is no Exception and leaves the stage alone.
PackDrainedAsIs(j) ==
  /\ Running(j, "draining")
  /\ chunk[j] = 0
  /\ Settle(j, rec[j].stage, Overhead)
  /\ UNCHANGED <<process, used, gate, chunk, packed, calls, history>>

(* The drained thread has returned. *)
PackDrained(j) ==
  /\ Running(j, "draining")
  /\ chunk[j] = 0
  /\ Settle(j, "failed", Overhead)
  /\ UNCHANGED <<process, used, gate, chunk, packed, calls, history>>

Task(j) ==
  \/ PackStart(j) \/ PackChunk(j) \/ PackWrote(j) \/ PackFinish(j) \/ PackFail(j)
  \/ PackCancelled(j) \/ PackDrained(j)

-----------------------------------------------------------------------------
(* Controlling a job: pause, resume, purge, forget, fetch a part *)

(* control: both handlers also save the manifest as it is in memory. *)
Control(j, open) ==
  /\ process = "up"
  /\ rec[j].stage = "packing"
  /\ gate' = [gate EXCEPT ![j] = open]
  /\ saved' = [saved EXCEPT ![j] = rec[j]]
  /\ UNCHANGED <<process, rec, used, files, task, cancelled, writers, reserved, calls, history>>

Pause(j)  == Control(j, FALSE)
Resume(j) == Control(j, TRUE)

\* Mutant of PurgeBegin: the job may be purged before its task has taken a step.
PurgeBeginEarly(j) ==
  /\ process = "up"
  /\ rec[j].stage # "absent"
  /\ Live(j)
  /\ purging[j] < MaxPurges
  /\ cancelled' = cancelled \cup {j}
  /\ purging' = [purging EXCEPT ![j] = @ + 1]
  /\ UNCHANGED <<process, archive, files, task, gate, writers, reserved, planning, serving, history>>

(* purge, with a packing task to cancel first.  The caller has the id from
   create's response, which leaves after the first step of the task. *)
PurgeBegin(j) ==
  /\ process = "up"
  /\ rec[j].stage # "absent"
  /\ Live(j) /\ task[j] # "scheduled"
  /\ purging[j] < MaxPurges
  /\ cancelled' = cancelled \cup {j}
  /\ purging' = [purging EXCEPT ![j] = @ + 1]
  /\ UNCHANGED <<process, archive, files, task, gate, writers, reserved, planning, serving, history>>

(* Delete every file but the manifest, then record the purge. *)
Remove(j) ==
  /\ files' = [files EXCEPT ![j] = Empty(j)]
  /\ Save(j, [stage |-> "purged", staged |-> 0])

(* purge, without a task to wait for. *)
PurgeNow(j) ==
  /\ process = "up"
  /\ rec[j].stage # "absent"
  /\ ~Live(j)
  /\ Remove(j)
  /\ UNCHANGED <<process, used, task, cancelled, gate, writers, reserved, calls, history>>

(* The cancelled task has ended.  If another call purged and removed the job
   meanwhile its directory is gone and this call fails. *)
PurgeEnd(j) ==
  /\ purging[j] > 0
  /\ ~Live(j)
  /\ purging' = [purging EXCEPT ![j] = @ - 1]
  /\ IF rec[j].stage = "absent" THEN UNCHANGED <<files, rec, saved>> ELSE Remove(j)
  /\ UNCHANGED <<process, used, task, cancelled, gate, writers, reserved, planning, serving, history>>

(* forget: the manifest goes first; a directory that is not empty cannot be
   removed, and then the record stays in memory. *)
Forget(j) ==
  /\ process = "up"
  /\ rec[j].stage = "purged"
  /\ saved' = [saved EXCEPT ![j] = NoRecord]
  /\ IF files[j] = Empty(j)
     THEN /\ rec' = [rec EXCEPT ![j] = NoRecord]
          /\ task' = [task EXCEPT ![j] = "none"]
     ELSE UNCHANGED <<rec, task>>
  /\ UNCHANGED <<process, used, files, cancelled, gate, writers, reserved, calls, history>>

\* Mutant of PartReady: a part of a packing job is offered as soon as it exists.
PartStarted(j, i) ==
  /\ rec[j].stage \in {"ready", "packing"}
  /\ PartSize(j, position[j], i) > 0

(* Part i of j is listed and may be fetched: full while packing, any once ready. *)
PartReady(j, i) ==
  \/ /\ rec[j].stage = "ready"
     /\ PartSize(j, rec[j].staged, i) > 0
  \/ /\ rec[j].stage = "packing"
     /\ packed[j] > 0
     /\ PartLimit[j] # 0
     /\ PartSize(j, position[j], i) = PartLimit[j]

(* archive_part up to the authorization of its sources. *)
PartBegin(j, i) ==
  /\ process = "up"
  /\ PartReady(j, i)
  /\ serving' = serving \cup {<<j, i>>}
  /\ UNCHANGED <<process, archive, files, task, cancelled, gate, writers, reserved, planning, purging, history>>

PartRefuse(j, i) ==
  /\ <<j, i>> \in serving
  /\ serving' = serving \ {<<j, i>>}
  /\ UNCHANGED <<process, archive, files, task, cancelled, gate, writers, reserved, planning, purging, history>>

(* Authorized: the part is marked as handed off, the manifest saved - which
   creates the directory again if the job was forgotten - and the file sent
   if it is still there. *)
PartSend(j, i) ==
  /\ <<j, i>> \in serving
  /\ serving' = serving \ {<<j, i>>}
  /\ saved' = [saved EXCEPT ![j] =
       IF rec[j].stage = "absent" THEN [stage |-> "purged", staged |-> 0] ELSE rec[j]]
  /\ given' = IF files[j][i] > 0 /\ rec[j].stage = "packing"
              THEN given \cup {<<j, i, files[j][i]>>} ELSE given
  /\ UNCHANGED <<process, rec, used, files, task, cancelled, gate, writers, reserved, planning, purging, cut, starts>>

-----------------------------------------------------------------------------
(* The service process *)

(* Everything in memory and every thread is gone; the disk keeps the rest. *)
Lost ==
  /\ process' = "down"
  /\ rec' = [j \in Jobs |-> NoRecord]
  /\ planning' = {}
  /\ task' = [j \in Jobs |-> "none"]
  /\ cancelled' = {}
  /\ gate' = [j \in Jobs |-> FALSE]
  /\ position' = [j \in Jobs |-> 0]
  /\ chunk' = [j \in Jobs |-> 0]
  /\ handle' = [j \in Jobs |-> "none"]
  /\ packed' = [j \in Jobs |-> 0]
  /\ reserved' = [j \in Jobs |-> Unreserved]
  /\ purging' = [j \in Jobs |-> 0]
  /\ serving' = {}
  /\ UNCHANGED <<saved, used, given, starts>>

Crash ==
  /\ process # "down"
  /\ Lost
  /\ UNCHANGED <<files, cut>>

(* Killed inside a purge: some part files are deleted, the record is not written. *)
CrashInPurge(j) ==
  /\ process = "up"
  /\ rec[j].stage # "absent"
  /\ ~Live(j)
  /\ \E kept \in SUBSET {i \in Parts(j) : files[j][i] > 0} :
       files' = [files EXCEPT ![j] = [i \in Parts(j) |-> IF i \in kept THEN @[i] ELSE 0]]
  /\ cut' = cut \cup {j}
  /\ Lost

(* lifespan: once no request is in flight, jobs.close cancels every task ... *)
Shutdown ==
  /\ process = "up"
  /\ planning = {} /\ serving = {} /\ \A j \in Jobs : purging[j] = 0 /\ task[j] # "scheduled"
  /\ process' = "stopping"
  /\ cancelled' = {j \in Jobs : Live(j)}
  /\ UNCHANGED <<archive, files, task, gate, writers, reserved, calls, history>>

(* ... and the process ends when they have, and no thread is left. *)
Exit ==
  /\ process = "stopping"
  /\ \A j \in Jobs : ~Live(j) /\ chunk[j] = 0
  /\ Lost
  /\ UNCHANGED <<files, cut>>

\* Mutant of Start: manifests are taken as they are.
StartAsSaved ==
  /\ process = "down"
  /\ starts < MaxStarts
  /\ starts' = starts + 1
  /\ process' = "up"
  /\ rec' = saved
  /\ UNCHANGED <<saved, used, files, task, cancelled, gate, writers, reserved, calls, given, cut>>

(* ArchiveJobs.__init__ loads the manifests; interrupted packing has failed,
   in memory only. *)
Start ==
  /\ process = "down"
  /\ starts < MaxStarts
  /\ starts' = starts + 1
  /\ process' = "up"
  /\ rec' = [j \in Jobs |-> IF saved[j].stage = "packing"
                            THEN [saved[j] EXCEPT !.stage = "failed"] ELSE saved[j]]
  /\ UNCHANGED <<saved, used, files, task, cancelled, gate, writers, reserved, calls, given, cut>>

-----------------------------------------------------------------------------
Init ==
  /\ process = "up"
  /\ rec = [j \in Jobs |-> NoRecord]
  /\ saved = [j \in Jobs |-> NoRecord]
  /\ used = {}
  /\ files = [j \in Jobs |-> Empty(j)]
  /\ planning = {}
  /\ task = [j \in Jobs |-> "none"]
  /\ cancelled = {}
  /\ gate = [j \in Jobs |-> FALSE]
  /\ position = [j \in Jobs |-> 0]
  /\ chunk = [j \in Jobs |-> 0]
  /\ handle = [j \in Jobs |-> "none"]
  /\ packed = [j \in Jobs |-> 0]
  /\ reserved = [j \in Jobs |-> Unreserved]
  /\ purging = [j \in Jobs |-> 0]
  /\ serving = {}
  /\ given = {}
  /\ cut = {}
  /\ starts = 0

Request(j) ==
  \/ CreateBegin(j) \/ CreateRefuse(j) \/ CreateAdmit(j)
  \/ Pause(j) \/ Resume(j) \/ Forget(j)
  \/ PurgeBegin(j) \/ PurgeNow(j) \/ PurgeEnd(j)
  \/ \E i \in Parts(j) : PartBegin(j, i) \/ PartRefuse(j, i) \/ PartSend(j, i)

Service == Crash \/ (\E j \in Jobs : CrashInPurge(j)) \/ Shutdown \/ Exit \/ Start

Next == (\E j \in Jobs : Request(j) \/ Task(j) \/ ThreadWrite(j)) \/ Service

(* The event loop runs every task and handler that can run, threads get
   scheduled, and a read from the source ends or fails (operation_timeout).
   Nothing obliges clients to send a request or the process to stay up. *)
Fairness ==
  \A j \in Jobs :
    /\ WF_vars(Task(j))
    /\ WF_vars(ThreadWrite(j))
    /\ WF_vars(PurgeEnd(j))

Spec == Init /\ [][Next]_vars /\ Fairness

-----------------------------------------------------------------------------
(* Type invariant *)

TypeOK ==
  /\ process \in {"up", "stopping", "down"}
  /\ rec \in [Jobs -> Record]
  /\ saved \in [Jobs -> Record]
  /\ used \subseteq Jobs
  /\ DOMAIN files = Jobs /\ \A j \in Jobs : files[j] \in [Parts(j) -> Nat]
  /\ planning \subseteq Jobs
  /\ task \in [Jobs -> {"none", "scheduled", "waiting", "writing", "draining", "done"}]
  /\ cancelled \subseteq Jobs
  /\ gate \in [Jobs -> BOOLEAN]
  /\ position \in [Jobs -> Nat]
  /\ chunk \in [Jobs -> 0 .. ChunkUnits]
  /\ handle \in [Jobs -> {"none", "open", "closed"}]
  /\ packed \in [Jobs -> Nat]
  /\ reserved \in [Jobs -> {Unreserved} \cup 0 .. Needed]
  /\ purging \in [Jobs -> 0 .. MaxPurges]
  /\ serving \subseteq Jobs \X Nat
  /\ given \subseteq Jobs \X Nat \X Nat
  /\ cut \subseteq Jobs
  /\ starts \in 0 .. MaxStarts

-----------------------------------------------------------------------------
(* Safety *)

(* A job is told to be packing exactly while a task packs it: nothing leaves a
   record stuck in "packing", and a task that still writes is never told to have
   ended (jobs.py 169, 206-222, and 72 after a crash). *)
PackingIffLive == \A j \in Jobs : rec[j].stage = "packing" <=> Live(j)

(* Staging space is reserved for a job exactly while its task lives, however
   the task ends (jobs.py 165, 219): a reservation that outlived its task
   would shrink the store until the service restarts. *)
ReservedWhileLive == \A j \in Jobs : reserved[j] # Unreserved <=> Live(j)

(* The space an admitted job still has to write is there: what is staged and
   what live tasks have left to write fit the filesystem (jobs.py 96-106, 155,
   205), whichever stores share it and whatever is purged meanwhile. *)
NoOvercommit ==
  \A d \in Devices :
    StagedOn(d) + SumFunctionOnSet([j \in Jobs |-> Needed - position[j]], {j \in OnDevice(d) : Live(j)})
      <= Disk[d]

(* A part handed to a client while its job is packing is never seen with another
   size: it is served only when it will not grow (jobs.py 47-48; http.py 416). *)
ServedIsFinal == \A g \in given : files[g[1]][g[2]] \in {0, g[3]}

(* A job told to be ready has all its parts in full, after any crash or
   restart, unless a crash cut its purge short (jobs.py 208-220, 244-255). *)
ReadyIsWhole ==
  \A j \in Jobs : rec[j].stage = "ready" /\ j \notin cut =>
    \A i \in Parts(j) : files[j][i] = PartSize(j, Needed, i)

(* What a purge reports freed, the record's staged bytes, is what it deletes.
   Not so after a crash: staged is saved only with the manifest. *)
FreedIsStaged ==
  [][\A j \in Jobs \ cut : rec[j].stage \notin {"absent", "purged"} /\ rec'[j].stage = "purged"
       => rec[j].staged = Staged(j)]_vars

(* README: each principal has at most 32 unpurged jobs.  create counts them
   before it awaits the walk of the selection (jobs.py 148, 152, 164). *)
UnpurgedLimit == \A o \in Owners : Cardinality(Unpurged(o)) <= MaxUnpurged

(* README: a purge removes the staged copies.  Not so when two purges of one
   job abandon the thread that still writes for it (jobs.py 196-200, 251). *)
PurgedIsEmpty == \A j \in Jobs : rec[j].stage = "purged" => files[j] = Empty(j)

-----------------------------------------------------------------------------
(* The bookkeeping the safety invariants rest on: an inductive invariant *)

(* Only tasks that have taken their first step are cancelled: one cancelled
   before it would end without settling its record and its reservation. *)
CancelledRuns == \A j \in cancelled : task[j] \in {"waiting", "writing", "draining"}

(* An id that was not drawn yet is unknown everywhere. *)
NewIsUnknown ==
  /\ planning \cap used = {}
  /\ \A j \in Jobs \ used :
       /\ task[j] = "none" /\ rec[j].stage = "absent" /\ saved[j].stage = "absent"
       /\ \A i \in Parts(j) : <<j, i>> \notin serving

DownIsIdle ==
  process = "down" =>
    /\ planning = {} /\ serving = {}
    /\ \A j \in Jobs : task[j] = "none" /\ purging[j] = 0

(* The manifest tells the same as the record, but for a failure found at the
   start of the service, a record written back by a late part request, and one
   whose directory could not be removed. *)
Lag == {<<"failed", "packing">>, <<"absent", "purged">>, <<"purged", "absent">>}

ManifestFollows ==
  process # "down" =>
    \A j \in Jobs : rec[j].stage = saved[j].stage \/ <<rec[j].stage, saved[j].stage>> \in Lag

(* What the service knows of a job stays consistent through every await, crash
   and restart (jobs.py 62-76, 164-169, 206-222, 233-256). *)
IInv ==
  /\ TypeOK
  /\ PackingIffLive
  /\ ReservedWhileLive
  /\ CancelledRuns
  /\ NewIsUnknown
  /\ DownIsIdle
  /\ ManifestFollows

-----------------------------------------------------------------------------
(* Liveness *)

(* A job does not stay in "packing" for ever unless it is paused: the task
   ends, one way or another, or the process does. *)
PackingEnds ==
  \A j \in Jobs : rec[j].stage = "packing" ~> rec[j].stage # "packing" \/ ~gate[j]

(* A purge is answered, even one of a paused job or of one whose writer
   thread is busy (jobs.py 247-249, 197-200). *)
PurgeAnswered == \A j \in Jobs : purging[j] > 0 ~> purging[j] = 0

-----------------------------------------------------------------------------
(* Refinement: what the owner of a job is told follows ArchiveLifecycle.  While
   the service is down the manifest tells, and packing counts as failed. *)

ToldStage(j) ==
  IF process # "down" THEN rec[j].stage
  ELSE IF saved[j].stage = "packing" THEN "failed" ELSE saved[j].stage

Lifecycle == INSTANCE ArchiveLifecycle WITH stage <- [j \in Jobs |-> ToldStage(j)]

LifecycleSpec == Lifecycle!Spec
=============================================================================
