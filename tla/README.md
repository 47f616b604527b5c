# TLA+ specifications of remote-fs-browser

remote-fs-browser is a Python service that lets a browser, a command line
client or an embedding application browse local folders, SMB shares, NFS
exports, rclone remotes, libvirt pools and Kubernetes volumes. These modules
specify the parts of it whose correctness depends on order: coroutines of one
event loop that suspend at every `await`, threads that outlive the coroutine
that started them, worker processes that hang or die, a service that stops
between two writes of a file, and the front end, whose requests answer after
the user has gone on. All paths below are relative to
`src/remote_fs_browser/` unless they start with `README.md`, `SECURITY.md`,
`frontend/` or `docs/`.

## 1. The system

### Components

| Component | State it keeps | Operations | Talks to |
|---|---|---|---|
| **Archive jobs** (`jobs.py`) | job records in memory and in `job.json`; part files; reservations per store; one task, gate and writer thread per job | plan, create, pack, pause/resume, purge, forget, capacity, load at start, close | sessions (reads sources), HTTP routes, disk |
| **HTTP application** (`http.py`, `auth.py`) | owners of sessions, sign-in cookies, sign-in attempts, request rates, mount checks | sign in/out, sessions, files, archives, saved locations, remotes, mounts; reaper; shutdown order | every other component |
| **Sessions and workers** (`sessions.py`) | table of sessions, count of starts under way, closed flags; per worker a lock, a pipe and a process with its open files and uploads | connect, discover, expire, close; list, stat, mkdir, stream, write, tree, remove, rename, copy | the thread pool, backends inside the worker |
| **Staged writes** (`mutations.py`, `backends.py`, `endpoints.py`, `nfs.py`) | a temporary sibling of the destination | begin, write, commit (replace or create), abort; rename, remove | the filesystem or server, shared with other clients |
| **Kubernetes backend** (`kubernetes.py`) | cache of objects, up to four shells, helper pods, locks | shell commands with one re-run, helper pods and their deletion, uploads | kubectl |
| **Mounts** (`mounts.py`) | mount records in memory and on disk, rclone and bridge processes, watcher thread | mount, unmount, remount, forget, stop, shutdown, cleanup of stale mounts | rclone, the DAV bridge, HTTP routes |
| **DAV bridge** (`davbridge.py`) | one backend per server | GET, PUT, MKCOL, MOVE, DELETE, PROPFIND | NFS backend, rclone |
| **Stores** (`store.py`, `remotes.py`) | `saved.json`, `connections.json`, `rclone.conf` | add, remove, resolve; save and remove a remote | disk, HTTP routes |
| **Discovery** (`discovery.py`, `hostnames.py`) | none (a worker per request) | scan of ranges in pages, shares and exports of a host | network |
| **Policy** (`policy.py`) | none | checks of paths, hosts, operations, endpoints | every other component |
| **Command line client** (`client_cli.py`) | remembered sign-ins, partial downloads | download, upload, scan | the HTTP API |
| **Manager page** (`web/manager.js`) | the place, the sessions kept for locations, listing, selection, clipboard, open sheets, transfers, device list, copies of the lists of the service | navigate, map and unmap hosts, paste, delete, upload, preview, prepare and download ZIPs, scan, pin, mount | the HTTP API |
| **Storage element** (`frontend/browser.js`, served as `web/browser.js`) | one session, its location and path, the discovery panel | connect, list, manage, upload, select, disconnect, scan; taken out of its page | the HTTP API |
| **Sign-in page** (`web/demo.js`) | which form is shown | sign in, sign out | the HTTP API |
| Set-up, Windows session lookup, packaging, vendored web runtime | | straight-line I/O, third-party or generated code | |

Handlers and tasks of one process run on one event loop and share memory; they
interleave only at `await`. `asyncio.to_thread` hands a call to a thread of the
loop's default pool; cancelling the coroutine does not stop the thread. A
worker process is reached by a pipe under a lock, one request at a time.

### What is hard, and what makes each component correct

* **Archive jobs.** Packing suspends at each chunk while requests pause, purge,
  forget or download the job; the writer thread survives the cancellation of
  its task; the service may stop between any two saves of a manifest.
  Correct means: a job is never stuck in "packing"; reserved space is what live
  tasks may still write; a part is served only in its final size; "ready" means
  complete, also after a crash; the owner sees a life cycle that never runs
  backwards; a purge is answered and leaves nothing.
* **Sessions and workers.** A cancelled call goes on in its thread; a timeout
  leaves a request with the worker; a worker hangs, idles out or crashes;
  expiry, sign-out, deletion and shutdown close the same session at once.
  Correct means: an answer is never taken for that of another request; an
  upload appears whole or not at all, and a write that returns is there; files
  and upload slots are given back; the limit holds; no process is forgotten;
  every call and every closing ends.
* **Staged writes.** Another client acts between check and rename; a backend
  without an atomic "create only" composes one from link and unlink.
  Correct means: create never replaces, failure leaves the old file, no
  temporary file outlives its session.
* **Kubernetes backend.** A command is run again after a shell broke although
  the first run may have taken effect; helper pods must go when the session
  does; the least recently used shell is closed while in use elsewhere.
* **Mounts.** A watcher remounts while requests mount, eject and forget; state
  survives in a file; a target is chosen before it is taken.
  Correct means: one process per mount, a read-only wish is kept, an ejected
  mount stays ejected.
* **Stores.** Two files are written one after the other; a file is read, changed
  and written without a lock.
* **Manager page.** Every handler suspends at each request and each dialog,
  while the user navigates, presses keys and starts other handlers, sessions
  expire, and timers poll. Correct means: no answer of an older request is
  shown as that of a newer one; what is pasted, deleted, uploaded or stored is
  what was asked for, where it was asked for; nothing is lost that the user did
  not agree to lose; the lists become those of the service; waiting ends.
* **Storage element.** It may be taken out of its page at any moment, also
  while it waits for a session. Correct means: it leaves no session open; an
  operation goes to the folder it was asked for; the pages of a scan follow one
  another.

`PROJECT.json` lists each hazard at its line.

## 2. The modules

| Module | Models | Status |
|---|---|---|
| `ArchiveLifecycle` | abstract: what the owner of a job is told | done |
| `ArchiveJobs` | `jobs.py` and the archive routes of `http.py` | done |
| `ArchiveJobsProofs` | theorems about `ArchiveJobs` | done |
| `AtomicUpload` | abstract: what `FilesystemSession.write` promises | done |
| `SessionWorker` | one session: streams, writes, threads, lock, pipe, worker process, close | done |
| `SessionBrowser` | many sessions: limit, starts, discovery, expiry, sign-out, shutdown, the shared thread pool | done |
| `SessionWorkerProofs`, `SessionBrowserProofs` | theorems about them | done |
| `ManagerScan` | the network scan of the manager page | done |
| `ManagerDownloads` | links, ZIP jobs and their polling, the ZIP sheet | done |
| `ManagerNavigation` | place, loads, kept sessions, the page's address, hosts and cloud connections | done |
| `ManagerWindow` | keyboard, panels, sheets, menus, selection, rubber band | done |
| `ManagerFiles` | paste, delete, new, rename, uploads, preview | done |
| `ManagerShortlist` | shortlist, credentials, connections, mounts: lists the page copies | done |
| `ZipFolderChooser` | the dialog that chooses where ZIPs are prepared | done |
| `StorageElement` | the sessions, listing, operations and uploads of the element | done |
| `ElementScan` | the discovery panel of the element | done |
| `ManagerNavigationProofs`, `ManagerWindowProofs`, `ManagerFilesProofs` | theorems about them | done |
| `ManagerProgressProofs` | theorems about `ManagerScan`, `ManagerDownloads`, `ManagerShortlist` | done |
| `ElementProofs` | theorems about `ZipFolderChooser`, `StorageElement`, `ElementScan` | done |
| `MCArchiveJobs`, `MCSessionWorker`, `MCSessionBrowser` | instances for TLC | done |
| `MCFrontEnd`, `MCManagerProgress` | the parts of the front end side by side, for TLC | done |

### ArchiveJobs

An action is the code between two awaits, or one iteration of the loop in
`SplitWriter.write` on its thread.

| Code | Model |
|---|---|
| `ArchiveJobs.jobs`, `job.json` | `rec`, `saved` (stage and staged units); `used` ids |
| part files | `files[j][i]`, sizes |
| `plan` awaited by `create` | `planning`; `CreateBegin`, `CreateRefuse`, `CreateAdmit` |
| `pack` | `task`, `gate`, `packed`; `PackStart`, `PackChunk`, `PackWrote`, `PackFinish`, `PackFail` |
| a cancellation, and the shielded wait for the thread | `cancelled`; `PackCancelled`, `PackDrained` |
| `SplitWriter` | `position`, `chunk` (what its thread has left), `handle`; `ThreadWrite` |
| `reserved`, `capacity` | `reserved`, `Free`, stores that share a device share the reservations |
| `control`, `purge`, `forget` | `Control`, `PurgeBegin`/`PurgeNow`/`PurgeEnd` (before and after it awaits the task), `Forget` |
| `archive_part` | `PartBegin`, `PartRefuse`, `PartSend`; it awaits the authorisation hook and saves afterwards |
| shutdown, crash, start | `Shutdown`, `Exit`, `Crash`, `CrashInPurge` (between its unlinks and its save), `Start` |

An archive is `Chunks` writes of `ChunkUnits` units and `Overhead` units at the
end; a write that crosses the limit of a part is split, as in the code. Names,
directories and the ZIP format are left out. Failures to write `job.json` are
not modelled.

### SessionWorker

| Code | Model |
|---|---|
| coroutine of `stream` or `write` | `at[o]`; `StreamOpen` … `WriteSourceFails`, `Cancel` at each await |
| `_call` → `to_thread(worker.call)` | a call `<<operation, request>>` in `waiting`; `Enter`, `Deliver` |
| `finally` blocks | `Leave`: the shielded release or abort, unless the session is closed |
| `Worker.lock`, `call`, `receive`, `close` | `holder`, `shutting`; `ThreadSend`, `ThreadExpired`, `ThreadReceive`, `ThreadTimeout`, `ThreadTimedOut`, `CloseHold`, `CloseEnd` |
| `FilesystemSession.close`, cancelled while its job is queued | `SessionClose`, `CloseCancelled`: `closed` stays set, every later close returns at once |
| the pipe | `requests`, `answers` |
| `worker` | `process`, `files`, `uploads`; `Serve`, `WorkerLeave`, `WorkerExit`, `WorkerCrash` |
| the upload on storage | `written` (chunks), `staged`, `published` |

The limit of four uploads, which works like the one on files, the second
cancellation of a write during its first call, and the requests that keep
nothing in the worker are left out.

### SessionBrowser

| Code | Model |
|---|---|
| `Browser.sessions`, `owners`, `session.closed` | `sessions`, `owners`, `marked` |
| `Browser.pending`, `starting` | `pending`, `starting` |
| `connect`, `discover`, `_worker` | `at[t]`; `ConnectBegin`, a pass of `expire`, `ConnectStart` or `ConnectRefuse`, `Connected`, `StartFailed`, `StartRefused`, `CloseReturned` |
| a coroutine that is cancelled | `CancelExpire`, `CancelStart`, `CancelLeave`, `CancelRoute`, and the reaper in `ShutdownBegin`; `Withdraw` takes its close back if no thread has begun it, and `abandoned` keeps the worker |
| `expire`, the reaper | `left`, `waiting`, `reaping`: a pass looks at a snapshot of the table and awaits the closing of each session before it pops it; a session that is marked already is popped at once (`ExpireMarked`), as `close` returns then |
| sign-out, `DELETE /sessions/{id}` | `SignOut…` pops first and closes then, `Delete…` closes first; neither awaits anything for a session that is marked |
| `Browser.close` | `ShutdownBegin`, `ShutdownStart`, `ShutdownSessions`, `ShutdownEnd` |
| default thread pool | `queue` (in order), `busy`, at most `PoolSize`; `held` is who has the lock of a worker |

Its worker processes are `none`, `live` or `dead`, and `stuck` while a native
call hangs. What happens inside one session is `SessionWorker`'s matter.

### The front end

A step is the code of a handler from one `await` to the next, for the page runs
on one thread. `setState` changes `this.state` at once; the runtime renders
later, which is a step of its own (`Commit`) only where `componentDidUpdate`
depends on it. A request is answered in one step with the effect it has on the
service, except where an answer may be older than the moment it arrives (the
polls, the reloads): there the service reads first and the page applies later.
The service may refuse any request.

| Code | Model |
|---|---|
| `startScan`, `cancelScan`, `scanId`, `scanResume` | `ManagerScan`: `StartScan`, `Answer`, `Fail`, `CancelScan`; the locals of each call in `loops[id]` |
| `startBatch`, `grabPart`, `openZip`, `confirmZip`, `pollJobs`, `purgeJob` | `ManagerDownloads`: `Download`, `BatchOpened`, `GrabPart`, `HandOver`, `OpenZip`, `ConfirmZip`, `ServePoll`/`ApplyPoll`; a ZIP job has the states its row distinguishes |
| `loadPlace`, `sessionFor`, `navigation` | `ManagerNavigation`: `LoadPlace`, `Opened`, `ListAnswered`, `ListGone`, `ListBusy`, `Wake`, `LoadFails`; `loads[g]` is the call of generation `g` |
| `openLink`, `syncLink`, `mapDevice`, `unmount`, `disconnect`, `saveCloud`, `forgetCloud` | `HashChange`, `SyncLink`, `MapDevice`, `Unmount`…, `Disconnect`…, `SaveCloud`…, `ForgetCloud`… |
| `keydown`, `escape`, `clickRow`, `startBand`, menus | `ManagerWindow`: `Key`, `Escape`, `ClickRow`, `StartBand`/`MoveBand`/`EndBand`, `OpenMenu`, `RunItem`; panels float beside the rows, which stay clickable; what a gesture starts elsewhere is in `command` |
| `paste`, `remove`, `uploadFiles`, `preview` | `ManagerFiles`: one request per step; `asked` records where each call was asked for when the gesture was made, `lost` and `misplaced` what goes wrong; a save goes on when its preview is closed (`outlived`) |
| the writes to saved locations and connections | `ManagerShortlist`: `Written` is what the service changes, `Served` and `WriteFails` how it answers; a request that fails may have changed the list, since `save` raises after the records in memory were changed |
| `reloadSaved`, `reloadMounts`, `reloadRemotes` | a read is a step of the service and one of the page |
| `chooseZipFolder` | `ZipFolderChooser`: `loads[g]` with its generation, the controls that are enabled |
| `connect`, `show`, `close`, `manage`, `uploadFiles`, `select` of the element | `StorageElement`: `call[c]` holds the generation, session and path a call has taken |
| `discover`, `scanNetwork` of the element | `ElementScan` |

`NothingLeft`, `RemovedClosesAll`, `ManagedWhereShown`, `NextContinues`,
`SavedAsShown` and `ListsFollow` hold only while calls do not overlap (and, the
last one, while no write fails after it took effect), `NoOrphan` and
`ClosedIsQuiet` only for workers whose close nobody took back, because the code
does not protect itself further; each names the case it leaves out in a history
variable (`disturbed`, `upset`, `crossed`, `tainted`, `abandoned`), and the
hazards in `PROJECT.json` say what happens then.

`MCFrontEnd` and `MCManagerProgress` put the parts side by side. They keep
their state apart in the code (different fields of one component, or another
component), so a behaviour explores the part in `focus` and leaves the others
alone: the state space is the sum of the parts, not their product. Where one
part depends on what another does (a place changes while a paste runs, a sheet
opens by an answer), its module has that event as an action.

## 3. What the runs check

| Run | Shows |
|---|---|
| `archive_safety` | records and reservations agree with the tasks, no overcommitted disk, served parts are final, ready is whole, with two jobs on a disk that holds one, and two crashes or restarts |
| `archive_liveness` | packing ends unless paused, purges are answered, and the service implements `ArchiveLifecycle` |
| `archive_limit` (violation) | more than the documented 32 unpurged jobs (README.md:193): the count is taken before an await |
| `archive_freed` (violation) | a purge after a crash reports fewer bytes than it frees (README.md:193) |
| `archive_two_purges` (violation) | two purges of one job leave a file that an abandoned thread writes (README.md:193) |
| `session` | the pipe stays in step, uploads are atomic and truthful (`AtomicUpload`), slots and files are given back, a closed session has no worker, calls end, and closing does, by the idle timeout of the worker when the close was cancelled before a thread took it |
| `session_streams` (violation) | a stream cancelled while it opens keeps its file open, against SECURITY.md:7 |
| `browser` | the session limit; no worker is forgotten and a closed browser is quiet, but for workers whose close a cancelled coroutine took back; a stuck worker costs one deadline, however many calls wait for its lock |
| `browser_liveness` | connections and discoveries end, dead sessions leave the table, closing ends, on one thread that a stuck call may hold |
| `browser_stuck` (violation) | calls that wait for a stuck session fill the thread pool, so other sessions do wait, against README.md:363 |
| `front_end` | keys do nothing behind a sheet, what is selected is on the screen; no content is lost and nothing acts elsewhere than asked; ZIPs are prepared where the dialog said; the element leaves no session open and acts on the folder shown; the next page of its scan continues it |
| `manager_progress` | no stale answer enters the device list or the listing, a file has one link, the lists of the page follow and converge to those of the service, scans and loads end |

### Bounds

* Archives: two jobs, one split into parts and one not; two chunks (one for
  liveness) of a size that crosses the end of a part; at most one purge
  request waiting per job (two in `archive_two_purges`); one or two restarts.
  Two jobs are what reservations and the limit need; a third adds only more of
  the same interleavings, since jobs meet nowhere but in capacity and count.
* One session: one stream, one upload of two chunks, a limit of one file. The
  pipe and the lock are contended as soon as there are two operations and the
  closing thread; two chunks tell a partial upload from an empty and a whole one.
* Many sessions: two connections and a discovery for one place, two requests and
  two threads, so that the limit is met, jobs queue, a call waits on its thread
  for the lock of the other one, and a pass of expiry meets starts, sign-out and
  shutdown; connections, and requests, are interchangeable (symmetry, safety
  only). The constraint `Crowd` keeps the product of all this small: two threads
  and two calls are explored as long as no discovery has begun; from then on one
  thread works and one call is out at a time. The liveness run has one connection and a discovery:
  one uses the thread that the other needs. `browser_stuck` has two threads,
  two sessions and three requests.

* Front end: three entries, one of them a folder, with listings that drop a
  selected one; two folders of one location and one upload of two files, one of
  which exists; two local roots; one share and one local root with two folders
  each, two calls under way and three sessions, so that one expires, is
  reopened and meets a removal; scans of two and three pages, so that a stale
  answer can belong to another range and a page is neither first nor last. Two
  handlers may wait at a time, which every race in these modules needs. The
  number of gestures (`MaxInputs`, `MaxActs`, `MaxPresses`, `MaxUses`,
  `MaxPushes`, `MaxGestures`, `MaxVisits`, `MaxClicks`) is the bound that grows
  the state space; it is set to reach each race and one step beyond it, and the
  proofs of section 4 hold for any number. `MaxAttempts` is 0 instead of 40: a
  place is retried until it is given up, only sooner. The page starts without a
  link; one may be typed before it has loaded.

All runs set `CHECK_DEADLOCK FALSE`: gestures, jobs, streams, uploads, connections and
starts of the service are bounded, and when all have ended nothing remains to
be done.

### Fairness

* The event loop resumes a coroutine whose await is over and a thread of the
  pool makes progress: weak fairness of those actions.
* A lock that is free again and again is got by a thread that waits for it:
  strong fairness. Python promises no order, but calls are short and finite.
* A deadline is kept: `receive` polls for `operation_timeout`, so a call that
  holds the lock ends. That a worker answers is *not* assumed; `Serve` has no
  fairness, a worker may hang for ever.
* A worker that nobody asks anything leaves after its idle period, which is what
  ends one whose close was dropped: weak fairness of `WorkerLeave` in
  `SessionWorker`. `README.md`:363 promises it.
* The pool takes its jobs in order (`ThreadPoolExecutor` queues them), so weak
  fairness of `Take` is enough.
* The service answers each request of the page, with success or an error: weak
  fairness of the answers, together for the handlers of a part, and for each of
  the two handlers of `ManagerShortlist`, which reload the same lists.
* The timers of the page run (`PollTimer`, `PollMounts`) and the runtime renders
  (`Commit`): weak fairness. `setInterval` skips hidden pages; a page that is
  hidden for ever promises nothing.
* A poll that is asked again and again is served some time (`ServePoll`): strong
  fairness. The service may refuse some polls, not all from some time on.
* The user, clients, cancellations, crashes and shutdown are never fair: nothing
  may depend on them.

## 4. What is proved

`ArchiveJobsProofs`, checked by TLAPS for any set of jobs, owners and devices,
any part limits and any bounds that satisfy `ArchiveAssumption` (the ids, tokens of
32 hex digits, are finitely many):

* `TypeCorrect`: `Spec => []TypeOK`. `TypeOK` is inductive; lemmas give the
  types of what `Appended`, `Piece`, `Settle` and `Remove` compute.
* `BookkeepingCorrect`: `Spec => []IInv`, and from it `PackingCorrect` (a job
  is recorded as packing exactly while a task packs it) and
  `ReservationCorrect` (space is reserved exactly while the task lives).
  Neither is inductive alone. `PackingIffLive` needs to know that a task is
  cancelled only after its first step (`CancelledRuns`; one cancelled before
  would end without settling its record), that an id not drawn yet is unknown
  everywhere (`NewIsUnknown`), that nothing runs while the service is down
  (`DownIsIdle`), and how far a manifest may lag behind its record, since
  `Start` loads it (`ManifestFollows`).
* `LifecycleCorrect`: `Spec => LifecycleSpec`. Initial states map to initial
  states; every step of the service maps to moves of `ArchiveLifecycle` or to
  a stutter. While the service is down the owner is told what the manifest
  says, with "packing" read as failed, which is what `Start` makes of it; the
  step proof uses `IInv` before and after.
* `ReadyCorrect`: `Spec => []ReadyIsWhole`, and `ServedCorrect`:
  `Spec => []ServedIsFinal`, from `StagingCorrect`. `Staging` ties the parts on
  disk to the chunks the task has accounted for (`WriterFollows`), keeps threads
  away from archives that are ready (`NoLateThread`) and keeps full the parts
  offered or handed out as long as somebody may write to them (`ServingIsFull`,
  `GivenIsFull`): the thread of a task cancelled twice writes on after the task
  has settled. `StoredIsWhole` also covers the manifest, which `Start` loads.
  `StoredKeeps`, `StoredQuits` and `StoredSettles` are the lemmas about a job
  that is left alone, that packs no longer, and whose task ends.
* `CapacityCorrect`: `Spec /\ []OnePurge => []NoOvercommit`. A job *claims* what
  it needs while it packs and what it has staged otherwise; `Capacity` says that
  the claims on a filesystem fit it. It is inductive because a live task has
  staged exactly what its writer has written (`LiveStaged`, from `Staging`) and has
  reserved what is left (`Budget`): every step but an admission lets no claim
  grow (`Stays`), and an admission finds its claim in what is free
  (`FreeIsUnclaimed`). `OnePurge` says that no job is purged while it is being
  purged. It is needed, not a convenience: two cancellations of one task abandon its
  thread, which writes on after the reservation is gone, and in the instance of
  `archive_two_purges` TLC finds `NoOvercommit` violated too.

  A sum over a set is `SumFunctionOnSet`, a recursive function, and the library's
  induction theorems cannot be used here. `Smallest` replaces them: among sets
  for which a law fails there would be a smallest one, since the strict subset
  relation of a finite set is well founded. From it follow that the recursion has
  a solution (`SumsExist`), that any term may be taken first (`SumTakes`), that sums
  add up (`SumPlus`) and grow with their terms (`SumGrows`), and that the parts of
  an archive make up its units (`PartsMakeUp`).

`SessionWorkerProofs`, for any streams, writes, chunks and limit of files:

* `PipeCorrect`: `Spec => []PipeInStep`. It is inductive because it says what
  the pipe holds for a call that has the lock *and* that it is empty when none
  has it. The two facts the code relies on appear as the steps that could break
  it: a call sends only after it took the lock, and one that gives up
  (`ThreadTimedOut`) stops the worker before it lets the lock go.
* `ClosedCorrect`: `Spec => []ClosedIsGone`, from `ClosingOnce`: closing marks the
  session first, holds the lock while it waits for the worker, and no action
  brings a worker back. No assumption on the constants is needed.
* `PublishedCorrect`, `UploadsCorrect`, `StreamsCorrect`: `PublishedIsWhole`,
  `UploadsEnd` and `StreamsEnd`, from the inductive `Handles`. What is published
  or open says nothing of the calls that can still change it, so `Handles` says,
  in each state of a coroutine, which of its calls may be out (`CallsOf`), what
  the worker has written when they are (`Progress`: as many chunks as were sent,
  one more once the chunk under way is answered) and where its upload or file may
  be (`Slot`, `File`). An abandoned call stays out after its coroutine has gone
  on: a chunk and a commit of one write are never out together, and the undo is
  out as long as the handle is there. `Delivered` is the lemma about every way a
  call ends, `Served` about the worker.
* `UploadCorrect`: `Spec => UploadSpec`, the refinement of `AtomicUpload`, by
  `Handles` before and after a step: a coroutine or a thread moves one report, the
  worker one destination.

`SessionBrowserProofs`, for any tasks, size of the pool and limit that satisfy
`BrowserAssumption`:

* `CountCorrect`: `Spec => []PendingCounts`, and `LimitCorrect`:
  `Spec => []SessionLimit`, from the inductive `Accounts`. The limit is not
  inductive alone: a connection is admitted by the count `pending`, so it holds
  only as long as the count is exact, on every path by which a start ends.
  `Starts` and `Settles` are the two lemmas about what changes the count,
  `Shrinks` is about what only removes sessions.
* `OrphanCorrect`: `Spec => []NoOrphan`, `QuietCorrect`:
  `Spec => []ClosedIsQuiet` and `TimeoutCorrect`: `Spec => []TimesOutOnce`, from
  the inductive `Custody` (with `SessionTypeCorrect`: `Spec => []TypeOK`). A
  session is closed by whoever marks it first and by nobody else: `Accounted` says
  that a live worker of a marked session has a close job, of any awaiter, on the
  queue or on a thread. A cancelled coroutine that takes its job back from the
  queue (`Withdraw`) breaks exactly this, and puts the worker into `abandoned`; a
  job on a thread runs to its end whoever is cancelled. A start
  is awaited by its task as long as it is queued or runs, and is queued once
  (`StartsOnce`), so a worker never lives twice (`LivesOnce`); all that names a
  session names a connection that is over (`SessionsAreOver`); `ShutsDown` says
  what `Browser.close` has still to close. `Submits`, `Withdraws`, `Takes`,
  `Finishes` and `SubmitsAll` are the lemmas about the queue, `ThreadEffect` sums
  up what a thread may do; a step of the event loop ends no worker and disturbs
  only `Books`.

  `BrowserAssumption` says that the tasks, the reaper, the sign-out, the delete
  and the shutdown are different actors: each awaits its own future.

`ManagerFilesProofs`, for any places, names, first files and sessions, and any
number of uploads and gestures:

* `FilesCorrect`: `FilesSpec => []NothingLost`, whatever pastes, deletes,
  renames, uploads and saves are under way together and wherever the page goes
  meanwhile. That nothing was lost does not say that nothing will be:
  `SendsAgreed` says that an upload that replaces was agreed to for the name it
  sends, and `CopiedIsSpare` that the content of a cut that has been copied may
  go from one place: it is in two, or nobody misses it (`Spare`). `PutSpares` and
  `MoveSpares` keep that for every content, `Copies` brings it about,
  `SpareIsKept` uses it. (`FilesTypeCorrect` is the type invariant.)
* `PlaceCorrect`: `FilesSpec => []ActsWhereAsked`: no call of a paste, a deletion
  or an upload is sent for another place than the one the user was in, or pointed
  at, when it was asked for. `asked` is written once, at the gesture;
  `PlacesKept` says that as long as a handler is under way the place it carries is
  that one, and `PlaceStep` has a case for each action that begins a handler, sends
  one of its calls or ends it.

`ManagerWindowProofs`, for any names, filters and listings: `SelectionCorrect`
(`SelectionShown`) and the action property `KeyboardCorrect`
(`SheetOwnsKeyboard`). What is selected is not inductive, since a rubber band adds
what was selected when it was pressed: `Picked` is both, and `PickedFiltered` says
that a filter never hides a part of it, not even one whose rows have vanished and
may come back. `Aside` sums up the gestures that leave rows and selection alone.

`ManagerProgressProofs`:

* Scans, for any ranges, numbers of pages and scans: `NothingSkippedCorrect` and
  `ResumeCorrect`. What the list shows is not inductive: a call knows its
  devices and its offset only in its locals. `LoopFollows` says that the call
  whose id is current goes on where the list ends, `ResumeFollows` that the kept
  offset does. Older calls may hold anything; the comparison of ids keeps them
  out.
* Downloads, for any files, jobs of links and handlers: `OneQueuedPartCorrect`. A
  step either lets no file wait that did not wait before (`FewerWait`), or is the
  step after the await that adds a job with files that wait nowhere.
* Lists, for any items and accounts: `ShortlistFollows` (`ListsFollow`). A reload may
  be the last word only while no other handler of its lists is under way: such
  a handler is the only one that uses them (`AloneIsAlone`), so what it has read is
  still what the service has (`ReadIsKept`), and the page is behind only while a
  handler has still to read (`OnlyReadersBehind`), or a write of the list failed
  after it took effect and nobody has read the list since. `GoesOnSafe` is about
  handlers that end without a read, `WriteSafe` about those that go on to read.

`ManagerNavigationProofs`, for any locations, links and sessions:
`ShownIsPlaceCorrect` and `CacheCorrect`. The invariant adds that the sessions
kept and those of the loads are of their locations (`Background`) and that the
load of the current generation is for the place the page has
(`CurrentIsPlace`), unless a new place awaits its `Commit`.

`ElementProofs`:

* The dialog: `SavedAsShownCorrect`. As long as no calls cross, at most one load is
  under way (`OneLoad`), and while the dialog may be used the session and the
  folder it has are those displayed (`UsableIsShown`), which also needs that a
  root that could not be opened leaves the button disabled.
* The element, for any targets, paths and sessions: `LeavesNothing`
  (`NothingLeft`), `RemovedLeavesNothing` (`RemovedClosesAll`) and
  `ManagesWhereShown` (`ManagedWhereShown`). While the calls come one after the
  other (`Alone`), the one call says whose session the element has: none while it
  closes or opens one, its own while it lists, and a call that began before the
  element left its page is of an older generation (`Orderly`). So the only session
  open is the one held, also when the element is removed in the middle of a
  call.
* The discovery panel: `NextContinuesCorrect`. While the calls come one after the
  other, a call for a page asks for the ranges in the field, which stays
  disabled (`ProbeFollows`), and its devices follow those listed.

Every safety invariant of the passing runs is a theorem. Only model-checked are
the properties that need fairness or `ENABLED`, which are out of the prover's
reach (`PackingEnds`, `PurgeAnswered`, `CallsEnd`, `CloseEnds`, `TasksEnd`,
`DeadAreReaped`, `ShutdownEnds`, `ScanEnds`, `ListConverges`, `LoadingEnds`,
`MountsConverge`).

## 5. What the modules leave out, and the plan

Left out of the modelled parts: names, labels and layout; failures to write
`job.json`; second cancellations of a cleanup; polls of the mounts that overlap each other
(manager.js 43 starts one without asking whether the last has been answered);
progress of transfers, the
details pane, themes and the stored choices of the view; the shortlist of the
element's sidebar and its client class, which is one request per method. What
the code leaves unprotected, and a property therefore excludes or no property
covers, is noted at its hazard in `PROJECT.json`: a place left while its load
is under way (manager.js 666, 1471, 1615), a mount list that stays empty after
one failed read (1369), handlers that read the place after their dialog (1490,
1497, 1503), a picker that keeps its place and not its session (1579), sessions
left by overlapping calls of the dialog (334) and of the element
(`frontend/browser.js` 838, 860), a file of another client that takes the place
of a cut's source between its copy and its deletion, and is deleted with it
(manager.js 284), a close that is cancelled while it is queued: the session is
marked before the close is awaited, so nobody closes it again and its worker lives
until its idle period ends (`sessions.py` 428-430), also after the browser was
closed; and a write that changes the list of the service and then fails, which
the page shows only after its next read (`store.py` 96, 111, 149, `remotes.py`
135, 143).

Next, in this order, each module with its MC module, configuration and
properties:

1. **StagedWrite**: local, SMB, NFS and rclone uploads against a concurrent
   client, and crashes; abstract: create only or replace, all or nothing.
   Theorem: create never replaces.
2. **Mounts**: requests, watcher, restart and cleanup; the read-only flag of
   `mounts.py` 616; targets. Theorem: one process per mount.
3. **Transfers**: `tree`, `remove`, `rename`, `copy` as sequences of calls, with
   failures in the middle.
4. **Kubernetes**: shells, the re-run of a command, helper pods.
5. **Stores**: `SavedLocations` and `RemoteStore` with crashes between two files.
6. **DavBridge**: requests of rclone on the calls of a backend.
7. **Access**: sign-in attempts, rates, cookies and the ownership of sessions;
   with them the sign-in page and the command line client's download.
8. **Composition**: archive jobs on sessions: a paused job outlives the worker
   it reads from (`sessions.py` 60).

Not to be modelled: network probes, Windows API calls, set-up and start-up code,
packaging, the recorded tour, the vendored web runtime: they are I/O without
order of their own, or not this program's.
