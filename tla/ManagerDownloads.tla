-------------------------- MODULE ManagerDownloads --------------------------
(***************************************************************************)
(* The downloads of the manager page (web/manager.js): the links to files, *)
(* which only the page knows, the ZIP jobs, which the service runs and the *)
(* page learns of by polling, and the sheet that starts a ZIP job.         *)
(*                                                                         *)
(* A handler runs from one await to the next.  Its calls are in task[t]    *)
(* while the page waits for an answer, and other handlers, the poll and    *)
(* other clients of the service go on.  The page has loaded: the timer of  *)
(* the polls runs.                                                         *)
(*                                                                         *)
(* Abstracted: a ZIP job has one part and one state; progress, names and   *)
(* the open rows of the panel are left out; a file is named by its path.   *)
(***************************************************************************)
EXTENDS Integers, Sequences, FiniteSetsExt, Functions

CONSTANTS
  Files, Folders,  \* entries of the folder shown
  Zips,            \* ZIP jobs the service may create
  Stores,          \* ZIP preparation folders of the service
  Free,            \* Free[s]: bytes free on store s
  Size,            \* Size[e]: bytes entry e needs in a ZIP
  MB, GB,          \* bytes of the units of a part size
  MaxParts,        \* parts a ZIP may have (999 in the code)
  Customs,         \* sizes the custom field is given, in halves of its unit
  MaxBatches,      \* bound: jobs of links
  MaxGestures,     \* bound: gestures of the user
  Slots,           \* bound: handlers that wait at a time
  None             \* nothing

ASSUME DownloadsAssumption ==
  /\ Files \cap Folders = {}
  /\ MaxBatches \in Nat /\ MaxGestures \in Nat
  /\ Free \in [Stores -> Nat] /\ Size \in [Files \cup Folders -> Nat]
  /\ MB \in Nat \ {0} /\ GB \in Nat \ {0} /\ MaxParts \in Nat \ {0} /\ Customs \subseteq Nat

VARIABLES
  gestures,     \* gestures the user has made
  task,         \* task[t]: what the handler in slot t waits for
  batches,      \* batches[b]: parts and downloaded parts of the b-th job of links
  made,         \* jobs of links made so far
  confirm,      \* state.confirm
  sheet,        \* state.zip
  stores,       \* state.stores
  list,         \* the ZIP jobs of state.transfers
  polling,      \* this.polling, and how far the request has come
  answer,       \* the answer to the poll
  jobs,         \* the ZIP jobs of the service
  folders       \* the ZIP preparation folders of the service, in order

links == <<batches, made>>
poll == <<polling, answer>>
service == <<jobs, folders>>
downloadVars == <<gestures, task, links, confirm, sheet, stores, list, poll, service>>

Entries == Files \cup Folders
Batches == 1..MaxBatches
NoBatch == [parts |-> {}, downloaded |-> {}]
Live == {b \in Batches : batches[b].parts # {}}

Idle == [op |-> "none", on |-> None, files |-> {}, force |-> FALSE]
Call(op, on, files, force) == [op |-> op, on |-> on, files |-> files, force |-> force]

(* The ZIP jobs a poll lists. *)
Listed(j) == [z \in Zips |-> IF j[z] = "gone" THEN "none" ELSE j[z]]

DownloadsInit ==
  /\ gestures = 0
  /\ task = [t \in Slots |-> Idle]
  /\ batches = [b \in Batches |-> NoBatch] /\ made = 0
  /\ confirm = None /\ sheet = None
  /\ \E first \in Stores : folders = <<first>>
  /\ stores = folders
  /\ jobs \in [Zips -> {"none", "taken", "purged"}] /\ list = Listed(jobs)
  /\ polling = "off" /\ answer = None

(* A modal dialog takes every gesture. *)
Modal == \E t \in Slots : task[t].op = "ask purge"

Gesture ==
  /\ ~Modal /\ gestures < MaxGestures
  /\ gestures' = gestures + 1

(* A handler starts to wait. *)
Begin(call) == \E t \in Slots : task[t] = Idle /\ task' = [task EXCEPT ![t] = call]
Finish(t) == task' = [task EXCEPT ![t] = Idle]
Continue(t, call) == task' = [task EXCEPT ![t] = call]

(* pollJobs: one request at a time. *)
Poll == /\ polling' = IF polling = "off" THEN "asked" ELSE polling
        /\ UNCHANGED answer

-----------------------------------------------------------------------------
(* Links to files *)

AlreadyGrabbed(f) == \E b \in Live : f \in batches[b].downloaded
QueuedPart(f) == \E b \in Live : f \in batches[b].parts \ batches[b].downloaded

(* Only files: links.  With a folder: the ZIP sheet, once its size is known. *)
Download(picked) ==
  /\ Gesture /\ picked # {}
  /\ Begin(IF picked \subseteq Files THEN Call("batch", None, picked, FALSE)
                                     ELSE Call("estimate", None, picked, FALSE))
  /\ UNCHANGED <<links, confirm, sheet, stores, list, poll, service>>

\* Mutant of Fresh: what is queued is not looked up again after the await.
FreshUnchecked(picked, force) == {f \in picked : force \/ ~AlreadyGrabbed(f)}

Fresh(picked, force) ==
  {f \in picked : ~QueuedPart(f) /\ (force \/ ~AlreadyGrabbed(f))}

(* startBatch has its session: the files get links in a job of their own. *)
BatchOpened(t) ==
  LET picked == task[t].files
      force == task[t].force
      fresh == Fresh(picked, force)
  IN  /\ task[t].op = "batch"
      /\ Finish(t)
      /\ \/ /\ ~force /\ \E f \in picked : AlreadyGrabbed(f)
            /\ confirm' = [on |-> None, files |-> picked]
            /\ UNCHANGED links
         \/ /\ force \/ \A f \in picked : ~AlreadyGrabbed(f)
            /\ confirm' = None
            /\ IF fresh = {} THEN UNCHANGED links
               ELSE /\ made < MaxBatches
                    /\ made' = made + 1
                    /\ batches' = [batches EXCEPT ![made + 1] = [parts |-> fresh, downloaded |-> {}]]
      /\ UNCHANGED <<gestures, sheet, stores, list, poll, service>>

(* A click on the link of file f in job b. *)
GrabPart(b, f) ==
  /\ Gesture
  /\ b \in Live /\ f \in batches[b].parts
  /\ IF AlreadyGrabbed(f)
       THEN confirm' = [on |-> b, files |-> {f}] /\ UNCHANGED task
       ELSE Begin(Call("grab", b, {f}, FALSE)) /\ UNCHANGED confirm
  /\ UNCHANGED <<links, sheet, stores, list, poll, service>>

(* The session is there: the file goes to the browser. *)
HandOver(t) ==
  LET b == task[t].on
      f == CHOOSE f \in task[t].files : TRUE
  IN  /\ task[t].op = "grab"
      /\ Finish(t)
      /\ batches' = IF b \in Live THEN [batches EXCEPT ![b].downloaded = @ \cup {f}] ELSE batches
      /\ confirm' = None
      /\ UNCHANGED <<gestures, made, sheet, stores, list, poll, service>>

(* "Download again" *)
ConfirmAgain ==
  /\ Gesture /\ confirm # None
  /\ \/ /\ confirm.on = None
        /\ Begin(Call("batch", None, confirm.files, TRUE))
        /\ UNCHANGED <<list, confirm>>
     \/ /\ confirm.on \in Live
        /\ Begin(Call("grab", confirm.on, confirm.files, TRUE))
        /\ UNCHANGED <<list, confirm>>
     \/ /\ confirm.on \in Zips /\ list[confirm.on] \in {"ready", "taken"}
        /\ list' = [list EXCEPT ![confirm.on] = "taken"]
        /\ confirm' = None /\ UNCHANGED task
  /\ UNCHANGED <<links, sheet, stores, poll, service>>

CloseConfirm ==
  /\ Gesture /\ confirm # None /\ confirm' = None
  /\ UNCHANGED <<task, links, sheet, stores, list, poll, service>>

(* dropTransfer of a job of links: the page forgets it. *)
DropLinks(b) ==
  /\ Gesture /\ b \in Live
  /\ batches' = [batches EXCEPT ![b] = NoBatch]
  /\ UNCHANGED <<task, made, confirm, sheet, stores, list, poll, service>>

-----------------------------------------------------------------------------
(* The ZIP sheet *)

Needed(picked) == FoldSet(LAMBDA e, n : n + Size[e], 0, picked)

Splits == {"none", "fixed", "custom"}

(* The bytes of a part: none, 1 GB, or what the custom field says. *)
ZipLimit(z) ==
  CASE z.split = "none"  -> 0
    [] z.split = "fixed" -> GB
    [] OTHER             -> (z.custom * (IF z.unit = "GB" THEN GB ELSE MB)) \div 2

ZipPartCount(z) ==
  LET limit == ZipLimit(z)
  IN  IF limit = 0 THEN 1 ELSE Max({1, (z.needed + limit - 1) \div limit})

ZipProblem(z) ==
  \/ z.store \notin DOMAIN stores
  \/ z.split = "custom" /\ ZipLimit(z) = 0
  \/ ZipLimit(z) # 0 /\ ZipLimit(z) < MB
  \/ ZipPartCount(z) > MaxParts
  \/ z.needed > Free[stores[z.store]]

(* The service has estimated the selection: the sheet opens. *)
OpenZip(t) ==
  /\ task[t].op = "estimate"
  /\ Finish(t)
  /\ stores' = folders
  /\ sheet' = [picked |-> task[t].files, needed |-> Needed(task[t].files), split |-> "fixed",
               custom |-> 0, unit |-> "MB", store |-> 1]
  /\ UNCHANGED <<gestures, links, confirm, list, poll, service>>

(* The choices of the sheet. *)
SetZip(split, custom, unit, store) ==
  /\ Gesture /\ sheet # None
  /\ sheet' = [sheet EXCEPT !.split = split, !.custom = custom, !.unit = unit, !.store = store]
  /\ UNCHANGED <<task, links, confirm, stores, list, poll, service>>

CloseZip ==
  /\ Gesture /\ sheet # None /\ sheet' = None
  /\ UNCHANGED <<task, links, confirm, stores, list, poll, service>>

ConfirmZip ==
  /\ Gesture /\ sheet # None /\ ~ZipProblem(sheet)
  /\ Begin(Call("start", stores[sheet.store], sheet.picked, FALSE))
  /\ UNCHANGED <<links, confirm, sheet, stores, list, poll, service>>

(* The service has started the job. *)
Started(t) ==
  /\ task[t].op = "start"
  /\ \E z \in Zips : jobs[z] = "none" /\ jobs' = [jobs EXCEPT ![z] = "packing"]
  /\ Finish(t)
  /\ sheet' = None
  /\ Poll
  /\ UNCHANGED <<gestures, links, confirm, stores, list, folders>>

-----------------------------------------------------------------------------
(* The ZIP jobs *)

Staged == {"packing", "paused", "ready", "taken"}

(* What the row of a job offers. *)
Offers(z) ==
  CASE list[z] = "packing" -> {"pause", "purge", "drop"}
    [] list[z] = "paused"  -> {"resume", "purge", "drop"}
    [] list[z] = "ready"   -> {"grab", "purge", "drop"}
    [] list[z] = "taken"   -> {"again", "purge", "drop"}
    [] list[z] = "purged"  -> {"drop"}
    [] OTHER               -> {}

(* A part of a ZIP is the service's to send: nothing is awaited. *)
GrabZip(z) ==
  /\ Gesture /\ "grab" \in Offers(z)
  /\ list' = [list EXCEPT ![z] = "taken"]
  /\ confirm' = None
  /\ UNCHANGED <<task, links, sheet, stores, poll, service>>

(* It asks before it is sent again. *)
GrabZipAgain(z) ==
  /\ Gesture /\ "again" \in Offers(z)
  /\ confirm' = [on |-> z, files |-> {}]
  /\ UNCHANGED <<task, links, sheet, stores, list, poll, service>>

SetTransfer(z) ==
  /\ Gesture
  /\ \/ "pause" \in Offers(z) /\ Begin(Call("pause", z, {}, FALSE))
     \/ "resume" \in Offers(z) /\ Begin(Call("resume", z, {}, FALSE))
  /\ UNCHANGED <<links, confirm, sheet, stores, list, poll, service>>

(* purgeJob asks; dropTransfer of a job that is not purged purges it. *)
PurgeJob(z) ==
  /\ Gesture /\ "purge" \in Offers(z)
  /\ Begin(Call("ask purge", z, {}, FALSE))
  /\ UNCHANGED <<links, confirm, sheet, stores, list, poll, service>>

AnswerPurge(t) ==
  /\ task[t].op = "ask purge"
  /\ Finish(t) \/ Continue(t, [task[t] EXCEPT !.op = "purge"])
  /\ UNCHANGED <<gestures, links, confirm, sheet, stores, list, poll, service>>

DropZip(z) ==
  /\ Gesture /\ list[z] = "purged"
  /\ Begin(Call("forget", z, {}, FALSE))
  /\ UNCHANGED <<links, confirm, sheet, stores, list, poll, service>>

(* clearFinished: the purged jobs of the list are forgotten one after the other. *)
ClearFinished ==
  /\ Gesture
  /\ Begin(Call("clear", None, {z \in Zips : list[z] = "purged"}, FALSE))
  /\ UNCHANGED <<links, confirm, sheet, stores, list, poll, service>>

ClearStep(t) ==
  LET left == task[t].files
  IN  /\ task[t].op = "clear"
      /\ \/ /\ left = {} /\ Finish(t) /\ Poll /\ UNCHANGED jobs
         \/ \E z \in left :
              /\ jobs[z] = "purged" /\ jobs' = [jobs EXCEPT ![z] = "gone"]
              /\ Continue(t, [task[t] EXCEPT !.files = left \ {z}]) /\ UNCHANGED poll
      /\ UNCHANGED <<gestures, links, confirm, sheet, stores, list, folders>>

(* The service has done what the page asked. *)
JobAnswered(t) ==
  LET z == task[t].on
      op == task[t].op
  IN  /\ Finish(t)
      /\ \/ /\ op = "pause" /\ jobs[z] = "packing"
            /\ jobs' = [jobs EXCEPT ![z] = "paused"] /\ Poll /\ UNCHANGED list
         \/ /\ op = "resume" /\ jobs[z] = "paused"
            /\ jobs' = [jobs EXCEPT ![z] = "packing"] /\ Poll /\ UNCHANGED list
         \/ /\ op = "purge" /\ jobs[z] \in Staged
            /\ jobs' = [jobs EXCEPT ![z] = "purged"] /\ Poll /\ UNCHANGED list
         \/ /\ op = "forget" /\ jobs[z] = "purged"
            /\ jobs' = [jobs EXCEPT ![z] = "gone"]
            /\ list' = [list EXCEPT ![z] = "none"] /\ UNCHANGED poll
      /\ UNCHANGED <<gestures, links, confirm, sheet, stores, folders>>

(* A call fails: the handler ends where it is. *)
TaskFails(t) ==
  /\ task[t].op \notin {"none", "ask purge"}
  /\ Finish(t)
  /\ UNCHANGED <<gestures, links, confirm, sheet, stores, list, poll, service>>

-----------------------------------------------------------------------------
(* pollJobs, which every 5 s and the end of most handlers call *)

PollTimer ==
  /\ polling = "off" /\ Poll
  /\ UNCHANGED <<gestures, task, links, confirm, sheet, stores, list, service>>

(* The service answers with its jobs and stores as they are now. *)
ServePoll ==
  /\ polling = "asked"
  /\ polling' = "answered" /\ answer' = [jobs |-> Listed(jobs), folders |-> folders]
  /\ UNCHANGED <<gestures, task, links, confirm, sheet, stores, list, service>>

(* The jobs of links stay, the ZIP jobs are those of the answer. *)
ApplyPoll ==
  /\ polling = "answered"
  /\ polling' = "off" /\ answer' = None
  /\ list' = answer.jobs /\ stores' = answer.folders
  /\ UNCHANGED <<gestures, task, links, confirm, sheet, service>>

\* Mutant of FailPoll: a poll that fails leaves the flag set.
FailPollStuck ==
  /\ polling = "asked"
  /\ polling' = "failed" /\ UNCHANGED answer
  /\ UNCHANGED <<gestures, task, links, confirm, sheet, stores, list, service>>

FailPoll ==
  /\ polling = "asked"
  /\ polling' = "off" /\ UNCHANGED answer
  /\ UNCHANGED <<gestures, task, links, confirm, sheet, stores, list, service>>

-----------------------------------------------------------------------------
(* The service and its other clients *)

Packed(z) ==
  /\ jobs[z] = "packing" /\ jobs' = [jobs EXCEPT ![z] = "ready"]
  /\ UNCHANGED <<gestures, task, links, confirm, sheet, stores, list, poll, folders>>

(* The browser has fetched a part it was handed. *)
Fetched(z) ==
  /\ list[z] = "taken" /\ jobs[z] = "ready" /\ jobs' = [jobs EXCEPT ![z] = "taken"]
  /\ UNCHANGED <<gestures, task, links, confirm, sheet, stores, list, poll, folders>>

(* A store chosen by another page comes first. *)
StoreAdded(s) ==
  /\ s \notin Range(folders) /\ folders' = <<s>> \o folders
  /\ UNCHANGED <<gestures, task, links, confirm, sheet, stores, list, poll, jobs>>

-----------------------------------------------------------------------------
DownloadsGesture ==
  \/ \E picked \in SUBSET Entries : Download(picked)
  \/ \E b \in Batches : DropLinks(b) \/ \E f \in Files : GrabPart(b, f)
  \/ ConfirmAgain \/ CloseConfirm
  \/ \E split \in Splits, custom \in Customs, unit \in {"MB", "GB"}, store \in DOMAIN stores :
       SetZip(split, custom, unit, store)
  \/ CloseZip \/ ConfirmZip \/ ClearFinished
  \/ \E z \in Zips : GrabZip(z) \/ GrabZipAgain(z) \/ SetTransfer(z) \/ PurgeJob(z) \/ DropZip(z)

DownloadsAnswer(t) ==
  BatchOpened(t) \/ HandOver(t) \/ OpenZip(t) \/ Started(t) \/ JobAnswered(t)
  \/ ClearStep(t) \/ TaskFails(t)

DownloadsNext ==
  \/ DownloadsGesture
  \/ \E t \in Slots : DownloadsAnswer(t) \/ AnswerPurge(t)
  \/ PollTimer \/ ServePoll \/ ApplyPoll \/ FailPoll
  \/ \E z \in Zips : Packed(z) \/ Fetched(z)
  \/ \E s \in Stores : StoreAdded(s)

(* Calls are answered, the tab is looked at, and the polls do not all fail; the user and  *)
(* the packing of a job may stop for ever.                                              *)
DownloadsFairness ==
  /\ WF_downloadVars(\E t \in Slots : DownloadsAnswer(t))
  /\ WF_downloadVars(PollTimer) /\ SF_downloadVars(ServePoll) /\ WF_downloadVars(ApplyPoll)

DownloadsSpec == DownloadsInit /\ [][DownloadsNext]_downloadVars /\ DownloadsFairness

-----------------------------------------------------------------------------
(* A file waits behind one link at most, however many handlers wait for a  *)
(* session at the same time: "a second request for a still-queued file     *)
(* reuses its job rather than minting a duplicate" (manager.js:421).       *)
OneQueuedPart ==
  \A f \in Files, a, b \in Live :
    /\ f \in batches[a].parts \ batches[a].downloaded
    /\ f \in batches[b].parts \ batches[b].downloaded
    => a = b

(* Whatever a poll under way, a handler's own poll that is skipped, or a   *)
(* job the page removed itself did to the list, it ends up the service's   *)
(* (1604-1611).                                                            *)
ListConverges == <>[](list = Listed(jobs) /\ stores = folders)

=============================================================================
