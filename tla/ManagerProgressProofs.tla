------------------------ MODULE ManagerProgressProofs ------------------------
(*****************************************************************************)
(* Theorems about the parts of the manager page whose answers arrive late,   *)
(* for any instance that satisfies their assumptions.  The scan: the devices *)
(* listed are those of the pages asked so far, and no page is skipped.  The  *)
(* transfers: a file waits behind one link at most.  The lists: the page     *)
(* shows those of the service when nothing reads or writes them.             *)
(*****************************************************************************)
EXTENDS ManagerScan, ManagerDownloads, ManagerShortlist, TLAPS


-----------------------------------------------------------------------------
(* The scan *)

Pause == [key : Ranges, offset : Nat]

ScanTypes ==
  /\ ranges \in Ranges /\ listed \in Ranges
  /\ scan \in {"idle", "running", "stopped", "done"}
  /\ scanId \in Nat /\ probed \in Nat
  /\ resume \in Pause \cup {NoPage}
  /\ loops \in [Ids -> Loops]

(* A call whose id nothing has replaced goes on where the list ends. *)
LoopFollows ==
  \A i \in Ids : loops[i].at = "asked" =>
    /\ i <= scanId
    /\ i = scanId => /\ loops[i].key = listed /\ loops[i].offset = probed
                     /\ loops[i].devices = devices
                     /\ probed < Pages[listed]

(* So does a scan that may be resumed. *)
ResumeFollows ==
  resume # NoPage => resume.key = listed /\ resume.offset = probed /\ probed < Pages[listed]

ScanIInv == ScanTypes /\ LoopFollows /\ ResumeFollows /\ NothingSkipped

-----------------------------------------------------------------------------
(* One more page. *)
LEMMA FoundOneMore ==
  ASSUME NEW r, NEW n \in Nat
  PROVE  Found(r, n + 1) = Found(r, n) \cup {<<r, n>>}
<1>1. 0..((n + 1) - 1) = (0..(n - 1)) \cup {n}
  OBVIOUS
<1>2. QED
  BY <1>1 DEF Found

(* What is found on the pages of a range are devices. *)
LEMMA FoundType ==
  ASSUME NEW r \in Ranges, NEW n \in Nat
  PROVE  Found(r, n) \subseteq FoundDevices
BY DEF Found, FoundDevices

LEMMA ScanInitially == ScanInit => ScanIInv
<1> SUFFICES ASSUME ScanInit PROVE ScanIInv
  OBVIOUS
<1> USE ScanAssumption DEF ScanInit
<1>1. NoLoop \in Loops /\ NoLoop.at = "over"
  BY DEF NoLoop, Loops
<1>2. ScanTypes /\ LoopFollows
  BY <1>1 DEF ScanTypes, LoopFollows
<1>3. NothingSkipped
  BY DEF NothingSkipped, Found
<1>4. QED
  BY <1>2, <1>3 DEF ScanIInv, ResumeFollows

LEMMA StartScanKeeps == ScanIInv /\ StartScan => ScanIInv'
<1> SUFFICES ASSUME ScanIInv, StartScan PROVE ScanIInv'
  OBVIOUS
<1> USE ScanAssumption DEF ScanIInv, ScanTypes, StartScan, page
<1> DEFINE new == [at |-> "asked", key |-> ranges, offset |-> IF Resumed THEN resume.offset ELSE 0,
                   devices |-> devices']
<1>1. devices' = Found(listed', probed') /\ probed' \in Nat /\ probed' < Pages[listed']
  <2>1. CASE Resumed
    BY <2>1 DEF Resumed, ResumeFollows, NothingSkipped
  <2>2. CASE ~Resumed
    BY <2>2 DEF Found
  <2>3. QED
    BY <2>1, <2>2
<1>2. new.offset = probed'
  BY DEF Resumed, ResumeFollows
<1>3. new \in Loops
  BY <1>1, <1>2, FoundType DEF Loops
<1>4. scanId + 1 \in Ids /\ loops' = [loops EXCEPT ![scanId + 1] = new]
  BY DEF Ids
<1>5. ScanTypes'
  BY <1>1, <1>3, <1>4
<1>6. LoopFollows'
  <2> SUFFICES ASSUME NEW i \in Ids, loops'[i].at = "asked"
               PROVE  /\ i <= scanId'
                      /\ i = scanId' => /\ loops'[i].key = listed' /\ loops'[i].offset = probed'
                                        /\ loops'[i].devices = devices' /\ probed' < Pages[listed']
    BY DEF LoopFollows
  <2>1. CASE i = scanId + 1
    BY <2>1, <1>1, <1>2, <1>4
  <2>2. CASE i # scanId + 1
    BY <2>2, <1>4 DEF LoopFollows, Ids
  <2>3. QED
    BY <2>1, <2>2
<1>7. QED
  BY <1>1, <1>5, <1>6 DEF ResumeFollows, NothingSkipped

LEMMA AnswerKeeps == ASSUME NEW i \in Ids PROVE ScanIInv /\ Answer(i) => ScanIInv'
<1> SUFFICES ASSUME ScanIInv, Answer(i) PROVE ScanIInv'
  OBVIOUS
<1> USE ScanAssumption DEF ScanIInv, ScanTypes, page
<1> DEFINE l == loops[i]
           next == l.offset + 1
           more == next < Pages[l.key]
           found == l.devices \cup {<<l.key, l.offset>>}
<1>1. l \in Loops /\ l.at = "asked" /\ UNCHANGED <<ranges, scanId, listed>>
  BY DEF Answer
<1>2. CASE Stale(i) \/ cancelled
  <2>1. /\ loops' = [loops EXCEPT ![i].at = "over"]
        /\ UNCHANGED <<devices, probed, resume>> /\ scan' \in {scan, "stopped"}
    BY <1>2 DEF Answer
  <2>2. /\ loops' \in [Ids -> Loops]
        /\ \A j \in Ids : loops'[j].at = "asked" => loops'[j] = loops[j]
    BY <1>1, <2>1 DEF Loops
  <2>3. LoopFollows'
    BY <1>1, <2>1, <2>2 DEF LoopFollows
  <2>4. QED
    BY <1>1, <2>1, <2>2, <2>3 DEF ResumeFollows, NothingSkipped
<1>3. CASE ~Stale(i) /\ ~cancelled
  <2>1. /\ devices' = found /\ probed' = next
        /\ resume' = IF more THEN [key |-> l.key, offset |-> next] ELSE NoPage
        /\ loops' = [loops EXCEPT ![i].devices = found, ![i].offset = next,
                                  ![i].at = IF more THEN "asked" ELSE "over"]
        /\ scan' = IF more THEN scan ELSE "done"
    BY <1>3 DEF Answer
  <2>2. i = scanId /\ l.key = listed /\ l.offset = probed /\ l.devices = devices /\ probed < Pages[listed]
    BY <1>1, <1>3 DEF LoopFollows, Stale
  <2>3. devices' = Found(listed', probed') /\ probed' \in Nat
    BY <1>1, <2>1, <2>2, FoundOneMore DEF NothingSkipped
  <2>4. (more <=> probed' < Pages[listed']) /\ (~more => probed' = Pages[listed'])
    BY <1>1, <2>1, <2>2
  <2>5. loops'[i] = [l EXCEPT !.devices = found, !.offset = next, !.at = IF more THEN "asked" ELSE "over"]
    BY <2>1
  <2>6. loops'[i] \in Loops
    <3>1. found \in SUBSET FoundDevices /\ next \in Nat
      BY <1>1, <2>1, <2>2, <2>3, FoundType
    <3>2. QED
      BY <1>1, <2>5, <3>1 DEF Loops
  <2>7. /\ loops' \in [Ids -> Loops]
        /\ \A j \in Ids \ {i} : loops'[j] = loops[j]
    BY <2>1, <2>6
  <2>8. /\ loops'[i].key = listed' /\ loops'[i].offset = probed'
        /\ loops'[i].devices = devices' /\ (loops'[i].at = "asked" => more)
    BY <1>1, <2>1, <2>2, <2>5 DEF Loops
  <2>9. LoopFollows'
    <3> SUFFICES ASSUME NEW j \in Ids, loops'[j].at = "asked"
                 PROVE  /\ j <= scanId'
                        /\ j = scanId' => /\ loops'[j].key = listed' /\ loops'[j].offset = probed'
                                          /\ loops'[j].devices = devices' /\ probed' < Pages[listed']
      BY DEF LoopFollows
    <3>1. CASE j = i
      BY <3>1, <1>1, <2>2, <2>4, <2>8
    <3>2. CASE j # i
      BY <3>2, <1>1, <2>2, <2>7 DEF LoopFollows
    <3>3. QED
      BY <3>1, <3>2
  <2>10. (scan' = "done" => probed' = Pages[listed']) /\ scan' \in {"idle", "running", "stopped", "done"}
    <3>1. CASE more
      BY <3>1, <1>1, <2>1, <2>2 DEF NothingSkipped
    <3>2. CASE ~more
      BY <3>2, <2>1, <2>4
    <3>3. QED
      BY <3>1, <3>2
  <2>11. resume' \in Pause \cup {NoPage} /\ ResumeFollows'
    BY <1>1, <2>1, <2>2, <2>3, <2>4 DEF ResumeFollows, Pause, Loops
  <2>12. ScanTypes' /\ NothingSkipped'
    BY <1>1, <2>3, <2>7, <2>10, <2>11 DEF NothingSkipped
  <2>13. QED
    BY <2>9, <2>11, <2>12
<1>4. QED
  BY <1>2, <1>3

LEMMA FailKeeps == ASSUME NEW i \in Ids PROVE ScanIInv /\ Fail(i) => ScanIInv'
<1> SUFFICES ASSUME ScanIInv, Fail(i) PROVE ScanIInv'
  OBVIOUS
<1> USE DEF ScanIInv, ScanTypes, Fail, page, fields
<1>1. scan' \in {scan, "stopped"}
  BY DEF AfterFailure
<1>2. /\ loops' \in [Ids -> Loops]
      /\ \A j \in Ids : loops'[j].at = "asked" => loops'[j] = loops[j]
  BY DEF Loops
<1>3. LoopFollows'
  BY <1>2 DEF LoopFollows
<1>4. QED
  BY <1>1, <1>2, <1>3 DEF ResumeFollows, NothingSkipped

(* The other steps leave the list and the calls as they are. *)
LEMMA OthersKeep ==
  ScanIInv /\ (CancelScan \/ ScanBoot \/ ScanUnmount \/ \E r \in Ranges : SetRanges(r)) => ScanIInv'
<1> SUFFICES ASSUME ScanIInv, CancelScan \/ ScanBoot \/ ScanUnmount \/ \E r \in Ranges : SetRanges(r)
             PROVE  ScanIInv'
  OBVIOUS
<1> USE ScanAssumption DEF ScanIInv, ScanTypes, fields, panel, page
<1>1. UNCHANGED <<devices, probed, resume, loops, listed>> /\ ranges' \in Ranges
  BY DEF CancelScan, ScanBoot, ScanUnmount, SetRanges
<1>2. scan' \in {"idle", "running", "stopped", "done"} /\ (scan' = "done" => scan = "done")
  BY DEF CancelScan, ScanBoot, ScanUnmount, SetRanges
<1>3. scanId' \in {scanId, scanId + 1}
  BY DEF CancelScan, ScanBoot, ScanUnmount, SetRanges
<1>4. LoopFollows'
  BY <1>1, <1>3 DEF LoopFollows, Ids
<1>5. QED
  BY <1>1, <1>2, <1>3, <1>4 DEF ResumeFollows, NothingSkipped

LEMMA ScanStepKeeps == ScanIInv /\ [ScanNext]_scanVars => ScanIInv'
<1> SUFFICES ASSUME ScanIInv, [ScanNext]_scanVars PROVE ScanIInv'
  OBVIOUS
<1>1. CASE StartScan
  BY <1>1, StartScanKeeps
<1>2. ASSUME NEW i \in Ids, Answer(i) PROVE ScanIInv'
  BY <1>2, AnswerKeeps
<1>3. ASSUME NEW i \in Ids, Fail(i) PROVE ScanIInv'
  BY <1>3, FailKeeps
<1>4. CASE CancelScan \/ ScanBoot \/ ScanUnmount \/ \E r \in Ranges : SetRanges(r)
  BY <1>4, OthersKeep
<1>5. CASE UNCHANGED scanVars
  BY <1>5 DEF scanVars, page, panel, fields, ScanIInv, ScanTypes, LoopFollows, ResumeFollows, NothingSkipped
<1>6. QED
  BY <1>1, <1>2, <1>3, <1>4, <1>5 DEF ScanNext, ScanGesture, ScanAnswer

-----------------------------------------------------------------------------
(* The list shows what the pages asked so far found of the ranges it is    *)
(* for, and a scan that is done has asked them all, however scans are      *)
(* stopped, resumed, restarted and answered late (manager.js:561-573).     *)
THEOREM NothingSkippedCorrect == ScanSpec => []NothingSkipped
<1>1. ScanInit => ScanIInv
  BY ScanInitially
<1>2. ScanIInv /\ [ScanNext]_scanVars => ScanIInv'
  BY ScanStepKeeps
<1>3. ScanIInv => NothingSkipped
  BY DEF ScanIInv
<1>4. QED
  BY <1>1, <1>2, <1>3, PTL DEF ScanSpec

(* A scan that is resumed asks for the page after the last one that is     *)
(* listed, and there is such a page (562-563).                             *)
THEOREM ResumeCorrect == ScanSpec => []ResumeFollows
<1>1. ScanInit => ScanIInv
  BY ScanInitially
<1>2. ScanIInv /\ [ScanNext]_scanVars => ScanIInv'
  BY ScanStepKeeps
<1>3. ScanIInv => ResumeFollows
  BY DEF ScanIInv
<1>4. QED
  BY <1>1, <1>2, <1>3, PTL DEF ScanSpec

-----------------------------------------------------------------------------
(* The transfers *)

(* A job of links is its parts and those of them that were downloaded. *)
LinksShape ==
  /\ made \in Nat
  /\ batches = [b \in Batches |-> batches[b]]
  /\ \A b \in Batches : batches[b] = [parts |-> batches[b].parts, downloaded |-> batches[b].downloaded]

LinksIInv == LinksShape /\ OneQueuedPart

(* File f waits behind the link of job b. *)
Waits(f, b) == b \in Live /\ f \in batches[b].parts \ batches[b].downloaded

-----------------------------------------------------------------------------
(* No file waits behind a link it did not wait behind before. *)
LEMMA FewerWait ==
  ASSUME LinksIInv, LinksShape', \A f \in Files, b \in Batches : Waits(f, b)' => Waits(f, b)
  PROVE  LinksIInv'
<1>1. OneQueuedPart'
  BY DEF LinksIInv, OneQueuedPart, Waits, Live
<1>2. QED
  BY <1>1 DEF LinksIInv

LEMMA QuietLinks == LinksIInv /\ UNCHANGED links => LinksIInv'
BY DEF LinksIInv, LinksShape, OneQueuedPart, Live, links

LEMMA LinksInitially == DownloadsInit => LinksIInv
BY DEF DownloadsInit, LinksIInv, LinksShape, OneQueuedPart, Live, NoBatch

(* A new job holds the files that wait behind no link after the await. *)
LEMMA BatchOpenedKeeps ==
  ASSUME NEW t \in Slots PROVE LinksIInv /\ BatchOpened(t) => LinksIInv'
<1> SUFFICES ASSUME LinksIInv, BatchOpened(t) PROVE LinksIInv'
  OBVIOUS
<1> DEFINE fresh == Fresh(task[t].files, task[t].force)
<1>1. CASE UNCHANGED links
  BY <1>1, QuietLinks
<1>2. CASE /\ made < MaxBatches /\ made' = made + 1
           /\ batches' = [batches EXCEPT ![made + 1] = [parts |-> fresh, downloaded |-> {}]]
  <2>1. made \in Nat /\ made + 1 \in Batches
    BY <1>2, DownloadsAssumption DEF LinksIInv, LinksShape, Batches
  <2>2. /\ DOMAIN batches = Batches
        /\ batches'[made + 1] = [parts |-> fresh, downloaded |-> {}]
        /\ \A b \in Batches \ {made + 1} : batches'[b] = batches[b]
    BY <1>2, <2>1 DEF LinksIInv, LinksShape
  <2>3. LinksShape'
    <3>1. batches' = [b \in Batches |-> batches'[b]] /\ made' \in Nat
      <4> HIDE DEF fresh
      <4>1. batches' = [b \in Batches |-> batches'[b]]
        BY <1>2, <2>2
      <4>2. made' \in Nat
        BY <1>2, <2>1
      <4>3. QED
        BY <4>1, <4>2
    <3>2. ASSUME NEW b \in Batches
          PROVE  batches'[b] = [parts |-> batches'[b].parts, downloaded |-> batches'[b].downloaded]
      BY <2>2 DEF LinksIInv, LinksShape
    <3>3. QED
      BY <3>1, <3>2 DEF LinksShape
  <2>4. ASSUME NEW f \in Files, NEW b \in Batches, b # made + 1, Waits(f, b)' PROVE Waits(f, b)
    BY <2>2, <2>4 DEF Waits, Live
  <2>5. ASSUME NEW f \in Files, NEW a \in Batches, a = made + 1, Waits(f, a)', NEW b \in Batches
        PROVE  ~Waits(f, b)
    <3>1. f \in fresh
      BY <2>2, <2>5 DEF Waits
    <3>2. ~QueuedPart(f)
      BY <3>1 DEF Fresh
    <3>3. QED
      BY <3>2 DEF QueuedPart, Waits
  <2>6. \A f \in Files, a, b \in Batches : Waits(f, a) /\ Waits(f, b) => a = b
    BY DEF LinksIInv, OneQueuedPart, Waits
  <2>7. \A f \in Files, a, b \in Batches : Waits(f, a)' /\ Waits(f, b)' => a = b
    <3> SUFFICES ASSUME NEW f \in Files, NEW a \in Batches, NEW b \in Batches, Waits(f, a)', Waits(f, b)'
                 PROVE  a = b
      OBVIOUS
    <3>1. CASE a = made + 1 /\ b # made + 1
      BY <3>1, <2>4, <2>5
    <3>2. CASE b = made + 1 /\ a # made + 1
      BY <3>2, <2>4, <2>5
    <3>3. CASE a # made + 1 /\ b # made + 1
      BY <3>3, <2>4, <2>6
    <3>4. QED
      BY <3>1, <3>2, <3>3
  <2>8. OneQueuedPart'
    BY <2>7 DEF OneQueuedPart, Waits, Live
  <2>9. QED
    BY <2>3, <2>8 DEF LinksIInv
<1>3. QED
  BY <1>1, <1>2 DEF BatchOpened, links

LEMMA HandOverKeeps ==
  ASSUME NEW t \in Slots PROVE LinksIInv /\ HandOver(t) => LinksIInv'
<1> SUFFICES ASSUME LinksIInv, HandOver(t) PROVE LinksIInv'
  OBVIOUS
<1>1. CASE UNCHANGED links
  BY <1>1, QuietLinks
<1>2. ASSUME NEW b \in Live, NEW f, made' = made, batches' = [batches EXCEPT ![b].downloaded = @ \cup {f}]
      PROVE  LinksIInv'
  <2>1. b \in Batches /\ DOMAIN batches = Batches /\ made \in Nat
    BY DEF Live, LinksIInv, LinksShape
  <2>2. /\ batches'[b] = [parts |-> batches[b].parts, downloaded |-> batches[b].downloaded \cup {f}]
        /\ \A a \in Batches \ {b} : batches'[a] = batches[a]
    <3> DEFINE old == batches[b]
    <3>1. old = [parts |-> old.parts, downloaded |-> old.downloaded]
      BY <2>1 DEF LinksIInv, LinksShape
    <3>2. batches'[b] = [old EXCEPT !.downloaded = old.downloaded \cup {f}]
      BY <1>2, <2>1
    <3>3. [old EXCEPT !.downloaded = old.downloaded \cup {f}]
             = [parts |-> old.parts, downloaded |-> old.downloaded \cup {f}]
      <4> HIDE DEF old
      <4>1. QED
        BY <3>1
    <3>4. QED
      BY <1>2, <2>1, <3>2, <3>3
  <2>3. LinksShape'
    <3>1. batches' = [a \in Batches |-> batches'[a]]
      BY <1>2, <2>1
    <3>2. ASSUME NEW a \in Batches
          PROVE  batches'[a] = [parts |-> batches'[a].parts, downloaded |-> batches'[a].downloaded]
      BY <2>2 DEF LinksIInv, LinksShape
    <3>3. QED
      BY <1>2, <2>1, <3>1, <3>2 DEF LinksShape
  <2>4. \A g \in Files, a \in Batches : Waits(g, a)' => Waits(g, a)
    BY <2>1, <2>2 DEF Waits, Live
  <2>5. QED
    BY <2>3, <2>4, FewerWait
<1>3. made' = made
  BY DEF HandOver
<1>4. QED
  BY <1>1, <1>2, <1>3 DEF HandOver, links

LEMMA DropLinksKeeps ==
  ASSUME NEW b \in Batches PROVE LinksIInv /\ DropLinks(b) => LinksIInv'
<1> SUFFICES ASSUME LinksIInv, DropLinks(b) PROVE LinksIInv'
  OBVIOUS
<1>1. made' = made /\ batches' = [batches EXCEPT ![b] = NoBatch] /\ DOMAIN batches = Batches
  BY DEF DropLinks, LinksIInv, LinksShape
<1>2. batches'[b] = NoBatch /\ \A a \in Batches \ {b} : batches'[a] = batches[a]
  BY <1>1
<1>3. LinksShape'
  <2>1. batches' = [a \in Batches |-> batches'[a]]
    BY <1>1
  <2>2. ASSUME NEW a \in Batches
        PROVE  batches'[a] = [parts |-> batches'[a].parts, downloaded |-> batches'[a].downloaded]
    BY <1>2 DEF LinksIInv, LinksShape, NoBatch
  <2>3. QED
    BY <1>1, <2>1, <2>2 DEF LinksIInv, LinksShape
<1>4. \A g \in Files, a \in Batches : Waits(g, a)' => Waits(g, a)
  BY <1>2 DEF Waits, Live, NoBatch
<1>5. QED
  BY <1>3, <1>4, FewerWait

(* The gestures and the answers that leave the jobs of links alone. *)
LEMMA OtherGesturesKeep ==
  ASSUME DownloadsGesture, ~(\E b \in Batches : DropLinks(b)) PROVE UNCHANGED links
BY DEF DownloadsGesture, Download, GrabPart, ConfirmAgain, CloseConfirm, SetZip, CloseZip, ConfirmZip,
       ClearFinished, GrabZip, GrabZipAgain, SetTransfer, PurgeJob, DropZip, links

LEMMA OtherAnswersKeep ==
  ASSUME NEW t \in Slots, OpenZip(t) \/ Started(t) \/ JobAnswered(t) \/ ClearStep(t) \/ TaskFails(t) \/ AnswerPurge(t)
  PROVE  UNCHANGED links
BY DEF OpenZip, Started, JobAnswered, ClearStep, TaskFails, AnswerPurge, links

LEMMA ServiceStepsKeep ==
  ASSUME \/ PollTimer \/ ServePoll \/ ApplyPoll \/ FailPoll
         \/ \E z \in Zips : Packed(z) \/ Fetched(z)
         \/ \E s \in Stores : StoreAdded(s)
  PROVE  UNCHANGED links
BY DEF PollTimer, ServePoll, ApplyPoll, FailPoll, Packed, Fetched, StoreAdded, links

LEMMA LinksStepKeeps == LinksIInv /\ [DownloadsNext]_downloadVars => LinksIInv'
<1> SUFFICES ASSUME LinksIInv, [DownloadsNext]_downloadVars PROVE LinksIInv'
  OBVIOUS
<1>1. CASE DownloadsGesture
  <2>1. CASE \E b \in Batches : DropLinks(b)
    BY <2>1, DropLinksKeeps
  <2>2. CASE ~(\E b \in Batches : DropLinks(b))
    BY <1>1, <2>2, OtherGesturesKeep, QuietLinks
  <2>3. QED
    BY <2>1, <2>2
<1>2. ASSUME NEW t \in Slots, DownloadsAnswer(t) \/ AnswerPurge(t) PROVE LinksIInv'
  <2>1. CASE BatchOpened(t)
    BY <2>1, BatchOpenedKeeps
  <2>2. CASE HandOver(t)
    BY <2>2, HandOverKeeps
  <2>3. CASE OpenZip(t) \/ Started(t) \/ JobAnswered(t) \/ ClearStep(t) \/ TaskFails(t) \/ AnswerPurge(t)
    BY <2>3, OtherAnswersKeep, QuietLinks
  <2>4. QED
    BY <1>2, <2>1, <2>2, <2>3 DEF DownloadsAnswer
<1>3. CASE \/ PollTimer \/ ServePoll \/ ApplyPoll \/ FailPoll
           \/ \E z \in Zips : Packed(z) \/ Fetched(z)
           \/ \E s \in Stores : StoreAdded(s)
  BY <1>3, ServiceStepsKeep, QuietLinks
<1>4. CASE UNCHANGED downloadVars
  BY <1>4, QuietLinks DEF downloadVars
<1>5. QED
  BY <1>1, <1>2, <1>3, <1>4 DEF DownloadsNext

-----------------------------------------------------------------------------
(* A file waits behind one link at most, however many handlers wait for a  *)
(* session at a time (manager.js:421-445).                                 *)
THEOREM OneQueuedPartCorrect == DownloadsSpec => []OneQueuedPart
<1>1. DownloadsInit => LinksIInv
  BY LinksInitially
<1>2. LinksIInv /\ [DownloadsNext]_downloadVars => LinksIInv'
  BY LinksStepKeeps
<1>3. LinksIInv => OneQueuedPart
  BY DEF LinksIInv
<1>4. QED
  BY <1>1, <1>2, <1>3, PTL DEF DownloadsSpec

-----------------------------------------------------------------------------
(* The lists the page copies *)

ShortlistStep == [ShortlistNext]_shortlistVars

-----------------------------------------------------------------------------
(* Types *)

ListItems == Pinnable \cup Accounts \cup Remotes \cup Mountables \cup {"ready", "installable", "missing"}
TaskOps == {"none", "pin", "unpin", "store", "forgetCreds", "saveCloud", "forgetCloud", "pickCloud", "mount", "install", "eject", "poll"}
TaskRecord ==
  [op : TaskOps, item : ListItems \cup {Unread},
   at : {"off", "naming", "agreeing", "warned", "sent", "forced", "reading"},
   got : [ListNames -> (SUBSET ListItems) \cup {Unread}], alone : BOOLEAN]

(* A handler has read nothing before it reads; only one that unmounts is ever warned. *)
TaskOK(r) ==
  /\ r \in TaskRecord
  /\ r.at # "reading" => r.got = Nothing
  /\ r.op \notin {"none", "pickCloud", "poll"} => r.item \in ListItems
  /\ r.at \in {"warned", "forced"} => r.op = "eject"
  /\ r.op = "store" => r.item \in Accounts

ShortlistTypeOK ==
  /\ clicks \in 0..MaxClicks
  /\ kept \in [ListNames -> SUBSET ListItems] /\ onPage \in [ListNames -> SUBSET ListItems]
  /\ uploading \subseteq Mountables /\ known \subseteq Accounts /\ tainted \subseteq ListNames
  /\ handler \in [Handlers \cup {"poll"} -> TaskRecord]
  /\ \A k \in Handlers \cup {"poll"} : TaskOK(handler[k])
  /\ handler["poll"].op \in {"none", "poll"}

-----------------------------------------------------------------------------
(* What makes a reload the last word *)

Followed == {"pins", "creds", "remotes"}

(* A handler that is alone is the only one of its lists. *)
AloneIsAlone ==
  \A k \in Handlers, name \in Followed :
    handler[k].alone /\ name \in Reads(handler[k].op) => Using(name) = {k}

(* So what it has read is still what the service has. *)
ReadIsKept ==
  \A k \in Handlers, name \in Followed :
    handler[k].alone /\ name \in Reads(handler[k].op) /\ handler[k].got[name] # Unread => handler[k].got[name] = kept[name]

(* A write is read again by its own handler: the page is behind only while one reads. *)
OnlyReadersBehind ==
  \A name \in Followed \ tainted :
    (\A k \in Using(name) : handler[k].at # "reading") => onPage[name] = kept[name]

ShortlistInv == ShortlistTypeOK /\ AloneIsAlone /\ ReadIsKept /\ OnlyReadersBehind

-----------------------------------------------------------------------------
(* Types are kept *)

HandlersOK ==
  /\ handler \in [Handlers \cup {"poll"} -> TaskRecord]
  /\ \A k \in Handlers \cup {"poll"} : TaskOK(handler[k])
  /\ handler["poll"].op \in {"none", "poll"}

(* Handlers begin, go on and end well formed. *)
LEMMA NothingOK == Nothing \in [ListNames -> (SUBSET ListItems) \cup {Unread}]
BY DEF Nothing

LEMMA TaskIsOK ==
  ASSUME NEW op \in TaskOps, NEW item \in ListItems \cup {Unread}, NEW at \in {"off", "naming", "agreeing", "sent", "reading"},
         op \notin {"none", "pickCloud", "poll"} => item \in ListItems, op = "store" => item \in Accounts
  PROVE  TaskOK(Task(op, item, at)) /\ Task(op, item, at).op = op
BY NothingOK DEF TaskOK, TaskRecord, Task

LEMMA RestOK == TaskOK(Rest) /\ Rest.op = "none"
<1>1. "none" \in TaskOps
  BY DEF TaskOps
<1>2. QED
  BY <1>1, TaskIsOK DEF Rest

LEMMA SetOK ==
  ASSUME HandlersOK, NEW k \in Handlers \cup {"poll"}, NEW r, TaskOK(r), handler' = [handler EXCEPT ![k] = r],
         k = "poll" => r.op \in {"none", "poll"}
  PROVE  HandlersOK'
BY DEF HandlersOK, TaskOK

LEMMA EndsOK ==
  ASSUME HandlersOK, NEW k \in Handlers \cup {"poll"}, Ends(k)
  PROVE  HandlersOK'
BY RestOK, SetOK DEF Ends

LEMMA ToOK ==
  ASSUME HandlersOK, NEW k \in Handlers, NEW at \in {"sent", "warned", "forced", "reading"}, To(k, at),
         handler[k].at # "reading", at \in {"warned", "forced"} => handler[k].op = "eject"
  PROVE  HandlersOK'
<1>1. PICK r : r = [handler[k] EXCEPT !.at = at]
  OBVIOUS
<1>2. TaskOK(handler[k])
  BY DEF HandlersOK
<1>3. TaskOK(r) /\ r.op = handler[k].op
  BY <1>1, <1>2 DEF TaskOK, TaskRecord
<1>4. handler' = [handler EXCEPT ![k] = r]
  BY <1>1 DEF To
<1>5. k = "poll" => r.op \in {"none", "poll"}
  BY <1>3 DEF HandlersOK
<1>6. QED
  BY <1>3, <1>4, <1>5, SetOK

LEMMA StartOK ==
  ASSUME HandlersOK, NEW op \in TaskOps \ {"none", "poll"}, NEW item \in ListItems \cup {Unread}, NEW at \in {"naming", "agreeing", "sent", "reading"},
         op # "pickCloud" => item \in ListItems, op = "store" => item \in Accounts, Start(op, item, at)
  PROVE  HandlersOK'
<1>1. PICK k \in Handlers : handler' = [i \in DOMAIN handler |->
            IF i = k THEN [Task(op, item, at) EXCEPT !.alone = Rivals(op) = {}]
            ELSE [handler[i] EXCEPT !.alone = @ /\ i \notin Rivals(op)]]
  BY DEF Start
<1>2. k # "poll" /\ DOMAIN handler = Handlers \cup {"poll"}
  BY ShortlistAssumption DEF HandlersOK
<1>3. TaskOK(Task(op, item, at))
  BY TaskIsOK
<1>4. \A r, b : TaskOK(r) /\ b \in BOOLEAN => TaskOK([r EXCEPT !.alone = b]) /\ [r EXCEPT !.alone = b].op = r.op
  BY DEF TaskOK, TaskRecord
<1>5. \A i \in Handlers \cup {"poll"} : TaskOK(handler'[i])
  BY <1>1, <1>2, <1>3, <1>4 DEF HandlersOK
<1>6. handler'["poll"].op = handler["poll"].op
  BY <1>1, <1>2, <1>4 DEF HandlersOK
<1>7. QED
  BY <1>1, <1>2, <1>5, <1>6 DEF HandlersOK, TaskOK

(* A write adds to a list of the service or takes away from it. *)
LEMMA WriteOK ==
  ASSUME ShortlistTypeOK, NEW k \in Handlers, NEW name \in ListNames, handler[k].op \notin {"none", "pickCloud", "poll"},
         Added(k, name) \/ Dropped(k, name)
  PROVE  kept' \in [ListNames -> SUBSET ListItems] /\ uploading' \subseteq Mountables
<1>1. handler[k].item \in ListItems
  BY DEF ShortlistTypeOK, TaskOK
<1>2. QED
  BY <1>1 DEF ShortlistTypeOK, Added, Dropped

(* Every action keeps the types. *)
LEMMA ShortlistTypeStep == ShortlistTypeOK /\ ShortlistStep => ShortlistTypeOK'
<1> SUFFICES ASSUME ShortlistTypeOK, ShortlistStep PROVE ShortlistTypeOK'
  OBVIOUS
<1> USE DEF ShortlistTypeOK
<1>h. HandlersOK
  BY DEF HandlersOK
<1>r. \A k \in Handlers \cup {"poll"} : handler[k] \in TaskRecord /\ TaskOK(handler[k])
  OBVIOUS
<1>u. CASE UNCHANGED shortlistVars
  BY <1>u DEF shortlistVars
<1>1. CASE ShortlistGesture
  <2>1. PICK op \in TaskOps \ {"none", "poll"}, item \in ListItems \cup {Unread}, at \in {"naming", "agreeing", "sent", "reading"} :
          Start(op, item, at) /\ (op # "pickCloud" => item \in ListItems) /\ (op = "store" => item \in Accounts)
    <3>1. ASSUME NEW p \in Pinnable, Star(p) \/ Unpin(p) PROVE \E op \in {"pin", "unpin"} : Start(op, p, "sent")
      BY <3>1 DEF Star, Unpin
    <3>2. ASSUME NEW a \in Accounts, StoreCredentials(a) \/ ForgetCreds(a)
          PROVE  \E op \in {"store", "forgetCreds"}, at \in {"sent", "reading"} : Start(op, a, at)
      BY <3>2 DEF StoreCredentials, ForgetCreds
    <3>3. ASSUME NEW r \in Remotes, SaveRemote(r) \/ ForgetRemote(r) PROVE \E op \in {"saveCloud", "forgetCloud"} : Start(op, r, "sent")
      BY <3>3 DEF SaveRemote, ForgetRemote
    <3>4. ASSUME NEW m \in Mountables, MountFolder(m) \/ UnmountFolder(m)
          PROVE  \E op \in {"mount", "install", "eject"}, at \in {"naming", "agreeing", "sent"} : Start(op, m, at)
      BY <3>4 DEF MountFolder, UnmountFolder
    <3>5. CASE PickCloud
      BY <3>5 DEF PickCloud, TaskOps
    <3>6. QED
      BY <1>1, <3>1, <3>2, <3>3, <3>4, <3>5 DEF ShortlistGesture, ListItems, TaskOps
  <2>2. HandlersOK'
    BY <1>h, <2>1, StartOK
  <2>3. QED
    <3>1. clicks' \in 0..MaxClicks /\ UNCHANGED <<kept, uploading, onPage, known, tainted>>
      BY <2>1, ShortlistAssumption DEF Start
    <3>2. QED
      BY <2>2, <3>1 DEF HandlersOK
<1>w. ASSUME NEW k \in Handlers, Written(k) PROVE kept' \in [ListNames -> SUBSET ListItems] /\ uploading' \subseteq Mountables
  <2>1. CASE handler[k].op = "install"
    <3>1. [kept EXCEPT !["helper"] = {"ready"}] \in [ListNames -> SUBSET ListItems]
      BY DEF ListItems
    <3>2. QED
      BY <1>w, <2>1, <3>1 DEF Written
  <2>2. CASE handler[k].op # "install"
    <3>1. \E name \in ListNames : Added(k, name) \/ Dropped(k, name)
      BY <1>w, <2>2 DEF Written, ListNames
    <3>2. handler[k].op \notin {"none", "pickCloud", "poll"}
      BY <1>w, <2>2 DEF Written
    <3>3. QED
      BY <3>1, <3>2, WriteOK DEF ShortlistTypeOK
  <2>3. QED
    BY <2>1, <2>2
<1>2. ASSUME NEW k \in Handlers, Agreed(k) \/ Cancelled(k) \/ EjectRefused(k) PROVE ShortlistTypeOK'
  <2>1. HandlersOK'
    <3>1. CASE Ends(k)
      BY <1>h, <3>1, EndsOK
    <3>2. ASSUME ~Ends(k)
          PROVE  \E at \in {"sent", "warned", "forced", "reading"} :
                   To(k, at) /\ handler[k].at # "reading" /\ (at \in {"warned", "forced"} => handler[k].op = "eject")
      BY <1>2, <1>r, <3>2 DEF Agreed, Cancelled, EjectRefused, TaskOK
    <3>3. QED
      BY <1>h, <3>1, <3>2, ToOK
  <2>2. QED
    BY <1>2, <2>1 DEF Agreed, Cancelled, EjectRefused, HandlersOK
<1>3. ASSUME NEW k \in Handlers, Served(k) PROVE ShortlistTypeOK'
  <2>1. HandlersOK'
    BY <1>3, <1>h, ToOK DEF Served, Then
  <2>2. known' \subseteq Accounts
    BY <1>3 DEF Served
  <2>3. QED
    BY <1>3, <1>w, <2>1, <2>2 DEF Served, HandlersOK
<1>f. ASSUME NEW k \in Handlers, WriteFails(k) PROVE ShortlistTypeOK'
  <2>1. HandlersOK'
    <3>1. CASE Ends(k)
      BY <1>h, <3>1, EndsOK
    <3>2. CASE To(k, "reading")
      BY <1>f, <1>h, <3>2, ToOK DEF WriteFails
    <3>3. QED
      BY <1>f, <3>1, <3>2 DEF WriteFails
  <2>2. kept' \in [ListNames -> SUBSET ListItems] /\ uploading' \subseteq Mountables
    BY <1>f, <1>w DEF WriteFails
  <2>3. tainted' \subseteq ListNames
    BY <1>f DEF WriteFails
  <2>4. QED
    BY <1>f, <2>1, <2>2, <2>3 DEF WriteFails, HandlersOK
<1>4. ASSUME NEW k \in Handlers, EjectForced(k) PROVE ShortlistTypeOK'
  <2>1. HandlersOK'
    BY <1>4, <1>h, ToOK DEF EjectForced
  <2>2. kept' \in [ListNames -> SUBSET ListItems] /\ uploading' \subseteq Mountables
    <3>1. handler[k].op = "eject" /\ "mounts" \in ListNames
      BY <1>4, <1>r DEF EjectForced, TaskOK, ListNames
    <3>2. QED
      BY <1>4, <3>1, WriteOK DEF EjectForced
  <2>3. QED
    BY <1>4, <2>1, <2>2 DEF EjectForced, HandlersOK
<1>5. ASSUME NEW k \in Handlers \cup {"poll"}, NEW lists \in Answers, ReadServed(k, lists) PROVE ShortlistTypeOK'
  <2>1. PICK r : r = [handler[k] EXCEPT !.got = [name \in ListNames |-> IF name \in lists THEN kept[name] ELSE handler[k].got[name]]]
    OBVIOUS
  <2>2. handler' = [handler EXCEPT ![k] = r]
    BY <1>5, <2>1 DEF ReadServed
  <2>3. TaskOK(r) /\ r.op = handler[k].op
    <3>1. PICK g : g = [name \in ListNames |-> IF name \in lists THEN kept[name] ELSE handler[k].got[name]]
      OBVIOUS
    <3>2. g \in [ListNames -> (SUBSET ListItems) \cup {Unread}]
      BY <1>r, <3>1 DEF TaskRecord
    <3>3. r = [handler[k] EXCEPT !.got = g]
      BY <2>1, <3>1
    <3>4. QED
      BY <1>5, <1>r, <3>2, <3>3 DEF TaskOK, TaskRecord, ReadServed
  <2>4. HandlersOK'
    BY <1>h, <2>2, <2>3, SetOK
  <2>5. QED
    BY <1>5, <2>4 DEF ReadServed, HandlersOK
<1>6. ASSUME NEW k \in Handlers \cup {"poll"}, Reloaded(k) PROVE ShortlistTypeOK'
  <2>1. HandlersOK'
    <3>1. CASE Ends(k)
      BY <1>h, <3>1, EndsOK
    <3>2. CASE handler[k].op = "install" /\ handler' = [handler EXCEPT ![k] = Task("mount", handler[k].item, "naming")]
      <4>1. handler[k].item \in ListItems /\ "mount" \in TaskOps /\ k # "poll"
        BY <1>r, <3>2, ShortlistAssumption DEF TaskOK, TaskOps
      <4>2. TaskOK(Task("mount", handler[k].item, "naming"))
        BY <4>1, TaskIsOK
      <4>3. QED
        BY <1>h, <3>2, <4>1, <4>2, SetOK
    <3>3. QED
      BY <1>6, <3>1, <3>2 DEF Reloaded
  <2>2. onPage' \in [ListNames -> SUBSET ListItems]
    <3>1. \A name \in Reads(handler[k].op) \cap ListNames : handler[k].got[name] \in SUBSET ListItems
      BY <1>6, <1>r DEF Reloaded, Read, TaskRecord
    <3>2. QED
      BY <1>6, <3>1 DEF Reloaded
  <2>3. known' \subseteq Accounts
    <3>1. handler[k].op = "store" => handler[k].item \in Accounts
      BY <1>r DEF TaskOK
    <3>2. QED
      BY <1>6, <3>1 DEF Reloaded
  <2>4. tainted' \subseteq ListNames
    BY <1>6 DEF Reloaded, Reads, ListNames
  <2>5. QED
    BY <1>6, <2>1, <2>2, <2>3, <2>4 DEF Reloaded, HandlersOK
<1>7. ASSUME NEW k \in Handlers \cup {"poll"}, ReloadFails(k) PROVE ShortlistTypeOK'
  <2>1. HandlersOK'
    BY <1>7, <1>h, EndsOK DEF ReloadFails
  <2>2. tainted' \subseteq ListNames /\ onPage' \in [ListNames -> SUBSET ListItems]
    BY <1>7 DEF ReloadFails, Reads, ListNames
  <2>3. QED
    BY <1>7, <2>1, <2>2 DEF ReloadFails, HandlersOK
<1>8. CASE PollMounts
  <2>1. "poll" \in TaskOps /\ Unread \in ListItems \cup {Unread}
    BY DEF TaskOps
  <2>2. TaskOK(Task("poll", Unread, "reading")) /\ Task("poll", Unread, "reading").op = "poll"
    BY <2>1, TaskIsOK
  <2>3. HandlersOK'
    BY <1>8, <1>h, <2>2, SetOK DEF PollMounts
  <2>4. QED
    BY <1>8, <2>3 DEF PollMounts, HandlersOK
<1>9. ASSUME NEW m \in Mountables, Uploads(m) PROVE ShortlistTypeOK'
  BY <1>9 DEF Uploads
<1>10. QED
  BY <1>u, <1>1, <1>2, <1>3, <1>f, <1>4, <1>5, <1>6, <1>7, <1>8, <1>9 DEF ShortlistStep, ShortlistNext, ShortlistAnswer, Reload

LEMMA ShortlistTypeStart == ShortlistInit => ShortlistTypeOK
<1> SUFFICES ASSUME ShortlistInit PROVE ShortlistTypeOK
  OBVIOUS
<1>1. kept \in [ListNames -> SUBSET ListItems]
  BY DEF ShortlistInit, Helpers, ListItems
<1>2. QED
  BY <1>1, RestOK, ShortlistAssumption DEF ShortlistInit, ShortlistTypeOK, TaskOK

(* The types of the lists and of the handlers. *)
THEOREM ShortlistTypeCorrect == ShortlistSpec => []ShortlistTypeOK
BY ShortlistTypeStart, ShortlistTypeStep, PTL DEF ShortlistSpec, ShortlistStep

-----------------------------------------------------------------------------
(* A reload is the last word *)

LEMMA ReadsOfRest == Reads(Rest.op) = {} /\ \A name \in Followed : name \notin Reads("poll") \cup Reads("mount") \cup Reads("install")
BY DEF Reads, Rest, Task, Followed

(* A step that changes no operation changes who uses a list only by who ends. *)
LEMMA UsingSame ==
  ASSUME NEW name, \A k \in Handlers : name \in Reads(handler'[k].op) <=> name \in Reads(handler[k].op)
  PROVE  Using(name)' = Using(name)
BY DEF Using

(* A gesture takes the others of its lists for company, and is not alone when there are any. *)
LEMMA StartSafe ==
  ASSUME ShortlistInv, ShortlistTypeOK', NEW op \in TaskOps \ {"none", "poll"}, NEW item, NEW at, Start(op, item, at)
  PROVE  ShortlistInv'
<1>1. PICK k \in Handlers :
        /\ handler[k] = Rest
        /\ handler' = [i \in DOMAIN handler |->
            IF i = k THEN [Task(op, item, at) EXCEPT !.alone = Rivals(op) = {}]
            ELSE [handler[i] EXCEPT !.alone = @ /\ i \notin Rivals(op)]]
  BY DEF Start
<1>2. DOMAIN handler = Handlers \cup {"poll"} /\ \A i \in Handlers : handler[i] \in TaskRecord /\ handler'[i] \in TaskRecord
  BY DEF ShortlistInv, ShortlistTypeOK
<1>3. /\ handler'[k].op = op /\ handler'[k].got = Nothing /\ handler'[k].alone = (Rivals(op) = {})
      /\ \A i \in Handlers \ {k} :
           /\ handler'[i].op = handler[i].op /\ handler'[i].got = handler[i].got /\ handler'[i].at = handler[i].at
           /\ handler'[i].alone = (handler[i].alone /\ i \notin Rivals(op))
  BY <1>1, <1>2 DEF Task, TaskRecord
<1>4. \A name \in Followed :
        /\ name \notin Reads(op) => Using(name)' = Using(name)
        /\ name \in Reads(op) => Using(name)' = Using(name) \cup {k} /\ Using(name) \subseteq Rivals(op)
  <2>1. \A name \in Followed : name \notin Reads(handler[k].op)
    BY <1>1, ReadsOfRest
  <2>2. QED
    BY <1>3, <2>1 DEF Using, Rivals
<1>5. AloneIsAlone'
  BY <1>3, <1>4 DEF AloneIsAlone, ShortlistInv, Using, Rivals
<1>6. ReadIsKept'
  <2>1. \A name \in Followed : handler'[k].got[name] = Unread
    BY <1>3 DEF Nothing, Followed, ListNames
  <2>2. UNCHANGED kept
    BY DEF Start
  <2>3. QED
    <3>1. ASSUME NEW i \in Handlers \ {k}, NEW name \in Followed, handler'[i].alone, name \in Reads(handler'[i].op), handler'[i].got[name] # Unread
          PROVE  handler'[i].got[name] = kept'[name]
      <4>1. handler[i].alone /\ handler'[i].got = handler[i].got /\ handler'[i].op = handler[i].op
        BY <1>3, <3>1
      <4>2. QED
        BY <2>2, <3>1, <4>1 DEF ReadIsKept, ShortlistInv
    <3>2. QED
      BY <2>1, <3>1 DEF ReadIsKept
<1>7. OnlyReadersBehind'
  <2>1. UNCHANGED <<kept, onPage, tainted>>
    BY DEF Start
  <2>2. \A name \in Followed : \A i \in Using(name) : i \in Using(name)' /\ handler'[i].at = handler[i].at
    <3>1. \A name \in Followed : k \notin Using(name)
      BY <1>1, ReadsOfRest DEF Using
    <3>2. QED
      BY <1>3, <3>1 DEF Using
  <2>3. QED
    BY <2>1, <2>2 DEF OnlyReadersBehind, ShortlistInv
<1>8. QED
  BY <1>5, <1>6, <1>7 DEF ShortlistInv

(* A handler that does not read goes on or ends: nothing it has read is lost. What it changes on the
   service without reading it is tainted. *)
LEMMA GoesOnSafe ==
  ASSUME ShortlistInv, ShortlistTypeOK', NEW k \in Handlers, Ends(k) \/ (\E at : To(k, at)), handler[k].at # "reading",
         UNCHANGED onPage, tainted \subseteq tainted',
         \A name \in Followed : name \notin Reads(handler[k].op) => kept'[name] = kept[name],
         \A name \in Followed : kept'[name] # kept[name] => name \in tainted'
  PROVE  ShortlistInv'
<1>1. \A i \in Handlers \ {k} : handler'[i] = handler[i]
  BY DEF ShortlistInv, ShortlistTypeOK, Ends, To
<1>2. handler'[k] = Rest \/ (handler'[k].op = handler[k].op /\ handler'[k].got = handler[k].got /\ handler'[k].alone = handler[k].alone)
  BY DEF ShortlistInv, ShortlistTypeOK, Ends, To, TaskRecord
<1>3. \A name \in Followed, i \in Handlers :
        name \in Reads(handler'[i].op) => name \in Reads(handler[i].op) /\ handler'[i].got = handler[i].got /\ handler'[i].alone = handler[i].alone
  BY <1>1, <1>2, ReadsOfRest
<1>4. \A name \in Followed : Using(name)' \subseteq Using(name) /\ Using(name) \subseteq Using(name)' \cup {k}
  BY <1>1, <1>3 DEF Using
<1>5. AloneIsAlone'
  BY <1>3, <1>4 DEF AloneIsAlone, ShortlistInv, Using
<1>6. ReadIsKept'
  <2> SUFFICES ASSUME NEW i \in Handlers, NEW name \in Followed, handler'[i].alone, name \in Reads(handler'[i].op), handler'[i].got[name] # Unread
               PROVE  handler'[i].got[name] = kept'[name]
    BY DEF ReadIsKept
  <2>1. handler[i].alone /\ name \in Reads(handler[i].op) /\ handler[i].got = handler'[i].got
    BY <1>3
  <2>2. i # k
    BY <2>1 DEF ShortlistInv, ShortlistTypeOK, TaskOK, Nothing, Followed, ListNames
  <2>3. name \notin Reads(handler[k].op)
    BY <2>1, <2>2 DEF AloneIsAlone, ShortlistInv, Using
  <2>4. QED
    BY <2>1, <2>3 DEF ReadIsKept, ShortlistInv
<1>7. OnlyReadersBehind'
  BY <1>1, <1>4 DEF OnlyReadersBehind, ShortlistInv, Using
<1>8. QED
  BY <1>5, <1>6, <1>7 DEF ShortlistInv

(* A write is to a list that its handler goes on to read. *)
LEMMA WriteSafe ==
  ASSUME ShortlistInv, ShortlistTypeOK', NEW k \in Handlers, To(k, "reading"), handler[k].at # "reading",
         UNCHANGED <<onPage, tainted>>, \A name \in Followed : name \notin Reads(handler[k].op) => kept'[name] = kept[name]
  PROVE  ShortlistInv'
<1>1. /\ \A i \in Handlers \ {k} : handler'[i] = handler[i]
      /\ handler'[k].at = "reading" /\ handler'[k].op = handler[k].op /\ handler'[k].got = Nothing /\ handler'[k].alone = handler[k].alone
  BY DEF ShortlistInv, ShortlistTypeOK, To, TaskRecord, TaskOK
<1>2. \A name \in Followed : Using(name)' = Using(name)
  BY <1>1, UsingSame
<1>3. AloneIsAlone'
  BY <1>1, <1>2 DEF AloneIsAlone, ShortlistInv
<1>4. ReadIsKept'
  <2> SUFFICES ASSUME NEW i \in Handlers, NEW name \in Followed, handler'[i].alone, name \in Reads(handler'[i].op), handler'[i].got[name] # Unread
               PROVE  handler'[i].got[name] = kept'[name]
    BY DEF ReadIsKept
  <2>1. i # k
    BY <1>1 DEF Nothing, Followed, ListNames
  <2>2. Using(name) = {i}
    BY <1>1, <2>1 DEF AloneIsAlone, ShortlistInv
  <2>3. name \notin Reads(handler[k].op)
    BY <2>1, <2>2 DEF Using
  <2>4. QED
    BY <1>1, <2>1, <2>3 DEF ReadIsKept, ShortlistInv
<1>5. OnlyReadersBehind'
  BY <1>1, <1>2 DEF OnlyReadersBehind, ShortlistInv, Using
<1>6. QED
  BY <1>3, <1>4, <1>5 DEF ShortlistInv

(* The answer of a GET is what the service has. *)
LEMMA ReadSafe ==
  ASSUME ShortlistInv, ShortlistTypeOK', NEW k \in Handlers \cup {"poll"}, NEW lists \in Answers, ReadServed(k, lists)
  PROVE  ShortlistInv'
<1>1. /\ \A i \in Handlers : handler'[i].op = handler[i].op /\ handler'[i].at = handler[i].at /\ handler'[i].alone = handler[i].alone
      /\ \A i \in Handlers, name \in Followed : handler'[i].got[name] \in {handler[i].got[name], kept[name]}
  <2>1. PICK g : g = [name \in ListNames |-> IF name \in lists THEN kept[name] ELSE handler[k].got[name]]
    OBVIOUS
  <2>2. handler' = [handler EXCEPT ![k].got = g] /\ handler \in [Handlers \cup {"poll"} -> TaskRecord]
    BY <2>1 DEF ReadServed, ShortlistInv, ShortlistTypeOK
  <2>3. \A name \in Followed : g[name] \in {handler[k].got[name], kept[name]}
    BY <2>1 DEF Followed, ListNames
  <2>4. handler'[k] = [handler[k] EXCEPT !.got = g] /\ \A i \in Handlers \ {k} : handler'[i] = handler[i]
    BY <2>2
  <2>5. QED
    BY <2>2, <2>3, <2>4 DEF TaskRecord
<1>2. \A name \in Followed : Using(name)' = Using(name)
  BY <1>1, UsingSame
<1>3. UNCHANGED <<kept, onPage, tainted>>
  BY DEF ReadServed
<1>4. QED
  <2>1. AloneIsAlone'
    BY <1>1, <1>2 DEF ShortlistInv, AloneIsAlone
  <2>2. ReadIsKept'
    BY <1>1, <1>3 DEF ShortlistInv, ReadIsKept
  <2>3. OnlyReadersBehind'
    BY <1>1, <1>2, <1>3 DEF ShortlistInv, OnlyReadersBehind, Using
  <2>4. QED
    BY <2>1, <2>2, <2>3 DEF ShortlistInv

(* The page takes over what a handler has read, or learns nothing: then the lists are tainted. *)
LEMMA ReloadSafe ==
  ASSUME ShortlistInv, ShortlistTypeOK', NEW k \in Handlers \cup {"poll"}, Reloaded(k) \/ ReloadFails(k)
  PROVE  ShortlistInv'
<1>1. UNCHANGED kept /\ \A i \in Handlers \ {k} : handler'[i] = handler[i]
  BY DEF ShortlistInv, ShortlistTypeOK, Reloaded, ReloadFails, Ends
<1>2. k \in Handlers => handler'[k] = Rest \/ handler'[k].op = "mount"
  BY DEF ShortlistInv, ShortlistTypeOK, Reloaded, ReloadFails, Ends, Task
<1>3. k \notin Handlers => \A name \in Followed : name \notin Reads(handler[k].op)
  BY ReadsOfRest DEF ShortlistInv, ShortlistTypeOK, Rest, Task
<1>4. \A name \in Followed : Using(name)' = Using(name) \ {k}
  BY <1>1, <1>2, <1>3, ReadsOfRest DEF Using
<1>5. AloneIsAlone'
  BY <1>1, <1>2, <1>4, ReadsOfRest DEF AloneIsAlone, ShortlistInv
<1>6. ReadIsKept'
  BY <1>1, <1>2, ReadsOfRest DEF ReadIsKept, ShortlistInv
<1>7. OnlyReadersBehind'
  <2> SUFFICES ASSUME NEW name \in Followed \ tainted', \A i \in Using(name)' : handler'[i].at # "reading"
               PROVE  onPage'[name] = kept'[name]
    BY DEF OnlyReadersBehind
  <2>1. CASE name \notin Reads(handler[k].op)
    <3>1. name \notin tainted /\ onPage'[name] = onPage[name]
      BY <2>1 DEF Reloaded, ReloadFails, Followed, ListNames
    <3>2. k \notin Using(name)
      BY <2>1 DEF Using
    <3>3. QED
      BY <1>1, <1>4, <3>1, <3>2 DEF OnlyReadersBehind, ShortlistInv, Using
  <2>2. CASE name \in Reads(handler[k].op)
    <3>1. k \in Handlers /\ Reloaded(k) /\ handler[k].alone
      BY <1>3, <2>2 DEF Reloaded, ReloadFails
    <3>2. onPage'[name] = handler[k].got[name] /\ handler[k].got[name] # Unread
      BY <2>2, <3>1 DEF Reloaded, Read, Followed, ListNames
    <3>3. QED
      BY <1>1, <2>2, <3>1, <3>2 DEF ReadIsKept, ShortlistInv
  <2>3. QED
    BY <2>1, <2>2
<1>8. QED
  BY <1>5, <1>6, <1>7 DEF ShortlistInv

(* Every step keeps the invariant. *)
LEMMA ShortlistSafeStep == ShortlistInv /\ ShortlistStep => ShortlistInv'
<1> SUFFICES ASSUME ShortlistInv, ShortlistStep PROVE ShortlistInv'
  OBVIOUS
<1>t. ShortlistTypeOK'
  BY ShortlistTypeStep DEF ShortlistInv
<1>s. ASSUME \A i \in Handlers : handler'[i] = handler[i], UNCHANGED <<kept, onPage, tainted>> PROVE ShortlistInv'
  BY <1>t, <1>s DEF ShortlistInv, AloneIsAlone, ReadIsKept, OnlyReadersBehind, Using
<1>1. CASE UNCHANGED shortlistVars \/ PollMounts \/ \E m \in Mountables : Uploads(m)
  BY <1>1, <1>s, ShortlistAssumption DEF shortlistVars, PollMounts, Uploads, ShortlistInv, ShortlistTypeOK
<1>2. CASE ShortlistGesture
  <2>1. PICK op \in TaskOps \ {"none", "poll"} : \E item, at : Start(op, item, at)
    BY <1>2 DEF ShortlistGesture, Star, Unpin, StoreCredentials, ForgetCreds, SaveRemote, ForgetRemote, PickCloud, MountFolder,
      UnmountFolder, TaskOps
  <2>2. QED
    BY <1>t, <2>1, StartSafe
<1>3. ASSUME NEW k \in Handlers, Agreed(k) \/ Cancelled(k) \/ EjectRefused(k) PROVE ShortlistInv'
  <2>1. (Ends(k) \/ \E at : To(k, at)) /\ handler[k].at # "reading" /\ UNCHANGED <<kept, onPage, tainted>>
    BY <1>3 DEF Agreed, Cancelled, EjectRefused
  <2>2. QED
    BY <1>t, <2>1, GoesOnSafe
<1>w. ASSUME NEW k \in Handlers, Written(k), NEW name \in Followed, name \notin Reads(handler[k].op) PROVE kept'[name] = kept[name]
  <2>1. CASE \E n \in Reads(handler[k].op) \cup {"mounts"} : Added(k, n) \/ Dropped(k, n)
    BY <1>w, <2>1 DEF Added, Dropped, ShortlistInv, ShortlistTypeOK, Followed, ListNames
  <2>2. CASE kept' \in {kept, [kept EXCEPT !["helper"] = {"ready"}]}
    BY <2>2 DEF ShortlistInv, ShortlistTypeOK, Followed, ListNames
  <2>3. QED
    BY <1>w, <2>1, <2>2 DEF Written, Reads
<1>4. ASSUME NEW k \in Handlers, Served(k) \/ EjectForced(k) PROVE ShortlistInv'
  <2>1. To(k, "reading") /\ handler[k].at # "reading" /\ UNCHANGED <<onPage, tainted>>
    BY <1>4 DEF Served, EjectForced, Then
  <2>2. \A name \in Followed : name \notin Reads(handler[k].op) => kept'[name] = kept[name]
    <3>1. CASE Served(k)
      BY <3>1, <1>w DEF Served
    <3>2. CASE EjectForced(k)
      BY <3>2 DEF EjectForced, Dropped, ShortlistInv, ShortlistTypeOK, Followed, ListNames
    <3>3. QED
      BY <1>4, <3>1, <3>2
  <2>3. QED
    BY <1>t, <2>1, <2>2, WriteSafe
<1>f. ASSUME NEW k \in Handlers, WriteFails(k) PROVE ShortlistInv'
  <2>1. handler[k].at # "reading" /\ UNCHANGED onPage
    BY <1>f DEF WriteFails
  <2>2. \A name \in Followed : name \notin Reads(handler[k].op) => kept'[name] = kept[name]
    BY <1>f, <1>w DEF WriteFails
  <2>3. CASE To(k, "reading") /\ UNCHANGED tainted
    BY <1>t, <2>1, <2>2, <2>3, WriteSafe
  <2>4. CASE Ends(k) /\ tainted' = tainted \cup {name \in ListNames : kept'[name] # kept[name]}
    <3>1. \A name \in Followed : kept'[name] # kept[name] => name \in tainted'
      BY <2>4 DEF Followed, ListNames
    <3>2. QED
      BY <1>t, <2>1, <2>2, <2>4, <3>1, GoesOnSafe
  <2>5. QED
    BY <1>f, <2>3, <2>4 DEF WriteFails
<1>5. ASSUME NEW k \in Handlers \cup {"poll"}, Reload(k) PROVE ShortlistInv'
  BY <1>5, <1>t, ReadSafe, ReloadSafe DEF Reload
<1>6. QED
  BY <1>1, <1>2, <1>3, <1>4, <1>f, <1>5 DEF ShortlistStep, ShortlistNext, ShortlistAnswer

(* While no handler of theirs is under way the page shows the lists of the service, unless a
   reload failed or was not alone, or a write failed after it changed the list. *)
THEOREM ShortlistFollows == ShortlistSpec => []ListsFollow
<1>1. ShortlistInit => ShortlistInv
  <2>1. ShortlistInit => AloneIsAlone /\ ReadIsKept /\ OnlyReadersBehind
    BY ReadsOfRest DEF ShortlistInit, AloneIsAlone, ReadIsKept, OnlyReadersBehind
  <2>2. QED
    BY <2>1, ShortlistTypeStart DEF ShortlistInv
<1>2. ShortlistInv => ListsFollow
  BY DEF ShortlistInv, OnlyReadersBehind, ListsFollow, Followed
<1>3. QED
  BY <1>1, <1>2, ShortlistSafeStep, PTL DEF ShortlistSpec, ShortlistStep
=============================================================================
