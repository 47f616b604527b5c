----------------------------- MODULE ManagerScan -----------------------------
(***************************************************************************)
(* The network scan of the manager page (startScan and cancelScan of       *)
(* web/manager.js, and the panel that offers them).  A scan asks the       *)
(* service for one page of addresses after the other, from one await to    *)
(* the next; the user may stop it, edit the ranges, and resume or restart  *)
(* it while an answer of the scan before is still on its way.              *)
(*                                                                         *)
(* Abstracted: a text of ranges is a member of Ranges, whose addresses are *)
(* Pages[r] pages; the devices found on page p of r are the value <<r, p>>.*)
(***************************************************************************)
EXTENDS Integers

CONSTANTS
  Ranges,       \* texts of the ranges field, split and joined (the key of a scan)
  Defaults,     \* the ranges the service proposes
  Pages,        \* Pages[r]: pages of addresses of r
  MaxScans,     \* bound: values scanId takes
  NoPage        \* no page to resume from

ASSUME ScanAssumption ==
  /\ Defaults \in Ranges
  /\ Pages \in [Ranges -> Nat \ {0}]
  /\ MaxScans \in Nat
  /\ NoPage \notin [key : Ranges, offset : Nat]

VARIABLES
  mounted,      \* the component is on the page
  booted,       \* componentDidMount has set the ranges
  ranges,       \* state.ranges
  scan,         \* state.scan
  scanId,       \* this.scanId
  cancelled,    \* this.scanCancelled
  resume,       \* this.scanResume
  devices,      \* state.devices
  probed,       \* state.probed, in pages
  loops,        \* loops[i]: the locals of the call of startScan that took id i
  listed        \* history: the ranges whose devices are listed

panel == <<ranges, scan, devices, probed>>
fields == <<scanId, cancelled, resume>>
page == <<mounted, booted>>
scanVars == <<page, panel, fields, loops, listed>>

Ids == 1..MaxScans
Found(r, n) == {<<r, p>> : p \in 0..(n - 1)}
FoundDevices == {<<r, p>> : r \in Ranges, p \in Nat}

NoLoop == [at |-> "over", key |-> Defaults, offset |-> 0, devices |-> {}]
Loops == [at : {"over", "asked"}, key : Ranges, offset : Nat, devices : SUBSET FoundDevices]

ScanInit ==
  /\ mounted = TRUE /\ booted = FALSE
  /\ ranges = Defaults /\ scan = "idle" /\ devices = {} /\ probed = 0
  /\ scanId = 0 /\ cancelled = FALSE /\ resume = NoPage
  /\ loops = [i \in Ids |-> NoLoop]
  /\ listed = Defaults

(* What the panel offers: the ranges field, and one button that starts or stops. *)
ScanBusy == scan = "running"
ScanButton ==
  IF scan = "done" THEN "Rescan"
  ELSE IF scan # "stopped" THEN "Start scan"
  ELSE IF resume # NoPage THEN "Resume scan" ELSE "Restart scan"

-----------------------------------------------------------------------------
(* The loads of componentDidMount have answered. *)
ScanBoot ==
  /\ mounted /\ ~booted
  /\ booted' = TRUE
  /\ ranges' = Defaults /\ scan' = "idle"
  /\ UNCHANGED <<mounted, devices, probed, fields, loops, listed>>

SetRanges(r) ==
  /\ mounted /\ r # ranges
  /\ ranges' = r
  /\ UNCHANGED <<page, scan, devices, probed, fields, loops, listed>>

\* Mutant of Resumed: a scan is resumed whatever the ranges are now.
ResumedAnyRanges == scan = "stopped" /\ resume # NoPage

(* A stopped scan of the same ranges continues at its next page. *)
Resumed == scan = "stopped" /\ resume # NoPage /\ resume.key = ranges

StartScan ==
  /\ mounted /\ ~ScanBusy /\ scanId < MaxScans
  /\ scanId' = scanId + 1 /\ cancelled' = FALSE /\ resume' = NoPage
  /\ scan' = "running"
  /\ devices' = IF Resumed THEN devices ELSE {}
  /\ probed' = IF Resumed THEN probed ELSE 0
  /\ loops' = [loops EXCEPT ![scanId + 1] =
                 [at |-> "asked", key |-> ranges, offset |-> IF Resumed THEN resume.offset ELSE 0,
                  devices |-> devices']]
  /\ listed' = ranges
  /\ UNCHANGED <<page, ranges>>

CancelScan ==
  /\ mounted /\ ScanBusy /\ scanId < MaxScans
  /\ scanId' = scanId + 1 /\ cancelled' = TRUE /\ scan' = "stopped"
  /\ UNCHANGED <<page, ranges, devices, probed, resume, loops, listed>>

\* Mutant of Stale: an answer is never stale.
StaleNever(i) == FALSE

(* Another scan has been started, or this one stopped, since call i asked. *)
Stale(i) == i # scanId

(* An answer with page offset of the key of call i. *)
Answer(i) ==
  LET l == loops[i]
      next == l.offset + 1
      more == next < Pages[l.key]
      found == l.devices \cup {<<l.key, l.offset>>}
  IN  /\ l.at = "asked"
      /\ \/ /\ Stale(i)
            /\ loops' = [loops EXCEPT ![i].at = "over"]
            /\ UNCHANGED <<scan, devices, probed, resume>>
         \/ /\ ~Stale(i) /\ cancelled
            /\ loops' = [loops EXCEPT ![i].at = "over"]
            /\ scan' = "stopped"
            /\ UNCHANGED <<devices, probed, resume>>
         \/ /\ ~Stale(i) /\ ~cancelled
            /\ devices' = found /\ probed' = next
            /\ resume' = IF more THEN [key |-> l.key, offset |-> next] ELSE NoPage
            /\ loops' = [loops EXCEPT ![i].devices = found, ![i].offset = next,
                                      ![i].at = IF more THEN "asked" ELSE "over"]
            /\ scan' = IF more THEN scan ELSE "done"
      /\ UNCHANGED <<page, ranges, scanId, cancelled, listed>>

\* Mutant of AfterFailure: the state of a failed scan is left alone.
AfterFailureRunning(i) == scan

AfterFailure(i) == IF Stale(i) THEN scan ELSE "stopped"

(* The request of call i fails: the scan stops where it was. *)
Fail(i) ==
  /\ loops[i].at = "asked"
  /\ loops' = [loops EXCEPT ![i].at = "over"]
  /\ scan' = AfterFailure(i)
  /\ UNCHANGED <<page, ranges, devices, probed, fields, listed>>

(* componentWillUnmount: no gesture reaches the component any more. *)
ScanUnmount ==
  /\ mounted
  /\ mounted' = FALSE /\ cancelled' = TRUE
  /\ UNCHANGED <<booted, panel, scanId, resume, loops, listed>>

ScanGesture == StartScan \/ CancelScan \/ \E r \in Ranges : SetRanges(r)
ScanAnswer == ScanBoot \/ \E i \in Ids : Answer(i) \/ Fail(i)
ScanNext == ScanGesture \/ ScanAnswer \/ ScanUnmount

(* The service answers every request; the user may never do anything. *)
ScanFairness == WF_scanVars(\E i \in Ids : Answer(i) \/ Fail(i))
ScanSpec == ScanInit /\ [][ScanNext]_scanVars /\ ScanFairness

-----------------------------------------------------------------------------
(* The list shows exactly what the pages asked so far found, of the ranges *)
(* it is for: no answer of an older scan enters it, no page is skipped by  *)
(* a resumed scan, and a scan that is done has asked every page            *)
(* (manager.js:561-573).                                                   *)
NothingSkipped ==
  /\ devices = Found(listed, probed)
  /\ scan = "done" => probed = Pages[listed]

(* A scan that runs stops running: it is done, stopped, or failed (557-573). *)
ScanEnds == []<>~ScanBusy
=============================================================================
