--------------------------- MODULE MCManagerProgress ---------------------------
(***************************************************************************)
(* The parts of the manager page whose properties are about what comes in  *)
(* the end, for TLC: its scan, its transfers, its navigation and the lists *)
(* it keeps.  They keep their state apart, so a behaviour explores the     *)
(* part in focus and leaves the others in their initial states.            *)
(***************************************************************************)
EXTENDS ManagerScan, ManagerDownloads, ManagerNavigation, ManagerShortlist

CONSTANTS f1, d1, z1, s1, s2

ScanPages  == [r \in Ranges |-> IF r = "a" THEN 3 ELSE 2]
FreeOf     == [s \in Stores |-> IF s = s1 THEN 6 ELSE 3]
SizeOf     == [e \in Files \cup Folders |-> IF e = d1 THEN 4 ELSE 2]
ShareOfH   == [l \in Locations |-> IF l = "smb" THEN "h" ELSE Nowhere]
CloudFolders == [l \in Locations |-> IF l = "cloud" THEN {"top", "sub"} ELSE {"top"}]

VARIABLE focus
Parts == {"scan", "downloads", "navigation", "shortlist"}

Init ==
  /\ ScanInit /\ DownloadsInit /\ NavigationInit /\ ShortlistInit
  /\ focus \in Parts
  /\ folders = <<s1>> /\ list[z1] = "none"
  /\ hash = NoLink
  /\ focus # "shortlist" => kept["helper"] = {"ready"}

Others(part) ==
  /\ part # "scan" => UNCHANGED scanVars
  /\ part # "downloads" => UNCHANGED downloadVars
  /\ part # "navigation" => UNCHANGED navigationVars
  /\ part # "shortlist" => UNCHANGED shortlistVars
Only(part) == focus = part /\ UNCHANGED focus /\ Others(part)

Next ==
  \/ Only("scan") /\ ScanNext
  \/ Only("downloads") /\ DownloadsNext
  \/ Only("navigation") /\ NavigationNext
  \/ Only("shortlist") /\ ShortlistNext

manager == <<scanVars, downloadVars, navigationVars, shortlistVars, focus>>

(* ScanFairness, DownloadsFairness, NavigationFairness and ShortlistFairness, each of the part *)
(* in focus: the others take no step.                                                          *)
Fairness ==
  /\ WF_scanVars(focus = "scan" /\ \E i \in Ids : Answer(i) \/ Fail(i))
  /\ WF_downloadVars(focus = "downloads" /\ \E t \in Slots : DownloadsAnswer(t))
  /\ WF_downloadVars(focus = "downloads" /\ PollTimer)
  /\ SF_downloadVars(focus = "downloads" /\ ServePoll)
  /\ WF_downloadVars(focus = "downloads" /\ ApplyPoll)
  /\ WF_navigationVars(focus = "navigation" /\ Commit)
  /\ WF_navigationVars(focus = "navigation" /\ \E g \in Generations : LoadAnswer(g))
  /\ \A k \in Handlers : WF_shortlistVars(focus = "shortlist" /\ ShortlistAnswer(k))
  /\ WF_shortlistVars(focus = "shortlist" /\ PollMounts)
  /\ WF_shortlistVars(focus = "shortlist" /\ Reload("poll"))

Spec == Init /\ [][Next]_manager /\ Fairness
=============================================================================
