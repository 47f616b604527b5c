------------------------------ MODULE MCFrontEnd ------------------------------
(***************************************************************************)
(* The parts of the front end whose properties are about a state, for TLC: *)
(* the window, the file operations and the ZIP folder chooser of the       *)
(* manager page, and the sessions and the discovery panel of the element.  *)
(* They keep their state apart, so a behaviour explores the part in focus  *)
(* and leaves the others in their initial states.                          *)
(***************************************************************************)
EXTENDS ManagerWindow, ManagerFiles, ZipFolderChooser, StorageElement, ElementScan

RowOrder  == [n \in Names |-> CASE n = "a" -> 1 [] n = "b" -> 2 [] OTHER -> 3]
TwoFilters == [k \in {"", "b"} |-> IF k = "" THEN Names ELSE {"b"}]
OneLocation == [p \in Directories |-> "a"]
FirstFiles  == [p \in Directories |-> IF p = "a1" THEN {"m"} ELSE {}]
OneBatch    == {<<"n", "m">>}
RangePages  == [r \in ScanRanges |-> IF r = "a" THEN 3 ELSE 2]

VARIABLE focus
Parts == {"window", "files", "chooser", "element", "panel"}

Init ==
  /\ WindowInit /\ FilesInit /\ ChooserInit /\ ElementInit /\ ElementScanInit
  /\ focus \in Parts
  /\ focus # "chooser" => root = "r1"
  /\ here = "a1"

Others(part) ==
  /\ part # "window" => UNCHANGED windowVars
  /\ part # "files" => UNCHANGED filesVars
  /\ part # "chooser" => UNCHANGED chooserVars
  /\ part # "element" => UNCHANGED elementVars
  /\ part # "panel" => UNCHANGED scanVars
Only(part) == focus = part /\ UNCHANGED focus /\ Others(part)

Next ==
  \/ Only("window") /\ WindowNext
  \/ Only("files") /\ FilesNext
  \/ Only("chooser") /\ ChooserNext
  \/ Only("element") /\ ElementNext
  \/ Only("panel") /\ ElementScanNext

Spec == Init /\ [][Next]_<<windowVars, filesVars, chooserVars, elementVars, scanVars, focus>>
=============================================================================
