--------------------------- MODULE ZipFolderChooser ---------------------------
(***************************************************************************)
(* The dialog that chooses where ZIPs are prepared (chooseZipFolder of     *)
(* web/manager.js): it opens a session of a local root, goes through its   *)
(* folders, may make one, and saves the folder it shows.  All its          *)
(* variables are of one dialog, which is opened once.                      *)
(*                                                                         *)
(* The session is assigned by whichever load has opened one, the folder by *)
(* the youngest load alone; the buttons keep the two together.             *)
(*                                                                         *)
(* Abstracted: a folder is a name, every folder has its parent and the     *)
(* folder made in it; the service keeps the sessions of the dialog open.   *)
(***************************************************************************)
EXTENDS Integers

CONSTANTS
  LocalRoots,   \* state.roots of type local
  FolderNames,         \* folders of a root
  TopDir,       \* its topmost folder
  NewDir,       \* the folder that is made
  MaxPresses,   \* bound: buttons pressed
  Blank         \* nothing yet

ASSUME ChooserAssumption ==
  /\ LocalRoots # {} /\ {TopDir, NewDir} \subseteq FolderNames
  /\ Blank \notin LocalRoots \cup FolderNames
  /\ MaxPresses \in Nat

VARIABLES
  presses,      \* buttons pressed so far
  open,         \* dialog.open
  root,         \* select.value
  session,      \* root of the session the dialog has
  folder,       \* path
  display,      \* what the text above the list says: root and folder
  youngest,     \* generation
  loads,        \* loads[g]: the load of generation g
  making,       \* the New folder button: "off", "asking" or "sent"
  saving,       \* the Use this folder button: what it has sent
  enabled,      \* of the controls use, mkdir, select and list, those that are enabled
  liveSessions,         \* number of sessions of the dialog that the service has open
  stored,       \* the folder that has been saved
  crossed,      \* history: a load began, or a folder was saved, while another call was under way
  displayed     \* history: what was shown when the folder that is saved was sent

chooserControls == <<enabled, display, folder, session>>
chooserVars == <<presses, open, root, chooserControls, youngest, loads, making, saving, liveSessions, stored, crossed, displayed>>

Spot(r, f) == [root |-> r, folder |-> f]
Loads == 1..(MaxPresses + 1)
NoLoad == [at |-> "over", folder |-> TopDir, root |-> Blank]
Busy == saving # Blank \/ making = "sent" \/ \E g \in Loads : loads[g] # NoLoad

ChooserInit ==
  /\ presses = 0 /\ open = TRUE
  /\ root \in LocalRoots /\ session = Blank /\ folder = TopDir /\ display = Blank
  /\ youngest = 1 /\ loads = [g \in Loads |-> IF g = 1 THEN [at |-> "opening", folder |-> TopDir, root |-> root] ELSE NoLoad]
  /\ making = "off" /\ saving = Blank
  /\ enabled = {} /\ liveSessions = 0 /\ stored = Blank
  /\ crossed = FALSE /\ displayed = Blank

Press(control) ==
  /\ open /\ making # "asking" /\ control \in enabled
  /\ presses < MaxPresses /\ presses' = presses + 1

(* load: everything is disabled and the list emptied until its answer. *)
Load(f, r, changeRoot) ==
  LET g == youngest + 1
  IN  /\ g \in Loads
      /\ youngest' = g /\ enabled' = {}
      /\ loads' = [loads EXCEPT ![g] = [at |-> IF changeRoot THEN "opening" ELSE "listing", folder |-> f, root |-> r]]
      /\ crossed' = (crossed \/ Busy)

(* A folder of the list, or its parent: through the session there is. *)
OpenDir(f) ==
  /\ Press("list") /\ f # folder
  /\ Load(f, session, FALSE)
  /\ UNCHANGED <<open, root, display, folder, session, making, saving, liveSessions, stored, displayed>>

ChangeRoot(r) ==
  /\ Press("select") /\ r # root
  /\ root' = r /\ Load(TopDir, r, TRUE)
  /\ UNCHANGED <<open, display, folder, session, making, saving, liveSessions, stored, displayed>>

(* The session of the root: kept whatever the dialog has become. *)
SessionAnswered(g) ==
  /\ loads[g].at = "opening"
  /\ session' = loads[g].root /\ liveSessions' = liveSessions + 1
  /\ loads' = [loads EXCEPT ![g].at = "listing"]
  /\ UNCHANGED <<presses, open, root, enabled, display, folder, youngest, making, saving, stored, crossed, displayed>>

(* The listing: shown if it is the youngest and the dialog is open. *)
ListAnswered(g) ==
  /\ loads[g].at = "listing"
  /\ loads' = [loads EXCEPT ![g] = NoLoad]
  /\ IF g = youngest /\ open
       THEN /\ folder' = loads[g].folder /\ display' = Spot(root, loads[g].folder)
            /\ enabled' \in {{"use", "select", "list"}, {"use", "select", "list", "mkdir"}}
       ELSE UNCHANGED <<folder, display, enabled>>
  /\ UNCHANGED <<presses, open, root, session, youngest, making, saving, liveSessions, stored, crossed, displayed>>

\* Mutant of Failed: an error enables the button again, whose folder may be of another root.
FailedUsable == enabled' = enabled \cup {"select", "use"}

(* safely: an error of any call lets the user choose another root. *)
Failed == enabled' = enabled \cup {"select"}

LoadFailed(g) ==
  /\ loads[g] # NoLoad
  /\ loads' = [loads EXCEPT ![g] = NoLoad]
  /\ Failed
  /\ UNCHANGED <<presses, open, root, display, folder, session, youngest, making, saving, liveSessions, stored, crossed, displayed>>

-----------------------------------------------------------------------------
(* New folder *)

MakeDir ==
  /\ Press("mkdir") /\ making = "off"
  /\ making' = "asking"
  /\ UNCHANGED <<open, root, chooserControls, youngest, loads, saving, liveSessions, stored, crossed, displayed>>

(* Named, and sent to the session the dialog has by then; or cancelled. *)
DirNamed ==
  /\ making = "asking" /\ making' \in {"off", "sent"}
  /\ UNCHANGED <<presses, open, root, chooserControls, youngest, loads, saving, liveSessions, stored, crossed, displayed>>

(* Made: it is loaded, through the session there is now. *)
DirMade ==
  /\ making = "sent" /\ making' = "off"
  /\ LET others == saving # Blank \/ \E g \in Loads : loads[g] # NoLoad
         g == youngest + 1
     IN  /\ g \in Loads
         /\ youngest' = g /\ enabled' = {}
         /\ loads' = [loads EXCEPT ![g] = [at |-> "listing", folder |-> NewDir, root |-> session]]
         /\ crossed' = (crossed \/ others)
  /\ UNCHANGED <<presses, open, root, display, folder, session, saving, liveSessions, stored, displayed>>

DirFailed ==
  /\ making = "sent" /\ making' = "off"
  /\ Failed
  /\ UNCHANGED <<presses, open, root, display, folder, session, youngest, loads, saving, liveSessions, stored, crossed, displayed>>

-----------------------------------------------------------------------------
(* Use this folder, and closing *)

(* The session and the folder are sent as they are now. *)
UseFolder ==
  /\ Press("use") /\ saving = Blank
  /\ saving' = Spot(session, folder) /\ displayed' = display
  /\ enabled' = enabled \ {"use"}
  /\ crossed' = (crossed \/ Busy)
  /\ UNCHANGED <<open, root, display, folder, session, youngest, loads, making, liveSessions, stored>>

CloseDialog == open' = FALSE /\ youngest' = youngest + 1 /\ liveSessions' = 0

FolderSaved ==
  /\ saving # Blank
  /\ stored' = saving /\ saving' = Blank
  /\ enabled' = enabled \cup {"use"}
  /\ IF open THEN CloseDialog ELSE UNCHANGED <<open, youngest, liveSessions>>
  /\ UNCHANGED <<presses, root, display, folder, session, loads, making, crossed, displayed>>

(* Refused: the button is enabled again, and so is the choice of the root. *)
FolderRefused ==
  /\ saving # Blank /\ saving' = Blank
  /\ enabled' = enabled \cup {"use", "select"}
  /\ UNCHANGED <<presses, open, root, display, folder, session, youngest, loads, making, liveSessions, stored, crossed, displayed>>

(* Cancel or Esc: onclose closes every session that has been opened until now. *)
Dismiss ==
  /\ open /\ making # "asking"
  /\ CloseDialog
  /\ UNCHANGED <<presses, root, chooserControls, loads, making, saving, stored, crossed, displayed>>

-----------------------------------------------------------------------------
ChooserNext ==
  \/ \E f \in FolderNames : OpenDir(f)
  \/ \E r \in LocalRoots : ChangeRoot(r)
  \/ \E g \in Loads : SessionAnswered(g) \/ ListAnswered(g) \/ LoadFailed(g)
  \/ MakeDir \/ DirNamed \/ DirMade \/ DirFailed
  \/ UseFolder \/ FolderSaved \/ FolderRefused \/ Dismiss

ChooserSpec == ChooserInit /\ [][ChooserNext]_chooserVars

-----------------------------------------------------------------------------
(* The folder that ZIPs are prepared in from now on is the one the dialog  *)
(* showed when it was chosen, also after a root that could not be opened   *)
(* or listed, as long as its calls came one after the other (333-357).     *)
SavedAsShown == stored # Blank /\ ~crossed => stored = displayed
=============================================================================
