---------------------------- MODULE ElementProofs ----------------------------
(*****************************************************************************)
(* Theorems about the storage element and the dialog that chooses where      *)
(* ZIPs are prepared, for any instance that satisfies their assumptions.     *)
(* The dialog: the folder saved is the one shown.  The element: it leaves no *)
(* session open and acts on the folder it was asked for.  Its discovery      *)
(* panel: the next page that is offered continues what is listed.            *)
(*****************************************************************************)
EXTENDS ZipFolderChooser, StorageElement, ElementScan, TLAPS


-----------------------------------------------------------------------------
(* The chooser *)

LoadTypes == [at : {"over", "opening", "listing"}, folder : FolderNames, root : LocalRoots \cup {Blank}]

ChooserTypes ==
  /\ youngest \in Nat
  /\ loads \in [Loads -> LoadTypes]
  /\ root \in LocalRoots /\ session \in LocalRoots \cup {Blank} /\ folder \in FolderNames
  /\ crossed \in BOOLEAN /\ open \in BOOLEAN /\ making \in {"off", "asking", "sent"}

(* One call at a time: a load is the youngest, and nothing else goes on. *)
OneLoad ==
  \A g \in Loads : loads[g] # NoLoad =>
    /\ g = youngest /\ enabled = {} /\ saving = Blank /\ making = "off"
    /\ loads[g].root = root /\ (loads[g].at = "listing" => session = root)

(* Where a folder may be used, it is shown; where one may be opened, the session is the root's. *)
UsableIsShown ==
  /\ "use" \in enabled \/ saving # Blank => display = Spot(session, folder)
  /\ (enabled \cap {"use", "list", "mkdir"} # {} \/ saving # Blank \/ making # "off") => session = root

SentIsDisplayed == saving # Blank => saving = displayed
StoredIsDisplayed == stored # Blank => stored = displayed /\ ~open

ChooserIInv ==
  /\ ChooserTypes
  /\ ~crossed => SentIsDisplayed /\ StoredIsDisplayed
  /\ ~crossed /\ open => OneLoad /\ UsableIsShown

-----------------------------------------------------------------------------
LEMMA NoLoadType == NoLoad \in LoadTypes
BY ChooserAssumption DEF NoLoad, LoadTypes

LEMMA ChooserInitially == ChooserInit => ChooserIInv
<1> SUFFICES ASSUME ChooserInit PROVE ChooserIInv
  OBVIOUS
<1> USE ChooserAssumption DEF ChooserInit
<1>1. [at |-> "opening", folder |-> TopDir, root |-> root] \in LoadTypes
  BY DEF LoadTypes
<1>2. ChooserTypes
  BY <1>1, NoLoadType DEF ChooserTypes
<1>3. OneLoad /\ UsableIsShown
  BY DEF OneLoad, UsableIsShown
<1>4. QED
  BY <1>2, <1>3 DEF ChooserIInv, SentIsDisplayed, StoredIsDisplayed

-----------------------------------------------------------------------------
(* Loads *)

(* A load that begins alone is the only one. *)
LEMMA LoadKeeps ==
  ASSUME ChooserIInv, NEW new \in LoadTypes, youngest + 1 \in Loads,
         youngest' = youngest + 1, enabled' = {}, loads' = [loads EXCEPT ![youngest + 1] = new],
         UNCHANGED <<open, saving, stored, displayed, session, display, folder>>,
         root' \in LocalRoots, crossed' \in BOOLEAN, making' \in {"off", "asking", "sent"},
         ~crossed' => /\ ~crossed /\ saving = Blank /\ making' = "off"
                      /\ \A i \in Loads : loads[i] = NoLoad,
         ~crossed' /\ open => new.root = root' /\ (new.at = "listing" => session = root')
  PROVE  ChooserIInv'
<1> USE DEF ChooserIInv
<1>1. /\ loads' \in [Loads -> LoadTypes] /\ loads'[youngest + 1] = new
      /\ \A i \in Loads \ {youngest + 1} : loads'[i] = loads[i]
  BY DEF ChooserTypes
<1>2. ChooserTypes'
  BY <1>1 DEF ChooserTypes
<1>3. ~crossed' => SentIsDisplayed' /\ StoredIsDisplayed'
  BY DEF SentIsDisplayed, StoredIsDisplayed
<1>4. ASSUME ~crossed', open' PROVE OneLoad' /\ UsableIsShown'
  <2>1. /\ \A i \in Loads \ {youngest'} : loads'[i] = NoLoad
        /\ loads'[youngest'] = new /\ saving' = Blank /\ making' = "off" /\ enabled' = {}
    BY <1>1, <1>4
  <2>2. new.root = root' /\ (new.at = "listing" => session' = root')
    BY <1>4
  <2>3. OneLoad'
    BY <2>1, <2>2 DEF OneLoad
  <2>4. UsableIsShown'
    BY <2>1 DEF UsableIsShown
  <2>5. QED
    BY <2>3, <2>4
<1>5. QED
  BY <1>2, <1>3, <1>4

(* What a folder of the list, or another root, begins. *)
LEMMA PressLoads ==
  ASSUME ChooserIInv, NEW f \in FolderNames, NEW r \in LocalRoots \cup {Blank}, NEW c \in BOOLEAN,
         Load(f, r, c), making # "asking", making' = making,
         UNCHANGED <<open, saving, stored, displayed, session, display, folder>>,
         root' \in LocalRoots,
         ~crossed' /\ open => r = root' /\ (~c => session = root')
  PROVE  ChooserIInv'
<1> DEFINE new == [at |-> IF c THEN "opening" ELSE "listing", folder |-> f, root |-> r]
<1>1. /\ youngest + 1 \in Loads /\ youngest' = youngest + 1 /\ enabled' = {}
      /\ loads' = [loads EXCEPT ![youngest + 1] = new]
      /\ crossed' = (crossed \/ Busy)
  BY DEF Load
<1>2. new \in LoadTypes /\ new.root = r /\ (new.at = "listing" => ~c)
  BY DEF LoadTypes
<1>3. crossed \in BOOLEAN /\ Busy \in BOOLEAN
  BY DEF ChooserIInv, ChooserTypes, Busy
<1>4. crossed' \in BOOLEAN /\ (~crossed' => ~crossed /\ ~Busy)
  BY <1>1, <1>3
<1>5. making \in {"off", "asking", "sent"}
  BY DEF ChooserIInv, ChooserTypes
<1>6. ~Busy => saving = Blank /\ making = "off" /\ \A i \in Loads : loads[i] = NoLoad
  BY <1>5 DEF Busy
<1> HIDE DEF new
<1>7. QED
  <2>1. making' \in {"off", "asking", "sent"}
    BY <1>5
  <2>2. /\ ~crossed' => ~crossed /\ saving = Blank /\ making' = "off" /\ \A i \in Loads : loads[i] = NoLoad
        /\ ~crossed' /\ open => new.root = root' /\ (new.at = "listing" => session = root')
    BY <1>2, <1>4, <1>6
  <2>3. QED
    BY <1>1, <1>2, <1>4, <2>1, <2>2, LoadKeeps

LEMMA OpenDirKeeps ==
  ASSUME NEW f \in FolderNames PROVE ChooserIInv /\ OpenDir(f) => ChooserIInv'
<1> SUFFICES ASSUME ChooserIInv, OpenDir(f) PROVE ChooserIInv'
  OBVIOUS
<1>1. /\ "list" \in enabled /\ open /\ making # "asking"
      /\ Load(f, session, FALSE)
      /\ UNCHANGED <<open, saving, making, stored, displayed, session, display, folder, root>>
  BY DEF OpenDir, Press
<1>2. session \in LocalRoots \cup {Blank} /\ root \in LocalRoots
  BY DEF ChooserIInv, ChooserTypes
<1>3. ~crossed' => ~crossed
  BY <1>1 DEF Load
<1>4. ~crossed' => session = root
  BY <1>1, <1>3 DEF ChooserIInv, UsableIsShown
<1>5. QED
  BY <1>1, <1>2, <1>4, PressLoads

LEMMA ChangeRootKeeps ==
  ASSUME NEW r \in LocalRoots PROVE ChooserIInv /\ ChangeRoot(r) => ChooserIInv'
<1> SUFFICES ASSUME ChooserIInv, ChangeRoot(r) PROVE ChooserIInv'
  OBVIOUS
<1>1. /\ making # "asking" /\ root' = r /\ Load(TopDir, r, TRUE)
      /\ UNCHANGED <<open, saving, making, stored, displayed, session, display, folder>>
  BY DEF ChangeRoot, Press
<1>2. QED
  BY <1>1, PressLoads, ChooserAssumption

(* The session of a root is opened. *)
LEMMA SessionAnsweredKeeps ==
  ASSUME NEW g \in Loads PROVE ChooserIInv /\ SessionAnswered(g) => ChooserIInv'
<1> SUFFICES ASSUME ChooserIInv, SessionAnswered(g) PROVE ChooserIInv'
  OBVIOUS
<1> USE DEF ChooserIInv
<1> DEFINE old == loads[g]
           new == [old EXCEPT !.at = "listing"]
<1>1. /\ old.at = "opening" /\ session' = old.root
      /\ loads' = [loads EXCEPT ![g] = new]
      /\ UNCHANGED <<open, root, enabled, display, folder, youngest, making, saving, stored, crossed, displayed>>
  BY DEF SessionAnswered, ChooserTypes
<1>2. old \in LoadTypes
  BY DEF ChooserTypes
<1>3. new \in LoadTypes /\ new.root = old.root
  BY <1>2 DEF LoadTypes
<1>4. old # NoLoad
  BY <1>1 DEF NoLoad
<1>5. /\ loads' \in [Loads -> LoadTypes] /\ loads'[g] = new
      /\ \A i \in Loads \ {g} : loads'[i] = loads[i]
  BY <1>1, <1>3 DEF ChooserTypes
<1>6. ChooserTypes'
  BY <1>1, <1>2, <1>5 DEF ChooserTypes, LoadTypes
<1>7. ~crossed' => SentIsDisplayed' /\ StoredIsDisplayed'
  BY <1>1 DEF SentIsDisplayed, StoredIsDisplayed
<1>8. ASSUME ~crossed', open' PROVE OneLoad' /\ UsableIsShown'
  <2>1. /\ g = youngest /\ enabled = {} /\ saving = Blank /\ making = "off" /\ old.root = root
        /\ \A i \in Loads \ {g} : loads[i] = NoLoad
    BY <1>1, <1>4, <1>8 DEF OneLoad
  <2>2. QED
    BY <1>1, <1>3, <1>5, <2>1 DEF OneLoad, UsableIsShown
<1>9. QED
  BY <1>6, <1>7, <1>8

(* A load is over: its folder is shown, or not. *)
LEMMA LoadOver ==
  ASSUME ChooserIInv, NEW g \in Loads, loads' = [loads EXCEPT ![g] = NoLoad]
  PROVE  /\ loads' \in [Loads -> LoadTypes]
         /\ ~crossed /\ open /\ loads[g] # NoLoad => \A i \in Loads : loads'[i] = NoLoad
<1>1. /\ loads' \in [Loads -> LoadTypes] /\ loads'[g] = NoLoad
      /\ \A i \in Loads \ {g} : loads'[i] = loads[i]
  BY NoLoadType DEF ChooserIInv, ChooserTypes
<1>2. QED
  BY <1>1 DEF ChooserIInv, OneLoad

LEMMA ListAnsweredKeeps ==
  ASSUME NEW g \in Loads PROVE ChooserIInv /\ ListAnswered(g) => ChooserIInv'
<1> SUFFICES ASSUME ChooserIInv, ListAnswered(g) PROVE ChooserIInv'
  OBVIOUS
<1> USE DEF ChooserIInv
<1>1. /\ loads[g].at = "listing" /\ loads' = [loads EXCEPT ![g] = NoLoad]
      /\ UNCHANGED <<open, root, session, youngest, making, saving, stored, crossed, displayed>>
  BY DEF ListAnswered
<1>2. loads[g] # NoLoad /\ loads[g] \in LoadTypes
  BY <1>1 DEF NoLoad, ChooserTypes
<1>3. loads' \in [Loads -> LoadTypes]
  BY <1>1, LoadOver
<1>4. folder' \in FolderNames
  <2>1. folder' \in {folder, loads[g].folder}
    BY DEF ListAnswered
  <2>2. QED
    BY <1>2, <2>1 DEF ChooserTypes, LoadTypes
<1>5. ChooserTypes' /\ (~crossed' => SentIsDisplayed' /\ StoredIsDisplayed')
  BY <1>1, <1>3, <1>4 DEF ChooserTypes, SentIsDisplayed, StoredIsDisplayed
<1>6. ASSUME ~crossed', open' PROVE OneLoad' /\ UsableIsShown'
  <2>1. /\ g = youngest /\ saving = Blank /\ making = "off" /\ session = root
        /\ \A i \in Loads : loads'[i] = NoLoad
    BY <1>1, <1>2, <1>6, LoadOver DEF OneLoad
  <2>2. folder' = loads[g].folder /\ display' = Spot(root, loads[g].folder)
    BY <1>1, <1>6, <2>1 DEF ListAnswered
  <2>3. QED
    BY <1>1, <2>1, <2>2 DEF OneLoad, UsableIsShown
<1>7. QED
  BY <1>5, <1>6

LEMMA LoadFailedKeeps ==
  ASSUME NEW g \in Loads PROVE ChooserIInv /\ LoadFailed(g) => ChooserIInv'
<1> SUFFICES ASSUME ChooserIInv, LoadFailed(g) PROVE ChooserIInv'
  OBVIOUS
<1> USE DEF ChooserIInv
<1>1. /\ loads[g] # NoLoad /\ loads' = [loads EXCEPT ![g] = NoLoad] /\ enabled' = enabled \cup {"select"}
      /\ UNCHANGED <<open, root, display, folder, session, youngest, making, saving, stored, crossed, displayed>>
  BY DEF LoadFailed, Failed
<1>2. loads' \in [Loads -> LoadTypes]
  BY <1>1, LoadOver
<1>3. ChooserTypes' /\ (~crossed' => SentIsDisplayed' /\ StoredIsDisplayed')
  BY <1>1, <1>2 DEF ChooserTypes, SentIsDisplayed, StoredIsDisplayed
<1>4. ASSUME ~crossed', open' PROVE OneLoad' /\ UsableIsShown'
  BY <1>1, <1>4, LoadOver DEF OneLoad, UsableIsShown
<1>5. QED
  BY <1>3, <1>4

-----------------------------------------------------------------------------
(* New folder *)

LEMMA MakingKeeps == ChooserIInv /\ (MakeDir \/ DirNamed) => ChooserIInv'
<1> SUFFICES ASSUME ChooserIInv, MakeDir \/ DirNamed PROVE ChooserIInv'
  OBVIOUS
<1> USE DEF ChooserIInv
<1>1. /\ UNCHANGED <<open, root, enabled, display, folder, session, youngest, loads, saving, stored, crossed, displayed>>
      /\ making' \in {"off", "asking", "sent"}
      /\ "mkdir" \in enabled \/ making # "off"
  BY DEF MakeDir, DirNamed, Press, chooserControls
<1>2. ChooserTypes' /\ (~crossed' => SentIsDisplayed' /\ StoredIsDisplayed')
  BY <1>1 DEF ChooserTypes, SentIsDisplayed, StoredIsDisplayed
<1>3. ASSUME ~crossed', open' PROVE OneLoad' /\ UsableIsShown'
  BY <1>1, <1>3 DEF OneLoad, UsableIsShown
<1>4. QED
  BY <1>2, <1>3

LEMMA DirMadeKeeps == ChooserIInv /\ DirMade => ChooserIInv'
<1> SUFFICES ASSUME ChooserIInv, DirMade PROVE ChooserIInv'
  OBVIOUS
<1> DEFINE new == [at |-> "listing", folder |-> NewDir, root |-> session]
           others == saving # Blank \/ \E g \in Loads : loads[g] # NoLoad
<1>1. /\ making = "sent" /\ making' = "off"
      /\ youngest + 1 \in Loads /\ youngest' = youngest + 1 /\ enabled' = {}
      /\ loads' = [loads EXCEPT ![youngest + 1] = new]
      /\ crossed' = (crossed \/ others)
      /\ UNCHANGED <<open, root, display, folder, session, saving, stored, displayed>>
  BY DEF DirMade
<1>2. new \in LoadTypes /\ new.root = session
  BY ChooserAssumption DEF LoadTypes, ChooserIInv, ChooserTypes
<1>3. crossed \in BOOLEAN /\ others \in BOOLEAN /\ root \in LocalRoots
  BY DEF ChooserIInv, ChooserTypes
<1>4. crossed' \in BOOLEAN /\ (~crossed' => ~crossed /\ ~others)
  BY <1>1, <1>3
<1>5. ~crossed' /\ open => session = root
  BY <1>1, <1>4 DEF ChooserIInv, UsableIsShown
<1> HIDE DEF new
<1>6. QED
  BY <1>1, <1>2, <1>3, <1>4, <1>5, LoadKeeps

LEMMA DirFailedKeeps == ChooserIInv /\ DirFailed => ChooserIInv'
<1> SUFFICES ASSUME ChooserIInv, DirFailed PROVE ChooserIInv'
  OBVIOUS
<1> USE DEF ChooserIInv
<1>1. /\ making = "sent" /\ making' = "off" /\ enabled' = enabled \cup {"select"}
      /\ UNCHANGED <<open, root, display, folder, session, youngest, loads, saving, stored, crossed, displayed>>
  BY DEF DirFailed, Failed
<1>2. ChooserTypes' /\ (~crossed' => SentIsDisplayed' /\ StoredIsDisplayed')
  BY <1>1 DEF ChooserTypes, SentIsDisplayed, StoredIsDisplayed
<1>3. ASSUME ~crossed', open' PROVE OneLoad' /\ UsableIsShown'
  BY <1>1, <1>3 DEF OneLoad, UsableIsShown
<1>4. QED
  BY <1>2, <1>3

-----------------------------------------------------------------------------
(* Use this folder, and closing *)

LEMMA UseFolderKeeps == ChooserIInv /\ UseFolder => ChooserIInv'
<1> SUFFICES ASSUME ChooserIInv, UseFolder PROVE ChooserIInv'
  OBVIOUS
<1> USE DEF ChooserIInv
<1>1. /\ open /\ "use" \in enabled
      /\ saving' = Spot(session, folder) /\ displayed' = display
      /\ enabled' = enabled \ {"use"} /\ crossed' = (crossed \/ Busy)
      /\ UNCHANGED <<open, root, display, folder, session, youngest, loads, making, stored>>
  BY DEF UseFolder, Press
<1>2. crossed' \in BOOLEAN /\ (~crossed' => ~crossed /\ ~Busy)
  BY <1>1 DEF ChooserTypes, Busy
<1>3. ChooserTypes'
  BY <1>1, <1>2 DEF ChooserTypes
<1>4. ASSUME ~crossed' PROVE /\ display = Spot(session, folder) /\ session = root /\ stored = Blank
                            /\ \A g \in Loads : loads[g] = NoLoad
  BY <1>1, <1>2, <1>4 DEF Busy, UsableIsShown, StoredIsDisplayed
<1>5. ~crossed' => SentIsDisplayed' /\ StoredIsDisplayed'
  BY <1>1, <1>4 DEF SentIsDisplayed, StoredIsDisplayed
<1>6. ASSUME ~crossed', open' PROVE OneLoad' /\ UsableIsShown'
  BY <1>1, <1>4, <1>6 DEF OneLoad, UsableIsShown
<1>7. QED
  BY <1>3, <1>5, <1>6

LEMMA FolderSavedKeeps == ChooserIInv /\ FolderSaved => ChooserIInv'
<1> SUFFICES ASSUME ChooserIInv, FolderSaved PROVE ChooserIInv'
  OBVIOUS
<1> USE DEF ChooserIInv
<1>1. /\ saving # Blank /\ stored' = saving /\ saving' = Blank /\ open' = FALSE
      /\ youngest' \in {youngest, youngest + 1}
      /\ UNCHANGED <<root, display, folder, session, loads, making, crossed, displayed>>
  BY DEF FolderSaved, CloseDialog, ChooserTypes
<1>2. ChooserTypes'
  <2>1. youngest' \in Nat
    BY <1>1 DEF ChooserTypes
  <2>2. open' \in BOOLEAN
    BY <1>1
  <2>3. QED
    BY <1>1, <2>1, <2>2 DEF ChooserTypes
<1>3. QED
  BY <1>1, <1>2 DEF SentIsDisplayed, StoredIsDisplayed

LEMMA FolderRefusedKeeps == ChooserIInv /\ FolderRefused => ChooserIInv'
<1> SUFFICES ASSUME ChooserIInv, FolderRefused PROVE ChooserIInv'
  OBVIOUS
<1> USE DEF ChooserIInv
<1>1. /\ saving # Blank /\ saving' = Blank /\ enabled' = enabled \cup {"use", "select"}
      /\ UNCHANGED <<open, root, display, folder, session, youngest, loads, making, stored, crossed, displayed>>
  BY DEF FolderRefused
<1>2. ChooserTypes' /\ (~crossed' => SentIsDisplayed' /\ StoredIsDisplayed')
  BY <1>1 DEF ChooserTypes, SentIsDisplayed, StoredIsDisplayed
<1>3. ASSUME ~crossed', open' PROVE OneLoad' /\ UsableIsShown'
  BY <1>1, <1>3 DEF OneLoad, UsableIsShown
<1>4. QED
  BY <1>2, <1>3

LEMMA DismissKeeps == ChooserIInv /\ Dismiss => ChooserIInv'
<1> SUFFICES ASSUME ChooserIInv, Dismiss PROVE ChooserIInv'
  OBVIOUS
<1>1. /\ open' = FALSE /\ youngest' = youngest + 1
      /\ UNCHANGED <<root, folder, session, loads, making, saving, stored, crossed, displayed>>
  BY DEF Dismiss, CloseDialog, chooserControls
<1>2. ChooserTypes'
  <2>1. youngest' \in Nat
    BY <1>1 DEF ChooserIInv, ChooserTypes
  <2>2. open' \in BOOLEAN
    BY <1>1
  <2>3. QED
    BY <1>1, <2>1, <2>2 DEF ChooserIInv, ChooserTypes
<1>3. QED
  BY <1>1, <1>2 DEF ChooserIInv, SentIsDisplayed, StoredIsDisplayed

-----------------------------------------------------------------------------
LEMMA ChooserStepKeeps == ChooserIInv /\ [ChooserNext]_chooserVars => ChooserIInv'
<1> SUFFICES ASSUME ChooserIInv, [ChooserNext]_chooserVars PROVE ChooserIInv'
  OBVIOUS
<1>1. CASE \E f \in FolderNames : OpenDir(f)
  BY <1>1, OpenDirKeeps
<1>2. CASE \E r \in LocalRoots : ChangeRoot(r)
  BY <1>2, ChangeRootKeeps
<1>3. CASE \E g \in Loads : SessionAnswered(g) \/ ListAnswered(g) \/ LoadFailed(g)
  BY <1>3, SessionAnsweredKeeps, ListAnsweredKeeps, LoadFailedKeeps
<1>4. CASE MakeDir \/ DirNamed \/ DirMade \/ DirFailed
  BY <1>4, MakingKeeps, DirMadeKeeps, DirFailedKeeps
<1>5. CASE UseFolder \/ FolderSaved \/ FolderRefused \/ Dismiss
  BY <1>5, UseFolderKeeps, FolderSavedKeeps, FolderRefusedKeeps, DismissKeeps
<1>6. CASE UNCHANGED chooserVars
  BY <1>6 DEF chooserVars, chooserControls, ChooserIInv, ChooserTypes, OneLoad, UsableIsShown,
              SentIsDisplayed, StoredIsDisplayed
<1>7. QED
  BY <1>1, <1>2, <1>3, <1>4, <1>5, <1>6 DEF ChooserNext

(* The folder that is saved is the one the dialog showed when it was       *)
(* chosen, as long as the calls of the dialog came one after the other     *)
(* (manager.js:333-357).                                                   *)
THEOREM SavedAsShownCorrect == ChooserSpec => []SavedAsShown
<1>1. ChooserInit => ChooserIInv
  BY ChooserInitially
<1>2. ChooserIInv /\ [ChooserNext]_chooserVars => ChooserIInv'
  BY ChooserStepKeeps
<1>3. ChooserIInv => SavedAsShown
  BY DEF ChooserIInv, StoredIsDisplayed, SavedAsShown
<1>4. QED
  BY <1>1, <1>2, <1>3, PTL DEF ChooserSpec

-----------------------------------------------------------------------------
(* The discovery panel *)

ProbeTypes ==
  [op : {"scan"}, of : ScanRanges \cup {Void}, offset : Nat] \cup
  [op : {"none", "roots", "shares"}, of : ScanDevices \cup {Void}, offset : Nat]

Asked == modal \in ScanDevices \cup {Void}

PanelTypes ==
  /\ field \in ScanRanges \cup {Void}
  /\ nextScan \in Nat \cup {Void}
  /\ offered \in BOOLEAN /\ fields \in BOOLEAN /\ upset \in BOOLEAN
  /\ probe \in [Scans -> ProbeTypes]

(* Nothing can be typed or offered while a call is under way. *)
OneProbe == ~upset => \A c \in Probing : ~fields /\ Probing = {c}

(* A scan under way is of the field, from its start or from the page offered. *)
ProbeFollows ==
  ~upset => \A c \in Probing : probe[c].op = "scan" =>
    /\ probe[c].of = field
    /\ probe[c].offset = 0 \/ (offered /\ probe[c].offset = nextScan)

(* An empty field scans its first page, whichever is asked for. *)
EmptyField == offered /\ ~upset /\ field = Void => nextScan = 1

PanelIInv == PanelTypes /\ OneProbe /\ ProbeFollows /\ EmptyField /\ NextContinues

-----------------------------------------------------------------------------
(* The devices of the first n pages of a range. *)
UpTo(r, n) == {Device(r, k) : k \in 0..(n - 1)}

LEMMA UpToOneMore ==
  ASSUME NEW r, NEW n \in Nat
  PROVE  UpTo(r, n + 1) = UpTo(r, n) \cup {Device(r, n)}
<1>1. 0..((n + 1) - 1) = (0..(n - 1)) \cup {n}
  OBVIOUS
<1>2. QED
  BY <1>1 DEF UpTo

(* A call that is sent is the only one, or the calls are upset. *)
LEMMA SendOne ==
  ASSUME PanelIInv, NEW record \in ProbeTypes, record # NoProbe, Send(record)
  PROVE  /\ probe' \in [Scans -> ProbeTypes] /\ upset' \in BOOLEAN /\ ~fields'
         /\ upset => upset'
         /\ OneProbe'
         /\ ~upset' => \A c \in Probing' : probe'[c] = record
<1>1. PICK s \in Scans : probe[s] = NoProbe /\ probe' = [probe EXCEPT ![s] = record]
  BY DEF Send
<1>2. upset' = (upset \/ Probing # {}) /\ fields' = FALSE
  BY DEF Send
<1>3. probe' \in [Scans -> ProbeTypes] /\ Probing' = Probing \cup {s} /\ probe'[s] = record
  BY <1>1 DEF PanelIInv, PanelTypes, Probing
<1>4. ~upset' => Probing' = {s}
  BY <1>2, <1>3
<1>5. QED
  BY <1>2, <1>3, <1>4 DEF PanelIInv, PanelTypes, OneProbe

(* A call that is over was the only one, or the calls are upset. *)
LEMMA OverNone ==
  ASSUME PanelIInv, NEW c \in Probing, ProbeOver(c), upset' = upset
  PROVE  /\ probe' \in [Scans -> ProbeTypes] /\ fields' \in BOOLEAN
         /\ ~upset' => Probing' = {}
         /\ OneProbe' /\ ProbeFollows'
<1>1. NoProbe \in ProbeTypes
  BY DEF NoProbe, Probe, ProbeTypes
<1>2. /\ probe' \in [Scans -> ProbeTypes] /\ fields' \in BOOLEAN
      /\ Probing' = Probing \ {c}
  BY <1>1 DEF ProbeOver, PanelIInv, PanelTypes, Probing
<1>3. ~upset' => Probing' = {}
  BY <1>2 DEF PanelIInv, OneProbe
<1>4. QED
  BY <1>2, <1>3 DEF OneProbe, ProbeFollows

-----------------------------------------------------------------------------
LEMMA PanelInitially == ElementScanInit => PanelIInv
<1> SUFFICES ASSUME ElementScanInit PROVE PanelIInv
  OBVIOUS
<1>1. NoProbe \in ProbeTypes
  BY DEF NoProbe, Probe, ProbeTypes
<1>2. Probing = {}
  BY DEF Probing, ElementScanInit
<1>3. QED
  BY <1>1, <1>2 DEF ElementScanInit, PanelIInv, PanelTypes, OneProbe, ProbeFollows, EmptyField, NextContinues

LEMMA TypeRangesKeeps ==
  ASSUME NEW r \in ScanRanges \cup {Void} PROVE PanelIInv /\ TypeRanges(r) => PanelIInv'
<1> SUFFICES ASSUME PanelIInv, TypeRanges(r) PROVE PanelIInv'
  OBVIOUS
<1>1. fields /\ field' = r /\ nextScan' = Void /\ offered' = FALSE /\ UNCHANGED <<fields, probe, upset>>
  BY DEF TypeRanges
<1>2. Probing' = Probing /\ (~upset => Probing = {})
  BY <1>1 DEF PanelIInv, OneProbe, Probing
<1>3. QED
  BY <1>1, <1>2 DEF PanelIInv, PanelTypes, OneProbe, ProbeFollows, EmptyField, NextContinues

LEMMA ScanNetworkKeeps ==
  ASSUME NEW n \in Nat PROVE PanelIInv /\ ScanNetwork(n) => PanelIInv'
<1> SUFFICES ASSUME PanelIInv, ScanNetwork(n) PROVE PanelIInv'
  OBVIOUS
<1> DEFINE record == Probe("scan", field, n)
<1>1. /\ Send(record) /\ UNCHANGED <<field, nextScan, offered, deviceList>>
      /\ n = 0 \/ (offered /\ n = nextScan)
  BY DEF ScanNetwork
<1>2. record \in ProbeTypes /\ record # NoProbe
  BY DEF Probe, NoProbe, ProbeTypes, PanelIInv, PanelTypes
<1>3. /\ probe' \in [Scans -> ProbeTypes] /\ upset' \in BOOLEAN /\ ~fields' /\ (upset => upset')
      /\ OneProbe' /\ (~upset' => \A c \in Probing' : probe'[c] = record)
  BY <1>1, <1>2, SendOne
<1>4. fields' \in BOOLEAN
  BY <1>1 DEF Send
<1>5. ProbeFollows'
  BY <1>1, <1>3 DEF ProbeFollows, Probe
<1>6. EmptyField' /\ NextContinues'
  BY <1>1, <1>3 DEF EmptyField, NextContinues, PanelIInv
<1>7. QED
  BY <1>1, <1>3, <1>4, <1>5, <1>6 DEF PanelIInv, PanelTypes

(* A call that is not a scan leaves the field and what is offered. *)
LEMMA OtherCallKeeps ==
  ASSUME PanelIInv, NEW record \in ProbeTypes, record.op \in {"roots", "shares"}, Send(record),
         UNCHANGED probing
  PROVE  PanelIInv'
<1>1. record # NoProbe
  BY DEF NoProbe, Probe
<1>2. /\ probe' \in [Scans -> ProbeTypes] /\ upset' \in BOOLEAN /\ ~fields' /\ (upset => upset')
      /\ OneProbe' /\ (~upset' => \A c \in Probing' : probe'[c] = record)
  BY <1>1, SendOne
<1>3. fields' \in BOOLEAN
  BY DEF Send
<1>4. UNCHANGED <<field, nextScan, offered, deviceList>>
  BY DEF probing
<1>5. ProbeFollows'
  BY <1>2 DEF ProbeFollows
<1>6. EmptyField' /\ NextContinues'
  BY <1>2, <1>4 DEF EmptyField, NextContinues, PanelIInv
<1>7. QED
  BY <1>2, <1>3, <1>4, <1>5, <1>6 DEF PanelIInv, PanelTypes

LEMMA PageKeeps == ASSUME NEW c \in Scans PROVE PanelIInv /\ PageAnswered(c) => PanelIInv'
<1> SUFFICES ASSUME PanelIInv, PageAnswered(c) PROVE PanelIInv'
  OBVIOUS
<1> USE ElementScanAssumption
<1> DEFINE r == RangeOf(c)
           n == PageOf(c)
<1>1. /\ probe[c].op = "scan" /\ n \in 0..(PagesOf[r] - 1)
      /\ nextScan' = After(c) /\ offered' = (After(c) # Void)
      /\ deviceList' = KeptDevices(c) \cup {Device(r, n)}
      /\ ProbeOver(c) /\ field' = field /\ upset' = upset
  BY DEF PageAnswered
<1>2. c \in Probing
  BY <1>1 DEF Probing, NoProbe, Probe
<1>3. /\ probe' \in [Scans -> ProbeTypes] /\ fields' \in BOOLEAN /\ OneProbe' /\ ProbeFollows'
  BY <1>1, <1>2, OverNone
<1>4. offered' => nextScan' = n + 1 /\ n \in Nat /\ n + 1 < PagesOf[r]
  <2>1. r \in ScanRanges
    BY <1>1 DEF RangeOf, PanelIInv, PanelTypes, ProbeTypes
  <2>2. n \in Nat
    BY <1>1, <2>1
  <2>3. QED
    BY <1>1, <2>1, <2>2 DEF After
<1>5. nextScan' \in Nat \cup {Void} /\ offered' \in BOOLEAN
  BY <1>1, <1>4 DEF After
<1>6. ASSUME offered', ~upset'
      PROVE  /\ r = (IF field = Void THEN Permitted ELSE field)
             /\ field = Void => nextScan' = 1
             /\ r \in ScanRanges
             /\ deviceList' = UpTo(r, n + 1)
  <2>1. probe[c].of = field /\ (probe[c].offset = 0 \/ (offered /\ probe[c].offset = nextScan))
    BY <1>1, <1>2, <1>6 DEF PanelIInv, ProbeFollows
  <2>2. r = (IF field = Void THEN Permitted ELSE field) /\ n = (IF field = Void THEN 0 ELSE probe[c].offset)
    BY <2>1 DEF RangeOf, PageOf
  <2>3. r \in ScanRanges /\ (field = Void => nextScan' = 1)
    BY <1>4, <1>6, <2>2 DEF PanelIInv, PanelTypes
  <2>4. CASE probe[c].offset = 0
    <3>1. n = 0 /\ KeptDevices(c) = {}
      BY <2>2, <2>4 DEF KeptDevices
    <3>2. UpTo(r, 1) = {Device(r, 0)}
      BY DEF UpTo
    <3>3. deviceList' = UpTo(r, n + 1)
      BY <1>1, <3>1, <3>2
    <3>4. QED
      BY <2>2, <2>3, <3>3
  <2>5. CASE probe[c].offset # 0
    <3>1. offered /\ probe[c].offset = nextScan /\ KeptDevices(c) = deviceList
      BY <2>1, <2>5 DEF KeptDevices
    <3>2. nextScan \in Nat /\ deviceList = UpTo(r, nextScan)
      BY <1>1, <1>6, <2>2, <2>3, <3>1 DEF PanelIInv, NextContinues, UpTo
    <3>3. CASE field # Void
      BY <1>1, <1>4, <1>6, <2>2, <2>3, <3>1, <3>2, <3>3, UpToOneMore
    <3>4. CASE field = Void
      <4>1. nextScan = 1 /\ n = 0
        BY <1>1, <1>6, <2>2, <3>1, <3>4 DEF PanelIInv, EmptyField
      <4>2. UpTo(r, 1) = {Device(r, 0)}
        BY DEF UpTo
      <4>3. QED
        BY <1>1, <2>2, <2>3, <3>1, <3>2, <4>1, <4>2
    <3>5. QED
      BY <3>3, <3>4
  <2>6. QED
    BY <2>2, <2>3, <2>4, <2>5
<1>7. EmptyField'
  BY <1>1, <1>6 DEF EmptyField
<1>8. NextContinues'
  <2> SUFFICES ASSUME offered', ~upset'
               PROVE  LET s == IF field' = Void THEN Permitted ELSE field'
                      IN  nextScan' \in 1..(PagesOf[s] - 1)
                          /\ deviceList' = {Device(s, k) : k \in 0..(nextScan' - 1)}
    BY DEF NextContinues
  <2>1. r = (IF field' = Void THEN Permitted ELSE field') /\ deviceList' = UpTo(r, nextScan')
    BY <1>1, <1>4, <1>6
  <2>2. nextScan' \in 1..(PagesOf[r] - 1)
    BY <1>4, <1>6
  <2>3. QED
    BY <2>1, <2>2 DEF UpTo
<1>9. QED
  BY <1>1, <1>3, <1>5, <1>7, <1>8 DEF PanelIInv, PanelTypes

LEMMA RootsKeeps == ASSUME NEW c \in Scans PROVE PanelIInv /\ RootsAnswered(c) => PanelIInv'
<1> SUFFICES ASSUME PanelIInv, RootsAnswered(c) PROVE PanelIInv'
  OBVIOUS
<1>1. /\ probe[c].op = "roots" /\ ProbeOver(c) /\ upset' = upset
      /\ field' = Permitted /\ nextScan' = Void /\ offered' = FALSE
  BY DEF RootsAnswered
<1>2. c \in Probing
  BY <1>1 DEF Probing, NoProbe, Probe
<1>3. /\ probe' \in [Scans -> ProbeTypes] /\ fields' \in BOOLEAN /\ OneProbe' /\ ProbeFollows'
  BY <1>1, <1>2, OverNone
<1>4. QED
  BY <1>1, <1>3, ElementScanAssumption DEF PanelIInv, PanelTypes, EmptyField, NextContinues

LEMMA EndKeeps ==
  ASSUME NEW c \in Scans PROVE PanelIInv /\ (ProbeFails(c) \/ SharesFound(c)) => PanelIInv'
<1> SUFFICES ASSUME PanelIInv, ProbeFails(c) \/ SharesFound(c) PROVE PanelIInv'
  OBVIOUS
<1>1. probe[c] # NoProbe /\ ProbeOver(c) /\ upset' = upset /\ UNCHANGED <<field, nextScan, offered, deviceList>>
  BY DEF ProbeFails, SharesFound, NoProbe, Probe, probing
<1>2. c \in Probing
  BY <1>1 DEF Probing
<1>3. /\ probe' \in [Scans -> ProbeTypes] /\ fields' \in BOOLEAN /\ OneProbe' /\ ProbeFollows'
  BY <1>1, <1>2, OverNone
<1>4. QED
  BY <1>1, <1>3 DEF PanelIInv, PanelTypes, EmptyField, NextContinues

(* The element is rendered anew while a call is under way, or while none is. *)
LEMMA RenderKeeps == PanelIInv /\ Render => PanelIInv'
<1> SUFFICES ASSUME PanelIInv, Render PROVE PanelIInv'
  OBVIOUS
<1>1. /\ field' = Void /\ offered' = FALSE /\ fields' = TRUE
      /\ upset' = (upset \/ Probing # {}) /\ UNCHANGED <<nextScan, probe>>
  BY DEF Render
<1>2. Probing' = Probing /\ (~upset' => Probing' = {})
  BY <1>1 DEF Probing
<1>3. QED
  BY <1>1, <1>2 DEF PanelIInv, PanelTypes, OneProbe, ProbeFollows, EmptyField, NextContinues

(* A step that leaves the field, what is offered and the calls. *)
LEMMA QuietKeeps ==
  ASSUME PanelIInv, UNCHANGED <<field, nextScan, offered, deviceList, fields, probe, upset>>
  PROVE  PanelIInv'
<1>1. Probing' = Probing
  BY DEF Probing
<1>2. QED
  BY <1>1 DEF PanelIInv, PanelTypes, OneProbe, ProbeFollows, EmptyField, NextContinues

(* Credentials are asked of a device. *)
LEMMA AskedKept == Asked /\ [ElementScanNext]_scanVars => Asked'
BY DEF Asked, ElementScanNext, scanVars, Discover, TypeRanges, ScanNetwork, RootsAnswered, PageAnswered,
       ProbeFails, SharesFound, MapNfs, MapSmb, PickHost, CloseModal, ShowFiles, Render

LEMMA PanelStepKeeps == PanelIInv /\ Asked /\ [ElementScanNext]_scanVars => PanelIInv'
<1> SUFFICES ASSUME PanelIInv, Asked, [ElementScanNext]_scanVars PROVE PanelIInv'
  OBVIOUS
<1> USE ElementScanAssumption
<1>1. CASE Discover
  <2>1. Probe("roots", Void, 0) \in ProbeTypes /\ Probe("roots", Void, 0).op = "roots"
    BY DEF Probe, ProbeTypes
  <2>2. QED
    BY <1>1, <2>1, OtherCallKeeps DEF Discover
<1>2. ASSUME NEW r \in ScanRanges \cup {Void}, TypeRanges(r) PROVE PanelIInv'
  BY <1>2, TypeRangesKeeps
<1>3. CASE ScanNetwork(0) \/ (nextScan # Void /\ ScanNetwork(nextScan))
  BY <1>3, ScanNetworkKeeps DEF PanelIInv, PanelTypes
<1>4. ASSUME NEW c \in Scans, RootsAnswered(c) \/ PageAnswered(c) \/ ProbeFails(c) \/ SharesFound(c)
      PROVE  PanelIInv'
  BY <1>4, RootsKeeps, PageKeeps, EndKeeps
<1>5. ASSUME NEW d \in ScanDevices, AskShares(d), UNCHANGED probing PROVE PanelIInv'
  <2>1. Probe("shares", d, 0) \in ProbeTypes /\ Probe("shares", d, 0).op = "shares"
    BY DEF Probe, ProbeTypes
  <2>2. QED
    BY <1>5, <2>1, OtherCallKeeps DEF AskShares
<1>6. ASSUME NEW d \in ScanDevices, MapNfs(d) \/ MapSmb(d) \/ PickHost(d) PROVE PanelIInv'
  <2>1. CASE MapNfs(d) \/ PickHost(d)
    BY <2>1, <1>5 DEF MapNfs, PickHost
  <2>2. CASE MapSmb(d)
    BY <2>2, QuietKeeps DEF MapSmb, probing
  <2>3. QED
    BY <1>6, <2>1, <2>2
<1>7. CASE CloseModal
  <2>1. CASE UNCHANGED <<fields, probe, upset>>
    BY <1>7, <2>1, QuietKeeps DEF CloseModal, probing
  <2>2. CASE AskShares(modal)
    <3>1. modal \in ScanDevices /\ UNCHANGED probing
      BY <1>7 DEF CloseModal, Asked
    <3>2. QED
      BY <2>2, <3>1, <1>5
  <2>3. QED
    BY <1>7, <2>1, <2>2 DEF CloseModal
<1>8. CASE ShowFiles \/ UNCHANGED scanVars
  BY <1>8, QuietKeeps DEF ShowFiles, scanVars, probing
<1>9. CASE Render
  BY <1>9, RenderKeeps
<1>10. QED
  BY <1>1, <1>2, <1>3, <1>4, <1>6, <1>7, <1>8, <1>9 DEF ElementScanNext

-----------------------------------------------------------------------------
(* The next page that is offered continues the ranges in the field, and    *)
(* the list holds the devices of the pages before it, while the calls come *)
(* one after the other (browser.js:483, 599-616).                          *)
THEOREM NextContinuesCorrect == ElementScanSpec => []NextContinues
<1>1. ElementScanInit => PanelIInv /\ Asked
  BY PanelInitially DEF ElementScanInit, Asked
<1>2. PanelIInv /\ Asked /\ [ElementScanNext]_scanVars => PanelIInv' /\ Asked'
  BY PanelStepKeeps, AskedKept
<1>3. PanelIInv => NextContinues
  BY DEF PanelIInv
<1>4. QED
  BY <1>1, <1>2, <1>3, PTL DEF ElementScanSpec

-----------------------------------------------------------------------------
(* The element *)

ElementStep == [ElementNext]_elementVars

-----------------------------------------------------------------------------
(* Types *)

Ops == {"none", "connect", "show", "shares", "leave", "other", "change", "edit", "paste", "upload", "select", "disconnect"}
Waits == {"none", "closing", "connecting", "listing", "relisting", "reconnecting", "asked", "leaving", "answering",
          "reading", "asking", "sourcing", "sent", "next", "describing", "selected", "disconnecting"}
CallRecord ==
  [op : Ops, at : Waits, to : Targets \cup Paths \cup {Absent}, gen : Nat,
   id : ElementSessions \cup Targets \cup {Absent}, path : Paths]

(* A call that connects is for a location, one that lists for a folder. *)
CallOK(r) ==
  /\ r \in CallRecord
  /\ r.op = "connect" /\ r.at \in {"closing", "connecting"} => r.to \in Targets
  /\ r.at \in {"listing", "relisting", "reconnecting"} => r.to \in Paths
  /\ r.at = "reconnecting" => r.id \in Targets
  /\ r.at = "connecting" => r.op = "connect"
  /\ r.at = "asked" => r.op = "shares"

CallsTypeOK == call \in [Calls -> CallRecord] /\ \A c \in Calls : CallOK(call[c])

ElementTypeOK ==
  /\ uses \in 0..MaxUses /\ attached \in BOOLEAN /\ generation \in Nat
  /\ held \in ElementSessions \cup {Absent} /\ descriptor \in Targets \cup {Absent}
  /\ path \in Paths
  /\ listRows \in [location : Targets \cup {Absent}, path : Paths] \cup {Absent}
  /\ controls \in BOOLEAN /\ rail \in BOOLEAN
  /\ CallsTypeOK
  /\ location \in [ElementSessions -> Targets \cup {Absent}]
  /\ live \subseteq ElementSessions
  /\ disturbed \in BOOLEAN /\ astray \subseteq {"manage", "paste", "upload"}

-----------------------------------------------------------------------------
(* What holds while the calls come one after the other *)

Alone == \A c, d \in Calls : call[c] # NoCall /\ call[d] # NoCall => c = d

(* The session the element has is that of its call, if there is one, and a call that is about
   to open a session finds none open; what was asked for an element that is out of its page since
   is stale; the folder shown is the one at which the call began. *)
Orderly(r) ==
  /\ r.op = "connect" /\ r.at \in {"closing", "connecting"} => held = Absent
  /\ r.at = "listing" => held \in {r.id, Absent}
  /\ r.at = "reconnecting" => live = {}
  /\ r.gen <= generation
  /\ r.at = "connecting" /\ ~attached => r.gen # generation
  /\ r # NoCall => r.path = path

Undisturbed ==
  /\ Alone
  /\ \A c \in Calls : Orderly(call[c])
  /\ ~attached => held = Absent
  /\ live \subseteq {held} /\ astray = {}

ElementInv == ElementTypeOK /\ "manage" \notin astray /\ (~disturbed => Undisturbed)

-----------------------------------------------------------------------------
USE ElementAssumption

(* A handler that begins, goes on, waits for something else or ends keeps the calls well formed. *)
LEMMA BeginOK ==
  ASSUME CallsTypeOK, disturbed \in BOOLEAN, NEW r, CallOK(r), Begin(r)
  PROVE  CallsTypeOK' /\ disturbed' \in BOOLEAN
BY DEF CallsTypeOK, Begin, CallOK, Running

LEMMA ChangeOK ==
  ASSUME CallsTypeOK, NEW d \in Calls, NEW r, CallOK(r), call' = [call EXCEPT ![d] = r]
  PROVE  CallsTypeOK'
BY DEF CallsTypeOK, CallOK

(* The calls that begin are well formed. *)
LEMMA NoCallOK == CallOK(NoCall)
BY DEF CallOK, NoCall, CallRecord, Ops, Waits

LEMMA CallsOK ==
  ASSUME ElementTypeOK
  PROVE  \A op \in Ops, at \in Waits, to \in Targets \cup Paths \cup {Absent} :
            /\ op = "connect" /\ at \in {"closing", "connecting"} => to \in Targets
            /\ at \in {"listing", "relisting", "reconnecting"} => to \in Paths
            /\ at \notin {"reconnecting", "connecting"} /\ (at = "asked" => op = "shares")
            => CallOK(Call(op, at, to))
BY DEF ElementTypeOK, CallOK, NoCall, Call, CallRecord, Ops, Waits, Targets, ElementSessions

LEMMA EndOK ==
  ASSUME CallsTypeOK, NEW c \in Calls, End(c)
  PROVE  CallsTypeOK'
BY NoCallOK, ChangeOK DEF End

LEMMA StepOK ==
  ASSUME CallsTypeOK, NEW c \in Calls, NEW at \in Waits,
         Step(c, at),
         call[c].op = "connect" => at \notin {"closing", "connecting"},
         at \notin {"listing", "relisting", "reconnecting", "connecting", "asked"}
  PROVE  CallsTypeOK'
<1>1. call' = [call EXCEPT ![c] = [call[c] EXCEPT !.at = at]] /\ CallOK(call[c])
  BY DEF Step, CallsTypeOK
<1>2. CallOK([call[c] EXCEPT !.at = at])
  BY <1>1 DEF CallOK, CallRecord
<1>3. QED
  BY <1>1, <1>2, ChangeOK

(* What a call is turned into when it goes on. *)
LEMMA ConnectingOK ==
  ASSUME NEW r, CallOK(r), r.op = "connect", r.to \in Targets, NEW gen \in Nat
  PROVE  CallOK([r EXCEPT !.at = "connecting", !.gen = gen])
BY DEF CallOK, CallRecord, Waits

LEMMA ListingOK ==
  ASSUME NEW r, CallOK(r), NEW s \in ElementSessions
  PROVE  /\ CallOK([r EXCEPT !.at = "listing", !.to = RootPath, !.id = s])
         /\ r.to \in Paths => CallOK([r EXCEPT !.at = "relisting", !.id = s])
<1>1. CallOK([r EXCEPT !.at = "listing", !.to = RootPath, !.id = s])
  BY DEF CallOK, CallRecord, Waits
<1>2. r.to \in Paths => CallOK([r EXCEPT !.at = "relisting", !.id = s])
  BY DEF CallOK, CallRecord, Waits
<1>3. QED
  BY <1>1, <1>2

LEMMA ReconnectingOK ==
  ASSUME NEW r, CallOK(r), r.to \in Paths, NEW l \in Targets
  PROVE  CallOK([r EXCEPT !.at = "reconnecting", !.id = l])
BY DEF CallOK, CallRecord, Waits

LEMMA RelistingOK ==
  ASSUME NEW r, CallOK(r), NEW gen \in Nat, NEW h \in ElementSessions \cup {Absent}
  PROVE  CallOK([r EXCEPT !.at = "listing", !.to = r.path, !.gen = gen, !.id = h])
<1>1. r.path \in Paths
  BY DEF CallOK, CallRecord
<1>2. PICK p \in Paths : p = r.path
  BY <1>1
<1>3. CallOK([r EXCEPT !.at = "listing", !.to = p, !.gen = gen, !.id = h])
  BY DEF CallOK, CallRecord, Waits
<1>4. QED
  BY <1>2, <1>3

(* Every action keeps the types; what a call is turned into is well formed. *)
LEMMA ElementTypeStep == ElementTypeOK /\ ElementStep => ElementTypeOK'
<1> SUFFICES ASSUME ElementTypeOK, ElementStep PROVE ElementTypeOK'
  OBVIOUS
<1>t. CallsTypeOK /\ disturbed \in BOOLEAN
  BY DEF ElementTypeOK
<1>u. CASE UNCHANGED elementVars
  BY <1>u DEF ElementTypeOK, CallsTypeOK, elementVars, element, buttons, server, past
<1>b. (Disable \/ Enable) => controls' \in BOOLEAN /\ rail' \in BOOLEAN
  BY DEF Disable, Enable
<1>1. ASSUME NEW l \in Targets, ConnectTo(l) PROVE ElementTypeOK'
  <2>1. CallOK(Call("connect", "closing", l))
    BY CallsOK DEF Ops, Waits
  <2>2. CallsTypeOK' /\ disturbed' \in BOOLEAN
    BY <1>1, <2>1, <1>t, BeginOK DEF ConnectTo
  <2>3. QED
    BY <1>1, <1>b, <2>2 DEF ElementTypeOK, ConnectTo, Use, Close
<1>2. ASSUME NEW p \in Paths, Show(p) PROVE ElementTypeOK'
  <2>1. CallOK(Call("show", "listing", p))
    BY CallsOK DEF Ops, Waits
  <2>2. CallsTypeOK' /\ disturbed' \in BOOLEAN
    BY <1>2, <2>1, <1>t, BeginOK DEF Show
  <2>3. QED
    BY <1>2, <1>b, <2>2 DEF ElementTypeOK, Show, Use, element, server
<1>3. CASE LoadShares \/ OtherCall \/ UploadFiles \/ Select
  <2>1. /\ CallOK(Call("shares", "asked", Absent)) /\ CallOK(Call("other", "answering", Absent))
        /\ CallOK(Call("upload", "next", Absent)) /\ CallOK(Call("select", "describing", Absent))
    BY CallsOK DEF Ops, Waits
  <2>2. CallsTypeOK' /\ disturbed' \in BOOLEAN
    BY <1>3, <2>1, <1>t, BeginOK DEF LoadShares, OtherCall, UploadFiles, Select
  <2>3. QED
    BY <1>3, <1>b, <2>2 DEF ElementTypeOK, LoadShares, OtherCall, UploadFiles, Select, Use, element, server
<1>4. CASE LeaveShare \/ DisconnectElement
  <2>1. CallOK(Call("leave", "leaving", Absent)) /\ CallOK(Call("disconnect", "disconnecting", Absent))
    BY CallsOK DEF Ops, Waits
  <2>2. CallsTypeOK' /\ disturbed' \in BOOLEAN
    BY <1>4, <2>1, <1>t, BeginOK DEF LeaveShare, DisconnectElement
  <2>3. QED
    BY <1>4, <2>1, <2>2 DEF ElementTypeOK, LeaveShare, DisconnectElement, Use, Close, buttons
<1>5. ASSUME NEW op \in {"change", "edit", "paste"}, Manage(op) PROVE ElementTypeOK'
  <2>1. CallOK(Call(op, "reading", Absent)) /\ CallOK(Call(op, "asking", Absent))
    BY CallsOK DEF Ops, Waits
  <2>2. CallOK(Call(op, IF op = "edit" THEN "reading" ELSE "asking", Absent))
    BY <2>1
  <2>3. CallsTypeOK' /\ disturbed' \in BOOLEAN
    BY <1>5, <2>2, <1>t, BeginOK DEF Manage
  <2>4. QED
    BY <1>5, <2>2, <2>3 DEF ElementTypeOK, Manage, Use, element, buttons, server
<1>6. ASSUME NEW c \in Calls, Closed(c) PROVE ElementTypeOK'
  <2>1. CallOK(call[c]) /\ call[c].op = "connect" /\ call[c].to \in Targets
    BY <1>6, <1>t DEF Closed, CallsTypeOK, CallOK
  <2>2. CallOK([call[c] EXCEPT !.at = "connecting", !.gen = generation])
    BY <2>1, ConnectingOK DEF ElementTypeOK
  <2>3. call' = [call EXCEPT ![c] = [call[c] EXCEPT !.at = "connecting", !.gen = generation]]
    BY <1>6 DEF Closed
  <2>4. CallsTypeOK'
    BY <1>t, <2>2, <2>3, ChangeOK
  <2>5. QED
    BY <1>6, <2>1, <2>4 DEF ElementTypeOK, Closed, buttons, server
<1>7. ASSUME NEW c \in Calls, NEW s \in ElementSessions, Connected(c, s) PROVE ElementTypeOK'
  <2>1. CallOK(call[c]) /\ call[c].to \in Targets
    BY <1>7, <1>t DEF Connected, CallsTypeOK, CallOK
  <2>2. CallOK([call[c] EXCEPT !.at = "listing", !.to = RootPath, !.id = s])
    BY <2>1, ListingOK
  <2>3. End(c) \/ call' = [call EXCEPT ![c] = [call[c] EXCEPT !.at = "listing", !.to = RootPath, !.id = s]]
    BY <1>7 DEF Connected
  <2>4. CallsTypeOK'
    BY <1>t, <2>2, <2>3, ChangeOK, EndOK
  <2>5. QED
    BY <1>7, <2>1, <2>4 DEF ElementTypeOK, Connected, Enable, past
<1>8. ASSUME NEW c \in Calls, Listed(c) PROVE ElementTypeOK'
  <2>1. call[c].to \in Paths /\ location[call[c].id] \in Targets \cup {Absent}
    BY <1>8 DEF Listed, Lists, ElementTypeOK, CallsTypeOK, CallOK
  <2>2. CallsTypeOK'
    BY <1>8, <2>1, <1>t, EndOK DEF Listed
  <2>3. QED
    BY <1>8, <2>1, <2>2 DEF ElementTypeOK, Listed, Enable, Close, past
<1>9. ASSUME NEW c \in Calls, Expired(c) PROVE ElementTypeOK'
  <2>1. CallOK(call[c]) /\ call[c].to \in Paths
    BY <1>9, <1>t DEF Expired, CallsTypeOK, CallOK
  <2>2. descriptor # Absent => CallOK([call[c] EXCEPT !.at = "reconnecting", !.id = descriptor])
    BY <2>1, ReconnectingOK DEF ElementTypeOK
  <2>3. End(c) \/ (descriptor # Absent /\ call' = [call EXCEPT ![c] = [call[c] EXCEPT !.at = "reconnecting", !.id = descriptor]])
    BY <1>9 DEF Expired
  <2>4. CallsTypeOK'
    BY <1>t, <2>2, <2>3, ChangeOK, EndOK
  <2>5. QED
    BY <1>9, <2>1, <2>4 DEF ElementTypeOK, Expired, Enable, buttons, server
<1>10. ASSUME NEW c \in Calls, NEW s \in ElementSessions, Reconnected(c, s) PROVE ElementTypeOK'
  <2>1. CallOK(call[c]) /\ call[c].to \in Paths /\ call[c].id \in Targets
    BY <1>10, <1>t DEF Reconnected, CallsTypeOK, CallOK
  <2>2. CallOK([call[c] EXCEPT !.at = "relisting", !.id = s])
    BY <2>1, ListingOK
  <2>3. End(c) \/ call' = [call EXCEPT ![c] = [call[c] EXCEPT !.at = "relisting", !.id = s]]
    BY <1>10 DEF Reconnected
  <2>4. CallsTypeOK'
    BY <1>t, <2>2, <2>3, ChangeOK, EndOK
  <2>5. QED
    BY <1>10, <2>1, <2>4 DEF ElementTypeOK, Reconnected, Enable, buttons, past
<1>11. ASSUME NEW c \in Calls, CallFails(c) \/ SharesShown(c) \/ OtherAnswered(c) \/ Selected(c) \/ ElementDisconnected(c) PROVE ElementTypeOK'
  <2>1. CallsTypeOK'
    BY <1>11, <1>t, EndOK DEF CallFails, SharesShown, OtherAnswered, Selected, ElementDisconnected
  <2>2. QED
    BY <1>11, <2>1 DEF ElementTypeOK, CallFails, SharesShown, OtherAnswered, Selected, ElementDisconnected, Enable, element, server, past
<1>12. ASSUME NEW c \in Calls, SharesListed(c) PROVE ElementTypeOK'
  <2>1. call' = [call EXCEPT ![c] = [call[c] EXCEPT !.at = "closing"]]
    BY <1>12 DEF SharesListed, Step
  <2>2. CallOK([call[c] EXCEPT !.at = "closing"])
    BY <1>12 DEF SharesListed, ElementTypeOK, CallsTypeOK, CallOK, CallRecord, Waits
  <2>3. CallsTypeOK'
    BY <1>12, <2>1, <2>2, <1>t, ChangeOK DEF SharesListed
  <2>4. QED
    BY <1>12, <2>1, <2>2, <2>3 DEF ElementTypeOK, SharesListed, Close, buttons, past
<1>13. ASSUME NEW c \in Calls, ShareLeft(c) PROVE ElementTypeOK'
  <2>1. CallOK(call[c])
    BY <1>13, <1>t DEF ShareLeft, CallsTypeOK, CallOK
  <2>2. CallOK([call[c] EXCEPT !.op = "shares", !.at = "asked"])
    BY <2>1 DEF CallOK, CallRecord, Ops, Waits
  <2>3. End(c) \/ call' = [call EXCEPT ![c] = [call[c] EXCEPT !.op = "shares", !.at = "asked"]]
    BY <1>13 DEF ShareLeft
  <2>4. CallsTypeOK'
    BY <1>t, <2>2, <2>3, ChangeOK, EndOK
  <2>5. QED
    BY <1>13, <2>4 DEF ElementTypeOK, ShareLeft, Disable, server, past
<1>14. ASSUME NEW c \in Calls, FileRead(c) PROVE ElementTypeOK'
  <2>1. "asking" \in Waits
    BY DEF Waits
  <2>2. CallsTypeOK'
    BY <1>14, <2>1, <1>t, StepOK, EndOK DEF FileRead
  <2>3. QED
    BY <1>14, <2>1, <2>2 DEF ElementTypeOK, FileRead, element, buttons, server, past
<1>15. ASSUME NEW c \in Calls, DialogAnswered(c) PROVE ElementTypeOK'
  <2>1. "sourcing" \in Waits /\ "sent" \in Waits
    BY DEF Waits
  <2>2. End(c) \/ Step(c, "sourcing") \/ Step(c, "sent")
    BY <1>15 DEF DialogAnswered
  <2>3. CallsTypeOK'
    BY <1>t, <2>1, <2>2, StepOK, EndOK
  <2>4. QED
    BY <1>15, <2>3 DEF ElementTypeOK, DialogAnswered, ActsIn, Disable, element, buttons, server
<1>16. ASSUME NEW c \in Calls, NEW s \in ElementSessions, Sourced(c, s) PROVE ElementTypeOK'
  <2>1. "sent" \in Waits
    BY DEF Waits
  <2>2. CallsTypeOK'
    BY <1>16, <2>1, <1>t, StepOK DEF Sourced
  <2>3. QED
    BY <1>16, <2>1, <2>2 DEF ElementTypeOK, Sourced, ActsIn, element, buttons
<1>17. ASSUME NEW c \in Calls, Done(c) PROVE ElementTypeOK'
  <2>1. CallOK(call[c])
    BY <1>17, <1>t DEF Done, CallsTypeOK, CallOK
  <2>2. CallOK([call[c] EXCEPT !.at = "listing", !.to = call[c].path, !.gen = generation, !.id = held])
    BY <2>1, RelistingOK DEF ElementTypeOK
  <2>3. call' = [call EXCEPT ![c] = [call[c] EXCEPT !.at = "listing", !.to = call[c].path, !.gen = generation, !.id = held]]
    BY <1>17 DEF Done
  <2>4. CallsTypeOK'
    BY <1>t, <2>2, <2>3, ChangeOK
  <2>5. QED
    BY <1>17, <2>4 DEF ElementTypeOK, Done, element, buttons, server, past
<1>18. ASSUME NEW c \in Calls, SendNext(c) PROVE ElementTypeOK'
  <2>1. "asking" \in Waits /\ "sent" \in Waits
    BY DEF Waits
  <2>2. UNCHANGED call \/ Step(c, "asking") \/ Step(c, "sent")
    BY <1>18 DEF SendNext
  <2>3. CallsTypeOK'
    <3>1. CASE UNCHANGED call
      BY <1>t, <3>1 DEF CallsTypeOK
    <3>2. QED
      BY <1>t, <2>1, <2>2, <3>1, StepOK
  <2>4. QED
    BY <1>18, <2>3 DEF ElementTypeOK, SendNext, ActsIn, element, buttons, server
<1>19. ASSUME NEW c \in Calls, Replace(c) PROVE ElementTypeOK'
  <2>1. "next" \in Waits
    BY DEF Waits
  <2>2. CallsTypeOK'
    BY <1>19, <2>1, <1>t, StepOK DEF Replace
  <2>3. QED
    BY <1>19, <2>1, <2>2 DEF ElementTypeOK, Replace, element, buttons, server, past
<1>20. ASSUME NEW c \in Calls, Described(c) PROVE ElementTypeOK'
  <2>1. "selected" \in Waits
    BY DEF Waits
  <2>2. CallsTypeOK'
    BY <1>20, <2>1, <1>t, StepOK DEF Described
  <2>3. QED
    BY <1>20, <2>1, <2>2 DEF ElementTypeOK, Described, Close, buttons, past
<1>21. CASE TakeOut
  <2>1. CallsTypeOK' /\ generation' \in Nat
    BY <1>21 DEF ElementTypeOK, CallsTypeOK, TakeOut
  <2>2. attached' \in BOOLEAN
    BY <1>21 DEF TakeOut
  <2>3. QED
    BY <1>21, <2>1, <2>2 DEF ElementTypeOK, TakeOut, Close, buttons, past
<1>22. ASSUME NEW s \in ElementSessions, ExpireSession(s) PROVE ElementTypeOK'
  BY <1>22 DEF ElementTypeOK, CallsTypeOK, ExpireSession, element, buttons, past
<1>23. CASE PutIn
  BY <1>23, <1>b DEF ElementTypeOK, CallsTypeOK, PutIn, server, past
<1>24. QED
  BY <1>u, <1>1, <1>2, <1>3, <1>4, <1>5, <1>6, <1>7, <1>8, <1>9, <1>10, <1>11, <1>12, <1>13, <1>14, <1>15, <1>16,
     <1>17, <1>18, <1>19, <1>20, <1>21, <1>22, <1>23
  DEF ElementStep, ElementNext, ElementGesture, ElementAnswer, ElementDialog

LEMMA ElementTypeStart == ElementInit => ElementTypeOK
<1>1. ElementInit => CallsTypeOK
  BY NoCallOK DEF ElementInit, CallsTypeOK, CallOK
<1>2. ElementInit => attached \in BOOLEAN /\ controls \in BOOLEAN /\ rail \in BOOLEAN /\ disturbed \in BOOLEAN
  BY DEF ElementInit
<1>3. QED
  BY <1>1, <1>2 DEF ElementInit, ElementTypeOK

(* The types of the element, its calls and the sessions of the service. *)
THEOREM ElementTypeCorrect == ElementSpec => []ElementTypeOK
BY ElementTypeStart, ElementTypeStep, PTL DEF ElementSpec, ElementStep

-----------------------------------------------------------------------------
(* The calls come one after the other *)

(* A call that begins undisturbed is the only one. *)
LEMMA BeginAlone ==
  ASSUME NEW r, r # NoCall, CallsTypeOK, Begin(r), ~disturbed'
  PROVE  ~disturbed /\ \E c \in Calls : /\ call'[c] = r
                                        /\ \A d \in Calls : call[d] = NoCall /\ (d # c => call'[d] = NoCall)
BY DEF Begin, Running, CallsTypeOK

(* A call that goes on or ends leaves the others alone. *)
LEMMA ChangeAlone ==
  ASSUME CallsTypeOK, Alone, NEW c \in Calls, call[c] # NoCall, NEW r, call' = [call EXCEPT ![c] = r]
  PROVE  call'[c] = r /\ \A d \in Calls : d # c => call[d] = NoCall /\ call'[d] = NoCall
BY DEF CallsTypeOK, Alone

(* So the calls stay orderly when the one that acts does. *)
LEMMA AloneOrderly ==
  ASSUME ElementTypeOK, NEW c \in Calls, \A d \in Calls : d # c => call'[d] = NoCall, Orderly(call[c])', generation' \in Nat
  PROVE  Alone' /\ \A d \in Calls : Orderly(call[d])'
<1>1. \A d \in Calls : d # c => Orderly(call[d])'
  BY DEF Orderly, NoCall, ElementTypeOK
<1>2. QED
  BY <1>1 DEF Alone

(* A step of the only call there is. *)
LEMMA OnlyCall ==
  ASSUME ElementTypeOK, Undisturbed, ElementTypeOK', NEW c \in Calls, call[c] # NoCall, NEW r, call' = [call EXCEPT ![c] = r],
         Orderly(r)', live' \subseteq {held'}, ~attached' => held' = Absent, astray' = {}
  PROVE  Undisturbed'
<1>1. call'[c] = r /\ \A d \in Calls : d # c => call'[d] = NoCall
  BY ChangeAlone DEF ElementTypeOK, Undisturbed
<1>2. QED
  BY <1>1, AloneOrderly DEF Undisturbed, ElementTypeOK

(* A gesture whose call is the only one. *)
LEMMA NewCall ==
  ASSUME ElementTypeOK, ElementTypeOK', ~disturbed => Undisturbed, ~disturbed', NEW r, r # NoCall, Begin(r), attached', UNCHANGED <<path, astray, generation>>,
         Orderly(r)', live' \subseteq live, held' = held \/ live' \subseteq {held'}
  PROVE  Undisturbed'
<1>1. PICK c \in Calls : call'[c] = r /\ \A d \in Calls : d # c => call'[d] = NoCall
  BY BeginAlone DEF ElementTypeOK
<1>2. ~disturbed /\ Undisturbed
  BY BeginAlone DEF ElementTypeOK
<1>3. QED
  BY <1>1, <1>2, AloneOrderly DEF Undisturbed, ElementTypeOK

(* The only call ends, or waits for something else. *)
LEMMA EndsAlone ==
  ASSUME ElementTypeOK, Undisturbed, ElementTypeOK', NEW c \in Calls, call[c] # NoCall, End(c),
         UNCHANGED <<held, live>> \/ (held' = Absent /\ live' = live \ {held}),
         ~attached' => held' = Absent, astray' = {}
  PROVE  Undisturbed'
<1>1. Orderly(NoCall)'
  BY DEF Orderly, NoCall, ElementTypeOK
<1>2. live' \subseteq {held'}
  BY DEF Undisturbed
<1>3. QED
  BY <1>1, <1>2, OnlyCall DEF End

LEMMA StepsAlone ==
  ASSUME ElementTypeOK, Undisturbed, ElementTypeOK', NEW c \in Calls, call[c] # NoCall,
         NEW at \in {"asking", "sourcing", "sent", "next", "selected"}, Step(c, at), UNCHANGED <<path, generation, attached>>,
         UNCHANGED <<held, live>> \/ (held' = Absent /\ live' = live \ {held}), astray' = {}
  PROVE  Undisturbed'
<1>1. PICK r : r = [call[c] EXCEPT !.at = at]
  OBVIOUS
<1>2. call' = [call EXCEPT ![c] = r]
  BY <1>1 DEF Step
<1>3. Orderly(r)'
  BY <1>1 DEF Orderly, Undisturbed, ElementTypeOK, CallsTypeOK, CallOK, CallRecord
<1>4. live' \subseteq {held'} /\ (~attached' => held' = Absent)
  BY DEF Undisturbed
<1>5. QED
  BY <1>2, <1>3, <1>4, OnlyCall

(* Every step that leaves the calls one after the other keeps the sessions in order: one that
   begins finds no other, and one that goes on knows what the element has. *)
LEMMA UndisturbedStep ==
  ASSUME ElementTypeOK, ElementTypeOK', ~disturbed => Undisturbed, ElementStep, ~disturbed'
  PROVE  Undisturbed'
<1>u. CASE UNCHANGED elementVars
  BY <1>u DEF Undisturbed, Alone, Orderly, elementVars, element, buttons, server, past
<1>b. \A op, at, to : at # "none" => Call(op, at, to) # NoCall
  BY DEF Call, NoCall
<1>c. \A c \in Calls : call[c].at # "none" => call[c] # NoCall
  BY DEF NoCall
<1>t. \A c \in Calls : CallOK(call[c])
  BY DEF ElementTypeOK, CallsTypeOK
<1>l. Absent \notin live
  BY DEF ElementTypeOK, ElementSessions
(* Gestures *)
<1>1. ASSUME NEW l \in Targets, ConnectTo(l) PROVE Undisturbed'
  <2>1. PICK r : r = Call("connect", "closing", l)
    OBVIOUS
  <2>2. Begin(r) /\ r # NoCall /\ attached' /\ UNCHANGED <<path, astray, generation>>
    BY <1>1, <1>b, <2>1 DEF ConnectTo, Use
  <2>3. held' = Absent /\ live' = live \ {held}
    BY <1>1 DEF ConnectTo, Close
  <2>4. Orderly(r)'
    BY <2>1, <2>2, <2>3 DEF Orderly, Call, ElementTypeOK
  <2>5. live' \subseteq {held'}
    BY <2>2, <2>3, BeginAlone DEF Undisturbed, ElementTypeOK
  <2>6. QED
    BY <2>2, <2>3, <2>4, <2>5, NewCall
<1>2. ASSUME NEW p \in Paths, Show(p) PROVE Undisturbed'
  <2>1. PICK r : r = Call("show", "listing", p)
    OBVIOUS
  <2>2. Begin(r) /\ r # NoCall /\ attached' /\ UNCHANGED <<path, astray, generation, held, live>>
    BY <1>2, <1>b, <2>1 DEF Show, Use, element, server
  <2>3. Orderly(r)'
    BY <2>1, <2>2 DEF Orderly, Call, ElementTypeOK
  <2>4. QED
    BY <2>2, <2>3, NewCall
<1>3. CASE LoadShares \/ OtherCall \/ UploadFiles \/ Select
  <2>1. PICK r : r \in {Call("shares", "asked", Absent), Call("other", "answering", Absent), Call("upload", "next", Absent),
                        Call("select", "describing", Absent)} /\ Begin(r)
    BY <1>3 DEF LoadShares, OtherCall, UploadFiles, Select
  <2>2. r # NoCall /\ attached' /\ UNCHANGED <<path, astray, generation, held, live>>
    BY <1>3, <1>b, <2>1 DEF LoadShares, OtherCall, UploadFiles, Select, Use, element, server
  <2>3. Orderly(r)'
    BY <2>1, <2>2 DEF Orderly, Call, ElementTypeOK
  <2>4. QED
    BY <2>1, <2>2, <2>3, NewCall
<1>4. CASE LeaveShare \/ DisconnectElement
  <2>1. PICK r : r \in {Call("leave", "leaving", Absent), Call("disconnect", "disconnecting", Absent)} /\ Begin(r)
    BY <1>4 DEF LeaveShare, DisconnectElement
  <2>2. r # NoCall /\ attached' /\ UNCHANGED <<path, astray, generation>>
    BY <1>4, <1>b, <2>1 DEF LeaveShare, DisconnectElement, Use
  <2>3. held' = Absent /\ live' = live \ {held}
    BY <1>4 DEF LeaveShare, DisconnectElement, Close
  <2>4. Orderly(r)'
    BY <2>1, <2>2, <2>3 DEF Orderly, Call, ElementTypeOK
  <2>5. live' \subseteq {held'}
    BY <2>1, <2>2, <2>3, BeginAlone DEF Undisturbed, ElementTypeOK
  <2>6. QED
    BY <2>1, <2>2, <2>3, <2>4, <2>5, NewCall
<1>5. ASSUME NEW op \in {"change", "edit", "paste"}, Manage(op) PROVE Undisturbed'
  <2>1. PICK r : r = Call(op, IF op = "edit" THEN "reading" ELSE "asking", Absent)
    OBVIOUS
  <2>2. Begin(r) /\ r # NoCall /\ attached' /\ UNCHANGED <<path, astray, generation, held, live>>
    BY <1>5, <1>b, <2>1 DEF Manage, Use, element, server
  <2>3. Orderly(r)'
    BY <2>1, <2>2 DEF Orderly, Call, ElementTypeOK
  <2>4. QED
    BY <2>2, <2>3, NewCall
(* Calls that go on *)
<1>6. ASSUME NEW c \in Calls, Closed(c) PROVE Undisturbed'
  <2>1. PICK r : r = [call[c] EXCEPT !.at = "connecting", !.gen = generation]
    OBVIOUS
  <2>2. /\ Undisturbed /\ attached /\ call[c] # NoCall /\ call' = [call EXCEPT ![c] = r]
        /\ UNCHANGED <<path, astray, generation, held, live, attached>>
    BY <1>6, <1>c, <2>1 DEF Closed, server
  <2>3. Orderly(r)'
    BY <1>6, <1>t, <2>1, <2>2 DEF Closed, Undisturbed, Orderly, ElementTypeOK, CallOK, CallRecord, NoCall
  <2>4. QED
    BY <2>2, <2>3, OnlyCall DEF Undisturbed
<1>7. ASSUME NEW c \in Calls, NEW s \in ElementSessions, Connected(c, s) PROVE Undisturbed'
  <2>1. /\ Undisturbed /\ call[c] # NoCall /\ held = Absent /\ call[c].path = path /\ call[c].gen <= generation
        /\ (~attached => Stale(c)) /\ UNCHANGED <<path, astray, generation, attached>>
    BY <1>7, <1>c DEF Connected, past, Undisturbed, Orderly, Stale
  <2>2. CASE End(c) /\ UNCHANGED <<held, live>>
    BY <2>1, <2>2, EndsAlone DEF Undisturbed
  <2>3. CASE ~Stale(c) /\ held' = s /\ live' = live \cup {s} /\ call' = [call EXCEPT ![c].at = "listing", ![c].to = RootPath, ![c].id = s]
    <3>1. PICK r : r = [call[c] EXCEPT !.at = "listing", !.to = RootPath, !.id = s]
      OBVIOUS
    <3>2. call' = [call EXCEPT ![c] = r]
      BY <2>3, <3>1
    <3>3. Orderly(r)'
      BY <1>t, <2>1, <2>3, <3>1 DEF Orderly, CallOK, CallRecord
    <3>4. live' \subseteq {held'} /\ attached'
      BY <1>l, <2>1, <2>3 DEF Undisturbed
    <3>5. QED
      BY <2>1, <3>2, <3>3, <3>4, OnlyCall DEF Undisturbed
  <2>4. QED
    BY <1>7, <2>2, <2>3 DEF Connected
<1>8. ASSUME NEW c \in Calls, Listed(c) PROVE Undisturbed'
  <2>1. /\ Undisturbed /\ call[c] # NoCall /\ End(c) /\ UNCHANGED <<astray, generation, attached>>
    BY <1>8, <1>c DEF Listed, Lists, past
  <2>2. (held' = Absent /\ live' = live \ {held}) \/ (UNCHANGED <<held, live>> /\ attached)
    BY <1>8 DEF Listed, Close, Gone
  <2>3. QED
    BY <2>1, <2>2, EndsAlone DEF Undisturbed
<1>9. ASSUME NEW c \in Calls, Expired(c) PROVE Undisturbed'
  <2>1. /\ Undisturbed /\ call[c] # NoCall /\ call[c].at = "listing" /\ call[c].id \notin live
        /\ UNCHANGED <<path, astray, generation, attached, held, live>>
    BY <1>9, <1>c DEF Expired, server
  <2>2. live = {}
    BY <1>l, <2>1 DEF Undisturbed, Orderly
  <2>3. CASE End(c)
    BY <2>1, <2>3, EndsAlone DEF Undisturbed
  <2>4. CASE call' = [call EXCEPT ![c].at = "reconnecting", ![c].id = descriptor]
    <3>1. PICK r : r = [call[c] EXCEPT !.at = "reconnecting", !.id = descriptor]
      OBVIOUS
    <3>2. call' = [call EXCEPT ![c] = r]
      BY <2>4, <3>1
    <3>3. Orderly(r)'
      BY <1>t, <2>1, <2>2, <3>1 DEF Undisturbed, Orderly, CallOK, CallRecord
    <3>4. QED
      BY <2>1, <3>2, <3>3, OnlyCall DEF Undisturbed
  <2>5. QED
    BY <1>9, <2>3, <2>4 DEF Expired
<1>10. ASSUME NEW c \in Calls, NEW s \in ElementSessions, Reconnected(c, s) PROVE Undisturbed'
  <2>1. /\ Undisturbed /\ call[c] # NoCall /\ live = {} /\ call[c].path = path /\ call[c].gen <= generation
        /\ UNCHANGED <<path, astray, generation, attached>>
    BY <1>10, <1>c DEF Reconnected, past, Undisturbed, Orderly
  <2>2. CASE End(c) /\ UNCHANGED <<held, live>>
    BY <2>1, <2>2, EndsAlone DEF Undisturbed
  <2>3. CASE ~Gone(c) /\ held' = s /\ live' = live \cup {s} /\ call' = [call EXCEPT ![c].at = "relisting", ![c].id = s]
    <3>1. PICK r : r = [call[c] EXCEPT !.at = "relisting", !.id = s]
      OBVIOUS
    <3>2. call' = [call EXCEPT ![c] = r]
      BY <2>3, <3>1
    <3>3. Orderly(r)'
      BY <1>t, <2>1, <2>3, <3>1 DEF Orderly, CallOK, CallRecord
    <3>4. live' \subseteq {held'} /\ attached'
      BY <2>1, <2>3 DEF Gone
    <3>5. QED
      BY <2>1, <3>2, <3>3, <3>4, OnlyCall DEF Undisturbed
  <2>4. QED
    BY <1>10, <2>2, <2>3 DEF Reconnected
<1>11. ASSUME NEW c \in Calls, CallFails(c) \/ SharesShown(c) \/ OtherAnswered(c) \/ Selected(c) \/ ElementDisconnected(c) PROVE Undisturbed'
  <2>1. call[c].at # "none" /\ End(c) /\ UNCHANGED <<path, attached, held, live, astray, generation, disturbed>>
    BY <1>11 DEF CallFails, SharesShown, OtherAnswered, Selected, ElementDisconnected, element, server, past
  <2>2. QED
    BY <1>c, <2>1, EndsAlone DEF Undisturbed
<1>12. ASSUME NEW c \in Calls, SharesListed(c) PROVE Undisturbed'
  <2>1. PICK r : r = [call[c] EXCEPT !.at = "closing"]
    OBVIOUS
  <2>2. /\ Undisturbed /\ call[c] # NoCall /\ call' = [call EXCEPT ![c] = r] /\ call[c].op = "shares"
        /\ held' = Absent /\ live' = live \ {held} /\ UNCHANGED <<path, astray, generation, attached>>
    BY <1>12, <1>c, <1>t, <2>1 DEF SharesListed, Step, Close, past, CallOK
  <2>3. Orderly(r)'
    BY <1>t, <2>1, <2>2 DEF Undisturbed, Orderly, CallOK, CallRecord
  <2>4. QED
    BY <2>2, <2>3, OnlyCall DEF Undisturbed
<1>13. ASSUME NEW c \in Calls, ShareLeft(c) PROVE Undisturbed'
  <2>1. /\ Undisturbed /\ call[c] # NoCall /\ UNCHANGED <<path, astray, generation, attached, held, live>>
    BY <1>13, <1>c DEF ShareLeft, server, past
  <2>2. CASE End(c)
    BY <2>1, <2>2, EndsAlone DEF Undisturbed
  <2>3. CASE call' = [call EXCEPT ![c].op = "shares", ![c].at = "asked"]
    <3>1. PICK r : r = [call[c] EXCEPT !.op = "shares", !.at = "asked"]
      OBVIOUS
    <3>2. call' = [call EXCEPT ![c] = r]
      BY <2>3, <3>1
    <3>3. Orderly(r)'
      BY <1>t, <2>1, <3>1 DEF Undisturbed, Orderly, CallOK, CallRecord
    <3>4. QED
      BY <2>1, <3>2, <3>3, OnlyCall DEF Undisturbed
  <2>4. QED
    BY <1>13, <2>2, <2>3 DEF ShareLeft
<1>14. ASSUME NEW c \in Calls, FileRead(c) \/ DialogAnswered(c) \/ Replace(c) \/ SendNext(c) PROVE Undisturbed'
  <2>1. /\ Undisturbed /\ call[c] # NoCall /\ UNCHANGED <<path, generation, attached, held, live>>
    BY <1>14, <1>c DEF FileRead, DialogAnswered, Replace, SendNext, element, server, past
  <2>2. astray' = {}
    BY <1>14, <2>1 DEF FileRead, DialogAnswered, Replace, SendNext, ActsIn, past, Undisturbed, Orderly
  <2>3. End(c) \/ UNCHANGED call \/ \E at \in {"asking", "sourcing", "sent", "next"} : Step(c, at)
    BY <1>14 DEF FileRead, DialogAnswered, Replace, SendNext
  <2>4. QED
    BY <2>1, <2>2, <2>3, StepsAlone, EndsAlone DEF Undisturbed, Alone, Orderly
<1>15. ASSUME NEW c \in Calls, NEW s \in ElementSessions, Sourced(c, s) PROVE Undisturbed'
  <2>1. /\ Undisturbed /\ call[c] # NoCall /\ UNCHANGED <<path, generation, attached, held, live>> /\ Step(c, "sent")
    BY <1>15, <1>c DEF Sourced, element
  <2>2. astray' = {}
    BY <1>15, <2>1 DEF Sourced, ActsIn, Undisturbed, Orderly
  <2>3. QED
    BY <2>1, <2>2, StepsAlone DEF Undisturbed
<1>16. ASSUME NEW c \in Calls, Done(c) PROVE Undisturbed'
  <2>1. PICK r : r = [call[c] EXCEPT !.at = "listing", !.to = call[c].path, !.gen = generation, !.id = held]
    OBVIOUS
  <2>2. /\ Undisturbed /\ call[c] # NoCall /\ call' = [call EXCEPT ![c] = r]
        /\ UNCHANGED <<path, astray, generation, held, live, attached>>
    BY <1>16, <1>c, <2>1 DEF Done, element, server, past
  <2>3. Orderly(r)'
    BY <1>t, <2>1, <2>2 DEF Undisturbed, Orderly, ElementTypeOK, CallOK, CallRecord
  <2>4. QED
    BY <2>2, <2>3, OnlyCall DEF Undisturbed
<1>17. ASSUME NEW c \in Calls, Described(c) PROVE Undisturbed'
  <2>1. /\ Undisturbed /\ call[c] # NoCall /\ Step(c, "selected") /\ UNCHANGED <<path, generation, astray, attached>>
        /\ held' = Absent /\ live' = live \ {held}
    BY <1>17, <1>c DEF Described, Close, past
  <2>2. QED
    BY <2>1, StepsAlone DEF Undisturbed
(* The page and the service *)
<1>18. CASE TakeOut
  <2>1. /\ Undisturbed /\ ~attached' /\ generation' = generation + 1 /\ held' = Absent /\ live' = live \ {held}
        /\ UNCHANGED <<path, call, astray>>
    BY <1>18 DEF TakeOut, Close, past
  <2>2. \A c \in Calls : Orderly(call[c])'
    BY <1>t, <2>1 DEF Undisturbed, Orderly, ElementTypeOK, CallOK, CallRecord
  <2>3. QED
    BY <2>1, <2>2 DEF Undisturbed, Alone
<1>19. CASE PutIn
  BY <1>19 DEF PutIn, server, past, Undisturbed, Alone, Orderly
<1>20. ASSUME NEW s \in ElementSessions, ExpireSession(s) PROVE Undisturbed'
  BY <1>20 DEF ExpireSession, element, past, Undisturbed, Alone, Orderly
<1>21. QED
  BY <1>u, <1>1, <1>2, <1>3, <1>4, <1>5, <1>6, <1>7, <1>8, <1>9, <1>10, <1>11, <1>12, <1>13, <1>14, <1>15, <1>16, <1>17, <1>18, <1>19, <1>20
  DEF ElementStep, ElementNext, ElementGesture, ElementAnswer, ElementDialog

(* An operation that has asked the user compares the folder before it is sent. *)
LEMMA ManagedStep ==
  ASSUME ElementTypeOK, "manage" \notin astray, ElementStep
  PROVE  "manage" \notin astray'
<1>1. ASSUME NEW c \in Calls, DialogAnswered(c) PROVE "manage" \notin astray'
  BY <1>1 DEF DialogAnswered, Moved, ActsIn
<1>2. ASSUME NEW c \in Calls, SendNext(c) PROVE "manage" \notin astray'
  BY <1>2 DEF SendNext, ActsIn
<1>3. ASSUME NEW c \in Calls, NEW s \in ElementSessions, Sourced(c, s) PROVE "manage" \notin astray'
  BY <1>3 DEF Sourced, ActsIn
<1>4. ASSUME ElementGesture \/ TakeOut \/ PutIn \/ UNCHANGED elementVars PROVE UNCHANGED astray
  BY <1>4 DEF ElementGesture, ConnectTo, Show, LoadShares, LeaveShare, OtherCall, UploadFiles, Select, DisconnectElement, Manage,
    TakeOut, PutIn, past, elementVars
<1>5. ASSUME NEW c \in Calls, NEW s \in ElementSessions, Connected(c, s) \/ Reconnected(c, s) \/ ExpireSession(s) PROVE UNCHANGED astray
  BY <1>5 DEF Connected, Reconnected, ExpireSession, past
<1>6. ASSUME NEW c \in Calls,
        \/ Closed(c) \/ Listed(c) \/ Expired(c) \/ CallFails(c) \/ SharesListed(c) \/ SharesShown(c) \/ ShareLeft(c) \/ OtherAnswered(c)
        \/ FileRead(c) \/ Done(c) \/ Described(c) \/ Selected(c) \/ ElementDisconnected(c) \/ Replace(c)
      PROVE UNCHANGED astray
  BY <1>6 DEF Closed, Listed, Expired, CallFails, SharesListed, SharesShown, ShareLeft, OtherAnswered, FileRead, Done, Described,
    Selected, ElementDisconnected, Replace, past
<1>7. ASSUME NEW s \in ElementSessions, ExpireSession(s) PROVE UNCHANGED astray
  BY <1>7 DEF ExpireSession, past
<1>8. QED
  BY <1>1, <1>2, <1>3, <1>4, <1>5, <1>6, <1>7 DEF ElementStep, ElementNext, ElementAnswer, ElementDialog

LEMMA ElementInductive == ElementSpec => []ElementInv
<1>1. ElementInit => ElementInv
  <2>1. ElementInit => ElementTypeOK
    BY ElementTypeStart
  <2>2. ElementInit => Undisturbed /\ "manage" \notin astray
    BY DEF ElementInit, Undisturbed, Alone, Orderly, NoCall
  <2>3. QED
    BY <2>1, <2>2 DEF ElementInv
<1>2. ElementInv /\ ElementStep => ElementInv'
  BY ElementTypeStep, UndisturbedStep, ManagedStep DEF ElementInv
<1>3. QED
  BY <1>1, <1>2, PTL DEF ElementSpec, ElementStep

(* README.md:478: while its calls come one after the other, the element leaves no session open but the one it has. *)
THEOREM LeavesNothing == ElementSpec => []NothingLeft
<1>1. ElementInv => NothingLeft
  BY DEF ElementInv, Undisturbed, NothingLeft
<1>2. QED
  BY <1>1, ElementInductive, PTL

(* An element out of its page has no session open, also when it was taken out while one was
   being opened or listed. *)
THEOREM RemovedLeavesNothing == ElementSpec => []RemovedClosesAll
<1>1. ElementInv => RemovedClosesAll
  BY DEF ElementInv, ElementTypeOK, ElementSessions, Undisturbed, RemovedClosesAll
<1>2. QED
  BY <1>1, ElementInductive, PTL

(* An operation is sent to the folder it was asked for, a paste and an upload while no other call is made. *)
THEOREM ManagesWhereShown == ElementSpec => []ManagedWhereShown
<1>1. ElementInv => ManagedWhereShown
  BY DEF ElementInv, Undisturbed, ManagedWhereShown
<1>2. QED
  BY <1>1, ElementInductive, PTL
=============================================================================
