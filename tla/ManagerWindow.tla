---------------------------- MODULE ManagerWindow ----------------------------
(***************************************************************************)
(* The window of the manager page (web/manager.js): which panel, sheets,   *)
(* menu and dialog are open, which rows are selected, and what a key, a    *)
(* click or a drag does in each of these states.  A sheet may also be      *)
(* opened, and the listing replaced, by an answer of the service, at any   *)
(* moment between two gestures.                                            *)
(*                                                                         *)
(* What a gesture starts in the rest of the manager is in command.         *)
(*                                                                         *)
(* Abstracted: the order of the rows (a range of rows is a set of          *)
(* neighbours in Order), places on the screen, labels and colours.         *)
(***************************************************************************)
EXTENDS Integers, FiniteSets

CONSTANTS
  Names,        \* names of entries
  Dirs,         \* those of folders
  Order,        \* Order[n]: place of n in the sorted listing
  Filters,      \* Filters[k]: names that match text k of the filter field
  Listings,     \* sets of names a folder may have
  Operations,   \* sets of operations a session may allow
  Devices,      \* devices a menu is opened on
  Saved,        \* devices with saved credentials
  Mapped,       \* devices in the sidebar
  MaxInputs,    \* bound: gestures
  Nothing       \* nothing

ASSUME WindowAssumption ==
  /\ Dirs \subseteq Names /\ Saved \subseteq Devices /\ Mapped \subseteq Devices
  /\ Order \in [Names -> Nat]
  /\ DOMAIN Filters # {} /\ \A k \in DOMAIN Filters : Filters[k] \subseteq Names
  /\ Listings \subseteq SUBSET Names
  /\ Names \in {Filters[k] : k \in DOMAIN Filters}
  /\ MaxInputs \in Nat

VARIABLES
  inputs,       \* gestures so far
  view,         \* state.view
  sheets,       \* those of zip, confirm, keys and signout that are open
  prompt,       \* state.prompt
  submits,      \* prompts that are being submitted
  menu,         \* state.menu
  dialog,       \* a modal dialog is open
  listing,      \* state.listing
  filter,       \* state.filter
  selected,     \* state.selected
  anchor,       \* state.anchor
  band,         \* the rubber band: none, pressed or moved, and its base
  clipboard,    \* state.clipboard
  operations,   \* operations of state.session, {} without one
  command,      \* history: what the last gesture started
  input,        \* history: what the last step was
  vanished      \* history: selected rows that a new listing has not

overlays == <<view, sheets, prompt, submits, menu, dialog>>
rows == <<listing, filter, operations>>
selection == <<selected, anchor, band>>
windowVars == <<inputs, overlays, rows, selection, clipboard, command, input, vanished>>

SheetNames == {"zip", "confirm", "keys", "signout"}
Views == {"browse", "scan", "add", "transfers"}
Fields == {"none", "field"}

Menu(kind, on) == [kind |-> kind, on |-> on]
Prompt(device, credentials) == [device |-> device, credentials |-> credentials]
NoFilter == {k \in DOMAIN Filters : Filters[k] = Names}
NoBand == [phase |-> "none", base |-> {}]

WindowInit ==
  /\ inputs = 0
  /\ view = "browse" /\ sheets = {} /\ prompt = Nothing /\ submits = {} /\ menu = Nothing /\ dialog = FALSE
  /\ listing = {} /\ operations = {}
  /\ filter \in NoFilter
  /\ selected = {} /\ anchor = Nothing /\ band = NoBand
  /\ clipboard = Nothing /\ command = "none" /\ input = "none" /\ vanished = {}

Can(operation) == operation \in operations
Visible == listing \cap Filters[filter]

(* A sheet covers the window; a modal dialog covers that. *)
SheetOpen == prompt # Nothing \/ sheets # {}

Do(kind, what) ==
  /\ inputs < MaxInputs
  /\ inputs' = inputs + 1 /\ input' = kind /\ command' = what

Mouse(what) == ~dialog /\ ~SheetOpen /\ band.phase = "none" /\ Do("mouse", what)
SheetMouse(what) == ~dialog /\ menu = Nothing /\ Do("mouse", what)

Answered == input' = "answer" /\ command' = "none" /\ UNCHANGED inputs

-----------------------------------------------------------------------------
(* Panels and keys *)

Toggled(v) == IF view = v THEN "browse" ELSE v

(* Esc closes the topmost thing. *)
Escape ==
  /\ Do("key", "none")
  /\ \/ /\ dialog
        /\ UNCHANGED <<overlays, selected>>
     \/ /\ ~dialog /\ (menu # Nothing \/ SheetOpen)
        /\ menu' = Nothing /\ prompt' = Nothing /\ sheets' = {}
        /\ UNCHANGED <<view, submits, dialog, selected>>
     \/ /\ ~dialog /\ menu = Nothing /\ ~SheetOpen
        /\ IF view # "browse"
             THEN view' = "browse" /\ UNCHANGED selected
             ELSE selected' = {} /\ UNCHANGED view
        /\ UNCHANGED <<sheets, prompt, submits, menu, dialog>>
  /\ UNCHANGED <<rows, anchor, band, clipboard, vanished>>

\* Mutant of Owned: only the sign-in prompt owns the keyboard.
OwnedPrompt(key) == dialog \/ prompt # Nothing

(* A dialog or a sheet owns the keyboard; only the shortcut list's own key passes its list. *)
Owned(key) ==
  \/ dialog \/ prompt # Nothing \/ sheets \cap {"zip", "confirm", "signout"} # {}
  \/ "keys" \in sheets /\ key # "/"

Toggles == {"d", "s", "n", "/", "Q"}
Keys == Toggles \cup {"N", "a", "c", "x", "v", "backspace"}

(* What a key that passes starts elsewhere: N is shift-n, Q is shift-q. *)
KeyCommand(key) ==
  CASE key = "N" /\ Can("mkdir") -> "newFolder"
    [] key = "v" /\ clipboard # Nothing -> "paste"
    [] key = "backspace" /\ selected # {} /\ Can("delete") -> "remove"
    [] OTHER -> "none"

KeyView(key) ==
  CASE key = "d" -> Toggled("transfers")
    [] key = "s" -> Toggled("scan")
    [] key = "n" -> Toggled("add")
    [] OTHER -> view

KeySheets(key) ==
  CASE key = "Q" -> sheets \cup {"signout"}
    [] key = "/" -> IF "keys" \in sheets THEN sheets \ {"keys"} ELSE sheets \cup {"keys"}
    [] OTHER -> sheets

(* copy: the names, as they are selected, with the place. *)
Copied(cut) ==
  IF selected # {} /\ Can(IF cut THEN "rename" ELSE "copy")
    THEN [names |-> selected, cut |-> cut] ELSE clipboard

Key(key, field) ==
  LET passes == ~Owned(key) /\ (field = "field" => key \in Toggles)
      copies == key \in {"c", "x"} /\ Copied(key = "x") # clipboard
  IN  /\ Do("key", IF passes THEN KeyCommand(key) ELSE "none")
      /\ IF passes
           THEN /\ view' = KeyView(key) /\ sheets' = KeySheets(key)
                /\ menu' = IF key \in Toggles \/ copies \/ command' \in {"newFolder", "remove"} THEN Nothing ELSE menu
                /\ dialog' = (command' \in {"newFolder", "remove"})
                /\ selected' = IF key = "a" THEN Visible ELSE selected
                /\ clipboard' = IF copies THEN Copied(key = "x") ELSE clipboard
           ELSE UNCHANGED <<view, sheets, menu, dialog, selected, clipboard>>
      /\ UNCHANGED <<prompt, submits, rows, anchor, band, vanished>>

(* The buttons of the rail and the toolbar. *)
OpenView(v) ==
  /\ Mouse("none") /\ v # view
  /\ view' = v /\ menu' = Nothing
  /\ UNCHANGED <<sheets, prompt, submits, dialog, rows, selection, clipboard, vanished>>

AskSheet(s) ==
  /\ Mouse("none") /\ s \in {"keys", "signout"}
  /\ sheets' = sheets \cup {s} /\ menu' = Nothing
  /\ UNCHANGED <<view, prompt, submits, dialog, rows, selection, clipboard, vanished>>

CloseSheet(s) ==
  /\ SheetMouse("none") /\ s \in sheets
  /\ sheets' = sheets \ {s}
  /\ UNCHANGED <<view, prompt, submits, menu, dialog, rows, selection, clipboard, vanished>>

(* The sheets that an answer opens: an estimate the ZIP sheet, a session the question. *)
SheetAnswered(s) ==
  /\ Answered /\ s \in {"zip", "confirm"}
  /\ sheets' = sheets \cup {s}
  /\ menu' = IF s = "zip" THEN Nothing ELSE menu
  /\ UNCHANGED <<view, prompt, submits, dialog, rows, selection, clipboard, vanished>>

DialogClosed ==
  /\ dialog /\ Answered /\ dialog' = FALSE
  /\ UNCHANGED <<view, sheets, prompt, submits, menu, rows, selection, clipboard, vanished>>

-----------------------------------------------------------------------------
(* Rows and their selection: panels float over the rows, so a row beside one can be clicked *)

Toggle(n) == IF n \in selected THEN selected \ {n} ELSE selected \cup {n}

(* The rows from a to b in the order they are shown. *)
Between(a, b) ==
  {n \in Visible : \/ Order[a] <= Order[n] /\ Order[n] <= Order[b]
                   \/ Order[b] <= Order[n] /\ Order[n] <= Order[a]}

(* The tick of a row, with shift (a range) or without. *)
ClickRow(n, shift) ==
  LET range == Between(anchor, n)
  IN  /\ Mouse("none") /\ n \in Visible
      /\ selected' = IF shift /\ anchor \in Visible
                       THEN IF n \in selected THEN selected \ range ELSE selected \cup range
                       ELSE Toggle(n)
      /\ anchor' = n
      /\ menu' = IF shift THEN Nothing ELSE menu
      /\ UNCHANGED <<view, sheets, prompt, submits, dialog, rows, band, clipboard, vanished>>

SelectAll ==
  /\ Mouse("none")
  /\ selected' = IF Visible # {} /\ Cardinality(selected) = Cardinality(Visible) THEN {} ELSE Visible
  /\ UNCHANGED <<overlays, rows, anchor, band, clipboard, vanished>>

(* A click on the name of a row opens it. *)
OpenRow(n) ==
  /\ n \in Visible
  /\ menu' = Nothing
  /\ \/ /\ n \in Dirs /\ Mouse("goTo")
        /\ selected' = {} /\ filter' \in NoFilter /\ view' = "browse"
        /\ UNCHANGED dialog
     \/ /\ n \notin Dirs /\ Mouse("preview")
        /\ dialog' = Can("read") /\ UNCHANGED <<view, selected, filter>>
  /\ UNCHANGED <<sheets, prompt, submits, listing, operations, anchor, band, clipboard, vanished>>

(* A click on the background, or Clear of the selection bar. *)
Background ==
  /\ Mouse("none")
  /\ selected' = {} /\ menu' = Nothing
  /\ UNCHANGED <<view, sheets, prompt, submits, dialog, rows, anchor, band, clipboard, vanished>>

\* Mutant of SetFilter: the selection survives a new filter.
SetFilterKeeps(k) ==
  /\ Mouse("none") /\ k # filter
  /\ filter' = k
  /\ UNCHANGED <<overlays, listing, operations, selection, clipboard, vanished>>

SetFilter(k) ==
  /\ Mouse("none") /\ k # filter
  /\ filter' = k /\ selected' = {}
  /\ UNCHANGED <<overlays, listing, operations, anchor, band, clipboard, vanished>>

(* The rubber band: pressed on the list, with a modifier that keeps the selection; moved; *)
(* released.  The hits are neighbours.                                                  *)
StartBand(keep) ==
  /\ Mouse("none")
  /\ band' = [phase |-> "pressed", base |-> IF keep THEN selected ELSE {}]
  /\ UNCHANGED <<overlays, rows, selected, anchor, clipboard, vanished>>

MoveBand(a, b) ==
  /\ band.phase # "none" /\ {a, b} \subseteq Visible
  /\ Do("band", "none")
  /\ band' = [band EXCEPT !.phase = "moved"]
  /\ selected' = band.base \cup Between(a, b)
  /\ menu' = Nothing
  /\ UNCHANGED <<view, sheets, prompt, submits, dialog, rows, anchor, clipboard, vanished>>

EndBand ==
  /\ band.phase # "none"
  /\ Do("band", "none")
  /\ band' = NoBand
  /\ anchor' \in IF band.phase = "pressed" THEN {anchor}
                 ELSE IF selected = {} THEN {Nothing} ELSE selected
  /\ UNCHANGED <<overlays, rows, selected, clipboard, vanished>>

(* goTo, of whoever calls it: the listing, the session and the selection go, but not a drag. *)
GoToAnswered ==
  /\ Answered
  /\ selected' = {} /\ view' = "browse" /\ menu' = Nothing
  /\ filter' \in NoFilter
  /\ listing' = {} /\ operations' = {} /\ vanished' = band.base
  /\ UNCHANGED <<sheets, prompt, submits, dialog, anchor, band, clipboard>>

(* loadPlace answers, of the place shown: the listing is replaced and the selection stays. *)
Listing(names, operation) ==
  /\ Answered
  /\ listing' = names /\ operations' = operation
  /\ vanished' = (selected \cup band.base) \ names
  /\ UNCHANGED <<overlays, filter, selection, clipboard>>

-----------------------------------------------------------------------------
(* Menus *)

One(n) == selected = {n}

(* What the menu of a row or of the folder offers, by the operations of the session. *)
FileItems ==
  (IF \E n \in listing : One(n) /\ Can(IF n \in Dirs THEN "list" ELSE "read") THEN {"open"} ELSE {})
    \cup (IF selected # {} /\ Can("read") THEN {"download", "zip"} ELSE {})
    \cup (IF selected # {} /\ Can("copy") THEN {"copy"} ELSE {})
    \cup (IF selected # {} /\ Can("rename") THEN {"cut"} ELSE {})
    \cup (IF clipboard # Nothing /\ Can("write") THEN {"paste"} ELSE {})
    \cup (IF Can("mkdir") THEN {"newFolder"} ELSE {})
    \cup (IF Can("write") THEN {"newFile", "upload"} ELSE {})
    \cup (IF \E n \in listing : One(n) /\ Can("rename") THEN {"rename"} ELSE {})
    \cup (IF selected # {} /\ Can("delete") THEN {"remove"} ELSE {})
    \cup (IF selected # {} /\ Can("stat") THEN {"info"} ELSE {})

ToolbarItems ==
  (IF clipboard # Nothing /\ Can("write") THEN {"paste"} ELSE {})
    \cup (IF Can("mkdir") THEN {"newFolder"} ELSE {})
    \cup (IF Can("write") THEN {"upload"} ELSE {}) \cup {"signout"}

DeviceItems(d) ==
  {"askDevice"} \cup (IF d \in Mapped THEN {"unmount"} \cup (IF d \in Saved THEN {"forgetCreds"} ELSE {}) ELSE {})

MountItems(d) == {"refreshHost", "askDevice", "unmount"} \cup (IF d \in Saved THEN {"forgetCreds"} ELSE {})
PinItems == {"goTo", "unpin"}
ShareItems == {"openShare", "pin", "mountFolder", "unmount"}

MenuItems ==
  CASE menu.kind = "file"    -> FileItems
    [] menu.kind = "toolbar" -> ToolbarItems
    [] menu.kind = "device"  -> DeviceItems(menu.on)
    [] menu.kind = "mount"   -> MountItems(menu.on)
    [] menu.kind = "pin"     -> PinItems
    [] OTHER                 -> ShareItems

(* A right click on a row selects it, unless it is selected; on the background it selects nothing. *)
OpenMenu(n) ==
  /\ Mouse("none") /\ n \in Visible \cup {Nothing}
  /\ selected' = IF n = Nothing THEN {} ELSE IF n \in selected THEN selected ELSE {n}
  /\ anchor' = n
  /\ menu' = Menu("file", n)
  /\ UNCHANGED <<view, sheets, prompt, submits, dialog, rows, band, clipboard, vanished>>

(* A right click on a device of the scan panel, or on a host of the sidebar. *)
OpenHostMenu(kind, d) ==
  /\ Mouse("none")
  /\ kind = "device" => view = "scan"
  /\ kind = "mount" => d \in Mapped
  /\ menu' = Menu(kind, d)
  /\ UNCHANGED <<view, sheets, prompt, submits, dialog, rows, selection, clipboard, vanished>>

(* A right click on a row of the shortlist, or on a share of the sidebar. *)
OpenRailMenu(kind) ==
  /\ Mouse("none") /\ menu' = Menu(kind, Nothing)
  /\ UNCHANGED <<view, sheets, prompt, submits, dialog, rows, selection, clipboard, vanished>>

(* The button that stands for the toolbar where the window is narrow. *)
OverflowMenu == OpenRailMenu("toolbar")

CloseMenu ==
  /\ Mouse("none") /\ menu # Nothing /\ menu' = Nothing
  /\ UNCHANGED <<view, sheets, prompt, submits, dialog, rows, selection, clipboard, vanished>>

Asks == {"newFolder", "newFile", "rename", "remove", "info", "mountFolder"}

(* An item closes the menu before it runs. *)
RunItem(item) ==
  /\ menu # Nothing /\ item \in MenuItems /\ Mouse(item)
  /\ menu' = Nothing
  /\ dialog' = (item \in Asks)
  /\ sheets' = IF item = "signout" THEN sheets \cup {"signout"} ELSE sheets
  /\ prompt' = IF item = "askDevice"
                 THEN Prompt(menu.on, IF menu.on \in Saved THEN "saved" ELSE "new") ELSE prompt
  /\ clipboard' = IF item \in {"copy", "cut"} THEN Copied(item = "cut") ELSE clipboard
  /\ UNCHANGED <<view, submits, rows, selection, vanished>>

(* The bar over the rows, while some are selected: its buttons act at once, and leave the menu. *)
SelectionBar ==
  (IF Can("read") THEN {"download", "zip"} ELSE {})
    \cup (IF Can("copy") THEN {"copy"} ELSE {})
    \cup (IF Can("rename") THEN {"cut"} ELSE {})
    \cup (IF clipboard # Nothing /\ Can("write") THEN {"paste"} ELSE {})
    \cup (IF Can("delete") THEN {"remove"} ELSE {})

RunBar(item) ==
  /\ selected # {} /\ item \in SelectionBar /\ Mouse(item)
  /\ dialog' = (item = "remove")
  /\ clipboard' = IF item \in {"copy", "cut"} THEN Copied(item = "cut") ELSE clipboard
  /\ menu' = IF item \in {"copy", "cut", "remove"} THEN Nothing ELSE menu
  /\ UNCHANGED <<view, sheets, prompt, submits, rows, selection, vanished>>

-----------------------------------------------------------------------------
(* The sign-in prompt of a device *)

AskDevice(d) ==
  /\ Mouse("none") /\ view = "scan"
  /\ prompt' = Prompt(d, IF d \in Saved THEN "saved" ELSE "new") /\ menu' = Nothing
  /\ UNCHANGED <<view, sheets, submits, dialog, rows, selection, clipboard, vanished>>

(* Typing deselects the saved card; picking one selects it. *)
SetPrompt(credentials) ==
  /\ SheetMouse("none") /\ prompt # Nothing
  /\ credentials = "saved" => prompt.device \in Saved
  /\ prompt' = [prompt EXCEPT !.credentials = credentials]
  /\ UNCHANGED <<view, sheets, submits, menu, dialog, rows, selection, clipboard, vanished>>

ClosePrompt ==
  /\ SheetMouse("none") /\ prompt # Nothing /\ prompt' = Nothing
  /\ UNCHANGED <<view, sheets, submits, menu, dialog, rows, selection, clipboard, vanished>>

SubmitPrompt ==
  /\ SheetMouse("mapDevice") /\ prompt # Nothing
  /\ submits' = submits \cup {prompt}
  /\ UNCHANGED <<view, sheets, prompt, menu, dialog, rows, selection, clipboard, vanished>>

(* mapDevice has ended: mapped, and whatever prompt is open closes; or failed. *)
SubmitAnswered(p) ==
  /\ p \in submits /\ Answered
  /\ submits' = submits \ {p}
  /\ \/ prompt' = Nothing /\ view' = "browse"
     \/ UNCHANGED <<prompt, view>>
  /\ UNCHANGED <<sheets, menu, dialog, rows, selection, clipboard, vanished>>

-----------------------------------------------------------------------------
WindowNext ==
  \/ Escape \/ \E key \in Keys, field \in Fields : Key(key, field)
  \/ \E v \in Views : OpenView(v)
  \/ \E s \in SheetNames : AskSheet(s) \/ CloseSheet(s) \/ SheetAnswered(s)
  \/ DialogClosed
  \/ \E n \in Names, shift \in BOOLEAN : ClickRow(n, shift)
  \/ SelectAll \/ Background \/ \E n \in Names : OpenRow(n)
  \/ \E k \in DOMAIN Filters : SetFilter(k)
  \/ \E keep \in BOOLEAN : StartBand(keep)
  \/ \E a, b \in Names : MoveBand(a, b)
  \/ EndBand
  \/ GoToAnswered \/ \E names \in Listings, o \in Operations : Listing(names, o)
  \/ \E n \in Names \cup {Nothing} : OpenMenu(n)
  \/ \E d \in Devices : AskDevice(d) \/ OpenHostMenu("device", d) \/ OpenHostMenu("mount", d)
  \/ OpenRailMenu("pin") \/ OpenRailMenu("share") \/ OverflowMenu
  \/ CloseMenu \/ \E item \in FileItems \cup ToolbarItems \cup PinItems \cup ShareItems
                              \cup {"askDevice", "refreshHost", "forgetCreds"} : RunItem(item)
  \/ \E item \in SelectionBar : RunBar(item)
  \/ \E credentials \in {"new", "saved"} : SetPrompt(credentials)
  \/ ClosePrompt \/ SubmitPrompt \/ \E p \in submits : SubmitAnswered(p)

WindowSpec == WindowInit /\ [][WindowNext]_windowVars

-----------------------------------------------------------------------------
(* A key never starts an operation, switches the window or changes the     *)
(* selection or the clipboard behind an open sheet or dialog, however it   *)
(* came to be open (keydown, 53-74).                                       *)
SheetOwnsKeyboard ==
  [][(SheetOpen \/ dialog) /\ input' = "key" /\ inputs' # inputs
       => command' = "none" /\ UNCHANGED <<view, selected, clipboard>>]_windowVars

(* What is selected, and so what a delete or a cut would take, is on the   *)
(* screen, except what was there until the last listing (167-257, 806).    *)
SelectionShown == selected \subseteq Visible \cup vanished
=============================================================================
