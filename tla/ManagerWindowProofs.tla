-------------------------- MODULE ManagerWindowProofs --------------------------
(***************************************************************************)
(* Theorems about ManagerWindow, for any names, filters, listings and sets *)
(* of operations, and any number of gestures: what is selected is on the   *)
(* screen, and a sheet or a dialog keeps the keys from the window.         *)
(***************************************************************************)
EXTENDS ManagerWindow, TLAPS

WindowStep == [WindowNext]_windowVars

-----------------------------------------------------------------------------
(* The rows and the sheets *)

Band == [phase : {"none", "pressed", "moved"}, base : SUBSET Names]

WindowTypeOK ==
  /\ inputs \in 0..MaxInputs /\ sheets \subseteq SheetNames
  /\ view \in Views
  /\ listing \subseteq Names /\ filter \in DOMAIN Filters
  /\ selected \subseteq Names /\ vanished \subseteq Names
  /\ anchor \in Names \cup {Nothing}
  /\ band \in Band

(* What a rubber band selects is added to what was selected when it was pressed; between two
   bands nothing is kept. *)
Picked == selected \cup band.base

BandBase == band.phase = "none" => band.base = {}

(* A new filter clears the selection, so it never hides a part of it, not even the rows that
   have vanished and may come back. *)
PickedFiltered == Picked \subseteq Filters[filter]

PickedShown == Picked \subseteq Visible \cup vanished

WindowInv == WindowTypeOK /\ BandBase /\ PickedFiltered /\ PickedShown

USE WindowAssumption

(* Most gestures leave rows and selection alone. *)
LEMMA SameRows ==
  ASSUME BandBase, PickedFiltered, PickedShown, UNCHANGED <<rows, selected, band, vanished>>
  PROVE  BandBase' /\ PickedFiltered' /\ PickedShown'
BY DEF rows, BandBase, PickedFiltered, PickedShown, Picked, Visible

(* A gesture selects rows of the list, or none. *)
LEMMA SelectsRows ==
  ASSUME BandBase, PickedFiltered, PickedShown, UNCHANGED <<rows, vanished>>,
         selected' \subseteq Picked \cup Visible, band'.base \subseteq Picked,
         band'.phase = "none" => band'.base = {}
  PROVE  BandBase' /\ PickedFiltered' /\ PickedShown'
BY DEF rows, BandBase, PickedFiltered, PickedShown, Picked, Visible

(* What happens around the rows: panels, sheets, menus and the sign-in prompt. *)
Aside ==
  /\ UNCHANGED <<rows, selection, vanished>>
  /\ sheets' \subseteq SheetNames /\ view' \in Views
  /\ \/ UNCHANGED inputs
     \/ inputs' = inputs + 1 /\ inputs < MaxInputs /\ input' = "mouse"

LEMMA PanelAside ==
  ASSUME WindowTypeOK, (\E v \in Views : OpenView(v)) \/ DialogClosed \/ \E s \in SheetNames : AskSheet(s) \/ CloseSheet(s) \/ SheetAnswered(s)
  PROVE  Aside
BY DEF Aside, WindowTypeOK, OpenView, AskSheet, CloseSheet, SheetAnswered, DialogClosed, Mouse, SheetMouse, Do, Answered, rows, selection

LEMMA MenuAside ==
  ASSUME WindowTypeOK,
         CloseMenu \/ OverflowMenu \/ (\E d : OpenHostMenu("device", d) \/ OpenHostMenu("mount", d))
         \/ (\E kind : OpenRailMenu(kind)) \/ \E item : RunItem(item) \/ RunBar(item)
  PROVE  Aside
<1>1. ASSUME NEW item, RunItem(item) PROVE Aside
  BY <1>1 DEF Aside, WindowTypeOK, RunItem, Mouse, Do, SheetNames
<1>2. ASSUME NEW item, RunBar(item) PROVE Aside
  BY <1>2 DEF Aside, WindowTypeOK, RunBar, Mouse, Do
<1>3. ASSUME CloseMenu \/ OverflowMenu \/ (\E d : OpenHostMenu("device", d) \/ OpenHostMenu("mount", d)) \/ \E kind : OpenRailMenu(kind)
      PROVE  Aside
  BY <1>3 DEF Aside, WindowTypeOK, CloseMenu, OverflowMenu, OpenHostMenu, OpenRailMenu, Mouse, Do
<1>4. QED
  BY <1>1, <1>2, <1>3

LEMMA PromptAside ==
  ASSUME WindowTypeOK,
         (\E d : AskDevice(d)) \/ (\E credentials : SetPrompt(credentials)) \/ ClosePrompt \/ SubmitPrompt \/ \E p \in submits : SubmitAnswered(p)
  PROVE  Aside
BY DEF Aside, WindowTypeOK, Views, AskDevice, SetPrompt, ClosePrompt, SubmitPrompt, SubmitAnswered, Mouse, SheetMouse, Do, Answered, rows, selection

AsideNext ==
  \/ \E v \in Views : OpenView(v)
  \/ \E s \in SheetNames : AskSheet(s) \/ CloseSheet(s) \/ SheetAnswered(s)
  \/ DialogClosed \/ CloseMenu \/ ClosePrompt \/ SubmitPrompt \/ OverflowMenu
  \/ \E d : AskDevice(d) \/ OpenHostMenu("device", d) \/ OpenHostMenu("mount", d)
  \/ (\E kind : OpenRailMenu(kind)) \/ (\E item : RunItem(item) \/ RunBar(item))
  \/ (\E credentials : SetPrompt(credentials)) \/ \E p \in submits : SubmitAnswered(p)

LEMMA AllAside == WindowTypeOK /\ AsideNext => Aside
BY PanelAside, MenuAside, PromptAside DEF AsideNext

(* The steps of the rows, and the keys. *)
RowsNext ==
  \/ Escape \/ \E key \in Keys, field \in Fields : Key(key, field)
  \/ \E n \in Names, shift \in BOOLEAN : ClickRow(n, shift)
  \/ SelectAll \/ Background \/ \E n \in Names : OpenRow(n)
  \/ \E k \in DOMAIN Filters : SetFilter(k)
  \/ \E keep \in BOOLEAN : StartBand(keep)
  \/ \E a, b \in Names : MoveBand(a, b)
  \/ EndBand
  \/ GoToAnswered \/ \E names \in Listings, o \in Operations : Listing(names, o)
  \/ \E n \in Names \cup {Nothing} : OpenMenu(n)

LEMMA AllSteps == WindowNext => RowsNext \/ AsideNext
BY DEF WindowNext, RowsNext, AsideNext

-----------------------------------------------------------------------------
(* Every step keeps the types. *)
LEMMA WindowTypeStep == WindowTypeOK /\ WindowStep => WindowTypeOK'
<1> SUFFICES ASSUME WindowTypeOK, WindowStep PROVE WindowTypeOK'
  OBVIOUS
<1>u. CASE UNCHANGED windowVars
  BY <1>u DEF WindowTypeOK, windowVars, overlays, rows, selection
<1>a. CASE AsideNext
  BY <1>a, AllAside DEF WindowTypeOK, Aside, rows, selection
<1> USE DEF WindowTypeOK, Mouse, Do, Answered, overlays, rows, selection
<1>v. Visible \subseteq Names
  BY DEF Visible
<1>n. NoFilter \subseteq DOMAIN Filters
  BY DEF NoFilter
<1>1. CASE Escape
  BY <1>1 DEF Escape, Views
<1>2. ASSUME NEW key \in Keys, NEW field \in Fields, Key(key, field) PROVE WindowTypeOK'
  <2>1. KeySheets(key) \subseteq SheetNames /\ KeyView(key) \in Views
    BY DEF KeySheets, KeyView, SheetNames, Views, Toggled
  <2>2. QED
    BY <1>2, <1>v, <2>1 DEF Key
<1>3. ASSUME NEW n \in Names, NEW shift \in BOOLEAN, ClickRow(n, shift) PROVE WindowTypeOK'
  BY <1>3, <1>v DEF ClickRow, Between, Toggle
<1>4. CASE SelectAll \/ Background
  BY <1>4, <1>v DEF SelectAll, Background
<1>5. ASSUME NEW n \in Names, OpenRow(n) PROVE WindowTypeOK'
  BY <1>5, <1>n DEF OpenRow, Views
<1>6. ASSUME NEW k \in DOMAIN Filters, SetFilter(k) PROVE WindowTypeOK'
  BY <1>6 DEF SetFilter
<1>7. ASSUME NEW keep \in BOOLEAN, StartBand(keep) PROVE WindowTypeOK'
  BY <1>7 DEF StartBand, Band
<1>8. ASSUME NEW a \in Names, NEW b \in Names, MoveBand(a, b) PROVE WindowTypeOK'
  BY <1>8, <1>v DEF MoveBand, Between, Band
<1>9. CASE EndBand
  BY <1>9 DEF EndBand, NoBand, Band
<1>10. CASE GoToAnswered
  BY <1>10, <1>n DEF GoToAnswered, Views, Band
<1>11. ASSUME NEW names \in Listings, NEW o \in Operations, Listing(names, o) PROVE WindowTypeOK'
  BY <1>11 DEF Listing, Band
<1>12. ASSUME NEW n \in Names \cup {Nothing}, OpenMenu(n) PROVE WindowTypeOK'
  BY <1>12 DEF OpenMenu
<1>13. QED
  BY <1>u, <1>a, <1>1, <1>2, <1>3, <1>4, <1>5, <1>6, <1>7, <1>8, <1>9, <1>10, <1>11, <1>12, AllSteps DEF WindowStep, RowsNext

LEMMA WindowStart == WindowInit => WindowInv
BY DEF WindowInit, WindowInv, WindowTypeOK, Views, Band, NoBand, NoFilter, BandBase, PickedFiltered, PickedShown, Picked, Visible

(* Every step keeps what is picked within the filter, and on the screen or vanished. *)
LEMMA PickedStep ==
  ASSUME WindowInv, WindowTypeOK', WindowStep
  PROVE  WindowInv'
<1>i. WindowTypeOK /\ BandBase /\ PickedFiltered /\ PickedShown
  BY DEF WindowInv
<1> SUFFICES BandBase' /\ PickedFiltered' /\ PickedShown'
  BY DEF WindowInv
<1>u. CASE UNCHANGED windowVars
  BY <1>i, <1>u, SameRows DEF windowVars, rows, selection
<1>a. CASE AsideNext
  BY <1>i, <1>a, AllAside, SameRows DEF Aside, rows, selection
<1> USE DEF Mouse, Do
<1>p. selected \subseteq Picked /\ band.base \subseteq Picked
  BY DEF Picked
<1>b. band.phase = "none" => band.base = {}
  BY <1>i DEF BandBase
<1>1. CASE Escape
  <2>1. UNCHANGED <<rows, vanished, band>> /\ selected' \subseteq selected
    BY <1>1 DEF Escape, overlays
  <2>2. QED
    BY <1>i, <1>p, <1>b, <2>1, SelectsRows
<1>2. ASSUME NEW key \in Keys, NEW field \in Fields, Key(key, field) PROVE BandBase' /\ PickedFiltered' /\ PickedShown'
  <2>1. UNCHANGED <<rows, vanished, band>> /\ selected' \in {selected, Visible}
    BY <1>2 DEF Key
  <2>2. QED
    BY <1>i, <1>p, <1>b, <2>1, SelectsRows
<1>3. ASSUME NEW n \in Names, NEW shift \in BOOLEAN, ClickRow(n, shift) PROVE BandBase' /\ PickedFiltered' /\ PickedShown'
  <2>1. UNCHANGED <<rows, vanished, band>> /\ selected' \subseteq selected \cup Visible
    BY <1>3 DEF ClickRow, Between, Toggle
  <2>2. QED
    BY <1>i, <1>p, <1>b, <2>1, SelectsRows
<1>4. CASE SelectAll \/ Background
  <2>1. UNCHANGED <<rows, vanished, band>> /\ selected' \in {{}, Visible}
    BY <1>4 DEF SelectAll, Background
  <2>2. QED
    BY <1>i, <1>p, <1>b, <2>1, SelectsRows
<1>5. ASSUME NEW n \in Names, OpenRow(n) PROVE BandBase' /\ PickedFiltered' /\ PickedShown'
  <2>1. band.base = {} /\ UNCHANGED <<listing, operations, band, vanished>>
    BY <1>5, <1>b DEF OpenRow
  <2>2. CASE selected' = {}
    BY <2>1, <2>2 DEF BandBase, PickedFiltered, PickedShown, Picked
  <2>3. CASE UNCHANGED <<selected, filter>>
    BY <1>i, <2>1, <2>3, SameRows DEF rows
  <2>4. QED
    BY <1>5, <2>2, <2>3 DEF OpenRow
<1>6. ASSUME NEW k \in DOMAIN Filters, SetFilter(k) PROVE BandBase' /\ PickedFiltered' /\ PickedShown'
  <2>1. band.base = {} /\ UNCHANGED band /\ selected' = {}
    BY <1>6, <1>b DEF SetFilter
  <2>2. QED
    BY <2>1 DEF BandBase, PickedFiltered, PickedShown, Picked
<1>7. ASSUME NEW keep \in BOOLEAN, StartBand(keep) PROVE BandBase' /\ PickedFiltered' /\ PickedShown'
  <2>1. UNCHANGED <<rows, vanished, selected>> /\ band'.phase = "pressed" /\ band'.base \subseteq selected
    BY <1>7 DEF StartBand
  <2>2. QED
    BY <1>i, <1>p, <2>1, SelectsRows
<1>8. ASSUME NEW a \in Names, NEW b \in Names, MoveBand(a, b) PROVE BandBase' /\ PickedFiltered' /\ PickedShown'
  <2>1. UNCHANGED <<rows, vanished>> /\ selected' \subseteq band.base \cup Visible /\ band'.phase = "moved" /\ band'.base = band.base
    BY <1>8, <1>i DEF MoveBand, Between, WindowTypeOK, Band
  <2>2. QED
    BY <1>i, <1>p, <2>1, SelectsRows
<1>9. CASE EndBand
  <2>1. UNCHANGED <<rows, vanished, selected>> /\ band'.base = {}
    BY <1>9 DEF EndBand, NoBand
  <2>2. QED
    BY <1>i, <1>p, <2>1, SelectsRows
<1>10. CASE GoToAnswered
  <2>1. UNCHANGED band /\ selected' = {} /\ vanished' = band.base /\ filter' \in NoFilter
    BY <1>10 DEF GoToAnswered
  <2>2. Picked' = band.base /\ band.base \subseteq Names /\ Filters[filter'] = Names
    BY <1>i, <2>1 DEF Picked, WindowTypeOK, Band, NoFilter
  <2>3. QED
    BY <1>i, <2>1, <2>2 DEF BandBase, PickedFiltered, PickedShown
<1>11. ASSUME NEW names \in Listings, NEW o \in Operations, Listing(names, o) PROVE BandBase' /\ PickedFiltered' /\ PickedShown'
  <2>1. UNCHANGED <<filter, selected, band>> /\ listing' = names /\ vanished' = Picked \ names
    BY <1>11 DEF Listing, selection, Picked
  <2>2. Picked' = Picked /\ Visible' = names \cap Filters[filter]
    BY <2>1 DEF Picked, Visible
  <2>3. QED
    BY <1>i, <2>1, <2>2 DEF BandBase, PickedFiltered, PickedShown
<1>12. ASSUME NEW n \in Names \cup {Nothing}, OpenMenu(n) PROVE BandBase' /\ PickedFiltered' /\ PickedShown'
  <2>1. UNCHANGED <<rows, vanished, band>> /\ selected' \subseteq selected \cup Visible
    BY <1>12 DEF OpenMenu
  <2>2. QED
    BY <1>i, <1>p, <1>b, <2>1, SelectsRows
<1>13. QED
  BY <1>u, <1>a, <1>1, <1>2, <1>3, <1>4, <1>5, <1>6, <1>7, <1>8, <1>9, <1>10, <1>11, <1>12, AllSteps DEF WindowStep, RowsNext

LEMMA WindowInductive == WindowSpec => []WindowInv
<1>1. WindowInv /\ WindowStep => WindowInv'
  BY WindowTypeStep, PickedStep DEF WindowInv
<1>2. QED
  BY <1>1, WindowStart, PTL DEF WindowSpec, WindowStep

(* The types of rows, selection and sheets. *)
THEOREM WindowTypeCorrect == WindowSpec => []WindowTypeOK
BY WindowInductive, PTL DEF WindowInv

(* What is selected is on the screen, or was until the last listing. *)
THEOREM SelectionCorrect == WindowSpec => []SelectionShown
<1>1. WindowInv => SelectionShown
  BY DEF WindowInv, PickedShown, Picked, SelectionShown
<1>2. QED
  BY <1>1, WindowInductive, PTL

-----------------------------------------------------------------------------
(* Keys *)

Behind == command' = "none" /\ UNCHANGED <<view, selected, clipboard>>

(* A key that passes while a sheet is open is the one that closes the shortcut list. *)
LEMMA KeyBehind ==
  ASSUME sheets \subseteq SheetNames, SheetOpen \/ dialog, NEW key \in Keys, NEW field \in Fields, Key(key, field)
  PROVE  Behind
<1>1. CASE Owned(key) \/ (field = "field" /\ key \notin Toggles)
  BY <1>1 DEF Key, Do, Behind
<1>2. CASE ~Owned(key)
  <2>1. sheets = {"keys"} /\ key = "/"
    BY <1>2 DEF Owned, SheetOpen, SheetNames
  <2>2. KeyCommand(key) = "none" /\ KeyView(key) = view
    BY <2>1 DEF KeyCommand, KeyView
  <2>3. QED
    BY <2>1, <2>2 DEF Key, Do, Behind
<1>3. QED
  BY <1>1, <1>2

LEMMA KeyStep == WindowTypeOK /\ WindowStep => ((SheetOpen \/ dialog) /\ input' = "key" /\ inputs' # inputs => Behind)
<1> SUFFICES ASSUME WindowTypeOK, WindowStep, SheetOpen \/ dialog, input' = "key", inputs' # inputs PROVE Behind
  OBVIOUS
<1>u. CASE UNCHANGED windowVars
  BY <1>u DEF windowVars
<1>a. CASE AsideNext
  BY <1>a, AllAside DEF Aside
<1>1. CASE Escape
  BY <1>1 DEF Escape, SheetOpen, Do, overlays, Behind
<1>2. ASSUME NEW key \in Keys, NEW field \in Fields, Key(key, field) PROVE Behind
  BY <1>2, KeyBehind DEF WindowTypeOK
<1>3. CASE RowsNext /\ ~Escape /\ ~\E key \in Keys, field \in Fields : Key(key, field)
  <2>1. inputs' = inputs \/ input' \in {"mouse", "band"}
    BY <1>3 DEF RowsNext, ClickRow, SelectAll, Background, OpenRow, SetFilter, StartBand, MoveBand, EndBand, GoToAnswered, Listing,
      OpenMenu, Mouse, Do, Answered
  <2>2. QED
    BY <2>1
<1>4. QED
  BY <1>u, <1>a, <1>1, <1>2, <1>3, AllSteps DEF WindowStep

(* A key starts nothing, and changes neither panel nor selection nor clipboard, behind a sheet or a dialog. *)
THEOREM KeyboardCorrect == WindowSpec => SheetOwnsKeyboard
<1>1. WindowTypeOK /\ WindowStep =>
        [(SheetOpen \/ dialog) /\ input' = "key" /\ inputs' # inputs
           => command' = "none" /\ UNCHANGED <<view, selected, clipboard>>]_windowVars
  BY KeyStep DEF Behind
<1>2. QED
  BY <1>1, WindowTypeCorrect, PTL DEF WindowSpec, WindowStep, SheetOwnsKeyboard
==============================================================================
