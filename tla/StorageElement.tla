--------------------------- MODULE StorageElement ---------------------------
(***************************************************************************)
(* The <remote-fs-browser> element (frontend/browser.js): a page puts it   *)
(* in its document or takes it out; the user connects it to a location,    *)
(* goes through its folders, manages files and selects a folder.  A call   *)
(* is a handler that waits for an answer of the service or of a dialog.    *)
(* action disables the controls the element has when a call begins; those  *)
(* that are rendered meanwhile, and the rows, stay enabled.                *)
(*                                                                         *)
(* Abstracted: credentials, the form and the shortlist are the choice of a *)
(* location; the service closes a session at once when it is told to.      *)
(***************************************************************************)
EXTENDS Integers, FiniteSets

CONSTANTS
  Shares,       \* locations of a host: the element may leave one for its host
  Roots,        \* other locations
  Paths,        \* folders of a location
  RootPath,     \* the topmost of them
  Calls,        \* bound: handlers under way
  MaxOpened,    \* bound: sessions opened
  MaxUses,      \* bound: gestures
  Absent        \* no session, no location, no rows

Targets == Shares \cup Roots

ASSUME ElementAssumption ==
  /\ RootPath \in Paths
  /\ Absent \notin Targets \cup Paths \cup Nat
  /\ MaxOpened \in Nat /\ MaxUses \in Nat

VARIABLES
  uses,         \* gestures so far
  attached,     \* isConnected
  generation,   \* generation
  held,         \* session
  descriptor,   \* descriptor
  path,         \* path
  listRows,     \* the folder whose rows the list shows
  controls,     \* the controls are enabled
  rail,         \* the buttons of the sidebar are: they are rendered anew by some calls
  call,         \* call[c]: a handler that waits, and its locals
  location,     \* location[s]: of the s-th session of the service
  live,         \* sessions the service has open
  disturbed,    \* history: two calls were under way, a missing folder passed for an expired session,
                \* or a location was opened for an element already out of its page
  astray        \* history: calls that acted elsewhere than asked

element == <<generation, held, descriptor, path, listRows>>
buttons == <<controls, rail>>
server == <<location, live>>
past == <<disturbed, astray>>
elementVars == <<uses, attached, element, buttons, call, server, past>>

ElementSessions == 1..MaxOpened

(* A call: what it is, what it waits for, the generation, session and path it has taken, and *)
(* what it does after: to is the location or path it is for.                                 *)
Call(op, at, to) ==
  [op |-> op, at |-> at, to |-> to, gen |-> generation, id |-> held, path |-> path]
NoCall == [op |-> "none", at |-> "none", to |-> Absent, gen |-> 0, id |-> Absent, path |-> RootPath]
Running == {c \in Calls : call[c] # NoCall}

ElementInit ==
  /\ uses = 0 /\ attached = TRUE /\ generation = 0
  /\ held = Absent /\ descriptor = Absent /\ path = RootPath /\ listRows = Absent
  /\ controls = TRUE /\ rail = TRUE
  /\ call = [c \in Calls |-> NoCall]
  /\ location = [s \in ElementSessions |-> Absent] /\ live = {}
  /\ disturbed = FALSE /\ astray = {}

Asking == \E c \in Calls : call[c].at = "asking"
Use == attached /\ ~Asking /\ uses < MaxUses /\ uses' = uses + 1

(* A handler begins; action disables what there is. *)
Begin(record) ==
  /\ \E c \in Calls : call[c] = NoCall /\ call' = [call EXCEPT ![c] = record]
  /\ disturbed' = (disturbed \/ Running # {})
Disable == controls' = FALSE /\ rail' = FALSE
Enable == controls' = TRUE /\ rail' = TRUE

Step(c, at) == call' = [call EXCEPT ![c].at = at]
End(c) == call' = [call EXCEPT ![c] = NoCall]

\* Mutant of Close: the service is not told.
CloseForgets == held' = Absent /\ UNCHANGED live

(* close: the element has no session from now on, and the service is told. *)
Close == held' = Absent /\ live' = live \ {held}

(* POST /sessions answers with a new session. *)
Fresh(s) == location[s] = Absent /\ \A r \in ElementSessions : r < s => location[r] # Absent

-----------------------------------------------------------------------------
(* connect, from the form or a share of the sidebar; open, of the shortlist *)

ConnectTo(l) ==
  /\ Use /\ rail
  /\ Begin(Call("connect", "closing", l)) /\ Disable
  /\ Close
  /\ UNCHANGED <<attached, generation, descriptor, path, listRows, location, astray>>

Closed(c) ==
  /\ call[c].op = "connect" /\ call[c].at = "closing"
  /\ descriptor' = call[c].to /\ listRows' = Absent
  /\ call' = [call EXCEPT ![c].at = "connecting", ![c].gen = generation]
  /\ disturbed' = (disturbed \/ ~attached)
  /\ UNCHANGED <<uses, attached, generation, held, path, buttons, server, astray>>

\* Mutant of Stale: what has happened to the element since is not looked at.
StaleNever(c) == FALSE

(* The element has been taken out of its page since the call was sent. *)
Stale(c) == call[c].gen # generation

(* The session is kept and shown, or closed when the element is gone. *)
Connected(c, s) ==
  /\ call[c].op = "connect" /\ call[c].at = "connecting"
  /\ Fresh(s)
  /\ location' = [location EXCEPT ![s] = call[c].to]
  /\ \/ /\ Stale(c)
        /\ End(c) /\ Enable
        /\ UNCHANGED <<held, live>>
     \/ /\ ~Stale(c)
        /\ held' = s /\ live' = live \cup {s}
        /\ call' = [call EXCEPT ![c].at = "listing", ![c].to = RootPath, ![c].id = s]
        /\ rail' = TRUE /\ UNCHANGED controls
  /\ UNCHANGED <<uses, attached, generation, descriptor, path, listRows, past>>

-----------------------------------------------------------------------------
(* show *)

(* A crumb, up, refresh: controls.  A double click on a folder: the rows are always enabled. *)
Show(p) ==
  /\ Use
  /\ (controls /\ held # Absent) \/ (listRows # Absent /\ p # listRows.path)
  /\ Begin(Call("show", "listing", p)) /\ Disable
  /\ UNCHANGED <<attached, element, server, astray>>

Lists(c) == call[c].at \in {"listing", "relisting"}
Gone(c) == Stale(c) \/ ~attached

(* The folder is listed: it is shown as one of the session the element has now. *)
Listed(c) ==
  /\ Lists(c) /\ call[c].id \in live
  /\ End(c) /\ Enable
  /\ \/ /\ Gone(c) /\ Close /\ UNCHANGED <<path, listRows>>
     \/ /\ ~Gone(c)
        /\ path' = call[c].to
        /\ listRows' = [location |-> location[call[c].id], path |-> call[c].to]
        /\ UNCHANGED <<held, live>>
  /\ UNCHANGED <<uses, attached, generation, descriptor, location, past>>

(* 404 or 410, as the session or the folder is gone: the location is opened once more. *)
Expired(c) ==
  /\ call[c].at = "listing"
  /\ disturbed' = (disturbed \/ call[c].id \in live)
  /\ \/ /\ Gone(c) /\ End(c) /\ Enable /\ UNCHANGED listRows
     \/ /\ ~Gone(c) /\ descriptor # Absent
        /\ call' = [call EXCEPT ![c].at = "reconnecting", ![c].id = descriptor]
        /\ listRows' = Absent /\ UNCHANGED buttons
  /\ UNCHANGED <<uses, attached, generation, held, descriptor, path, server, astray>>

Reconnected(c, s) ==
  /\ call[c].at = "reconnecting" /\ Fresh(s)
  /\ location' = [location EXCEPT ![s] = call[c].id]
  /\ \/ /\ Gone(c) /\ End(c) /\ Enable /\ UNCHANGED <<held, live>>
     \/ /\ ~Gone(c)
        /\ held' = s /\ live' = live \cup {s}
        /\ call' = [call EXCEPT ![c].at = "relisting", ![c].id = s]
        /\ UNCHANGED buttons
  /\ UNCHANGED <<uses, attached, generation, descriptor, path, listRows, past>>

(* Any other failure of a call that action runs: its notice takes the place of the rows. *)
CallFails(c) ==
  /\ call[c].at \notin {"none", "asking", "closing", "leaving", "selected", "disconnecting"}
  /\ End(c) /\ Enable
  /\ listRows' = Absent
  /\ UNCHANGED <<uses, attached, generation, held, descriptor, path, server, past>>

-----------------------------------------------------------------------------
(* The shares of a host *)

LoadShares ==
  /\ Use /\ rail
  /\ Begin(Call("shares", "asked", Absent)) /\ Disable
  /\ UNCHANGED <<attached, element, server, astray>>

(* They are listed: whatever session the element has is closed. *)
SharesListed(c) ==
  /\ call[c].at = "asked"
  /\ Close /\ Step(c, "closing")
  /\ UNCHANGED <<uses, attached, generation, descriptor, path, listRows, buttons, location, past>>

SharesShown(c) ==
  /\ call[c].op = "shares" /\ call[c].at = "closing"
  /\ End(c) /\ Enable
  /\ listRows' = Absent
  /\ UNCHANGED <<uses, attached, generation, held, descriptor, path, server, past>>

(* leaveShare: a crumb, or back from the topmost folder; no action, nothing is disabled. *)
LeaveShare ==
  /\ Use /\ controls /\ held # Absent /\ descriptor \in Shares
  /\ Begin(Call("leave", "leaving", Absent))
  /\ Close
  /\ UNCHANGED <<attached, generation, descriptor, path, listRows, buttons, location, astray>>

(* The host's shares are known, or loaded. *)
ShareLeft(c) ==
  /\ call[c].at = "leaving"
  /\ \/ /\ End(c) /\ listRows' = Absent /\ rail' = TRUE /\ UNCHANGED controls
     \/ /\ call' = [call EXCEPT ![c].op = "shares", ![c].at = "asked"]
        /\ Disable /\ UNCHANGED listRows
  /\ UNCHANGED <<uses, attached, generation, held, descriptor, path, server, past>>

(* discover and saveToShortlist: calls that leave the session alone. *)
OtherCall ==
  /\ Use /\ controls
  /\ Begin(Call("other", "answering", Absent)) /\ Disable
  /\ UNCHANGED <<attached, element, server, astray>>

OtherAnswered(c) ==
  /\ call[c].at = "answering"
  /\ End(c) /\ Enable
  /\ UNCHANGED <<uses, attached, element, server, past>>

-----------------------------------------------------------------------------
(* manage: the operations of the toolbar and the editor *)

(* updateTools: a button of the toolbar is enabled with the controls; a double click edits a row. *)
Offered(op) == IF op = "edit" THEN listRows # Absent ELSE controls

(* The session and the path are taken, and the user is asked.  The editor's file is read before. *)
Manage(op) ==
  /\ Use /\ held # Absent /\ Offered(op)
  /\ Begin(Call(op, IF op = "edit" THEN "reading" ELSE "asking", Absent))
  /\ UNCHANGED <<attached, element, buttons, server, astray>>

FileRead(c) ==
  /\ call[c].at = "reading"
  /\ \/ call[c].id \in live /\ Step(c, "asking")
     \/ End(c)
  /\ UNCHANGED <<uses, attached, element, buttons, server, past>>

\* Mutant of Moved: only the session is compared, not the folder.
MovedSession(c) == call[c].id # held

(* "The location changed; start the operation again." *)
Moved(c) == call[c].id # held \/ call[c].path # path

(* A call acts through its own session, but in the folder of the element as it is now. *)
ActsIn(c, kind) == astray' = IF path = call[c].path THEN astray ELSE astray \cup {kind}

(* The user answers: what is sent at once is sent now; paste first opens its source. *)
DialogAnswered(c) ==
  /\ call[c].at = "asking" /\ call[c].op # "upload"
  /\ \/ End(c) /\ UNCHANGED <<buttons, astray>>
     \/ /\ ~Moved(c)
        /\ Step(c, IF call[c].op = "paste" THEN "sourcing" ELSE "sent")
        /\ IF call[c].op = "paste" THEN UNCHANGED astray ELSE ActsIn(c, "manage")
        /\ Disable
  /\ UNCHANGED <<uses, attached, element, server, disturbed>>

(* The source of a paste is open, and the copy is sent; it is closed whatever comes of it. *)
Sourced(c, s) ==
  /\ call[c].at = "sourcing" /\ Fresh(s)
  /\ \E l \in Targets : location' = [location EXCEPT ![s] = l]
  /\ ActsIn(c, "paste") /\ Step(c, "sent")
  /\ UNCHANGED <<uses, attached, element, buttons, live, disturbed>>

(* What is done is followed by show(path). *)
Done(c) ==
  /\ call[c].at = "sent"
  /\ call' = [call EXCEPT ![c].at = "listing", ![c].to = call[c].path, ![c].gen = generation, ![c].id = held]
  /\ UNCHANGED <<uses, attached, element, buttons, server, past>>

(* uploadFiles: the session is compared before each file, the folder is not. *)
UploadFiles ==
  /\ Use /\ controls /\ held # Absent
  /\ Begin(Call("upload", "next", Absent)) /\ Disable
  /\ UNCHANGED <<attached, element, server, astray>>

(* A file is sent, and may have to be confirmed; or all are sent. *)
SendNext(c) ==
  /\ call[c].at = "next"
  /\ call[c].id = held
  /\ \/ ActsIn(c, "upload") /\ UNCHANGED call
     \/ Step(c, "asking") /\ UNCHANGED astray
     \/ Step(c, "sent") /\ UNCHANGED astray
  /\ UNCHANGED <<uses, attached, element, buttons, server, disturbed>>

Replace(c) ==
  /\ call[c].at = "asking" /\ call[c].op = "upload"
  /\ Step(c, "next")
  /\ UNCHANGED <<uses, attached, element, buttons, server, past>>

-----------------------------------------------------------------------------
(* select and disconnect *)

Select ==
  /\ Use /\ controls /\ held # Absent
  /\ Begin(Call("select", "describing", Absent)) /\ Disable
  /\ UNCHANGED <<attached, element, server, astray>>

(* The descriptor is there: the session is closed before the page is told. *)
Described(c) ==
  /\ call[c].at = "describing" /\ call[c].id \in live
  /\ Close /\ Step(c, "selected")
  /\ UNCHANGED <<uses, attached, generation, descriptor, path, listRows, buttons, location, past>>

Selected(c) ==
  /\ call[c].at = "selected"
  /\ End(c) /\ Enable
  /\ UNCHANGED <<uses, attached, element, server, past>>

(* Also a method of the element: the page may call it at any time. *)
DisconnectElement ==
  /\ attached /\ uses < MaxUses /\ uses' = uses + 1
  /\ Begin(Call("disconnect", "disconnecting", Absent))
  /\ Close
  /\ UNCHANGED <<attached, generation, descriptor, path, listRows, buttons, location, astray>>

ElementDisconnected(c) ==
  /\ call[c].at = "disconnecting"
  /\ End(c) /\ rail' = TRUE
  /\ listRows' = Absent /\ descriptor' = Absent
  /\ UNCHANGED <<uses, attached, generation, held, path, controls, server, past>>

-----------------------------------------------------------------------------
(* The page and the service *)

(* disconnectedCallback: what is under way is of an older generation from now on. *)
TakeOut ==
  /\ attached /\ attached' = FALSE
  /\ generation' = generation + 1
  /\ Close
  /\ UNCHANGED <<uses, descriptor, path, listRows, buttons, call, location, past>>

(* connectedCallback: everything is rendered anew. *)
PutIn ==
  /\ ~attached /\ uses < MaxUses /\ uses' = uses + 1
  /\ attached' = TRUE
  /\ listRows' = Absent /\ Enable
  /\ UNCHANGED <<generation, held, descriptor, path, call, server, past>>

ExpireSession(s) ==
  /\ s \in live /\ live' = live \ {s}
  /\ UNCHANGED <<uses, attached, element, buttons, call, location, past>>

-----------------------------------------------------------------------------
ElementGesture ==
  \/ \E l \in Targets : ConnectTo(l)
  \/ \E p \in Paths : Show(p)
  \/ LoadShares \/ LeaveShare \/ OtherCall \/ UploadFiles \/ Select \/ DisconnectElement
  \/ \E op \in {"change", "edit", "paste"} : Manage(op)

ElementAnswer(c) ==
  \/ Closed(c) \/ Listed(c) \/ Expired(c) \/ CallFails(c)
  \/ \E s \in ElementSessions : Connected(c, s) \/ Reconnected(c, s) \/ Sourced(c, s)
  \/ SharesListed(c) \/ SharesShown(c) \/ ShareLeft(c) \/ OtherAnswered(c)
  \/ FileRead(c) \/ Done(c) \/ Described(c) \/ Selected(c) \/ ElementDisconnected(c)

ElementDialog(c) == DialogAnswered(c) \/ Replace(c)

ElementNext ==
  \/ ElementGesture \/ TakeOut \/ PutIn
  \/ \E c \in Calls : ElementAnswer(c) \/ ElementDialog(c) \/ SendNext(c)
  \/ \E s \in ElementSessions : ExpireSession(s)

(* The service answers every call. *)
ElementFairness == \A c \in Calls : WF_elementVars(ElementAnswer(c))
ElementSpec == ElementInit /\ [][ElementNext]_elementVars /\ ElementFairness

-----------------------------------------------------------------------------
(* README.md:478 says that the element "closes its session on selection,   *)
(* disconnect or element removal": while its calls come one after the      *)
(* other, and however often a session expires under them (and no folder is *)
(* missing, which show takes for that), it leaves none open but the one it *)
(* has (300-305, 803-878).                                                 *)
NothingLeft == ~disturbed => live \subseteq {held}

(* An element out of its page has no session open, also when it was taken  *)
(* out while one was being opened for it or listed (301, 816, 842, 862).   *)
RemovedClosesAll == ~attached => live = {} \/ disturbed

(* An operation that has asked the user is sent to the folder it asked     *)
(* about, although the element may show another one since; a paste and an  *)
(* upload, which read the folder again, while no other call is made        *)
(* (1030-1096).                                                            *)
ManagedWhereShown == "manage" \notin astray /\ (~disturbed => astray = {})
=============================================================================
