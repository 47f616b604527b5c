----------------------------- MODULE ElementScan -----------------------------
(***************************************************************************)
(* The discovery panel of the <remote-fs-browser> element                  *)
(* (frontend/browser.js): the ranges in its field, the pages of a scan,    *)
(* the devices found, the sign-in question of a device and the hosts that  *)
(* are mapped.  A scan of the service probes a page of addresses and says  *)
(* where the next one starts.                                              *)
(*                                                                         *)
(* action disables the field and the buttons there are when a call begins; *)
(* a device row is rendered when the call has ended, so it stays enabled.  *)
(*                                                                         *)
(* Abstracted: the page of a range is its number and finds devices of its  *)
(* own; the session that loadShares closes is that of StorageElement, and  *)
(* the form that mapDevice fills in is left out.                           *)
(***************************************************************************)
EXTENDS Integers

CONSTANTS
  ScanRanges,   \* what can be typed in the field
  Permitted,    \* the ranges that GET /discover fills in
  PagesOf,      \* PagesOf[r]: pages of addresses of r
  Scans,        \* bound: calls under way
  MaxPushes,    \* bound: gestures
  Void          \* no ranges, no page, no device

Device(r, n) == [range |-> r, page |-> n]
ScanDevices == UNION {{Device(r, n) : n \in 0..(PagesOf[r] - 1)} : r \in ScanRanges}

ASSUME ElementScanAssumption ==
  /\ Permitted \in ScanRanges /\ Void \notin ScanRanges \cup Nat \cup ScanDevices
  /\ PagesOf \in [ScanRanges -> Nat \ {0}]
  /\ MaxPushes \in Nat

VARIABLES
  pushes,       \* gestures so far
  field,        \* scanRangesInput.value
  nextScan,     \* nextScan
  offered,      \* nextScanButton is shown
  deviceList,   \* deviceList
  devicesShown, \* the devices that have a row
  fields,       \* the field and the buttons of the panel are enabled
  panel,        \* view
  modal,        \* the device whose credentials are asked
  mappedHosts,  \* mapped
  withShares,   \* the hosts that hostShares has the shares of
  probe,        \* probe[c]: a discover, or a loadShares, under way
  upset         \* history: a call began while another was under way, or the element was rendered anew

probing == <<field, nextScan, offered, deviceList, devicesShown>>
hostRail == <<mappedHosts, withShares>>
scanVars == <<pushes, probing, fields, panel, modal, hostRail, probe, upset>>

Probe(op, of, offset) == [op |-> op, of |-> of, offset |-> offset]
NoProbe == Probe("none", Void, 0)
Probing == {c \in Scans : probe[c] # NoProbe}

ElementScanInit ==
  /\ pushes = 0
  /\ field = Void /\ nextScan = Void /\ offered = FALSE
  /\ deviceList = {} /\ devicesShown = {}
  /\ fields = TRUE /\ panel = "files" /\ modal = Void /\ mappedHosts = {} /\ withShares = {}
  /\ probe = [c \in Scans |-> NoProbe] /\ upset = FALSE

Push == modal = Void /\ pushes < MaxPushes /\ pushes' = pushes + 1

Send(record) ==
  /\ \E c \in Scans : probe[c] = NoProbe /\ probe' = [probe EXCEPT ![c] = record]
  /\ upset' = (upset \/ Probing # {})
  /\ fields' = FALSE

-----------------------------------------------------------------------------
(* discover and scanNetwork *)

(* discover(), of the page that holds the element: no scan. *)
Discover ==
  /\ Push /\ Send(Probe("roots", Void, 0))
  /\ UNCHANGED <<probing, panel, modal, hostRail>>

(* Typing other ranges takes the next page back. *)
TypeRanges(r) ==
  /\ Push /\ fields /\ r # field
  /\ field' = r /\ nextScan' = Void /\ offered' = FALSE
  /\ UNCHANGED <<deviceList, devicesShown, fields, panel, modal, hostRail, probe, upset>>

(* Scan the network, Scan ranges, or the next page: an empty field scans what is permitted. *)
ScanNetwork(offset) ==
  /\ Push /\ fields
  /\ offset = 0 \/ (offered /\ offset = nextScan)
  /\ panel' = "scan" /\ devicesShown' = {}
  /\ Send(Probe("scan", field, offset))
  /\ UNCHANGED <<field, nextScan, offered, deviceList, modal, hostRail>>

(* What the service probes for a call, and where it would go on. *)
RangeOf(c) == IF probe[c].of = Void THEN Permitted ELSE probe[c].of
PageOf(c) == IF probe[c].of = Void THEN 0 ELSE probe[c].offset
After(c) == IF PageOf(c) + 1 < PagesOf[RangeOf(c)] THEN PageOf(c) + 1 ELSE Void

\* Mutant of KeptDevices: the devices of an earlier scan are always kept.
KeptAlways(c) == deviceList

(* Only a page after the first adds to the devices there are. *)
KeptDevices(c) == IF probe[c].offset # 0 THEN deviceList ELSE {}

ProbeOver(c) == probe' = [probe EXCEPT ![c] = NoProbe] /\ fields' = TRUE

RootsAnswered(c) ==
  /\ probe[c].op = "roots"
  /\ field' = Permitted /\ nextScan' = Void /\ offered' = FALSE
  /\ ProbeOver(c)
  /\ UNCHANGED <<pushes, deviceList, devicesShown, panel, modal, hostRail, upset>>

(* A page: its devices, if any answered, get a row; so does what is kept. *)
PageAnswered(c) ==
  /\ probe[c].op = "scan" /\ PageOf(c) \in 0..(PagesOf[RangeOf(c)] - 1)
  /\ nextScan' = After(c) /\ offered' = (After(c) # Void)
  /\ deviceList' = KeptDevices(c) \cup {Device(RangeOf(c), PageOf(c))}
  /\ devicesShown' = deviceList'
  /\ ProbeOver(c)
  /\ UNCHANGED <<pushes, field, panel, modal, hostRail, upset>>

(* A failed call leaves the devices and the next page; a scan renders the devices again. *)
ProbeFails(c) ==
  /\ probe[c] # NoProbe
  /\ devicesShown' = IF probe[c].op = "scan" THEN deviceList ELSE devicesShown
  /\ ProbeOver(c)
  /\ UNCHANGED <<pushes, field, nextScan, offered, deviceList, panel, modal, hostRail, upset>>

-----------------------------------------------------------------------------
(* mapDevice, and the sidebar *)

RememberHost(d) == mappedHosts' = mappedHosts \cup {d}
AskShares(d) == Send(Probe("shares", d, 0)) /\ UNCHANGED withShares

(* An NFS export has no credentials: its host is mapped, and its shares are asked for. *)
MapNfs(d) ==
  /\ Push /\ panel = "scan" /\ d \in devicesShown
  /\ RememberHost(d) /\ panel' = "files"
  /\ AskShares(d)
  /\ UNCHANGED <<probing, modal>>

(* An SMB device asks first. *)
MapSmb(d) ==
  /\ Push /\ panel = "scan" /\ d \in devicesShown
  /\ modal' = d
  /\ UNCHANGED <<probing, fields, panel, hostRail, probe, upset>>

(* closeModal: cancelled, or answered. *)
CloseModal ==
  /\ modal # Void /\ modal' = Void
  /\ \/ UNCHANGED <<fields, panel, hostRail, probe, upset>>
     \/ RememberHost(modal) /\ panel' = "files" /\ AskShares(modal)
  /\ UNCHANGED <<pushes, probing>>

(* The hosts of the sidebar, and which of them have their shares under them. *)
Unlisted == mappedHosts \ withShares

(* pick: a host of the sidebar is asked for its shares unless it has them; the panel stays. *)
PickHost(d) ==
  /\ d \in Unlisted /\ Push /\ fields
  /\ AskShares(d)
  /\ UNCHANGED <<probing, panel, modal, mappedHosts>>

SharesFound(c) ==
  /\ probe[c].op = "shares"
  /\ withShares' = withShares \cup {probe[c].of}
  /\ ProbeOver(c)
  /\ UNCHANGED <<pushes, probing, panel, modal, mappedHosts, upset>>

(* Done, of the panel. *)
ShowFiles ==
  /\ Push /\ fields /\ panel = "scan" /\ panel' = "files"
  /\ UNCHANGED <<probing, fields, modal, hostRail, probe, upset>>

(* The element is put in its page again: an empty field, and no next page offered. *)
Render ==
  /\ pushes < MaxPushes /\ pushes' = pushes + 1
  /\ field' = Void /\ offered' = FALSE /\ devicesShown' = {}
  /\ fields' = TRUE /\ panel' = "files" /\ modal' = Void
  /\ upset' = (upset \/ Probing # {})
  /\ UNCHANGED <<nextScan, deviceList, hostRail, probe>>

-----------------------------------------------------------------------------
ElementScanNext ==
  \/ Discover \/ \E r \in ScanRanges \cup {Void} : TypeRanges(r)
  \/ ScanNetwork(0) \/ (nextScan # Void /\ ScanNetwork(nextScan))
  \/ \E c \in Scans : RootsAnswered(c) \/ PageAnswered(c) \/ ProbeFails(c) \/ SharesFound(c)
  \/ \E d \in ScanDevices : MapNfs(d) \/ MapSmb(d) \/ PickHost(d)
  \/ CloseModal \/ ShowFiles \/ Render

ElementScanSpec == ElementScanInit /\ [][ElementScanNext]_scanVars

-----------------------------------------------------------------------------
(* The page that is offered next continues the ranges in the field, and    *)
(* the devices listed are those of the pages before it: no page is left    *)
(* out, and none of another scan is mixed in, whatever was typed and       *)
(* whatever failed in between, while the calls come one after the other    *)
(* and the element stays in its page (483, 599-616).                       *)
NextContinues ==
  offered /\ ~upset =>
    LET r == IF field = Void THEN Permitted ELSE field
    IN  nextScan \in 1..(PagesOf[r] - 1) /\ deviceList = {Device(r, n) : n \in 0..(nextScan - 1)}
=============================================================================
