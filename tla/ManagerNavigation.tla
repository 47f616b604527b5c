-------------------------- MODULE ManagerNavigation --------------------------
(***************************************************************************)
(* Where the manager page is (web/manager.js): the place it shows, the     *)
(* sessions it has opened and keeps, the listing it loads, the address of  *)
(* the page, and the hosts and cloud connections it maps and forgets.      *)
(*                                                                         *)
(* setState changes this.state at once; the runtime renders, and calls     *)
(* componentDidUpdate, later: that is the step Commit.  Every await ends a *)
(* step.  The service may close a session at any time.                     *)
(*                                                                         *)
(* Abstracted: a folder of a place is a name; credentials and the shares   *)
(* of a host are left out; a session is the n-th one opened.               *)
(***************************************************************************)
EXTENDS Integers, FiniteSets

CONSTANTS
  Locations,    \* descriptors: shares and exports, endpoints, local roots
  Hosts,        \* hosts of shares and exports
  HostOf,       \* HostOf[l]: the host of a location, Nowhere without one
  Endpoints,    \* locations the service is configured with: they have links
  Cloud,        \* the one of them that the page may save and forget
  Root,         \* the first local root
  FoldersOf,    \* FoldersOf[l]: folders of a location
  Top,          \* the topmost of them
  MaxAttempts,  \* retries of a place that is getting ready (40 in the code)
  MaxVisits,    \* bound: gestures
  MaxSessions,  \* bound: sessions opened
  Nowhere,      \* no place, no host, no session
  NoLink,       \* an address without a link
  Unknown       \* a link this service has no location for

At(l, f) == [location |-> l, folder |-> f]
Places == UNION {{At(l, f) : f \in FoldersOf[l]} : l \in Locations}

ASSUME NavigationAssumption ==
  /\ HostOf \in [Locations -> Hosts \cup {Nowhere}]
  /\ Endpoints \subseteq Locations /\ Cloud \in Endpoints /\ Root \in Locations \ Endpoints
  /\ \A l \in Endpoints \cup {Root} : HostOf[l] = Nowhere
  /\ \A l \in Locations : Top \in FoldersOf[l]
  /\ {NoLink, Unknown} \cap Places = {} /\ NoLink # Unknown
  /\ Nowhere \notin Locations \cup Hosts \cup Nat \cup Places
  /\ MaxAttempts \in Nat /\ MaxVisits \in Nat /\ MaxSessions \in Nat

VARIABLES
  visits,       \* gestures so far
  boot,         \* componentDidMount: "loading", "up" or "failed"
  place,        \* state.place
  dirty,        \* state.place # this.loadedPlace
  shown,        \* state.session
  entries,      \* state.listing: the place and session it was read from
  loading,      \* state.loading
  failed,       \* state.loadError
  navigation,   \* this.navigation
  loads,        \* loads[g]: the call of loadPlace that took generation g
  cache,        \* this.sessions
  opened,       \* opened[s]: location of the s-th session of the service
  alive,        \* sessions the service has open
  hash,         \* the part of the page's address after #
  typed,        \* a hashchange event is on its way
  mapped,       \* state.mapped
  closing,      \* closing[h]: the loop that closes the sessions of host h
  errands          \* errands[k]: the other handlers that wait, and what for

screen == <<place, dirty, shown, entries, loading, failed>>
loader == <<navigation, loads>>
sessions == <<cache, opened, alive>>
address == <<hash, typed>>
handlers == <<mapped, closing, errands>>
navigationVars == <<visits, boot, screen, loader, sessions, address, handlers>>

SessionIds == 1..MaxSessions
Generations == 1..(MaxVisits + 2)
Kinds == {"disconnect", "save", "forget"}

NoLoad == [at |-> "over", place |-> At(Root, Top), attempt |-> 0, session |-> Nowhere]
Loop(at, on, then) == [at |-> at, on |-> on, then |-> then]
Resting == Loop("off", Nowhere, Nowhere)
Job(at, on) == [at |-> at, on |-> on]
NoJob == Job("off", Nowhere)

(* linkOf: only a configured endpoint has a link. *)
LinkOf(p) == IF p # Nowhere /\ p.location \in Endpoints THEN p ELSE NoLink
Links == {p \in Places : p.location \in Endpoints}

NavigationInit ==
  /\ visits = 0 /\ boot = "loading"
  /\ place = Nowhere /\ dirty = FALSE
  /\ shown = Nowhere /\ entries = Nowhere /\ loading = FALSE /\ failed = FALSE
  /\ navigation = 0 /\ loads = [g \in Generations |-> NoLoad]
  /\ cache = [l \in Locations |-> Nowhere]
  /\ opened = [s \in SessionIds |-> Nowhere] /\ alive = {}
  /\ hash \in Links \cup {NoLink, Unknown} /\ typed = FALSE
  /\ mapped = {} /\ closing = [h \in Hosts |-> Resting]
  /\ errands = [k \in Kinds |-> NoJob]

Visit == visits < MaxVisits /\ visits' = visits + 1

(* goTo: a new place; Commit will load it. *)
GoTo(p) == place' = p /\ dirty' = TRUE
Stay == UNCHANGED <<place, dirty>>

(* The page leaves for no place: what is shown goes with it. *)
Leave == /\ place' = Nowhere /\ dirty' = TRUE
         /\ shown' = Nowhere /\ entries' = Nowhere
         /\ UNCHANGED <<loading, failed>>

(* POST /sessions answers with a new session, which is kept. *)
New(s) == opened[s] = Nowhere /\ \A r \in SessionIds : r < s => opened[r] # Nowhere
Open(l, s) ==
  /\ New(s)
  /\ opened' = [opened EXCEPT ![s] = l]
  /\ alive' = alive \cup {s}
  /\ cache' = [cache EXCEPT ![l] = s]

-----------------------------------------------------------------------------
(* loadPlace *)

(* A new generation clears the screen and takes the kept session, or opens one. *)
LoadPlace(p) ==
  LET g == navigation + 1
  IN  /\ g \in Generations
      /\ navigation' = g
      /\ shown' = Nowhere /\ entries' = Nowhere /\ loading' = TRUE /\ failed' = FALSE
      /\ loads' = [loads EXCEPT ![g] =
           [at |-> IF cache[p.location] = Nowhere THEN "opening" ELSE "listing",
            place |-> p, attempt |-> 0, session |-> cache[p.location]]]

Set(g, at) == loads' = [loads EXCEPT ![g].at = at]
Over(g) == loads' = [loads EXCEPT ![g] = NoLoad]

\* Mutant of Current: the generation is not compared.
CurrentAlways(g) == TRUE

Current(g) == g = navigation

Opened(g, s) ==
  /\ loads[g].at = "opening"
  /\ Open(loads[g].place.location, s)
  /\ loads' = [loads EXCEPT ![g].at = "listing", ![g].session = s]
  /\ UNCHANGED <<visits, boot, screen, navigation, address, handlers>>

(* The folder is listed: it is shown, unless the page has gone elsewhere. *)
ListAnswered(g) ==
  LET l == loads[g]
  IN  /\ l.at = "listing" /\ l.session \in alive
      /\ Over(g)
      /\ IF Current(g)
           THEN /\ shown' = l.session /\ entries' = [place |-> l.place, session |-> l.session]
                /\ loading' = FALSE
           ELSE UNCHANGED <<shown, entries, loading>>
      /\ UNCHANGED <<visits, boot, place, dirty, failed, navigation, sessions, address, handlers>>

(* 404 or 410, as the session or the folder is gone: the first attempt opens a fresh session. *)
ListGone(g) ==
  /\ loads[g].at = "listing" /\ loads[g].attempt = 0
  /\ loads' = [loads EXCEPT ![g].at = "opening", ![g].attempt = 1]
  /\ UNCHANGED <<visits, boot, screen, navigation, sessions, address, handlers>>

(* 503: the storage is getting ready; the listing is asked again after 3 s. *)
ListBusy(g) ==
  /\ loads[g].at = "listing" /\ loads[g].session \in alive
  /\ loads[g].attempt <= MaxAttempts /\ Current(g)
  /\ Set(g, "waiting")
  /\ UNCHANGED <<visits, boot, screen, navigation, sessions, address, handlers>>

Wake(g) ==
  /\ loads[g].at = "waiting"
  /\ IF Current(g)
       THEN loads' = [loads EXCEPT ![g].at = "listing", ![g].attempt = @ + 1]
       ELSE Over(g)
  /\ UNCHANGED <<visits, boot, screen, navigation, sessions, address, handlers>>

\* Mutant of AfterError: the error is shown, the loading state stays.
AfterErrorLoading(g) ==
  IF Current(g) THEN UNCHANGED loading /\ failed' = TRUE ELSE UNCHANGED <<loading, failed>>

AfterError(g) ==
  IF Current(g) THEN loading' = FALSE /\ failed' = TRUE ELSE UNCHANGED <<loading, failed>>

(* Any other error, of the opening or of the listing. *)
LoadFails(g) ==
  /\ loads[g].at \in {"opening", "listing"}
  /\ Over(g)
  /\ AfterError(g)
  /\ UNCHANGED <<visits, boot, place, dirty, shown, entries, navigation, sessions, address, handlers>>

LoadAnswer(g) ==
  \/ \E s \in SessionIds : Opened(g, s)
  \/ ListAnswered(g) \/ ListGone(g) \/ ListBusy(g) \/ Wake(g) \/ LoadFails(g)

(* syncLink: the address follows the place; no hashchange is fired. *)
SyncLink(p) == hash' = LinkOf(p)

(* componentDidUpdate: the place has changed since it was loaded. *)
Commit ==
  /\ dirty
  /\ dirty' = FALSE
  /\ \/ /\ place = Nowhere
        /\ UNCHANGED <<shown, entries, loading, failed, loader, hash>>
     \/ /\ place # Nowhere
        /\ SyncLink(place) /\ LoadPlace(place)
  /\ UNCHANGED <<visits, boot, place, sessions, typed, handlers>>

-----------------------------------------------------------------------------
(* The gestures that only navigate *)

(* A root, a share, a pin, a crumb, a folder row. *)
Choose(p) ==
  /\ Visit /\ GoTo(p)
  /\ UNCHANGED <<boot, shown, entries, loading, failed, loader, sessions, address, handlers>>

UpOne ==
  /\ place # Nowhere /\ place.folder # Top
  /\ Choose(At(place.location, Top))

(* refresh, of the toolbar or at the end of a write. *)
Refresh ==
  /\ Visit /\ place # Nowhere
  /\ LoadPlace(place)
  /\ UNCHANGED <<boot, place, dirty, sessions, address, handlers>>

(* openLink: TRUE where it finds a location this service has. *)
Known == boot = "up" /\ hash \in Links

TypeHash(h) ==
  /\ Visit /\ h # hash
  /\ hash' = h /\ typed' = TRUE
  /\ UNCHANGED <<boot, screen, loader, sessions, handlers>>

HashChange ==
  /\ typed /\ typed' = FALSE
  /\ IF Known /\ hash # LinkOf(place) THEN GoTo(hash) ELSE Stay
  /\ UNCHANGED <<visits, boot, shown, entries, loading, failed, loader, sessions, hash, handlers>>

(* The loads of componentDidMount: the address names a place, or the first root is it. *)
Boot ==
  /\ boot = "loading"
  /\ boot' = "up"
  /\ IF hash \in Links
       THEN IF hash # LinkOf(place) THEN GoTo(hash) ELSE Stay
       ELSE GoTo(At(Root, Top))
  /\ UNCHANGED <<visits, shown, entries, loading, failed, loader, sessions, address, handlers>>

(* One of the five has failed: Promise.all rejects and the rest of the method is skipped. *)
BootFails ==
  /\ boot = "loading" /\ boot' = "failed"
  /\ UNCHANGED <<visits, screen, loader, sessions, address, handlers>>

-----------------------------------------------------------------------------
(* disconnect *)

Disconnect ==
  /\ Visit /\ errands["disconnect"] = NoJob
  /\ \/ /\ shown = Nowhere
        /\ Leave /\ hash' = NoLink
        /\ UNCHANGED <<errands, alive>>
     \/ /\ shown # Nowhere
        /\ errands' = [errands EXCEPT !["disconnect"] =
                      Job(IF shown \in alive THEN "closing" ELSE "refused", shown)]
        /\ alive' = alive \ {shown}
        /\ UNCHANGED <<screen, hash>>
  /\ UNCHANGED <<boot, loader, cache, opened, typed, mapped, closing>>

(* The service has closed the session: whatever place is shown now is left. *)
Disconnected ==
  LET s == errands["disconnect"].on
  IN  /\ errands["disconnect"].at = "closing"
      /\ errands' = [errands EXCEPT !["disconnect"] = NoJob]
      /\ cache' = [l \in Locations |-> IF cache[l] = s THEN Nowhere ELSE cache[l]]
      /\ Leave /\ hash' = NoLink
      /\ UNCHANGED <<visits, boot, loader, opened, alive, typed, mapped, closing>>

(* It has none such any more: the page stays where it is. *)
DisconnectRefused ==
  /\ errands["disconnect"].at = "refused"
  /\ errands' = [errands EXCEPT !["disconnect"] = NoJob]
  /\ UNCHANGED <<visits, boot, screen, loader, sessions, address, mapped, closing>>

-----------------------------------------------------------------------------
(* Hosts: mapping one and unmounting it both close its sessions first *)

OfHost(h) == {l \in Locations : HostOf[l] = h}
Kept(h) == {l \in OfHost(h) : cache[l] # Nowhere}

(* Map host h, for share l of it when one was typed. *)
MapDevice(h, l) ==
  /\ Visit /\ closing[h] = Resting /\ l \in OfHost(h) \cup {Nowhere}
  /\ closing' = [closing EXCEPT ![h] =
                   Loop(IF l = Nowhere THEN "asking" ELSE "next", Nowhere, Job("map", l))]
  /\ UNCHANGED <<boot, screen, loader, sessions, address, mapped, errands>>

(* The service has listed its shares. *)
SharesAnswered(h) ==
  /\ closing[h].at = "asking"
  /\ closing' = [closing EXCEPT ![h].at = "next"]
  /\ UNCHANGED <<visits, boot, screen, loader, sessions, address, mapped, errands>>

Unmount(h) ==
  /\ Visit /\ h \in mapped /\ closing[h] = Resting
  /\ closing' = [closing EXCEPT ![h] = Loop("next", Nowhere, Job("unmount", Nowhere))]
  /\ UNCHANGED <<boot, screen, loader, sessions, address, mapped, errands>>

(* The loop deletes the next kept session of the host ... *)
CloseNext(h, l) ==
  /\ closing[h].at = "next" /\ l \in Kept(h)
  /\ alive' = alive \ {cache[l]}
  /\ closing' = [closing EXCEPT ![h].at = "deleting", ![h].on = l]
  /\ UNCHANGED <<visits, boot, screen, loader, cache, opened, address, mapped, errands>>

(* ... and then forgets what is kept for its location. *)
Forgotten(h) ==
  /\ closing[h].at = "deleting"
  /\ cache' = [cache EXCEPT ![closing[h].on] = Nowhere]
  /\ closing' = [closing EXCEPT ![h].at = "next", ![h].on = Nowhere]
  /\ UNCHANGED <<visits, boot, screen, loader, opened, alive, address, mapped, errands>>

(* No session of the host is kept: the second half of unmount and of mapDevice. *)
Unmounted(h) ==
  /\ closing[h].at = "next" /\ Kept(h) = {} /\ closing[h].then.at = "unmount"
  /\ closing' = [closing EXCEPT ![h] = Resting]
  /\ mapped' = mapped \ {h}
  /\ IF place # Nowhere /\ HostOf[place.location] = h THEN Leave ELSE UNCHANGED screen
  /\ UNCHANGED <<visits, boot, loader, sessions, address, errands>>

MapListed(h) ==
  /\ closing[h].at = "next" /\ Kept(h) = {} /\ closing[h].then = Job("map", Nowhere)
  /\ closing' = [closing EXCEPT ![h] = Resting]
  /\ mapped' = mapped \cup {h}
  /\ UNCHANGED <<visits, boot, screen, loader, sessions, address, errands>>

MapOpens(h) ==
  /\ closing[h].at = "next" /\ Kept(h) = {}
  /\ closing[h].then.at = "map" /\ closing[h].then.on # Nowhere
  /\ closing' = [closing EXCEPT ![h].at = "opening"]
  /\ UNCHANGED <<visits, boot, screen, loader, sessions, address, mapped, errands>>

(* The typed share is open: the host is mapped and the share shown. *)
MapOpened(h, s) ==
  LET l == closing[h].then.on
  IN  /\ closing[h].at = "opening" /\ Open(l, s)
      /\ closing' = [closing EXCEPT ![h] = Resting]
      /\ mapped' = mapped \cup {h}
      /\ GoTo(At(l, Top))
      /\ UNCHANGED <<visits, boot, shown, entries, loading, failed, loader, address, errands>>

MapFails(h) ==
  /\ closing[h].at \in {"asking", "opening"}
  /\ closing' = [closing EXCEPT ![h] = Resting]
  /\ UNCHANGED <<visits, boot, screen, loader, sessions, address, mapped, errands>>

-----------------------------------------------------------------------------
(* The cloud connection *)

Sessions(l) == {s \in SessionIds : opened[s] = l}

(* Saving closes the sessions of the connection; a fresh one is opened and its place shown. *)
SaveCloud ==
  /\ Visit /\ errands["save"] = NoJob
  /\ errands' = [errands EXCEPT !["save"] = Job("saving", Cloud)]
  /\ UNCHANGED <<boot, screen, loader, sessions, address, mapped, closing>>

CloudSaved ==
  /\ errands["save"].at = "saving"
  /\ errands' = [errands EXCEPT !["save"].at = "opening"]
  /\ alive' = alive \ Sessions(Cloud)
  /\ cache' = [cache EXCEPT ![Cloud] = Nowhere]
  /\ UNCHANGED <<visits, boot, screen, loader, opened, address, mapped, closing>>

CloudConnected(s) ==
  /\ errands["save"].at = "opening" /\ Open(Cloud, s)
  /\ errands' = [errands EXCEPT !["save"] = NoJob]
  /\ GoTo(At(Cloud, Top))
  /\ UNCHANGED <<visits, boot, shown, entries, loading, failed, loader, address, mapped, closing>>

CloudFails ==
  /\ errands["save"] # NoJob
  /\ errands' = [errands EXCEPT !["save"] = NoJob]
  /\ UNCHANGED <<visits, boot, screen, loader, sessions, address, mapped, closing>>

(* forgetCloud, from the confirmation on. *)
ForgetCloud ==
  /\ Visit /\ errands["forget"] = NoJob
  /\ errands' = [errands EXCEPT !["forget"] = Job("deleting", Cloud)]
  /\ alive' = alive \ Sessions(Cloud)
  /\ UNCHANGED <<boot, screen, loader, cache, opened, address, mapped, closing>>

CloudForgotten ==
  /\ errands["forget"].at = "deleting"
  /\ errands' = [errands EXCEPT !["forget"] = NoJob]
  /\ cache' = [cache EXCEPT ![Cloud] = Nowhere]
  /\ IF place # Nowhere /\ place.location = Cloud THEN Leave ELSE UNCHANGED screen
  /\ UNCHANGED <<visits, boot, loader, opened, alive, address, mapped, closing>>

(* The service closes a session: it expires, or another page closes it. *)
Expire(s) ==
  /\ s \in alive /\ alive' = alive \ {s}
  /\ UNCHANGED <<visits, boot, screen, loader, cache, opened, address, handlers>>

-----------------------------------------------------------------------------
(* A share of a host in the sidebar. *)
OpenShare(l) == HostOf[l] \in mapped /\ Choose(At(l, Top))

(* The sidebar: roots, hosts and their shares, cloud connections and other endpoints. *)
RailGesture ==
  \/ \E l \in {Root} \cup Endpoints : Choose(At(l, Top))
  \/ \E l \in Locations : OpenShare(l)
  \/ \E h \in Hosts : Unmount(h)

(* addLocation: a location without a host is shown; one of a host maps the host first. *)
AddLocation(l) ==
  \/ HostOf[l] = Nowhere /\ Choose(At(l, Top))
  \/ HostOf[l] # Nowhere /\ (MapDevice(HostOf[l], l) \/ MapDevice(HostOf[l], Nowhere))

PanelGesture == (\E l \in Locations : AddLocation(l)) \/ SaveCloud \/ ForgetCloud

(* The toolbar, the rows, the shortlist and the clipboard's place: any folder. *)
ToolbarGesture == (\E p \in Places : Choose(p)) \/ UpOne \/ Refresh \/ Disconnect

NavigationGesture ==
  \/ RailGesture \/ PanelGesture \/ ToolbarGesture
  \/ \E h \in Links \cup {NoLink, Unknown} : TypeHash(h)

HostAnswer(h) ==
  \/ \E l \in Locations : CloseNext(h, l)
  \/ SharesAnswered(h) \/ Forgotten(h) \/ Unmounted(h) \/ MapListed(h) \/ MapOpens(h)
  \/ \E s \in SessionIds : MapOpened(h, s)
  \/ MapFails(h)

CloudAnswer == CloudSaved \/ (\E s \in SessionIds : CloudConnected(s)) \/ CloudFails \/ CloudForgotten

NavigationNext ==
  \/ NavigationGesture
  \/ Commit \/ HashChange \/ Boot \/ BootFails
  \/ \E g \in Generations : LoadAnswer(g)
  \/ Disconnected \/ DisconnectRefused \/ \E h \in Hosts : HostAnswer(h)
  \/ CloudAnswer \/ \E s \in SessionIds : Expire(s)

(* The runtime renders, timers fire and the service answers every request. *)
NavigationFairness ==
  /\ WF_navigationVars(Commit)
  /\ WF_navigationVars(\E g \in Generations : LoadAnswer(g))

NavigationSpec == NavigationInit /\ [][NavigationNext]_navigationVars /\ NavigationFairness

-----------------------------------------------------------------------------
(* What the page shows is of one place: the listing was read from it,      *)
(* through a session of its location, whatever load of an older place      *)
(* answers late and however often its session was closed and reopened; and *)
(* the address of the page is its link, or none, or unknown to the service *)
(* (97-111, 432-437, 1332-1362).                                           *)
ShownIsPlace ==
  place # Nowhere /\ ~dirty =>
    /\ entries # Nowhere => entries.place = place /\ entries.session = shown
    /\ shown # Nowhere => opened[shown] = place.location
    /\ boot = "up" /\ ~typed => hash \in {LinkOf(place), NoLink, Unknown}

(* "Loading..." ends: the folder is shown or the reason why it is not, also *)
(* when the storage stays busy or its session goes away (1341-1362).       *)
LoadingEnds == []<>~loading
=============================================================================
