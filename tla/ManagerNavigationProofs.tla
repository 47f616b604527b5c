------------------------ MODULE ManagerNavigationProofs ------------------------
(***************************************************************************)
(* Theorems about ManagerNavigation, for every set of locations, hosts and *)
(* folders, and for every number of gestures, sessions and attempts: what  *)
(* the page shows is of one place.                                         *)
(***************************************************************************)
EXTENDS ManagerNavigation, TLAPS

LoadTypes == [at : {"over", "opening", "listing", "waiting"}, place : Places, attempt : Nat, session : SessionIds \cup {Nowhere}]
ThenTypes == [at : {"map", "unmount"}, on : Locations \cup {Nowhere}]
BusyLoops == [at : {"asking", "next", "deleting", "opening"}, on : Locations \cup {Nowhere}, then : ThenTypes]
LoopTypes == BusyLoops \cup {Resting}

PlaceTypes ==
  /\ place \in Places \cup {Nowhere} /\ dirty \in BOOLEAN
  /\ hash \in Links \cup {NoLink, Unknown}

(* A share is opened for a host only when one was typed. *)
ClosingTypes ==
  /\ closing \in [Hosts -> LoopTypes]
  /\ \A h \in Hosts : closing[h].at = "opening" => closing[h].then.on \in Locations

SessionTypes ==
  /\ opened \in [SessionIds -> Locations \cup {Nowhere}]
  /\ cache \in [Locations -> SessionIds \cup {Nowhere}]
  /\ navigation \in Nat
  /\ loads \in [Generations -> LoadTypes]

(* What is kept for a location was opened for it. *)
CacheRight == \A l \in Locations : cache[l] # Nowhere => opened[cache[l]] = l

(* A load lists through a session of the location of its place. *)
LoadsRight ==
  \A g \in Generations : loads[g].at \in {"listing", "waiting"} =>
    /\ loads[g].session # Nowhere
    /\ opened[loads[g].session] = loads[g].place.location

(* The youngest load is of the place the page is at. *)
CurrentIsPlace ==
  place # Nowhere /\ ~dirty =>
    \A g \in Generations : g = navigation /\ loads[g].at # "over" => loads[g].place = place

Background == PlaceTypes /\ ClosingTypes /\ SessionTypes /\ CacheRight /\ LoadsRight
NavIInv == Background /\ CurrentIsPlace /\ ShownIsPlace /\ shown \in SessionIds \cup {Nowhere}

-----------------------------------------------------------------------------
LEMMA PlaceOf == \A l \in Locations : At(l, Top) \in Places /\ At(l, Top).location = l
BY NavigationAssumption DEF At, Places

LEMMA PlaceParts ==
  ASSUME NEW p \in Places
  PROVE  /\ p.location \in Locations /\ p.folder \in FoldersOf[p.location]
         /\ p = At(p.location, p.folder)
BY DEF Places, At

LEMMA LinkType == ASSUME NEW p \in Places \cup {Nowhere} PROVE LinkOf(p) \in Links \cup {NoLink}
BY DEF LinkOf, Links

LEMMA SessionsAreNumbers == Nowhere \notin SessionIds /\ Nowhere \notin Places /\ Nowhere \notin Locations
BY NavigationAssumption DEF SessionIds

-----------------------------------------------------------------------------
(* How steps change the state: three lemmas that the actions cite *)

(* The page is to go elsewhere, or nowhere: nothing is promised of the screen. *)
LEMMA AwayKeeps ==
  ASSUME NavIInv, Background', place' = Nowhere \/ dirty', shown' \in {shown, Nowhere}
  PROVE  NavIInv'
BY DEF NavIInv, CurrentIsPlace, ShownIsPlace, Background, PlaceTypes

(* The place, the screen and the loads stay; sessions may be opened. *)
LEMMA StayKeeps ==
  ASSUME NavIInv, Background', UNCHANGED <<screen, loader>>,
         \A s \in SessionIds : opened[s] # Nowhere => opened'[s] = opened[s],
         hash' = hash \/ hash' = NoLink,
         boot' = boot \/ boot' = "failed",
         typed' = typed
  PROVE  NavIInv'
<1> USE DEF NavIInv, screen, loader
<1>1. CurrentIsPlace'
  BY DEF CurrentIsPlace
<1>2. ASSUME place # Nowhere, ~dirty, shown # Nowhere PROVE opened'[shown] = place.location
  BY <1>2, PlaceParts, SessionsAreNumbers DEF ShownIsPlace, Background, PlaceTypes
<1>3. ShownIsPlace'
  BY <1>2 DEF ShownIsPlace, LinkOf
<1>4. QED
  BY <1>1, <1>3

(* A session is opened for a location: what is known of the others stays true. *)
LEMMA OpenKeeps ==
  ASSUME SessionTypes, CacheRight, NEW l \in Locations, NEW s \in SessionIds, Open(l, s)
  PROVE  /\ opened' \in [SessionIds -> Locations \cup {Nowhere}]
         /\ cache' \in [Locations -> SessionIds \cup {Nowhere}]
         /\ CacheRight'
         /\ \A r \in SessionIds : opened[r] # Nowhere => opened'[r] = opened[r]
         /\ opened'[s] = l /\ cache'[l] = s
<1>1. /\ opened[s] = Nowhere /\ opened' = [opened EXCEPT ![s] = l] /\ cache' = [cache EXCEPT ![l] = s]
  BY DEF Open, New
<1>2. QED
  BY <1>1, SessionsAreNumbers DEF SessionTypes, CacheRight

(* Loads that stay keep what is right about them while sessions are opened. *)
LEMMA LoadsStayRight ==
  ASSUME SessionTypes, LoadsRight, loads' = loads,
         \A r \in SessionIds : opened[r] # Nowhere => opened'[r] = opened[r]
  PROVE  LoadsRight'
<1> SUFFICES ASSUME NEW g \in Generations, loads[g].at \in {"listing", "waiting"}
             PROVE  loads[g].session # Nowhere /\ opened'[loads[g].session] = loads[g].place.location
  BY DEF LoadsRight
<1>1. loads[g] \in LoadTypes
  BY DEF SessionTypes
<1>2. loads[g].session \in SessionIds /\ opened[loads[g].session] = loads[g].place.location
  BY <1>1 DEF LoadsRight, LoadTypes
<1>3. loads[g].place.location # Nowhere
  BY <1>1, PlaceParts, SessionsAreNumbers DEF LoadTypes
<1>4. QED
  BY <1>2, <1>3, SessionsAreNumbers

(* Sessions that are kept no more. *)
LEMMA ForgetKeeps ==
  ASSUME SessionTypes, CacheRight, NEW S,
         cache' = [l \in Locations |-> IF l \in S THEN Nowhere ELSE cache[l]], opened' = opened
  PROVE  cache' \in [Locations -> SessionIds \cup {Nowhere}] /\ CacheRight'
BY DEF SessionTypes, CacheRight

-----------------------------------------------------------------------------
LEMMA NavInitially == NavigationInit => NavIInv
<1> SUFFICES ASSUME NavigationInit PROVE NavIInv
  OBVIOUS
<1> USE NavigationAssumption DEF NavigationInit
<1>1. NoLoad \in LoadTypes /\ NoLoad.at = "over"
  BY PlaceOf DEF NoLoad, LoadTypes
<1>2. Resting \in LoopTypes /\ Resting.at = "off"
  BY DEF Resting, Loop, LoopTypes
<1>3. PlaceTypes /\ ClosingTypes /\ SessionTypes
  BY <1>1, <1>2 DEF PlaceTypes, ClosingTypes, SessionTypes
<1>4. CacheRight /\ LoadsRight
  BY <1>1 DEF CacheRight, LoadsRight
<1>5. QED
  BY <1>3, <1>4 DEF NavIInv, Background, CurrentIsPlace, ShownIsPlace

-----------------------------------------------------------------------------
(* loadPlace *)

(* A new load, of the place the page is at. *)
LEMMA LoadPlaceKeeps ==
  ASSUME NavIInv, LoadPlace(place), place # Nowhere, UNCHANGED <<place, sessions, handlers, typed, boot>>,
         hash' \in Links \cup {NoLink, Unknown}, dirty' \in BOOLEAN,
         ~dirty' /\ boot' = "up" /\ ~typed' => hash' \in {LinkOf(place), NoLink, Unknown}
  PROVE  NavIInv'
<1> USE DEF NavIInv, Background
<1> DEFINE g == navigation + 1
           new == [at |-> IF cache[place.location] = Nowhere THEN "opening" ELSE "listing",
                   place |-> place, attempt |-> 0, session |-> cache[place.location]]
<1>1. /\ g \in Generations /\ navigation' = g
      /\ shown' = Nowhere /\ entries' = Nowhere
      /\ loads' = [loads EXCEPT ![g] = new]
  BY DEF LoadPlace
<1>2. place \in Places /\ place.location \in Locations
  BY PlaceParts DEF PlaceTypes
<1>3. new \in LoadTypes
  BY <1>2 DEF LoadTypes, SessionTypes
<1>4. UNCHANGED <<opened, cache, closing>>
  BY DEF sessions, handlers
<1>5. /\ loads' \in [Generations -> LoadTypes] /\ loads'[g] = new
      /\ \A i \in Generations \ {g} : loads'[i] = loads[i]
  BY <1>1, <1>3 DEF SessionTypes
<1>6. SessionTypes' /\ CacheRight'
  BY <1>1, <1>4, <1>5 DEF SessionTypes, CacheRight
<1>7. LoadsRight'
  <2> SUFFICES ASSUME NEW i \in Generations, loads'[i].at \in {"listing", "waiting"}
               PROVE  /\ loads'[i].session # Nowhere
                      /\ opened'[loads'[i].session] = loads'[i].place.location
    BY DEF LoadsRight
  <2>1. CASE i = g
    BY <2>1, <1>2, <1>4, <1>5 DEF CacheRight
  <2>2. CASE i # g
    BY <2>2, <1>4, <1>5 DEF LoadsRight
  <2>3. QED
    BY <2>1, <2>2
<1>8. CurrentIsPlace'
  BY <1>1, <1>5 DEF CurrentIsPlace
<1>9. PlaceTypes' /\ ClosingTypes'
  BY <1>4 DEF PlaceTypes, ClosingTypes
<1>10. ShownIsPlace'
  BY <1>1 DEF ShownIsPlace, LinkOf
<1>11. QED
  BY <1>1, <1>6, <1>7, <1>8, <1>9, <1>10

(* A step of load g that ends it, or leaves it with a session of its location. *)
LEMMA LoadStepTypes ==
  ASSUME Background, NEW g \in Generations, UNCHANGED <<place, dirty, hash, navigation, opened, cache, closing>>,
         NEW new \in LoadTypes, loads' = [loads EXCEPT ![g] = new],
         new.at \in {"listing", "waiting"} => new.session # Nowhere /\ opened[new.session] = new.place.location
  PROVE  Background'
<1> USE DEF Background
<1>1. /\ loads' \in [Generations -> LoadTypes] /\ loads'[g] = new
      /\ \A i \in Generations \ {g} : loads'[i] = loads[i]
  BY DEF SessionTypes
<1>2. SessionTypes' /\ CacheRight' /\ PlaceTypes' /\ ClosingTypes'
  BY <1>1 DEF SessionTypes, CacheRight, PlaceTypes, ClosingTypes
<1>3. LoadsRight'
  BY <1>1 DEF LoadsRight
<1>4. QED
  BY <1>2, <1>3

LEMMA CurrentKept ==
  ASSUME Background, CurrentIsPlace, NEW g \in Generations, UNCHANGED <<place, dirty, navigation>>,
         NEW new \in LoadTypes, loads' = [loads EXCEPT ![g] = new],
         new.at # "over" => new.place = loads[g].place /\ loads[g].at # "over"
  PROVE  CurrentIsPlace'
<1>1. loads'[g] = new /\ \A i \in Generations \ {g} : loads'[i] = loads[i]
  BY DEF Background, SessionTypes
<1>2. QED
  BY <1>1 DEF CurrentIsPlace

LEMMA OpenedKeeps ==
  ASSUME NEW g \in Generations, NEW s \in SessionIds, NavIInv, Opened(g, s)
  PROVE  NavIInv'
<1> USE DEF NavIInv, Background
<1> DEFINE l == loads[g]
           new == [l EXCEPT !.at = "listing", !.session = s]
<1>1. /\ l.at = "opening" /\ Open(l.place.location, s)
      /\ loads' = [loads EXCEPT ![g].at = "listing", ![g].session = s]
      /\ UNCHANGED <<boot, screen, navigation, address, handlers>>
  BY DEF Opened
<1>2. l \in LoadTypes /\ l.place \in Places /\ l.place.location \in Locations
  BY PlaceParts DEF SessionTypes, LoadTypes
<1>3. /\ opened' \in [SessionIds -> Locations \cup {Nowhere}]
      /\ cache' \in [Locations -> SessionIds \cup {Nowhere}]
      /\ CacheRight' /\ opened'[s] = l.place.location
      /\ \A r \in SessionIds : opened[r] # Nowhere => opened'[r] = opened[r]
  BY <1>1, <1>2, OpenKeeps
<1>4. new \in LoadTypes /\ new.session = s /\ new.place = l.place /\ new.at = "listing"
  BY <1>2 DEF LoadTypes
<1>5. /\ loads' \in [Generations -> LoadTypes] /\ loads'[g] = new
      /\ \A i \in Generations \ {g} : loads'[i] = loads[i]
  BY <1>1, <1>4 DEF SessionTypes
<1>6. LoadsRight'
  <2> SUFFICES ASSUME NEW i \in Generations, loads'[i].at \in {"listing", "waiting"}
               PROVE  /\ loads'[i].session # Nowhere
                      /\ opened'[loads'[i].session] = loads'[i].place.location
    BY DEF LoadsRight
  <2>1. CASE i = g
    BY <2>1, <1>3, <1>4, <1>5, SessionsAreNumbers
  <2>2. CASE i # g
    <3>1. loads[i] \in LoadTypes /\ loads'[i] = loads[i]
      BY <2>2, <1>5 DEF SessionTypes
    <3>2. loads[i].session \in SessionIds /\ opened[loads[i].session] = loads[i].place.location
      BY <3>1 DEF LoadsRight, LoadTypes
    <3>3. loads[i].place.location # Nowhere
      BY <3>1, PlaceParts, SessionsAreNumbers DEF LoadTypes
    <3>4. QED
      BY <1>3, <3>1, <3>2, <3>3, SessionsAreNumbers
  <2>3. QED
    BY <2>1, <2>2
<1>7. Background'
  BY <1>1, <1>3, <1>5, <1>6 DEF SessionTypes, PlaceTypes, ClosingTypes, screen, address, handlers
<1>8. CurrentIsPlace'
  BY <1>1, <1>4, <1>5 DEF CurrentIsPlace, screen
<1>9. ASSUME place # Nowhere, ~dirty, shown # Nowhere PROVE opened'[shown] = place.location
  BY <1>3, <1>9, PlaceParts, SessionsAreNumbers DEF ShownIsPlace, PlaceTypes
<1>10. ShownIsPlace'
  BY <1>1, <1>9 DEF ShownIsPlace, LinkOf, screen, address
<1>11. QED
  BY <1>1, <1>7, <1>8, <1>10 DEF screen

(* The steps of a load that leave the screen and the sessions. *)
LEMMA LoadWaitsKeeps ==
  ASSUME NEW g \in Generations, NavIInv, ListGone(g) \/ ListBusy(g) \/ Wake(g)
  PROVE  NavIInv'
<1> USE DEF NavIInv
<1>1. loads[g] \in LoadTypes /\ loads[g].attempt \in Nat
  BY DEF Background, SessionTypes, LoadTypes
<1>2. UNCHANGED <<boot, screen, navigation, sessions, address, handlers>>
  BY DEF ListGone, ListBusy, Wake
<1>3. \E new \in LoadTypes :
        /\ loads' = [loads EXCEPT ![g] = new]
        /\ new.at # "over" => new.place = loads[g].place /\ loads[g].at # "over"
        /\ new.at \in {"listing", "waiting"} =>
             new.session = loads[g].session /\ loads[g].at \in {"listing", "waiting"}
  <2>1. CASE ListGone(g)
    <3> DEFINE new == [loads[g] EXCEPT !.at = "opening", !.attempt = 1]
    <3>1. new \in LoadTypes /\ new.at = "opening" /\ new.place = loads[g].place
      BY <1>1 DEF LoadTypes
    <3>2. loads' = [loads EXCEPT ![g] = new] /\ loads[g].at = "listing"
      BY <2>1 DEF ListGone, Background, SessionTypes
    <3>3. QED
      BY <3>1, <3>2
  <2>2. CASE ListBusy(g)
    <3> DEFINE new == [loads[g] EXCEPT !.at = "waiting"]
    <3>1. /\ new \in LoadTypes /\ new.at = "waiting" /\ new.place = loads[g].place
          /\ new.session = loads[g].session
      BY <1>1 DEF LoadTypes
    <3>2. loads' = [loads EXCEPT ![g] = new] /\ loads[g].at = "listing"
      BY <2>2 DEF ListBusy, Set, Background, SessionTypes
    <3>3. QED
      BY <3>1, <3>2
  <2>3. CASE Wake(g) /\ Current(g)
    <3> DEFINE more == loads[g].attempt + 1
               new == [loads[g] EXCEPT !.at = "listing", !.attempt = more]
    <3>1. /\ new \in LoadTypes /\ new.at = "listing" /\ new.place = loads[g].place
          /\ new.session = loads[g].session
      <4>1. more \in Nat
        BY <1>1
      <4> HIDE DEF more
      <4>2. QED
        BY <1>1, <4>1 DEF LoadTypes
    <3>2. loads' = [loads EXCEPT ![g] = new] /\ loads[g].at = "waiting"
      BY <2>3 DEF Wake, Background, SessionTypes
    <3>3. QED
      BY <3>1, <3>2
  <2>4. CASE Wake(g) /\ ~Current(g)
    <3>1. NoLoad \in LoadTypes /\ NoLoad.at = "over"
      BY PlaceOf, NavigationAssumption DEF NoLoad, LoadTypes
    <3>2. loads' = [loads EXCEPT ![g] = NoLoad]
      BY <2>4 DEF Wake, Over
    <3>3. QED
      BY <3>1, <3>2
  <2>5. QED
    BY <2>1, <2>2, <2>3, <2>4
<1>4. PICK new \in LoadTypes :
        /\ loads' = [loads EXCEPT ![g] = new]
        /\ new.at # "over" => new.place = loads[g].place /\ loads[g].at # "over"
        /\ new.at \in {"listing", "waiting"} =>
             new.session = loads[g].session /\ loads[g].at \in {"listing", "waiting"}
  BY <1>3
<1>5. new.at \in {"listing", "waiting"} => new.session # Nowhere /\ opened[new.session] = new.place.location
  BY <1>4 DEF Background, LoadsRight
<1>6. UNCHANGED <<place, dirty, hash, navigation, opened, cache, closing, shown, entries, typed>>
  BY <1>2 DEF screen, sessions, address, handlers
<1>7. Background'
  BY <1>4, <1>5, <1>6, LoadStepTypes
<1>8. CurrentIsPlace'
  BY <1>4, <1>6, CurrentKept
<1>9. ShownIsPlace'
  BY <1>2, <1>6 DEF ShownIsPlace, LinkOf
<1>10. QED
  BY <1>6, <1>7, <1>8, <1>9

(* The steps that end a load: its folder is shown if it is the youngest. *)
LEMMA LoadEndsKeeps ==
  ASSUME NEW g \in Generations, NavIInv, ListAnswered(g) \/ LoadFails(g)
  PROVE  NavIInv'
<1> USE DEF NavIInv
<1>1. NoLoad \in LoadTypes /\ NoLoad.at = "over"
  BY PlaceOf, NavigationAssumption DEF NoLoad, LoadTypes
<1>2. /\ loads' = [loads EXCEPT ![g] = NoLoad]
      /\ UNCHANGED <<place, dirty, hash, navigation, opened, cache, closing, typed, boot>>
  BY DEF ListAnswered, LoadFails, Over, sessions, address, handlers
<1>3. Background' /\ CurrentIsPlace'
  BY <1>1, <1>2, LoadStepTypes, CurrentKept
<1>4. CASE UNCHANGED <<shown, entries>>
  BY <1>2, <1>3, <1>4 DEF ShownIsPlace, LinkOf
<1>5. CASE ListAnswered(g) /\ Current(g)
  <2> DEFINE l == loads[g]
  <2>1. /\ l.at = "listing" /\ shown' = l.session
        /\ entries' = [place |-> l.place, session |-> l.session]
    BY <1>5 DEF ListAnswered
  <2>2. l \in LoadTypes /\ l.session # Nowhere /\ opened[l.session] = l.place.location
    BY <2>1 DEF Background, SessionTypes, LoadsRight
  <2>3. place # Nowhere /\ ~dirty => l.place = place
    BY <1>5, <2>1 DEF CurrentIsPlace, Current
  <2>4. ShownIsPlace'
    BY <1>2, <2>1, <2>2, <2>3 DEF ShownIsPlace, LinkOf
  <2>5. QED
    BY <1>3, <2>1, <2>2, <2>4 DEF LoadTypes
<1>6. QED
  BY <1>4, <1>5 DEF ListAnswered, LoadFails

LEMMA CommitKeeps == NavIInv /\ Commit => NavIInv'
<1> SUFFICES ASSUME NavIInv, Commit PROVE NavIInv'
  OBVIOUS
<1>1. CASE place = Nowhere
  <2>1. UNCHANGED <<place, shown, loads, navigation, hash, sessions, closing>> /\ dirty' = FALSE
    BY <1>1, SessionsAreNumbers DEF Commit, loader, handlers
  <2>2. Background'
    BY <2>1 DEF NavIInv, Background, PlaceTypes, ClosingTypes, SessionTypes, CacheRight, LoadsRight, sessions
  <2>3. QED
    BY <1>1, <2>1, <2>2, AwayKeeps
<1>2. CASE place # Nowhere
  <2>1. /\ LoadPlace(place) /\ UNCHANGED <<place, sessions, handlers, typed, boot>>
        /\ dirty' = FALSE /\ hash' = LinkOf(place)
    BY <1>2 DEF Commit, SyncLink
  <2>2. hash' \in Links \cup {NoLink}
    BY <2>1, LinkType DEF NavIInv, Background, PlaceTypes
  <2>3. QED
    BY <1>2, <2>1, <2>2, LoadPlaceKeeps
<1>3. QED
  BY <1>1, <1>2

-----------------------------------------------------------------------------
(* The gestures *)

(* The place and the screen may change; the sessions, the loads and the handlers stay. *)
LEMMA SameBackground ==
  ASSUME Background, place' \in Places \cup {Nowhere}, dirty' \in BOOLEAN,
         hash' \in Links \cup {NoLink, Unknown}, UNCHANGED <<opened, cache, navigation, loads>>, ClosingTypes'
  PROVE  Background'
BY DEF Background, PlaceTypes, SessionTypes, CacheRight, LoadsRight

LEMMA ChooseKeeps ==
  ASSUME NEW p \in Places PROVE NavIInv /\ Choose(p) => NavIInv'
<1> SUFFICES ASSUME NavIInv, Choose(p) PROVE NavIInv'
  OBVIOUS
<1>1. /\ place' = p /\ dirty' = TRUE /\ shown' = shown
      /\ UNCHANGED <<opened, cache, navigation, loads, hash, closing>>
  BY DEF Choose, GoTo, loader, sessions, address, handlers
<1>2. Background'
  BY <1>1, SameBackground DEF NavIInv, Background, PlaceTypes, ClosingTypes
<1>3. QED
  BY <1>1, <1>2, AwayKeeps

LEMMA RefreshKeeps == NavIInv /\ Refresh => NavIInv'
<1> SUFFICES ASSUME NavIInv, Refresh PROVE NavIInv'
  OBVIOUS
<1>1. /\ place # Nowhere /\ LoadPlace(place) /\ UNCHANGED <<place, dirty, sessions, hash, typed, handlers, boot>>
  BY DEF Refresh, address
<1>2. /\ hash \in Links \cup {NoLink, Unknown} /\ dirty \in BOOLEAN
      /\ ~dirty /\ boot = "up" /\ ~typed => hash \in {LinkOf(place), NoLink, Unknown}
  BY <1>1 DEF NavIInv, Background, PlaceTypes, ShownIsPlace
<1>3. QED
  BY <1>1, <1>2, LoadPlaceKeeps

LEMMA TypeHashKeeps ==
  ASSUME NEW h \in Links \cup {NoLink, Unknown} PROVE NavIInv /\ TypeHash(h) => NavIInv'
<1> SUFFICES ASSUME NavIInv, TypeHash(h) PROVE NavIInv'
  OBVIOUS
<1>1. /\ hash' = h /\ typed' = TRUE
      /\ UNCHANGED <<boot, place, dirty, shown, entries, navigation, loads, cache, opened, closing>>
  BY DEF TypeHash, screen, loader, sessions, handlers
<1>2. Background'
  BY <1>1, SameBackground DEF NavIInv, Background, PlaceTypes, ClosingTypes
<1>3. QED
  BY <1>1, <1>2 DEF NavIInv, CurrentIsPlace, ShownIsPlace

LEMMA LinksArePlaces == Links \subseteq Places
BY DEF Links

(* The page goes where its address says, or it says so already. *)
LEMMA AddressKeeps == NavIInv /\ (HashChange \/ Boot) => NavIInv'
<1> SUFFICES ASSUME NavIInv, HashChange \/ Boot PROVE NavIInv'
  OBVIOUS
<1>1. UNCHANGED <<shown, entries, navigation, loads, cache, opened, hash, closing>>
  BY DEF HashChange, Boot, loader, sessions, handlers, address
<1>2. \/ place' \in Places /\ dirty' = TRUE
      \/ UNCHANGED <<place, dirty>>
  BY LinksArePlaces, PlaceOf, NavigationAssumption DEF HashChange, Boot, GoTo, Stay, Known
<1>3. Background'
  BY <1>1, <1>2, SameBackground DEF NavIInv, Background, PlaceTypes, ClosingTypes
<1>4. CASE dirty'
  BY <1>1, <1>3, <1>4, AwayKeeps
<1>5. CASE ~dirty'
  <2>1. UNCHANGED <<place, dirty>>
    BY <1>2, <1>5
  <2>2. hash \in Links \cup {NoLink, Unknown}
    BY DEF NavIInv, Background, PlaceTypes
  <2>3. CASE HashChange
    <3>1. boot' = boot /\ (Known => hash = LinkOf(place))
      BY <1>5, <2>3 DEF HashChange, GoTo
    <3>2. boot' = "up" => hash' \in {LinkOf(place'), NoLink, Unknown}
      BY <1>1, <2>1, <2>2, <3>1 DEF Known
    <3>3. ShownIsPlace'
      BY <1>1, <2>1, <3>2 DEF NavIInv, ShownIsPlace
    <3>4. QED
      BY <1>1, <1>3, <2>1, <3>3 DEF NavIInv, CurrentIsPlace
  <2>4. CASE Boot
    <3>1. hash = LinkOf(place)
      BY <1>5, <2>4 DEF Boot, GoTo
    <3>2. ShownIsPlace'
      BY <1>1, <2>1, <3>1 DEF NavIInv, ShownIsPlace
    <3>3. QED
      BY <1>1, <1>3, <2>1, <3>2 DEF NavIInv, CurrentIsPlace
  <2>5. QED
    BY <2>3, <2>4
<1>6. QED
  BY <1>4, <1>5

(* Disconnected or not, and the place of a host or a connection that is left. *)
LEMMA DisconnectKeeps == NavIInv /\ (Disconnect \/ Disconnected) => NavIInv'
<1> SUFFICES ASSUME NavIInv, Disconnect \/ Disconnected PROVE NavIInv'
  OBVIOUS
<1>1. UNCHANGED <<boot, opened, navigation, loads, closing, typed>> /\ hash' \in {hash, NoLink}
  BY DEF Disconnect, Disconnected, loader
<1>2. ClosingTypes'
  BY <1>1 DEF NavIInv, Background, ClosingTypes
<1>3. /\ cache' \in [Locations -> SessionIds \cup {Nowhere}]
      /\ CacheRight'
  BY <1>1 DEF Disconnect, Disconnected, NavIInv, Background, SessionTypes, CacheRight
<1>4. \/ place' = Nowhere /\ dirty' = TRUE /\ shown' = Nowhere
      \/ UNCHANGED screen
  BY DEF Disconnect, Disconnected, Leave
<1>5. Background'
  BY <1>1, <1>2, <1>3, <1>4 DEF NavIInv, Background, PlaceTypes, SessionTypes, LoadsRight, screen
<1>6. CASE place' = Nowhere /\ dirty' = TRUE /\ shown' = Nowhere
  BY <1>5, <1>6, AwayKeeps
<1>7. CASE UNCHANGED screen
  BY <1>1, <1>5, <1>7, StayKeeps DEF loader
<1>8. QED
  BY <1>4, <1>6, <1>7

-----------------------------------------------------------------------------
(* Hosts and the cloud connection *)

LEMMA ClosingKeeps ==
  ASSUME ClosingTypes, NEW h \in Hosts, NEW new \in LoopTypes,
         new.at = "opening" => new.then.on \in Locations,
         closing' = [closing EXCEPT ![h] = new]
  PROVE  ClosingTypes'
BY DEF ClosingTypes

LEMMA RestingType == Resting \in LoopTypes /\ Resting.at = "off"
BY DEF Resting, Loop, LoopTypes

(* The steps of a host that only move its loop. *)
LEMMA LoopMoves ==
  ASSUME NEW h \in Hosts, ClosingTypes,
         \/ \E l \in Locations \cup {Nowhere} : MapDevice(h, l)
         \/ \E l \in Locations : CloseNext(h, l)
         \/ SharesAnswered(h) \/ Unmount(h) \/ Forgotten(h) \/ MapOpens(h)
  PROVE  ClosingTypes'
<1> DEFINE old == closing[h]
<1>1. old \in LoopTypes /\ DOMAIN closing = Hosts /\ (old.at # "off" => old \in BusyLoops)
  BY RestingType DEF ClosingTypes, LoopTypes
<1>2. ASSUME NEW new \in BusyLoops, new.at # "opening", closing' = [closing EXCEPT ![h] = new]
      PROVE  ClosingTypes'
  BY <1>2, ClosingKeeps DEF LoopTypes
<1>3. ASSUME NEW l \in Locations \cup {Nowhere}, MapDevice(h, l) PROVE ClosingTypes'
  <2> DEFINE new == Loop(IF l = Nowhere THEN "asking" ELSE "next", Nowhere, Job("map", l))
  <2>1. new \in BusyLoops /\ new.at # "opening"
    BY DEF Loop, Job, BusyLoops, ThenTypes
  <2>2. closing' = [closing EXCEPT ![h] = new]
    BY <1>3 DEF MapDevice
  <2>3. QED
    BY <2>1, <2>2, <1>2
<1>4. ASSUME NEW l \in Locations, CloseNext(h, l) PROVE ClosingTypes'
  <2> DEFINE new == [old EXCEPT !.at = "deleting", !.on = l]
  <2>1. closing' = [closing EXCEPT ![h] = new] /\ old \in BusyLoops
    BY <1>1, <1>4 DEF CloseNext
  <2>2. new \in BusyLoops /\ new.at # "opening"
    BY <2>1 DEF BusyLoops
  <2>3. QED
    BY <2>1, <2>2, <1>2
<1>5. CASE SharesAnswered(h)
  <2> DEFINE new == [old EXCEPT !.at = "next"]
  <2>1. closing' = [closing EXCEPT ![h] = new] /\ old \in BusyLoops
    BY <1>1, <1>5 DEF SharesAnswered
  <2>2. new \in BusyLoops /\ new.at # "opening"
    BY <2>1 DEF BusyLoops
  <2>3. QED
    BY <2>1, <2>2, <1>2
<1>6. CASE Unmount(h)
  <2> DEFINE new == Loop("next", Nowhere, Job("unmount", Nowhere))
  <2>1. new \in BusyLoops /\ new.at # "opening"
    BY DEF Loop, Job, BusyLoops, ThenTypes
  <2>2. closing' = [closing EXCEPT ![h] = new]
    BY <1>6 DEF Unmount
  <2>3. QED
    BY <2>1, <2>2, <1>2
<1>7. CASE Forgotten(h)
  <2> DEFINE new == [old EXCEPT !.at = "next", !.on = Nowhere]
  <2>1. closing' = [closing EXCEPT ![h] = new] /\ old \in BusyLoops
    BY <1>1, <1>7 DEF Forgotten
  <2>2. new \in BusyLoops /\ new.at # "opening"
    BY <2>1 DEF BusyLoops
  <2>3. QED
    BY <2>1, <2>2, <1>2
<1>8. CASE MapOpens(h)
  <2> DEFINE new == [old EXCEPT !.at = "opening"]
  <2>1. closing' = [closing EXCEPT ![h] = new] /\ old \in BusyLoops /\ old.then.on # Nowhere
    BY <1>1, <1>8 DEF MapOpens
  <2>2. new \in LoopTypes /\ new.then.on \in Locations
    BY <2>1 DEF BusyLoops, LoopTypes, ThenTypes
  <2>3. QED
    BY <2>1, <2>2, ClosingKeeps
<1>9. QED
  BY <1>3, <1>4, <1>5, <1>6, <1>7, <1>8

(* A loop that ends. *)
LEMMA LoopEnds ==
  ASSUME NEW h \in Hosts, ClosingTypes, closing' = [closing EXCEPT ![h] = Resting]
  PROVE  ClosingTypes'
BY ClosingKeeps, RestingType

(* What is kept for a location is forgotten. *)
LEMMA CacheForgets ==
  ASSUME SessionTypes, CacheRight, NEW l, cache' = [cache EXCEPT ![l] = Nowhere], opened' = opened
  PROVE  cache' \in [Locations -> SessionIds \cup {Nowhere}] /\ CacheRight'
BY DEF SessionTypes, CacheRight

(* Handlers that leave the page where it is and open no session. *)
LEMMA SideKeeps ==
  ASSUME NavIInv, ClosingTypes', UNCHANGED <<screen, loader, opened, address>>, boot' \in {boot, "failed"},
         cache' = cache \/ \E l : cache' = [cache EXCEPT ![l] = Nowhere]
  PROVE  NavIInv'
<1>1. cache' \in [Locations -> SessionIds \cup {Nowhere}] /\ CacheRight'
  <2>1. CASE cache' = cache
    BY <2>1 DEF NavIInv, Background, SessionTypes, CacheRight
  <2>2. CASE \E l : cache' = [cache EXCEPT ![l] = Nowhere]
    BY <2>2, CacheForgets DEF NavIInv, Background
  <2>3. QED
    BY <2>1, <2>2
<1>2. Background'
  BY <1>1 DEF NavIInv, Background, PlaceTypes, SessionTypes, LoadsRight, screen, loader, address
<1>3. QED
  BY <1>2, StayKeeps DEF address

(* A session is opened for a place, and the page goes there. *)
LEMMA OpenGoesKeeps ==
  ASSUME NavIInv, ClosingTypes', NEW l \in Locations, NEW s \in SessionIds, Open(l, s),
         GoTo(At(l, Top)), UNCHANGED <<shown, entries, loading, failed, loader, address>>
  PROVE  NavIInv'
<1>1. /\ opened' \in [SessionIds -> Locations \cup {Nowhere}]
      /\ cache' \in [Locations -> SessionIds \cup {Nowhere}]
      /\ CacheRight'
      /\ \A r \in SessionIds : opened[r] # Nowhere => opened'[r] = opened[r]
  BY OpenKeeps DEF NavIInv, Background
<1>2. LoadsRight'
  BY <1>1, LoadsStayRight DEF NavIInv, Background, loader
<1>3. PlaceTypes' /\ SessionTypes'
  BY <1>1, PlaceOf DEF NavIInv, Background, PlaceTypes, SessionTypes, GoTo, loader, address
<1>4. QED
  BY <1>1, <1>2, <1>3, AwayKeeps DEF Background, GoTo

(* A host or a connection is gone, and its place is left. *)
LEMMA LeaveKeeps ==
  ASSUME NavIInv, ClosingTypes', UNCHANGED <<boot, loader, opened, address>>,
         Leave \/ UNCHANGED screen,
         cache' = cache \/ \E l : cache' = [cache EXCEPT ![l] = Nowhere]
  PROVE  NavIInv'
<1>1. CASE UNCHANGED screen
  BY <1>1, SideKeeps
<1>2. CASE Leave
  <2>1. cache' \in [Locations -> SessionIds \cup {Nowhere}] /\ CacheRight'
    <3>1. CASE cache' = cache
      BY <3>1 DEF NavIInv, Background, SessionTypes, CacheRight
    <3>2. CASE \E l : cache' = [cache EXCEPT ![l] = Nowhere]
      BY <3>2, CacheForgets DEF NavIInv, Background
    <3>3. QED
      BY <3>1, <3>2
  <2>2. Background'
    BY <1>2, <2>1 DEF NavIInv, Background, PlaceTypes, SessionTypes, LoadsRight, Leave, loader, address
  <2>3. QED
    BY <1>2, <2>2, AwayKeeps DEF Leave
<1>3. QED
  BY <1>1, <1>2

LEMMA HostAnswerKeeps ==
  ASSUME NEW h \in Hosts PROVE NavIInv /\ HostAnswer(h) => NavIInv'
<1> SUFFICES ASSUME NavIInv, HostAnswer(h) PROVE NavIInv'
  OBVIOUS
<1>1. ClosingTypes
  BY DEF NavIInv, Background
<1>2. ASSUME NEW l \in Locations, CloseNext(h, l) PROVE NavIInv'
  <2>1. ClosingTypes'
    BY <1>1, <1>2, LoopMoves
  <2>2. UNCHANGED <<screen, loader, opened, address, boot, cache>>
    BY <1>2 DEF CloseNext
  <2>3. QED
    BY <2>1, <2>2, SideKeeps
<1>3. CASE SharesAnswered(h) \/ Forgotten(h) \/ MapOpens(h)
  <2>1. ClosingTypes'
    BY <1>1, <1>3, LoopMoves
  <2>2. /\ UNCHANGED <<screen, loader, opened, address, boot>>
        /\ cache' = cache \/ cache' = [cache EXCEPT ![closing[h].on] = Nowhere]
    BY <1>3 DEF SharesAnswered, Forgotten, MapOpens, sessions
  <2>3. QED
    BY <2>1, <2>2, SideKeeps
<1>4. CASE Unmounted(h)
  <2>1. ClosingTypes'
    BY <1>1, <1>4, LoopEnds DEF Unmounted
  <2>2. UNCHANGED <<boot, loader, opened, address, cache>> /\ (Leave \/ UNCHANGED screen)
    BY <1>4 DEF Unmounted, sessions
  <2>3. QED
    BY <2>1, <2>2, LeaveKeeps
<1>5. CASE MapListed(h) \/ MapFails(h)
  <2>1. ClosingTypes'
    BY <1>1, <1>5, LoopEnds DEF MapListed, MapFails
  <2>2. UNCHANGED <<screen, loader, opened, address, boot, cache>>
    BY <1>5 DEF MapListed, MapFails, sessions
  <2>3. QED
    BY <2>1, <2>2, SideKeeps
<1>6. ASSUME NEW s \in SessionIds, MapOpened(h, s) PROVE NavIInv'
  <2> DEFINE l == closing[h].then.on
  <2>1. /\ Open(l, s) /\ GoTo(At(l, Top)) /\ l \in Locations
        /\ UNCHANGED <<shown, entries, loading, failed, loader, address>>
    BY <1>1, <1>6 DEF MapOpened, ClosingTypes
  <2>2. ClosingTypes'
    BY <1>1, <1>6, LoopEnds DEF MapOpened
  <2>3. QED
    BY <2>1, <2>2, OpenGoesKeeps
<1>7. QED
  BY <1>2, <1>3, <1>4, <1>5, <1>6 DEF HostAnswer

LEMMA CloudAnswerKeeps == NavIInv /\ CloudAnswer => NavIInv'
<1> SUFFICES ASSUME NavIInv, CloudAnswer PROVE NavIInv'
  OBVIOUS
<1>1. closing' = closing
  BY DEF CloudAnswer, CloudSaved, CloudConnected, CloudFails, CloudForgotten
<1>2. ClosingTypes'
  BY <1>1 DEF NavIInv, Background, ClosingTypes
<1>3. CASE CloudSaved \/ CloudFails
  BY <1>2, <1>3, SideKeeps DEF CloudSaved, CloudFails, sessions
<1>4. ASSUME NEW s \in SessionIds, CloudConnected(s) PROVE NavIInv'
  <2>1. /\ Open(Cloud, s) /\ GoTo(At(Cloud, Top)) /\ Cloud \in Locations
        /\ UNCHANGED <<shown, entries, loading, failed, loader, address>>
    BY <1>4, NavigationAssumption DEF CloudConnected
  <2>2. QED
    BY <1>2, <2>1, OpenGoesKeeps
<1>5. CASE CloudForgotten
  BY <1>2, <1>5, LeaveKeeps DEF CloudForgotten
<1>6. QED
  BY <1>3, <1>4, <1>5 DEF CloudAnswer

LEMMA QuietKeeps ==
  NavIInv /\ (SaveCloud \/ ForgetCloud \/ DisconnectRefused \/ BootFails \/ \E s \in SessionIds : Expire(s))
    => NavIInv'
<1> SUFFICES ASSUME NavIInv,
                    SaveCloud \/ ForgetCloud \/ DisconnectRefused \/ BootFails \/ \E s \in SessionIds : Expire(s)
             PROVE  NavIInv'
  OBVIOUS
<1>1. UNCHANGED <<screen, loader, opened, cache, address, closing>> /\ boot' \in {boot, "failed"}
  BY DEF SaveCloud, ForgetCloud, DisconnectRefused, BootFails, Expire, sessions, handlers
<1>2. ClosingTypes'
  BY <1>1 DEF NavIInv, Background, ClosingTypes
<1>3. QED
  BY <1>1, <1>2, SideKeeps

LEMMA HostGestureKeeps ==
  ASSUME NEW h \in Hosts, NavIInv, Unmount(h) \/ \E l \in Locations \cup {Nowhere} : MapDevice(h, l)
  PROVE  NavIInv'
<1>1. ClosingTypes'
  BY LoopMoves DEF NavIInv, Background
<1>2. UNCHANGED <<screen, loader, opened, cache, address, boot>>
  BY DEF Unmount, MapDevice, sessions
<1>3. QED
  BY <1>1, <1>2, SideKeeps

-----------------------------------------------------------------------------
LEMMA GestureKeeps == NavIInv /\ NavigationGesture => NavIInv'
<1> SUFFICES ASSUME NavIInv, NavigationGesture PROVE NavIInv'
  OBVIOUS
<1> USE NavigationAssumption
<1>1. ASSUME NEW l \in Locations, Choose(At(l, Top)) PROVE NavIInv'
  BY <1>1, PlaceOf, ChooseKeeps
<1>2. CASE RailGesture
  BY <1>1, <1>2, HostGestureKeeps DEF RailGesture, OpenShare
<1>3. ASSUME NEW l \in Locations, AddLocation(l) PROVE NavIInv'
  <2>1. CASE HostOf[l] = Nowhere
    BY <1>1, <1>3, <2>1 DEF AddLocation
  <2>2. CASE HostOf[l] # Nowhere
    <3>1. HostOf[l] \in Hosts
      BY <2>2
    <3>2. QED
      BY <1>3, <2>2, <3>1, HostGestureKeeps DEF AddLocation
  <2>3. QED
    BY <2>1, <2>2
<1>4. CASE PanelGesture
  BY <1>3, <1>4, QuietKeeps DEF PanelGesture
<1>5. CASE UpOne
  <2>1. place \in Places /\ Choose(At(place.location, Top)) /\ place.location \in Locations
    BY <1>5, PlaceParts DEF UpOne, NavIInv, Background, PlaceTypes
  <2>2. QED
    BY <2>1, <1>1
<1>6. CASE ToolbarGesture
  BY <1>5, <1>6, ChooseKeeps, RefreshKeeps, DisconnectKeeps DEF ToolbarGesture
<1>7. CASE \E h \in Links \cup {NoLink, Unknown} : TypeHash(h)
  BY <1>7, TypeHashKeeps
<1>8. QED
  BY <1>2, <1>4, <1>6, <1>7 DEF NavigationGesture

LEMMA NavStepKeeps == NavIInv /\ [NavigationNext]_navigationVars => NavIInv'
<1> SUFFICES ASSUME NavIInv, [NavigationNext]_navigationVars PROVE NavIInv'
  OBVIOUS
<1>1. CASE NavigationGesture
  BY <1>1, GestureKeeps
<1>2. CASE Commit \/ HashChange \/ Boot
  BY <1>2, CommitKeeps, AddressKeeps
<1>3. ASSUME NEW g \in Generations, LoadAnswer(g) PROVE NavIInv'
  BY <1>3, OpenedKeeps, LoadWaitsKeeps, LoadEndsKeeps DEF LoadAnswer
<1>4. CASE Disconnected \/ \E h \in Hosts : HostAnswer(h)
  BY <1>4, DisconnectKeeps, HostAnswerKeeps
<1>5. CASE CloudAnswer
  BY <1>5, CloudAnswerKeeps
<1>6. CASE DisconnectRefused \/ BootFails \/ \E s \in SessionIds : Expire(s)
  BY <1>6, QuietKeeps
<1>7. CASE UNCHANGED navigationVars
  <2>1. UNCHANGED <<screen, loader, opened, cache, address, closing, boot>>
    BY <1>7 DEF navigationVars, sessions, handlers
  <2>2. ClosingTypes'
    BY <2>1 DEF NavIInv, Background, ClosingTypes
  <2>3. QED
    BY <2>1, <2>2, SideKeeps
<1>8. QED
  BY <1>1, <1>2, <1>3, <1>4, <1>5, <1>6, <1>7 DEF NavigationNext

-----------------------------------------------------------------------------
(* What the page shows is of one place: its listing was read from it, and  *)
(* through a session that was opened for its location; its address says so *)
(* too, or nothing (manager.js:97-111, 432-437, 1332-1362).                *)
THEOREM ShownIsPlaceCorrect == NavigationSpec => []ShownIsPlace
<1>1. NavigationInit => NavIInv
  BY NavInitially
<1>2. NavIInv /\ [NavigationNext]_navigationVars => NavIInv'
  BY NavStepKeeps
<1>3. NavIInv => ShownIsPlace
  BY DEF NavIInv
<1>4. QED
  BY <1>1, <1>2, <1>3, PTL DEF NavigationSpec

(* The session kept for a location, which the next load of a place of it   *)
(* takes, was opened for that location (manager.js:1341-1345).             *)
THEOREM CacheCorrect == NavigationSpec => []CacheRight
<1>1. NavigationInit => NavIInv
  BY NavInitially
<1>2. NavIInv /\ [NavigationNext]_navigationVars => NavIInv'
  BY NavStepKeeps
<1>3. NavIInv => CacheRight
  BY DEF NavIInv, Background
<1>4. QED
  BY <1>1, <1>2, <1>3, PTL DEF NavigationSpec
=============================================================================
