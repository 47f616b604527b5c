--------------------------- MODULE ManagerShortlist ---------------------------
(***************************************************************************)
(* The lists that the manager page (web/manager.js) keeps a copy of: the   *)
(* shortlist, the saved credentials, the cloud connections and the mounts. *)
(* Every gesture writes to the service and then reads its lists anew; two  *)
(* of them may be under way at once, and the page reads the mounts again   *)
(* every five seconds while it shows any.                                  *)
(*                                                                         *)
(* A GET is two steps, as the answer is older than the moment it arrives:  *)
(* the service reads its list, and the page applies what was read.         *)
(*                                                                         *)
(* Abstracted: labels, letters and options; no other page of the owner     *)
(* writes; the session a mount is made through.                            *)
(***************************************************************************)
EXTENDS Integers

CONSTANTS
  Pinnable,     \* places that can be on the shortlist
  Accounts,     \* hosts that can have saved credentials
  Remotes,      \* cloud connections
  Mountables,   \* places that can be mounted
  Handlers,        \* bound: gestures under way
  MaxClicks,    \* bound: gestures
  Unread        \* a list that the service has not answered yet

(* The helper is no list: it says whether the computer can mount, {} when the page does not know. *)
ListNames == {"pins", "creds", "remotes", "mounts", "helper"}
Helpers == {{"ready"}, {"installable"}, {"missing"}}
Answers == {{"pins"}, {"creds"}, {"remotes"}, {"mounts", "helper"}}

ASSUME ShortlistAssumption == MaxClicks \in Nat /\ Handlers \subseteq STRING \ {"poll"}

VARIABLES
  clicks,       \* gestures so far
  kept,         \* kept[name]: what the service has
  uploading,    \* mounts of the service with uploads to finish
  onPage,       \* onPage[name]: state.pins, creds, cloudRemotes, mountInfo
  known,        \* hosts of state.mapped with a credential_id
  handler,      \* handler[k]: a handler that waits, what for, and what it has read
  tainted       \* history: lists whose last reload failed, or was not alone since its handler began,
                \*   or that a failed write has changed and nobody has read since

shortlistVars == <<clicks, kept, uploading, onPage, known, handler, tainted>>

Nothing == [name \in ListNames |-> Unread]
Task(op, item, at) == [op |-> op, item |-> item, at |-> at, got |-> Nothing, alone |-> TRUE]
Rest == Task("none", Unread, "off")

(* What is read again at the end of a handler. *)
Reads(op) ==
  CASE op \in {"pin", "unpin", "store", "forgetCreds"} -> {"pins", "creds"}
    [] op \in {"saveCloud", "forgetCloud", "pickCloud"} -> {"remotes"}
    [] op \in {"mount", "install", "eject", "poll"} -> {"mounts", "helper"}
    [] OTHER -> {}

Using(name) == {k \in Handlers : name \in Reads(handler[k].op)}
Rivals(op) == UNION {Using(name) : name \in Reads(op)}

ShortlistInit ==
  /\ clicks = 0
  /\ kept \in [ListNames -> {{}} \cup Helpers] /\ kept["helper"] \in Helpers
  /\ \A name \in ListNames \ {"helper"} : kept[name] = {}
  /\ uploading = {} /\ onPage = kept /\ known = {}
  /\ handler = [k \in Handlers \cup {"poll"} |-> Rest] /\ tainted = {}

(* A handler begins, alone unless another one of its lists is under way. *)
Start(op, item, at) ==
  /\ clicks < MaxClicks /\ clicks' = clicks + 1
  /\ \E k \in Handlers :
       /\ handler[k] = Rest
       /\ handler' = [i \in DOMAIN handler |->
            IF i = k THEN [Task(op, item, at) EXCEPT !.alone = Rivals(op) = {}]
            ELSE [handler[i] EXCEPT !.alone = @ /\ i \notin Rivals(op)]]
  /\ UNCHANGED <<kept, uploading, onPage, known, tainted>>

To(k, at) == handler' = [handler EXCEPT ![k].at = at]
Ends(k) == handler' = [handler EXCEPT ![k] = Rest]

-----------------------------------------------------------------------------
(* The gestures *)

(* The star of a folder: what the page shows decides whether it pins or forgets. *)
Pinned(p) == p \in onPage["pins"]
Star(p) == Start(IF Pinned(p) THEN "unpin" ELSE "pin", p, "sent")

(* Forget, of a row of the shortlist or of its menu. *)
Unpin(p) == Pinned(p) /\ Start("unpin", p, "sent")

(* Mapping a host with "store" saves its credentials first. *)
StoreCredentials(h) == Start("store", h, "sent")

(* Without a credential_id there is nothing to delete. *)
ForgetCreds(h) == Start("forgetCreds", h, IF h \in known THEN "sent" ELSE "reading")

SaveRemote(r) ==
  /\ \A k \in Handlers : handler[k].op # "saveCloud"
  /\ Start("saveCloud", r, "sent")

ForgetRemote(r) == r \in onPage["remotes"] /\ Start("forgetCloud", r, "sent")
PickCloud == Start("pickCloud", Unread, "reading")

(* Mount on this computer: the name is asked, or WinFsp is offered first. *)
MountFolder(p) ==
  /\ onPage["helper"] # {}
  /\ \/ onPage["helper"] = {"ready"} /\ Start("mount", p, "naming")
     \/ onPage["helper"] = {"installable"} /\ Start("install", p, "agreeing")

(* The dialogs. *)
Agreed(k) ==
  /\ \/ handler[k].at \in {"naming", "agreeing"} /\ To(k, "sent")
     \/ handler[k].at = "warned" /\ To(k, "forced")
  /\ UNCHANGED <<clicks, kept, uploading, onPage, known, tainted>>

Cancelled(k) ==
  /\ handler[k].at \in {"naming", "agreeing", "warned"}
  /\ Ends(k)
  /\ UNCHANGED <<clicks, kept, uploading, onPage, known, tainted>>

UnmountFolder(p) == p \in onPage["mounts"] /\ Start("eject", p, "sent")

-----------------------------------------------------------------------------
(* The writes *)

Added(k, name) ==
  kept' = [kept EXCEPT ![name] = @ \cup {handler[k].item}] /\ UNCHANGED uploading
Dropped(k, name) ==
  /\ handler[k].item \in kept[name]
  /\ kept' = [kept EXCEPT ![name] = @ \ {handler[k].item}]
  /\ uploading' = uploading \ {handler[k].item}

\* Mutant of Then: a pin that is forgotten is not read again.
ThenOver(k) == IF handler[k].op = "unpin" THEN Ends(k) ELSE To(k, "reading")

(* What follows a write that has succeeded. *)
Then(k) == To(k, "reading")

(* What the service changes for a request. *)
Written(k) ==
  \/ handler[k].op = "pin"         /\ Added(k, "pins")
  \/ handler[k].op = "unpin"       /\ Dropped(k, "pins")
  \/ handler[k].op = "store"       /\ Added(k, "creds")
  \/ handler[k].op = "forgetCreds" /\ Dropped(k, "creds")
  \/ handler[k].op = "saveCloud"   /\ Added(k, "remotes")
  \/ handler[k].op = "forgetCloud" /\ Dropped(k, "remotes")
  \/ handler[k].op = "mount"       /\ Added(k, "mounts")
  \/ handler[k].op = "install"     /\ UNCHANGED uploading
       /\ kept' \in {kept, [kept EXCEPT !["helper"] = {"ready"}]}
  \/ handler[k].op = "eject"       /\ Dropped(k, "mounts")

(* The service has done what it was asked. *)
Served(k) ==
  /\ handler[k].at = "sent"
  /\ handler[k].op = "eject" => handler[k].item \notin uploading
  /\ Written(k)
  /\ known' = IF handler[k].op = "forgetCreds" THEN known \ {handler[k].item} ELSE known
  /\ Then(k)
  /\ UNCHANGED <<clicks, onPage, tainted>>

(* A mount with uploads to finish is not ejected: the user is warned ... *)
EjectRefused(k) ==
  /\ handler[k].at = "sent" /\ handler[k].op = "eject" /\ handler[k].item \in uploading
  /\ To(k, "warned")
  /\ UNCHANGED <<clicks, kept, uploading, onPage, known, tainted>>

(* ... and may eject it anyway. *)
EjectForced(k) ==
  /\ handler[k].at = "forced"
  /\ Dropped(k, "mounts") /\ To(k, "reading")
  /\ UNCHANGED <<clicks, onPage, known, tainted>>

(* The request fails: nothing is written, or the list is changed before save raises (store.py 96,
   111, 149; remotes.py 135, 143) or the answer gets lost. Only saveCloud reads its list all the same. *)
WriteFails(k) ==
  /\ handler[k].at \in {"sent", "forced"}
  /\ Written(k) \/ UNCHANGED <<kept, uploading>>
  /\ \/ handler[k].op = "saveCloud" /\ To(k, "reading") /\ UNCHANGED tainted
     \/ /\ handler[k].op # "saveCloud" /\ Ends(k)
        /\ tainted' = tainted \cup {name \in ListNames : kept'[name] # kept[name]}
  /\ UNCHANGED <<clicks, onPage, known>>

-----------------------------------------------------------------------------
(* reloadSaved, reloadRemotes and reloadMounts *)

(* GET: the service reads a list; mounts and helper are one answer. *)
ReadServed(k, lists) ==
  /\ handler[k].at = "reading"
  /\ lists \subseteq Reads(handler[k].op) /\ \A name \in lists : handler[k].got[name] = Unread
  /\ handler' = [handler EXCEPT ![k].got = [name \in ListNames |-> IF name \in lists THEN kept[name] ELSE @[name]]]
  /\ UNCHANGED <<clicks, kept, uploading, onPage, known, tainted>>

Read(k) == handler[k].at = "reading" /\ \A name \in Reads(handler[k].op) : handler[k].got[name] # Unread

(* All of them have arrived: they replace what the page shows. *)
Reloaded(k) ==
  LET lists == Reads(handler[k].op)
  IN  /\ Read(k)
      /\ onPage' = [name \in ListNames |-> IF name \in lists THEN handler[k].got[name] ELSE onPage[name]]
      /\ known' = IF handler[k].op = "store" THEN known \cup {handler[k].item} ELSE known
      /\ tainted' = IF handler[k].alone THEN tainted \ lists ELSE tainted \cup lists
      /\ IF handler[k].op = "install" /\ onPage'["helper"] = {"ready"}
           THEN handler' = [handler EXCEPT ![k] = Task("mount", handler[k].item, "naming")]
           ELSE Ends(k)
      /\ UNCHANGED <<clicks, kept, uploading>>

(* One has failed: nothing is replaced, but for the mounts, which are taken for disabled. *)
ReloadFails(k) ==
  LET lists == Reads(handler[k].op)
  IN  /\ handler[k].at = "reading"
      /\ onPage' = [name \in ListNames |-> IF name \in lists \cap {"mounts", "helper"} THEN {} ELSE onPage[name]]
      /\ tainted' = tainted \cup lists
      /\ Ends(k)
      /\ UNCHANGED <<clicks, kept, uploading, known>>

\* Mutant of PollMounts: the mounts are read again only while one of them uploads.
PollMountsUploading ==
  /\ onPage["mounts"] # {} /\ uploading # {} /\ handler["poll"] = Rest
  /\ handler' = [handler EXCEPT !["poll"] = Task("poll", Unread, "reading")]
  /\ UNCHANGED <<clicks, kept, uploading, onPage, known, tainted>>

(* The timer of componentDidMount. *)
PollMounts ==
  /\ onPage["mounts"] # {} /\ handler["poll"] = Rest
  /\ handler' = [handler EXCEPT !["poll"] = Task("poll", Unread, "reading")]
  /\ UNCHANGED <<clicks, kept, uploading, onPage, known, tainted>>

(* The files of a mount are written, and uploaded. *)
Uploads(m) ==
  /\ m \in kept["mounts"]
  /\ uploading' = IF m \in uploading THEN uploading \ {m} ELSE uploading \cup {m}
  /\ UNCHANGED <<clicks, kept, onPage, known, handler, tainted>>

-----------------------------------------------------------------------------
ShortlistGesture ==
  \/ \E p \in Pinnable : Star(p) \/ Unpin(p)
  \/ \E h \in Accounts : StoreCredentials(h) \/ ForgetCreds(h)
  \/ \E r \in Remotes : SaveRemote(r) \/ ForgetRemote(r)
  \/ PickCloud
  \/ \E m \in Mountables : MountFolder(m) \/ UnmountFolder(m)

Reload(k) == (\E lists \in Answers : ReadServed(k, lists)) \/ Reloaded(k) \/ ReloadFails(k)
ShortlistAnswer(k) == Served(k) \/ EjectRefused(k) \/ EjectForced(k) \/ WriteFails(k) \/ Reload(k)

ShortlistNext ==
  \/ ShortlistGesture
  \/ \E k \in Handlers : Agreed(k) \/ Cancelled(k) \/ ShortlistAnswer(k)
  \/ PollMounts \/ Reload("poll")
  \/ \E m \in Mountables : Uploads(m)

(* The service answers every request and the timer goes on. *)
ShortlistFairness ==
  /\ \A k \in Handlers : WF_shortlistVars(ShortlistAnswer(k))
  /\ WF_shortlistVars(PollMounts) /\ WF_shortlistVars(Reload("poll"))

ShortlistSpec == ShortlistInit /\ [][ShortlistNext]_shortlistVars /\ ShortlistFairness

-----------------------------------------------------------------------------
(* When no handler is under way the page shows the shortlist, the          *)
(* credentials and the connections that the service has: every write that  *)
(* succeeds, and saveCloud also when one of its steps fails, is followed   *)
(* by a read (483-488, 620-627, 1364-1475). It need not after a reload     *)
(* that failed or overlapped with another handler, nor when a write failed *)
(* after it changed the list: none of the others reads then.               *)
ListsFollow ==
  \A name \in {"pins", "creds", "remotes"} \ tainted :
    Using(name) = {} => onPage[name] = kept[name]

(* However late an older answer of GET /mounts arrives, the page ends up   *)
(* with the mounts there are, or with none after a failed read: its timer  *)
(* reads them again as long as it shows any (43, 1368).                    *)
MountsConverge == <>[](onPage["mounts"] \in {kept["mounts"], {}})
=============================================================================
