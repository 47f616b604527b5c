---------------------------- MODULE ManagerFiles ----------------------------
(***************************************************************************)
(* What the manager page does to files (web/manager.js): paste of what was *)
(* copied or cut, delete, new folder, new file, rename, uploads and the    *)
(* preview that saves.  Each is a handler that waits for a dialog or an    *)
(* answer of the service while the user goes to other places, starts other *)
(* handlers, and other clients of the service create files.                *)
(*                                                                         *)
(* Abstracted: the content of a file the service has at first is named     *)
(* after its place and name, that of a file another client creates also    *)
(* after the moment, all that is written is one value; folders are         *)
(* like files; which session a location has is chosen when two are         *)
(* compared; a path names nothing in another location than its own; the    *)
(* selection, which ManagerWindow models, is chosen when it is used.       *)
(***************************************************************************)
EXTENDS Integers, Sequences, FiniteSets, SequencesExt

CONSTANTS
  Directories,  \* folders of the locations
  LocationOf,   \* LocationOf[p]: the location a place is in
  FileNames,    \* names of files
  First,        \* First[p]: names the service has at p at first
  Uploads,      \* bound: names of the sequences of uploads under way
  UploadBatches, \* sequences of names that are uploaded
  MaxActs,      \* bound: handlers started, copies, and files of other clients
  NoFile        \* no file, no clipboard

Written == <<>>   \* whatever is written later
Contents == {Written} \cup (Directories \X FileNames) \cup (Directories \X FileNames \X (1..MaxActs))

ASSUME FilesAssumption ==
  /\ First \in [Directories -> SUBSET FileNames]
  /\ NoFile \notin Contents \cup Directories \cup FileNames \cup Uploads
  /\ Uploads \cap {"paste", "remove", "save", "outlived"} = {}
  /\ IsFiniteSet(FileNames) /\ UploadBatches \subseteq Seq(FileNames) /\ MaxActs \in Nat

VARIABLES
  acts,         \* of those so far
  files,        \* files[p][n]: content of n at p, NoFile where there is none
  here,         \* state.place
  shownNames,   \* state.listing: names; none while it is loaded
  loading,      \* state.loading
  clip,         \* state.clipboard
  pasting,      \* the call of paste, its pasteBusy
  removing,     \* the call of remove
  naming,       \* the call of newFolder, newFile or renameEntry
  uploads,      \* uploads[u]: a call of uploadFiles
  picker,       \* upload: the place its file picker was opened at
  request,      \* this.uploadRequest: whose request it is
  editor,       \* the preview
  outlived,     \* the save of a preview that was closed meanwhile
  excused,      \* history: contents the user agreed to lose, or that took the place of the
                \* source of a cut once it was copied
  lost,         \* history: contents lost without
  asked,        \* history: where the user was, or pointed, when each call was asked for
  misplaced     \* history: calls that acted elsewhere

uploading == <<uploads, picker, request>>
editing == <<editor, outlived>>
calls == <<pasting, removing, naming, uploading, editing>>
placement == <<asked, misplaced>>
outcomes == <<excused, lost, placement>>
screen == <<here, shownNames, loading>>
filesVars == <<acts, files, screen, clip, calls, outcomes>>

Off == [at |-> "off"]
AskedCalls == {"paste", "remove"} \cup Uploads
NamesAt(p) == {n \in FileNames : files[p][n] # NoFile}

FilesInit ==
  /\ acts = 0
  /\ files = [p \in Directories |-> [n \in FileNames |-> IF n \in First[p] THEN <<p, n>> ELSE NoFile]]
  /\ here \in Directories /\ shownNames = {} /\ loading = TRUE
  /\ clip = NoFile
  /\ pasting = Off /\ removing = Off /\ naming = Off /\ editor = Off /\ outlived = Off
  /\ uploads = [u \in Uploads |-> Off] /\ picker = NoFile /\ request = NoFile
  /\ excused = {} /\ lost = {}
  /\ asked = [k \in AskedCalls |-> NoFile] /\ misplaced = {}

(* The file n at p gets a content; what was there is lost unless it is kept elsewhere, or *)
(* excused.                                                                              *)
KeptIn(content, f) == \E p \in Directories, n \in FileNames : f[p][n] = content
Put(p, n, content, excuse) ==
  LET old == files[p][n]
  IN  /\ files' = [files EXCEPT ![p][n] = content]
      /\ excused' = IF excuse THEN excused \cup {old} ELSE excused
      /\ lost' = IF old \in {NoFile, Written} \cup excused' \/ KeptIn(old, files')
                   THEN lost ELSE lost \cup {old}

(* A rename moves a content and loses none. *)
Move(p, n, q, m) ==
  /\ files' = [files EXCEPT ![p][n] = NoFile, ![q][m] = files[p][n]]
  /\ UNCHANGED <<excused, lost>>

(* The user asks for call k at p; it acts at p. *)
AskedAt(k, p) == asked' = [asked EXCEPT ![k] = p] /\ UNCHANGED misplaced
ActsAt(k, p) == misplaced' = (IF p = asked[k] THEN misplaced ELSE misplaced \cup {k}) /\ UNCHANGED asked

(* refresh: the place shown is loaded anew. *)
Refresh == shownNames' = {} /\ loading' = TRUE

(* A modal dialog takes every gesture. *)
DialogOpen == \/ removing.at = "asking" \/ naming.at = "asking" \/ editor.at # "off"
         \/ \E u \in Uploads : uploads[u].at \in {"asking", "refused"}

Act == ~DialogOpen /\ acts < MaxActs /\ acts' = acts + 1

-----------------------------------------------------------------------------
(* The place, its listing and the clipboard *)

(* goTo: by a gesture, or by what ends while a dialog is open. *)
Navigate(p) ==
  /\ p # here
  /\ here' = p /\ Refresh
  /\ UNCHANGED <<acts, files, clip, calls, outcomes>>

ListingShown ==
  /\ loading
  /\ loading' = FALSE /\ shownNames' = NamesAt(here)
  /\ UNCHANGED <<acts, files, here, clip, calls, outcomes>>

Copy(names, cut) ==
  /\ Act /\ names \subseteq shownNames /\ names # {}
  /\ clip' = [names |-> SetToSeq(names), place |-> here, cut |-> cut]
  /\ UNCHANGED <<files, screen, calls, outcomes>>

ClearClipboard ==
  /\ Act /\ clip # NoFile /\ clip' = NoFile
  /\ UNCHANGED <<files, screen, calls, outcomes>>

-----------------------------------------------------------------------------
(* paste *)

(* pasteBusy is one for the page; the clipboard and the target are taken now. *)
Paste ==
  /\ Act /\ clip # NoFile /\ pasting.at = "off"
  /\ pasting' = [at |-> "next", clip |-> clip, target |-> here, done |-> 0, copied |-> NoFile]
  /\ AskedAt("paste", here)
  /\ UNCHANGED <<files, screen, clip, removing, naming, uploading, editing, excused, lost>>

\* Mutant of PasteTarget: the destination is where the page is now.
PasteTargetHere == here

PasteTarget == pasting.target

Pasted == pasting' = [pasting EXCEPT !.at = "next", !.done = @ + 1, !.copied = NoFile]
PastedName == pasting.clip.names[pasting.done + 1]

(* A cut within one session is a rename: two places of a location may share one. *)
MayRename == pasting.clip.cut /\ LocationOf[pasting.clip.place] = LocationOf[pasting.target]

(* The next name is renamed, or copied; neither replaces what is there. *)
PasteName ==
  LET n == PastedName
      from == pasting.clip.place
  IN  /\ pasting.at = "next" /\ pasting.done < Len(pasting.clip.names)
      /\ files[from][n] # NoFile /\ files[PasteTarget][n] = NoFile
      /\ \/ /\ MayRename
            /\ Move(from, n, PasteTarget, n) /\ Pasted
         \/ /\ Put(PasteTarget, n, files[from][n], FALSE)
            /\ IF pasting.clip.cut
                 THEN pasting' = [pasting EXCEPT !.at = "copied", !.copied = files[from][n]] ELSE Pasted
      /\ ActsAt("paste", PasteTarget)
      /\ UNCHANGED <<acts, screen, clip, removing, naming, uploading, editing>>

(* Once it is copied, the source of a cut is deleted: whatever is there by then. *)
PasteDeletes ==
  LET p == pasting.clip.place
  IN  /\ pasting.at = "copied" /\ files[p][PastedName] # NoFile
      /\ Put(p, PastedName, NoFile, files[p][PastedName] # pasting.copied) /\ Pasted
      /\ UNCHANGED <<acts, screen, clip, removing, naming, uploading, editing, placement>>

(* What a paste leaves on the clipboard: of a cut, the names that are not done. *)
Remainder(p) ==
  IF ~p.clip.cut THEN clip
  ELSE IF p.done = Len(p.clip.names) THEN NoFile
  ELSE [p.clip EXCEPT !.names = SubSeq(@, p.done + 1, Len(@))]

PasteFinally ==
  /\ pasting' = Off
  /\ clip' = Remainder(pasting)
  /\ Refresh
  /\ UNCHANGED <<acts, files, here, removing, naming, uploading, editing, outcomes>>

PasteDone ==
  /\ pasting.at = "next" /\ pasting.done = Len(pasting.clip.names)
  /\ PasteFinally

\* Mutant of PasteFails: a copy of a cut that fails goes on to the deletion.
PasteFailsDeleting ==
  \/ /\ pasting.at = "next" /\ pasting.done < Len(pasting.clip.names) /\ pasting.clip.cut
     /\ pasting' = [pasting EXCEPT !.at = "copied", !.copied = files[pasting.clip.place][PastedName]]
     /\ UNCHANGED <<acts, files, screen, clip, removing, naming, uploading, editing, outcomes>>
  \/ pasting.at = "copied" /\ PasteFinally

(* The session of the source, or a call, fails: the rest stays on the clipboard. *)
PasteFails ==
  /\ pasting.at \in {"next", "copied"} /\ pasting.done < Len(pasting.clip.names)
  /\ PasteFinally

-----------------------------------------------------------------------------
(* remove: the names, the session and the place are taken before it asks *)

RemoveSelected(names) ==
  /\ Act /\ names \subseteq shownNames /\ names # {} /\ removing.at = "off"
  /\ removing' = [at |-> "asking", names |-> names, place |-> here]
  /\ AskedAt("remove", here)
  /\ UNCHANGED <<files, screen, clip, pasting, naming, uploading, editing, excused, lost>>

RemoveAnswered ==
  /\ removing.at = "asking"
  /\ removing' \in {Off, [removing EXCEPT !.at = "deleting"]}
  /\ UNCHANGED <<acts, files, screen, clip, pasting, naming, uploading, editing, outcomes>>

\* Mutant of RemovePlace: the path is that of the place shown now.
RemovePlaceHere == here

RemovePlace == removing.place

RemoveNext(n) ==
  /\ removing.at = "deleting" /\ n \in removing.names /\ files[RemovePlace][n] # NoFile
  /\ Put(RemovePlace, n, NoFile, TRUE)
  /\ ActsAt("remove", RemovePlace)
  /\ removing' = [removing EXCEPT !.names = @ \ {n}]
  /\ UNCHANGED <<acts, screen, clip, pasting, naming, uploading, editing>>

(* All are deleted, or one could not be. *)
RemoveEnds ==
  /\ removing.at = "deleting"
  /\ removing' = Off /\ Refresh
  /\ UNCHANGED <<acts, files, here, clip, pasting, naming, uploading, editing, outcomes>>

-----------------------------------------------------------------------------
(* newFolder, newFile and renameEntry read the place again after their dialog *)

Name(kind, n) ==
  /\ Act /\ naming.at = "off"
  /\ IF kind = "rename" THEN n \in shownNames ELSE n = NoFile
  /\ naming' = [at |-> "asking", kind |-> kind, from |-> n, place |-> here]
  /\ UNCHANGED <<files, screen, clip, pasting, removing, uploading, editing, outcomes>>

(* The name is given: the call is sent for the place of the page as it is now.  Only a rename *)
(* has a path of the place it was asked at, which the session of the page may not have.       *)
Named(n) ==
  LET from == naming.from
  IN  /\ naming.at = "asking" /\ files[here][n] = NoFile
      /\ \/ /\ naming.kind = "rename" /\ LocationOf[here] = LocationOf[naming.place]
            /\ files[naming.place][from] # NoFile
            /\ Move(naming.place, from, here, n)
         \/ /\ naming.kind # "rename"
            /\ Put(here, n, Written, FALSE)
      /\ naming' = IF naming.kind = "file" THEN [naming EXCEPT !.at = "listing", !.from = n, !.place = here]
                                           ELSE Off
      /\ request' = IF naming.kind = "file" THEN NoFile ELSE request
      /\ Refresh
      /\ UNCHANGED <<acts, here, clip, pasting, removing, uploads, picker, editing, placement>>

(* The dialog goes; a save that is under way goes on without it (bound: one at a time). *)
EditorLeaves ==
  IF editor.at = "saving"
  THEN /\ outlived = Off /\ outlived' = editor
       /\ request' = IF request = "save" THEN "outlived" ELSE request
  ELSE UNCHANGED <<outlived, request>>

(* The refresh of newFile has ended: the file is opened, with the session there is now. *)
NewFileListed ==
  /\ naming.at = "listing"
  /\ naming' = Off
  /\ editor' = [at |-> "loading", name |-> naming.from, place |-> naming.place]
  /\ EditorLeaves
  /\ UNCHANGED <<acts, files, screen, clip, pasting, removing, uploads, picker, outcomes>>

(* Cancelled, a name that is not valid or taken, or a failure. *)
NamingEnds ==
  /\ naming.at \in {"asking", "listing"} /\ naming' = Off
  /\ UNCHANGED <<acts, files, screen, clip, pasting, removing, uploading, editing, outcomes>>

-----------------------------------------------------------------------------
(* uploadFiles, from a drop or from the file picker *)

Batch(names, p, listed) ==
  [at |-> "next", files |-> names, place |-> p, listed |-> listed, overwrite |-> FALSE, consent |-> NoFile]
NewBatch(u, batch) == uploads[u].at = "off" /\ uploads' = [uploads EXCEPT ![u] = batch]

(* dropFiles, on the list or on one of its folders, whose own listing the page has not. *)
Drop(u, names, p) ==
  /\ Act /\ ~loading /\ LocationOf[p] = LocationOf[here]
  /\ NewBatch(u, Batch(names, p, p = here))
  /\ AskedAt(u, p)
  /\ UNCHANGED <<files, screen, clip, pasting, removing, naming, picker, request, editing, excused, lost>>

(* The picker takes the place of the click; its files go through the session there is then,
   and to where the page is if that is another location. *)
OpenPicker ==
  /\ Act /\ picker = NoFile /\ picker' = here
  /\ UNCHANGED <<files, screen, clip, pasting, removing, naming, uploads, request, editing, outcomes>>

Picked(u, names) ==
  /\ picker # NoFile /\ picker' = NoFile
  /\ LET p == IF LocationOf[picker] = LocationOf[here] THEN picker ELSE here
     IN  NewBatch(u, Batch(names, p, TRUE)) /\ AskedAt(u, p)
  /\ UNCHANGED <<acts, files, screen, clip, pasting, removing, naming, request, editing, excused, lost>>

UploadName(u) == Head(uploads[u].files)
UploadPlace(u) == uploads[u].place
Existing(u) == uploads[u].listed /\ UploadName(u) \in shownNames

(* A name that the listing shows is asked about before anything is sent. *)
UploadNext(u) ==
  /\ uploads[u].at = "next" /\ uploads[u].files # <<>>
  /\ \/ /\ Existing(u)
        /\ uploads' = [uploads EXCEPT ![u].at = "asking"]
        /\ UNCHANGED request
     \/ /\ ~Existing(u)
        /\ uploads' = [uploads EXCEPT ![u].at = "sending", ![u].overwrite = FALSE]
        /\ request' = u
  /\ UNCHANGED <<acts, files, screen, clip, pasting, removing, naming, picker, editing, outcomes>>

(* "Replace": the file is sent to replace what is there. *)
UploadAgreed(u) ==
  /\ uploads[u].at \in {"asking", "refused"}
  /\ uploads' = [uploads EXCEPT ![u].at = "sending", ![u].overwrite = TRUE, ![u].consent = UploadName(u)]
  /\ request' = u
  /\ UNCHANGED <<acts, files, screen, clip, pasting, removing, naming, picker, editing, outcomes>>

UploadSkipped(u) ==
  /\ uploads[u].at \in {"asking", "refused"}
  /\ uploads' = [uploads EXCEPT ![u].at = "next", ![u].files = Tail(@)]
  /\ UNCHANGED <<acts, files, screen, clip, pasting, removing, naming, picker, request, editing, outcomes>>

\* Mutant of Refused: what the service has is replaced without a question.
RefusedNever(u) == FALSE

(* 409: the service has the name, and was not told to replace it. *)
Refused(u) == files[UploadPlace(u)][UploadName(u)] # NoFile /\ ~uploads[u].overwrite

UploadSent(u) ==
  /\ uploads[u].at = "sending"
  /\ request' = NoFile
  /\ \/ /\ Refused(u)
        /\ uploads' = [uploads EXCEPT ![u].at = "refused"]
        /\ UNCHANGED <<files, outcomes>>
     \/ /\ ~Refused(u)
        /\ Put(UploadPlace(u), UploadName(u), Written, uploads[u].consent = UploadName(u))
        /\ ActsAt(u, UploadPlace(u))
        /\ uploads' = [uploads EXCEPT ![u].at = "next", ![u].files = Tail(@)]
  /\ UNCHANGED <<acts, screen, clip, pasting, removing, naming, picker, editing>>

(* The last file is sent; or an upload fails and ends its sequence. *)
UploadEnds(u) ==
  /\ \/ uploads[u].at = "next" /\ uploads[u].files = <<>> /\ UNCHANGED request
     \/ uploads[u].at = "sending" /\ request' = NoFile
  /\ uploads' = [uploads EXCEPT ![u] = Off]
  /\ Refresh
  /\ UNCHANGED <<acts, files, here, clip, pasting, removing, naming, picker, editing, outcomes>>

-----------------------------------------------------------------------------
(* preview *)

Preview(n) ==
  /\ Act /\ n \in shownNames
  /\ editor' = [at |-> "loading", name |-> n, place |-> here]
  /\ UNCHANGED <<files, screen, clip, pasting, removing, naming, uploading, outlived, outcomes>>

PreviewRead ==
  /\ editor.at = "loading"
  /\ \/ /\ files[editor.place][editor.name] # NoFile
        /\ editor' = [editor EXCEPT !.at = "open"]
     \/ editor' = [editor EXCEPT !.at = "failed"]
  /\ UNCHANGED <<acts, files, screen, clip, pasting, removing, naming, uploading, outlived, outcomes>>

(* Closing aborts the read, and not a save. *)
ClosePreview ==
  /\ editor.at # "off" /\ editor' = Off
  /\ EditorLeaves
  /\ UNCHANGED <<acts, files, screen, clip, pasting, removing, naming, uploads, picker, outcomes>>

(* Save replaces the file it was read from: the last explicit save wins. *)
Save ==
  /\ editor.at = "open"
  /\ editor' = [editor EXCEPT !.at = "saving"] /\ request' = "save"
  /\ UNCHANGED <<acts, files, screen, clip, pasting, removing, naming, uploads, picker, outlived, outcomes>>

SavedFile(e) == Put(e.place, e.name, Written, TRUE) /\ request' = NoFile /\ Refresh

EditorSaved ==
  /\ \/ editor.at = "saving" /\ SavedFile(editor) /\ editor' = Off /\ UNCHANGED outlived
     \/ outlived # Off /\ SavedFile(outlived) /\ outlived' = Off /\ UNCHANGED editor
  /\ UNCHANGED <<acts, here, clip, pasting, removing, naming, uploads, picker, placement>>

SaveFails ==
  /\ request' = NoFile
  /\ \/ editor.at = "saving" /\ editor' = [editor EXCEPT !.at = "open"] /\ UNCHANGED outlived
     \/ outlived # Off /\ outlived' = Off /\ UNCHANGED editor
  /\ UNCHANGED <<acts, files, screen, clip, pasting, removing, naming, uploads, picker, outcomes>>

(* The cancel button aborts the request that the page remembers. *)
CancelUpload ==
  \/ \E u \in Uploads : request = u /\ uploads[u].at = "sending" /\ UploadEnds(u)
  \/ request = "save" /\ SaveFails /\ UNCHANGED outlived
  \/ request = "outlived" /\ SaveFails /\ UNCHANGED editor

-----------------------------------------------------------------------------
(* Another client creates a file. *)
OtherCreates(p, n) ==
  /\ acts < MaxActs /\ acts' = acts + 1
  /\ files[p][n] = NoFile
  /\ files' = [files EXCEPT ![p][n] = <<p, n, acts'>>]
  /\ UNCHANGED <<screen, clip, calls, outcomes>>

FilesGesture ==
  \/ \E p \in Directories : Navigate(p)
  \/ \E names \in SUBSET FileNames : RemoveSelected(names) \/ \E cut \in BOOLEAN : Copy(names, cut)
  \/ ClearClipboard \/ Paste \/ OpenPicker
  \/ \E kind \in {"folder", "file", "rename"}, n \in FileNames \cup {NoFile} : Name(kind, n)
  \/ \E u \in Uploads, names \in UploadBatches : Picked(u, names) \/ \E p \in Directories : Drop(u, names, p)
  \/ \E n \in FileNames : Preview(n)

PasteAnswer == PasteName \/ PasteDeletes \/ PasteDone \/ PasteFails

FilesNext ==
  \/ FilesGesture \/ ListingShown \/ PasteAnswer
  \/ RemoveAnswered \/ RemoveEnds \/ \E n \in FileNames : RemoveNext(n)
  \/ NewFileListed \/ NamingEnds \/ \E n \in FileNames : Named(n)
  \/ \E u \in Uploads : \/ UploadNext(u) \/ UploadAgreed(u) \/ UploadSkipped(u)
                        \/ UploadSent(u) \/ UploadEnds(u)
  \/ PreviewRead \/ ClosePreview \/ Save \/ EditorSaved \/ SaveFails \/ CancelUpload
  \/ \E p \in Directories, n \in FileNames : OtherCreates(p, n)

FilesSpec == FilesInit /\ [][FilesNext]_filesVars

-----------------------------------------------------------------------------
(* A content is never lost unless the user agreed to it: a cut deletes its *)
(* source only once it is copied, whatever fails, is renamed or replaced   *)
(* meanwhile, and an upload replaces only what it has asked about, also    *)
(* where the listing is that of another place or older (271-302,           *)
(* 1583-1599).  Copy and deletion are two calls: a file that takes the     *)
(* place of the source between them is excused, and goes unasked.          *)
NothingLost == lost = {}

(* A paste, a delete and an upload act, call after call, in the folder     *)
(* where the user asked for them, although dialogs, answers and other      *)
(* handlers come between and the page may have gone elsewhere since        *)
(* (271-302, 1574-1600).                                                   *)
ActsWhereAsked == misplaced = {}
=============================================================================
