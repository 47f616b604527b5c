-------------------------- MODULE ManagerFilesProofs --------------------------
(***************************************************************************)
(* Theorems about ManagerFiles, for any folders, names, uploads and bounds *)
(* that satisfy FilesAssumption: what the page does to files loses no      *)
(* content unasked, and its calls act where they were asked for.           *)
(***************************************************************************)
EXTENDS ManagerFiles, FiniteSetTheorems, SequenceTheorems, TLAPS

FilesStep == [FilesNext]_filesVars

-----------------------------------------------------------------------------
(* Types *)

Table == [Directories -> [FileNames -> Contents \cup {NoFile}]]
Clip == [names : Seq(FileNames), place : Directories, cut : BOOLEAN]
PasteCall ==
  [at : {"next", "copied"}, clip : Clip, target : Directories, done : Nat, copied : Contents \cup {NoFile}]
RemoveCall == [at : {"asking", "deleting"}, names : SUBSET FileNames, place : Directories]
NameCall ==
  [at : {"asking", "listing"}, kind : {"folder", "file", "rename"}, from : FileNames \cup {NoFile}, place : Directories]
UploadCall ==
  [at : {"next", "asking", "sending", "refused"}, files : Seq(FileNames), place : Directories,
   listed : BOOLEAN, overwrite : BOOLEAN, consent : FileNames \cup {NoFile}]
EditCall == [at : {"loading", "open", "failed", "saving"}, name : FileNames, place : Directories]

(* The names a paste has done are a part of those it was asked for; a file that is asked
   about, sent or refused is there to be sent. *)
FilesTypeOK ==
  /\ acts \in 0..MaxActs
  /\ files \in Table
  /\ here \in Directories /\ shownNames \subseteq FileNames /\ loading \in BOOLEAN
  /\ clip \in Clip \cup {NoFile}
  /\ pasting \in PasteCall \cup {Off}
  /\ pasting # Off => /\ pasting.done <= Len(pasting.clip.names)
                      /\ pasting.at = "copied" => pasting.done < Len(pasting.clip.names)
  /\ removing \in RemoveCall \cup {Off}
  /\ naming \in NameCall \cup {Off}
  /\ naming # Off /\ (naming.at = "listing" \/ naming.kind = "rename") => naming.from \in FileNames
  /\ uploads \in [Uploads -> UploadCall \cup {Off}]
  /\ \A u \in Uploads : uploads[u].at \notin {"off", "next"} => uploads[u].files # <<>>
  /\ picker \in Directories \cup {NoFile}
  /\ editor \in EditCall \cup {Off} /\ outlived \in EditCall \cup {Off}
  /\ asked \in [AskedCalls -> Directories \cup {NoFile}]

-----------------------------------------------------------------------------
(* How a step changes the files *)

(* A finite set of names is listed by a sequence of them. *)
LEMMA Listable ==
  ASSUME NEW names \in SUBSET FileNames
  PROVE  SetToSeq(names) \in Seq(FileNames)
<1>1. IsFiniteSet(names) /\ Cardinality(names) \in Nat
  BY FS_Subset, FS_CardinalityType, FilesAssumption
<1>2. PICK f : f \in Bijection(1..Cardinality(names), names)
  BY <1>1, FS_CardinalityType, FS_Subset, FilesAssumption DEF ExistsBijection
<1>3. f \in [1..Cardinality(names) -> names] /\ IsInjective(f)
  BY <1>2 DEF Bijection, Injection, IsInjective
<1>4. SetToSeq(names) \in [1..Cardinality(names) -> names]
  BY <1>3 DEF SetToSeq
<1>5. QED
  BY <1>1, <1>4

Spot(p, n) == <<p, n>>

(* A content that may go from one place: nobody misses it, or another place has it. *)
Twice(c) ==
  \E p, q \in Directories, n, m \in FileNames :
    Spot(p, n) # Spot(q, m) /\ files[p][n] = c /\ files[q][m] = c
Spare(c) == c \in {NoFile, Written} \cup excused \/ Twice(c)

LEMMA PutSpares ==
  ASSUME files \in Table, NEW p \in Directories, NEW n \in FileNames, NEW content \in Contents \cup {NoFile}, NEW e \in BOOLEAN,
         Put(p, n, content, e), e \/ files[p][n] = NoFile, NEW c, Spare(c)
  PROVE  Spare(c)'
<1>1. files' = [files EXCEPT ![p][n] = content] /\ excused \subseteq excused' /\ (e => files[p][n] \in excused')
  BY DEF Put
<1>2. \A q \in Directories, m \in FileNames : Spot(q, m) # Spot(p, n) => files'[q][m] = files[q][m]
  BY <1>1 DEF Table, Spot
<1>3. CASE files[p][n] = c
  BY <1>1, <1>3 DEF Spare
<1>4. CASE files[p][n] # c
  BY <1>1, <1>2, <1>4 DEF Spare, Twice, Spot
<1>5. QED
  BY <1>3, <1>4

LEMMA PutLosesNone ==
  ASSUME NEW p, NEW n, NEW content, NEW e \in BOOLEAN, Put(p, n, content, e), e \/ files[p][n] = NoFile
  PROVE  lost' = lost
BY DEF Put

LEMMA PutType ==
  ASSUME files \in Table, NEW p \in Directories, NEW n \in FileNames, NEW content \in Contents \cup {NoFile}, NEW e,
         Put(p, n, content, e)
  PROVE  files' \in Table
BY DEF Put, Table

LEMMA MoveSpares ==
  ASSUME files \in Table, NEW p \in Directories, NEW n \in FileNames, NEW q \in Directories, NEW m \in FileNames,
         files[p][n] # NoFile, files[q][m] = NoFile, Move(p, n, q, m)
  PROVE  /\ files' \in Table /\ lost' = lost
         /\ \A c : Spare(c) => Spare(c)'
<1>1. Spot(p, n) # Spot(q, m)
  BY DEF Spot
<1>2. files' = [files EXCEPT ![p][n] = NoFile, ![q][m] = files[p][n]] /\ excused' = excused /\ lost' = lost
  BY DEF Move
<1>3. /\ files' \in Table
      /\ files'[q][m] = files[p][n] /\ files'[p][n] = NoFile
      /\ \A a \in Directories, b \in FileNames :
           Spot(a, b) \notin {Spot(p, n), Spot(q, m)} => files'[a][b] = files[a][b]
  <2> DEFINE f == [files EXCEPT ![p][n] = NoFile]
  <2>1. f \in Table /\ f[p][n] = NoFile /\ \A a \in Directories, b \in FileNames : Spot(a, b) # Spot(p, n) => f[a][b] = files[a][b]
    BY DEF Table, Spot
  <2>2. files' = [f EXCEPT ![q][m] = files[p][n]]
    BY <1>2
  <2>3. files[p][n] \in Contents \cup {NoFile}
    BY DEF Table
  <2> HIDE DEF f
  <2>4. files' \in Table /\ files'[q][m] = files[p][n] /\ \A a \in Directories, b \in FileNames : Spot(a, b) # Spot(q, m) => files'[a][b] = f[a][b]
    BY <2>1, <2>2, <2>3 DEF Table, Spot
  <2>5. QED
    BY <1>1, <2>1, <2>4
<1>4. ASSUME NEW c, Spare(c) PROVE Spare(c)'
  <2>1. CASE c \in {NoFile, Written} \cup excused
    BY <1>2, <2>1 DEF Spare
  <2>2. CASE c # NoFile /\ Twice(c)
    <3>1. PICK a1 \in Directories, a2 \in Directories, b1 \in FileNames, b2 \in FileNames :
            Spot(a1, b1) # Spot(a2, b2) /\ files[a1][b1] = c /\ files[a2][b2] = c
      BY <2>2 DEF Twice
    <3>2. Spot(a1, b1) # Spot(q, m) /\ Spot(a2, b2) # Spot(q, m)
      BY <2>2, <3>1 DEF Spot
    <3>3. CASE Spot(a1, b1) = Spot(p, n)
      <4>1. files'[q][m] = c /\ files'[a2][b2] = c
        BY <1>3, <3>1, <3>2, <3>3 DEF Spot
      <4>2. QED
        BY <3>2, <4>1 DEF Spare, Twice
    <3>4. CASE Spot(a2, b2) = Spot(p, n)
      <4>1. files'[q][m] = c /\ files'[a1][b1] = c
        BY <1>3, <3>1, <3>2, <3>4 DEF Spot
      <4>2. QED
        BY <3>2, <4>1 DEF Spare, Twice
    <3>5. CASE Spot(a1, b1) # Spot(p, n) /\ Spot(a2, b2) # Spot(p, n)
      BY <1>3, <3>1, <3>2, <3>5 DEF Spare, Twice
    <3>6. QED
      BY <3>3, <3>4, <3>5
  <2>3. QED
    BY <1>4, <2>1, <2>2 DEF Spare
<1>5. QED
  BY <1>2, <1>3, <1>4

-----------------------------------------------------------------------------
(* Types are kept *)

(* What is left of a cut is a part of what was cut. *)
LEMMA RemainderType ==
  ASSUME FilesTypeOK, pasting # Off
  PROVE  Remainder(pasting) \in Clip \cup {NoFile}
<1>1. /\ pasting.clip \in Clip /\ pasting.clip.names \in Seq(FileNames) /\ Len(pasting.clip.names) \in Nat
      /\ pasting.done \in Nat /\ pasting.done <= Len(pasting.clip.names) /\ clip \in Clip \cup {NoFile}
  BY DEF FilesTypeOK, PasteCall, Clip, Off
<1>2. SubSeq(pasting.clip.names, pasting.done + 1, Len(pasting.clip.names)) \in Seq(FileNames)
  <2>1. \A i \in pasting.done + 1 .. Len(pasting.clip.names) : pasting.clip.names[i] \in FileNames
    BY <1>1
  <2>2. QED
    BY <1>1, <2>1, SubSeqProperties
<1>3. QED
  BY <1>1, <1>2 DEF Remainder, Clip

(* The next name of a paste is one of a file. *)
LEMMA NextName ==
  ASSUME FilesTypeOK, pasting # Off, pasting.done < Len(pasting.clip.names)
  PROVE  /\ PastedName \in FileNames /\ pasting.clip.place \in Directories /\ pasting.target \in Directories
         /\ pasting.done + 1 \in Nat /\ pasting.done + 1 <= Len(pasting.clip.names)
<1>1. /\ pasting.clip \in Clip /\ pasting.clip.names \in Seq(FileNames) /\ Len(pasting.clip.names) \in Nat
      /\ pasting.done \in Nat /\ pasting.clip.place \in Directories /\ pasting.target \in Directories
  BY DEF FilesTypeOK, PasteCall, Clip, Off
<1>2. QED
  BY <1>1 DEF PastedName

THEOREM FilesTypeInit == FilesInit => FilesTypeOK
BY FilesAssumption DEF FilesInit, FilesTypeOK, Table, Off, Contents, AskedCalls

(* Every action keeps the types; what a put or a move needs of its place and name is what
   the calls have. *)
THEOREM FilesTypeStep == FilesTypeOK /\ [FilesNext]_filesVars => FilesTypeOK'
<1> SUFFICES ASSUME FilesTypeOK, [FilesNext]_filesVars PROVE FilesTypeOK'
  OBVIOUS
<1> USE FilesAssumption DEF FilesTypeOK, outcomes, placement, editing
<1>w. Written \in Contents /\ NoFile \notin FileNames
  BY DEF Contents
<1>k. ASSUME NEW k \in AskedCalls, NEW p \in Directories, AskedAt(k, p)
      PROVE  asked' \in [AskedCalls -> Directories \cup {NoFile}]
  BY <1>k DEF AskedAt
<1>1. ASSUME NEW p \in Directories, Navigate(p) PROVE FilesTypeOK'
  BY <1>1 DEF Navigate, Refresh, calls, uploading
<1>2. CASE ListingShown
  BY <1>2 DEF ListingShown, NamesAt, calls, uploading
<1>3. ASSUME NEW names \in SUBSET FileNames, NEW cut \in BOOLEAN, Copy(names, cut) PROVE FilesTypeOK'
  BY <1>3, Listable DEF Copy, Act, Clip, screen, calls, uploading
<1>4. CASE ClearClipboard
  BY <1>4 DEF ClearClipboard, Act, screen, calls, uploading
<1>5. CASE Paste
  <2>1. asked' \in [AskedCalls -> Directories \cup {NoFile}]
    BY <1>5, <1>k DEF Paste, AskedCalls
  <2>2. QED
    BY <1>5, <2>1 DEF Paste, Act, screen, uploading, PasteCall, Off, Clip
<1>6. CASE PasteName
  <2>1. pasting # Off /\ pasting.at = "next" /\ pasting.done < Len(pasting.clip.names) /\ PasteTarget \in Directories
    BY <1>6, NextName DEF PasteName, Off, PasteTarget
  <2>2. PastedName \in FileNames /\ pasting.clip.place \in Directories /\ files[pasting.clip.place][PastedName] \in Contents \cup {NoFile}
    BY <2>1, NextName DEF Table
  <2>3. files' \in Table
    <3>1. CASE Move(pasting.clip.place, PastedName, PasteTarget, PastedName)
      BY <1>6, <2>1, <2>2, <3>1, MoveSpares DEF PasteName
    <3>2. CASE Put(PasteTarget, PastedName, files[pasting.clip.place][PastedName], FALSE)
      BY <2>1, <2>2, <3>2, PutType
    <3>3. QED
      BY <1>6, <3>1, <3>2 DEF PasteName
  <2>4. pasting' \in PasteCall /\ pasting'.clip = pasting.clip /\ pasting'.done <= Len(pasting.clip.names)
        /\ (pasting'.at = "copied" => pasting'.done < Len(pasting.clip.names))
    <3>1. pasting \in PasteCall /\ pasting.done + 1 \in Nat /\ pasting.done + 1 <= Len(pasting.clip.names)
      BY <2>1, NextName
    <3>2. Pasted \/ pasting' = [pasting EXCEPT !.at = "copied", !.copied = files[pasting.clip.place][PastedName]]
      BY <1>6 DEF PasteName
    <3>3. QED
      <4>1. CASE Pasted
        BY <3>1, <4>1 DEF Pasted, PasteCall
      <4>2. CASE pasting' = [pasting EXCEPT !.at = "copied", !.copied = files[pasting.clip.place][PastedName]]
        <5>1. PICK c \in Contents \cup {NoFile} : c = files[pasting.clip.place][PastedName]
          BY <2>2
        <5>2. pasting' = [pasting EXCEPT !.at = "copied", !.copied = c]
          BY <4>2, <5>1
        <5>3. QED
          BY <2>1, <3>1, <5>2 DEF PasteCall
      <4>3. QED
        BY <3>2, <4>1, <4>2
  <2>5. QED
    BY <1>6, <2>3, <2>4 DEF PasteName, ActsAt, screen, uploading
<1>7. CASE PasteDeletes
  <2>1. pasting # Off /\ pasting.at = "copied" /\ pasting.done < Len(pasting.clip.names)
    BY <1>7 DEF PasteDeletes, Off
  <2>2. PastedName \in FileNames /\ pasting.clip.place \in Directories
    BY <2>1, NextName
  <2>3. files' \in Table
    BY <1>7, <2>2, PutType DEF PasteDeletes
  <2>4. pasting' \in PasteCall /\ pasting'.at = "next" /\ pasting'.clip = pasting.clip /\ pasting'.done <= Len(pasting.clip.names)
    BY <1>7, <2>1, NextName DEF PasteDeletes, Pasted, PasteCall, Off
  <2>5. QED
    BY <1>7, <2>3, <2>4 DEF PasteDeletes, screen, uploading
<1>8. CASE PasteDone \/ PasteFails
  <2>1. pasting # Off /\ PasteFinally
    BY <1>8 DEF PasteDone, PasteFails, Off
  <2>2. clip' \in Clip \cup {NoFile}
    BY <2>1, RemainderType DEF PasteFinally
  <2>3. QED
    BY <2>1, <2>2 DEF PasteFinally, Refresh, uploading
<1>9. ASSUME NEW names \in SUBSET FileNames, RemoveSelected(names) PROVE FilesTypeOK'
  <2>1. asked' \in [AskedCalls -> Directories \cup {NoFile}]
    BY <1>9, <1>k DEF RemoveSelected, AskedCalls
  <2>2. QED
    BY <1>9, <2>1 DEF RemoveSelected, Act, RemoveCall, screen, uploading
<1>10. CASE RemoveAnswered
  BY <1>10 DEF RemoveAnswered, RemoveCall, Off, screen, uploading
<1>11. ASSUME NEW n \in FileNames, RemoveNext(n) PROVE FilesTypeOK'
  <2>1. removing \in RemoveCall /\ RemovePlace \in Directories
    BY <1>11 DEF RemoveNext, RemovePlace, RemoveCall, Off
  <2>2. files' \in Table
    BY <1>11, <2>1, PutType DEF RemoveNext
  <2>3. removing' \in RemoveCall
    BY <1>11, <2>1 DEF RemoveNext, RemoveCall
  <2>4. QED
    BY <1>11, <2>2, <2>3 DEF RemoveNext, ActsAt, screen, uploading
<1>12. CASE RemoveEnds
  BY <1>12 DEF RemoveEnds, Refresh, uploading
<1>13. ASSUME NEW kind \in {"folder", "file", "rename"}, NEW n \in FileNames \cup {NoFile}, Name(kind, n) PROVE FilesTypeOK'
  BY <1>13 DEF Name, Act, NameCall, screen, uploading
<1>14. ASSUME NEW n \in FileNames, Named(n) PROVE FilesTypeOK'
  <2>1. naming \in NameCall /\ naming.at = "asking"
    BY <1>14 DEF Named, Off
  <2>2. files' \in Table
    <3>1. CASE naming.kind = "rename" /\ files[naming.place][naming.from] # NoFile /\ Move(naming.place, naming.from, here, n)
      <4>1. naming.place \in Directories /\ naming.from \in FileNames
        BY <2>1, <3>1 DEF NameCall, Off
      <4>2. QED
        BY <1>14, <3>1, <4>1, MoveSpares DEF Named
    <3>2. CASE Put(here, n, Written, FALSE)
      BY <1>w, <3>2, PutType
    <3>3. QED
      BY <1>14, <3>1, <3>2 DEF Named
  <2>3. naming' \in NameCall \cup {Off} /\ (naming' # Off => naming'.from \in FileNames)
    BY <1>14, <2>1 DEF Named, NameCall
  <2>4. QED
    BY <1>14, <2>2, <2>3 DEF Named, Refresh
<1>15. CASE NewFileListed
  BY <1>15 DEF NewFileListed, EditorLeaves, NameCall, EditCall, Off, screen, uploading
<1>16. CASE NamingEnds
  BY <1>16 DEF NamingEnds, screen, uploading
<1>17. ASSUME NEW u \in Uploads, NEW names \in UploadBatches, NEW p \in Directories, Drop(u, names, p) PROVE FilesTypeOK'
  <2>1. Batch(names, p, p = here) \in UploadCall /\ Batch(names, p, p = here).at = "next"
    BY DEF Batch, UploadCall
  <2>2. asked' \in [AskedCalls -> Directories \cup {NoFile}]
    BY <1>17, <1>k DEF Drop, AskedCalls
  <2>3. QED
    BY <1>17, <2>1, <2>2 DEF Drop, NewBatch, Act, screen
<1>18. CASE OpenPicker
  BY <1>18 DEF OpenPicker, Act, screen
<1>19. ASSUME NEW u \in Uploads, NEW names \in UploadBatches, Picked(u, names) PROVE FilesTypeOK'
  <2>1. PICK p \in Directories : NewBatch(u, Batch(names, p, TRUE)) /\ AskedAt(u, p)
    BY <1>19 DEF Picked
  <2>2. Batch(names, p, TRUE) \in UploadCall /\ Batch(names, p, TRUE).at = "next"
    BY DEF Batch, UploadCall
  <2>3. asked' \in [AskedCalls -> Directories \cup {NoFile}]
    BY <1>k, <2>1 DEF AskedCalls
  <2>4. uploads' \in [Uploads -> UploadCall \cup {Off}] /\ \A v \in Uploads : uploads'[v].at \notin {"off", "next"} => uploads'[v].files # <<>>
    BY <2>1, <2>2 DEF NewBatch
  <2>5. QED
    BY <1>19, <2>3, <2>4 DEF Picked, screen
<1>20. ASSUME NEW u \in Uploads, UploadNext(u) \/ UploadAgreed(u) \/ UploadSkipped(u) PROVE FilesTypeOK'
  <2>1. uploads[u] \in UploadCall /\ uploads[u].files \in Seq(FileNames) /\ uploads[u].files # <<>> /\ UploadName(u) \in FileNames
        /\ Tail(uploads[u].files) \in Seq(FileNames)
    <3>1. uploads[u] \in UploadCall /\ uploads[u].files \in Seq(FileNames) /\ uploads[u].files # <<>>
      BY <1>20 DEF UploadNext, UploadAgreed, UploadSkipped, UploadCall, Off
    <3>2. QED
      BY <3>1 DEF UploadName
  <2>2. uploads' \in [Uploads -> UploadCall \cup {Off}] /\ \A v \in Uploads : uploads'[v].at \notin {"off", "next"} => uploads'[v].files # <<>>
    <3>1. /\ uploads' = [uploads EXCEPT ![u] = uploads'[u]]
          /\ uploads'[u] \in UploadCall /\ uploads'[u].at \in {"next", "asking", "sending"}
          /\ uploads'[u].at # "next" => uploads'[u].files = uploads[u].files
      <4>1. CASE UploadNext(u)
        BY <2>1, <4>1 DEF UploadNext, UploadCall
      <4>2. CASE UploadAgreed(u)
        BY <2>1, <4>2 DEF UploadAgreed, UploadCall
      <4>3. CASE UploadSkipped(u)
        BY <2>1, <4>3 DEF UploadSkipped, UploadCall
      <4>4. QED
        BY <1>20, <4>1, <4>2, <4>3
    <3>2. QED
      BY <2>1, <3>1
  <2>3. QED
    BY <1>20, <2>2 DEF UploadNext, UploadAgreed, UploadSkipped, screen
<1>21. ASSUME NEW u \in Uploads, UploadSent(u) PROVE FilesTypeOK'
  <2>1. uploads[u] \in UploadCall /\ uploads[u].files \in Seq(FileNames) /\ uploads[u].files # <<>> /\ UploadName(u) \in FileNames
        /\ Tail(uploads[u].files) \in Seq(FileNames) /\ UploadPlace(u) \in Directories
    <3>1. uploads[u] \in UploadCall /\ uploads[u].files \in Seq(FileNames) /\ uploads[u].files # <<>> /\ uploads[u].place \in Directories
      BY <1>21 DEF UploadSent, UploadCall, Off
    <3>2. QED
      BY <3>1 DEF UploadName, UploadPlace
  <2>2. uploads' \in [Uploads -> UploadCall \cup {Off}] /\ \A v \in Uploads : uploads'[v].at \notin {"off", "next"} => uploads'[v].files # <<>>
    <3>1. /\ uploads' = [uploads EXCEPT ![u] = uploads'[u]]
          /\ uploads'[u] \in UploadCall /\ uploads'[u].at \in {"next", "refused"}
          /\ uploads'[u].at # "next" => uploads'[u].files = uploads[u].files
      BY <1>21, <2>1 DEF UploadSent, UploadCall
    <3>2. QED
      BY <2>1, <3>1
  <2>3. files' \in Table
    BY <1>21, <1>w, <2>1, PutType DEF UploadSent
  <2>4. asked' = asked
    BY <1>21 DEF UploadSent, ActsAt
  <2>5. QED
    BY <1>21, <2>2, <2>3, <2>4 DEF UploadSent, screen
<1>22. ASSUME NEW u \in Uploads, UploadEnds(u) PROVE FilesTypeOK'
  BY <1>22 DEF UploadEnds, Refresh, Off
<1>23. ASSUME NEW n \in FileNames, Preview(n) PROVE FilesTypeOK'
  BY <1>23 DEF Preview, Act, EditCall, screen, uploading
<1>24. CASE PreviewRead \/ ClosePreview \/ Save \/ SaveFails
  BY <1>24 DEF PreviewRead, ClosePreview, EditorLeaves, Save, SaveFails, EditCall, Off, screen, uploading
<1>25. CASE EditorSaved
  <2>1. PICK e \in EditCall : SavedFile(e)
    BY <1>25 DEF EditorSaved, Off
  <2>2. files' \in Table
    BY <1>w, <2>1, PutType DEF SavedFile, EditCall
  <2>3. QED
    BY <1>25, <2>1, <2>2 DEF EditorSaved, SavedFile, Refresh, screen
<1>26. ASSUME NEW p \in Directories, NEW n \in FileNames, OtherCreates(p, n) PROVE FilesTypeOK'
  <2>1. <<p, n, acts'>> \in Contents /\ acts' \in 0..MaxActs
    BY <1>26 DEF OtherCreates, Contents
  <2>2. files' \in Table
    BY <1>26, <2>1 DEF OtherCreates, Table
  <2>3. QED
    BY <1>26, <2>1, <2>2 DEF OtherCreates, screen, calls, uploading
<1>27. CASE UNCHANGED filesVars
  BY <1>27 DEF filesVars, screen, calls, uploading
<1>28. QED
  BY <1>1, <1>2, <1>3, <1>4, <1>5, <1>6, <1>7, <1>8, <1>9, <1>10, <1>11, <1>12, <1>13, <1>14, <1>15, <1>16, <1>17, <1>18,
     <1>19, <1>20, <1>21, <1>22, <1>23, <1>24, <1>25, <1>26, <1>27 DEF FilesNext, FilesGesture, PasteAnswer, CancelUpload

(* Every variable keeps its type: what is read of a call, of the clipboard or of the picker
   names a place and a file that there may be. *)
THEOREM FilesTypeCorrect == FilesSpec => []FilesTypeOK
BY FilesTypeInit, FilesTypeStep, PTL DEF FilesSpec

-----------------------------------------------------------------------------
(* Nothing is lost *)

(* A file is sent to replace what is there only with the user's consent to that very name. *)
SendsAgreed ==
  \A u \in Uploads : uploads[u].at = "sending" /\ uploads[u].overwrite => uploads[u].consent = UploadName(u)

(* Once the source of a cut is copied, its content may go from one place. *)
CopiedIsSpare == pasting.at = "copied" => Spare(pasting.copied)

FilesInv == FilesTypeOK /\ SendsAgreed /\ CopiedIsSpare /\ NothingLost

THEOREM FilesInvInit == FilesInit => FilesInv
BY FilesTypeInit DEF FilesInit, FilesInv, SendsAgreed, CopiedIsSpare, NothingLost, Off

(* Steps that leave the files alone. *)
LEMMA FilesAlone ==
  ASSUME FilesInv, UNCHANGED <<files, excused, lost>>, pasting'.at = "copied" => pasting' = pasting
  PROVE  CopiedIsSpare' /\ NothingLost'
BY DEF FilesInv, CopiedIsSpare, Spare, Twice, NothingLost

(* Steps that put a file where there is none, or with an excuse, or move one. *)
LEMMA FilesSafe ==
  ASSUME FilesInv, lost' = lost, \A c : Spare(c) => Spare(c)', pasting' = pasting
  PROVE  CopiedIsSpare' /\ NothingLost'
BY DEF FilesInv, CopiedIsSpare, NothingLost

(* A name that is copied where there is none is at two places from then on. *)
LEMMA Copies ==
  ASSUME files \in Table, NEW p \in Directories, NEW q \in Directories, NEW n \in FileNames, NEW c, c = files[p][n],
         files[p][n] # NoFile, files[q][n] = NoFile, Put(q, n, files[p][n], FALSE)
  PROVE  Spare(c)'
<1>1. files'[p][n] = c /\ files'[q][n] = c /\ Spot(p, n) # Spot(q, n)
  BY DEF Put, Table, Spot
<1>2. QED
  BY <1>1 DEF Spare, Twice

(* What a put replaces is kept elsewhere, if it is spare. *)
LEMMA SpareIsKept ==
  ASSUME files \in Table, NEW p \in Directories, NEW n \in FileNames, NEW e \in BOOLEAN,
         Spare(files[p][n]), Put(p, n, NoFile, e)
  PROVE  lost' = lost
<1>1. PICK c : c = files[p][n]
  OBVIOUS
<1>2. files' = [files EXCEPT ![p][n] = NoFile] /\ excused \subseteq excused'
  BY DEF Put
<1>3. \A q \in Directories, m \in FileNames : Spot(q, m) # Spot(p, n) => files'[q][m] = files[q][m]
  BY <1>2 DEF Table, Spot
<1>4. c \in {NoFile, Written} \cup excused' \/ KeptIn(c, files')
  <2>1. CASE Twice(c)
    <3>1. PICK a1 \in Directories, a2 \in Directories, b1 \in FileNames, b2 \in FileNames :
            Spot(a1, b1) # Spot(a2, b2) /\ files[a1][b1] = c /\ files[a2][b2] = c
      BY <2>1 DEF Twice
    <3>2. files'[a1][b1] = c \/ files'[a2][b2] = c
      BY <1>3, <3>1
    <3>3. QED
      BY <3>2 DEF KeptIn
  <2>2. QED
    BY <1>1, <1>2, <2>1 DEF Spare
<1>5. QED
  BY <1>1, <1>4 DEF Put

(* Every step keeps it: what is put where a file is has the user's consent, or is spare. *)
THEOREM FilesInvStep == FilesInv /\ [FilesNext]_filesVars => FilesInv'
<1> SUFFICES ASSUME FilesInv, [FilesNext]_filesVars PROVE FilesInv'
  OBVIOUS
<1> USE DEF outcomes
<1>a. FilesTypeOK /\ SendsAgreed /\ CopiedIsSpare /\ FilesTypeOK'
  BY FilesTypeStep DEF FilesInv
<1>t. files \in Table
  BY <1>a DEF FilesTypeOK
<1>w. Written \in Contents
  BY DEF Contents
<1>b. ASSUME uploads' = uploads PROVE SendsAgreed'
  BY <1>a, <1>b DEF SendsAgreed, UploadName
<1>c. ASSUME UNCHANGED <<files, excused, lost, pasting>> PROVE CopiedIsSpare' /\ NothingLost'
  BY <1>c, FilesAlone
<1>d. ASSUME SendsAgreed' /\ CopiedIsSpare' /\ NothingLost' PROVE FilesInv'
  BY <1>a, <1>d DEF FilesInv
<1>1. CASE PasteName
  <2> DEFINE p == pasting.clip.place
             n == PastedName
  <2>1. pasting # Off /\ pasting.at = "next" /\ pasting.done < Len(pasting.clip.names) /\ PasteTarget = pasting.target
    BY <1>1 DEF PasteName, Off, PasteTarget
  <2>2. /\ n \in FileNames /\ p \in Directories /\ PasteTarget \in Directories
        /\ files[p][n] # NoFile /\ files[PasteTarget][n] = NoFile
    BY <1>1, <1>a, <2>1, NextName DEF PasteName
  <2>3. PICK c : c = files[p][n]
    OBVIOUS
  <2>4. CASE Move(p, n, PasteTarget, n) /\ Pasted
    <3>1. lost' = lost /\ pasting'.at = "next"
      BY <1>a, <1>t, <2>1, <2>2, <2>4, MoveSpares DEF Pasted, FilesTypeOK, PasteCall
    <3>2. QED
      BY <1>1, <1>b, <1>d, <3>1 DEF PasteName, uploading, CopiedIsSpare, NothingLost, FilesInv
  <2>5. CASE Put(PasteTarget, n, files[p][n], FALSE)
    <3>1. lost' = lost /\ Spare(c)'
      BY <1>t, <2>2, <2>3, <2>5, PutLosesNone, Copies
    <3>2. pasting'.at = "next" \/ pasting'.copied = c
      <4>1. pasting \in PasteCall
        BY <1>a, <2>1 DEF FilesTypeOK
      <4>2. Pasted \/ pasting' = [pasting EXCEPT !.at = "copied", !.copied = c]
        BY <1>1, <2>3 DEF PasteName
      <4>3. QED
        BY <4>1, <4>2 DEF Pasted, PasteCall
    <3>3. CopiedIsSpare'
      BY <3>1, <3>2 DEF CopiedIsSpare
    <3>4. QED
      BY <1>1, <1>b, <1>d, <3>1, <3>3 DEF PasteName, uploading, NothingLost, FilesInv
  <2>6. QED
    BY <1>1, <2>4, <2>5 DEF PasteName
<1>2. CASE PasteDeletes
  <2> DEFINE p == pasting.clip.place
             n == PastedName
             e == files[p][n] # pasting.copied
  <2>1. pasting # Off /\ pasting \in PasteCall /\ pasting.at = "copied" /\ pasting.done < Len(pasting.clip.names)
    BY <1>2, <1>a DEF PasteDeletes, Off, FilesTypeOK
  <2>2. n \in FileNames /\ p \in Directories
    BY <1>a, <2>1, NextName
  <2>3. Put(p, n, NoFile, e) /\ e \in BOOLEAN
    BY <1>2 DEF PasteDeletes
  <2>4. lost' = lost
    <3>1. CASE e
      BY <2>2, <2>3, <3>1, PutLosesNone
    <3>2. CASE ~e
      <4>1. Spare(files[p][n])
        BY <1>a, <2>1, <3>2 DEF CopiedIsSpare
      <4>2. QED
        BY <1>t, <2>2, <2>3, <4>1, SpareIsKept
    <3>3. QED
      BY <3>1, <3>2
  <2>5. pasting'.at = "next"
    BY <1>2, <2>1 DEF PasteDeletes, Pasted, PasteCall
  <2>6. QED
    BY <1>2, <1>b, <1>d, <2>4, <2>5 DEF PasteDeletes, uploading, CopiedIsSpare, NothingLost, FilesInv
<1>3. CASE Paste \/ PasteDone \/ PasteFails
  <2>1. UNCHANGED <<files, excused, lost, uploads>> /\ pasting'.at # "copied"
    BY <1>3 DEF Paste, PasteDone, PasteFails, PasteFinally, outcomes, uploading, Off
  <2>2. QED
    BY <1>b, <1>d, <2>1, FilesAlone
<1>4. ASSUME NEW n \in FileNames, RemoveNext(n) PROVE FilesInv'
  <2>1. removing \in RemoveCall /\ RemovePlace \in Directories
    BY <1>4, <1>a DEF RemoveNext, RemovePlace, RemoveCall, Off, FilesTypeOK
  <2>2. lost' = lost /\ \A c : Spare(c) => Spare(c)'
    BY <1>4, <1>t, <2>1, PutSpares, PutLosesNone DEF RemoveNext
  <2>3. QED
    BY <1>4, <1>b, <1>d, <2>2, FilesSafe DEF RemoveNext, uploading
<1>5. ASSUME NEW n \in FileNames, Named(n) PROVE FilesInv'
  <2>1. naming \in NameCall /\ here \in Directories /\ files[here][n] = NoFile
    BY <1>5, <1>a DEF Named, Off, FilesTypeOK
  <2>2. lost' = lost /\ \A c : Spare(c) => Spare(c)'
    <3>1. CASE naming.kind = "rename" /\ files[naming.place][naming.from] # NoFile /\ Move(naming.place, naming.from, here, n)
      <4>1. naming.place \in Directories /\ naming.from \in FileNames
        BY <1>a, <2>1, <3>1 DEF NameCall, Off, FilesTypeOK
      <4>2. QED
        BY <1>t, <2>1, <3>1, <4>1, MoveSpares
    <3>2. CASE Put(here, n, Written, FALSE)
      BY <1>t, <1>w, <2>1, <3>2, PutSpares, PutLosesNone
    <3>3. QED
      BY <1>5, <3>1, <3>2 DEF Named
  <2>3. QED
    BY <1>5, <1>b, <1>d, <2>2, FilesSafe DEF Named
<1>6. ASSUME NEW u \in Uploads, UploadSent(u) PROVE FilesInv'
  <2>1. uploads[u] \in UploadCall /\ UploadName(u) \in FileNames /\ UploadPlace(u) \in Directories
    <3>1. uploads[u] \in UploadCall /\ uploads[u].files \in Seq(FileNames) /\ uploads[u].files # <<>> /\ uploads[u].place \in Directories
      BY <1>6, <1>a DEF UploadSent, UploadCall, Off, FilesTypeOK
    <3>2. QED
      BY <3>1 DEF UploadName, UploadPlace
  <2>2. lost' = lost /\ \A c : Spare(c) => Spare(c)'
    <3>1. CASE UNCHANGED <<files, excused, lost>>
      BY <3>1 DEF Spare, Twice
    <3>2. CASE ~Refused(u) /\ Put(UploadPlace(u), UploadName(u), Written, uploads[u].consent = UploadName(u))
      <4>1. uploads[u].consent = UploadName(u) \/ files[UploadPlace(u)][UploadName(u)] = NoFile
        BY <1>6, <1>a, <2>1, <3>2 DEF UploadSent, Refused, SendsAgreed, UploadCall
      <4>2. QED
        BY <1>t, <1>w, <2>1, <3>2, <4>1, PutSpares, PutLosesNone
    <3>3. QED
      BY <1>6, <3>1, <3>2 DEF UploadSent
  <2>3. SendsAgreed'
    <3>1. uploads'[u].at \in {"refused", "next"} /\ \A v \in Uploads \ {u} : uploads'[v] = uploads[v]
      BY <1>6, <1>a, <2>1 DEF UploadSent, FilesTypeOK, UploadCall
    <3>2. QED
      BY <1>a, <3>1 DEF SendsAgreed, UploadName
  <2>4. QED
    BY <1>6, <1>d, <2>2, <2>3, FilesSafe DEF UploadSent
<1>7. ASSUME NEW u \in Uploads, UploadNext(u) \/ UploadAgreed(u) \/ UploadSkipped(u) \/ UploadEnds(u) PROVE FilesInv'
  <2>1. UNCHANGED <<files, excused, lost, pasting>> /\ uploads[u] \in UploadCall
    BY <1>7, <1>a DEF UploadNext, UploadAgreed, UploadSkipped, UploadEnds, outcomes, Off, FilesTypeOK
  <2>2. /\ uploads'[u].at = "sending" /\ uploads'[u].overwrite => uploads'[u].consent = UploadName(u)'
        /\ \A v \in Uploads \ {u} : uploads'[v] = uploads[v]
    BY <1>7, <1>a, <2>1 DEF UploadNext, UploadAgreed, UploadSkipped, UploadEnds, UploadName, UploadCall, FilesTypeOK, Off
  <2>3. SendsAgreed'
    BY <1>a, <2>2 DEF SendsAgreed, UploadName
  <2>4. QED
    BY <1>c, <1>d, <2>1, <2>3
<1>8. ASSUME NEW u \in Uploads, NEW names \in UploadBatches, Picked(u, names) \/ \E p \in Directories : Drop(u, names, p)
      PROVE  FilesInv'
  <2>1. UNCHANGED <<files, excused, lost, pasting>> /\ \A v \in Uploads : uploads'[v] = uploads[v] \/ uploads'[v].at = "next"
    BY <1>8, <1>a DEF Picked, Drop, NewBatch, Batch, outcomes, FilesTypeOK
  <2>2. SendsAgreed'
    BY <1>a, <2>1 DEF SendsAgreed, UploadName
  <2>3. QED
    BY <1>c, <1>d, <2>1, <2>2
<1>9. CASE EditorSaved
  <2>1. PICK e \in EditCall : SavedFile(e)
    BY <1>9, <1>a DEF EditorSaved, Off, FilesTypeOK
  <2>2. lost' = lost /\ \A c : Spare(c) => Spare(c)'
    BY <1>t, <1>w, <2>1, PutSpares, PutLosesNone DEF SavedFile, EditCall
  <2>3. QED
    BY <1>9, <1>b, <1>d, <2>2, FilesSafe DEF EditorSaved
<1>10. ASSUME NEW p \in Directories, NEW n \in FileNames, OtherCreates(p, n) PROVE FilesInv'
  <2>1. excused' = excused /\ lost' = lost /\ pasting' = pasting /\ uploads' = uploads
    BY <1>10 DEF OtherCreates, calls, uploading, outcomes
  <2>2. ASSUME NEW c, Spare(c) PROVE Spare(c)'
    <3>1. \A q \in Directories, m \in FileNames : files[q][m] # NoFile => files'[q][m] = files[q][m]
      BY <1>10, <1>t DEF OtherCreates, Table
    <3>2. QED
      BY <2>1, <2>2, <3>1 DEF Spare, Twice
  <2>3. QED
    BY <1>b, <1>d, <2>1, <2>2, FilesSafe
<1>11. CASE ListingShown \/ ClearClipboard \/ OpenPicker \/ RemoveAnswered \/ RemoveEnds \/ NewFileListed \/ NamingEnds
            \/ PreviewRead \/ ClosePreview \/ Save \/ SaveFails \/ UNCHANGED filesVars
  <2>1. UNCHANGED <<files, excused, lost, pasting, uploads>>
    BY <1>11 DEF ListingShown, ClearClipboard, OpenPicker, RemoveAnswered, RemoveEnds, NewFileListed, NamingEnds, PreviewRead,
                 ClosePreview, Save, SaveFails, calls, uploading, outcomes, filesVars
  <2>2. QED
    BY <1>b, <1>c, <1>d, <2>1
<1>12. ASSUME \/ \E p \in Directories : Navigate(p)
              \/ \E names \in SUBSET FileNames : RemoveSelected(names) \/ \E cut \in BOOLEAN : Copy(names, cut)
              \/ \E kind \in {"folder", "file", "rename"}, n \in FileNames \cup {NoFile} : Name(kind, n)
              \/ \E n \in FileNames : Preview(n)
       PROVE  FilesInv'
  <2>1. UNCHANGED <<files, excused, lost, pasting, uploads>>
    BY <1>12 DEF Navigate, RemoveSelected, Copy, Name, Preview, calls, uploading, outcomes
  <2>2. QED
    BY <1>b, <1>c, <1>d, <2>1
<1>13. QED
  BY <1>1, <1>2, <1>3, <1>4, <1>5, <1>6, <1>7, <1>8, <1>9, <1>10, <1>11, <1>12
  DEF FilesNext, FilesGesture, PasteAnswer, CancelUpload

(* No content is lost unasked, whatever pastes, deletes, renames, uploads and saves are under
   way together and wherever the page goes meanwhile (web/manager.js 271-302, 1583-1599). *)
THEOREM FilesCorrect == FilesSpec => []NothingLost
<1>1. FilesInv => NothingLost
  BY DEF FilesInv
<1>2. QED
  BY <1>1, FilesInvInit, FilesInvStep, PTL DEF FilesSpec

-----------------------------------------------------------------------------
(* Calls act where they were asked for *)

(* What a call under way keeps is the place it was asked at. *)
PlacesKept ==
  /\ pasting # Off => pasting.target = asked["paste"]
  /\ removing # Off => removing.place = asked["remove"]
  /\ \A u \in Uploads : uploads[u] # Off => uploads[u].place = asked[u]

PlaceInv == FilesTypeOK /\ PlacesKept /\ ActsWhereAsked

(* A step that asks for no call and moves none. *)
LEMMA PlacesAlone ==
  ASSUME PlaceInv, UNCHANGED placement,
         pasting' = Off \/ pasting' = pasting, removing' = Off \/ removing' = removing,
         \A u \in Uploads : uploads'[u] = Off \/ uploads'[u] = uploads[u]
                             \/ (uploads[u] # Off /\ uploads'[u].place = uploads[u].place)
  PROVE  PlacesKept' /\ ActsWhereAsked'
BY DEF PlaceInv, PlacesKept, ActsWhereAsked, placement

LEMMA PlaceStep == PlaceInv /\ [FilesNext]_filesVars => PlaceInv'
<1> SUFFICES ASSUME PlaceInv, [FilesNext]_filesVars PROVE PlacesKept' /\ ActsWhereAsked'
  BY FilesTypeStep DEF PlaceInv
<1> USE FilesAssumption DEF outcomes
<1>a. /\ FilesTypeOK /\ PlacesKept /\ ActsWhereAsked
      /\ pasting \in PasteCall \cup {Off} /\ removing \in RemoveCall \cup {Off}
      /\ asked \in [AskedCalls -> Directories \cup {NoFile}]
      /\ uploads \in [Uploads -> UploadCall \cup {Off}]
      /\ Uploads \subseteq AskedCalls /\ "paste" \in AskedCalls \ Uploads /\ "remove" \in AskedCalls \ Uploads
  BY DEF PlaceInv, FilesTypeOK, AskedCalls
<1>1. CASE Paste
  <2>1. /\ asked' = [asked EXCEPT !["paste"] = here] /\ misplaced' = misplaced
        /\ UNCHANGED <<removing, uploads>> /\ pasting'.target = here
    BY <1>1 DEF Paste, AskedAt, uploading
  <2>2. QED
    BY <1>a, <2>1 DEF PlacesKept, ActsWhereAsked
<1>2. ASSUME NEW names \in SUBSET FileNames, RemoveSelected(names) PROVE PlacesKept' /\ ActsWhereAsked'
  <2>1. /\ asked' = [asked EXCEPT !["remove"] = here] /\ misplaced' = misplaced
        /\ UNCHANGED <<pasting, uploads>> /\ removing'.place = here
    BY <1>2 DEF RemoveSelected, AskedAt, uploading
  <2>2. QED
    BY <1>a, <2>1 DEF PlacesKept, ActsWhereAsked
<1>3. ASSUME NEW u \in Uploads, NEW names \in UploadBatches, Picked(u, names) \/ \E p \in Directories : Drop(u, names, p)
      PROVE  PlacesKept' /\ ActsWhereAsked'
  <2>1. PICK p, listed : NewBatch(u, Batch(names, p, listed)) /\ AskedAt(u, p) /\ UNCHANGED <<pasting, removing>>
    BY <1>3 DEF Picked, Drop
  <2>2. /\ asked' = [asked EXCEPT ![u] = p] /\ misplaced' = misplaced
        /\ uploads'[u].place = p /\ \A v \in Uploads \ {u} : uploads'[v] = uploads[v]
    BY <1>a, <2>1 DEF NewBatch, Batch, AskedAt
  <2>3. QED
    BY <1>a, <2>1, <2>2 DEF PlacesKept, ActsWhereAsked
<1>4. CASE PasteName
  <2>1. /\ pasting # Off /\ pasting \in PasteCall /\ PasteTarget = asked["paste"]
        /\ ActsAt("paste", PasteTarget) /\ UNCHANGED <<removing, uploads>>
    BY <1>4, <1>a DEF PasteName, PasteTarget, PlacesKept, Off, uploading
  <2>2. pasting'.target = pasting.target
    BY <1>4, <2>1 DEF PasteName, Pasted, PasteCall
  <2>3. QED
    BY <1>a, <2>1, <2>2 DEF ActsAt, PlacesKept, ActsWhereAsked
<1>5. CASE PasteDeletes
  <2>1. /\ pasting # Off /\ pasting \in PasteCall /\ UNCHANGED <<placement, removing, uploads>>
    BY <1>5, <1>a DEF PasteDeletes, Off, uploading
  <2>2. pasting'.target = pasting.target
    BY <1>5, <2>1 DEF PasteDeletes, Pasted, PasteCall
  <2>3. QED
    BY <1>a, <2>1, <2>2 DEF placement, PlacesKept, ActsWhereAsked
<1>6. ASSUME NEW n \in FileNames, RemoveNext(n) PROVE PlacesKept' /\ ActsWhereAsked'
  <2>1. /\ removing # Off /\ removing \in RemoveCall /\ RemovePlace = asked["remove"]
        /\ ActsAt("remove", RemovePlace) /\ UNCHANGED <<pasting, uploads>>
    BY <1>6, <1>a DEF RemoveNext, RemovePlace, PlacesKept, Off, uploading
  <2>2. removing'.place = removing.place
    BY <1>6, <2>1 DEF RemoveNext, RemoveCall
  <2>3. QED
    BY <1>a, <2>1, <2>2 DEF ActsAt, PlacesKept, ActsWhereAsked
<1>7. CASE RemoveAnswered
  <2>1. removing # Off /\ removing \in RemoveCall /\ UNCHANGED <<placement, pasting, uploads>>
    BY <1>7, <1>a DEF RemoveAnswered, Off, uploading
  <2>2. removing' = Off \/ removing'.place = removing.place
    BY <1>7, <2>1 DEF RemoveAnswered, RemoveCall
  <2>3. QED
    BY <1>a, <2>1, <2>2 DEF placement, PlacesKept, ActsWhereAsked
<1>8. ASSUME NEW u \in Uploads, UploadSent(u) PROVE PlacesKept' /\ ActsWhereAsked'
  <2>1. /\ uploads[u] # Off /\ uploads[u] \in UploadCall /\ UploadPlace(u) = asked[u]
        /\ UNCHANGED <<pasting, removing>>
    BY <1>8, <1>a DEF UploadSent, UploadPlace, PlacesKept, Off
  <2>2. UNCHANGED placement
    BY <1>8, <1>a, <2>1 DEF UploadSent, ActsAt, placement
  <2>3. uploads'[u].place = uploads[u].place /\ \A v \in Uploads \ {u} : uploads'[v] = uploads[v]
    BY <1>8, <1>a, <2>1 DEF UploadSent, UploadCall
  <2>4. QED
    BY <2>1, <2>2, <2>3, PlacesAlone
<1>9. ASSUME NEW u \in Uploads, UploadNext(u) \/ UploadAgreed(u) \/ UploadSkipped(u) \/ UploadEnds(u)
      PROVE  PlacesKept' /\ ActsWhereAsked'
  <2>1. /\ uploads[u] # Off /\ uploads[u] \in UploadCall
        /\ UNCHANGED <<placement, pasting, removing>>
    BY <1>9, <1>a DEF UploadNext, UploadAgreed, UploadSkipped, UploadEnds, Off
  <2>2. /\ uploads'[u] = Off \/ uploads'[u].place = uploads[u].place
        /\ \A v \in Uploads \ {u} : uploads'[v] = uploads[v]
    BY <1>9, <1>a, <2>1 DEF UploadNext, UploadAgreed, UploadSkipped, UploadEnds, UploadCall
  <2>3. QED
    BY <2>1, <2>2, PlacesAlone
<1>10. CASE \/ ListingShown \/ ClearClipboard \/ OpenPicker \/ PasteDone \/ PasteFails \/ RemoveEnds
            \/ NewFileListed \/ NamingEnds \/ PreviewRead \/ ClosePreview \/ Save \/ EditorSaved \/ SaveFails
            \/ UNCHANGED filesVars
  <2>1. UNCHANGED <<placement, uploads>> /\ pasting' \in {Off, pasting} /\ removing' \in {Off, removing}
    BY <1>10 DEF ListingShown, ClearClipboard, OpenPicker, PasteDone, PasteFails, PasteFinally, RemoveEnds, NewFileListed,
                 NamingEnds, PreviewRead, ClosePreview, Save, EditorSaved, SaveFails, filesVars, calls, uploading
  <2>2. QED
    BY <2>1, PlacesAlone
<1>11. ASSUME \/ \E p \in Directories : Navigate(p) \/ \E n \in FileNames : OtherCreates(p, n)
              \/ \E names \in SUBSET FileNames, cut \in BOOLEAN : Copy(names, cut)
              \/ \E kind \in {"folder", "file", "rename"}, n \in FileNames \cup {NoFile} : Name(kind, n)
              \/ \E n \in FileNames : Preview(n) \/ Named(n)
       PROVE  PlacesKept' /\ ActsWhereAsked'
  <2>1. UNCHANGED <<placement, pasting, removing, uploads>>
    BY <1>11 DEF Navigate, OtherCreates, Copy, Name, Preview, Named, calls, uploading
  <2>2. QED
    BY <2>1, PlacesAlone
<1>12. QED
  BY <1>1, <1>2, <1>3, <1>4, <1>5, <1>6, <1>7, <1>8, <1>9, <1>10, <1>11
  DEF FilesNext, FilesGesture, PasteAnswer, CancelUpload

(* A paste puts, a delete removes and an upload sends, name by name, in the folder the user
   was in or pointed at when it was asked for, wherever the page is by then
   (web/manager.js 271-302, 1574-1600). *)
THEOREM PlaceCorrect == FilesSpec => []ActsWhereAsked
<1>1. FilesInit => PlaceInv
  BY FilesTypeInit DEF FilesInit, PlaceInv, PlacesKept, ActsWhereAsked
<1>2. PlaceInv => ActsWhereAsked
  BY DEF PlaceInv
<1>3. QED
  BY <1>1, <1>2, PlaceStep, PTL DEF FilesSpec
=============================================================================
