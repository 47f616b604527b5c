---------------------------- MODULE SessionWorker ----------------------------
(***************************************************************************)
(* One filesystem session (FilesystemSession, Worker and worker of         *)
(* sessions.py): coroutines of the event loop that stream and write files, *)
(* the threads that make their calls, the lock of the worker, the pipe and *)
(* the worker process at its end.                                          *)
(*                                                                         *)
(* A call is <<operation, request>>.  asyncio.to_thread runs it on a       *)
(* thread that waits for the lock, sends the request, and receives under   *)
(* the lock; the thread goes on when its coroutine is cancelled.           *)
(*                                                                         *)
(* Abstracted: time (whatever may expire can do so at any moment), the     *)
(* contents of files (a written file is counted in chunks), the requests   *)
(* that keep nothing in the worker (list, stat, mkdir, remove, rename),    *)
(* and the limit on uploads, which is the same as the one on files.        *)
(***************************************************************************)
EXTENDS Integers, Sequences, FiniteSets

CONSTANTS
  Streams,      \* calls of FilesystemSession.stream
  Writes,       \* calls of FilesystemSession.write
  MaxFiles,     \* files a worker keeps open: 4 in the code
  Chunks        \* chunks of an upload

ASSUME SessionAssumption ==
  /\ Streams \cap Writes = {}
  /\ MaxFiles \in Nat \ {0}
  /\ Chunks \in Nat

VARIABLES
  at,           \* at[o]: where the coroutine of operation o is
  sent,         \* sent[w]: chunks whose call has returned to w
  closed,       \* FilesystemSession.closed
  closing,      \* the thread that closes the session: "none", "waiting", "holding", "done",
                \* or "dropped" when it was cancelled before it ran
  waiting,      \* calls whose threads wait for Worker.lock
  holder,       \* holder of the lock: a call, the closing thread or nobody
  shutting,     \* the holder is in Worker.close
  requests,     \* pipe to the worker
  answers,      \* pipe from the worker: <<call, ok>>
  process,      \* worker process: "running", "leaving" its loop or "dead"
  files,        \* streams the worker has a file open for
  uploads,      \* writes the worker has an upload for
  written,      \* written[w]: chunks in the temporary file of w
  staged,       \* writes whose temporary file exists
  published,    \* writes whose destination is the uploaded file
  cut           \* history: streams cancelled while they open their file

coroutines == <<at, sent>>
session    == <<closed, closing>>
pipe       == <<requests, answers>>
tables     == <<files, uploads>>
storage    == <<written, staged, published>>
vars == <<coroutines, session, waiting, holder, shutting, pipe, process, tables, storage, cut>>

Operations == Streams \cup Writes
Nobody     == <<>>            \* no tuple of a call
Closer     == <<"close">>
Calls == (Streams \X {"open", "read", "release"}) \cup (Writes \X {"begin", "chunk", "commit", "abort"})

Over(o)  == IF o \in Streams THEN "done" ELSE "failed"
Undo(o)  == IF o \in Streams THEN <<o, "release">> ELSE <<o, "abort">>
Ended(o) == at[o] \in {"done", "ok", "failed"}
Pending(o) == \E c \in waiting \cup {holder} : c \in Calls /\ c[1] = o

Alive == process # "dead"

-----------------------------------------------------------------------------
(* Coroutines: _call, stream and write *)

(* _call on a session that is open: a thread takes the call. *)
Enter(o, state, request) ==
  /\ at' = [at EXCEPT ![o] = state]
  /\ waiting' = waiting \cup {<<o, request>>}

\* Mutant of Leave: the handle is not given back.
LeaveSilently(o, rest) ==
  /\ at' = [at EXCEPT ![o] = Over(o)]
  /\ waiting' = rest

(* The finally block of stream and of write, with the threads in rest still
   waiting: the handle is given back by a shielded call unless the session is
   closed. *)
Leave(o, rest) ==
  IF closed
  THEN /\ at' = [at EXCEPT ![o] = Over(o)]
       /\ waiting' = rest
  ELSE /\ at' = [at EXCEPT ![o] = "leaving"]
       /\ waiting' = rest \cup {Undo(o)}

StreamOpen(s) ==
  /\ at[s] = "idle" /\ ~closed
  /\ Enter(s, "opening", "open")
  /\ UNCHANGED <<sent, session, holder, shutting, pipe, process, tables, storage, cut>>

(* The consumer asks for the next chunk. *)
StreamRead(s) ==
  /\ at[s] = "streaming"
  /\ IF closed THEN Leave(s, waiting) ELSE Enter(s, "reading", "read")
  /\ UNCHANGED <<sent, session, holder, shutting, pipe, process, tables, storage, cut>>

(* The consumer stops between two chunks, or the last one was read. *)
StreamEnd(s) ==
  /\ at[s] = "streaming"
  /\ Leave(s, waiting)
  /\ UNCHANGED <<sent, session, holder, shutting, pipe, process, tables, storage, cut>>

WriteBegin(w) ==
  /\ at[w] = "idle" /\ ~closed
  /\ Enter(w, "beginning", "begin")
  /\ UNCHANGED <<sent, session, holder, shutting, pipe, process, tables, storage, cut>>

WriteChunk(w) ==
  /\ at[w] = "sending"
  /\ sent[w] < Chunks
  /\ IF closed THEN Leave(w, waiting) ELSE Enter(w, "chunking", "chunk")
  /\ UNCHANGED <<sent, session, holder, shutting, pipe, process, tables, storage, cut>>

\* Mutant of WriteCommit: an upload that ends early is committed.
WriteCommitEarly(w) ==
  /\ at[w] = "sending"
  /\ IF closed THEN Leave(w, waiting) ELSE Enter(w, "committing", "commit")
  /\ UNCHANGED <<sent, session, holder, shutting, pipe, process, tables, storage, cut>>

WriteCommit(w) ==
  /\ at[w] = "sending"
  /\ sent[w] = Chunks
  /\ IF closed THEN Leave(w, waiting) ELSE Enter(w, "committing", "commit")
  /\ UNCHANGED <<sent, session, holder, shutting, pipe, process, tables, storage, cut>>

(* The client's chunks fail: too large, incomplete or disconnected. *)
WriteSourceFails(w) ==
  /\ at[w] = "sending"
  /\ sent[w] < Chunks
  /\ Leave(w, waiting)
  /\ UNCHANGED <<sent, session, holder, shutting, pipe, process, tables, storage, cut>>

(* Cancelling a coroutine that awaits call c leaves the thread of c at work,
   unless the thread pool has not started it yet. *)
Abandoned(c) == {waiting, waiting \ {c}}

Cancel(o) ==
  /\ \/ /\ at[o] = "opening"
        /\ at' = [at EXCEPT ![o] = "done"]
        /\ waiting' \in Abandoned(<<o, "open">>)
        /\ cut' = cut \cup {o}
     \/ /\ at[o] \in {"reading", "chunking", "committing"}
        /\ \E rest \in UNION {Abandoned(<<o, r>>) : r \in {"read", "chunk", "commit"}} : Leave(o, rest)
        /\ UNCHANGED cut
     \/ /\ at[o] \in {"streaming", "sending"}
        /\ Leave(o, waiting)
        /\ UNCHANGED cut
     \/ /\ at[o] = "beginning"          \* shielded: begin_write is awaited first
        /\ at' = [at EXCEPT ![o] = "withdrawn"]
        /\ UNCHANGED <<waiting, cut>>
     \/ /\ at[o] = "leaving"            \* shielded: the call goes on alone
        /\ at' = [at EXCEPT ![o] = Over(o)]
        /\ UNCHANGED <<waiting, cut>>
  /\ UNCHANGED <<sent, session, holder, shutting, pipe, process, tables, storage>>

(* The state in which a coroutine awaits a request. *)
Awaiting(request) ==
  CASE request = "open"   -> {"opening"}
    [] request = "read"   -> {"reading"}
    [] request = "begin"  -> {"beginning", "withdrawn"}
    [] request = "chunk"  -> {"chunking"}
    [] request = "commit" -> {"committing"}
    [] OTHER              -> {"leaving"}

(* Call c returns or raises; its coroutine goes on if it still awaits it. *)
Deliver(c, ok, rest) ==
  LET o == c[1] IN
  \/ /\ at[o] \notin Awaiting(c[2])
     /\ waiting' = rest
     /\ UNCHANGED coroutines
  \/ /\ at[o] \in Awaiting(c[2])
     /\ \/ /\ c[2] \in {"open", "read", "begin", "chunk"} /\ ok /\ at[o] # "withdrawn"
           /\ at' = [at EXCEPT ![o] = IF o \in Streams THEN "streaming" ELSE "sending"]
           /\ sent' = IF c[2] = "chunk" THEN [sent EXCEPT ![o] = @ + 1] ELSE sent
           /\ waiting' = rest
        \/ /\ c[2] = "commit" /\ ok
           /\ at' = [at EXCEPT ![o] = "ok"]
           /\ waiting' = rest
           /\ UNCHANGED sent
        \/ /\ c[2] \in {"release", "abort"} \/ (c[2] \in {"open", "begin"} /\ ~ok)
           /\ at' = [at EXCEPT ![o] = Over(o)]
           /\ waiting' = rest
           /\ UNCHANGED sent
        \/ /\ (c[2] \in {"read", "chunk", "commit"} /\ ~ok) \/ (at[o] = "withdrawn" /\ ok)
           /\ Leave(o, rest)
           /\ UNCHANGED sent

-----------------------------------------------------------------------------
(* Threads: Worker.call, receive and close *)

(* Worker.call gets the lock; the request of a live worker is sent. *)
ThreadSend(c) ==
  /\ c \in waiting /\ holder = Nobody
  /\ Alive
  /\ waiting' = waiting \ {c}
  /\ holder' = c
  /\ requests' = Append(requests, c)
  /\ UNCHANGED <<coroutines, session, shutting, answers, process, tables, storage, cut>>

(* Worker.call gets the lock of a dead worker: session expired. *)
ThreadExpired(c) ==
  /\ c \in waiting /\ holder = Nobody
  /\ ~Alive
  /\ Deliver(c, FALSE, waiting \ {c})
  /\ UNCHANGED <<session, holder, shutting, pipe, process, tables, storage, cut>>

(* receive: an answer, or the end of the pipe of a worker that is gone. *)
ThreadReceive(c) ==
  /\ holder = c /\ ~shutting
  /\ IF answers # <<>>
     THEN /\ Deliver(c, Head(answers)[2], waiting)
          /\ answers' = Tail(answers)
     ELSE /\ ~Alive
          /\ Deliver(c, FALSE, waiting)
          /\ UNCHANGED answers
  /\ holder' = Nobody
  /\ UNCHANGED <<session, shutting, requests, process, tables, storage, cut>>

\* Mutant of ThreadTimeout: the call gives up and the worker stays.
ThreadGiveUp(c) ==
  /\ holder = c /\ ~shutting
  /\ answers = <<>> /\ Alive
  /\ holder' = Nobody
  /\ Deliver(c, FALSE, waiting)
  /\ UNCHANGED <<session, shutting, pipe, process, tables, storage, cut>>

\* Mutant of ThreadTimeout: receive polls without a limit while the session is open.
ThreadPatience(c) ==
  /\ holder = c /\ ~shutting
  /\ closed
  /\ answers = <<>> /\ Alive
  /\ shutting' = TRUE
  /\ UNCHANGED <<coroutines, session, waiting, holder, pipe, process, tables, storage, cut>>

(* receive: no answer for operation_timeout; Worker.close under the same lock. *)
ThreadTimeout(c) ==
  /\ holder = c /\ ~shutting
  /\ answers = <<>> /\ Alive
  /\ shutting' = TRUE
  /\ UNCHANGED <<coroutines, session, waiting, holder, pipe, process, tables, storage, cut>>

(* The end of Worker.close: the worker has left, or is killed after the grace. *)
Gone ==
  /\ shutting' = FALSE
  /\ holder' = Nobody
  /\ process' = "dead"
  /\ requests' = <<>> /\ answers' = <<>>
  /\ files' = {} /\ uploads' = {}
  /\ UNCHANGED <<storage, cut>>

ThreadTimedOut(c) ==
  /\ holder = c /\ shutting
  /\ Gone
  /\ Deliver(c, FALSE, waiting)
  /\ UNCHANGED session

\* Mutant of SessionClose: a session with calls under way is marked closed only.
SessionMark ==
  /\ ~closed
  /\ closed' = TRUE
  /\ closing' = IF holder = Nobody THEN "waiting" ELSE closing
  /\ UNCHANGED <<coroutines, waiting, holder, shutting, pipe, process, tables, storage, cut>>

(* FilesystemSession.close, on request, at expiry or when the browser closes. *)
SessionClose ==
  /\ ~closed
  /\ closed' = TRUE
  /\ closing' = "waiting"
  /\ UNCHANGED <<coroutines, waiting, holder, shutting, pipe, process, tables, storage, cut>>

(* The task that awaits the close is cancelled while the thread pool has not started
   it: closed stays set, so every later close returns at once. *)
CloseCancelled ==
  /\ closing = "waiting"
  /\ closing' = "dropped"
  /\ UNCHANGED <<coroutines, closed, waiting, holder, shutting, pipe, process, tables, storage, cut>>

CloseHold ==
  /\ closing = "waiting" /\ holder = Nobody
  /\ closing' = "holding"
  /\ holder' = Closer
  /\ shutting' = TRUE
  /\ UNCHANGED <<coroutines, closed, waiting, pipe, process, tables, storage, cut>>

\* Mutant of CloseEnd: a worker that does not leave in time is left alone.
CloseUnjoined ==
  /\ closing = "holding"
  /\ closing' = "done"
  /\ shutting' = FALSE
  /\ holder' = Nobody
  /\ UNCHANGED <<coroutines, closed, waiting, pipe, process, tables, storage, cut>>

CloseEnd ==
  /\ closing = "holding"
  /\ closing' = "done"
  /\ Gone
  /\ UNCHANGED <<coroutines, closed, waiting>>

Thread(c) == ThreadSend(c) \/ ThreadExpired(c) \/ ThreadReceive(c) \/ ThreadTimeout(c) \/ ThreadTimedOut(c)

-----------------------------------------------------------------------------
(* The worker process *)

Answer(c, ok) ==
  /\ requests' = Tail(requests)
  /\ answers' = Append(answers, <<c, ok>>)

\* Mutant of Fail: the worker swallows the error.
FailSilently(c) ==
  /\ c[2] # "release"
  /\ Answer(c, TRUE)
  /\ UNCHANGED <<tables, storage>>

(* The request fails and changes nothing; a failed chunk may be on disk in part,
   a failed commit keeps the upload. *)
Fail(c) ==
  /\ c[2] # "release"
  /\ Answer(c, FALSE)
  /\ IF c[2] = "abort" THEN uploads' = uploads \ {c[1]} ELSE UNCHANGED uploads
  /\ UNCHANGED <<files, storage>>

Open(s) ==
  /\ Cardinality(files) < MaxFiles
  /\ files' = files \cup {s}
  /\ UNCHANGED <<uploads, storage>>

Read(s) ==
  /\ s \in files
  /\ UNCHANGED <<tables, storage>>

Release(s) ==
  /\ files' = files \ {s}
  /\ UNCHANGED <<uploads, storage>>

Begin(w) ==
  /\ uploads' = uploads \cup {w}
  /\ staged' = staged \cup {w}
  /\ UNCHANGED <<files, written, published>>

Chunk(w) ==
  /\ w \in uploads
  /\ written' = [written EXCEPT ![w] = @ + 1]
  /\ UNCHANGED <<tables, staged, published>>

(* The upload is forgotten once its commit has succeeded. *)
Commit(w) ==
  /\ w \in uploads
  /\ uploads' = uploads \ {w}
  /\ staged' = staged \ {w}
  /\ published' = published \cup {w}
  /\ UNCHANGED <<files, written>>

\* Mutant of Abort: the upload stays in the table.
AbortKeeps(w) ==
  /\ staged' = staged \ {w}
  /\ UNCHANGED <<tables, written, published>>

Abort(w) ==
  /\ uploads' = uploads \ {w}
  /\ staged' = IF w \in uploads THEN staged \ {w} ELSE staged
  /\ UNCHANGED <<files, written, published>>

Perform(c) ==
  LET o == c[1] IN
  \/ c[2] = "open" /\ Open(o)
  \/ c[2] = "read" /\ Read(o)
  \/ c[2] = "release" /\ Release(o)
  \/ c[2] = "begin" /\ Begin(o)
  \/ c[2] = "chunk" /\ Chunk(o)
  \/ c[2] = "commit" /\ Commit(o)
  \/ c[2] = "abort" /\ Abort(o)

Serve ==
  /\ process = "running"
  /\ requests # <<>>
  /\ LET c == Head(requests) IN
       \/ Perform(c) /\ Answer(c, TRUE)
       \/ Fail(c)
  /\ UNCHANGED <<coroutines, session, waiting, holder, shutting, process, cut>>

(* No request for idle_seconds, or the message of Worker.close: the loop ends. *)
WorkerLeave ==
  /\ process = "running"
  /\ requests = <<>>
  /\ process' = "leaving"
  /\ UNCHANGED <<coroutines, session, waiting, holder, shutting, pipe, tables, storage, cut>>

(* The finally block: uploads are aborted, files closed. *)
WorkerExit ==
  /\ process = "leaving"
  /\ process' = "dead"
  /\ staged' = staged \ uploads
  /\ files' = {} /\ uploads' = {}
  /\ UNCHANGED <<coroutines, session, waiting, holder, shutting, pipe, written, published, cut>>

(* A native library takes the process down. *)
WorkerCrash ==
  /\ Alive
  /\ process' = "dead"
  /\ files' = {} /\ uploads' = {}
  /\ UNCHANGED <<coroutines, session, waiting, holder, shutting, pipe, storage, cut>>

Worker == Serve \/ WorkerLeave \/ WorkerExit \/ WorkerCrash

-----------------------------------------------------------------------------
Init ==
  /\ at = [o \in Operations |-> "idle"]
  /\ sent = [w \in Writes |-> 0]
  /\ closed = FALSE
  /\ closing = "none"
  /\ waiting = {}
  /\ holder = Nobody
  /\ shutting = FALSE
  /\ requests = <<>> /\ answers = <<>>
  /\ process = "running"
  /\ files = {} /\ uploads = {}
  /\ written = [w \in Writes |-> 0]
  /\ staged = {} /\ published = {}
  /\ cut = {}

Coroutine(o) ==
  \/ o \in Streams /\ (StreamOpen(o) \/ StreamRead(o) \/ StreamEnd(o))
  \/ o \in Writes /\ (WriteBegin(o) \/ WriteChunk(o) \/ WriteCommit(o) \/ WriteSourceFails(o))
  \/ Cancel(o)

Next ==
  \/ \E o \in Operations : Coroutine(o)
  \/ \E c \in Calls : Thread(c)
  \/ SessionClose \/ CloseCancelled \/ CloseHold \/ CloseEnd
  \/ Worker

Locking(o) == \E c \in Calls : c[1] = o /\ (ThreadSend(c) \/ ThreadExpired(c))
Holding    == \E c \in Calls : ThreadReceive(c) \/ ThreadTimeout(c) \/ ThreadTimedOut(c)

(* Threads run, one that waits for a lock which is free again and again gets it,
   and Worker.close joins and kills within bounds.  The worker may hang in a request
   or at its end; a timeout is what ends a call then.  A worker without a request is
   in poll, which returns after idle_seconds.  Clients owe nothing. *)
Fairness ==
  /\ \A o \in Operations : SF_vars(Locking(o))
  /\ WF_vars(Holding)
  /\ SF_vars(CloseHold) /\ WF_vars(CloseEnd)
  /\ WF_vars(WorkerLeave)

Spec == Init /\ [][Next]_vars /\ Fairness

-----------------------------------------------------------------------------
(* Type invariant *)

TypeOK ==
  /\ at \in [Operations -> {"idle", "opening", "streaming", "reading", "beginning", "withdrawn",
                            "sending", "chunking", "committing", "leaving", "done", "ok", "failed"}]
  /\ sent \in [Writes -> 0 .. Chunks]
  /\ closed \in BOOLEAN /\ closing \in {"none", "waiting", "holding", "done", "dropped"}
  /\ waiting \subseteq Calls
  /\ holder \in Calls \cup {Nobody, Closer}
  /\ shutting \in BOOLEAN
  /\ requests \in Seq(Calls) /\ answers \in Seq(Calls \X BOOLEAN)
  /\ process \in {"running", "leaving", "dead"}
  /\ files \subseteq Streams /\ uploads \subseteq Writes
  /\ written \in [Writes -> 0 .. Chunks]
  /\ staged \subseteq Writes /\ published \subseteq Writes
  /\ cut \subseteq Streams

-----------------------------------------------------------------------------
(* Safety *)

(* The pipe carries at most the request of the call that holds the lock, or its
   answer: a late answer never meets a later request, because a timeout ends the
   worker under the same lock (sessions.py 178-198). *)
PipeInStep ==
  Alive =>
    IF holder \in Calls
    THEN \/ requests = <<holder>> /\ answers = <<>>
         \/ requests = <<>> /\ \E ok \in BOOLEAN : answers = <<<<holder, ok>>>>
    ELSE requests = <<>> /\ answers = <<>>

(* What a write published is the whole upload: no cancelled or failed chunk is
   missing from it, and nothing is committed after the client gave up sending
   (sessions.py 307-316, 77-92). *)
PublishedIsWhole == \A w \in published : written[w] = Chunks

(* An upload slot is given back once its write has ended and its threads are
   through, however it was cancelled (sessions.py 302-324, 88-97). *)
UploadsEnd ==
  \A w \in uploads : Ended(w) /\ ~closed => Pending(w)

(* Likewise the file of a stream, unless it was cancelled while it opened it. *)
StreamsEnd ==
  \A s \in files \ cut : Ended(s) /\ ~closed => Pending(s)

(* SECURITY.md: streams close on completion or disconnect.  Not one whose task
   is cancelled while it awaits open: nobody knows the handle (sessions.py 278). *)
StreamsClose ==
  \A s \in files : Ended(s) /\ ~closed => Pending(s)

(* When close has returned the worker is gone, and no thread can reach another
   one: calls that were waiting find the session expired (sessions.py 195, 200). *)
ClosedIsGone == closing = "done" => ~Alive /\ holder \notin Calls

(* Why: closing happens once and takes the lock from every call, and a worker that
   is gone does not come back.  ClosedIsGone made inductive (sessions.py 200-237). *)
ClosingOnce ==
  /\ closing # "none" => closed
  /\ closing = "holding" => holder = Closer
  /\ ClosedIsGone

-----------------------------------------------------------------------------
(* Liveness *)

(* The calls of an operation end, by an answer, an error or a timeout, though the
   worker may hang and other operations keep using it (sessions.py 178-198). *)
CallsEnd == \A o \in Operations : Pending(o) ~> ~Pending(o)

(* A session that is closed gets rid of its worker, also when its close was dropped:
   the calls under way end and the worker, left alone, stops by itself and is at most
   closing its files then (sessions.py 60, 97-107, 427-430). *)
CloseEnds == closed ~> ~Alive \/ (closing = "dropped" /\ process = "leaving")

-----------------------------------------------------------------------------
(* Refinement: an upload replaces its destination at once and tells the truth. *)

Told(w)    == IF at[w] \in {"ok", "failed"} THEN at[w] ELSE "pending"
Content(w) == IF w \notin published THEN "old" ELSE IF written[w] = Chunks THEN "new" ELSE "partial"

Upload == INSTANCE AtomicUpload WITH
  told <- [w \in Writes |-> Told(w)], content <- [w \in Writes |-> Content(w)]

UploadSpec == Upload!Spec
=============================================================================
