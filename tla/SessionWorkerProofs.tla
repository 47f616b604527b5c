------------------------- MODULE SessionWorkerProofs -------------------------
(***************************************************************************)
(* Theorems about SessionWorker, for every set of streams and writes, and  *)
(* every limit: the pipe stays in step, closing is final, what is          *)
(* published is whole, files and uploads are given back, and a session     *)
(* implements AtomicUpload.                                                *)
(***************************************************************************)
EXTENDS SessionWorker, TLAPS

LEMMA NotCalls == Nobody \notin Calls /\ Closer \notin Calls /\ Nobody # Closer
BY DEF Nobody, Closer, Calls

(* The coroutines leave the threads, the pipe and the process alone. *)
LEMMA CoroutineKeeps ==
  ASSUME NEW o \in Operations, Coroutine(o)
  PROVE  UNCHANGED <<session, holder, shutting, pipe, process>>
BY DEF Coroutine, StreamOpen, StreamRead, StreamEnd, WriteBegin, WriteChunk, WriteCommit,
       WriteSourceFails, Cancel, session, pipe

-----------------------------------------------------------------------------
(* The pipe *)

LEMMA PipeServed ==
  ASSUME PipeInStep, Serve
  PROVE  PipeInStep'
<1>1. Alive /\ holder \in Calls /\ requests = <<holder>> /\ answers = <<>>
  BY DEF Serve, PipeInStep, Alive
<1>2. PICK ok \in BOOLEAN : Answer(Head(requests), ok)
  BY DEF Serve, Fail
<1>3. requests' = <<>> /\ answers' = <<<<holder, ok>>>>
  BY <1>1, <1>2 DEF Answer
<1>4. holder' = holder
  BY DEF Serve
<1>5. QED
  BY <1>1, <1>3, <1>4 DEF PipeInStep, Calls

LEMMA PipeReceived ==
  ASSUME PipeInStep, NEW c \in Calls, ThreadReceive(c)
  PROVE  PipeInStep'
<1>1. holder = c /\ holder' = Nobody /\ process' = process /\ requests' = requests
  BY DEF ThreadReceive
<1>2. CASE ~Alive
  BY <1>1, <1>2 DEF PipeInStep, Alive
<1>3. CASE Alive
  <2>1. answers # <<>> /\ answers' = Tail(answers)
    BY <1>3 DEF ThreadReceive
  <2>2. PICK ok \in BOOLEAN : requests = <<>> /\ answers = <<<<c, ok>>>>
    BY <1>1, <1>3, <2>1 DEF PipeInStep
  <2>3. answers' = <<>>
    BY <2>1, <2>2
  <2>4. QED
    BY <1>1, <2>2, <2>3, NotCalls DEF PipeInStep
<1>4. QED
  BY <1>2, <1>3

(* A new worker has an empty pipe and an unused lock. *)
THEOREM PipeInit == Init => PipeInStep
BY NotCalls DEF Init, PipeInStep

(* PipeInStep is inductive: a request is sent and answered under one lock, and a
   call that gives up takes the worker with it. *)
THEOREM PipeStep == PipeInStep /\ [Next]_vars => PipeInStep'
<1> SUFFICES ASSUME PipeInStep, [Next]_vars PROVE PipeInStep'
  OBVIOUS
<1>1. ASSUME NEW o \in Operations, Coroutine(o) PROVE PipeInStep'
  BY <1>1, CoroutineKeeps DEF PipeInStep, Alive, pipe, Calls
<1>2. ASSUME NEW c \in Calls, Thread(c) PROVE PipeInStep'
  <2>1. CASE ThreadSend(c)
    <3>1. holder = Nobody /\ Alive /\ requests = <<>> /\ answers = <<>>
      BY <2>1, NotCalls DEF ThreadSend, PipeInStep
    <3>2. requests' = <<c>> /\ answers' = <<>> /\ holder' = c
      BY <2>1, <3>1 DEF ThreadSend
    <3>3. QED
      BY <3>2 DEF PipeInStep
  <2>2. CASE ThreadExpired(c)
    BY <2>2 DEF ThreadExpired, PipeInStep, Alive
  <2>3. CASE ThreadReceive(c)
    BY <2>3, PipeReceived
  <2>4. CASE ThreadTimeout(c)
    BY <2>4 DEF ThreadTimeout, PipeInStep, Alive, pipe, Calls
  <2>5. CASE ThreadTimedOut(c)
    BY <2>5 DEF ThreadTimedOut, Gone, PipeInStep, Alive
  <2>6. QED
    BY <1>2, <2>1, <2>2, <2>3, <2>4, <2>5 DEF Thread
<1>3. CASE SessionClose \/ CloseCancelled
  BY <1>3 DEF SessionClose, CloseCancelled, PipeInStep, Alive, pipe, Calls
<1>4. CASE CloseHold
  BY <1>4, NotCalls DEF CloseHold, PipeInStep, Alive, pipe
<1>5. CASE CloseEnd
  BY <1>5 DEF CloseEnd, Gone, PipeInStep, Alive
<1>6. CASE Worker
  <2>1. CASE Serve
    BY <2>1, PipeServed
  <2>2. CASE WorkerLeave
    BY <2>2 DEF WorkerLeave, PipeInStep, Alive, pipe, Calls
  <2>3. CASE WorkerExit \/ WorkerCrash
    BY <2>3 DEF WorkerExit, WorkerCrash, PipeInStep, Alive
  <2>4. QED
    BY <1>6, <2>1, <2>2, <2>3 DEF Worker
<1>7. CASE UNCHANGED vars
  BY <1>7 DEF vars, PipeInStep, Alive, pipe, Calls
<1>8. QED
  BY <1>1, <1>2, <1>3, <1>4, <1>5, <1>6, <1>7 DEF Next

(* No answer is ever taken for that of another call. *)
THEOREM PipeCorrect == Spec => []PipeInStep
BY PipeInit, PipeStep, PTL DEF Spec

-----------------------------------------------------------------------------
(* Closing *)

(* An open session is not closing. *)
THEOREM ClosingInit == Init => ClosingOnce
BY DEF Init, ClosingOnce, ClosedIsGone

(* Once close holds the lock no call takes it, and what has ended stays ended. *)
THEOREM ClosingStep == ClosingOnce /\ [Next]_vars => ClosingOnce'
<1> SUFFICES ASSUME ClosingOnce, [Next]_vars PROVE ClosingOnce'
  OBVIOUS
<1> USE NotCalls DEF ClosingOnce, ClosedIsGone, Alive, session
<1>1. ASSUME NEW o \in Operations, Coroutine(o) PROVE ClosingOnce'
  BY <1>1, CoroutineKeeps DEF Calls
<1>2. ASSUME NEW c \in Calls, Thread(c) PROVE ClosingOnce'
  BY <1>2 DEF Thread, ThreadSend, ThreadExpired, ThreadReceive, ThreadTimeout, ThreadTimedOut, Gone, Calls
<1>3. CASE SessionClose \/ CloseCancelled
  BY <1>3 DEF SessionClose, CloseCancelled
<1>4. CASE CloseHold
  BY <1>4 DEF CloseHold
<1>5. CASE CloseEnd
  BY <1>5 DEF CloseEnd, Gone
<1>6. CASE Worker
  BY <1>6 DEF Worker, Serve, WorkerLeave, WorkerExit, WorkerCrash, Calls
<1>7. CASE UNCHANGED vars
  BY <1>7 DEF vars, Calls
<1>8. QED
  BY <1>1, <1>2, <1>3, <1>4, <1>5, <1>6, <1>7 DEF Next

(* A session that has closed has no worker, and no call holds its lock. *)
THEOREM ClosedCorrect == Spec => []ClosedIsGone
<1>1. ClosingOnce => ClosedIsGone
  BY DEF ClosingOnce
<1>2. Spec => []ClosingOnce
  BY ClosingInit, ClosingStep, PTL DEF Spec
<1>3. QED
  BY <1>1, <1>2, PTL
-----------------------------------------------------------------------------
(* Uploads and files: the invariant *)

Out(c)       == c \in waiting \cup {holder}
Reply(c, ok) == answers = <<<<c, ok>>>>

(* The types the argument needs, the pipe (whatever became of the worker, an
   answer in it is the holder's) and a worker that is gone. *)
Ground ==
  /\ at \in [Operations -> {"idle", "opening", "streaming", "reading", "beginning", "withdrawn",
                            "sending", "chunking", "committing", "leaving", "done", "ok", "failed"}]
  /\ sent \in [Writes -> Nat] /\ written \in [Writes -> Nat]
  /\ waiting \subseteq Calls /\ cut \subseteq Streams
  /\ files \subseteq Streams /\ uploads \subseteq Writes /\ published \subseteq Writes
  /\ PipeInStep
  /\ answers # <<>> => holder \in Calls /\ \E ok \in BOOLEAN : Reply(holder, ok)
  /\ ~Alive => files = {} /\ uploads = {}

(* Which calls of a write may be out, and in which states of its coroutine. *)
CallsOf(w) ==
  /\ at[w] \in {"idle", "beginning", "withdrawn", "sending", "chunking", "committing",
               "leaving", "ok", "failed"}
  /\ Out(<<w, "begin">>) => at[w] \in {"beginning", "withdrawn"}
  /\ Out(<<w, "chunk">>) => at[w] \in {"chunking", "leaving", "failed"} /\ ~Out(<<w, "commit">>)
  /\ Out(<<w, "commit">>) => at[w] \in {"committing", "leaving", "failed"}
  /\ Out(<<w, "abort">>) => at[w] \in {"leaving", "failed"}
  /\ \A r \in {"begin", "chunk", "commit"} : <<w, r>> \notin waiting \cap {holder}

(* What is written is what was sent, and one chunk more once the worker has
   answered; a commit is asked for, and made, when all of it is there. *)
Progress(w) ==
  /\ at[w] \in {"idle", "beginning", "withdrawn"} => sent[w] = 0 /\ written[w] = 0
  /\ at[w] = "sending" => written[w] = sent[w] /\ sent[w] <= Chunks
  /\ Out(<<w, "chunk">>) =>
       /\ sent[w] < Chunks
       /\ written[w] = IF Reply(<<w, "chunk">>, TRUE) THEN sent[w] + 1 ELSE sent[w]
  /\ Out(<<w, "commit">>) => written[w] = Chunks
  /\ Reply(<<w, "commit">>, TRUE) \/ at[w] = "ok" => w \in published
  /\ w \in published =>
       /\ written[w] = Chunks
       /\ at[w] \in {"committing", "leaving", "failed", "ok"}
       /\ ~Out(<<w, "chunk">>)

(* Where the upload of a write may be. *)
Slot(w) ==
  /\ at[w] \in {"idle", "ok"} => w \notin uploads
  /\ at[w] \in {"beginning", "withdrawn"} /\ w \in uploads => Reply(<<w, "begin">>, TRUE)
  /\ Reply(<<w, "commit">>, TRUE) => w \notin uploads
  /\ \A ok \in BOOLEAN : Reply(<<w, "abort">>, ok) => w \notin uploads
  /\ at[w] \in {"leaving", "failed"} /\ w \in uploads /\ ~closed => Out(<<w, "abort">>)

(* Where the file of a stream may be. *)
File(s) ==
  /\ at[s] \in {"idle", "opening", "streaming", "reading", "leaving", "done"}
  /\ Out(<<s, "open">>) => at[s] = "opening"
  /\ <<s, "open">> \notin waiting \cap {holder}
  /\ Out(<<s, "release">>) => at[s] \in {"leaving", "done"}
  /\ at[s] = "idle" => s \notin files
  /\ at[s] = "opening" /\ s \in files => Reply(<<s, "open">>, TRUE)
  /\ \A ok \in BOOLEAN : Reply(<<s, "release">>, ok) => s \notin files
  /\ at[s] \in {"leaving", "done"} /\ s \in files /\ ~closed => Out(<<s, "release">>)

(* The handles of a session are in order: the inductive invariant. *)
Handles ==
  /\ Ground
  /\ \A w \in Writes : CallsOf(w) /\ Progress(w) /\ Slot(w)
  /\ \A s \in Streams \ cut : File(s)
  /\ \A s \in cut : at[s] = "done"

(* A call is an operation and a request of it, and neither nobody nor the closer. *)
LEMMA CallShape ==
  ASSUME NEW c \in Calls
  PROVE  /\ c = <<c[1], c[2]>>
         /\ \/ c[1] \in Streams /\ c[2] \in {"open", "read", "release"}
            \/ c[1] \in Writes /\ c[2] \in {"begin", "chunk", "commit", "abort"}
         /\ c # Nobody /\ c # Closer
BY DEF Calls, Nobody, Closer

(* A write is untouched by a step that leaves its coroutine, its calls, its
   answer and its file as they are, and at most takes its upload away. *)
LEMMA WriteUntouched ==
  ASSUME NEW w \in Writes, CallsOf(w), Progress(w), Slot(w),
         at'[w] = at[w], sent'[w] = sent[w], written'[w] = written[w],
         (w \in published') = (w \in published), w \in uploads' => w \in uploads,
         closed => closed',
         \A r \in {"begin", "chunk", "commit", "abort"} : Out(<<w, r>>)' <=> Out(<<w, r>>),
         \A r \in {"begin", "chunk", "commit", "abort"} : \A ok \in BOOLEAN :
            Reply(<<w, r>>, ok)' <=> Reply(<<w, r>>, ok),
         \A r \in {"begin", "chunk", "commit", "abort"} :
            <<w, r>> \in (waiting \cap {holder})' => <<w, r>> \in waiting \cap {holder}
  PROVE  CallsOf(w)' /\ Progress(w)' /\ Slot(w)'
BY DEF CallsOf, Progress, Slot

(* Likewise a stream. *)
LEMMA StreamUntouched ==
  ASSUME NEW s \in Streams, File(s),
         at'[s] = at[s], s \in files' => s \in files, closed => closed',
         \A r \in {"open", "release"} : Out(<<s, r>>)' <=> Out(<<s, r>>),
         <<s, "open">> \in (waiting \cap {holder})' => <<s, "open">> \in waiting \cap {holder},
         \A r \in {"open", "release"} : \A ok \in BOOLEAN :
            Reply(<<s, r>>, ok)' <=> Reply(<<s, r>>, ok)
  PROVE  File(s)'
BY DEF File

(* The start of every session. *)
LEMMA HandlesInit == Init => Handles
<1> SUFFICES ASSUME Init PROVE Handles
  OBVIOUS
<1>1. Ground
  BY PipeInit, SessionAssumption DEF Init, Ground, Operations, Alive
<1>2. ASSUME NEW w \in Writes PROVE CallsOf(w) /\ Progress(w) /\ Slot(w)
  BY <1>2, SessionAssumption DEF Init, CallsOf, Progress, Slot, Out, Reply, Nobody, Operations
<1>3. ASSUME NEW s \in Streams PROVE File(s)
  BY <1>3 DEF Init, File, Out, Reply, Nobody, Operations
<1>4. QED
  BY <1>1, <1>2, <1>3 DEF Handles, Init

(* One answer is the answer to one call. *)
LEMMA ReplyOnce ==
  ASSUME NEW c, NEW d, NEW t, NEW u, Reply(c, t), Reply(d, u)
  PROVE  c = d /\ t = u
BY DEF Reply

(* What an action that only touches operation o and its calls leaves alone. *)
OthersKeep(o) ==
  \A c \in Calls : c[1] # o =>
    /\ Out(c)' <=> Out(c)
    /\ \A ok \in BOOLEAN : Reply(c, ok)' <=> Reply(c, ok)
    /\ c \in (waiting \cap {holder})' => c \in waiting \cap {holder}

(* So a step of operation o is about the handles of o. *)
LEMMA OthersUntouched ==
  ASSUME Handles, NEW o \in Operations, OthersKeep(o),
         \A p \in Operations \ {o} : at'[p] = at[p],
         \A w \in Writes \ {o} : sent'[w] = sent[w] /\ written'[w] = written[w]
                                 /\ (w \in published') = (w \in published)
                                 /\ (w \in uploads' => w \in uploads),
         \A s \in Streams \ {o} : s \in files' => s \in files,
         closed => closed'
  PROVE  /\ \A w \in Writes \ {o} : CallsOf(w)' /\ Progress(w)' /\ Slot(w)'
         /\ \A s \in (Streams \ cut) \ {o} : File(s)'
<1>1. ASSUME NEW w \in Writes \ {o} PROVE CallsOf(w)' /\ Progress(w)' /\ Slot(w)'
  <2>1. \A r \in {"begin", "chunk", "commit", "abort"} : <<w, r>> \in Calls /\ <<w, r>>[1] = w
    BY DEF Calls
  <2>2. /\ \A r \in {"begin", "chunk", "commit", "abort"} : Out(<<w, r>>)' <=> Out(<<w, r>>)
        /\ \A r \in {"begin", "chunk", "commit", "abort"} : \A ok \in BOOLEAN :
              Reply(<<w, r>>, ok)' <=> Reply(<<w, r>>, ok)
        /\ \A r \in {"begin", "chunk", "commit", "abort"} :
              <<w, r>> \in (waiting \cap {holder})' => <<w, r>> \in waiting \cap {holder}
    BY <2>1 DEF OthersKeep
  <2>3. CallsOf(w) /\ Progress(w) /\ Slot(w)
    BY DEF Handles
  <2>4. w \in Writes /\ w \in Operations \ {o}
    BY DEF Operations
  <2>5. QED
    BY <2>2, <2>3, <2>4, WriteUntouched
<1>2. ASSUME NEW s \in (Streams \ cut) \ {o} PROVE File(s)'
  <2>1. \A r \in {"open", "release"} : <<s, r>> \in Calls /\ <<s, r>>[1] = s
    BY DEF Calls
  <2>2. /\ \A r \in {"open", "release"} : Out(<<s, r>>)' <=> Out(<<s, r>>)
        /\ \A r \in {"open", "release"} : \A ok \in BOOLEAN :
              Reply(<<s, r>>, ok)' <=> Reply(<<s, r>>, ok)
        /\ <<s, "open">> \in (waiting \cap {holder})' => <<s, "open">> \in waiting \cap {holder}
    BY <2>1 DEF OthersKeep
  <2>3. File(s) /\ s \in Streams /\ s \in Operations \ {o}
    BY DEF Handles, Operations
  <2>4. QED
    BY <2>2, <2>3, StreamUntouched
<1>3. QED
  BY <1>1, <1>2

(* A thread is through with call c, with an answer or with an error that is the
   worker's or comes of its end; the lock is free and the pipe empty. *)
LEMMA Delivered ==
  ASSUME Handles, PipeInStep', NEW c \in Calls, Out(c), NEW ok \in BOOLEAN, NEW rest,
         Deliver(c, ok, rest), rest \in {waiting, waiting \ {c}},
         holder \in {c, Nobody}, holder' = Nobody, answers' = <<>>,
         \A d \in Calls : \A t \in BOOLEAN : Reply(d, t) => d = c,
         ok => Reply(c, TRUE),
         ~ok => Reply(c, FALSE) \/ (uploads' = {} /\ files' = {}),
         c \notin rest \/ holder = c,
         ~Alive' => uploads' = {} /\ files' = {},
         uploads' \subseteq uploads, files' \subseteq files,
         UNCHANGED <<closed, written, published, cut>>
  PROVE  Handles'
<1> DEFINE o == c[1]
<1>0. /\ c = <<o, c[2]>> /\ o \in Operations /\ c # Nobody
      /\ \/ o \in Streams /\ o \notin Writes /\ c[2] \in {"open", "read", "release"}
         \/ o \in Writes /\ o \notin Streams /\ c[2] \in {"begin", "chunk", "commit", "abort"}
  BY CallShape, SessionAssumption DEF Operations
<1> HIDE DEF o
<1>1. /\ waiting' = rest \/ waiting' = rest \cup {Undo(o)}
      /\ at' = at \/ \E x \in {"streaming", "sending", "ok", Over(o), "leaving"} : at' = [at EXCEPT ![o] = x]
      /\ sent' = sent \/ (o \in Writes /\ sent' = [sent EXCEPT ![o] = @ + 1])
  BY <1>0 DEF Deliver, Leave, coroutines, o
<1>2. Undo(o) \in Calls /\ Undo(o)[1] = o
  BY <1>0 DEF Undo, Calls
<1>3. Ground'
  <2>1. at' \in [Operations -> {"idle", "opening", "streaming", "reading", "beginning", "withdrawn",
                             "sending", "chunking", "committing", "leaving", "done", "ok", "failed"}]
    BY <1>0, <1>1 DEF Ground, Handles, Over
  <2>2. sent' \in [Writes -> Nat] /\ written' \in [Writes -> Nat]
    <3>1. sent \in [Writes -> Nat] /\ written \in [Writes -> Nat]
      BY DEF Ground, Handles
    <3>2. ASSUME o \in Writes PROVE [sent EXCEPT ![o] = @ + 1] \in [Writes -> Nat]
      BY <3>1, <3>2
    <3>3. QED
      BY <1>1, <3>1, <3>2
  <2>3. waiting' \subseteq Calls
    BY <1>1, <1>2 DEF Ground, Handles
  <2>4. QED
    BY <2>1, <2>2, <2>3 DEF Ground, Handles
<1>4. OthersKeep(o)
  <2>1. \A d \in Calls : \A t \in BOOLEAN : ~Reply(d, t)'
    BY DEF Reply
  <2>2. ASSUME NEW d \in Calls, d[1] # o
        PROVE  (Out(d)' <=> Out(d)) /\ ~(d \in (waiting \cap {holder})')
    <3>1. d # c /\ d # Undo(o) /\ d # Nobody
      BY <1>2, <2>2, CallShape DEF o
    <3>2. d \in waiting' <=> d \in waiting
      BY <1>1, <3>1
    <3>3. QED
      BY <3>1, <3>2 DEF Out
  <2>3. \A d \in Calls : d[1] # o => \A t \in BOOLEAN : ~Reply(d, t)
    BY DEF o
  <2>4. QED
    BY <2>1, <2>2, <2>3 DEF OthersKeep
<1>5. /\ \A w \in Writes \ {o} : CallsOf(w)' /\ Progress(w)' /\ Slot(w)'
      /\ \A s \in (Streams \ cut) \ {o} : File(s)'
  BY <1>0, <1>1, <1>4, OthersUntouched DEF Handles, Ground
<1>6. ASSUME o \in Writes PROVE CallsOf(o)' /\ Progress(o)' /\ Slot(o)'
  <2> USE <1>6
  <2>1. /\ o \notin Streams /\ c[2] \in {"begin", "chunk", "commit", "abort"}
        /\ Over(o) = "failed" /\ Undo(o) = <<o, "abort">>
        /\ c = <<o, c[2]>>
    BY <1>0 DEF Over, Undo
  <2>2. CallsOf(o) /\ Progress(o) /\ Slot(o) /\ sent[o] \in Nat
    BY DEF Handles, Ground
  <2> DEFINE W == {"begin", "chunk", "commit", "abort"}
  <2>3. /\ \A r \in W : Out(<<o, r>>)' <=> <<o, r>> \in waiting'
        /\ \A r \in W : \A t \in BOOLEAN : ~Reply(<<o, r>>, t)'
        /\ \A r \in W : <<o, r>> \notin (waiting \cap {holder})'
    BY DEF Out, Reply, Nobody
  <2>4. /\ \A r \in W : \A t \in BOOLEAN : Reply(<<o, r>>, t) => c[2] = r
        /\ ok => Reply(<<o, c[2]>>, TRUE)
        /\ ~ok => o \notin uploads' \/ Reply(<<o, c[2]>>, FALSE)
        /\ \A r \in W : ~(Reply(<<o, r>>, TRUE) /\ Reply(<<o, r>>, FALSE))
    <3>1. \A r \in W : <<o, r>> \in Calls
      BY DEF Calls
    <3>2. \A r \in W : \A t \in BOOLEAN : Reply(<<o, r>>, t) => <<o, r>> = c
      BY <3>1
    <3>3. \A r \in W : \A t \in BOOLEAN : Reply(<<o, r>>, t) => c[2] = r
      BY <3>2
    <3>4. /\ ok => Reply(<<o, c[2]>>, TRUE)
          /\ ~ok => o \notin uploads' \/ Reply(<<o, c[2]>>, FALSE)
      BY <2>1
    <3>5. \A r \in W : ~(Reply(<<o, r>>, TRUE) /\ Reply(<<o, r>>, FALSE))
      BY ReplyOnce
    <3>6. QED
      BY <3>3, <3>4, <3>5
  <2>5. /\ \A r \in W : <<o, r>> \in rest => Out(<<o, r>>)
        /\ \A r \in W \ {"abort"} : <<o, r>> \in rest => c[2] # r
        /\ \A r \in W : Out(<<o, r>>) /\ c[2] # r => <<o, r>> \in rest
    <3>1. \A r \in W : <<o, r>> # Nobody /\ (<<o, r>> = c => c[2] = r)
      BY DEF Nobody
    <3>2. \A r \in W \ {"abort"} : <<o, r>> \in rest => c[2] # r
      BY <2>1, <2>2 DEF CallsOf
    <3>3. QED
      BY <3>1, <3>2 DEF Out
  <2>6. /\ written'[o] = written[o] /\ (o \in published') = (o \in published)
        /\ closed' = closed /\ (o \in uploads' => o \in uploads)
    OBVIOUS
  <2>7. CASE at[o] \notin Awaiting(c[2])
    <3>1. at' = at /\ sent' = sent /\ waiting' = rest
      BY <2>7, <1>0 DEF Deliver, o, coroutines
    <3>2. \A r \in W : Out(<<o, r>>)' => Out(<<o, r>>)
      BY <2>3, <2>5, <3>1
    <3>3. CallsOf(o)'
      BY <2>2, <2>3, <2>5, <3>1, <3>2 DEF CallsOf
    <3>4. Progress(o)'
      BY <2>1, <2>2, <2>3, <2>4, <2>5, <2>6, <2>7, <3>1, <3>2 DEF Progress, Awaiting
    <3>5. Slot(o)'
      <4>1. Out(<<o, "abort">>) /\ o \in uploads' => Out(<<o, "abort">>)'
        BY <2>2, <2>3, <2>4, <2>5, <2>6, <3>1 DEF Slot
      <4>2. at[o] \in {"beginning", "withdrawn"} => o \notin uploads'
        BY <2>2, <2>4, <2>6, <2>7 DEF Slot, Awaiting
      <4>3. QED
        <5>1. at'[o] \in {"idle", "ok"} => o \notin uploads'
          BY <2>2, <2>6, <3>1 DEF Slot
        <5>2. at'[o] \in {"leaving", "failed"} /\ o \in uploads' /\ ~closed' => Out(<<o, "abort">>)'
          BY <2>2, <2>6, <3>1, <4>1 DEF Slot
        <5>3. ~Reply(<<o, "begin">>, TRUE)' /\ ~Reply(<<o, "commit">>, TRUE)' /\ \A t \in BOOLEAN : ~Reply(<<o, "abort">>, t)'
          BY <2>3
        <5>4. QED
          BY <5>1, <5>2, <5>3, <4>2, <3>1 DEF Slot
    <3>6. QED
      BY <3>3, <3>4, <3>5
  <2>8. CASE at[o] \in Awaiting(c[2])
    <3> DEFINE Goes(x) == at' = [at EXCEPT ![o] = x]
    <3>1. at[o] \in {"beginning", "withdrawn", "chunking", "committing", "leaving"}
      BY <2>1, <2>8 DEF Awaiting
    <3>2. \A x : Goes(x) => at'[o] = x
      BY <1>0 DEF Handles, Ground
    <3>3. \/ /\ c[2] \in {"begin", "chunk"} /\ ok /\ at[o] # "withdrawn" /\ Goes("sending")
             /\ waiting' = rest
             /\ sent' = IF c[2] = "chunk" THEN [sent EXCEPT ![o] = @ + 1] ELSE sent
          \/ c[2] = "commit" /\ ok /\ Goes("ok") /\ waiting' = rest /\ sent' = sent
          \/ c[2] = "abort" /\ Goes("failed") /\ waiting' = rest /\ sent' = sent
          \/ c[2] = "begin" /\ ~ok /\ Goes("failed") /\ waiting' = rest /\ sent' = sent
          \/ /\ (c[2] \in {"chunk", "commit"} /\ ~ok) \/ (c[2] = "begin" /\ ok)
             /\ Leave(o, rest) /\ sent' = sent
      <4>1. \/ /\ c[2] \in {"open", "read", "begin", "chunk"} /\ ok /\ at[o] # "withdrawn"
               /\ Goes(IF o \in Streams THEN "streaming" ELSE "sending")
               /\ sent' = IF c[2] = "chunk" THEN [sent EXCEPT ![o] = @ + 1] ELSE sent
               /\ waiting' = rest
            \/ /\ c[2] = "commit" /\ ok
               /\ Goes("ok") /\ waiting' = rest /\ sent' = sent
            \/ /\ c[2] \in {"release", "abort"} \/ (c[2] \in {"open", "begin"} /\ ~ok)
               /\ Goes(Over(o)) /\ waiting' = rest /\ sent' = sent
            \/ /\ (c[2] \in {"read", "chunk", "commit"} /\ ~ok) \/ (at[o] = "withdrawn" /\ ok)
               /\ Leave(o, rest) /\ sent' = sent
        BY <2>8 DEF Deliver, o
      <4>2. at[o] = "withdrawn" => c[2] = "begin"
        BY <2>1, <2>8 DEF Awaiting
      <4>3. /\ Over(o) = "failed" /\ (IF o \in Streams THEN "streaming" ELSE "sending") = "sending"
            /\ c[2] \in W /\ c[2] \notin {"open", "read", "release"}
        BY <2>1
      <4>4. Goes(IF o \in Streams THEN "streaming" ELSE "sending") <=> Goes("sending")
        BY <4>3
      <4>5. Goes(Over(o)) <=> Goes("failed")
        BY <4>3
      <4> HIDE DEF Goes
      <4>6. QED
        BY <4>1, <4>2, <4>3, <4>4, <4>5
    <3> HIDE DEF Goes
    <3>4. CASE /\ c[2] \in {"begin", "chunk"} /\ ok /\ at[o] # "withdrawn" /\ Goes("sending")
               /\ waiting' = rest
               /\ sent' = IF c[2] = "chunk" THEN [sent EXCEPT ![o] = @ + 1] ELSE sent
      <4>1. at'[o] = "sending"
        BY <3>2, <3>4
      <4>2. at[o] = IF c[2] = "begin" THEN "beginning" ELSE "chunking"
        BY <2>8, <3>4 DEF Awaiting
      <4>3. \A r \in W : ~Out(<<o, r>>)'
        BY <2>2, <2>3, <2>5, <3>4, <4>2 DEF CallsOf
      <4>4. CallsOf(o)'
        BY <2>3, <4>1, <4>3 DEF CallsOf
      <4>5. Out(<<o, c[2]>>) /\ Reply(<<o, c[2]>>, TRUE)
        BY <2>1, <2>4, <3>4
      <4>6. o \notin published
        BY <2>2, <4>2 DEF Progress
      <4>7. written'[o] = sent'[o] /\ sent'[o] <= Chunks
        <5>1. CASE c[2] = "begin"
          BY <2>2, <2>6, <3>4, <4>2, <5>1, SessionAssumption DEF Progress
        <5>2. CASE c[2] = "chunk"
          <6>1. sent'[o] = sent[o] + 1
            BY <3>4, <5>2, <1>6 DEF Handles, Ground
          <6>2. sent[o] < Chunks /\ written[o] = sent[o] + 1
            BY <2>2, <4>5, <5>2 DEF Progress
          <6>3. QED
            BY <2>2, <2>6, <6>1, <6>2, SessionAssumption
        <5>3. QED
          BY <3>4, <5>1, <5>2
      <4>8. Progress(o)'
        BY <2>3, <2>6, <4>1, <4>3, <4>6, <4>7 DEF Progress
      <4>9. Slot(o)'
        BY <2>3, <4>1 DEF Slot
      <4>10. QED
        BY <4>4, <4>8, <4>9
    <3>5. CASE c[2] = "commit" /\ ok /\ Goes("ok") /\ waiting' = rest /\ sent' = sent
      <4>1. at'[o] = "ok" /\ at[o] = "committing"
        BY <2>8, <3>2, <3>5 DEF Awaiting
      <4>2. \A r \in W : ~Out(<<o, r>>)'
        BY <2>2, <2>3, <2>5, <3>5, <4>1 DEF CallsOf
      <4>3. CallsOf(o)'
        BY <2>3, <4>1, <4>2 DEF CallsOf
      <4>4. o \in published /\ o \notin uploads
        BY <2>2, <2>4, <3>5 DEF Progress, Slot
      <4>5. Progress(o)'
        BY <2>2, <2>3, <2>6, <4>1, <4>2, <4>4 DEF Progress
      <4>6. Slot(o)'
        BY <2>3, <2>6, <4>1, <4>4 DEF Slot
      <4>7. QED
        BY <4>3, <4>5, <4>6
    <3>6. <<o, "chunk">> \in waiting' => c[2] # "chunk"
      <4>1. waiting' = rest \/ waiting' = rest \cup {<<o, "abort">>}
        BY <1>1, <2>1
      <4>2. <<o, "chunk">> # <<o, "abort">>
        OBVIOUS
      <4>3. QED
        BY <2>5, <4>1, <4>2
    <3>7. ASSUME at'[o] \in {"leaving", "failed"}, sent' = sent,
                  \A r \in W \ {"abort"} : Out(<<o, r>>)' => Out(<<o, r>>) /\ r # "begin",
                  o \in uploads' /\ ~closed' => Out(<<o, "abort">>)'
           PROVE  CallsOf(o)' /\ Progress(o)' /\ Slot(o)'
      <4>1. CallsOf(o)'
        BY <2>2, <2>3, <3>1, <3>7 DEF CallsOf
      <4>2. Out(<<o, "chunk">>)' => Out(<<o, "chunk">>) /\ ~Reply(<<o, "chunk">>, TRUE)
        BY <2>3, <2>4, <2>5, <3>7, <3>6
      <4>3. Progress(o)'
        BY <2>2, <2>3, <2>6, <3>1, <3>7, <4>2 DEF Progress
      <4>4. Slot(o)'
        BY <2>3, <3>7 DEF Slot
      <4>5. QED
        BY <4>1, <4>3, <4>4
    <3>8. \A r \in W \ {"abort"} : <<o, r>> \in rest => Out(<<o, r>>) /\ r # "begin"
      BY <2>1, <2>2, <2>5, <2>8 DEF CallsOf, Awaiting
    <3>9. CASE c[2] = "abort" /\ Goes("failed") /\ waiting' = rest /\ sent' = sent
      <4>1. o \notin uploads'
        BY <2>2, <2>4, <2>6, <3>9 DEF Slot
      <4>2. QED
        BY <2>3, <3>2, <3>9, <3>7, <3>8, <4>1
    <3>10. CASE c[2] = "begin" /\ ~ok /\ Goes("failed") /\ waiting' = rest /\ sent' = sent
      <4>1. o \notin uploads'
        BY <2>2, <2>4, <2>6, <2>8, <3>10 DEF Slot, Awaiting
      <4>2. QED
        BY <2>3, <3>2, <3>10, <3>7, <3>8, <4>1
    <3>11. CASE /\ (c[2] \in {"chunk", "commit"} /\ ~ok) \/ (c[2] = "begin" /\ ok)
               /\ Leave(o, rest) /\ sent' = sent
      <4>1. CASE closed
        BY <2>1, <2>3, <2>6, <3>2, <3>11, <3>7, <3>8, <4>1 DEF Leave, Goes
      <4>2. CASE ~closed
        <5>1. waiting' = rest \cup {<<o, "abort">>} /\ at' = [at EXCEPT ![o] = "leaving"]
          BY <2>1, <3>11, <4>2 DEF Leave
        <5>2. at'[o] = "leaving" /\ Out(<<o, "abort">>)'
          BY <2>3, <3>2, <5>1 DEF Goes
        <5>3. \A r \in W \ {"abort"} : <<o, r>> # <<o, "abort">>
          OBVIOUS
        <5>4. \A r \in W \ {"abort"} : Out(<<o, r>>)' => Out(<<o, r>>) /\ r # "begin"
          BY <2>3, <3>8, <5>1, <5>3
        <5>5. QED
          BY <3>11, <3>7, <5>2, <5>4
      <4>3. QED
        BY <4>1, <4>2
    <3>12. QED
      BY <3>3, <3>4, <3>5, <3>9, <3>10, <3>11
  <2>9. QED
    BY <2>7, <2>8
<1>7. ASSUME o \in Streams \ cut PROVE File(o)'
  <2> USE <1>7
  <2> DEFINE W == {"open", "read", "release"}
  <2>1. /\ c[2] \in W /\ Over(o) = "done" /\ Undo(o) = <<o, "release">>
        /\ c = <<o, c[2]>>
    BY <1>0 DEF Over, Undo
  <2>2. File(o)
    BY DEF Handles
  <2>3. /\ \A r \in W : Out(<<o, r>>)' <=> <<o, r>> \in waiting'
        /\ \A r \in W : \A t \in BOOLEAN : ~Reply(<<o, r>>, t)'
        /\ \A r \in W : <<o, r>> \notin (waiting \cap {holder})'
    BY DEF Out, Reply, Nobody
  <2>4. /\ \A r \in W : \A t \in BOOLEAN : Reply(<<o, r>>, t) => c[2] = r
        /\ ok => Reply(<<o, c[2]>>, TRUE)
        /\ ~ok => o \notin files' \/ Reply(<<o, c[2]>>, FALSE)
        /\ \A r \in W : ~(Reply(<<o, r>>, TRUE) /\ Reply(<<o, r>>, FALSE))
    <3>1. \A r \in W : <<o, r>> \in Calls
      BY DEF Calls
    <3>2. \A r \in W : \A t \in BOOLEAN : Reply(<<o, r>>, t) => <<o, r>> = c
      BY <3>1
    <3>3. \A r \in W : \A t \in BOOLEAN : Reply(<<o, r>>, t) => c[2] = r
      BY <3>2
    <3>4. /\ ok => Reply(<<o, c[2]>>, TRUE)
          /\ ~ok => o \notin files' \/ Reply(<<o, c[2]>>, FALSE)
      BY <2>1
    <3>5. \A r \in W : ~(Reply(<<o, r>>, TRUE) /\ Reply(<<o, r>>, FALSE))
      BY ReplyOnce
    <3>6. QED
      BY <3>3, <3>4, <3>5
  <2>5. /\ \A r \in W : <<o, r>> \in rest => Out(<<o, r>>)
        /\ <<o, "open">> \in rest => c[2] # "open"
        /\ \A r \in W : Out(<<o, r>>) /\ c[2] # r => <<o, r>> \in rest
    <3>1. \A r \in W : <<o, r>> # Nobody /\ (<<o, r>> = c => c[2] = r)
      BY DEF Nobody
    <3>2. <<o, "open">> \in rest => c[2] # "open"
      BY <2>1, <2>2 DEF File
    <3>3. QED
      BY <3>1, <3>2 DEF Out
  <2>6. closed' = closed /\ (o \in files' => o \in files)
    OBVIOUS
  <2>7. CASE at[o] \notin Awaiting(c[2])
    <3>1. at' = at /\ waiting' = rest
      BY <2>7, <1>0 DEF Deliver, o, coroutines
    <3>2. \A r \in W : Out(<<o, r>>)' => Out(<<o, r>>)
      BY <2>3, <2>5, <3>1
    <3>3. Out(<<o, "release">>) /\ o \in files' => Out(<<o, "release">>)'
      BY <2>2, <2>3, <2>4, <2>5, <2>6, <3>1 DEF File
    <3>4. at[o] = "opening" => o \notin files'
      BY <2>2, <2>4, <2>6, <2>7 DEF File, Awaiting
    <3>5. at'[o] \in {"leaving", "done"} /\ o \in files' /\ ~closed' => Out(<<o, "release">>)'
      BY <2>2, <2>6, <3>1, <3>3 DEF File
    <3>6. QED
      BY <2>2, <2>3, <2>6, <3>1, <3>2, <3>4, <3>5 DEF File
  <2>8. CASE at[o] \in Awaiting(c[2])
    <3> DEFINE Goes(x) == at' = [at EXCEPT ![o] = x]
    <3>1. \A x : Goes(x) => at'[o] = x
      BY <1>0 DEF Handles, Ground
    <3>2. at[o] \in {"opening", "reading", "leaving"} /\ (at[o] = "opening" <=> c[2] = "open")
      BY <2>1, <2>8 DEF Awaiting
    <3>3. \/ c[2] \in {"open", "read"} /\ ok /\ Goes("streaming") /\ waiting' = rest
          \/ c[2] = "release" /\ Goes("done") /\ waiting' = rest
          \/ c[2] = "open" /\ ~ok /\ Goes("done") /\ waiting' = rest
          \/ c[2] = "read" /\ ~ok /\ Leave(o, rest)
      <4>1. \/ /\ c[2] \in {"open", "read", "begin", "chunk"} /\ ok /\ at[o] # "withdrawn"
               /\ Goes(IF o \in Streams THEN "streaming" ELSE "sending")
               /\ waiting' = rest
            \/ c[2] = "commit" /\ ok /\ Goes("ok")
            \/ /\ c[2] \in {"release", "abort"} \/ (c[2] \in {"open", "begin"} /\ ~ok)
               /\ Goes(Over(o)) /\ waiting' = rest
            \/ /\ (c[2] \in {"read", "chunk", "commit"} /\ ~ok) \/ (at[o] = "withdrawn" /\ ok)
               /\ Leave(o, rest)
        BY <2>8 DEF Deliver, o
      <4>2. at[o] # "withdrawn"
        BY <3>2
      <4>3. /\ Over(o) = "done" /\ (IF o \in Streams THEN "streaming" ELSE "sending") = "streaming"
            /\ c[2] \notin {"begin", "chunk", "commit", "abort"}
        BY <2>1
      <4> HIDE DEF Goes
      <4>4. QED
        BY <4>1, <4>2, <4>3
    <3> HIDE DEF Goes
    <3>4. ASSUME at'[o] \in {"streaming", "done", "leaving"}, ~Out(<<o, "open">>)',
                 Out(<<o, "release">>)' => at'[o] \in {"leaving", "done"},
                 at'[o] \in {"leaving", "done"} /\ o \in files' /\ ~closed' => Out(<<o, "release">>)'
          PROVE  File(o)'
      BY <2>3, <3>4 DEF File
    <3>5. <<o, "open">> \notin rest
      BY <2>1, <2>2, <2>5, <3>2 DEF File
    <3>6. CASE c[2] \in {"open", "read"} /\ ok /\ Goes("streaming") /\ waiting' = rest
      <4>1. <<o, "release">> \notin rest
        BY <2>2, <2>5, <2>8, <3>6 DEF File, Awaiting
      <4>2. QED
        BY <2>3, <3>1, <3>4, <3>5, <3>6, <4>1
    <3>7. CASE c[2] = "release" /\ Goes("done") /\ waiting' = rest
      <4>1. o \notin files'
        BY <2>2, <2>4, <2>6, <3>7 DEF File
      <4>2. QED
        BY <2>3, <3>1, <3>4, <3>5, <3>7, <4>1
    <3>8. CASE c[2] = "open" /\ ~ok /\ Goes("done") /\ waiting' = rest
      <4>1. o \notin files'
        BY <2>2, <2>4, <2>6, <3>2, <3>8 DEF File
      <4>2. QED
        BY <2>3, <3>1, <3>4, <3>5, <3>8, <4>1
    <3>9. CASE c[2] = "read" /\ ~ok /\ Leave(o, rest)
      <4>1. CASE closed
        BY <2>1, <2>3, <2>6, <3>1, <3>4, <3>5, <3>9, <4>1 DEF Leave, Goes
      <4>2. CASE ~closed
        <5>1. waiting' = rest \cup {<<o, "release">>} /\ Goes("leaving")
          BY <2>1, <3>9, <4>2 DEF Leave, Goes
        <5>2. <<o, "open">> # <<o, "release">>
          OBVIOUS
        <5>3. QED
          BY <2>3, <3>1, <3>4, <3>5, <5>1, <5>2
      <4>3. QED
        BY <4>1, <4>2
    <3>10. QED
      BY <3>3, <3>6, <3>7, <3>8, <3>9
  <2>9. QED
    BY <2>7, <2>8
<1>8. \A s \in cut : at'[s] = "done"
  <2>1. \A s \in cut : at[s] = "done"
    BY DEF Handles
  <2>2. at[o] = "done" => at' = at
    BY <1>0 DEF Deliver, Awaiting, coroutines, o
  <2>3. \A p \in Operations \ {o} : at'[p] = at[p]
    BY <1>1 DEF Handles, Ground
  <2>4. QED
    BY <2>1, <2>2, <2>3 DEF Handles, Ground, Operations
<1>9. QED
  BY <1>3, <1>5, <1>6, <1>7, <1>8 DEF Handles

(* The coroutine of o moves: it asks for a call, or gives its handle back. *)
LEMMA Moved ==
  ASSUME Handles, NEW o \in Operations, Coroutine(o)
  PROVE  /\ UNCHANGED <<sent, session, holder, shutting, pipe, process, tables, storage>>
         /\ \E x \in {"opening", "reading", "beginning", "chunking", "committing", "withdrawn",
                      "leaving", "done", "failed"} : at' = [at EXCEPT ![o] = x]
         /\ waiting' \subseteq Calls
         /\ \A d \in Calls : d[1] # o => (d \in waiting' <=> d \in waiting)
         /\ cut \subseteq cut' /\ cut' \subseteq cut \cup {o}
<1> USE DEF Handles, Ground
<1>1. o \notin Streams \cap Writes
  BY SessionAssumption
<1>0. Over(o) \in {"done", "failed"} /\ waiting \subseteq Calls
  BY DEF Over
<1>2. Undo(o) \in Calls /\ Undo(o)[1] = o
  BY <1>1 DEF Undo, Calls, Operations
<1>3. \A r : <<o, r>>[1] = o
  OBVIOUS
<1>4. ASSUME NEW x, NEW r, <<o, r>> \in Calls, Enter(o, x, r)
      PROVE  /\ at' = [at EXCEPT ![o] = x] /\ waiting' \subseteq Calls
             /\ \A d \in Calls : d[1] # o => (d \in waiting' <=> d \in waiting)
  BY <1>3, <1>4 DEF Enter
<1>5. ASSUME NEW rest, rest \subseteq waiting, Leave(o, rest),
             \A d \in Calls : d[1] # o => (d \in rest <=> d \in waiting)
      PROVE  /\ \E x \in {"leaving", "done", "failed"} : at' = [at EXCEPT ![o] = x]
             /\ waiting' \subseteq Calls
             /\ \A d \in Calls : d[1] # o => (d \in waiting' <=> d \in waiting)
  BY <1>0, <1>2, <1>5 DEF Leave
<1>6. ASSUME NEW r, NEW rest \in Abandoned(<<o, r>>)
      PROVE  rest \subseteq waiting /\ \A d \in Calls : d[1] # o => (d \in rest <=> d \in waiting)
  BY <1>3, <1>6 DEF Abandoned
<1>7. CASE o \in Streams /\ (StreamOpen(o) \/ StreamRead(o) \/ StreamEnd(o))
  <2>1. <<o, "open">> \in Calls /\ <<o, "read">> \in Calls
    BY <1>7 DEF Calls
  <2>2. QED
    BY <1>4, <1>5, <1>7, <2>1 DEF StreamOpen, StreamRead, StreamEnd, tables, storage
<1>8. CASE o \in Writes /\ (WriteBegin(o) \/ WriteChunk(o) \/ WriteCommit(o) \/ WriteSourceFails(o))
  <2>1. <<o, "begin">> \in Calls /\ <<o, "chunk">> \in Calls /\ <<o, "commit">> \in Calls
    BY <1>8 DEF Calls
  <2>2. QED
    BY <1>4, <1>5, <1>8, <2>1 DEF WriteBegin, WriteChunk, WriteCommit, WriteSourceFails
<1>9. CASE Cancel(o)
  <2>1. CASE /\ at' = [at EXCEPT ![o] = "done"]
             /\ waiting' \in Abandoned(<<o, "open">>) /\ cut' = cut \cup {o}
    <3>1. waiting' \subseteq Calls /\ \A d \in Calls : d[1] # o => (d \in waiting' <=> d \in waiting)
      BY <1>0, <1>6, <2>1
    <3>2. QED
      BY <1>9, <2>1, <3>1 DEF Cancel
  <2>2. CASE /\ \E rest \in UNION {Abandoned(<<o, r>>) : r \in {"read", "chunk", "commit"}} : Leave(o, rest)
             /\ UNCHANGED cut
    <3>1. PICK r \in {"read", "chunk", "commit"} : \E rest \in Abandoned(<<o, r>>) : Leave(o, rest)
      BY <2>2
    <3>2. PICK rest \in Abandoned(<<o, r>>) : Leave(o, rest)
      BY <3>1
    <3>3. rest \subseteq waiting /\ \A d \in Calls : d[1] # o => (d \in rest <=> d \in waiting)
      BY <1>6
    <3>4. /\ \E x \in {"leaving", "done", "failed"} : at' = [at EXCEPT ![o] = x]
          /\ waiting' \subseteq Calls
          /\ \A d \in Calls : d[1] # o => (d \in waiting' <=> d \in waiting)
      BY <1>5, <3>2, <3>3
    <3>5. QED
      BY <1>9, <2>2, <3>4 DEF Cancel
  <2>3. CASE Leave(o, waiting) /\ UNCHANGED cut
    BY <1>5, <1>9, <2>3 DEF Cancel
  <2>4. CASE /\ \E x \in {"withdrawn", Over(o)} : at' = [at EXCEPT ![o] = x]
             /\ UNCHANGED <<waiting, cut>>
    BY <1>0, <1>9, <2>4 DEF Cancel
  <2>5. QED
    BY <1>9, <2>1, <2>2, <2>3, <2>4 DEF Cancel
<1>10. QED
  BY <1>7, <1>8, <1>9 DEF Coroutine

(* Whatever its coroutine does, a write keeps to its calls. *)
LEMMA WriteMoves ==
  ASSUME Handles, NEW w \in Writes, Coroutine(w)
  PROVE  CallsOf(w)' /\ Progress(w)' /\ Slot(w)'
<1> DEFINE W == {"begin", "chunk", "commit", "abort"}
<1>1. /\ w \in Operations /\ w \notin Streams /\ Over(w) = "failed" /\ Undo(w) = <<w, "abort">>
      /\ sent[w] \in Nat
  BY SessionAssumption DEF Operations, Over, Undo, Handles, Ground
<1>2. CallsOf(w) /\ Progress(w) /\ Slot(w)
  BY DEF Handles
<1>3. /\ sent' = sent /\ written' = written /\ published' = published /\ uploads' = uploads
      /\ closed' = closed /\ holder' = holder /\ answers' = answers
  BY <1>1, Moved DEF tables, storage, session, pipe
<1>4. \A x : at' = [at EXCEPT ![w] = x] => at'[w] = x
  BY <1>1 DEF Handles, Ground
<1>5. \A r, q \in W : r # q => <<w, r>> # <<w, q>>
  OBVIOUS
<1>6. \A r \in W : \A t \in BOOLEAN : Reply(<<w, r>>, t)' <=> Reply(<<w, r>>, t)
  BY <1>3 DEF Reply
<1>7. \A r \in W : \A t \in BOOLEAN : Reply(<<w, r>>, t) => Out(<<w, r>>)
  <2> SUFFICES ASSUME NEW r \in W, NEW t \in BOOLEAN, Reply(<<w, r>>, t) PROVE Out(<<w, r>>)
    OBVIOUS
  <2>1. answers # <<>>
    BY DEF Reply
  <2>2. PICK ok \in BOOLEAN : Reply(holder, ok)
    BY <2>1 DEF Handles, Ground
  <2>3. holder = <<w, r>>
    BY <2>2, ReplyOnce
  <2>4. QED
    BY <2>3 DEF Out
<1>8. ASSUME NEW rest, rest \subseteq waiting, Leave(w, rest),
             at[w] \in {"sending", "chunking", "committing"}
      PROVE  CallsOf(w)' /\ Progress(w)' /\ Slot(w)'
  <2>1. /\ at'[w] \in {"leaving", "failed"}
        /\ waiting' = rest \/ waiting' = rest \cup {<<w, "abort">>}
        /\ ~closed => <<w, "abort">> \in waiting'
    BY <1>1, <1>4, <1>8 DEF Leave
  <2>2. \A r \in W \ {"abort"} : <<w, r>> \in waiting' => <<w, r>> \in waiting
    BY <1>5, <1>8, <2>1
  <2>3. \A r \in W \ {"abort"} : Out(<<w, r>>)' => Out(<<w, r>>)
    BY <1>3, <2>2 DEF Out
  <2>4. CallsOf(w)'
    BY <1>2, <1>3, <1>8, <2>1, <2>2, <2>3 DEF CallsOf
  <2>5. Progress(w)'
    BY <1>2, <1>3, <1>6, <1>8, <2>1, <2>3 DEF Progress
  <2>6. Slot(w)'
    BY <1>2, <1>3, <1>6, <1>8, <2>1 DEF Slot, Out
  <2>7. QED
    BY <2>4, <2>5, <2>6
<1>9. ASSUME NEW x, NEW r \in {"begin", "chunk", "commit"}, Enter(w, x, r),
             \A q \in W : ~Out(<<w, q>>)
      PROVE  /\ at'[w] = x
             /\ \A q \in W : <<w, q>> \notin (waiting \cap {holder})'
             /\ \A q \in W : Out(<<w, q>>)' => q = r
             /\ \A q \in W : \A t \in BOOLEAN : ~Reply(<<w, q>>, t)'
  <2>1. at'[w] = x /\ waiting' = waiting \cup {<<w, r>>}
    BY <1>4, <1>9 DEF Enter
  <2>2. \A q \in W : <<w, q>> \notin waiting /\ <<w, q>> # holder
    BY <1>9 DEF Out
  <2>3. \A q \in W : <<w, q>> \in waiting' => q = r
    BY <1>5, <2>1, <2>2
  <2>4. \A q \in W : \A t \in BOOLEAN : ~Reply(<<w, q>>, t)'
    BY <1>6, <1>7, <1>9
  <2>5. QED
    BY <1>3, <2>1, <2>2, <2>3, <2>4 DEF Out
<1>10. CASE WriteBegin(w)
  <2>1. at[w] = "idle" /\ Enter(w, "beginning", "begin")
    BY <1>10 DEF WriteBegin
  <2>2. \A q \in W : ~Out(<<w, q>>)
    BY <1>2, <2>1 DEF CallsOf
  <2>3. /\ at'[w] = "beginning"
        /\ \A q \in W : <<w, q>> \notin (waiting \cap {holder})'
        /\ \A q \in W : Out(<<w, q>>)' => q = "begin"
        /\ \A q \in W : \A t \in BOOLEAN : ~Reply(<<w, q>>, t)'
    BY <1>9, <2>1, <2>2
  <2>4. CallsOf(w)'
    BY <2>3 DEF CallsOf
  <2>5. Progress(w)'
    BY <1>2, <1>3, <2>1, <2>3 DEF Progress
  <2>6. Slot(w)'
    BY <1>2, <1>3, <2>1, <2>3 DEF Slot
  <2>7. QED
    BY <2>4, <2>5, <2>6
<1>11. CASE WriteChunk(w)
  <2>1. /\ at[w] = "sending" /\ sent[w] < Chunks
        /\ Leave(w, waiting) \/ Enter(w, "chunking", "chunk")
    BY <1>11 DEF WriteChunk
  <2>2. CASE Enter(w, "chunking", "chunk")
    <3>1. \A q \in W : ~Out(<<w, q>>)
      BY <1>2, <2>1 DEF CallsOf
    <3>2. /\ at'[w] = "chunking"
          /\ \A q \in W : <<w, q>> \notin (waiting \cap {holder})'
          /\ \A q \in W : Out(<<w, q>>)' => q = "chunk"
          /\ \A q \in W : \A t \in BOOLEAN : ~Reply(<<w, q>>, t)'
      BY <1>9, <2>2, <3>1
    <3>3. CallsOf(w)'
      BY <3>2 DEF CallsOf
    <3>4. Progress(w)'
      BY <1>2, <1>3, <2>1, <3>2 DEF Progress
    <3>5. Slot(w)'
      BY <3>2 DEF Slot
    <3>6. QED
      BY <3>3, <3>4, <3>5
  <2>3. QED
    BY <1>8, <2>1, <2>2
<1>12. CASE WriteCommit(w)
  <2>1. /\ at[w] = "sending" /\ sent[w] = Chunks
        /\ Leave(w, waiting) \/ Enter(w, "committing", "commit")
    BY <1>12 DEF WriteCommit
  <2>2. CASE Enter(w, "committing", "commit")
    <3>1. \A q \in W : ~Out(<<w, q>>)
      BY <1>2, <2>1 DEF CallsOf
    <3>2. /\ at'[w] = "committing"
          /\ \A q \in W : <<w, q>> \notin (waiting \cap {holder})'
          /\ \A q \in W : Out(<<w, q>>)' => q = "commit"
          /\ \A q \in W : \A t \in BOOLEAN : ~Reply(<<w, q>>, t)'
      BY <1>9, <2>2, <3>1
    <3>3. CallsOf(w)'
      BY <3>2 DEF CallsOf
    <3>4. Progress(w)'
      BY <1>2, <1>3, <2>1, <3>2 DEF Progress
    <3>5. Slot(w)'
      BY <3>2 DEF Slot
    <3>6. QED
      BY <3>3, <3>4, <3>5
  <2>3. QED
    BY <1>8, <2>1, <2>2
<1>13. CASE WriteSourceFails(w)
  BY <1>8, <1>13 DEF WriteSourceFails
<1>14. CASE Cancel(w)
  <2>1. CASE at[w] \in {"sending", "chunking", "committing"}
    <3>1. PICK rest : Leave(w, rest) /\ rest \subseteq waiting
      BY <1>14, <2>1 DEF Cancel, Abandoned
    <3>2. QED
      BY <1>8, <2>1, <3>1
  <2>2. CASE at[w] \in {"beginning", "leaving"}
    <3>1. /\ waiting' = waiting
          /\ at'[w] = IF at[w] = "beginning" THEN "withdrawn" ELSE "failed"
      BY <1>1, <1>4, <1>14, <2>2 DEF Cancel
    <3>2. \A r \in W : Out(<<w, r>>)' <=> Out(<<w, r>>)
      BY <1>3, <3>1 DEF Out
    <3>3. CallsOf(w)'
      BY <1>2, <1>3, <2>2, <3>1, <3>2 DEF CallsOf
    <3>4. Progress(w)'
      BY <1>2, <1>3, <1>6, <2>2, <3>1, <3>2 DEF Progress
    <3>5. Slot(w)'
      BY <1>2, <1>3, <1>6, <2>2, <3>1, <3>2 DEF Slot
    <3>6. QED
      BY <3>3, <3>4, <3>5
  <2>3. QED
    BY <1>2, <1>14, <2>1, <2>2 DEF Cancel, CallsOf
<1>15. QED
  BY <1>1, <1>10, <1>11, <1>12, <1>13, <1>14 DEF Coroutine

(* So does a stream, unless it is cancelled while it opens its file. *)
LEMMA StreamMoves ==
  ASSUME Handles, NEW s \in Streams \ cut, Coroutine(s)
  PROVE  IF s \in cut' THEN at'[s] = "done" ELSE File(s)'
<1> DEFINE W == {"open", "read", "release"}
<1>1. /\ s \in Operations /\ s \notin Writes /\ Over(s) = "done" /\ Undo(s) = <<s, "release">>
  BY SessionAssumption DEF Operations, Over, Undo
<1>2. File(s)
  BY DEF Handles
<1>3. files' = files /\ closed' = closed /\ holder' = holder /\ answers' = answers
  BY <1>1, Moved DEF tables, session, pipe
<1>4. \A x : at' = [at EXCEPT ![s] = x] => at'[s] = x
  BY <1>1 DEF Handles, Ground
<1>5. \A r, q \in W : r # q => <<s, r>> # <<s, q>>
  OBVIOUS
<1>6. \A r \in W : \A t \in BOOLEAN : Reply(<<s, r>>, t)' <=> Reply(<<s, r>>, t)
  BY <1>3 DEF Reply
<1>7. \A r \in W : \A t \in BOOLEAN : Reply(<<s, r>>, t) => Out(<<s, r>>)
  <2> SUFFICES ASSUME NEW r \in W, NEW t \in BOOLEAN, Reply(<<s, r>>, t) PROVE Out(<<s, r>>)
    OBVIOUS
  <2>1. answers # <<>>
    BY DEF Reply
  <2>2. PICK ok \in BOOLEAN : Reply(holder, ok)
    BY <2>1 DEF Handles, Ground
  <2>3. holder = <<s, r>>
    BY <2>2, ReplyOnce
  <2>4. QED
    BY <2>3 DEF Out
<1>8. ASSUME NEW rest, rest \subseteq waiting, Leave(s, rest), at[s] \in {"streaming", "reading"}
      PROVE  File(s)'
  <2>1. /\ at'[s] \in {"leaving", "done"}
        /\ waiting' = rest \/ waiting' = rest \cup {<<s, "release">>}
        /\ ~closed => <<s, "release">> \in waiting'
    BY <1>1, <1>4, <1>8 DEF Leave
  <2>2. <<s, "open">> \in waiting' => <<s, "open">> \in waiting
    BY <1>5, <1>8, <2>1
  <2>3. ~Out(<<s, "open">>)' /\ <<s, "open">> \notin (waiting \cap {holder})'
    BY <1>2, <1>3, <1>8, <2>2 DEF File, Out
  <2>4. \A t \in BOOLEAN : ~Reply(<<s, "release">>, t)'
    BY <1>2, <1>6, <1>7, <1>8 DEF File
  <2>5. QED
    BY <1>3, <2>1, <2>3, <2>4 DEF File, Out
<1>9. CASE StreamOpen(s)
  <2>1. at[s] = "idle" /\ at'[s] = "opening" /\ waiting' = waiting \cup {<<s, "open">>}
    BY <1>4, <1>9 DEF StreamOpen, Enter
  <2>2. ~Out(<<s, "open">>) /\ ~Out(<<s, "release">>) /\ s \notin files
    BY <1>2, <2>1 DEF File
  <2>3. ~Out(<<s, "release">>)' /\ <<s, "open">> \notin (waiting \cap {holder})'
    BY <1>3, <1>5, <2>1, <2>2 DEF Out
  <2>4. QED
    BY <1>2, <1>3, <1>6, <1>9, <2>1, <2>2, <2>3 DEF File, StreamOpen
<1>10. CASE StreamRead(s)
  <2>1. at[s] = "streaming" /\ (Leave(s, waiting) \/ Enter(s, "reading", "read")) /\ cut' = cut
    BY <1>10 DEF StreamRead
  <2>2. CASE Enter(s, "reading", "read")
    <3>1. at'[s] = "reading" /\ waiting' = waiting \cup {<<s, "read">>}
      BY <1>4, <2>2 DEF Enter
    <3>2. /\ Out(<<s, "open">>)' => Out(<<s, "open">>)
          /\ Out(<<s, "release">>)' => Out(<<s, "release">>)
          /\ <<s, "open">> \notin (waiting \cap {holder})'
      BY <1>2, <1>3, <1>5, <3>1 DEF Out, File
    <3>3. QED
      BY <1>2, <1>3, <1>6, <2>1, <3>1, <3>2 DEF File
  <2>3. QED
    BY <1>8, <2>1, <2>2
<1>11. CASE StreamEnd(s)
  BY <1>8, <1>11 DEF StreamEnd
<1>12. CASE Cancel(s)
  <2>1. CASE at[s] = "opening"
    BY <1>4, <1>12, <2>1 DEF Cancel
  <2>2. CASE at[s] \in {"streaming", "reading"}
    <3>1. PICK rest : Leave(s, rest) /\ rest \subseteq waiting /\ cut' = cut
      BY <1>12, <2>2 DEF Cancel, Abandoned
    <3>2. QED
      BY <1>8, <2>2, <3>1
  <2>3. CASE at[s] = "leaving"
    <3>1. waiting' = waiting /\ at'[s] = "done" /\ cut' = cut
      BY <1>1, <1>4, <1>12, <2>3 DEF Cancel
    <3>2. QED
      BY <1>2, <1>3, <1>6, <2>3, <3>1 DEF File, Out
  <2>4. QED
    BY <1>2, <1>12, <2>1, <2>2, <2>3 DEF Cancel, File
<1>13. QED
  BY <1>1, <1>9, <1>10, <1>11, <1>12 DEF Coroutine

(* Every step of every coroutine. *)
LEMMA CoroutineStep ==
  ASSUME Handles, PipeInStep', NEW o \in Operations, Coroutine(o)
  PROVE  Handles'
<1>1. /\ UNCHANGED <<sent, session, holder, shutting, pipe, process, tables, storage>>
      /\ \E x \in {"opening", "reading", "beginning", "chunking", "committing", "withdrawn",
                   "leaving", "done", "failed"} : at' = [at EXCEPT ![o] = x]
      /\ waiting' \subseteq Calls
      /\ \A d \in Calls : d[1] # o => (d \in waiting' <=> d \in waiting)
      /\ cut \subseteq cut' /\ cut' \subseteq cut \cup {o}
  BY Moved
<1>2. \A p \in Operations \ {o} : at'[p] = at[p]
  BY <1>1 DEF Handles, Ground
<1>3. OthersKeep(o)
  BY <1>1 DEF OthersKeep, Out, Reply, pipe
<1>4. /\ \A w \in Writes \ {o} : CallsOf(w)' /\ Progress(w)' /\ Slot(w)'
      /\ \A s \in (Streams \ cut) \ {o} : File(s)'
  BY <1>1, <1>2, <1>3, OthersUntouched DEF tables, storage, session
<1>5. o \in cut' \ cut => o \in Streams
  <2>1. o \in cut' \ cut => at[o] = "opening"
    BY DEF Coroutine, StreamOpen, StreamRead, StreamEnd, WriteBegin, WriteChunk, WriteCommit,
           WriteSourceFails, Cancel
  <2>2. o \in Writes => at[o] # "opening"
    BY DEF Handles, CallsOf
  <2>3. QED
    BY <2>1, <2>2 DEF Operations
<1>6. o \in cut => at' = at
  <2>1. o \in cut => at[o] = "done" /\ o \in Streams /\ o \notin Writes
    BY SessionAssumption DEF Handles, Ground
  <2>2. QED
    BY <2>1 DEF Coroutine, StreamOpen, StreamRead, StreamEnd, Cancel
<1>7. Ground'
  <2>1. at' \in [Operations -> {"idle", "opening", "streaming", "reading", "beginning", "withdrawn",
                             "sending", "chunking", "committing", "leaving", "done", "ok", "failed"}]
    BY <1>1 DEF Handles, Ground
  <2>2. QED
    BY <1>1, <1>5, <2>1 DEF Handles, Ground, pipe, tables, storage, Alive, Reply
<1>8. \A s \in cut' : at'[s] = "done"
  BY <1>1, <1>2, <1>5, <1>6, StreamMoves DEF Handles, Ground, Operations
<1>9. \A s \in Streams \ cut' : File(s)'
  BY <1>1, <1>4, StreamMoves
<1>10. \A w \in Writes : CallsOf(w)' /\ Progress(w)' /\ Slot(w)'
  BY <1>4, WriteMoves
<1>11. QED
  BY <1>7, <1>8, <1>9, <1>10 DEF Handles

(* A step that moves no coroutine and changes no call, answer or file. *)
LEMMA AllUntouched ==
  ASSUME Handles, PipeInStep', UNCHANGED <<at, sent, written, published, cut, answers>>,
         closed => closed', uploads' \subseteq uploads, files' \subseteq files,
         ~Alive' => files' = {} /\ uploads' = {},
         answers # <<>> => holder' = holder,
         waiting' \subseteq Calls,
         \A c \in Calls : Out(c)' <=> Out(c),
         \A c \in Calls : c \in (waiting \cap {holder})' => c \in waiting \cap {holder}
  PROVE  Handles'
<1>1. Ground'
  BY DEF Handles, Ground, Reply
<1>2. \A c \in Calls : \A ok \in BOOLEAN : Reply(c, ok)' <=> Reply(c, ok)
  BY DEF Reply
<1>3. ASSUME NEW w \in Writes PROVE CallsOf(w)' /\ Progress(w)' /\ Slot(w)'
  <2>1. \A r \in {"begin", "chunk", "commit", "abort"} : <<w, r>> \in Calls
    BY DEF Calls
  <2>2. CallsOf(w) /\ Progress(w) /\ Slot(w)
    BY DEF Handles
  <2>3. QED
    BY <1>2, <2>1, <2>2, WriteUntouched
<1>4. ASSUME NEW s \in Streams \ cut PROVE File(s)'
  <2>1. \A r \in {"open", "release"} : <<s, r>> \in Calls
    BY DEF Calls
  <2>2. File(s)
    BY DEF Handles
  <2>3. QED
    BY <1>2, <2>1, <2>2, StreamUntouched
<1>5. QED
  BY <1>1, <1>3, <1>4 DEF Handles

(* Every step of a thread: the lock is taken, the call ends, or it times out. *)
LEMMA ThreadStep ==
  ASSUME Handles, PipeInStep', NEW c \in Calls, Thread(c)
  PROVE  Handles'
<1>0. /\ c # Nobody /\ c # Closer
      /\ \A d \in Calls : \A t \in BOOLEAN : Reply(d, t) => d = holder
  <2>1. \A d \in Calls : \A t \in BOOLEAN : Reply(d, t) => answers # <<>>
    BY DEF Reply
  <2>2. QED
    BY <2>1, CallShape, ReplyOnce DEF Handles, Ground
<1>1. CASE ThreadSend(c)
  <2>1. /\ holder = Nobody /\ holder' = c /\ waiting' = waiting \ {c} /\ c \in waiting
        /\ UNCHANGED <<at, sent, written, published, cut, answers, closed, uploads, files, process>>
    BY <1>1 DEF ThreadSend, coroutines, session, tables, storage
  <2>2. answers = <<>>
    BY <2>1, NotCalls DEF Handles, Ground
  <2>3. \A d \in Calls : (Out(d)' <=> Out(d)) /\ d \notin (waiting \cap {holder})'
    BY <2>1, NotCalls DEF Out
  <2>4. waiting' \subseteq Calls /\ (~Alive' => files' = {} /\ uploads' = {})
    BY <2>1 DEF Handles, Ground, Alive
  <2>5. QED
    BY <2>1, <2>2, <2>3, <2>4, AllUntouched
<1>2. CASE ThreadExpired(c)
  <2>1. /\ c \in waiting /\ holder = Nobody /\ ~Alive /\ Deliver(c, FALSE, waiting \ {c})
        /\ UNCHANGED <<closed, holder, answers, process, files, uploads, written, published, cut>>
    BY <1>2 DEF ThreadExpired, session, pipe, tables, storage
  <2>2. answers = <<>> /\ files = {} /\ uploads = {}
    BY <2>1, NotCalls DEF Handles, Ground
  <2>3. \A d \in Calls : \A t \in BOOLEAN : Reply(d, t) => d = c
    BY <1>0, <2>1, NotCalls
  <2>4. Out(c) /\ holder \in {c, Nobody} /\ holder' = Nobody /\ answers' = <<>> /\ c \notin waiting \ {c}
        /\ files' = {} /\ uploads' = {}
    BY <2>1, <2>2 DEF Out
  <2>5. QED
    BY <2>1, <2>2, <2>3, <2>4, Delivered
<1>3. CASE ThreadReceive(c)
  <2>1. /\ holder = c /\ holder' = Nobody
        /\ UNCHANGED <<closed, process, files, uploads, written, published, cut>>
    BY <1>3 DEF ThreadReceive, session, tables, storage
  <2>2. PICK ok \in BOOLEAN : /\ Deliver(c, ok, waiting) /\ answers' = <<>>
                              /\ ok => Reply(c, TRUE)
                              /\ ~ok => Reply(c, FALSE) \/ ~Alive
    <3>1. CASE answers # <<>>
      <4>1. PICK ok \in BOOLEAN : Reply(c, ok)
        BY <2>1, <3>1 DEF Handles, Ground
      <4>2. Head(answers)[2] = ok /\ Tail(answers) = <<>>
        BY <4>1 DEF Reply
      <4>3. Deliver(c, ok, waiting) /\ answers' = <<>>
        BY <1>3, <3>1, <4>2 DEF ThreadReceive
      <4>4. ok = TRUE \/ ok = FALSE
        OBVIOUS
      <4>5. QED
        BY <4>1, <4>3, <4>4
    <3>2. CASE answers = <<>>
      BY <1>3, <3>2 DEF ThreadReceive
    <3>3. QED
      BY <3>1, <3>2
  <2>3. ~Alive \/ ~Alive' => files' = {} /\ uploads' = {}
    BY <2>1 DEF Handles, Ground, Alive
  <2>4. Out(c) /\ holder \in {c, Nobody} /\ \A d \in Calls : \A t \in BOOLEAN : Reply(d, t) => d = c
    BY <1>0, <2>1 DEF Out
  <2>5. QED
    BY <2>1, <2>2, <2>3, <2>4, Delivered
<1>4. CASE ThreadTimeout(c)
  <2>1. UNCHANGED <<at, sent, written, published, cut, answers, closed, uploads, files, process, holder, waiting>>
    BY <1>4 DEF ThreadTimeout, coroutines, session, pipe, tables, storage
  <2>2. waiting' \subseteq Calls /\ (~Alive' => files' = {} /\ uploads' = {})
    BY <2>1 DEF Handles, Ground, Alive
  <2>3. QED
    BY <2>1, <2>2, AllUntouched DEF Out
<1>5. CASE ThreadTimedOut(c)
  <2>1. /\ holder = c /\ holder' = Nobody /\ answers' = <<>> /\ Deliver(c, FALSE, waiting)
        /\ files' = {} /\ uploads' = {}
        /\ UNCHANGED <<closed, written, published, cut>>
    BY <1>5 DEF ThreadTimedOut, Gone, session, storage
  <2>2. Out(c) /\ holder \in {c, Nobody} /\ \A d \in Calls : \A t \in BOOLEAN : Reply(d, t) => d = c
    BY <1>0, <2>1 DEF Out
  <2>3. QED
    BY <2>1, <2>2, Delivered
<1>6. QED
  BY <1>1, <1>2, <1>3, <1>4, <1>5 DEF Thread

(* Closing takes every handle, and every answer, with it. *)
LEMMA CloseStep ==
  ASSUME Handles, PipeInStep', SessionClose \/ CloseCancelled \/ CloseHold \/ CloseEnd
  PROVE  Handles'
<1>1. CASE SessionClose \/ CloseCancelled
  <2>1. UNCHANGED <<at, sent, written, published, cut, answers, uploads, files, process, holder, waiting>>
        /\ (closed' = TRUE \/ closed' = closed)
    BY <1>1 DEF SessionClose, CloseCancelled, coroutines, pipe, tables, storage
  <2>2. waiting' \subseteq Calls /\ (~Alive' => files' = {} /\ uploads' = {})
    BY <2>1 DEF Handles, Ground, Alive
  <2>3. QED
    BY <2>1, <2>2, AllUntouched DEF Out
<1>2. CASE CloseHold
  <2>1. UNCHANGED <<at, sent, written, published, cut, answers, closed, uploads, files, process, waiting>>
        /\ holder = Nobody /\ holder' = Closer
    BY <1>2 DEF CloseHold, coroutines, pipe, tables, storage
  <2>2. waiting' \subseteq Calls /\ (~Alive' => files' = {} /\ uploads' = {})
    BY <2>1 DEF Handles, Ground, Alive
  <2>3. answers = <<>> /\ \A d \in Calls : (Out(d)' <=> Out(d)) /\ d \notin (waiting \cap {holder})'
    BY <2>1, NotCalls DEF Handles, Ground, Out
  <2>4. QED
    BY <2>1, <2>2, <2>3, AllUntouched
<1>3. CASE CloseEnd
  <2>1. /\ holder' = Nobody /\ answers' = <<>> /\ files' = {} /\ uploads' = {}
        /\ UNCHANGED <<at, sent, waiting, closed, written, published, cut>>
    BY <1>3 DEF CloseEnd, Gone, coroutines, storage
  <2>2. Ground'
    BY <2>1 DEF Handles, Ground
  <2>3. \A d \in Calls : (Out(d)' => Out(d)) /\ d \notin (waiting \cap {holder})'
                         /\ \A t \in BOOLEAN : ~Reply(d, t)'
    BY <2>1, NotCalls DEF Out, Reply
  <2>4. ASSUME NEW w \in Writes PROVE CallsOf(w)' /\ Progress(w)' /\ Slot(w)'
    <3> DEFINE W == {"begin", "chunk", "commit", "abort"}
    <3>1. CallsOf(w) /\ Progress(w) /\ Slot(w)
      BY DEF Handles
    <3>2. \A r \in W : <<w, r>> \in Calls
      BY DEF Calls
    <3>3. \A r \in W : /\ Out(<<w, r>>)' => Out(<<w, r>>)
                       /\ <<w, r>> \notin (waiting \cap {holder})'
                       /\ \A t \in BOOLEAN : ~Reply(<<w, r>>, t)'
      BY <2>3, <3>2
    <3>4. Out(<<w, "chunk">>)' => ~Reply(<<w, "chunk">>, TRUE)
      <4>1. \A t \in BOOLEAN : Reply(<<w, "chunk">>, t) => holder = <<w, "chunk">>
        <5>1. \A t \in BOOLEAN : Reply(<<w, "chunk">>, t) => answers # <<>>
          BY DEF Reply
        <5>2. QED
          BY <5>1, ReplyOnce DEF Handles, Ground
      <4>2. QED
        BY <2>1, <3>1, <4>1, NotCalls, <3>2 DEF Out, CallsOf
    <3>5. CallsOf(w)'
      BY <2>1, <3>1, <3>3 DEF CallsOf
    <3>6. Progress(w)'
      BY <2>1, <3>1, <3>3, <3>4 DEF Progress
    <3>7. Slot(w)'
      BY <2>1, <3>3 DEF Slot
    <3>8. QED
      BY <3>5, <3>6, <3>7
  <2>5. ASSUME NEW s \in Streams \ cut PROVE File(s)'
    <3> DEFINE W == {"open", "release"}
    <3>1. \A r \in W : <<s, r>> \in Calls
      BY DEF Calls
    <3>2. \A r \in W : /\ Out(<<s, r>>)' => Out(<<s, r>>)
                       /\ <<s, r>> \notin (waiting \cap {holder})'
                       /\ \A t \in BOOLEAN : ~Reply(<<s, r>>, t)'
      BY <2>3, <3>1
    <3>3. File(s)
      BY DEF Handles
    <3>4. QED
      BY <2>1, <3>2, <3>3 DEF File
  <2>6. QED
    BY <2>1, <2>2, <2>4, <2>5 DEF Handles
<1>4. QED
  BY <1>1, <1>2, <1>3

(* The worker answers the call of the holder: what it did, it did for it. *)
LEMMA Served ==
  ASSUME Handles, PipeInStep', Serve
  PROVE  Handles'
<1>1. PICK c \in Calls : holder = c /\ requests = <<c>> /\ answers = <<>> /\ Alive /\ Alive'
  BY DEF Serve, Handles, Ground, PipeInStep, Alive
<1> DEFINE o == c[1]
<1>2. PICK ok \in BOOLEAN : /\ answers' = <<<<c, ok>>>>
                            /\ IF ok THEN Perform(c) ELSE Fail(c)
  <2>1. Head(requests) = c
    BY <1>1
  <2>2. \A ok \in BOOLEAN : Answer(c, ok) => answers' = <<<<c, ok>>>>
    BY <1>1 DEF Answer
  <2>3. (Perform(c) /\ Answer(c, TRUE)) \/ (Fail(c) /\ Answer(c, FALSE))
    BY <2>1 DEF Serve, Fail
  <2>4. QED
    BY <2>2, <2>3
<1>3. UNCHANGED <<at, sent, waiting, holder, closed, cut, process>>
  BY DEF Serve, coroutines, session
<1> HIDE DEF o
<1>4. /\ c = <<o, c[2]>> /\ o \in Operations
      /\ \/ o \in Streams /\ o \notin Writes /\ c[2] \in {"open", "read", "release"}
         \/ o \in Writes /\ o \notin Streams /\ c[2] \in {"begin", "chunk", "commit", "abort"}
  BY <1>1, CallShape, SessionAssumption DEF Operations, o
<1>5. \A d \in Calls : /\ Out(d)' <=> Out(d)
                       /\ d \in (waiting \cap {holder})' => d \in waiting \cap {holder}
                       /\ \A t \in BOOLEAN : ~Reply(d, t) /\ (Reply(d, t)' => d = c)
                       /\ Reply(d, TRUE)' <=> (d = c /\ ok)
  <2>1. \A d \in Calls : /\ Out(d)' <=> Out(d)
                         /\ d \in (waiting \cap {holder})' => d \in waiting \cap {holder}
    BY <1>3 DEF Out
  <2>2. \A d \in Calls : \A t \in BOOLEAN : ~Reply(d, t)
    BY <1>1 DEF Reply
  <2>3. \A d \in Calls : \A t \in BOOLEAN : Reply(d, t)' => d = c
    BY <1>2 DEF Reply
  <2>4. Reply(c, ok)' /\ \A t \in BOOLEAN : Reply(c, t)' => t = ok
    BY <1>2 DEF Reply
  <2>5. Reply(c, TRUE)' <=> ok
    BY <2>4
  <2>6. QED
    BY <2>1, <2>2, <2>3, <2>5
<1>6. Out(c)
  BY <1>1 DEF Out
<1>7. OthersKeep(o)
  BY <1>5 DEF OthersKeep, o
<1>8. ASSUME o \in Writes
      PROVE  /\ Ground'
             /\ CallsOf(o)' /\ Progress(o)' /\ Slot(o)'
             /\ files' = files /\ \A w \in Writes \ {o} : /\ written'[w] = written[w]
                                  /\ (w \in published') = (w \in published)
                                  /\ (w \in uploads' => w \in uploads)
  <2> USE <1>8
  <2> DEFINE W == {"begin", "chunk", "commit", "abort"}
  <2>1. c[2] \in W /\ o \notin Streams /\ c[2] \notin {"open", "read", "release"} /\ c = <<o, c[2]>>
    BY <1>4
  <2>2. CallsOf(o) /\ Progress(o) /\ Slot(o) /\ written[o] \in Nat /\ written \in [Writes -> Nat]
    BY DEF Handles, Ground
  <2>3. \A r \in W : /\ <<o, r>> \in Calls
                     /\ Out(<<o, r>>)' <=> Out(<<o, r>>)
                     /\ <<o, r>> \in (waiting \cap {holder})' => <<o, r>> \in waiting \cap {holder}
                     /\ \A t \in BOOLEAN : ~Reply(<<o, r>>, t) /\ (Reply(<<o, r>>, t)' => r = c[2])
                     /\ Reply(<<o, r>>, TRUE)' <=> (r = c[2] /\ ok)
    <3>1. \A r \in W : <<o, r>> \in Calls /\ (<<o, r>> = c <=> r = c[2])
      BY <2>1 DEF Calls
    <3>2. QED
      BY <1>5, <3>1
  <2>4. Out(<<o, c[2]>>)
    BY <1>6, <2>1
  <2>5. CallsOf(o)'
    BY <1>3, <2>2, <2>3 DEF CallsOf
  <2>6. /\ files' = files
        /\ written' = IF ok /\ c[2] = "chunk" THEN [written EXCEPT ![o] = @ + 1] ELSE written
        /\ published' = IF ok /\ c[2] = "commit" THEN published \cup {o} ELSE published
        /\ uploads' = IF c[2] = "begin" /\ ok THEN uploads \cup {o}
                      ELSE IF c[2] = "abort" \/ (c[2] = "commit" /\ ok) THEN uploads \ {o} ELSE uploads
    <3>1. CASE ok
      <4>1. Perform(c)
        BY <1>2, <3>1
      <4>2. \/ c[2] = "begin" /\ Begin(o)
            \/ c[2] = "chunk" /\ Chunk(o)
            \/ c[2] = "commit" /\ Commit(o)
            \/ c[2] = "abort" /\ Abort(o)
        BY <2>1, <4>1 DEF Perform, o
      <4>3. QED
        BY <3>1, <4>2 DEF Begin, Chunk, Commit, Abort, tables
    <3>2. CASE ~ok
      <4>1. Fail(c)
        BY <1>2, <3>2
      <4>2. QED
        BY <3>2, <4>1 DEF Fail, storage, o
    <3>3. QED
      BY <3>1, <3>2
  <2>7. /\ written' \in [Writes -> Nat]
        /\ written'[o] = IF ok /\ c[2] = "chunk" THEN written[o] + 1 ELSE written[o]
        /\ \A w \in Writes \ {o} : written'[w] = written[w]
    BY <2>2, <2>6
  <2>8. Ground'
    <3>1. files' \subseteq Streams /\ uploads' \subseteq Writes /\ published' \subseteq Writes
      BY <2>6 DEF Handles, Ground
    <3>2. QED
      BY <1>1, <1>2, <1>3, <2>7, <3>1 DEF Handles, Ground, Reply
  <2>9. Progress(o)'
    <3>1. CASE c[2] = "chunk"
      BY <1>3, <2>2, <2>3, <2>4, <2>6, <2>7, <3>1 DEF CallsOf, Progress
    <3>2. CASE c[2] = "commit"
      BY <1>3, <2>2, <2>3, <2>4, <2>6, <2>7, <3>2 DEF CallsOf, Progress
    <3>3. CASE c[2] \in {"begin", "abort"}
      BY <1>3, <2>2, <2>3, <2>6, <2>7, <3>3 DEF CallsOf, Progress
    <3>4. QED
      BY <2>1, <3>1, <3>2, <3>3
  <2>10. Slot(o)'
    <3>1. CASE c[2] = "begin"
      BY <1>3, <2>2, <2>3, <2>4, <2>6, <3>1 DEF CallsOf, Slot
    <3>2. CASE c[2] # "begin"
      <4>1. o \in uploads' => o \in uploads /\ c[2] # "abort" /\ ~(c[2] = "commit" /\ ok)
        BY <2>6, <3>2
      <4>2. at[o] \in {"beginning", "withdrawn"} => o \notin uploads
        BY <2>2, <2>3 DEF Slot
      <4>3. QED
        BY <1>3, <2>2, <2>3, <4>1, <4>2 DEF Slot
    <3>3. QED
      BY <3>1, <3>2
  <2>11. QED
    BY <2>5, <2>6, <2>7, <2>8, <2>9, <2>10
<1>9. ASSUME o \in Streams
      PROVE  /\ Ground'
             /\ o \notin cut => File(o)'
             /\ UNCHANGED <<written, published, uploads>>
             /\ \A s \in Streams \ {o} : s \in files' => s \in files
  <2> USE <1>9
  <2> DEFINE W == {"open", "read", "release"}
  <2>1. c[2] \in W /\ c[2] \notin {"begin", "chunk", "commit", "abort"} /\ c = <<o, c[2]>>
    BY <1>4
  <2>2. /\ UNCHANGED <<written, published, uploads>>
        /\ files' = IF ok /\ c[2] = "open" THEN files \cup {o}
                    ELSE IF c[2] = "release" THEN files \ {o} ELSE files
    <3>1. CASE ok
      <4>1. Perform(c)
        BY <1>2, <3>1
      <4>2. \/ c[2] = "open" /\ Open(o)
            \/ c[2] = "read" /\ Read(o)
            \/ c[2] = "release" /\ Release(o)
        BY <2>1, <4>1 DEF Perform, o
      <4>3. QED
        BY <3>1, <4>2 DEF Open, Read, Release, tables, storage
    <3>2. CASE ~ok
      <4>1. Fail(c)
        BY <1>2, <3>2
      <4>2. QED
        BY <2>1, <3>2, <4>1 DEF Fail, storage
    <3>3. QED
      BY <3>1, <3>2
  <2>3. Ground'
    <3>1. files' \subseteq Streams
      BY <2>2 DEF Handles, Ground
    <3>2. QED
      BY <1>1, <1>2, <1>3, <2>2, <3>1 DEF Handles, Ground, Reply
  <2>4. ASSUME o \notin cut PROVE File(o)'
    <3>1. File(o)
      BY <2>4 DEF Handles
    <3>2. \A r \in W : /\ Out(<<o, r>>)' <=> Out(<<o, r>>)
                       /\ <<o, r>> \in (waiting \cap {holder})' => <<o, r>> \in waiting \cap {holder}
                       /\ \A t \in BOOLEAN : ~Reply(<<o, r>>, t) /\ (Reply(<<o, r>>, t)' => r = c[2])
                       /\ Reply(<<o, r>>, TRUE)' <=> (r = c[2] /\ ok)
      <4>1. \A r \in W : <<o, r>> \in Calls /\ (<<o, r>> = c <=> r = c[2])
        BY <2>1 DEF Calls
      <4>2. QED
        BY <1>5, <4>1
    <3>3. Out(<<o, c[2]>>)
      BY <1>6, <2>1
    <3>4. CASE c[2] = "open"
      BY <1>3, <2>2, <3>1, <3>2, <3>3, <3>4 DEF File
    <3>5. CASE c[2] # "open"
      <4>1. o \in files' => o \in files /\ c[2] # "release"
        BY <2>2, <3>5
      <4>2. at[o] = "opening" => o \notin files
        BY <3>1, <3>2 DEF File
      <4>3. QED
        BY <1>3, <3>1, <3>2, <4>1, <4>2 DEF File
    <3>6. QED
      BY <3>4, <3>5
  <2>5. QED
    BY <2>2, <2>3, <2>4
<1>10. /\ \A w \in Writes \ {o} : CallsOf(w)' /\ Progress(w)' /\ Slot(w)'
       /\ \A s \in (Streams \ cut) \ {o} : File(s)'
  <2>1. /\ \A w \in Writes \ {o} : /\ sent'[w] = sent[w] /\ written'[w] = written[w]
                                    /\ (w \in published') = (w \in published)
                                    /\ (w \in uploads' => w \in uploads)
        /\ \A s \in Streams \ {o} : s \in files' => s \in files
    BY <1>3, <1>4, <1>8, <1>9
  <2>2. \A p \in Operations \ {o} : at'[p] = at[p]
    BY <1>3
  <2>3. closed => closed'
    BY <1>3
  <2>4. QED
    BY <1>4, <1>7, <2>1, <2>2, <2>3, OthersUntouched
<1>11. QED
  BY <1>3, <1>4, <1>8, <1>9, <1>10 DEF Handles

(* The argument of the theorems below is inductive. *)
LEMMA HandlesStep == Handles /\ [Next]_vars => Handles'
<1> SUFFICES ASSUME Handles, [Next]_vars PROVE Handles'
  OBVIOUS
<1>0. PipeInStep'
  BY PipeStep DEF Handles, Ground
<1>1. ASSUME NEW o \in Operations, Coroutine(o) PROVE Handles'
  BY <1>0, <1>1, CoroutineStep
<1>2. ASSUME NEW c \in Calls, Thread(c) PROVE Handles'
  BY <1>0, <1>2, ThreadStep
<1>3. CASE SessionClose \/ CloseCancelled \/ CloseHold \/ CloseEnd
  BY <1>0, <1>3, CloseStep
<1>4. CASE Serve
  BY <1>0, <1>4, Served
<1>5. CASE WorkerLeave \/ WorkerExit \/ WorkerCrash \/ UNCHANGED vars
  <2>1. /\ UNCHANGED <<at, sent, written, published, cut, answers, closed, holder, waiting>>
        /\ \/ UNCHANGED <<uploads, files>> /\ (Alive' <=> Alive)
           \/ uploads' = {} /\ files' = {}
    BY <1>5 DEF WorkerLeave, WorkerExit, WorkerCrash, vars, coroutines, session, pipe, tables, storage, Alive
  <2>2. /\ uploads' \subseteq uploads /\ files' \subseteq files /\ waiting' \subseteq Calls
        /\ (~Alive' => files' = {} /\ uploads' = {})
    BY <2>1 DEF Handles, Ground
  <2>3. QED
    BY <1>0, <2>1, <2>2, AllUntouched DEF Out
<1>6. QED
  BY <1>1, <1>2, <1>3, <1>4, <1>5 DEF Next, Worker

(* The handles of every session are in order. *)
LEMMA HandlesCorrect == Spec => []Handles
BY HandlesInit, HandlesStep, PTL DEF Spec

(* A published file is the whole upload, however calls were cancelled, timed out
   or failed: a commit is asked for after the last chunk has returned, and no
   chunk is left behind it. *)
THEOREM PublishedCorrect == Spec => []PublishedIsWhole
<1>1. Handles => PublishedIsWhole
  <2> SUFFICES ASSUME Handles, NEW w \in Writes, w \in published PROVE written[w] = Chunks
    BY DEF PublishedIsWhole, Handles, Ground
  <2>1. QED
    BY DEF Handles, Progress
<1>2. QED
  BY <1>1, HandlesCorrect, PTL

(* The upload of a write that has ended is given back by a call that is still out. *)
THEOREM UploadsCorrect == Spec => []UploadsEnd
<1>1. Handles => UploadsEnd
  <2> SUFFICES ASSUME Handles, NEW w \in Writes, w \in uploads, Ended(w), ~closed PROVE Pending(w)
    BY DEF UploadsEnd, Handles, Ground
  <2>1. at[w] = "failed" /\ Out(<<w, "abort">>)
    BY DEF Handles, CallsOf, Slot, Ended
  <2>2. <<w, "abort">> \in Calls /\ <<w, "abort">>[1] = w
    BY DEF Calls
  <2>3. QED
    BY <2>1, <2>2 DEF Pending, Out
<1>2. QED
  BY <1>1, HandlesCorrect, PTL

(* So is the file of a stream that was not cancelled while it opened it. *)
THEOREM StreamsCorrect == Spec => []StreamsEnd
<1>1. Handles => StreamsEnd
  <2> SUFFICES ASSUME Handles, NEW s \in Streams, s \in files \ cut, Ended(s), ~closed PROVE Pending(s)
    BY DEF StreamsEnd, Handles, Ground
  <2>1. Out(<<s, "release">>)
    BY DEF Handles, File, Ended
  <2>2. <<s, "release">> \in Calls /\ <<s, "release">>[1] = s
    BY DEF Calls
  <2>3. QED
    BY <2>1, <2>2 DEF Pending, Out
<1>2. QED
  BY <1>1, HandlesCorrect, PTL

-----------------------------------------------------------------------------
(* The refinement of AtomicUpload *)

(* What the content of a destination is, once nothing partial is published. *)
LEMMA Contents ==
  ASSUME Handles, NEW w \in Writes
  PROVE  /\ Content(w) = IF w \in published THEN "new" ELSE "old"
         /\ at[w] = "ok" => w \in published
BY DEF Handles, Progress, Content

(* A write that returns or raises does so once, and only the worker publishes. *)
LEMMA Reported ==
  ASSUME Handles, Handles', NEW o \in Operations,
         \/ Coroutine(o)
         \/ \E c \in Calls, ok \in BOOLEAN, rest \in SUBSET Calls : c[1] = o /\ Deliver(c, ok, rest)
  PROVE  /\ \A w \in Writes \ {o} : at'[w] = at[w]
         /\ o \in Writes /\ at[o] \in {"ok", "failed"} => at'[o] = at[o]
<1>1. CASE Coroutine(o)
  <2>1. \A w \in Writes \ {o} : at'[w] = at[w]
    <3>1. PICK x : at' = [at EXCEPT ![o] = x]
      BY <1>1, Moved
    <3>2. QED
      BY <3>1 DEF Handles, Ground, Operations
  <2>2. o \in Writes => at[o] \notin {"ok", "failed"}
    BY <1>1, SessionAssumption DEF Coroutine, WriteBegin, WriteChunk, WriteCommit, WriteSourceFails, Cancel
  <2>3. QED
    BY <2>1, <2>2
<1>2. ASSUME NEW c \in Calls, NEW ok \in BOOLEAN, NEW rest, c[1] = o, Deliver(c, ok, rest)
      PROVE  /\ \A w \in Writes \ {o} : at'[w] = at[w]
             /\ o \in Writes /\ at[o] \in {"ok", "failed"} => at'[o] = at[o]
  <2>1. at' = at \/ \E x \in {"streaming", "sending", "ok", Over(o), "leaving"} : at' = [at EXCEPT ![o] = x]
    BY <1>2 DEF Deliver, Leave, coroutines
  <2>2. at[o] \in {"ok", "failed"} => at' = at
    BY <1>2 DEF Deliver, Awaiting, coroutines
  <2>3. QED
    BY <2>1, <2>2 DEF Handles, Ground, Operations
<1>3. QED
  BY <1>1, <1>2

(* The initial states of a session are those of an upload that is pending. *)
LEMMA UploadInit == Init => Upload!Init
<1> SUFFICES ASSUME Init PROVE Upload!Init
  OBVIOUS
<1>1. \A w \in Writes : Told(w) = "pending" /\ Content(w) = "old"
  BY DEF Init, Told, Content, Operations
<1>2. QED
  BY <1>1 DEF Upload!Init

(* One write reports, or one destination changes, or nothing does. *)
LEMMA UploadMove ==
  ASSUME Handles, Handles', NEW o \in Writes,
         \A w \in Writes \ {o} : at'[w] = at[w] /\ (w \in published') = (w \in published),
         \/ (o \in published') = (o \in published) /\ (at[o] \in {"ok", "failed"} => at'[o] = at[o])
         \/ at' = at /\ o \in published'
  PROVE  [Upload!Next]_(Upload!vars)
<1> DEFINE told == [w \in Writes |-> Told(w)]
<1> DEFINE content == [w \in Writes |-> Content(w)]
<1>1. \A w \in Writes : /\ Content(w) = IF w \in published THEN "new" ELSE "old"
                        /\ Content(w)' = IF w \in published' THEN "new" ELSE "old"
                        /\ at[w] = "ok" => w \in published
                        /\ at'[w] = "ok" => w \in published'
  BY DEF Handles, Progress, Content
<1>2. \A w \in Writes \ {o} : Told(w)' = Told(w) /\ Content(w)' = Content(w)
  BY <1>1 DEF Told
<1>3. /\ told' = [told EXCEPT ![o] = Told(o)'] /\ content' = [content EXCEPT ![o] = Content(o)']
      /\ told[o] = Told(o) /\ content[o] = Content(o)
  BY <1>2
<1>4. \/ Told(o)' = Told(o) /\ Content(o)' = Content(o)
      \/ Told(o) = "pending" /\ Told(o)' = "failed" /\ Content(o)' = Content(o)
      \/ Told(o) = "pending" /\ Told(o)' = "ok" /\ Content(o)' = Content(o) /\ Content(o) = "new"
      \/ Content(o) = "old" /\ Content(o)' = "new" /\ Told(o) # "ok" /\ Told(o)' = Told(o)
  <2>1. CASE (o \in published') = (o \in published) /\ (at[o] \in {"ok", "failed"} => at'[o] = at[o])
    BY <1>1, <2>1 DEF Told
  <2>2. CASE at' = at /\ o \in published'
    BY <1>1, <2>2 DEF Told
  <2>3. QED
    BY <2>1, <2>2
<1>5. \/ told' = told /\ content' = content
      \/ told[o] = "pending" /\ told' = [told EXCEPT ![o] = "failed"] /\ content' = content
      \/ /\ told[o] = "pending" /\ content[o] = "new"
         /\ told' = [told EXCEPT ![o] = "ok"] /\ content' = content
      \/ /\ content[o] = "old" /\ told[o] # "ok"
         /\ content' = [content EXCEPT ![o] = "new"] /\ told' = told
  <2>1. told = [told EXCEPT ![o] = told[o]] /\ content = [content EXCEPT ![o] = content[o]]
    OBVIOUS
  <2> HIDE DEF told, content
  <2>2. QED
    BY <1>3, <1>4, <2>1
<1>6. QED
  BY <1>5 DEF Upload!Next, Upload!vars, Upload!Publish, Upload!Return, Upload!Raise

(* Every step of a session is a step of its uploads, or none. *)
LEMMA UploadStep == Handles /\ Handles' /\ [Next]_vars => [Upload!Next]_(Upload!vars)
<1> SUFFICES ASSUME Handles, Handles', [Next]_vars PROVE [Upload!Next]_(Upload!vars)
  OBVIOUS
<1>1. ASSUME UNCHANGED <<at, published>>
      PROVE  [Upload!Next]_(Upload!vars)
  <2>1. \A w \in Writes : Told(w)' = Told(w) /\ Content(w)' = Content(w)
    BY <1>1 DEF Handles, Progress, Content, Told
  <2>2. QED
    BY <2>1 DEF Upload!vars
<1>2. ASSUME NEW o \in Operations, published' = published,
             \/ Coroutine(o)
             \/ \E c \in Calls, ok \in BOOLEAN, rest \in SUBSET Calls : c[1] = o /\ Deliver(c, ok, rest)
      PROVE  [Upload!Next]_(Upload!vars)
  <2>1. /\ \A w \in Writes \ {o} : at'[w] = at[w]
        /\ o \in Writes /\ at[o] \in {"ok", "failed"} => at'[o] = at[o]
    BY <1>2, Reported
  <2>2. CASE o \in Writes
    BY <1>2, <2>1, <2>2, UploadMove
  <2>3. CASE o \notin Writes
    <3>1. \A w \in Writes : Told(w)' = Told(w) /\ Content(w)' = Content(w)
      BY <1>2, <2>1, <2>3 DEF Handles, Progress, Content, Told
    <3>2. QED
      BY <3>1 DEF Upload!vars
  <2>4. QED
    BY <2>2, <2>3
<1>3. ASSUME NEW o \in Operations, Coroutine(o) PROVE [Upload!Next]_(Upload!vars)
  BY <1>2, <1>3, Moved DEF storage
<1>4. ASSUME NEW c \in Calls, Thread(c) PROVE [Upload!Next]_(Upload!vars)
  <2>1. CASE ThreadSend(c) \/ ThreadTimeout(c)
    BY <1>1, <2>1 DEF ThreadSend, ThreadTimeout, coroutines, storage
  <2>2. CASE ThreadExpired(c) \/ ThreadReceive(c) \/ ThreadTimedOut(c)
    <3>1. published' = published
      BY <2>2 DEF ThreadExpired, ThreadReceive, ThreadTimedOut, Gone, storage
    <3>2. PICK ok \in BOOLEAN, rest \in {waiting, waiting \ {c}} : Deliver(c, ok, rest)
      <4>1. CASE ThreadExpired(c)
        BY <4>1 DEF ThreadExpired
      <4>2. CASE ThreadTimedOut(c)
        BY <4>2 DEF ThreadTimedOut
      <4>3. CASE ThreadReceive(c)
        <5>1. CASE answers # <<>>
          <6>1. PICK ok \in BOOLEAN : Reply(holder, ok)
            BY <5>1 DEF Handles, Ground
          <6>2. Head(answers)[2] = ok
            BY <6>1 DEF Reply
          <6>3. QED
            BY <4>3, <5>1, <6>2 DEF ThreadReceive
        <5>2. CASE answers = <<>>
          BY <4>3, <5>2 DEF ThreadReceive
        <5>3. QED
          BY <5>1, <5>2
      <4>4. QED
        BY <2>2, <4>1, <4>2, <4>3
    <3>3. rest \in SUBSET Calls /\ c[1] \in Operations
      BY CallShape DEF Handles, Ground, Operations
    <3>4. QED
      BY <1>2, <3>1, <3>2, <3>3
  <2>3. QED
    BY <1>4, <2>1, <2>2 DEF Thread
<1>5. CASE Serve
  <2>1. PICK c \in Calls : c = Head(requests)
    BY <1>5 DEF Serve, Handles, Ground, PipeInStep, Alive
  <2>2. at' = at /\ (published' = published \/ (c[1] \in Writes /\ published' = published \cup {c[1]}))
    <3>1. CASE Fail(c)
      BY <1>5, <3>1 DEF Serve, Fail, coroutines, storage
    <3>2. CASE Perform(c)
      <4>1. CASE c[2] = "commit" /\ Commit(c[1])
        BY <1>5, <2>1, <4>1, CallShape DEF Serve, Commit, coroutines
      <4>2. CASE published' = published
        BY <1>5, <4>2 DEF Serve, coroutines
      <4>3. QED
        BY <3>2, <4>1, <4>2 DEF Perform, Open, Read, Release, Begin, Chunk, Abort, storage
    <3>3. QED
      BY <1>5, <2>1, <3>1, <3>2 DEF Serve
  <2>3. CASE published' = published
    BY <1>1, <2>2, <2>3
  <2>4. CASE c[1] \in Writes /\ published' = published \cup {c[1]}
    <3>1. \A w \in Writes \ {c[1]} : at'[w] = at[w] /\ (w \in published') = (w \in published)
      BY <2>2, <2>4
    <3>2. at' = at /\ c[1] \in published'
      BY <2>2, <2>4
    <3>3. QED
      BY <2>4, <3>1, <3>2, UploadMove
  <2>5. QED
    BY <2>2, <2>3, <2>4
<1>6. CASE SessionClose \/ CloseCancelled \/ CloseHold \/ CloseEnd \/ WorkerLeave \/ WorkerExit \/ WorkerCrash \/ UNCHANGED vars
  BY <1>1, <1>6 DEF SessionClose, CloseCancelled, CloseHold, CloseEnd, Gone, WorkerLeave, WorkerExit, WorkerCrash, vars,
                    coroutines, storage
<1>7. QED
  BY <1>3, <1>4, <1>5, <1>6 DEF Next, Worker

(* FilesystemSession.write keeps its promise: the destination changes at once to
   the whole upload, and a write returns only when it has. *)
THEOREM UploadCorrect == Spec => UploadSpec
BY UploadInit, UploadStep, HandlesCorrect, PTL DEF Spec, UploadSpec, Upload!Spec
=============================================================================
