--------------------------- MODULE SessionBrowser ---------------------------
(***************************************************************************)
(* The sessions of a service (Browser of sessions.py and the routes and    *)
(* the reaper of http.py that use it): how workers are started, counted,   *)
(* expired and closed, on the event loop's one pool of threads.            *)
(*                                                                         *)
(* A worker is named by the connection or discovery that starts it.  A     *)
(* thread's job is <<actor, kind, worker>>: asyncio.to_thread queues it    *)
(* and the threads of the pool take the jobs in order.                     *)
(*                                                                         *)
(* Abstracted: one principal, time (whatever may expire can do so at any   *)
(* moment), what a call asks of its worker (SessionWorker models one), the *)
(* grace Worker.close gives.  A coroutine is cancelled at most once, while *)
(* it awaits a pass of expire, the start of its worker or the close of a   *)
(* session or discovery.                                                   *)
(***************************************************************************)
EXTENDS Integers, Sequences, FiniteSets, SequencesExt

CONSTANTS
  Connects,       \* calls of Browser.connect
  Discoveries,    \* calls of Browser.discover
  Requests,       \* calls of FilesystemSession._call
  MaxSessions,    \* policy.max_sessions
  PoolSize,       \* threads of the event loop's default executor
  None            \* no session

Tasks == Connects \cup Discoveries

Reaper   == "reaper"
SignOut  == "signout"
Delete   == "delete"
Shutdown == "shutdown"

ASSUME BrowserAssumption ==
  /\ Connects \cap Discoveries = {}
  /\ None \notin Connects
  /\ Tasks \cap {Reaper, SignOut, Delete, Shutdown} = {}
  /\ MaxSessions \in Nat \ {0} /\ PoolSize \in Nat \ {0}

VARIABLES
  at,           \* at[t]: where the coroutine of connection or discovery t is
  pending,      \* Browser.pending
  starting,     \* Browser.starting
  started,      \* started[t]: result of the thread that starts t's worker
  sessions,     \* keys of Browser.sessions
  owners,       \* keys of owners in create_app
  marked,       \* sessions whose closed flag is set
  left,         \* left[e]: sessions a pass of expire, or the sign-out, has yet to look at
  waiting,      \* waiting[e]: session whose close e awaits
  reaping,      \* the reaper is in a pass of expire
  browser,      \* "open", "gathering", "closing" or "closed"
  gathered,     \* tasks Browser.close gathers
  queue,        \* jobs that no thread has taken, in order
  busy,         \* jobs on a thread
  held,         \* jobs that hold the lock of their worker
  process,      \* process[t]: the worker process of t
  stuck,        \* workers in a native call that does not return
  timeouts,     \* history: timeouts[c], calls of session c that timed out
  abandoned     \* history: workers whose close was taken back from the queue

registry == <<sessions, owners, marked>>
coroutines == <<at, pending, starting>>
passes == <<left, waiting, reaping>>
closing == <<browser, gathered>>
pool == <<queue, busy, held>>
workers == <<started, process, stuck>>
history == <<timeouts, abandoned>>
vars == <<registry, coroutines, passes, closing, pool, workers, history>>

Passes   == Connects \cup {Reaper}
Awaiters == Passes \cup {SignOut, Delete}
Closers  == Tasks \cup {Reaper, SignOut, Delete, Shutdown}

Close(actor, w) == <<actor, "close", w>>
CloseJobs == Closers \X {"close"} \X Tasks
CallJobs  == Requests \X {"call"} \X Connects
StartJobs == {<<t, "start", t>> : t \in Tasks}
Jobs == CloseJobs \cup CallJobs \cup StartJobs

Queued  == {queue[i] : i \in DOMAIN queue}
Pending == Queued \cup busy

Submit(job) == queue' = Append(queue, job)

(* asyncio.to_thread has returned to its coroutine. *)
Returned(job) == job \notin Pending

(* Cancelling a coroutine that awaits a close takes the job back while it is queued:
   the session stays marked, and nobody will close its worker. *)
Withdraw(job) ==
  /\ UNCHANGED timeouts
  /\ IF job \in Queued
     THEN /\ \E i \in DOMAIN queue : queue[i] = job /\ queue' = RemoveAt(queue, i)
          /\ abandoned' = abandoned \cup {job[3]}
     ELSE UNCHANGED <<queue, abandoned>>

Used(w) == \E j \in Pending : j \in CallJobs /\ j[3] = w

-----------------------------------------------------------------------------
(* A pass of Browser.expire *)

\* Mutant of MustExpire: only the flag of the session is tested.
MustExpireMarked(c) == c \in marked

(* expire tests a session: closed, its worker gone, or unused and idle. *)
MustExpire(c) == c \in marked \/ process[c] = "dead"

ExpireSkip(e, c) ==
  /\ c \in left[e] /\ waiting[e] = None
  /\ ~MustExpire(c)
  /\ left' = [left EXCEPT ![e] = @ \ {c}]
  /\ UNCHANGED <<registry, coroutines, waiting, reaping, closing, pool, workers, history>>

(* session.close sets the flag before it awaits the thread. *)
ExpireClose(e, c) ==
  /\ c \in left[e] /\ waiting[e] = None
  /\ c \notin marked
  /\ process[c] = "dead" \/ ~Used(c)
  /\ marked' = marked \cup {c}
  /\ waiting' = [waiting EXCEPT ![e] = c]
  /\ Submit(Close(e, c))
  /\ UNCHANGED <<sessions, owners, coroutines, left, reaping, closing, busy, held, workers, history>>

(* session.close returns at once when the flag is set, whoever closes the worker. *)
ExpireMarked(e, c) ==
  /\ c \in left[e] /\ waiting[e] = None
  /\ c \in marked
  /\ sessions' = sessions \ {c}
  /\ left' = [left EXCEPT ![e] = @ \ {c}]
  /\ UNCHANGED <<owners, marked, coroutines, waiting, reaping, closing, pool, workers, history>>

ExpirePop(e) ==
  /\ waiting[e] # None
  /\ Returned(Close(e, waiting[e]))
  /\ sessions' = sessions \ {waiting[e]}
  /\ left' = [left EXCEPT ![e] = @ \ {waiting[e]}]
  /\ waiting' = [waiting EXCEPT ![e] = None]
  /\ UNCHANGED <<owners, marked, coroutines, reaping, closing, pool, workers, history>>

Expire(e) ==
  ExpirePop(e) \/ \E c \in Connects : ExpireSkip(e, c) \/ ExpireClose(e, c) \/ ExpireMarked(e, c)

Expired(e) == left[e] = {} /\ waiting[e] = None

(* The reaper of the service: a pass every second, then owners of sessions that
   are gone are dropped. *)
ReapBegin ==
  /\ browser = "open" /\ ~reaping
  /\ reaping' = TRUE
  /\ left' = [left EXCEPT ![Reaper] = sessions]
  /\ UNCHANGED <<registry, coroutines, waiting, closing, pool, workers, history>>

ReapEnd ==
  /\ reaping /\ Expired(Reaper)
  /\ reaping' = FALSE
  /\ owners' = owners \cap sessions
  /\ UNCHANGED <<sessions, marked, coroutines, left, waiting, closing, pool, workers, history>>

-----------------------------------------------------------------------------
(* connect, discover and _worker *)

ConnectBegin(c) ==
  /\ at[c] = "idle"
  /\ at' = [at EXCEPT ![c] = "expiring"]
  /\ left' = [left EXCEPT ![c] = sessions]
  /\ UNCHANGED <<registry, pending, starting, waiting, reaping, closing, pool, workers, history>>

\* Mutant of HasRoom: connections under way are not counted.
HasRoomForSessions == Cardinality(sessions) < MaxSessions

HasRoom == Cardinality(sessions) + pending < MaxSessions

(* The limit is reached, the descriptor is refused, or the browser is closed:
   pending is raised and lowered again in one step. *)
ConnectRefuse(c) ==
  /\ at[c] = "expiring" /\ Expired(c)
  /\ at' = [at EXCEPT ![c] = "over"]
  /\ UNCHANGED <<registry, pending, starting, passes, closing, pool, workers, history>>

(* pending counts t and _worker starts a thread for its worker. *)
StartWorker(t) ==
  /\ browser = "open"
  /\ pending' = pending + 1
  /\ starting' = starting \cup {t}
  /\ at' = [at EXCEPT ![t] = "starting"]
  /\ Submit(<<t, "start", t>>)
  /\ UNCHANGED <<registry, passes, closing, busy, held, workers, history>>

ConnectStart(c) ==
  /\ at[c] = "expiring" /\ Expired(c)
  /\ HasRoom
  /\ StartWorker(c)

DiscoverRefuse(d) ==
  /\ at[d] = "idle"
  /\ pending >= MaxSessions \/ browser # "open"
  /\ at' = [at EXCEPT ![d] = "over"]
  /\ UNCHANGED <<registry, pending, starting, passes, closing, pool, workers, history>>

DiscoverStart(d) ==
  /\ at[d] = "idle"
  /\ pending < MaxSessions
  /\ StartWorker(d)

(* The finally blocks of _worker and of connect or discover. *)
Settle(t, state) ==
  /\ at' = [at EXCEPT ![t] = state]
  /\ pending' = pending - 1
  /\ starting' = starting \ {t}

(* The worker did not start. *)
StartFailed(t) ==
  /\ at[t] \in {"starting", "cancelled"} /\ started[t] = "failed"
  /\ Settle(t, "over")
  /\ UNCHANGED <<registry, passes, closing, pool, workers, history>>

(* Its coroutine goes on, the browser is open: the session is registered, and
   owned before anything else runs. *)
Connected(c) ==
  /\ at[c] = "starting" /\ started[c] = "ok" /\ browser = "open"
  /\ sessions' = sessions \cup {c}
  /\ owners' = owners \cup {c}
  /\ Settle(c, "over")
  /\ UNCHANGED <<marked, passes, closing, pool, workers, history>>

(* A discovery has its answer: it no longer counts while its worker is closed. *)
Discovered(d) ==
  /\ at[d] = "starting" /\ started[d] = "ok" /\ browser = "open"
  /\ Settle(d, "leaving")
  /\ Submit(Close(d, d))
  /\ UNCHANGED <<registry, passes, closing, busy, held, workers, history>>

(* The worker is not wanted: the browser was closed, or the coroutine cancelled. *)
StartRefused(t) ==
  /\ \/ at[t] = "starting" /\ browser # "open"
     \/ at[t] = "cancelled"
  /\ started[t] = "ok"
  /\ at' = [at EXCEPT ![t] = "closing"]
  /\ Submit(Close(t, t))
  /\ UNCHANGED <<registry, pending, starting, passes, closing, busy, held, workers, history>>

CloseReturned(t) ==
  /\ Returned(Close(t, t))
  /\ \/ at[t] = "closing" /\ Settle(t, "over")
     \/ /\ at[t] = "leaving"
        /\ at' = [at EXCEPT ![t] = "over"]
        /\ UNCHANGED <<pending, starting>>
  /\ UNCHANGED <<registry, passes, closing, pool, workers, history>>

\* Mutant of CancelStart: the start is abandoned with its coroutine.
CancelStartAtOnce(t) ==
  /\ at[t] = "starting"
  /\ Settle(t, "over")
  /\ UNCHANGED <<registry, passes, closing, pool, workers, history>>

(* Cancelled while the worker starts: the shielded start is awaited first. *)
CancelStart(t) ==
  /\ at[t] = "starting"
  /\ at' = [at EXCEPT ![t] = "cancelled"]
  /\ UNCHANGED <<registry, pending, starting, passes, closing, pool, workers, history>>

(* Cancelled in its pass of expire. *)
CancelExpire(c) ==
  /\ at[c] = "expiring"
  /\ at' = [at EXCEPT ![c] = "over"]
  /\ left' = [left EXCEPT ![c] = {}]
  /\ waiting' = [waiting EXCEPT ![c] = None]
  /\ Withdraw(Close(c, waiting[c]))
  /\ UNCHANGED <<registry, pending, starting, reaping, closing, busy, held, workers>>

(* Cancelled while the worker of its answered discovery is closed. *)
CancelLeave(d) ==
  /\ at[d] = "leaving"
  /\ at' = [at EXCEPT ![d] = "over"]
  /\ Withdraw(Close(d, d))
  /\ UNCHANGED <<registry, pending, starting, passes, closing, busy, held, workers>>

-----------------------------------------------------------------------------
(* Routes that use and close sessions *)

(* A request finds its session by the owners table; _call queues its job. *)
Call(r, c) ==
  /\ c \in owners \cap sessions /\ c \notin marked
  /\ \A d \in Connects : Returned(<<r, "call", d>>)
  /\ Submit(<<r, "call", c>>)
  /\ UNCHANGED <<registry, coroutines, passes, closing, busy, held, workers, history>>

(* DELETE /sessions/{id} closes a session, then pops it. *)
DeleteBegin(c) ==
  /\ waiting[Delete] = None
  /\ c \in owners \cap sessions /\ c \notin marked
  /\ marked' = marked \cup {c}
  /\ waiting' = [waiting EXCEPT ![Delete] = c]
  /\ Submit(Close(Delete, c))
  /\ UNCHANGED <<sessions, owners, coroutines, left, reaping, closing, busy, held, workers, history>>

DeleteEnd(c) ==
  /\ waiting[Delete] = c
  /\ Returned(Close(Delete, c))
  /\ sessions' = sessions \ {c}
  /\ owners' = owners \ {c}
  /\ waiting' = [waiting EXCEPT ![Delete] = None]
  /\ UNCHANGED <<marked, coroutines, left, reaping, closing, pool, workers, history>>

(* DELETE /login takes the sessions its principal owns at that moment, one after
   another: each is popped, closed, and loses its owner. *)
SignOutBegin ==
  /\ left[SignOut] = {} /\ waiting[SignOut] = None
  /\ left' = [left EXCEPT ![SignOut] = owners]
  /\ UNCHANGED <<registry, coroutines, waiting, reaping, closing, pool, workers, history>>

(* There is nothing to await for a session that is gone, or marked already. *)
SignOutNext(c) ==
  /\ c \in left[SignOut] /\ waiting[SignOut] = None
  /\ left' = [left EXCEPT ![SignOut] = @ \ {c}]
  /\ sessions' = sessions \ {c}
  /\ IF c \in sessions \ marked
     THEN /\ marked' = marked \cup {c}
          /\ waiting' = [waiting EXCEPT ![SignOut] = c]
          /\ Submit(Close(SignOut, c))
          /\ UNCHANGED owners
     ELSE /\ owners' = owners \ {c}
          /\ UNCHANGED <<marked, waiting, queue>>
  /\ UNCHANGED <<coroutines, reaping, closing, busy, held, workers, history>>

SignOutEnd(c) ==
  /\ waiting[SignOut] = c
  /\ Returned(Close(SignOut, c))
  /\ owners' = owners \ {c}
  /\ waiting' = [waiting EXCEPT ![SignOut] = None]
  /\ UNCHANGED <<sessions, marked, coroutines, left, reaping, closing, pool, workers, history>>

(* Either request is cancelled while it awaits the close. *)
CancelRoute(e) ==
  /\ waiting[e] # None
  /\ left' = [left EXCEPT ![SignOut] = IF e = SignOut THEN {} ELSE @]
  /\ waiting' = [waiting EXCEPT ![e] = None]
  /\ Withdraw(Close(e, waiting[e]))
  /\ UNCHANGED <<registry, coroutines, reaping, closing, busy, held, workers>>

-----------------------------------------------------------------------------
(* Browser.close at the end of the service *)

\* Mutant of ShutdownBegin: workers that are starting are not awaited.
ShutdownBeginUngathered ==
  /\ browser = "open"
  /\ browser' = "gathering"
  /\ reaping' = FALSE
  /\ left' = [left EXCEPT ![Reaper] = {}]
  /\ waiting' = [waiting EXCEPT ![Reaper] = None]
  /\ Withdraw(Close(Reaper, waiting[Reaper]))
  /\ UNCHANGED <<registry, coroutines, gathered, busy, held, workers>>

(* The reaper is cancelled first. *)
ShutdownBegin ==
  /\ browser = "open"
  /\ browser' = "gathering"
  /\ gathered' = starting
  /\ reaping' = FALSE
  /\ left' = [left EXCEPT ![Reaper] = {}]
  /\ waiting' = [waiting EXCEPT ![Reaper] = None]
  /\ Withdraw(Close(Reaper, waiting[Reaper]))
  /\ UNCHANGED <<registry, coroutines, busy, held, workers>>

Quiet == \A w \in Tasks : Returned(Close(Shutdown, w))

\* Mutant of ShutdownStart: a worker that did not start ends the gathering.
ShutdownStartOk(t) ==
  /\ browser = "gathering" /\ Quiet
  /\ t \in gathered
  /\ \A s \in gathered : started[s] = "ok"
  /\ gathered' = gathered \ {t}
  /\ Submit(Close(Shutdown, t))
  /\ UNCHANGED <<registry, coroutines, passes, browser, busy, held, workers, history>>

(* The starts that were gathered have ended: their workers are closed in turn. *)
ShutdownStart(t) ==
  /\ browser = "gathering" /\ Quiet
  /\ t \in gathered
  /\ \A s \in gathered : started[s] # "none"
  /\ gathered' = gathered \ {t}
  /\ IF started[t] = "ok" THEN Submit(Close(Shutdown, t)) ELSE UNCHANGED queue
  /\ UNCHANGED <<registry, coroutines, passes, browser, busy, held, workers, history>>

(* Sessions that are marked already are nobody's concern here. *)
ShutdownSessions ==
  /\ browser = "gathering" /\ gathered = {} /\ Quiet
  /\ browser' = "closing"
  /\ marked' = marked \cup sessions
  /\ \E jobs \in SetToSeqs({Close(Shutdown, c) : c \in sessions \ marked}) : queue' = queue \o jobs
  /\ UNCHANGED <<sessions, owners, coroutines, passes, gathered, busy, held, workers, history>>

ShutdownEnd ==
  /\ browser = "closing" /\ Quiet
  /\ browser' = "closed"
  /\ sessions' = {}
  /\ UNCHANGED <<owners, marked, coroutines, passes, gathered, pool, workers, history>>

-----------------------------------------------------------------------------
(* Threads of the pool *)

Take ==
  /\ queue # <<>>
  /\ Cardinality(busy) < PoolSize
  /\ queue' = Tail(queue)
  /\ busy' = busy \cup {Head(queue)}
  /\ UNCHANGED <<registry, coroutines, passes, closing, held, workers, history>>

Done(j) ==
  /\ busy' = busy \ {j}
  /\ held' = held \ {j}

(* Worker(...): the process answers, or fails or is late and is closed. *)
WorkerStarts(t) ==
  /\ <<t, "start", t>> \in busy
  /\ \/ /\ started' = [started EXCEPT ![t] = "ok"]
        /\ process' = [process EXCEPT ![t] = "live"]
     \/ /\ started' = [started EXCEPT ![t] = "failed"]
        /\ process' = [process EXCEPT ![t] = "dead"]
  /\ Done(<<t, "start", t>>)
  /\ UNCHANGED <<registry, coroutines, passes, closing, queue, stuck, history>>

LockFree(w) == \A j \in held : j[3] # w

(* Worker.call takes the lock; the worker of a session that expired is gone. *)
CallLock(j) ==
  /\ j \in (busy \cap CallJobs) \ held
  /\ LockFree(j[3])
  /\ IF process[j[3]] = "live"
     THEN held' = held \cup {j} /\ UNCHANGED busy
     ELSE Done(j)
  /\ UNCHANGED <<registry, coroutines, passes, closing, queue, workers, history>>

(* The answer of the worker, or the end of its pipe. *)
CallReturn(j) ==
  /\ j \in held
  /\ j[3] \notin stuck
  /\ Done(j)
  /\ UNCHANGED <<registry, coroutines, passes, closing, queue, workers, history>>

\* Mutant of CallTimeout: the worker outlives the call.
CallTimeoutOnly(j) ==
  /\ j \in held
  /\ process[j[3]] = "live"
  /\ timeouts' = [timeouts EXCEPT ![j[3]] = @ + 1]
  /\ Done(j)
  /\ UNCHANGED <<registry, coroutines, passes, closing, queue, workers, abandoned>>

\* Mutant of CallTimeout: the deadline does not interrupt a native call.
CallTimeoutPolled(j) ==
  /\ j \in held
  /\ process[j[3]] = "live" /\ j[3] \notin stuck
  /\ timeouts' = [timeouts EXCEPT ![j[3]] = @ + 1]
  /\ process' = [process EXCEPT ![j[3]] = "dead"]
  /\ Done(j)
  /\ UNCHANGED <<registry, coroutines, passes, closing, queue, started, stuck, abandoned>>

(* The deadline: Worker.close under the lock of the call. *)
CallTimeout(j) ==
  /\ j \in held
  /\ process[j[3]] = "live"
  /\ timeouts' = [timeouts EXCEPT ![j[3]] = @ + 1]
  /\ process' = [process EXCEPT ![j[3]] = "dead"]
  /\ stuck' = stuck \ {j[3]}
  /\ Done(j)
  /\ UNCHANGED <<registry, coroutines, passes, closing, queue, started, abandoned>>

(* Worker.close gets the lock; whoever awaits it goes on. *)
CloseRuns(j) ==
  /\ j \in busy \cap CloseJobs
  /\ LockFree(j[3])
  /\ process' = [process EXCEPT ![j[3]] = "dead"]
  /\ stuck' = stuck \ {j[3]}
  /\ Done(j)
  /\ UNCHANGED <<registry, coroutines, passes, closing, queue, started, history>>

(* A worker's native call hangs; a worker idles out, ends its discovery or crashes. *)
WorkerHangs(w) ==
  /\ \E j \in held : j[3] = w
  /\ process[w] = "live" /\ w \notin stuck
  /\ stuck' = stuck \cup {w}
  /\ UNCHANGED <<registry, coroutines, passes, closing, pool, started, process, history>>

WorkerEnds(w) ==
  /\ process[w] = "live"
  /\ process' = [process EXCEPT ![w] = "dead"]
  /\ stuck' = stuck \ {w}
  /\ UNCHANGED <<registry, coroutines, passes, closing, pool, started, history>>

-----------------------------------------------------------------------------
Init ==
  /\ at = [t \in Tasks |-> "idle"]
  /\ pending = 0 /\ starting = {}
  /\ started = [t \in Tasks |-> "none"]
  /\ sessions = {} /\ owners = {} /\ marked = {}
  /\ left = [e \in Passes \cup {SignOut} |-> {}]
  /\ waiting = [e \in Awaiters |-> None]
  /\ reaping = FALSE
  /\ browser = "open" /\ gathered = {}
  /\ queue = <<>> /\ busy = {} /\ held = {}
  /\ process = [t \in Tasks |-> "none"]
  /\ stuck = {}
  /\ timeouts = [c \in Connects |-> 0] /\ abandoned = {}

Connecting(c)  == ConnectRefuse(c) \/ ConnectStart(c) \/ Connected(c)
Discovering(d) == DiscoverRefuse(d) \/ DiscoverStart(d) \/ Discovered(d)
Starting(t)    == StartFailed(t) \/ StartRefused(t) \/ CloseReturned(t)
Reap           == ReapBegin \/ ReapEnd
SigningOut(c)  == SignOutNext(c) \/ SignOutEnd(c)
ShuttingDown   == ShutdownSessions \/ ShutdownEnd \/ \E t \in Tasks : ShutdownStart(t)
Locking(j)     == CallLock(j) \/ CloseRuns(j)
Ending(j)      == CallReturn(j) \/ CallTimeout(j)

Next ==
  \/ \E c \in Connects : ConnectBegin(c) \/ Connecting(c) \/ CancelExpire(c)
  \/ \E d \in Discoveries : Discovering(d) \/ CancelLeave(d)
  \/ \E t \in Tasks : Starting(t) \/ CancelStart(t)
  \/ \E e \in Passes : Expire(e)
  \/ Reap
  \/ \E c \in Connects : DeleteBegin(c) \/ DeleteEnd(c) \/ SigningOut(c)
  \/ \E r \in Requests, c \in Connects : Call(r, c)
  \/ SignOutBegin \/ CancelRoute(SignOut) \/ CancelRoute(Delete)
  \/ ShutdownBegin \/ ShuttingDown
  \/ Take
  \/ \E t \in Tasks : WorkerStarts(t) \/ WorkerHangs(t) \/ WorkerEnds(t)
  \/ \E j \in busy : Locking(j) \/ Ending(j)

(* The event loop runs the coroutines that can go on, the pool its threads; a thread
   that waits for a lock which is free again and again gets it.  Whether a worker
   answers is not promised, the deadline is.  Clients owe nothing. *)
Fairness ==
  /\ \A c \in Connects : WF_vars(Connecting(c)) /\ WF_vars(DeleteEnd(c)) /\ WF_vars(SigningOut(c))
  /\ \A d \in Discoveries : WF_vars(Discovered(d))
  /\ \A t \in Tasks : WF_vars(Starting(t)) /\ WF_vars(WorkerStarts(t))
  /\ \A e \in Passes : WF_vars(Expire(e))
  /\ WF_vars(Reap) /\ WF_vars(ShuttingDown)
  /\ WF_vars(Take)
  /\ \A w \in Tasks : WF_vars(\E j \in busy : j[3] = w /\ Locking(j))
  /\ \A r \in Requests : SF_vars(\E c \in Connects : CallLock(<<r, "call", c>>))
  /\ WF_vars(\E j \in held : Ending(j))

Spec == Init /\ [][Next]_vars /\ Fairness

-----------------------------------------------------------------------------
(* Type invariant *)

TypeOK ==
  /\ at \in [Tasks -> {"idle", "expiring", "starting", "cancelled", "closing", "leaving", "over"}]
  /\ pending \in Nat
  /\ starting \subseteq Tasks
  /\ started \in [Tasks -> {"none", "ok", "failed"}]
  /\ sessions \subseteq Connects /\ owners \subseteq Connects /\ marked \subseteq Connects
  /\ left \in [Passes \cup {SignOut} -> SUBSET Connects]
  /\ waiting \in [Awaiters -> Connects \cup {None}]
  /\ reaping \in BOOLEAN
  /\ browser \in {"open", "gathering", "closing", "closed"}
  /\ gathered \subseteq Tasks
  /\ queue \in Seq(Jobs)
  /\ busy \subseteq Jobs /\ held \subseteq busy
  /\ process \in [Tasks -> {"none", "live", "dead"}]
  /\ stuck \subseteq Tasks
  /\ timeouts \in [Connects -> Nat] /\ abandoned \subseteq Tasks

-----------------------------------------------------------------------------
(* Safety *)

Counted == {t \in Tasks : at[t] \in {"starting", "cancelled", "closing"}}
BeingClosed(w) == \E j \in Pending \cap CloseJobs : j[3] = w

(* Connections that are under way and sessions together keep to the limit, however
   they interleave with passes of expire, which await (sessions.py 491-521). *)
SessionLimit == Cardinality(sessions) + Cardinality(Counted \cap Connects) <= MaxSessions

(* What is under way is counted once until it ends, on every path: refused, failed,
   cancelled while the worker starts, overtaken by close (sessions.py 470-489, 519-541). *)
PendingCounts == pending = Cardinality(Counted) /\ starting = Counted

(* Why the limit holds: an inductive invariant.  A connection is admitted by what is
   counted, and what is counted is what is under way (sessions.py 493, 519-541). *)
Accounts ==
  /\ DOMAIN at = Tasks
  /\ IsFiniteSet(sessions) /\ IsFiniteSet(Counted)
  /\ PendingCounts
  /\ SessionLimit

(* A live worker belongs to a session that is not marked, to the coroutine that awaits
   it, or to a thread that will close it: whoever marks a session, and however passes,
   deletion, sign-out and shutdown meet at it, a close that is not taken back comes
   (sessions.py 427-430, 475-489, 541-547; http.py 209-220).  One that was taken back is
   nobody's: the flag is set before the await, and who comes later returns at once. *)
NoOrphan ==
  \A w \in Tasks \ abandoned :
    process[w] = "live" => w \in (sessions \ marked) \cup Counted \/ BeingClosed(w)

(* When Browser.close has returned no worker starts any more, and those that live are
   being closed, or their close was taken back before (sessions.py 549-556). *)
ClosedIsQuiet ==
  browser = "closed" =>
    /\ \A t \in Tasks : at[t] = "starting" => started[t] # "none"
    /\ \A w \in Tasks \ abandoned : process[w] = "live" => BeingClosed(w)

(* A stuck worker costs its callers one deadline: the calls that waited for the lock
   find the session expired instead of waiting a deadline each (sessions.py 178-198). *)
TimesOutOnce == \A c \in Connects : timeouts[c] <= 1

(* README.md 363: a stuck native call cannot block another session.  It can: calls
   that wait for the lock of its worker fill the pool (sessions.py 194, 254). *)
StuckBlocksNobody ==
  \A c, d \in Connects :
    /\ c # d /\ c \in stuck
    /\ \E j \in Queued : j \in CallJobs /\ j[3] = d
    => \/ Cardinality(busy) < PoolSize
       \/ \E j \in busy : j[3] # c

-----------------------------------------------------------------------------
(* Liveness *)

(* A connection or discovery under way ends, though other workers hang and fill the
   pool meanwhile (sessions.py 178-198, 470-489). *)
TasksEnd == \A t \in Tasks : at[t] = "starting" ~> at[t] = "over"

(* A session that was closed, or whose worker is gone, leaves the table, though the
   request that closed it may be cancelled (sessions.py 543-547; http.py 99-106). *)
DeadAreReaped ==
  \A c \in Connects : (c \in sessions /\ (c \in marked \/ process[c] = "dead")) ~> c \notin sessions

(* Closing the browser ends (sessions.py 549-556). *)
ShutdownEnds == browser = "gathering" ~> browser = "closed"
=============================================================================
