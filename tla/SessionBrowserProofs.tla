------------------------ MODULE SessionBrowserProofs ------------------------
(***************************************************************************)
(* Theorems about SessionBrowser, for every set of connections,            *)
(* discoveries and requests, every limit and every size of the pool: the   *)
(* count of starts under way is exact and the limit on sessions holds;     *)
(* no live worker is forgotten, closing the browser leaves none behind,    *)
(* and a worker costs its callers one deadline.                            *)
(*                                                                         *)
(* Accounts carries the first part.  Custody carries the second: it says   *)
(* who answers for each live worker.  Its proof sums up the threads of the *)
(* pool in ThreadEffect and the event loop in EventLoop and Books.         *)
(***************************************************************************)
EXTENDS SessionBrowser, FiniteSetTheorems, SequenceTheorems, TLAPS

InProgress == {"starting", "cancelled", "closing"}

-----------------------------------------------------------------------------
(* How a step changes what is counted *)

LEMMA Enters ==
  ASSUME DOMAIN at = Tasks, NEW t \in Tasks, NEW s \in InProgress, at' = [at EXCEPT ![t] = s]
  PROVE  Counted' = Counted \cup {t} /\ DOMAIN at' = Tasks
BY DEF Counted, InProgress

LEMMA Leaves ==
  ASSUME DOMAIN at = Tasks, NEW t \in Tasks, NEW s, s \notin InProgress, at' = [at EXCEPT ![t] = s]
  PROVE  Counted' = Counted \ {t} /\ DOMAIN at' = Tasks
BY DEF Counted, InProgress

(* Removing sessions, and nothing counted, keeps the accounts. *)
LEMMA Shrinks ==
  ASSUME Accounts, sessions' \subseteq sessions, Counted' = Counted, DOMAIN at' = Tasks,
         UNCHANGED <<pending, starting>>
  PROVE  Accounts'
<1>1. IsFiniteSet(sessions') /\ Cardinality(sessions') <= Cardinality(sessions)
  BY FS_Subset DEF Accounts
<1>2. Cardinality(sessions') \in Nat /\ Cardinality(sessions) \in Nat
  BY <1>1, FS_CardinalityType DEF Accounts
<1>3. Cardinality(Counted \cap Connects) \in Nat
  BY FS_Subset, FS_CardinalityType DEF Accounts
<1>4. SessionLimit'
  BY <1>1, <1>2, <1>3, BrowserAssumption DEF Accounts, SessionLimit
<1>5. QED
  BY <1>1, <1>4 DEF Accounts, PendingCounts

(* A start settles: it is counted no more, and its session may be registered. *)
LEMMA Settles ==
  ASSUME Accounts, NEW t \in Counted, NEW s, s \notin InProgress, Settle(t, s),
         sessions' = sessions \/ (t \in Connects /\ sessions' = sessions \cup {t})
  PROVE  Accounts'
<1>1. /\ DOMAIN at = Tasks /\ t \in Tasks
      /\ IsFiniteSet(sessions) /\ IsFiniteSet(Counted)
      /\ pending = Cardinality(Counted) /\ starting = Counted
      /\ Cardinality(sessions) + Cardinality(Counted \cap Connects) <= MaxSessions
  BY DEF Accounts, PendingCounts, SessionLimit, Counted
<1>2. Counted' = Counted \ {t} /\ DOMAIN at' = Tasks
  BY <1>1, Leaves DEF Settle
<1>3. /\ IsFiniteSet(Counted') /\ Cardinality(Counted') = Cardinality(Counted) - 1
  BY <1>1, <1>2, FS_RemoveElement
<1>4. PendingCounts'
  BY <1>1, <1>2, <1>3 DEF Settle, PendingCounts
<1>5. IsFiniteSet(Counted \cap Connects) /\ Cardinality(Counted \cap Connects) \in Nat
  BY <1>1, FS_Subset, FS_CardinalityType
<1>6. IsFiniteSet(sessions') /\ SessionLimit'
  <2>1. Cardinality(sessions) \in Nat
    BY <1>1, FS_CardinalityType
  <2>2. CASE t \in Connects
    <3>1. (Counted \cap Connects)' = (Counted \cap Connects) \ {t} /\ t \in Counted \cap Connects
      BY <1>2, <2>2
    <3>2. Cardinality((Counted \cap Connects)') = Cardinality(Counted \cap Connects) - 1
      BY <1>5, <3>1, FS_RemoveElement
    <3>3. /\ IsFiniteSet(sessions') /\ Cardinality(sessions') \in Nat
          /\ Cardinality(sessions') <= Cardinality(sessions) + 1
      BY <1>1, <2>1, FS_AddElement, FS_CardinalityType
    <3>4. QED
      BY <1>1, <1>5, <2>1, <3>2, <3>3, BrowserAssumption DEF SessionLimit
  <2>3. CASE t \notin Connects
    <3>1. (Counted \cap Connects)' = Counted \cap Connects /\ sessions' = sessions
      BY <1>2, <2>3
    <3>2. QED
      BY <1>1, <3>1 DEF SessionLimit
  <2>4. QED
    BY <2>2, <2>3
<1>7. QED
  BY <1>2, <1>3, <1>4, <1>6 DEF Accounts

(* A connection is started within the limit, a discovery whatever the limit. *)
LEMMA Starts ==
  ASSUME Accounts, NEW t \in Tasks, t \notin Counted, StartWorker(t), t \in Connects => HasRoom
  PROVE  Accounts'
<1>1. /\ DOMAIN at = Tasks
      /\ IsFiniteSet(sessions) /\ IsFiniteSet(Counted)
      /\ pending = Cardinality(Counted) /\ starting = Counted
      /\ Cardinality(sessions) + Cardinality(Counted \cap Connects) <= MaxSessions
  BY DEF Accounts, PendingCounts, SessionLimit
<1>2. Counted' = Counted \cup {t} /\ DOMAIN at' = Tasks
  BY <1>1, Enters DEF StartWorker, InProgress
<1>3. IsFiniteSet(Counted') /\ Cardinality(Counted') = Cardinality(Counted) + 1
  BY <1>1, <1>2, FS_AddElement
<1>4. PendingCounts'
  BY <1>1, <1>2, <1>3 DEF StartWorker, PendingCounts
<1>5. sessions' = sessions
  BY DEF StartWorker, registry, history
<1>6. SessionLimit'
  <2>1. CASE t \in Connects
    <3>1. Cardinality(sessions) \in Nat /\ Cardinality(Counted) \in Nat
      BY <1>1, FS_CardinalityType
    <3>2. (Counted \cap Connects)' \subseteq Counted'
      OBVIOUS
    <3>3. /\ Cardinality((Counted \cap Connects)') <= Cardinality(Counted) + 1
          /\ Cardinality((Counted \cap Connects)') \in Nat
      BY <1>3, <3>2, FS_Subset, FS_CardinalityType
    <3>4. Cardinality(sessions) + Cardinality(Counted) < MaxSessions
      BY <1>1, <2>1 DEF HasRoom
    <3>5. QED
      BY <1>5, <3>1, <3>3, <3>4, BrowserAssumption DEF SessionLimit
  <2>2. CASE t \notin Connects
    <3>1. (Counted \cap Connects)' = Counted \cap Connects
      BY <1>2, <2>2
    <3>2. QED
      BY <1>1, <1>5, <3>1 DEF SessionLimit
  <2>3. QED
    BY <2>1, <2>2
<1>7. QED
  BY <1>1, <1>2, <1>3, <1>4, <1>5, <1>6 DEF Accounts

-----------------------------------------------------------------------------
(* At the start nothing is registered and nothing is under way. *)
THEOREM AccountsInit == Init => Accounts
<1> SUFFICES ASSUME Init PROVE Accounts
  OBVIOUS
<1>1. sessions = {} /\ Counted = {} /\ starting = {} /\ pending = 0 /\ DOMAIN at = Tasks
  BY DEF Init, Counted
<1>2. IsFiniteSet({}) /\ Cardinality({}) = 0 /\ {} \cap Connects = {}
  BY FS_EmptySet
<1>3. SessionLimit
  BY <1>1, <1>2, BrowserAssumption DEF SessionLimit
<1>4. QED
  BY <1>1, <1>2, <1>3 DEF Accounts, PendingCounts

(* Steps that leave the coroutines alone take sessions off the table at most. *)
LEMMA ElsewhereStep ==
  ASSUME Accounts, UNCHANGED coroutines, sessions' \subseteq sessions
  PROVE  Accounts'
<1>1. Counted' = Counted
  BY DEF Counted, coroutines, history
<1>2. DOMAIN at' = Tasks
  BY DEF Accounts, coroutines, history
<1>3. QED
  BY <1>1, <1>2, Shrinks DEF coroutines, history

(* A coroutine that moves between uncounted, or between counted, states. *)
LEMMA MovesOn ==
  ASSUME Accounts, NEW t \in Tasks, NEW s, at' = [at EXCEPT ![t] = s],
         s \in InProgress <=> at[t] \in InProgress, UNCHANGED <<pending, starting, sessions>>
  PROVE  Accounts'
<1>1. DOMAIN at' = Tasks
  BY DEF Accounts
<1>2. Counted' = Counted
  BY DEF Accounts, Counted, InProgress
<1>3. QED
  BY <1>1, <1>2, Shrinks

(* Every step keeps the accounts: only ConnectStart and DiscoverStart count a task,
   only what settles a start uncounts it, and the rest touches neither. *)
THEOREM AccountsStep == Accounts /\ [Next]_vars => Accounts'
<1> SUFFICES ASSUME Accounts, [Next]_vars PROVE Accounts'
  OBVIOUS
<1> USE DEF Tasks
<1>1. ASSUME NEW c \in Connects, ConnectBegin(c) \/ Connecting(c) \/ CancelExpire(c) PROVE Accounts'
  <2>1. CASE ConnectBegin(c)
    BY <2>1, MovesOn DEF ConnectBegin, InProgress, registry, history
  <2>2. CASE ConnectRefuse(c)
    BY <2>2, MovesOn DEF ConnectRefuse, InProgress, registry, history
  <2>3. CASE ConnectStart(c)
    BY <2>3, Starts DEF ConnectStart, Counted
  <2>4. CASE Connected(c)
    <3>1. c \in Counted
      BY <2>4 DEF Connected, Counted
    <3>2. QED
      BY <2>4, <3>1, Settles DEF Connected, InProgress
  <2>5. CASE CancelExpire(c)
    BY <2>5, MovesOn DEF CancelExpire, InProgress, registry, history
  <2>6. QED
    BY <1>1, <2>1, <2>2, <2>3, <2>4, <2>5 DEF Connecting
<1>2. ASSUME NEW d \in Discoveries, Discovering(d) \/ CancelLeave(d) PROVE Accounts'
  <2>1. CASE DiscoverRefuse(d)
    BY <2>1, MovesOn DEF DiscoverRefuse, InProgress, registry, history
  <2>2. CASE DiscoverStart(d)
    BY <2>2, Starts, BrowserAssumption DEF DiscoverStart, Counted
  <2>3. CASE Discovered(d)
    <3>1. d \in Counted
      BY <2>3 DEF Discovered, Counted
    <3>2. QED
      BY <2>3, <3>1, Settles DEF Discovered, InProgress, registry, history
  <2>4. CASE CancelLeave(d)
    BY <2>4, MovesOn DEF CancelLeave, InProgress, registry
  <2>5. QED
    BY <1>2, <2>1, <2>2, <2>3, <2>4 DEF Discovering
<1>3. ASSUME NEW t \in Tasks, Starting(t) \/ CancelStart(t) PROVE Accounts'
  <2>1. CASE StartFailed(t)
    <3>1. t \in Counted
      BY <2>1 DEF StartFailed, Counted
    <3>2. QED
      BY <2>1, <3>1, Settles DEF StartFailed, InProgress, registry, history
  <2>2. CASE StartRefused(t)
    BY <2>2, MovesOn DEF StartRefused, InProgress, registry, history
  <2>3. CASE CloseReturned(t)
    <3>1. CASE at[t] = "closing" /\ Settle(t, "over")
      <4>1. t \in Counted
        BY <3>1 DEF Counted
      <4>2. QED
        BY <2>3, <3>1, <4>1, Settles DEF CloseReturned, InProgress, registry, history
    <3>2. CASE at[t] = "leaving" /\ at' = [at EXCEPT ![t] = "over"] /\ UNCHANGED <<pending, starting>>
      BY <2>3, <3>2, MovesOn DEF CloseReturned, InProgress, registry, history
    <3>3. QED
      BY <2>3, <3>1, <3>2 DEF CloseReturned
  <2>4. CASE CancelStart(t)
    BY <2>4, MovesOn DEF CancelStart, InProgress, registry, history
  <2>5. QED
    BY <1>3, <2>1, <2>2, <2>3, <2>4 DEF Starting
<1>4. ASSUME NEW e \in Passes, Expire(e) PROVE Accounts'
  BY <1>4, ElsewhereStep DEF Expire, ExpirePop, ExpireSkip, ExpireClose, ExpireMarked, registry, history
<1>5. CASE Reap
  BY <1>5, ElsewhereStep DEF Reap, ReapBegin, ReapEnd, registry, history
<1>6. ASSUME NEW c \in Connects, DeleteBegin(c) \/ DeleteEnd(c) \/ SigningOut(c) PROVE Accounts'
  BY <1>6, ElsewhereStep DEF DeleteBegin, DeleteEnd, SigningOut, SignOutNext, SignOutEnd, registry, history
<1>7. ASSUME NEW r \in Requests, NEW c \in Connects, Call(r, c) PROVE Accounts'
  BY <1>7, ElsewhereStep DEF Call, registry, history
<1>8. ASSUME SignOutBegin \/ CancelRoute(SignOut) \/ CancelRoute(Delete) PROVE Accounts'
  BY <1>8, ElsewhereStep DEF SignOutBegin, CancelRoute, registry, history
<1>9. CASE ShutdownBegin \/ ShuttingDown
  <2>1. UNCHANGED coroutines /\ sessions' \subseteq sessions
    BY <1>9 DEF ShutdownBegin, ShuttingDown, ShutdownStart, ShutdownSessions, ShutdownEnd, registry, history
  <2>2. QED
    BY <2>1, ElsewhereStep
<1>10. CASE Take
  BY <1>10, ElsewhereStep DEF Take, registry, history
<1>11. ASSUME NEW t \in Tasks, WorkerStarts(t) \/ WorkerHangs(t) \/ WorkerEnds(t) PROVE Accounts'
  BY <1>11, ElsewhereStep DEF WorkerStarts, WorkerHangs, WorkerEnds, registry, history
<1>12. ASSUME NEW j \in busy, Locking(j) \/ Ending(j) PROVE Accounts'
  BY <1>12, ElsewhereStep DEF Locking, Ending, CallLock, CloseRuns, CallReturn, CallTimeout, registry, history
<1>13. CASE UNCHANGED vars
  BY <1>13, ElsewhereStep DEF vars, registry, history
<1>14. QED
  BY <1>1, <1>2, <1>3, <1>4, <1>5, <1>6, <1>7, <1>8, <1>9, <1>10, <1>11, <1>12, <1>13 DEF Next

(* The accounts hold in every reachable state. *)
THEOREM AccountsCorrect == Spec => []Accounts
BY AccountsInit, AccountsStep, PTL DEF Spec

(* What is under way is counted exactly once until it ends. *)
THEOREM CountCorrect == Spec => []PendingCounts
<1>1. Accounts => PendingCounts
  BY DEF Accounts
<1>2. QED
  BY <1>1, AccountsCorrect, PTL

(* Sessions and connections under way never exceed max_sessions. *)
THEOREM LimitCorrect == Spec => []SessionLimit
<1>1. Accounts => SessionLimit
  BY DEF Accounts
<1>2. QED
  BY <1>1, AccountsCorrect, PTL

-----------------------------------------------------------------------------
(* Who closes a worker *)

Begins(t) == <<t, "start", t>>
Beginning(t) == at[t] \in {"starting", "cancelled"}

(* Only a call keeps the lock of its worker beyond one step. *)
CallsHold == held \subseteq CallJobs

(* The queue holds a job once, and not when a thread has it. *)
Single(job) ==
  \A i, k \in DOMAIN queue : queue[i] = job => job \notin busy /\ (queue[k] = job => i = k)

(* A worker is started once, when its task has asked for it, by a job the task awaits. *)
StartsOnce ==
  \A t \in Tasks :
    /\ at[t] \in {"idle", "expiring"} => started[t] = "none"
    /\ Begins(t) \in Pending => Beginning(t) /\ started[t] = "none" /\ Single(Begins(t))

(* What lives was started; what timed out is gone for good. *)
LivesOnce ==
  /\ \A t \in Tasks : process[t] = "live" => started[t] = "ok"
  /\ \A c \in Connects : timeouts[c] = 0 \/ (timeouts[c] = 1 /\ started[c] = "ok" /\ process[c] = "dead")

(* Sessions, and all that refers to one, are of connections that are over. *)
Over(c) == at[c] = "over" /\ started[c] = "ok"
SessionsAreOver ==
  /\ \A c \in sessions \cup owners \cup marked : Over(c)
  /\ \A e \in Passes \cup {SignOut} : \A c \in left[e] : Over(c)
  /\ \A e \in Awaiters : waiting[e] # None => Over(waiting[e])
  /\ \A c \in Connects : waiting[c] # None \/ left[c] # {} => at[c] = "expiring"

(* Whoever awaits the close of a live worker has its job in the pool. *)
ClosesRun ==
  /\ \A e \in Awaiters : waiting[e] # None /\ process[waiting[e]] = "live" => Close(e, waiting[e]) \in Pending
  /\ \A t \in Tasks : at[t] \in {"closing", "leaving"} => started[t] = "ok"
                        /\ (process[t] = "live" => Close(t, t) \in Pending)

(* A live worker whose close was not taken back is in the table and not marked, or
   counted, or a job closes it. *)
Kept(w) == \E a \in Closers : Close(a, w) \in Pending
Accounted == \A w \in Tasks \ abandoned : process[w] = "live" => w \in (sessions \ marked) \cup Counted \/ Kept(w)

(* What Browser.close has still to close. *)
ShutsDown ==
  browser # "open" =>
    /\ \A t \in Counted : /\ started[t] = "none" => browser = "gathering" /\ t \in gathered
                          /\ process[t] = "live" => t \in gathered \/ Close(Shutdown, t) \in Pending
    /\ browser # "gathering" => gathered = {}
    /\ browser = "closing" => sessions \subseteq marked
    /\ browser = "closed" => sessions = {}

Custody == TypeOK /\ CallsHold /\ StartsOnce /\ LivesOnce /\ SessionsAreOver /\ ClosesRun /\ Accounted /\ ShutsDown

-----------------------------------------------------------------------------
(* The queue of the pool *)

(* asyncio.to_thread puts one job behind the others. *)
LEMMA Submits ==
  ASSUME queue \in Seq(Jobs), NEW job \in Jobs, Submit(job), busy' = busy
  PROVE  /\ queue' \in Seq(Jobs) /\ Pending' = Pending \cup {job}
         /\ \A x : Single(x) /\ (x # job \/ x \notin Pending) => Single(x)'
<1>1. /\ queue' \in Seq(Jobs) /\ Len(queue') = Len(queue) + 1 /\ Len(queue) \in Nat
      /\ DOMAIN queue = 1 .. Len(queue) /\ DOMAIN queue' = 1 .. Len(queue) + 1
      /\ \A i \in 1 .. Len(queue) : queue'[i] = queue[i]
      /\ queue'[Len(queue) + 1] = job
  BY DEF Submit
<1>2. Queued' = Queued \cup {job}
  BY <1>1 DEF Queued
<1>3. \A x : Single(x) /\ (x # job \/ x \notin Pending) => Single(x)'
  BY <1>1 DEF Single, Pending, Queued
<1>4. QED
  BY <1>1, <1>2, <1>3 DEF Pending

(* A cancelled coroutine takes its job back, if no thread has it yet. *)
LEMMA Withdraws ==
  ASSUME queue \in Seq(Jobs), NEW job, Withdraw(job), busy' = busy
  PROVE  /\ queue' \in Seq(Jobs) /\ Pending \ {job} \subseteq Pending' /\ Pending' \subseteq Pending
         /\ \A x : Single(x) => Single(x)'
         /\ abandoned \subseteq abandoned' /\ abandoned' \subseteq abandoned \cup {job[3]}
         /\ job \in Pending \ Pending' => job[3] \in abandoned'
         /\ job \notin Pending => abandoned' = abandoned
<1>1. ASSUME UNCHANGED queue
      PROVE  queue' \in Seq(Jobs) /\ Queued' = Queued /\ \A x : Single(x) => Single(x)'
  BY <1>1 DEF Queued, Single
<1>2. ASSUME NEW n \in DOMAIN queue, queue[n] = job, queue' = RemoveAt(queue, n)
      PROVE  /\ queue' \in Seq(Jobs) /\ Queued \ {job} \subseteq Queued' /\ Queued' \subseteq Queued
             /\ \A x : Single(x) => Single(x)'
  <2>1. Len(queue) \in Nat /\ n \in 1 .. Len(queue) /\ DOMAIN queue = 1 .. Len(queue)
    OBVIOUS
  <2>2. /\ SubSeq(queue, 1, n - 1) \in Seq(Jobs) /\ Len(SubSeq(queue, 1, n - 1)) = n - 1
        /\ SubSeq(queue, n + 1, Len(queue)) \in Seq(Jobs)
        /\ Len(SubSeq(queue, n + 1, Len(queue))) = Len(queue) - n
        /\ \A i \in 1 .. n - 1 : SubSeq(queue, 1, n - 1)[i] = queue[i]
        /\ \A i \in 1 .. Len(queue) - n : SubSeq(queue, n + 1, Len(queue))[i] = queue[n + i]
    <3>1. /\ \A i \in 1 .. n - 1 : queue[i] \in Jobs
          /\ \A i \in n + 1 .. Len(queue) : queue[i] \in Jobs
          /\ 1 \in Int /\ n - 1 \in Int /\ n + 1 \in Int /\ Len(queue) \in Int
      BY <2>1
    <3>2. /\ SubSeq(queue, 1, n - 1) \in Seq(Jobs)
          /\ Len(SubSeq(queue, 1, n - 1)) = IF 1 <= n - 1 THEN n - 1 - 1 + 1 ELSE 0
          /\ \A i \in 1 .. n - 1 - 1 + 1 : SubSeq(queue, 1, n - 1)[i] = queue[1 + i - 1]
      BY <3>1, SubSeqProperties
    <3>3. /\ SubSeq(queue, n + 1, Len(queue)) \in Seq(Jobs)
          /\ Len(SubSeq(queue, n + 1, Len(queue))) = IF n + 1 <= Len(queue) THEN Len(queue) - (n + 1) + 1 ELSE 0
          /\ \A i \in 1 .. Len(queue) - (n + 1) + 1 : SubSeq(queue, n + 1, Len(queue))[i] = queue[n + 1 + i - 1]
      BY <3>1, SubSeqProperties
    <3> DEFINE a == SubSeq(queue, 1, n - 1)
               b == SubSeq(queue, n + 1, Len(queue))
    <3> HIDE DEF a, b
    <3>4. a \in Seq(Jobs) /\ Len(a) = n - 1 /\ \A i \in 1 .. n - 1 : a[i] = queue[i]
      BY <2>1, <3>2 DEF a
    <3>5. b \in Seq(Jobs) /\ Len(b) = Len(queue) - n /\ \A i \in 1 .. Len(queue) - n : b[i] = queue[n + i]
      BY <2>1, <3>3 DEF b
    <3>6. QED
      BY <3>4, <3>5 DEF a, b
  <2>3. /\ queue' \in Seq(Jobs) /\ DOMAIN queue' = 1 .. Len(queue) - 1
        /\ \A i \in 1 .. n - 1 : queue'[i] = queue[i]
        /\ \A i \in n .. Len(queue) - 1 : queue'[i] = queue[i + 1]
    <3> DEFINE a == SubSeq(queue, 1, n - 1)
               b == SubSeq(queue, n + 1, Len(queue))
    <3>1. queue' = a \o b
      BY <1>2 DEF RemoveAt
    <3>2. /\ a \in Seq(Jobs) /\ Len(a) = n - 1 /\ b \in Seq(Jobs) /\ Len(b) = Len(queue) - n
          /\ \A i \in 1 .. n - 1 : a[i] = queue[i]
          /\ \A i \in 1 .. Len(queue) - n : b[i] = queue[n + i]
      BY <2>2
    <3> HIDE DEF a, b
    <3>3. /\ queue' \in Seq(Jobs) /\ Len(queue') = Len(queue) - 1
          /\ \A i \in 1 .. n - 1 : queue'[i] = a[i]
          /\ \A i \in n .. Len(queue) - 1 : queue'[i] = b[i - (n - 1)]
      <4>1. /\ queue' \in Seq(Jobs) /\ Len(queue') = Len(a) + Len(b)
            /\ \A i \in 1 .. Len(a) + Len(b) : queue'[i] = IF i <= Len(a) THEN a[i] ELSE b[i - Len(a)]
        BY <3>1, <3>2, ConcatProperties
      <4>2. QED
        BY <2>1, <3>2, <4>1
    <3>4. ASSUME NEW i \in n .. Len(queue) - 1 PROVE queue'[i] = queue[i + 1]
      <4>1. i - (n - 1) \in 1 .. Len(queue) - n /\ n + (i - (n - 1)) = i + 1
        BY <2>1
      <4>2. QED
        BY <3>2, <3>3, <4>1
    <3>5. DOMAIN queue' = 1 .. Len(queue) - 1 /\ \A i \in 1 .. n - 1 : queue'[i] = queue[i]
      BY <2>1, <3>2, <3>3
    <3>6. QED
      BY <3>3, <3>4, <3>5
  <2>4. \A x : x \in Queued \ {job} => x \in Queued'
    <3> SUFFICES ASSUME NEW i \in 1 .. Len(queue), queue[i] # job PROVE queue[i] \in Queued'
      BY <2>1 DEF Queued
    <3>1. i < n \/ i > n
      BY <1>2, <2>1
    <3>2. CASE i < n
      BY <2>1, <2>3, <3>2 DEF Queued
    <3>3. CASE i > n
      <4>1. i - 1 \in n .. Len(queue) - 1 /\ queue'[i - 1] = queue[i]
        BY <2>1, <2>3, <3>3
      <4>2. QED
        BY <2>1, <2>3, <4>1 DEF Queued
    <3>4. QED
      BY <3>1, <3>2, <3>3
  <2>5. Queued' \subseteq Queued
    <3> SUFFICES ASSUME NEW i \in 1 .. Len(queue) - 1 PROVE queue'[i] \in Queued
      BY <2>3 DEF Queued
    <3>1. i \in 1 .. Len(queue) /\ i + 1 \in 1 .. Len(queue) /\ (i \in 1 .. n - 1 \/ i \in n .. Len(queue) - 1)
      BY <2>1
    <3>2. queue'[i] = queue[i] \/ queue'[i] = queue[i + 1]
      BY <2>3, <3>1
    <3>3. QED
      BY <2>1, <3>1, <3>2 DEF Queued
  <2>6. ASSUME NEW x, Single(x) PROVE Single(x)'
    <3> SUFFICES ASSUME NEW i \in 1 .. Len(queue) - 1, NEW k \in 1 .. Len(queue) - 1, queue'[i] = x
                 PROVE  x \notin busy' /\ (queue'[k] = x => i = k)
      BY <2>3 DEF Single
    <3> DEFINE old(m) == IF m < n THEN m ELSE m + 1
    <3>1. old(i) \in 1 .. Len(queue) /\ queue[old(i)] = x /\ old(k) \in 1 .. Len(queue) /\ queue[old(k)] = queue'[k]
      BY <2>1, <2>3
    <3>2. x \notin busy /\ (queue[old(k)] = x => old(i) = old(k))
      BY <2>1, <2>6, <3>1 DEF Single
    <3>3. QED
      BY <2>1, <3>1, <3>2
  <2>7. QED
    BY <2>3, <2>4, <2>5, <2>6
<1>3. /\ abandoned \subseteq abandoned' /\ abandoned' \subseteq abandoned \cup {job[3]}
      /\ job \in Pending \ Pending' => job[3] \in abandoned'
      /\ job \notin Pending => abandoned' = abandoned
  BY DEF Withdraw, Pending, Queued
<1>4. QED
  BY <1>1, <1>2, <1>3 DEF Withdraw, Pending

(* Whoever takes a close back abandons its worker, and no other. *)
LEMMA TakesBack ==
  ASSUME queue \in Seq(Jobs), NEW a, NEW v, Withdraw(Close(a, v)), busy' = busy
  PROVE  \A w \in Tasks \ abandoned' : w \notin abandoned /\ (Kept(w) => Kept(w)')
<1>1. /\ Pending \ {Close(a, v)} \subseteq Pending' /\ abandoned \subseteq abandoned'
      /\ Close(a, v) \in Pending \ Pending' => v \in abandoned'
  BY Withdraws DEF Close
<1>2. ASSUME NEW w \in Tasks, w \notin abandoned', NEW b \in Closers, Close(b, w) \in Pending
      PROVE  Close(b, w) \in Pending'
  BY <1>1, <1>2 DEF Close
<1>3. QED
  BY <1>1, <1>2 DEF Kept

(* A thread takes the first job. *)
LEMMA Takes ==
  ASSUME queue \in Seq(Jobs), Take
  PROVE  /\ queue' \in Seq(Jobs) /\ Pending' = Pending /\ Head(queue) \in Jobs
         /\ \A x : Single(x) => Single(x)'
<1>1. /\ queue # <<>> /\ queue' = Tail(queue) /\ busy' = busy \cup {Head(queue)}
  BY DEF Take
<1>2. /\ Len(queue) \in Nat \ {0} /\ DOMAIN queue = 1 .. Len(queue) /\ Head(queue) = queue[1]
      /\ queue' \in Seq(Jobs) /\ DOMAIN queue' = 1 .. Len(queue) - 1
      /\ \A i \in 1 .. Len(queue) - 1 : queue'[i] = queue[i + 1]
  BY <1>1
<1>3. Queued = Queued' \cup {Head(queue)}
  <2>1. Queued' \cup {Head(queue)} \subseteq Queued
    BY <1>2 DEF Queued
  <2>2. ASSUME NEW i \in 1 .. Len(queue) PROVE queue[i] \in Queued' \cup {Head(queue)}
    <3>1. CASE i = 1
      BY <1>2, <3>1
    <3>2. CASE i # 1
      <4>1. i - 1 \in 1 .. Len(queue) - 1 /\ queue'[i - 1] = queue[i]
        BY <1>2, <3>2
      <4>2. QED
        BY <1>2, <4>1 DEF Queued
    <3>3. QED
      BY <3>1, <3>2
  <2>3. Queued = {queue[i] : i \in 1 .. Len(queue)}
    BY <1>2 DEF Queued
  <2>4. Queued \subseteq Queued' \cup {Head(queue)}
    BY <2>2, <2>3
  <2>5. QED
    BY <2>1, <2>4
<1>4. ASSUME NEW x, Single(x) PROVE Single(x)'
  <2> SUFFICES ASSUME NEW i \in 1 .. Len(queue) - 1, NEW k \in 1 .. Len(queue) - 1, queue'[i] = x
               PROVE  x \notin busy' /\ (queue'[k] = x => i = k)
    BY <1>2 DEF Single
  <2>1. /\ i + 1 \in 1 .. Len(queue) /\ queue[i + 1] = x /\ k + 1 \in 1 .. Len(queue) /\ queue[k + 1] = queue'[k]
        /\ 1 \in 1 .. Len(queue)
    BY <1>2
  <2>2. x \notin busy /\ (queue[k + 1] = x => i + 1 = k + 1) /\ (queue[1] = x => i + 1 = 1)
    BY <1>2, <1>4, <2>1 DEF Single
  <2>3. QED
    BY <1>1, <1>2, <2>1, <2>2
<1>5. Head(queue) \in Jobs
  BY <1>2
<1>6. QED
  BY <1>1, <1>2, <1>3, <1>4, <1>5 DEF Pending

(* A thread is done with its job. *)
LEMMA Finishes ==
  ASSUME NEW job \in busy, Done(job), queue' = queue
  PROVE  /\ Pending \ {job} \subseteq Pending' /\ Pending' \subseteq Pending
         /\ Single(job) => job \notin Pending'
         /\ \A x : Single(x) => Single(x)'
BY DEF Done, Pending, Queued, Single

(* Browser.close puts the closes of all sessions behind the others. *)
LEMMA SubmitsAll ==
  ASSUME queue \in Seq(Jobs), NEW S \in SUBSET Jobs, IsFiniteSet(S), NEW jobs \in SetToSeqs(S),
         queue' = queue \o jobs, busy' = busy
  PROVE  /\ queue' \in Seq(Jobs) /\ Pending' = Pending \cup S
         /\ \A x : Single(x) /\ x \notin S => Single(x)'
<1> DEFINE n == Cardinality(S)
<1>1. n \in Nat
  BY FS_CardinalityType
<1>2. jobs \in [1 .. n -> S] /\ \A i, k \in 1 .. n : i # k => jobs[i] # jobs[k]
  BY DEF SetToSeqs
<1>3. jobs \in Seq(Jobs) /\ Len(jobs) = n
  BY <1>1, <1>2
<1>4. \A x \in S : \E i \in 1 .. n : jobs[i] = x
  <2>1. IsFiniteSet(1 .. n) /\ Cardinality(1 .. n) = n
    BY <1>1, FS_Interval
  <2>2. jobs \in Injection(1 .. n, S)
    BY <1>2 DEF Injection, IsInjective
  <2>3. jobs \in Surjection(1 .. n, S)
    BY <2>1, <2>2, FS_Injection
  <2>4. QED
    BY <2>3 DEF Surjection
<1> HIDE DEF n
<1>5. /\ queue' \in Seq(Jobs) /\ Len(queue) \in Nat
      /\ DOMAIN queue = 1 .. Len(queue) /\ DOMAIN queue' = 1 .. Len(queue) + n
      /\ \A i \in 1 .. Len(queue) : queue'[i] = queue[i]
      /\ \A i \in 1 .. n : queue'[Len(queue) + i] = jobs[i]
  <2>1. /\ queue' \in Seq(Jobs) /\ Len(queue') = Len(queue) + Len(jobs)
        /\ \A i \in 1 .. Len(queue) + Len(jobs) :
             queue'[i] = IF i <= Len(queue) THEN queue[i] ELSE jobs[i - Len(queue)]
    BY <1>3, ConcatProperties
  <2>2. QED
    BY <1>1, <1>3, <2>1
<1>6. Queued' = Queued \cup S
  <2>1. Queued \subseteq Queued'
    BY <1>1, <1>5 DEF Queued
  <2>2. S \subseteq Queued'
    <3> SUFFICES ASSUME NEW i \in 1 .. n PROVE jobs[i] \in Queued'
      BY <1>4
    <3>1. Len(queue) + i \in DOMAIN queue' /\ queue'[Len(queue) + i] = jobs[i]
      BY <1>1, <1>5
    <3>2. QED
      BY <3>1 DEF Queued
  <2>3. ASSUME NEW i \in 1 .. Len(queue) + n PROVE queue'[i] \in Queued \cup S
    <3>1. CASE i <= Len(queue)
      BY <1>5, <3>1 DEF Queued
    <3>2. CASE i > Len(queue)
      <4>1. i - Len(queue) \in 1 .. n /\ queue'[Len(queue) + (i - Len(queue))] = jobs[i - Len(queue)]
        BY <1>1, <1>5, <3>2
      <4>2. QED
        BY <1>1, <1>2, <1>5, <4>1
    <3>3. QED
      BY <1>1, <1>5, <3>1, <3>2
  <2>4. Queued' \subseteq Queued \cup S
    <3>1. Queued' = {queue'[i] : i \in 1 .. Len(queue) + n}
      BY <1>5 DEF Queued
    <3>2. QED
      BY <2>3, <3>1
  <2>5. QED
    BY <2>1, <2>2, <2>4
<1>7. ASSUME NEW x, Single(x), x \notin S PROVE Single(x)'
  <2>1. ASSUME NEW i \in DOMAIN queue', queue'[i] = x PROVE i \in DOMAIN queue /\ queue[i] = x
    <3>1. CASE i <= Len(queue)
      BY <1>5, <2>1, <3>1
    <3>2. CASE i > Len(queue)
      <4>1. i - Len(queue) \in 1 .. n /\ queue'[Len(queue) + (i - Len(queue))] = jobs[i - Len(queue)]
        BY <1>1, <1>5, <3>2
      <4>2. queue'[i] = jobs[i - Len(queue)] /\ jobs[i - Len(queue)] \in S
        BY <1>1, <1>2, <1>5, <4>1, <2>1
      <4>3. QED
        BY <1>7, <2>1, <4>2
    <3>3. QED
      BY <1>1, <1>5, <3>1, <3>2
  <2>2. QED
    BY <1>7, <2>1 DEF Single
<1>8. QED
  BY <1>5, <1>6, <1>7 DEF Pending

-----------------------------------------------------------------------------
(* Types *)

LEMMA JobKinds ==
  /\ \A a \in Closers, w \in Tasks : Close(a, w) \in CloseJobs /\ Close(a, w) \in Jobs
  /\ \A t \in Tasks : Begins(t) \in Jobs
  /\ \A r \in Requests, c \in Connects : <<r, "call", c>> \in CallJobs /\ <<r, "call", c>> \in Jobs
  /\ \A j \in CloseJobs : j[1] \in Closers /\ j[3] \in Tasks /\ j = Close(j[1], j[3])
  /\ \A j \in CallJobs : j[3] \in Connects
  /\ \A a, w, b, v : Close(a, w) = Close(b, v) <=> a = b /\ w = v
  /\ \A a, w : Close(a, w)[3] = w /\ Close(a, w) \notin CallJobs
  /\ \A t, a, w : Begins(t) # Close(a, w)
  /\ \A t : Begins(t) \notin CallJobs /\ Begins(t) \notin CloseJobs
  /\ \A t, s : Begins(t) = Begins(s) => t = s
  /\ Awaiters \subseteq Closers /\ Tasks \subseteq Closers /\ Shutdown \in Closers /\ Connects \subseteq Tasks
  /\ Connects \subseteq Passes /\ Passes \subseteq Awaiters /\ SignOut \in Awaiters /\ Delete \in Awaiters
  /\ Reaper \in Passes
BY DEF Jobs, CloseJobs, CallJobs, StartJobs, Close, Begins, Closers, Awaiters, Passes, Tasks

(* Browser.close queues the close of every session that is not marked. *)
LEMMA ShutdownJobs ==
  ASSUME Accounts, TypeOK, ShutdownSessions
  PROVE  /\ queue' \in Seq(Jobs) /\ Pending' = Pending \cup {Close(Shutdown, c) : c \in sessions \ marked}
         /\ \A x : Single(x) /\ x \notin CloseJobs => Single(x)'
<1> DEFINE S == {Close(Shutdown, c) : c \in sessions \ marked}
<1>1. S \in SUBSET Jobs /\ S \subseteq CloseJobs
  BY JobKinds DEF TypeOK
<1>2. IsFiniteSet(S)
  <2> DEFINE f == [c \in sessions \ marked |-> Close(Shutdown, c)]
  <2>1. f \in Surjection(sessions \ marked, S)
    BY DEF Surjection
  <2>2. IsFiniteSet(sessions \ marked)
    BY FS_Subset DEF Accounts
  <2>3. QED
    BY <2>1, <2>2, FS_Surjection
<1>3. PICK jobs \in SetToSeqs(S) : queue' = queue \o jobs
  BY DEF ShutdownSessions
<1>4. busy' = busy /\ queue \in Seq(Jobs)
  BY DEF ShutdownSessions, TypeOK
<1> HIDE DEF S
<1>5. /\ queue' \in Seq(Jobs) /\ Pending' = Pending \cup S
      /\ \A x : Single(x) /\ x \notin S => Single(x)'
  BY <1>1, <1>2, <1>3, <1>4, SubmitsAll
<1>6. QED
  BY <1>1, <1>5 DEF S

THEOREM SessionTypeInit == Init => TypeOK
<1> SUFFICES ASSUME Init PROVE TypeOK
  OBVIOUS
<1>1. queue \in Seq(Jobs)
  BY DEF Init
<1>2. /\ at \in [Tasks -> {"idle"}] /\ started \in [Tasks -> {"none"}]
      /\ process \in [Tasks -> {"none"}] /\ timeouts \in [Connects -> {0}]
      /\ left \in [Passes \cup {SignOut} -> {{}}] /\ waiting \in [Awaiters -> {None}]
  BY DEF Init
<1>3. QED
  BY <1>1, <1>2 DEF Init, TypeOK

(* The tasks that are under way are counted in the natural numbers. *)
LEMMA CountType ==
  ASSUME Accounts
  PROVE  pending \in Nat /\ starting \subseteq Tasks
<1>1. Cardinality(Counted) \in Nat
  BY FS_CardinalityType DEF Accounts
<1>2. QED
  BY <1>1 DEF Accounts, PendingCounts, Counted

LEMMA CallsHoldStep == CallsHold /\ [Next]_vars => CallsHold'
<1> SUFFICES ASSUME CallsHold, [Next]_vars PROVE CallsHold'
  OBVIOUS
<1> USE DEF CallsHold
<1>1. ASSUME held' \subseteq held PROVE CallsHold'
  BY <1>1
<1>2. ASSUME NEW j \in busy, Locking(j) \/ Ending(j) PROVE CallsHold'
  <2>1. held' \subseteq held \/ (held' = held \cup {j} /\ j \in CallJobs)
    BY <1>2 DEF Locking, Ending, CallLock, CloseRuns, CallReturn, CallTimeout, Done, history
  <2>2. QED
    BY <2>1
<1>3. CASE UNCHANGED vars
  BY <1>3 DEF vars, pool, history
<1>4. ASSUME NEW t \in Tasks, WorkerStarts(t) \/ WorkerHangs(t) \/ WorkerEnds(t) PROVE CallsHold'
  BY <1>4, <1>1 DEF WorkerStarts, WorkerHangs, WorkerEnds, Done, pool, history
<1>5. ASSUME NEW c \in Connects, ConnectBegin(c) \/ Connecting(c) \/ CancelExpire(c) PROVE CallsHold'
  BY <1>5 DEF ConnectBegin, Connecting, ConnectRefuse, ConnectStart, StartWorker, Connected, CancelExpire, pool, history
<1>6. ASSUME NEW d \in Discoveries, Discovering(d) \/ CancelLeave(d) PROVE CallsHold'
  BY <1>6 DEF Discovering, CancelLeave, DiscoverRefuse, DiscoverStart, StartWorker, Discovered, pool, history
<1>7. ASSUME NEW t \in Tasks, Starting(t) \/ CancelStart(t) PROVE CallsHold'
  BY <1>7 DEF Starting, StartFailed, StartRefused, CloseReturned, CancelStart, pool, history
<1>8. ASSUME NEW e \in Passes, Expire(e) PROVE CallsHold'
  BY <1>8 DEF Expire, ExpirePop, ExpireSkip, ExpireClose, ExpireMarked, pool, history
<1>9. ASSUME Reap \/ SignOutBegin \/ CancelRoute(SignOut) \/ CancelRoute(Delete) \/ ShutdownBegin \/ ShuttingDown \/ Take
      PROVE  CallsHold'
  BY <1>9 DEF Reap, ReapBegin, ReapEnd, SignOutBegin, ShutdownBegin, ShuttingDown, ShutdownStart,
              ShutdownSessions, ShutdownEnd, Take, CancelRoute, pool
<1>10. ASSUME NEW c \in Connects, DeleteBegin(c) \/ DeleteEnd(c) \/ SigningOut(c) PROVE CallsHold'
  BY <1>10 DEF DeleteBegin, DeleteEnd, SigningOut, SignOutNext, SignOutEnd, pool, history
<1>11. ASSUME NEW r \in Requests, NEW c \in Connects, Call(r, c) PROVE CallsHold'
  BY <1>11 DEF Call, pool, history
<1>12. QED
  BY <1>2, <1>3, <1>4, <1>5, <1>6, <1>7, <1>8, <1>9, <1>10, <1>11 DEF Next

(* Only jobs for the worker of a task are taken back. *)
LEMMA TakenType ==
  ASSUME TypeOK, NEW e, NEW w, Withdraw(Close(e, w)), busy' = busy
  PROVE  queue' \in Seq(Jobs) /\ abandoned' \subseteq Tasks
<1>1. /\ queue' \in Seq(Jobs) /\ abandoned' \subseteq abandoned \cup {w}
      /\ Close(e, w) \notin Pending => abandoned' = abandoned
  BY Withdraws DEF TypeOK, Close
<1>2. Close(e, w) \in Pending => w \in Tasks
  <2>1. Pending \subseteq Jobs
    BY DEF TypeOK, Pending, Queued
  <2>2. \A x \in Jobs : x[2] = "close" => x[3] \in Tasks
    BY DEF Jobs, CloseJobs, CallJobs, StartJobs
  <2>3. QED
    BY <2>1, <2>2 DEF Close
<1>3. QED
  BY <1>1, <1>2 DEF TypeOK

THEOREM SessionTypeStep == Accounts /\ TypeOK /\ CallsHold /\ [Next]_vars => TypeOK'
<1> SUFFICES ASSUME Accounts, TypeOK, CallsHold, [Next]_vars PROVE TypeOK'
  OBVIOUS
<1>0. Accounts'
  BY AccountsStep
<1>n. pending' \in Nat /\ starting' \subseteq Tasks
  <2>1. Accounts' => pending' \in Nat /\ starting' \subseteq Tasks
    <3>1. Accounts' => Cardinality(Counted') \in Nat
      BY FS_CardinalityType DEF Accounts
    <3>2. QED
      BY <3>1 DEF Accounts, PendingCounts, Counted
  <2>2. QED
    BY <1>0, <2>1
<1> USE <1>n, JobKinds DEF TypeOK
<1>1. ASSUME NEW c \in Connects, ConnectBegin(c) \/ Connecting(c) \/ CancelExpire(c) PROVE TypeOK'
  <2>1. CASE ConnectBegin(c)
    BY <2>1 DEF ConnectBegin, registry, closing, pool, workers, Passes, history
  <2>2. CASE ConnectRefuse(c)
    BY <2>2 DEF ConnectRefuse, registry, passes, closing, pool, workers, history
  <2>3. CASE ConnectStart(c)
    <3>1. queue' \in Seq(Jobs)
      BY <2>3, Submits DEF ConnectStart, StartWorker, Begins
    <3>2. QED
      BY <2>3, <3>1 DEF ConnectStart, StartWorker, registry, passes, closing, workers, history
  <2>4. CASE Connected(c)
    BY <2>4 DEF Connected, Settle, passes, closing, pool, workers, history
  <2>5. CASE CancelExpire(c)
    <3>1. queue' \in Seq(Jobs) /\ abandoned' \subseteq Tasks
      BY <2>5, TakenType DEF CancelExpire
    <3>2. QED
      BY <2>5, <3>1 DEF CancelExpire, Withdraw, registry, closing, workers, history
  <2>6. QED
    BY <1>1, <2>1, <2>2, <2>3, <2>4, <2>5 DEF Connecting
<1>2. ASSUME NEW d \in Discoveries, Discovering(d) \/ CancelLeave(d) PROVE TypeOK'
  <2>0. d \in Tasks
    BY DEF Tasks
  <2>1. CASE DiscoverRefuse(d)
    BY <2>0, <2>1 DEF DiscoverRefuse, registry, passes, closing, pool, workers, history
  <2>2. CASE DiscoverStart(d)
    <3>1. queue' \in Seq(Jobs)
      BY <2>0, <2>2, Submits DEF DiscoverStart, StartWorker, Begins
    <3>2. QED
      BY <2>0, <2>2, <3>1 DEF DiscoverStart, StartWorker, registry, passes, closing, workers, history
  <2>3. CASE Discovered(d)
    <3>1. queue' \in Seq(Jobs)
      BY <2>0, <2>3, Submits DEF Discovered
    <3>2. QED
      BY <2>0, <2>3, <3>1 DEF Discovered, Settle, registry, passes, closing, workers, history
  <2>4. CASE CancelLeave(d)
    <3>1. queue' \in Seq(Jobs) /\ abandoned' \subseteq Tasks
      BY <2>0, <2>4, Withdraws DEF CancelLeave, Close
    <3>2. QED
      BY <2>0, <2>4, <3>1 DEF CancelLeave, Withdraw, registry, passes, closing, workers, history
  <2>5. QED
    BY <1>2, <2>1, <2>2, <2>3, <2>4 DEF Discovering
<1>3. ASSUME NEW t \in Tasks, Starting(t) \/ CancelStart(t) PROVE TypeOK'
  <2>1. CASE StartFailed(t)
    BY <2>1 DEF StartFailed, Settle, registry, passes, closing, pool, workers, history
  <2>2. CASE StartRefused(t)
    <3>1. queue' \in Seq(Jobs)
      BY <2>2, Submits DEF StartRefused
    <3>2. QED
      BY <2>2, <3>1 DEF StartRefused, registry, passes, closing, workers, history
  <2>3. CASE CloseReturned(t)
    BY <2>3 DEF CloseReturned, Settle, registry, passes, closing, pool, workers, history
  <2>4. CASE CancelStart(t)
    BY <2>4 DEF CancelStart, registry, passes, closing, pool, workers, history
  <2>5. QED
    BY <1>3, <2>1, <2>2, <2>3, <2>4 DEF Starting
<1>4. ASSUME NEW e \in Passes, Expire(e) PROVE TypeOK'
  <2>1. CASE ExpirePop(e)
    BY <2>1 DEF ExpirePop, coroutines, closing, pool, workers, history
  <2>2. ASSUME NEW c \in Connects, ExpireSkip(e, c) PROVE TypeOK'
    BY <2>2 DEF ExpireSkip, registry, coroutines, closing, pool, workers, history
  <2>3. ASSUME NEW c \in Connects, ExpireClose(e, c) PROVE TypeOK'
    <3>1. queue' \in Seq(Jobs)
      BY <2>3, Submits DEF ExpireClose
    <3>2. QED
      BY <2>3, <3>1 DEF ExpireClose, coroutines, closing, workers, history
  <2>4. ASSUME NEW c \in Connects, ExpireMarked(e, c) PROVE TypeOK'
    BY <2>4 DEF ExpireMarked, coroutines, closing, pool, workers, history
  <2>5. QED
    BY <1>4, <2>1, <2>2, <2>3, <2>4 DEF Expire
<1>5. CASE Reap
  BY <1>5 DEF Reap, ReapBegin, ReapEnd, registry, coroutines, closing, pool, workers, history
<1>6. ASSUME NEW c \in Connects, DeleteBegin(c) \/ DeleteEnd(c) \/ SigningOut(c) PROVE TypeOK'
  <2>1. CASE DeleteBegin(c)
    <3>1. queue' \in Seq(Jobs)
      BY <2>1, Submits DEF DeleteBegin
    <3>2. QED
      BY <2>1, <3>1 DEF DeleteBegin, coroutines, closing, workers, history
  <2>2. CASE DeleteEnd(c)
    BY <2>2 DEF DeleteEnd, coroutines, closing, pool, workers, history
  <2>3. CASE SignOutNext(c)
    <3>1. queue' \in Seq(Jobs)
      BY <2>3, Submits DEF SignOutNext
    <3>2. left' \in [Passes \cup {SignOut} -> SUBSET Connects] /\ waiting' \in [Awaiters -> Connects \cup {None}]
      BY <2>3 DEF SignOutNext
    <3>3. QED
      BY <2>3, <3>1, <3>2 DEF SignOutNext, coroutines, closing, workers, history
  <2>4. CASE SignOutEnd(c)
    BY <2>4 DEF SignOutEnd, coroutines, closing, pool, workers, history
  <2>5. QED
    BY <1>6, <2>1, <2>2, <2>3, <2>4 DEF SigningOut
<1>7. ASSUME NEW r \in Requests, NEW c \in Connects, Call(r, c) PROVE TypeOK'
  <2>1. queue' \in Seq(Jobs)
    BY <1>7, Submits DEF Call
  <2>2. QED
    BY <1>7, <2>1 DEF Call, registry, coroutines, passes, closing, workers, history
<1>8. ASSUME SignOutBegin \/ CancelRoute(SignOut) \/ CancelRoute(Delete) PROVE TypeOK'
  <2>1. CASE SignOutBegin
    BY <2>1 DEF SignOutBegin, registry, coroutines, closing, pool, workers, history
  <2>2. ASSUME NEW e \in {SignOut, Delete}, CancelRoute(e) PROVE TypeOK'
    <3>1. queue' \in Seq(Jobs) /\ abandoned' \subseteq Tasks
      BY <2>2, TakenType DEF CancelRoute
    <3>2. left' \in [Passes \cup {SignOut} -> SUBSET Connects] /\ waiting' \in [Awaiters -> Connects \cup {None}]
      BY <2>2 DEF CancelRoute
    <3>3. QED
      BY <2>2, <3>1, <3>2 DEF CancelRoute, Withdraw, registry, coroutines, closing, workers
  <2>3. QED
    BY <1>8, <2>1, <2>2
<1>9. CASE ShutdownBegin
  <2>1. queue' \in Seq(Jobs) /\ abandoned' \subseteq Tasks
    BY <1>9, TakenType DEF ShutdownBegin
  <2>2. QED
    BY <1>9, <2>1 DEF ShutdownBegin, Withdraw, registry, coroutines, workers, history
<1>10. CASE ShuttingDown
  <2>1. ASSUME NEW t \in Tasks, ShutdownStart(t) PROVE TypeOK'
    <3>1. queue' \in Seq(Jobs)
      BY <2>1, Submits DEF ShutdownStart
    <3>2. QED
      BY <2>1, <3>1 DEF ShutdownStart, registry, coroutines, passes, workers, history
  <2>2. CASE ShutdownSessions
    <3>1. queue' \in Seq(Jobs)
      BY <2>2, ShutdownJobs DEF ShutdownSessions
    <3>2. QED
      BY <2>2, <3>1 DEF ShutdownSessions, coroutines, passes, workers, history
  <2>3. CASE ShutdownEnd
    BY <2>3 DEF ShutdownEnd, coroutines, passes, pool, workers, history
  <2>4. QED
    BY <1>10, <2>1, <2>2, <2>3 DEF ShuttingDown
<1>11. CASE Take
  <2>1. queue' \in Seq(Jobs) /\ Head(queue) \in Jobs
    BY <1>11, Takes
  <2>2. QED
    BY <1>11, <2>1 DEF Take, registry, coroutines, passes, closing, workers, history
<1>12. ASSUME NEW t \in Tasks, WorkerStarts(t) \/ WorkerHangs(t) \/ WorkerEnds(t) PROVE TypeOK'
  <2>1. CASE WorkerStarts(t)
    BY <2>1 DEF WorkerStarts, Done, registry, coroutines, passes, closing, history
  <2>2. CASE WorkerHangs(t)
    BY <2>2 DEF WorkerHangs, registry, coroutines, passes, closing, pool, history
  <2>3. CASE WorkerEnds(t)
    BY <2>3 DEF WorkerEnds, registry, coroutines, passes, closing, pool, history
  <2>4. QED
    BY <1>12, <2>1, <2>2, <2>3
<1>13. ASSUME NEW j \in busy, Locking(j) \/ Ending(j) PROVE TypeOK'
  <2>1. CASE CallLock(j)
    BY <2>1 DEF CallLock, Done, registry, coroutines, passes, closing, workers, history
  <2>2. CASE CloseRuns(j)
    BY <2>2 DEF CloseRuns, Done, registry, coroutines, passes, closing, history
  <2>3. CASE CallReturn(j)
    BY <2>3 DEF CallReturn, Done, registry, coroutines, passes, closing, workers, history
  <2>4. CASE CallTimeout(j)
    <3>1. j[3] \in Connects
      BY <2>4 DEF CallTimeout, CallsHold, history
    <3>2. QED
      BY <2>4, <3>1 DEF CallTimeout, Done, registry, coroutines, passes, closing, history
  <2>5. QED
    BY <1>13, <2>1, <2>2, <2>3, <2>4 DEF Locking, Ending
<1>14. CASE UNCHANGED vars
  BY <1>14 DEF vars, registry, coroutines, passes, closing, pool, workers, history
<1>15. QED
  BY <1>1, <1>2, <1>3, <1>4, <1>5, <1>6, <1>7, <1>8, <1>9, <1>10, <1>11, <1>12, <1>13, <1>14 DEF Next

(* Every variable keeps its type. *)
THEOREM SessionTypeCorrect == Spec => []TypeOK
<1>1. Init => CallsHold
  BY DEF Init, CallsHold
<1>2. QED
  BY <1>1, AccountsCorrect, SessionTypeInit, SessionTypeStep, CallsHoldStep, PTL DEF Spec

-----------------------------------------------------------------------------
(* The threads of the pool keep the custody of workers *)

Threads ==
  \/ Take
  \/ \E t \in Tasks : WorkerStarts(t) \/ WorkerHangs(t) \/ WorkerEnds(t)
  \/ \E j \in busy : Locking(j) \/ Ending(j)

(* What a thread may do: a close ends its worker, a start makes one live, and only
   the deadline of a call counts. *)
ThreadEffect ==
  /\ UNCHANGED <<registry, coroutines, passes, closing, abandoned>>
  /\ Pending' \subseteq Pending
  /\ \A x : Single(x) => Single(x)'
  /\ \A a \in Closers, w \in Tasks : Close(a, w) \in Pending \ Pending' => process'[w] = "dead"
  /\ \A t \in Tasks :
       \/ Begins(t) \in Pending /\ Begins(t) \notin Pending' /\ (process'[t] = "live" => started'[t] = "ok")
       \/ started'[t] = started[t] /\ (process'[t] = process[t] \/ process'[t] = "dead")
  /\ \A c \in Connects :
       \/ timeouts'[c] = timeouts[c]
       \/ timeouts'[c] = timeouts[c] + 1 /\ process[c] = "live" /\ process'[c] = "dead" /\ started'[c] = started[c]

LEMMA ThreadsDo ==
  ASSUME TypeOK, CallsHold, StartsOnce, Threads
  PROVE  ThreadEffect
<1> USE JobKinds DEF TypeOK
<1>1. CASE Take
  <2>1. Pending' = Pending /\ \A x : Single(x) => Single(x)'
    BY <1>1, Takes
  <2>2. UNCHANGED <<registry, coroutines, passes, closing, abandoned, started, process, timeouts>>
    BY <1>1 DEF Take, workers, history
  <2>3. QED
    BY <2>1, <2>2 DEF ThreadEffect
<1>2. ASSUME NEW t \in Tasks, WorkerStarts(t) PROVE ThreadEffect
  <2>1. /\ Begins(t) \in busy /\ Done(Begins(t)) /\ queue' = queue
        /\ UNCHANGED <<registry, coroutines, passes, closing, abandoned, timeouts>>
        /\ \/ started' = [started EXCEPT ![t] = "ok"] /\ process' = [process EXCEPT ![t] = "live"]
           \/ started' = [started EXCEPT ![t] = "failed"] /\ process' = [process EXCEPT ![t] = "dead"]
    BY <1>2 DEF WorkerStarts, Begins, history
  <2>2. Single(Begins(t)) /\ Begins(t) \in Pending
    BY <2>1 DEF StartsOnce, Pending
  <2>3. /\ Pending \ {Begins(t)} \subseteq Pending' /\ Pending' \subseteq Pending /\ Begins(t) \notin Pending'
        /\ \A x : Single(x) => Single(x)'
    BY <2>1, <2>2, Finishes
  <2>4. /\ process'[t] = "live" => started'[t] = "ok"
        /\ \A s \in Tasks \ {t} : started'[s] = started[s] /\ process'[s] = process[s]
    BY <2>1
  <2>5. QED
    BY <2>1, <2>2, <2>3, <2>4 DEF ThreadEffect
<1>3. ASSUME NEW t \in Tasks, WorkerHangs(t) \/ WorkerEnds(t) PROVE ThreadEffect
  <2>1. /\ UNCHANGED <<registry, coroutines, passes, closing, abandoned, queue, busy, started, timeouts>>
        /\ \A s \in Tasks : process'[s] = process[s] \/ process'[s] = "dead"
    BY <1>3 DEF WorkerHangs, WorkerEnds, pool, history
  <2>2. Pending' = Pending /\ \A x : Single(x) => Single(x)'
    BY <2>1 DEF Pending, Queued, Single
  <2>3. QED
    BY <2>1, <2>2 DEF ThreadEffect
<1>4. ASSUME NEW j \in busy, CallLock(j) \/ CallReturn(j) PROVE ThreadEffect
  <2>1. /\ j \in CallJobs /\ queue' = queue /\ (busy' = busy \/ Done(j))
        /\ UNCHANGED <<registry, coroutines, passes, closing, abandoned, started, process, timeouts>>
    BY <1>4 DEF CallLock, CallReturn, CallsHold, workers, history
  <2>2. /\ Pending \ {j} \subseteq Pending' /\ Pending' \subseteq Pending
        /\ \A x : Single(x) => Single(x)'
    <3>1. CASE busy' = busy
      BY <2>1, <3>1 DEF Pending, Queued, Single
    <3>2. CASE Done(j)
      BY <2>1, <3>2, Finishes
    <3>3. QED
      BY <2>1, <3>1, <3>2
  <2>3. QED
    BY <2>1, <2>2 DEF ThreadEffect
<1>5. ASSUME NEW j \in busy, CallTimeout(j) PROVE ThreadEffect
  <2>1. /\ j \in CallJobs /\ queue' = queue /\ Done(j) /\ j[3] \in Connects /\ process[j[3]] = "live"
        /\ timeouts' = [timeouts EXCEPT ![j[3]] = @ + 1] /\ process' = [process EXCEPT ![j[3]] = "dead"]
        /\ UNCHANGED <<registry, coroutines, passes, closing, abandoned, started>>
    BY <1>5 DEF CallTimeout, CallsHold
  <2>2. /\ Pending \ {j} \subseteq Pending' /\ Pending' \subseteq Pending
        /\ \A x : Single(x) => Single(x)'
    BY <2>1, Finishes
  <2>3. QED
    BY <2>1, <2>2 DEF ThreadEffect
<1>6. ASSUME NEW j \in busy, CloseRuns(j) PROVE ThreadEffect
  <2>1. /\ j \in CloseJobs /\ queue' = queue /\ Done(j) /\ j[3] \in Tasks /\ j[1] \in Closers /\ j = Close(j[1], j[3])
        /\ process' = [process EXCEPT ![j[3]] = "dead"]
        /\ UNCHANGED <<registry, coroutines, passes, closing, abandoned, started, timeouts>>
    BY <1>6 DEF CloseRuns, history
  <2>2. /\ Pending \ {j} \subseteq Pending' /\ Pending' \subseteq Pending
        /\ \A x : Single(x) => Single(x)'
    BY <2>1, Finishes
  <2>3. QED
    BY <2>1, <2>2 DEF ThreadEffect
<1>7. QED
  BY <1>1, <1>2, <1>3, <1>4, <1>5, <1>6 DEF Threads, Locking, Ending

LEMMA ThreadsKeep ==
  ASSUME Custody, ThreadEffect, TypeOK', CallsHold'
  PROVE  Custody'
<1>0. /\ TypeOK /\ StartsOnce /\ LivesOnce /\ SessionsAreOver /\ ClosesRun /\ Accounted /\ ShutsDown
      /\ UNCHANGED <<at, sessions, owners, marked, abandoned, left, waiting, browser, gathered, Counted>>
  BY DEF Custody, ThreadEffect, registry, coroutines, passes, closing, Counted, history
<1>1. StartsOnce'
  BY <1>0 DEF ThreadEffect, StartsOnce, Beginning
<1>2. LivesOnce'
  BY <1>0, JobKinds DEF ThreadEffect, LivesOnce, StartsOnce, TypeOK
<1>s. \A t \in Tasks : Begins(t) \in Pending => ~Over(t) /\ t \in Counted /\ at[t] \notin {"closing", "leaving"}
  BY <1>0 DEF StartsOnce, Beginning, Over, Counted
<1>3. SessionsAreOver'
  BY <1>0, <1>s, JobKinds DEF ThreadEffect, SessionsAreOver, Over, TypeOK
<1>4. ClosesRun'
  <2>1. ASSUME NEW e \in Awaiters, waiting[e] # None, process'[waiting[e]] = "live" PROVE Close(e, waiting[e]) \in Pending'
    <3>1. waiting[e] \in Tasks /\ Over(waiting[e]) /\ e \in Closers
      BY <1>0, <2>1, JobKinds DEF SessionsAreOver, TypeOK
    <3>2. process[waiting[e]] = "live"
      BY <1>s, <2>1, <3>1 DEF ThreadEffect
    <3>3. QED
      BY <1>0, <2>1, <3>1, <3>2 DEF ThreadEffect, ClosesRun
  <2>2. ASSUME NEW t \in Tasks, at[t] \in {"closing", "leaving"}
        PROVE  started'[t] = "ok" /\ (process'[t] = "live" => Close(t, t) \in Pending')
    BY <1>0, <1>s, <2>2, JobKinds DEF ThreadEffect, ClosesRun
  <2>3. QED
    BY <1>0, <2>1, <2>2 DEF ClosesRun
<1>5. Accounted'
  <2> SUFFICES ASSUME NEW w \in Tasks \ abandoned, process'[w] = "live", w \notin (sessions \ marked) \cup Counted PROVE Kept(w)'
    BY <1>0 DEF Accounted
  <2>1. process[w] = "live"
    BY <1>s DEF ThreadEffect
  <2>2. PICK a \in Closers : Close(a, w) \in Pending
    BY <1>0, <2>1 DEF Accounted, Kept
  <2>3. QED
    BY <2>2 DEF ThreadEffect, Kept
<1>6. ShutsDown'
  <2> SUFFICES ASSUME browser # "open" PROVE ShutsDown'
    BY <1>0 DEF ShutsDown
  <2>1. ASSUME NEW t \in Counted, started'[t] = "none" PROVE browser = "gathering" /\ t \in gathered
    <3>1. started[t] = "none"
      BY <1>0, <2>1 DEF ThreadEffect, StartsOnce, Counted
    <3>2. QED
      BY <1>0, <3>1 DEF ShutsDown
  <2>2. ASSUME NEW t \in Counted, process'[t] = "live" PROVE t \in gathered \/ Close(Shutdown, t) \in Pending'
    <3>1. t \in Tasks
      BY DEF Counted
    <3>2. CASE Begins(t) \in Pending
      BY <1>0, <3>2 DEF ShutsDown, StartsOnce, Counted
    <3>3. CASE Begins(t) \notin Pending
      BY <1>0, <2>2, <3>1, <3>3, JobKinds DEF ThreadEffect, ShutsDown
    <3>4. QED
      BY <3>2, <3>3
  <2>3. QED
    BY <1>0, <2>1, <2>2 DEF ShutsDown
<1>7. QED
  BY <1>1, <1>2, <1>3, <1>4, <1>5, <1>6 DEF Custody

-----------------------------------------------------------------------------
(* The coroutines, the routes and Browser.close keep it too *)

(* The parts of Custody that a step of the event loop can disturb: it neither starts
   nor ends a worker, and times no call out. *)
Books == StartsOnce /\ SessionsAreOver /\ ClosesRun /\ Accounted /\ ShutsDown

EventLoop == UNCHANGED <<started, process, timeouts, busy, held>>

LEMMA BooksKeep ==
  ASSUME Custody, EventLoop, TypeOK', CallsHold', Books'
  PROVE  Custody'
<1>1. LivesOnce'
  BY DEF Custody, LivesOnce, EventLoop
<1>2. QED
  BY <1>1 DEF Custody, Books

LEMMA Idles ==
  ASSUME UNCHANGED <<queue, busy>>
  PROVE  Pending' = Pending /\ \A x : Single(x) => Single(x)'
BY DEF Pending, Queued, Single

LEMMA ConnectBeginBooks ==
  ASSUME Custody, NEW c \in Connects, ConnectBegin(c)
  PROVE  EventLoop /\ Books'
<1> USE JobKinds DEF TypeOK, Custody
<1>a. /\ Pending' = Pending /\ (\A x : Single(x) => Single(x)')
      /\ UNCHANGED <<started, process, timeouts, busy, held>>
      /\ UNCHANGED <<marked, abandoned>>
      /\ UNCHANGED <<sessions, owners, waiting, browser, gathered>>
      /\ at[c] = "idle" /\ at' = [at EXCEPT ![c] = "expiring"]
      /\ left' = [left EXCEPT ![c] = sessions]
      /\ c \in Tasks
  BY Idles DEF ConnectBegin, registry, closing, pool, workers, history
<1>1. StartsOnce'
  BY <1>a DEF StartsOnce, Beginning
<1>2. SessionsAreOver'
  BY <1>a DEF SessionsAreOver, Over
<1>3. ClosesRun'
  BY <1>a DEF ClosesRun, SessionsAreOver, Over
<1>4. Accounted'
  BY <1>a DEF Accounted, Kept, Counted
<1>5. ShutsDown'
  BY <1>a DEF ShutsDown, Counted
<1>6. QED
  BY <1>a, <1>1, <1>2, <1>3, <1>4, <1>5 DEF EventLoop, Books

LEMMA OverBooks ==
  ASSUME Custody, NEW t \in Tasks, ConnectRefuse(t) \/ DiscoverRefuse(t)
  PROVE  EventLoop /\ Books'
<1> USE JobKinds DEF TypeOK, Custody
<1>a. /\ Pending' = Pending /\ (\A x : Single(x) => Single(x)')
      /\ UNCHANGED <<started, process, timeouts, busy, held>>
      /\ UNCHANGED <<marked, abandoned>>
      /\ UNCHANGED <<sessions, owners, left, waiting, browser, gathered>>
      /\ at[t] \in {"idle", "expiring"} /\ at' = [at EXCEPT ![t] = "over"]
      /\ t \in Connects => waiting[t] = None /\ left[t] = {}
  BY Idles DEF ConnectRefuse, DiscoverRefuse, Expired, SessionsAreOver, registry, passes, closing, pool, workers, history
<1>1. StartsOnce'
  BY <1>a DEF StartsOnce, Beginning
<1>2. SessionsAreOver'
  BY <1>a DEF SessionsAreOver, Over
<1>3. ClosesRun'
  BY <1>a DEF ClosesRun, SessionsAreOver, Over
<1>4. Accounted'
  BY <1>a DEF Accounted, Kept, Counted
<1>5. ShutsDown'
  BY <1>a DEF ShutsDown, Counted
<1>6. QED
  BY <1>a, <1>1, <1>2, <1>3, <1>4, <1>5 DEF EventLoop, Books

LEMMA StartWorkerBooks ==
  ASSUME Custody, NEW t \in Tasks, at[t] \in {"idle", "expiring"}, StartWorker(t),
         t \in Connects => waiting[t] = None /\ left[t] = {}
  PROVE  EventLoop /\ Books'
<1> USE JobKinds DEF TypeOK, Custody
<1>b. Begins(t) \in Jobs /\ Submit(Begins(t)) /\ busy' = busy /\ Begins(t) \notin Pending
  BY DEF StartWorker, StartsOnce, Beginning, Begins
<1>c. Pending' = Pending \cup {Begins(t)} /\ \A x : Single(x) => Single(x)'
  BY <1>b, Submits
<1>d. Single(Begins(t))'
  BY <1>b, <1>c DEF Single, Pending, Queued
<1>e. started[t] = "none"
  BY DEF StartsOnce
<1>a. /\ Begins(t) \notin Pending /\ Pending' = Pending \cup {Begins(t)}
      /\ (\A x : Single(x) => Single(x)') /\ Single(Begins(t))' /\ started[t] = "none"
      /\ UNCHANGED <<started, process, timeouts, busy, held>>
      /\ UNCHANGED <<marked, abandoned>>
      /\ UNCHANGED <<sessions, owners, left, waiting, gathered>>
      /\ browser = "open" /\ browser' = "open"
      /\ at[t] \in {"idle", "expiring"} /\ at' = [at EXCEPT ![t] = "starting"]
      /\ t \in Connects => waiting[t] = None /\ left[t] = {}
  BY <1>b, <1>c, <1>d, <1>e DEF StartWorker, registry, passes, closing, workers, history
<1>1. StartsOnce'
  BY <1>a DEF StartsOnce, Beginning
<1>2. SessionsAreOver'
  BY <1>a DEF SessionsAreOver, Over
<1>3. ClosesRun'
  BY <1>a DEF ClosesRun, SessionsAreOver, Over
<1>4. Accounted'
  BY <1>a DEF Accounted, Kept, Counted
<1>5. ShutsDown'
  BY <1>a DEF ShutsDown, Counted
<1>6. QED
  BY <1>a, <1>1, <1>2, <1>3, <1>4, <1>5 DEF EventLoop, Books

LEMMA ConnectedBooks ==
  ASSUME Custody, NEW c \in Connects, Connected(c)
  PROVE  EventLoop /\ Books'
<1> USE JobKinds DEF TypeOK, Custody
<1>a. /\ Pending' = Pending /\ (\A x : Single(x) => Single(x)')
      /\ UNCHANGED <<started, process, timeouts, busy, held>>
      /\ UNCHANGED <<marked, abandoned>>
      /\ UNCHANGED <<left, waiting, gathered>>
      /\ browser = "open" /\ browser' = "open"
      /\ at[c] = "starting" /\ started[c] = "ok" /\ at' = [at EXCEPT ![c] = "over"]
      /\ sessions' = sessions \cup {c} /\ owners' = owners \cup {c}
      /\ c \in Tasks
  BY Idles DEF Connected, Settle, passes, closing, pool, workers, history
<1>1. StartsOnce'
  BY <1>a DEF StartsOnce, Beginning
<1>2. SessionsAreOver'
  BY <1>a DEF SessionsAreOver, Over
<1>3. ClosesRun'
  BY <1>a DEF ClosesRun, SessionsAreOver, Over
<1>4. Accounted'
  <2>1. c \notin marked
    BY <1>a DEF SessionsAreOver, Over
  <2>2. QED
    BY <1>a, <2>1 DEF Accounted, Kept, Counted
<1>5. ShutsDown'
  BY <1>a DEF ShutsDown, Counted
<1>6. QED
  BY <1>a, <1>1, <1>2, <1>3, <1>4, <1>5 DEF EventLoop, Books

LEMMA DiscoveredBooks ==
  ASSUME Custody, NEW d \in Discoveries, Discovered(d)
  PROVE  EventLoop /\ Books'
<1> USE JobKinds DEF TypeOK, Custody
<1>b. d \in Tasks /\ Submit(Close(d, d)) /\ busy' = busy /\ Close(d, d) \in Jobs
  BY DEF Discovered, Tasks
<1>a. /\ Pending' = Pending \cup {Close(d, d)}
      /\ \A x : Single(x) /\ x # Close(d, d) => Single(x)'
      /\ UNCHANGED <<started, process, timeouts, busy, held>>
      /\ UNCHANGED <<marked, abandoned>>
      /\ UNCHANGED <<sessions, owners, left, waiting, gathered>>
      /\ browser = "open" /\ browser' = "open"
      /\ at[d] = "starting" /\ started[d] = "ok" /\ at' = [at EXCEPT ![d] = "leaving"]
      /\ d \in Tasks /\ d \notin Connects
  BY <1>b, Submits, BrowserAssumption DEF Discovered, Settle, registry, passes, closing, workers, history
<1>1. StartsOnce'
  BY <1>a DEF StartsOnce, Beginning
<1>2. SessionsAreOver'
  BY <1>a DEF SessionsAreOver, Over
<1>3. ClosesRun'
  BY <1>a DEF ClosesRun, SessionsAreOver, Over
<1>4. Accounted'
  BY <1>a DEF Accounted, Kept, Counted
<1>5. ShutsDown'
  BY <1>a DEF ShutsDown, Counted
<1>6. QED
  BY <1>a, <1>1, <1>2, <1>3, <1>4, <1>5 DEF EventLoop, Books

LEMMA StartFailedBooks ==
  ASSUME Custody, NEW t \in Tasks, StartFailed(t)
  PROVE  EventLoop /\ Books'
<1> USE JobKinds DEF TypeOK, Custody
<1>a. /\ Pending' = Pending /\ (\A x : Single(x) => Single(x)')
      /\ UNCHANGED <<started, process, timeouts, busy, held>>
      /\ UNCHANGED <<marked, abandoned>>
      /\ UNCHANGED <<sessions, owners, left, waiting, browser, gathered>>
      /\ at[t] \in {"starting", "cancelled"} /\ started[t] = "failed" /\ at' = [at EXCEPT ![t] = "over"]
      /\ process[t] # "live"
      /\ t \in Connects => waiting[t] = None /\ left[t] = {}
  BY Idles DEF StartFailed, Settle, LivesOnce, SessionsAreOver, registry, passes, closing, pool, workers, history
<1>1. StartsOnce'
  BY <1>a DEF StartsOnce, Beginning
<1>2. SessionsAreOver'
  BY <1>a DEF SessionsAreOver, Over
<1>3. ClosesRun'
  BY <1>a DEF ClosesRun, SessionsAreOver, Over
<1>4. Accounted'
  BY <1>a DEF Accounted, Kept, Counted
<1>5. ShutsDown'
  BY <1>a DEF ShutsDown, Counted
<1>6. QED
  BY <1>a, <1>1, <1>2, <1>3, <1>4, <1>5 DEF EventLoop, Books

LEMMA StartRefusedBooks ==
  ASSUME Custody, NEW t \in Tasks, StartRefused(t)
  PROVE  EventLoop /\ Books'
<1> USE JobKinds DEF TypeOK, Custody
<1>b. Submit(Close(t, t)) /\ busy' = busy /\ Close(t, t) \in Jobs
  BY DEF StartRefused
<1>a. /\ Pending' = Pending \cup {Close(t, t)}
      /\ \A x : Single(x) /\ x # Close(t, t) => Single(x)'
      /\ UNCHANGED <<started, process, timeouts, busy, held>>
      /\ UNCHANGED <<marked, abandoned>>
      /\ UNCHANGED <<sessions, owners, left, waiting, browser, gathered>>
      /\ at[t] \in {"starting", "cancelled"} /\ started[t] = "ok" /\ at' = [at EXCEPT ![t] = "closing"]
  BY <1>b, Submits DEF StartRefused, registry, passes, closing, workers, history
<1>1. StartsOnce'
  BY <1>a DEF StartsOnce, Beginning
<1>2. SessionsAreOver'
  BY <1>a DEF SessionsAreOver, Over
<1>3. ClosesRun'
  BY <1>a DEF ClosesRun, SessionsAreOver, Over
<1>4. Accounted'
  BY <1>a DEF Accounted, Kept, Counted
<1>5. ShutsDown'
  BY <1>a DEF ShutsDown, Counted
<1>6. QED
  BY <1>a, <1>1, <1>2, <1>3, <1>4, <1>5 DEF EventLoop, Books

LEMMA CloseReturnedBooks ==
  ASSUME Custody, NEW t \in Tasks, CloseReturned(t)
  PROVE  EventLoop /\ Books'
<1> USE JobKinds DEF TypeOK, Custody
<1>a. /\ Pending' = Pending /\ (\A x : Single(x) => Single(x)')
      /\ UNCHANGED <<started, process, timeouts, busy, held>>
      /\ UNCHANGED <<marked, abandoned>>
      /\ UNCHANGED <<sessions, owners, left, waiting, browser, gathered>>
      /\ at[t] \in {"closing", "leaving"} /\ at' = [at EXCEPT ![t] = "over"]
      /\ started[t] = "ok" /\ process[t] # "live"
      /\ t \in Connects => waiting[t] = None /\ left[t] = {}
  BY Idles DEF CloseReturned, Returned, Settle, ClosesRun, SessionsAreOver, registry, passes, closing, pool, workers, history
<1>1. StartsOnce'
  BY <1>a DEF StartsOnce, Beginning
<1>2. SessionsAreOver'
  BY <1>a DEF SessionsAreOver, Over
<1>3. ClosesRun'
  BY <1>a DEF ClosesRun, SessionsAreOver, Over
<1>4. Accounted'
  BY <1>a DEF Accounted, Kept, Counted
<1>5. ShutsDown'
  BY <1>a DEF ShutsDown, Counted
<1>6. QED
  BY <1>a, <1>1, <1>2, <1>3, <1>4, <1>5 DEF EventLoop, Books

LEMMA CancelStartBooks ==
  ASSUME Custody, NEW t \in Tasks, CancelStart(t)
  PROVE  EventLoop /\ Books'
<1> USE JobKinds DEF TypeOK, Custody
<1>a. /\ Pending' = Pending /\ (\A x : Single(x) => Single(x)')
      /\ UNCHANGED <<started, process, timeouts, busy, held>>
      /\ UNCHANGED <<marked, abandoned>>
      /\ UNCHANGED <<sessions, owners, left, waiting, browser, gathered>>
      /\ at[t] = "starting" /\ at' = [at EXCEPT ![t] = "cancelled"]
  BY Idles DEF CancelStart, registry, passes, closing, pool, workers, history
<1>1. StartsOnce'
  BY <1>a DEF StartsOnce, Beginning
<1>2. SessionsAreOver'
  BY <1>a DEF SessionsAreOver, Over
<1>3. ClosesRun'
  BY <1>a DEF ClosesRun, SessionsAreOver, Over
<1>4. Accounted'
  BY <1>a DEF Accounted, Kept, Counted
<1>5. ShutsDown'
  BY <1>a DEF ShutsDown, Counted
<1>6. QED
  BY <1>a, <1>1, <1>2, <1>3, <1>4, <1>5 DEF EventLoop, Books

LEMMA CancelExpireBooks ==
  ASSUME Custody, NEW c \in Connects, CancelExpire(c)
  PROVE  EventLoop /\ Books'
<1> USE JobKinds DEF TypeOK, Custody
<1> DEFINE job == Close(c, waiting[c])
<1>b. Withdraw(job) /\ busy' = busy
  BY DEF CancelExpire
<1>c. \A w \in Tasks : job = Close(w, w) => Over(w) /\ at[w] = "expiring"
  BY BrowserAssumption DEF SessionsAreOver, CancelExpire, Tasks
<1>a. /\ Pending \ {job} \subseteq Pending' /\ Pending' \subseteq Pending
      /\ \A x : Single(x) => Single(x)'
      /\ UNCHANGED <<started, process, timeouts, busy, held>>
      /\ marked' = marked
      /\ UNCHANGED <<sessions, owners, browser, gathered>>
      /\ at[c] = "expiring" /\ at' = [at EXCEPT ![c] = "over"]
      /\ left' = [left EXCEPT ![c] = {}] /\ waiting' = [waiting EXCEPT ![c] = None]
      /\ c \in Tasks /\ c \notin {SignOut, Delete, Shutdown, Reaper}
  BY <1>b, <1>c, Withdraws, BrowserAssumption DEF CancelExpire, Withdraw, registry, closing, workers, history
<1>1. StartsOnce'
  BY <1>a DEF StartsOnce, Beginning
<1>2. SessionsAreOver'
  BY <1>a DEF SessionsAreOver, Over
<1>3. ClosesRun'
  BY <1>a DEF ClosesRun, SessionsAreOver, Over
<1>4. Accounted'
  <2>1. \A w \in Tasks \ abandoned' : w \notin abandoned /\ (Kept(w) => Kept(w)')
    BY <1>b, TakesBack
  <2>2. QED
    BY <1>a, <2>1 DEF Accounted, Counted
<1>5. ShutsDown'
  BY <1>a DEF ShutsDown, Counted
<1>6. QED
  BY <1>a, <1>1, <1>2, <1>3, <1>4, <1>5 DEF EventLoop, Books

LEMMA CancelLeaveBooks ==
  ASSUME Custody, NEW d \in Discoveries, CancelLeave(d)
  PROVE  EventLoop /\ Books'
<1> USE JobKinds DEF TypeOK, Custody
<1> DEFINE job == Close(d, d)
<1>b. Withdraw(job) /\ busy' = busy
  BY DEF CancelLeave
<1>a. /\ Pending \ {job} \subseteq Pending' /\ Pending' \subseteq Pending
      /\ \A x : Single(x) => Single(x)'
      /\ UNCHANGED <<started, process, timeouts, busy, held>>
      /\ marked' = marked
      /\ UNCHANGED <<sessions, owners, left, waiting, browser, gathered>>
      /\ at[d] = "leaving" /\ at' = [at EXCEPT ![d] = "over"] /\ started[d] = "ok"
      /\ d \in Tasks /\ d \notin Connects /\ d \notin {SignOut, Delete, Shutdown, Reaper}
  BY <1>b, Withdraws, BrowserAssumption DEF CancelLeave, Withdraw, ClosesRun, registry, passes, closing, workers, Tasks
<1>1. StartsOnce'
  BY <1>a DEF StartsOnce, Beginning
<1>2. SessionsAreOver'
  BY <1>a DEF SessionsAreOver, Over
<1>3. ClosesRun'
  BY <1>a DEF ClosesRun, SessionsAreOver, Over
<1>4. Accounted'
  <2>1. \A w \in Tasks \ abandoned' : w \notin abandoned /\ (Kept(w) => Kept(w)')
    BY <1>b, TakesBack
  <2>2. QED
    BY <1>a, <2>1 DEF Accounted, Counted
<1>5. ShutsDown'
  BY <1>a DEF ShutsDown, Counted
<1>6. QED
  BY <1>a, <1>1, <1>2, <1>3, <1>4, <1>5 DEF EventLoop, Books

LEMMA ExpirePopBooks ==
  ASSUME Custody, NEW e \in Passes, ExpirePop(e)
  PROVE  EventLoop /\ Books'
<1> USE JobKinds DEF TypeOK, Custody
<1>a. /\ Pending' = Pending /\ (\A x : Single(x) => Single(x)')
      /\ UNCHANGED <<started, process, timeouts, busy, held>>
      /\ UNCHANGED <<marked, abandoned>>
      /\ UNCHANGED <<at, browser, gathered>>
      /\ owners' = owners
      /\ waiting[e] \in Connects /\ waiting[e] # None /\ sessions' = sessions \ {waiting[e]}
      /\ process[waiting[e]] # "live"
      /\ left' = [left EXCEPT ![e] = @ \ {waiting[e]}] /\ waiting' = [waiting EXCEPT ![e] = None]
  BY Idles DEF ExpirePop, Returned, ClosesRun, coroutines, closing, pool, workers, history
<1>1. StartsOnce'
  BY <1>a DEF StartsOnce, Beginning
<1>2. SessionsAreOver'
  BY <1>a DEF SessionsAreOver, Over
<1>3. ClosesRun'
  BY <1>a DEF ClosesRun, SessionsAreOver, Over
<1>4. Accounted'
  BY <1>a DEF Accounted, Kept, Counted
<1>5. ShutsDown'
  BY <1>a DEF ShutsDown, Counted
<1>6. QED
  BY <1>a, <1>1, <1>2, <1>3, <1>4, <1>5 DEF EventLoop, Books

LEMMA ExpireSkipBooks ==
  ASSUME Custody, NEW e \in Passes, NEW c \in Connects, ExpireSkip(e, c)
  PROVE  EventLoop /\ Books'
<1> USE JobKinds DEF TypeOK, Custody
<1>a. /\ Pending' = Pending /\ (\A x : Single(x) => Single(x)')
      /\ UNCHANGED <<started, process, timeouts, busy, held>>
      /\ UNCHANGED <<marked, abandoned>>
      /\ UNCHANGED <<at, browser, gathered>>
      /\ UNCHANGED <<sessions, owners, waiting>>
      /\ c \in left[e] /\ left' = [left EXCEPT ![e] = @ \ {c}]
  BY Idles DEF ExpireSkip, registry, coroutines, closing, pool, workers, history
<1>1. StartsOnce'
  BY <1>a DEF StartsOnce, Beginning
<1>2. SessionsAreOver'
  BY <1>a DEF SessionsAreOver, Over
<1>3. ClosesRun'
  BY <1>a DEF ClosesRun, SessionsAreOver, Over
<1>4. Accounted'
  BY <1>a DEF Accounted, Kept, Counted
<1>5. ShutsDown'
  BY <1>a DEF ShutsDown, Counted
<1>6. QED
  BY <1>a, <1>1, <1>2, <1>3, <1>4, <1>5 DEF EventLoop, Books

LEMMA ExpireCloseBooks ==
  ASSUME Custody, NEW e \in Passes, NEW c \in Connects, ExpireClose(e, c)
  PROVE  EventLoop /\ Books'
<1> USE JobKinds DEF TypeOK, Custody
<1>b. Submit(Close(e, c)) /\ busy' = busy /\ Close(e, c) \in Jobs
  BY DEF ExpireClose
<1>a. /\ Pending' = Pending \cup {Close(e, c)}
      /\ \A x : Single(x) /\ x # Close(e, c) => Single(x)'
      /\ UNCHANGED <<started, process, timeouts, busy, held>>
      /\ marked' = marked \cup {c} /\ abandoned' = abandoned
      /\ UNCHANGED <<at, browser, gathered>>
      /\ UNCHANGED <<sessions, owners, left>>
      /\ c \in left[e] /\ waiting[e] = None /\ waiting' = [waiting EXCEPT ![e] = c]
  BY <1>b, Submits, BrowserAssumption DEF ExpireClose, coroutines, closing, workers, history
<1>1. StartsOnce'
  BY <1>a DEF StartsOnce, Beginning
<1>2. SessionsAreOver'
  BY <1>a DEF SessionsAreOver, Over
<1>3. ClosesRun'
  BY <1>a DEF ClosesRun, SessionsAreOver, Over
<1>4. Accounted'
  BY <1>a DEF Accounted, Kept, Counted
<1>5. ShutsDown'
  BY <1>a DEF ShutsDown, Counted
<1>6. QED
  BY <1>a, <1>1, <1>2, <1>3, <1>4, <1>5 DEF EventLoop, Books

LEMMA ExpireMarkedBooks ==
  ASSUME Custody, NEW e \in Passes, NEW c \in Connects, ExpireMarked(e, c)
  PROVE  EventLoop /\ Books'
<1> USE JobKinds DEF TypeOK, Custody
<1>a. /\ Pending' = Pending /\ (\A x : Single(x) => Single(x)')
      /\ UNCHANGED <<started, process, timeouts, busy, held>>
      /\ UNCHANGED <<marked, abandoned>>
      /\ UNCHANGED <<at, browser, gathered>>
      /\ UNCHANGED <<owners, waiting>>
      /\ c \in marked /\ sessions' = sessions \ {c}
      /\ c \in left[e] /\ left' = [left EXCEPT ![e] = @ \ {c}]
  BY Idles DEF ExpireMarked, coroutines, closing, pool, workers, history
<1>1. StartsOnce'
  BY <1>a DEF StartsOnce, Beginning
<1>2. SessionsAreOver'
  BY <1>a DEF SessionsAreOver, Over
<1>3. ClosesRun'
  BY <1>a DEF ClosesRun, SessionsAreOver, Over
<1>4. Accounted'
  BY <1>a DEF Accounted, Kept, Counted
<1>5. ShutsDown'
  BY <1>a DEF ShutsDown, Counted
<1>6. QED
  BY <1>a, <1>1, <1>2, <1>3, <1>4, <1>5 DEF EventLoop, Books

LEMMA ReapBooks ==
  ASSUME Custody, Reap
  PROVE  EventLoop /\ Books'
<1> USE JobKinds DEF TypeOK, Custody
<1>a. /\ Pending' = Pending /\ (\A x : Single(x) => Single(x)')
      /\ UNCHANGED <<started, process, timeouts, busy, held>>
      /\ UNCHANGED <<marked, abandoned>>
      /\ UNCHANGED <<at, browser, gathered>>
      /\ UNCHANGED <<sessions, waiting>>
      /\ left' = left \/ left' = [left EXCEPT ![Reaper] = sessions]
      /\ owners' \subseteq owners
      /\ Reaper \notin Connects
  BY Idles, BrowserAssumption DEF Reap, ReapBegin, ReapEnd, registry, coroutines, closing, pool, workers, Tasks, history
<1>1. StartsOnce'
  BY <1>a DEF StartsOnce, Beginning
<1>2. SessionsAreOver'
  <2>1. \A e \in Passes \cup {SignOut} : left'[e] = left[e] \/ left'[e] = sessions
    BY <1>a
  <2>2. \A c \in Connects : left'[c] = left[c]
    BY <1>a
  <2>3. QED
    BY <1>a, <2>1, <2>2 DEF SessionsAreOver, Over
<1>3. ClosesRun'
  BY <1>a DEF ClosesRun, SessionsAreOver, Over
<1>4. Accounted'
  BY <1>a DEF Accounted, Kept, Counted
<1>5. ShutsDown'
  BY <1>a DEF ShutsDown, Counted
<1>6. QED
  BY <1>a, <1>1, <1>2, <1>3, <1>4, <1>5 DEF EventLoop, Books

LEMMA DeleteBeginBooks ==
  ASSUME Custody, NEW c \in Connects, DeleteBegin(c)
  PROVE  EventLoop /\ Books'
<1> USE JobKinds DEF TypeOK, Custody
<1>b. Submit(Close(Delete, c)) /\ busy' = busy /\ Close(Delete, c) \in Jobs
  BY DEF DeleteBegin
<1>a. /\ Pending' = Pending \cup {Close(Delete, c)}
      /\ \A x : Single(x) /\ x # Close(Delete, c) => Single(x)'
      /\ UNCHANGED <<started, process, timeouts, busy, held>>
      /\ marked' = marked \cup {c} /\ abandoned' = abandoned
      /\ UNCHANGED <<at, browser, gathered>>
      /\ UNCHANGED <<sessions, owners, left>>
      /\ c \in sessions /\ waiting' = [waiting EXCEPT ![Delete] = c]
      /\ Delete \notin Connects
  BY <1>b, Submits, BrowserAssumption DEF DeleteBegin, coroutines, closing, workers, Tasks, history
<1>1. StartsOnce'
  BY <1>a DEF StartsOnce, Beginning
<1>2. SessionsAreOver'
  BY <1>a DEF SessionsAreOver, Over
<1>3. ClosesRun'
  BY <1>a DEF ClosesRun, SessionsAreOver, Over
<1>4. Accounted'
  BY <1>a DEF Accounted, Kept, Counted
<1>5. ShutsDown'
  BY <1>a DEF ShutsDown, Counted
<1>6. QED
  BY <1>a, <1>1, <1>2, <1>3, <1>4, <1>5 DEF EventLoop, Books

LEMMA DeleteEndBooks ==
  ASSUME Custody, NEW c \in Connects, DeleteEnd(c)
  PROVE  EventLoop /\ Books'
<1> USE JobKinds DEF TypeOK, Custody
<1>a. /\ Pending' = Pending /\ (\A x : Single(x) => Single(x)')
      /\ UNCHANGED <<started, process, timeouts, busy, held>>
      /\ UNCHANGED <<marked, abandoned>>
      /\ UNCHANGED <<at, browser, gathered>>
      /\ sessions' = sessions \ {c} /\ owners' = owners \ {c} /\ left' = left
      /\ process[c] # "live"
      /\ waiting' = [waiting EXCEPT ![Delete] = None]
      /\ Delete \notin Connects
  BY Idles, BrowserAssumption DEF DeleteEnd, Returned, ClosesRun, coroutines, closing, pool, workers, Tasks, history
<1>1. StartsOnce'
  BY <1>a DEF StartsOnce, Beginning
<1>2. SessionsAreOver'
  BY <1>a DEF SessionsAreOver, Over
<1>3. ClosesRun'
  BY <1>a DEF ClosesRun, SessionsAreOver, Over
<1>4. Accounted'
  BY <1>a DEF Accounted, Kept, Counted
<1>5. ShutsDown'
  BY <1>a DEF ShutsDown, Counted
<1>6. QED
  BY <1>a, <1>1, <1>2, <1>3, <1>4, <1>5 DEF EventLoop, Books

LEMMA SignOutBeginBooks ==
  ASSUME Custody, SignOutBegin
  PROVE  EventLoop /\ Books'
<1> USE JobKinds DEF TypeOK, Custody
<1>a. /\ Pending' = Pending /\ (\A x : Single(x) => Single(x)')
      /\ UNCHANGED <<started, process, timeouts, busy, held>>
      /\ UNCHANGED <<marked, abandoned>>
      /\ UNCHANGED <<at, browser, gathered>>
      /\ UNCHANGED <<sessions, owners, waiting>>
      /\ left' = [left EXCEPT ![SignOut] = owners]
      /\ SignOut \notin Connects
  BY Idles, BrowserAssumption DEF SignOutBegin, registry, coroutines, closing, pool, workers, Tasks, history
<1>1. StartsOnce'
  BY <1>a DEF StartsOnce, Beginning
<1>2. SessionsAreOver'
  BY <1>a DEF SessionsAreOver, Over
<1>3. ClosesRun'
  BY <1>a DEF ClosesRun, SessionsAreOver, Over
<1>4. Accounted'
  BY <1>a DEF Accounted, Kept, Counted
<1>5. ShutsDown'
  BY <1>a DEF ShutsDown, Counted
<1>6. QED
  BY <1>a, <1>1, <1>2, <1>3, <1>4, <1>5 DEF EventLoop, Books

LEMMA SignOutNextBooks ==
  ASSUME Custody, NEW c \in sessions \ marked, SignOutNext(c)
  PROVE  EventLoop /\ Books'
<1> USE JobKinds DEF TypeOK, Custody
<1>b. Submit(Close(SignOut, c)) /\ busy' = busy /\ Close(SignOut, c) \in Jobs
  BY DEF SignOutNext
<1>a. /\ Pending' = Pending \cup {Close(SignOut, c)}
      /\ \A x : Single(x) /\ x # Close(SignOut, c) => Single(x)'
      /\ UNCHANGED <<started, process, timeouts, busy, held>>
      /\ marked' = marked \cup {c} /\ abandoned' = abandoned
      /\ UNCHANGED <<at, browser, gathered>>
      /\ sessions' = sessions \ {c} /\ owners' = owners
      /\ waiting' = [waiting EXCEPT ![SignOut] = c] /\ left' = [left EXCEPT ![SignOut] = @ \ {c}]
      /\ SignOut \notin Connects
  BY <1>b, Submits, BrowserAssumption DEF SignOutNext, coroutines, closing, workers, Tasks, history
<1>1. StartsOnce'
  BY <1>a DEF StartsOnce, Beginning
<1>2. SessionsAreOver'
  BY <1>a DEF SessionsAreOver, Over
<1>3. ClosesRun'
  BY <1>a DEF ClosesRun, SessionsAreOver, Over
<1>4. Accounted'
  BY <1>a DEF Accounted, Kept, Counted
<1>5. ShutsDown'
  BY <1>a DEF ShutsDown, Counted
<1>6. QED
  BY <1>a, <1>1, <1>2, <1>3, <1>4, <1>5 DEF EventLoop, Books

LEMMA SignOutSkipBooks ==
  ASSUME Custody, NEW c \in Connects, c \notin sessions \ marked, SignOutNext(c)
  PROVE  EventLoop /\ Books'
<1> USE JobKinds DEF TypeOK, Custody
<1>a. /\ Pending' = Pending /\ (\A x : Single(x) => Single(x)')
      /\ UNCHANGED <<started, process, timeouts, busy, held>>
      /\ UNCHANGED <<marked, abandoned>>
      /\ UNCHANGED <<at, browser, gathered>>
      /\ sessions' = sessions \ {c} /\ owners' = owners \ {c} /\ waiting' = waiting
      /\ left' = [left EXCEPT ![SignOut] = @ \ {c}]
      /\ SignOut \notin Connects
  BY Idles, BrowserAssumption DEF SignOutNext, coroutines, closing, pool, workers, Tasks, history
<1>1. StartsOnce'
  BY <1>a DEF StartsOnce, Beginning
<1>2. SessionsAreOver'
  BY <1>a DEF SessionsAreOver, Over
<1>3. ClosesRun'
  BY <1>a DEF ClosesRun, SessionsAreOver, Over
<1>4. Accounted'
  BY <1>a DEF Accounted, Kept, Counted
<1>5. ShutsDown'
  BY <1>a DEF ShutsDown, Counted
<1>6. QED
  BY <1>a, <1>1, <1>2, <1>3, <1>4, <1>5 DEF EventLoop, Books

LEMMA SignOutEndBooks ==
  ASSUME Custody, NEW c \in Connects, SignOutEnd(c)
  PROVE  EventLoop /\ Books'
<1> USE JobKinds DEF TypeOK, Custody
<1>a. /\ Pending' = Pending /\ (\A x : Single(x) => Single(x)')
      /\ UNCHANGED <<started, process, timeouts, busy, held>>
      /\ UNCHANGED <<marked, abandoned>>
      /\ UNCHANGED <<at, browser, gathered>>
      /\ sessions' = sessions /\ owners' = owners \ {c} /\ left' = left
      /\ waiting' = [waiting EXCEPT ![SignOut] = None]
      /\ SignOut \notin Connects
  BY Idles, BrowserAssumption DEF SignOutEnd, coroutines, closing, pool, workers, Tasks, history
<1>1. StartsOnce'
  BY <1>a DEF StartsOnce, Beginning
<1>2. SessionsAreOver'
  BY <1>a DEF SessionsAreOver, Over
<1>3. ClosesRun'
  BY <1>a DEF ClosesRun, SessionsAreOver, Over
<1>4. Accounted'
  BY <1>a DEF Accounted, Kept, Counted
<1>5. ShutsDown'
  BY <1>a DEF ShutsDown, Counted
<1>6. QED
  BY <1>a, <1>1, <1>2, <1>3, <1>4, <1>5 DEF EventLoop, Books

LEMMA CancelRouteBooks ==
  ASSUME Custody, NEW e \in {SignOut, Delete}, CancelRoute(e)
  PROVE  EventLoop /\ Books'
<1> USE JobKinds DEF TypeOK, Custody
<1> DEFINE job == Close(e, waiting[e])
<1>b. Withdraw(job) /\ busy' = busy
  BY DEF CancelRoute
<1>a. /\ Pending \ {job} \subseteq Pending' /\ Pending' \subseteq Pending
      /\ \A x : Single(x) => Single(x)'
      /\ UNCHANGED <<started, process, timeouts, busy, held>>
      /\ marked' = marked
      /\ UNCHANGED <<at, sessions, owners, browser, gathered>>
      /\ left' = [left EXCEPT ![SignOut] = IF e = SignOut THEN {} ELSE @]
      /\ waiting' = [waiting EXCEPT ![e] = None]
      /\ e \notin Tasks \cup {Shutdown}
      /\ SignOut \notin Connects
  BY <1>b, Withdraws, BrowserAssumption DEF CancelRoute, Withdraw, registry, coroutines, closing, workers, SignOut, Delete, Shutdown, Tasks
<1>1. StartsOnce'
  BY <1>a DEF StartsOnce, Beginning
<1>2. SessionsAreOver'
  BY <1>a DEF SessionsAreOver, Over
<1>3. ClosesRun'
  BY <1>a DEF ClosesRun, SessionsAreOver, Over
<1>4. Accounted'
  <2>1. \A w \in Tasks \ abandoned' : w \notin abandoned /\ (Kept(w) => Kept(w)')
    BY <1>b, TakesBack
  <2>2. QED
    BY <1>a, <2>1 DEF Accounted, Counted
<1>5. ShutsDown'
  BY <1>a DEF ShutsDown, Counted
<1>6. QED
  BY <1>a, <1>1, <1>2, <1>3, <1>4, <1>5 DEF EventLoop, Books

LEMMA CallBooks ==
  ASSUME Custody, NEW r \in Requests, NEW c \in Connects, Call(r, c)
  PROVE  EventLoop /\ Books'
<1> USE JobKinds DEF TypeOK, Custody
<1>b. Submit(<<r, "call", c>>) /\ busy' = busy /\ <<r, "call", c>> \in Jobs
  BY DEF Call
<1>a. /\ Pending' = Pending \cup {<<r, "call", c>>}
      /\ \A x : Single(x) /\ x # <<r, "call", c>> => Single(x)'
      /\ UNCHANGED <<started, process, timeouts, busy, held>>
      /\ UNCHANGED <<marked, abandoned>>
      /\ UNCHANGED <<at, browser, gathered>>
      /\ UNCHANGED <<sessions, owners, left, waiting>>
  BY <1>b, Submits, BrowserAssumption DEF Call, registry, coroutines, passes, closing, workers, history
<1>1. StartsOnce'
  BY <1>a DEF StartsOnce, Beginning
<1>2. SessionsAreOver'
  BY <1>a DEF SessionsAreOver, Over
<1>3. ClosesRun'
  BY <1>a DEF ClosesRun, SessionsAreOver, Over
<1>4. Accounted'
  BY <1>a DEF Accounted, Kept, Counted
<1>5. ShutsDown'
  BY <1>a DEF ShutsDown, Counted
<1>6. QED
  BY <1>a, <1>1, <1>2, <1>3, <1>4, <1>5 DEF EventLoop, Books

LEMMA ShutdownBeginBooks ==
  ASSUME Accounts, Custody, ShutdownBegin
  PROVE  EventLoop /\ Books'
<1> USE JobKinds DEF TypeOK, Custody
<1> DEFINE job == Close(Reaper, waiting[Reaper])
<1>b. Withdraw(job) /\ busy' = busy
  BY DEF ShutdownBegin
<1>c. Reaper \notin Tasks
  BY BrowserAssumption
<1>d. timeouts' = timeouts
  BY <1>b DEF Withdraw
<1>a. /\ Pending \ {job} \subseteq Pending' /\ Pending' \subseteq Pending
      /\ \A x : Single(x) => Single(x)'
      /\ UNCHANGED <<started, process, timeouts, busy, held>>
      /\ marked' = marked
      /\ UNCHANGED <<at, sessions, owners>>
      /\ browser' = "gathering" /\ gathered' = Counted
      /\ left' = [left EXCEPT ![Reaper] = {}] /\ waiting' = [waiting EXCEPT ![Reaper] = None]
      /\ Reaper \notin Tasks \cup {SignOut, Delete, Shutdown}
  BY <1>b, <1>c, <1>d, Withdraws DEF ShutdownBegin, Accounts, PendingCounts, registry, coroutines, workers, Reaper, SignOut, Delete, Shutdown, history
<1>1. StartsOnce'
  BY <1>a DEF StartsOnce, Beginning
<1>2. SessionsAreOver'
  BY <1>a DEF SessionsAreOver, Over
<1>3. ClosesRun'
  BY <1>a DEF ClosesRun, SessionsAreOver, Over
<1>4. Accounted'
  <2>1. \A w \in Tasks \ abandoned' : w \notin abandoned /\ (Kept(w) => Kept(w)')
    BY <1>b, TakesBack
  <2>2. QED
    BY <1>a, <2>1 DEF Accounted, Counted
<1>5. ShutsDown'
  BY <1>a DEF ShutsDown, Counted
<1>6. QED
  BY <1>a, <1>1, <1>2, <1>3, <1>4, <1>5 DEF EventLoop, Books

LEMMA ShutdownStartBooks ==
  ASSUME Accounts, Custody, NEW t \in Tasks, ShutdownStart(t)
  PROVE  EventLoop /\ Books'
<1> USE JobKinds DEF TypeOK, Custody
<1>b. \/ queue' = queue /\ started[t] # "ok"
      \/ Submit(Close(Shutdown, t)) /\ Close(Shutdown, t) \in Jobs
  BY DEF ShutdownStart
<1>c. busy' = busy
  BY DEF ShutdownStart
<1>d. /\ Pending \subseteq Pending' /\ Pending' \subseteq Pending \cup {Close(Shutdown, t)}
      /\ started[t] = "ok" => Close(Shutdown, t) \in Pending'
      /\ \A x : Single(x) /\ x # Close(Shutdown, t) => Single(x)'
  <2>1. CASE queue' = queue /\ started[t] # "ok"
    BY <1>c, <2>1, Idles
  <2>2. CASE Submit(Close(Shutdown, t)) /\ Close(Shutdown, t) \in Jobs
    BY <1>c, <2>2, Submits
  <2>3. QED
    BY <1>b, <2>1, <2>2
<1>a. /\ Pending \subseteq Pending' /\ Pending' \subseteq Pending \cup {Close(Shutdown, t)}
      /\ process[t] = "live" => Close(Shutdown, t) \in Pending'
      /\ \A x : Single(x) /\ x # Close(Shutdown, t) => Single(x)'
      /\ UNCHANGED <<started, process, timeouts, busy, held>>
      /\ UNCHANGED <<marked, abandoned>>
      /\ UNCHANGED <<at, sessions, owners, left, waiting>>
      /\ browser = "gathering" /\ browser' = "gathering" /\ gathered' = gathered \ {t}
      /\ \A s \in gathered : started[s] # "none"
      /\ t \in gathered
  BY <1>c, <1>d DEF ShutdownStart, LivesOnce, registry, coroutines, passes, workers, history
<1>1. StartsOnce'
  BY <1>a DEF StartsOnce, Beginning
<1>2. SessionsAreOver'
  BY <1>a DEF SessionsAreOver, Over
<1>3. ClosesRun'
  BY <1>a DEF ClosesRun, SessionsAreOver, Over
<1>4. Accounted'
  BY <1>a DEF Accounted, Kept, Counted
<1>5. ShutsDown'
  BY <1>a DEF ShutsDown, Counted
<1>6. QED
  BY <1>a, <1>1, <1>2, <1>3, <1>4, <1>5 DEF EventLoop, Books

LEMMA ShutdownSessionsBooks ==
  ASSUME Accounts, Custody, ShutdownSessions
  PROVE  EventLoop /\ Books'
<1> USE JobKinds DEF TypeOK, Custody
<1>a. /\ Pending' = Pending \cup {Close(Shutdown, c) : c \in sessions \ marked}
      /\ \A x : Single(x) /\ x \notin CloseJobs => Single(x)'
      /\ UNCHANGED <<started, process, timeouts, busy, held>>
      /\ marked' = marked \cup sessions /\ abandoned' = abandoned
      /\ UNCHANGED <<at, sessions, owners, left, waiting>>
      /\ browser = "gathering" /\ gathered = {} /\ browser' = "closing" /\ gathered' = {}
  BY ShutdownJobs DEF ShutdownSessions, coroutines, passes, workers, history
<1>1. StartsOnce'
  BY <1>a DEF StartsOnce, Beginning
<1>2. SessionsAreOver'
  BY <1>a DEF SessionsAreOver, Over
<1>3. ClosesRun'
  BY <1>a DEF ClosesRun, SessionsAreOver, Over
<1>4. Accounted'
  <2>1. \A w \in sessions \ marked : Kept(w)'
    BY <1>a DEF Kept
  <2>2. \A w \in Tasks : Kept(w) => Kept(w)'
    BY <1>a DEF Kept
  <2>3. QED
    BY <1>a, <2>1, <2>2 DEF Accounted, Counted
<1>5. ShutsDown'
  BY <1>a DEF ShutsDown, Counted
<1>6. QED
  BY <1>a, <1>1, <1>2, <1>3, <1>4, <1>5 DEF EventLoop, Books

LEMMA ShutdownEndBooks ==
  ASSUME Custody, ShutdownEnd
  PROVE  EventLoop /\ Books'
<1> USE JobKinds DEF TypeOK, Custody
<1>a. /\ Pending' = Pending /\ (\A x : Single(x) => Single(x)')
      /\ UNCHANGED <<started, process, timeouts, busy, held>>
      /\ UNCHANGED <<marked, abandoned>>
      /\ UNCHANGED <<at, owners, left, waiting, gathered>>
      /\ browser = "closing" /\ browser' = "closed" /\ sessions' = {}
      /\ \A w \in Tasks : Close(Shutdown, w) \notin Pending
  BY Idles DEF ShutdownEnd, Quiet, Returned, coroutines, passes, pool, workers, history
<1>1. StartsOnce'
  BY <1>a DEF StartsOnce, Beginning
<1>2. SessionsAreOver'
  BY <1>a DEF SessionsAreOver, Over
<1>3. ClosesRun'
  BY <1>a DEF ClosesRun, SessionsAreOver, Over
<1>4. Accounted'
  <2>1. sessions \ marked = {}
    BY <1>a DEF ShutsDown
  <2>2. QED
    BY <1>a, <2>1 DEF Accounted, Kept, Counted
<1>5. ShutsDown'
  BY <1>a DEF ShutsDown, Counted
<1>6. QED
  BY <1>a, <1>1, <1>2, <1>3, <1>4, <1>5 DEF EventLoop, Books

LEMMA StutterBooks ==
  ASSUME Custody, UNCHANGED vars
  PROVE  EventLoop /\ Books'
<1> USE JobKinds DEF TypeOK, Custody
<1>a. /\ Pending' = Pending /\ (\A x : Single(x) => Single(x)')
      /\ UNCHANGED <<started, process, timeouts, busy, held>>
      /\ UNCHANGED <<marked, abandoned>>
      /\ UNCHANGED <<sessions, owners, left, waiting, browser, gathered>>
      /\ UNCHANGED at
  BY Idles DEF vars, registry, coroutines, passes, closing, pool, workers, history
<1>1. StartsOnce'
  BY <1>a DEF StartsOnce, Beginning
<1>2. SessionsAreOver'
  BY <1>a DEF SessionsAreOver, Over
<1>3. ClosesRun'
  BY <1>a DEF ClosesRun, SessionsAreOver, Over
<1>4. Accounted'
  BY <1>a DEF Accounted, Kept, Counted
<1>5. ShutsDown'
  BY <1>a DEF ShutsDown, Counted
<1>6. QED
  BY <1>a, <1>1, <1>2, <1>3, <1>4, <1>5 DEF EventLoop, Books

-----------------------------------------------------------------------------
(* At the start nothing lives and nothing is queued. *)
THEOREM CustodyInit == Init => Custody
<1> SUFFICES ASSUME Init PROVE Custody
  OBVIOUS
<1>1. TypeOK
  BY SessionTypeInit
<1>2. /\ Pending = {} /\ held = {} /\ Counted = {} /\ sessions = {} /\ owners = {} /\ browser = "open"
      /\ abandoned = {} /\ marked = {}
      /\ \A t \in Tasks : at[t] = "idle" /\ started[t] = "none" /\ process[t] = "none"
      /\ \A c \in Connects : timeouts[c] = 0
      /\ \A e \in Passes \cup {SignOut} : left[e] = {}
      /\ \A e \in Awaiters : waiting[e] = None
  BY DEF Init, Pending, Queued, Counted
<1>3. CallsHold /\ StartsOnce /\ LivesOnce /\ SessionsAreOver /\ ClosesRun /\ Accounted /\ ShutsDown
  BY <1>2, JobKinds DEF CallsHold, StartsOnce, LivesOnce, SessionsAreOver, ClosesRun, Accounted, ShutsDown
<1>4. QED
  BY <1>1, <1>3 DEF Custody

(* Every step keeps the custody of every worker: a thread ends workers and the jobs it
   has done, the event loop hands a worker on before it lets go of it. *)
THEOREM CustodyStep == Accounts /\ Custody /\ [Next]_vars => Custody'
<1> SUFFICES ASSUME Accounts, Custody, [Next]_vars PROVE Custody'
  OBVIOUS
<1>a. TypeOK' /\ CallsHold'
  BY SessionTypeStep, CallsHoldStep DEF Custody
<1>b. ASSUME EventLoop /\ Books' PROVE Custody'
  BY <1>a, <1>b, BooksKeep
<1>c. TypeOK /\ StartsOnce /\ SessionsAreOver /\ Connects \subseteq Tasks /\ Discoveries \subseteq Tasks
  BY JobKinds DEF Custody, Tasks
<1>1. ASSUME NEW c \in Connects, ConnectBegin(c) \/ Connecting(c) \/ CancelExpire(c) PROVE Custody'
  <2>1. CASE ConnectStart(c)
    <3>1. at[c] \in {"idle", "expiring"} /\ StartWorker(c) /\ waiting[c] = None /\ left[c] = {}
      BY <2>1 DEF ConnectStart, Expired
    <3>2. QED
      BY <1>b, <1>c, <3>1, StartWorkerBooks
  <2>2. CASE ConnectBegin(c) \/ ConnectRefuse(c) \/ Connected(c) \/ CancelExpire(c)
    BY <1>b, <1>c, <2>2, ConnectBeginBooks, OverBooks, ConnectedBooks, CancelExpireBooks
  <2>3. QED
    BY <1>1, <2>1, <2>2 DEF Connecting
<1>2. ASSUME NEW d \in Discoveries, Discovering(d) \/ CancelLeave(d) PROVE Custody'
  <2>1. CASE DiscoverStart(d)
    <3>1. d \in Tasks /\ d \notin Connects /\ at[d] \in {"idle", "expiring"} /\ StartWorker(d)
      BY <1>c, <2>1, BrowserAssumption DEF DiscoverStart
    <3>2. QED
      BY <1>b, <3>1, StartWorkerBooks
  <2>2. CASE DiscoverRefuse(d) \/ Discovered(d) \/ CancelLeave(d)
    BY <1>b, <1>c, <2>2, OverBooks, DiscoveredBooks, CancelLeaveBooks
  <2>3. QED
    BY <1>2, <2>1, <2>2 DEF Discovering
<1>3. ASSUME NEW t \in Tasks, Starting(t) \/ CancelStart(t) PROVE Custody'
  BY <1>b, <1>3, StartFailedBooks, StartRefusedBooks, CloseReturnedBooks, CancelStartBooks DEF Starting
<1>4. ASSUME NEW e \in Passes, Expire(e) PROVE Custody'
  BY <1>b, <1>4, ExpirePopBooks, ExpireSkipBooks, ExpireCloseBooks, ExpireMarkedBooks DEF Expire
<1>5. CASE Reap
  BY <1>b, <1>5, ReapBooks
<1>6. ASSUME NEW c \in Connects, DeleteBegin(c) \/ DeleteEnd(c) \/ SigningOut(c) PROVE Custody'
  BY <1>b, <1>6, DeleteBeginBooks, DeleteEndBooks, SignOutNextBooks, SignOutSkipBooks, SignOutEndBooks DEF SigningOut
<1>7. ASSUME NEW r \in Requests, NEW c \in Connects, Call(r, c) PROVE Custody'
  BY <1>b, <1>7, CallBooks
<1>8. ASSUME SignOutBegin \/ CancelRoute(SignOut) \/ CancelRoute(Delete) PROVE Custody'
  BY <1>b, <1>8, SignOutBeginBooks, CancelRouteBooks
<1>9. CASE ShutdownBegin \/ ShuttingDown
  BY <1>b, <1>9, ShutdownBeginBooks, ShutdownStartBooks, ShutdownSessionsBooks, ShutdownEndBooks DEF ShuttingDown
<1>10. CASE Threads
  BY <1>a, <1>10, ThreadsDo, ThreadsKeep DEF Custody
<1>11. CASE UNCHANGED vars
  BY <1>b, <1>11, StutterBooks
<1>12. QED
  BY <1>1, <1>2, <1>3, <1>4, <1>5, <1>6, <1>7, <1>8, <1>9, <1>10, <1>11 DEF Next, Threads

THEOREM CustodyCorrect == Spec => []Custody
BY AccountsInit, AccountsStep, CustodyInit, CustodyStep, PTL DEF Spec

(* No live worker is forgotten: its session is in the table and not marked, it is counted
   as under way, or a job that closes it is queued or on a thread, unless its close was
   taken back from the queue (sessions.py 427-430, 475-489, 541-547; http.py 209-220). *)
THEOREM OrphanCorrect == Spec => []NoOrphan
<1>1. Custody => NoOrphan
  <2> SUFFICES ASSUME Custody, NEW w \in Tasks \ abandoned, process[w] = "live",
                      w \notin (sessions \ marked) \cup Counted
               PROVE  BeingClosed(w)
    BY DEF NoOrphan
  <2>1. PICK a \in Closers : Close(a, w) \in Pending
    BY DEF Custody, Accounted, Kept
  <2>2. QED
    BY <2>1, JobKinds DEF BeingClosed
<1>2. QED
  BY <1>1, CustodyCorrect, PTL

(* After Browser.close no start is awaited without its result, and what still lives is
   being closed, or its close was taken back before (sessions.py 549-556). *)
THEOREM QuietCorrect == Spec => []ClosedIsQuiet
<1>1. Custody => ClosedIsQuiet
  <2> SUFFICES ASSUME Custody, browser = "closed" PROVE ClosedIsQuiet
    BY DEF ClosedIsQuiet
  <2>1. sessions = {} /\ gathered = {} /\ \A t \in Counted : started[t] # "none"
    BY DEF Custody, ShutsDown
  <2>2. \A t \in Tasks : at[t] = "starting" => started[t] # "none"
    BY <2>1 DEF Counted
  <2>3. ASSUME NEW w \in Tasks \ abandoned, process[w] = "live" PROVE BeingClosed(w)
    <3>1. PICK a \in Closers : Close(a, w) \in Pending
      BY <2>1, <2>3, JobKinds DEF Custody, Accounted, Kept, ShutsDown
    <3>2. QED
      BY <3>1, JobKinds DEF BeingClosed
  <2>4. QED
    BY <2>2, <2>3 DEF ClosedIsQuiet
<1>2. QED
  BY <1>1, CustodyCorrect, PTL

(* However many calls wait for a worker, one of them at most waits out its deadline: the
   worker it closes does not live again (sessions.py 178-198). *)
THEOREM TimeoutCorrect == Spec => []TimesOutOnce
<1>1. Custody => TimesOutOnce
  BY DEF Custody, LivesOnce, TimesOutOnce
<1>2. QED
  BY <1>1, CustodyCorrect, PTL
=============================================================================
