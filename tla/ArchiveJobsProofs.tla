-------------------------- MODULE ArchiveJobsProofs --------------------------
(***************************************************************************)
(* Theorems about ArchiveJobs for every value of its constants.            *)
(***************************************************************************)
EXTENDS ArchiveJobs, FiniteSetTheorems, WellFoundedInduction, TLAPS

(* What SplitWriter appends to a part is never negative, so part sizes only grow. *)
LEMMA PartSizeGrows ==
  ASSUME NEW j \in Jobs, NEW n \in Nat, NEW m \in Nat, NEW i \in Parts(j)
  PROVE  /\ PartSize(j, n, i) \in Nat
         /\ PartSize(j, n + m, i) - PartSize(j, n, i) \in Nat
<1>1. PartLimit[j] \in Nat
  BY ArchiveAssumption
<1>2. i \in Int
  BY DEF Parts
<1>3. CASE PartLimit[j] = 0
  BY <1>3 DEF PartSize
<1>4. CASE PartLimit[j] # 0
  <2> DEFINE p == (i - 1) * PartLimit[j]
  <2>1. p \in Int
    BY <1>1, <1>2
  <2>2. \A k : PartSize(j, k, i) = Clip(k - p, 0, PartLimit[j])
    BY <1>4 DEF PartSize
  <2> HIDE DEF p
  <2>3. QED
    BY <1>1, <2>1, <2>2 DEF Clip
<1>5. QED
  BY <1>3, <1>4

LEMMA AppendedType ==
  ASSUME TypeOK, NEW j \in Jobs, NEW n \in Nat
  PROVE  Appended(j, n) \in [Parts(j) -> Nat]
<1>1. position[j] \in Nat /\ files[j] \in [Parts(j) -> Nat]
  BY DEF TypeOK
<1> SUFFICES ASSUME NEW i \in Parts(j)
             PROVE  files[j][i] + PartSize(j, position[j] + n, i) - PartSize(j, position[j], i) \in Nat
  BY DEF Appended
<1>2. PartSize(j, position[j] + n, i) - PartSize(j, position[j], i) \in Nat
  BY <1>1, PartSizeGrows
<1>3. /\ position[j] + n \in Nat
      /\ PartSize(j, position[j], i) \in Nat
  BY <1>1, PartSizeGrows
<1>. DEFINE m == position[j] + n
<1>6. m \in Nat
  BY <1>3
<1>7. PartSize(j, m, i) \in Nat
  <2> HIDE DEF m
  <2>1. QED BY <1>6, PartSizeGrows
<1>4. files[j][i] \in Nat
  BY <1>1
<1>5. QED
  BY <1>2, <1>3, <1>4, <1>7

-----------------------------------------------------------------------------
LEMMA BoundsType ==
  /\ Needed \in Nat /\ Overhead \in Nat
  /\ ChunkUnits \in Nat \ {0} /\ Chunks \in Nat \ {0}
  /\ MaxPurges \in Nat /\ MaxStarts \in Nat
BY ArchiveAssumption

LEMMA PartsAreNumbers == \A j \in Jobs : Parts(j) \subseteq Nat
<1> SUFFICES ASSUME NEW j \in Jobs, NEW i \in Parts(j) PROVE i \in Nat
  OBVIOUS
<1> DEFINE last == (Needed + PartLimit[j] - 1) \div PartLimit[j]
<1>1. i \in {1} \/ i \in 1 .. last
  BY DEF Parts
<1> HIDE DEF last
<1>2. QED
  BY <1>1

(* The piece a thread writes fits what it has left of its chunk. *)
LEMMA PieceType ==
  ASSUME TypeOK, NEW j \in Jobs, chunk[j] > 0
  PROVE  Piece(j) \in Nat /\ chunk[j] - Piece(j) \in 0 .. ChunkUnits
<1>1. /\ PartLimit[j] \in Nat /\ position[j] \in Nat
      /\ chunk[j] \in Nat /\ chunk[j] <= ChunkUnits /\ ChunkUnits \in Nat
  BY BoundsType, ArchiveAssumption DEF TypeOK
<1>2. CASE PartLimit[j] = 0
  BY <1>1, <1>2 DEF Room, Piece
<1>3. CASE PartLimit[j] # 0
  <2> DEFINE r == position[j] % PartLimit[j]
  <2>1. r \in Int /\ 0 <= r /\ r < PartLimit[j]
    BY <1>1, <1>3
  <2>2. Room(j) = PartLimit[j] - r
    BY <1>3 DEF Room
  <2> HIDE DEF r
  <2>3. QED
    BY <1>1, <2>1, <2>2 DEF Piece
<1>4. QED
  BY <1>2, <1>3

(* Settle keeps the types of what it assigns. *)
LEMMA SettleType ==
  ASSUME TypeOK, NEW j \in Jobs, NEW st \in {"ready", "failed"}, NEW n \in Nat, Settle(j, st, n)
  PROVE  /\ DOMAIN files' = Jobs /\ \A k \in Jobs : files'[k] \in [Parts(k) -> Nat]
         /\ position' \in [Jobs -> Nat]
         /\ handle' \in [Jobs -> {"none", "open", "closed"}]
         /\ rec' \in [Jobs -> Record]
         /\ saved' \in [Jobs -> Record]
         /\ reserved' \in [Jobs -> {Unreserved} \cup 0 .. Needed]
         /\ task' \in [Jobs -> {"none", "scheduled", "waiting", "writing", "draining", "done"}]
         /\ cancelled' \subseteq Jobs
<1>1. DOMAIN files' = Jobs /\ \A k \in Jobs : files'[k] \in [Parts(k) -> Nat]
  BY AppendedType DEF TypeOK, Settle
<1>2. position[j] + n \in Nat
  BY DEF TypeOK
<1>3. [stage |-> st, staged |-> position[j] + n] \in Record
  BY <1>2 DEF Record
<1>4. rec' \in [Jobs -> Record] /\ saved' \in [Jobs -> Record]
  BY <1>3 DEF TypeOK, Settle, Save
<1>5. QED
  BY <1>1, <1>2, <1>4 DEF TypeOK, Settle

LEMMA EmptyType == \A j \in Jobs : Empty(j) \in [Parts(j) -> Nat]
BY DEF Empty

LEMMA NoRecordType == NoRecord \in Record /\ [stage |-> "purged", staged |-> 0] \in Record
BY DEF NoRecord, Record

(* Remove keeps the types of what it assigns. *)
LEMMA RemoveType ==
  ASSUME TypeOK, NEW j \in Jobs, Remove(j)
  PROVE  /\ DOMAIN files' = Jobs /\ \A k \in Jobs : files'[k] \in [Parts(k) -> Nat]
         /\ rec' \in [Jobs -> Record] /\ saved' \in [Jobs -> Record]
<1>1. DOMAIN files' = Jobs /\ \A k \in Jobs : files'[k] \in [Parts(k) -> Nat]
  BY EmptyType DEF Remove, TypeOK
<1>2. rec' \in [Jobs -> Record] /\ saved' \in [Jobs -> Record]
  BY NoRecordType DEF Remove, Save, TypeOK
<1>3. QED
  BY <1>1, <1>2

THEOREM TypeInit == Init => TypeOK
<1> SUFFICES ASSUME Init PROVE TypeOK
  OBVIOUS
<1>1. ChunkUnits \in Nat \ {0} /\ Chunks \in Nat \ {0} /\ MaxPurges \in Nat /\ MaxStarts \in Nat
  BY ArchiveAssumption
<1>2. QED
  BY <1>1, EmptyType, NoRecordType DEF Init, TypeOK

THEOREM TypeStep == TypeOK /\ [Next]_vars => TypeOK'
<1> SUFFICES ASSUME TypeOK, [Next]_vars PROVE TypeOK'
  OBVIOUS
<1> USE BoundsType, EmptyType, NoRecordType
<1>1. ASSUME NEW j \in Jobs, Request(j) PROVE TypeOK'
  <2>1. CASE CreateBegin(j)
    BY <2>1 DEF CreateBegin, TypeOK, vars, archive, writers, calls, history
  <2>2. CASE CreateRefuse(j)
    BY <2>2 DEF CreateRefuse, TypeOK, vars, archive, writers, calls, history
  <2>3. CASE CreateAdmit(j)
    BY <2>3 DEF CreateAdmit, Save, Record, TypeOK, vars, archive, writers, calls, history
  <2>4. CASE Pause(j)
    BY <2>4 DEF Pause, Control, TypeOK, vars, archive, writers, calls, history
  <2>5. CASE Resume(j)
    BY <2>5 DEF Resume, Control, TypeOK, vars, archive, writers, calls, history
  <2>6. CASE Forget(j)
    BY <2>6 DEF Forget, TypeOK, vars, archive, writers, calls, history
  <2>7. CASE PurgeBegin(j)
    BY <2>7 DEF PurgeBegin, TypeOK, vars, archive, writers, calls, history
  <2>8. CASE PurgeNow(j)
    BY <2>8 DEF PurgeNow, Remove, Save, TypeOK, vars, archive, writers, calls, history
  <2>9. CASE PurgeEnd(j)
    <3>1. purging' \in [Jobs -> 0 .. MaxPurges]
      BY <2>9 DEF PurgeEnd, TypeOK
    <3>2. /\ DOMAIN files' = Jobs /\ \A k \in Jobs : files'[k] \in [Parts(k) -> Nat]
          /\ rec' \in [Jobs -> Record] /\ saved' \in [Jobs -> Record]
      <4>1. CASE rec[j].stage = "absent"
        BY <2>9, <4>1 DEF PurgeEnd, TypeOK
      <4>2. CASE rec[j].stage # "absent"
        <5>1. Remove(j)
          BY <2>9, <4>2 DEF PurgeEnd
        <5>2. QED
          BY <5>1, RemoveType
      <4>3. QED
        BY <4>1, <4>2
    <3>3. QED
      BY <2>9, <3>1, <3>2 DEF PurgeEnd, TypeOK, writers, history
  <2>10. ASSUME NEW i \in Parts(j), PartBegin(j, i) \/ PartRefuse(j, i) \/ PartSend(j, i) PROVE TypeOK'
    <3>1. i \in Nat
      BY PartsAreNumbers
    <3>2. CASE PartBegin(j, i)
      BY <3>1, <3>2 DEF PartBegin, TypeOK, vars, archive, writers, calls, history
    <3>3. CASE PartRefuse(j, i)
      BY <3>3 DEF PartRefuse, TypeOK, vars, archive, writers, calls, history
    <3>4. CASE PartSend(j, i)
      <4>1. files[j][i] \in Nat
        BY DEF TypeOK
      <4>2. given' \subseteq Jobs \X Nat \X Nat
        BY <3>1, <3>4, <4>1 DEF PartSend, TypeOK
      <4>3. saved' \in [Jobs -> Record]
        BY <3>4 DEF PartSend, TypeOK
      <4>4. QED
        BY <3>4, <4>2, <4>3 DEF PartSend, TypeOK, writers
    <3>5. QED
      BY <2>10, <3>2, <3>3, <3>4
  <2>11. QED
    BY <1>1, <2>1, <2>2, <2>3, <2>4, <2>5, <2>6, <2>7, <2>8, <2>9, <2>10 DEF Request
<1>2. ASSUME NEW j \in Jobs, Task(j) PROVE TypeOK'
  <2>1. CASE PackStart(j)
    BY <2>1 DEF PackStart, Running, TypeOK, vars, archive, writers, calls, history
  <2>2. CASE PackChunk(j)
    BY <2>2 DEF PackChunk, Running, TypeOK, vars, archive, writers, calls, history
  <2>3. CASE PackWrote(j)
    <3>1. position[j] \in Nat
      BY DEF TypeOK
    <3>2. Clip(Needed - position[j], 0, Needed) \in 0 .. Needed
      BY <3>1 DEF Clip
    <3>3. rec' \in [Jobs -> Record]
      BY <2>3, <3>1 DEF PackWrote, TypeOK, Record
    <3>4. packed' \in [Jobs -> Nat]
      BY <2>3 DEF PackWrote, TypeOK
    <3>5. QED
      BY <2>3, <3>2, <3>3, <3>4 DEF PackWrote, TypeOK, calls, history
  <2>4. CASE PackFinish(j)
    BY <2>4, SettleType DEF PackFinish, Running, TypeOK, vars, archive, writers, calls, history
  <2>5. CASE PackFail(j)
    BY <2>5, SettleType DEF PackFail, Running, TypeOK, vars, archive, writers, calls, history
  <2>6. CASE PackCancelled(j)
    BY <2>6, SettleType DEF PackCancelled, TypeOK, vars, archive, writers, calls, history
  <2>7. CASE PackDrained(j)
    BY <2>7, SettleType DEF PackDrained, Running, TypeOK, vars, archive, writers, calls, history
  <2>8. QED
    BY <1>2, <2>1, <2>2, <2>3, <2>4, <2>5, <2>6, <2>7 DEF Task
<1>3. ASSUME NEW j \in Jobs, ThreadWrite(j) PROVE TypeOK'
  <2>1. position[j] \in Nat /\ Piece(j) \in Nat /\ chunk[j] - Piece(j) \in 0 .. ChunkUnits
    BY <1>3, PieceType DEF TypeOK, ThreadWrite
  <2>2. Appended(j, Piece(j)) \in [Parts(j) -> Nat]
    BY <2>1, AppendedType
  <2>3. chunk' \in [Jobs -> 0 .. ChunkUnits]
    BY <1>3, <2>1 DEF ThreadWrite, TypeOK
  <2>4. /\ DOMAIN files' = Jobs /\ \A k \in Jobs : files'[k] \in [Parts(k) -> Nat]
        /\ position' \in [Jobs -> Nat]
        /\ handle' \in [Jobs -> {"none", "open", "closed"}]
    <3>1. CASE handle[j] = "closed" /\ ~AtBoundary(j)
      BY <1>3, <3>1 DEF ThreadWrite, TypeOK
    <3>2. CASE ~(handle[j] = "closed" /\ ~AtBoundary(j))
      <4>1. /\ files' = [files EXCEPT ![j] = Appended(j, Piece(j))]
            /\ position' = [position EXCEPT ![j] = @ + Piece(j)]
            /\ handle' = [handle EXCEPT ![j] = "open"]
        BY <1>3, <3>2 DEF ThreadWrite
      <4>2. DOMAIN files' = Jobs /\ \A k \in Jobs : files'[k] \in [Parts(k) -> Nat]
        BY <2>2, <4>1 DEF TypeOK
      <4>3. position[j] + Piece(j) \in Nat
        BY <2>1
      <4>4. position' \in [Jobs -> Nat]
        BY <4>1, <4>3 DEF TypeOK
      <4>5. handle' \in [Jobs -> {"none", "open", "closed"}]
        BY <4>1 DEF TypeOK
      <4>6. QED
        BY <4>2, <4>4, <4>5
    <3>3. QED
      BY <3>1, <3>2
  <2>5. QED
    BY <1>3, <2>3, <2>4 DEF ThreadWrite, TypeOK, archive, calls, history
<1>4. ASSUME Service PROVE TypeOK'
  <2>1. ASSUME Lost, DOMAIN files' = Jobs /\ (\A k \in Jobs : files'[k] \in [Parts(k) -> Nat]), cut' \subseteq Jobs
        PROVE  TypeOK'
    <3>1. /\ chunk' \in [Jobs -> 0 .. ChunkUnits]
          /\ purging' \in [Jobs -> 0 .. MaxPurges]
          /\ reserved' \in [Jobs -> {Unreserved} \cup 0 .. Needed]
          /\ position' \in [Jobs -> Nat]
          /\ packed' \in [Jobs -> Nat]
      BY <2>1 DEF Lost
    <3>2. /\ process' \in {"up", "stopping", "down"}
          /\ rec' \in [Jobs -> Record]
          /\ saved' \in [Jobs -> Record]
          /\ used' \subseteq Jobs /\ planning' \subseteq Jobs /\ cancelled' \subseteq Jobs
          /\ task' \in [Jobs -> {"none", "scheduled", "waiting", "writing", "draining", "done"}]
          /\ gate' \in [Jobs -> BOOLEAN]
          /\ handle' \in [Jobs -> {"none", "open", "closed"}]
          /\ serving' \subseteq Jobs \X Nat
          /\ given' \subseteq Jobs \X Nat \X Nat
          /\ starts' \in 0 .. MaxStarts
      BY <2>1 DEF Lost, TypeOK
    <3>3. QED
      BY <2>1, <3>1, <3>2 DEF TypeOK
  <2>2. CASE Crash
    BY <2>1, <2>2 DEF Crash, TypeOK
  <2>3. ASSUME NEW j \in Jobs, CrashInPurge(j) PROVE TypeOK'
    <3>1. PICK kept \in SUBSET {i \in Parts(j) : files[j][i] > 0} :
            files' = [files EXCEPT ![j] = [i \in Parts(j) |-> IF i \in kept THEN @[i] ELSE 0]]
      BY <2>3 DEF CrashInPurge
    <3>2. DOMAIN files' = Jobs /\ \A k \in Jobs : files'[k] \in [Parts(k) -> Nat]
      BY <3>1 DEF TypeOK
    <3>3. QED
      BY <2>1, <2>3, <3>2 DEF CrashInPurge, TypeOK
  <2>4. CASE Shutdown
    BY <2>4 DEF Shutdown, TypeOK, vars, archive, writers, calls, history
  <2>5. CASE Exit
    BY <2>1, <2>5 DEF Exit, TypeOK
  <2>6. CASE Start
    <3>1. rec' \in [Jobs -> Record]
      BY <2>6 DEF Start, TypeOK, Record
    <3>2. starts' \in 0 .. MaxStarts
      BY <2>6 DEF Start, TypeOK
    <3>3. QED
      BY <2>6, <3>1, <3>2 DEF Start, TypeOK, writers, calls
  <2>7. QED
    BY <1>4, <2>2, <2>3, <2>4, <2>5, <2>6 DEF Service
<1>5. CASE UNCHANGED vars
  BY <1>5 DEF TypeOK, vars, archive, writers, calls, history
<1>6. QED
  BY <1>1, <1>2, <1>3, <1>4, <1>5 DEF Next

(* Type correctness of the archive service. *)
THEOREM TypeCorrect == Spec => []TypeOK
BY TypeInit, TypeStep, PTL DEF Spec

-----------------------------------------------------------------------------
(* The inductive invariant.  TypeOK is inductive on its own, so the steps below
   concern the other conjuncts, which depend on few variables. *)

LEMMA UnreservedType == Needed \in Nat /\ Unreserved \notin Nat
BY BoundsType DEF Unreserved

THEOREM BookkeepingInit == Init => IInv
<1> SUFFICES ASSUME Init PROVE IInv
  OBVIOUS
<1>1. TypeOK
  BY TypeInit
<1>2. QED
  BY <1>1 DEF Init, IInv, PackingIffLive, ReservedWhileLive, CancelledRuns, NewIsUnknown,
              DownIsIdle, ManifestFollows, Live, NoRecord

(* Every conjunct of the bookkeeping but TypeOK. *)
Books == PackingIffLive /\ ReservedWhileLive /\ CancelledRuns /\ NewIsUnknown /\ DownIsIdle /\ ManifestFollows

(* The way out of the packing task: it was packing, now it is not, and its
   reservation is gone. *)
LEMMA SettleBooks ==
  ASSUME IInv, NEW j \in Jobs, NEW st \in {"ready", "failed"}, NEW n, Settle(j, st, n), Live(j),
         UNCHANGED <<process, used, calls>>
  PROVE  Books'
<1>0. TypeOK /\ Books
  BY DEF IInv, Books
<1>1. /\ rec' = [rec EXCEPT ![j] = [stage |-> st, staged |-> position[j] + n]]
      /\ saved' = [saved EXCEPT ![j] = [stage |-> st, staged |-> position[j] + n]]
      /\ reserved' = [reserved EXCEPT ![j] = Unreserved]
      /\ task' = [task EXCEPT ![j] = "done"]
      /\ cancelled' = cancelled \ {j}
      /\ UNCHANGED <<process, used, planning, purging, serving>>
  BY DEF Settle, Save, calls
<1>2. /\ rec'[j].stage = st /\ saved'[j].stage = st /\ reserved'[j] = Unreserved /\ task'[j] = "done"
      /\ \A k \in Jobs \ {j} : /\ rec'[k] = rec[k] /\ saved'[k] = saved[k]
                             /\ reserved'[k] = reserved[k] /\ task'[k] = task[k]
  BY <1>0, <1>1 DEF TypeOK
<1>3. j \in used /\ process # "down"
  BY <1>0 DEF Books, NewIsUnknown, DownIsIdle, Live
<1>4. PackingIffLive' /\ ReservedWhileLive' /\ CancelledRuns'
  BY <1>0, <1>1, <1>2 DEF Books, PackingIffLive, ReservedWhileLive, CancelledRuns, Live
<1>5. NewIsUnknown' /\ DownIsIdle' /\ ManifestFollows'
  <2>1. NewIsUnknown'
    BY <1>0, <1>1, <1>2, <1>3 DEF Books, NewIsUnknown
  <2>2. DownIsIdle'
    BY <1>0, <1>1, <1>2, <1>3 DEF Books, DownIsIdle
  <2>3. ManifestFollows'
    BY <1>0, <1>1, <1>2, <1>3 DEF Books, ManifestFollows
  <2>4. QED
    BY <2>1, <2>2, <2>3
<1>6. QED
  BY <1>4, <1>5 DEF Books

(* A step of the task that leaves stage, manifest and calls alone. *)
LEMMA TaskBooks ==
  ASSUME IInv, NEW j \in Jobs, Live(j),
         NEW t \in {"waiting", "writing", "draining"}, task' = [task EXCEPT ![j] = t],
         cancelled' \subseteq cancelled,
         DOMAIN rec' = Jobs, \A k \in Jobs : rec'[k].stage = rec[k].stage,
         \A k \in Jobs : reserved'[k] # Unreserved <=> reserved[k] # Unreserved,
         UNCHANGED <<process, saved, used, calls>>
  PROVE  Books'
<1>0. TypeOK /\ Books
  BY DEF IInv, Books
<1>1. task'[j] = t /\ \A k \in Jobs \ {j} : task'[k] = task[k]
  BY <1>0 DEF TypeOK
<1>2. UNCHANGED <<planning, purging, serving>>
  BY DEF calls
<1>3. PackingIffLive' /\ ReservedWhileLive' /\ CancelledRuns'
  BY <1>0, <1>1 DEF Books, PackingIffLive, ReservedWhileLive, CancelledRuns, Live, TypeOK
<1>4. j \in used /\ process # "down"
  BY <1>0 DEF Books, NewIsUnknown, DownIsIdle, Live
<1>5. NewIsUnknown' /\ DownIsIdle' /\ ManifestFollows'
  <2>1. NewIsUnknown'
    BY <1>0, <1>1, <1>2, <1>4 DEF Books, NewIsUnknown
  <2>2. DownIsIdle'
    BY <1>0, <1>1, <1>2, <1>4 DEF Books, DownIsIdle
  <2>3. ManifestFollows'
    BY <1>0, <1>1, <1>2, <1>4 DEF Books, ManifestFollows
  <2>4. QED
    BY <2>1, <2>2, <2>3
<1>6. QED
  BY <1>3, <1>5 DEF Books

(* Whatever stops the process, nothing is left in memory. *)
LEMMA LostBooks ==
  ASSUME IInv, Lost
  PROVE  Books'
<1>1. PackingIffLive' /\ ReservedWhileLive' /\ CancelledRuns' /\ DownIsIdle' /\ ManifestFollows'
  BY DEF Lost, NoRecord, PackingIffLive, ReservedWhileLive, CancelledRuns, DownIsIdle, ManifestFollows, Live
<1>2. NewIsUnknown'
  BY DEF IInv, Lost, NoRecord, NewIsUnknown
<1>3. QED
  BY <1>1, <1>2 DEF Books

(* A step that leaves the task, the stage and the manifest of every job alone. *)
LEMMA QuietBooks ==
  ASSUME IInv, UNCHANGED <<process, rec, saved, used, task, reserved>>,
         planning' \cap used = {}, CancelledRuns',
         process = "down" => planning' = {} /\ serving' = {} /\ purging' = purging,
         \A j \in Jobs \ used : \A i \in Parts(j) : <<j, i>> \notin serving'
  PROVE  Books'
BY DEF IInv, Books, PackingIffLive, ReservedWhileLive, NewIsUnknown, DownIsIdle, ManifestFollows, Live

THEOREM BookkeepingStep == IInv /\ [Next]_vars => IInv'
<1> SUFFICES ASSUME IInv, [Next]_vars PROVE IInv'
  OBVIOUS
<1>0. TypeOK /\ Books
  BY DEF IInv, Books
<1>t. TypeOK'
  BY <1>0, TypeStep
<1> SUFFICES Books'
  BY <1>t DEF IInv, Books
<1>1. ASSUME NEW j \in Jobs, Request(j) PROVE Books'
  <2>1. CASE CreateBegin(j)
    BY <1>0, <2>1, QuietBooks DEF CreateBegin, Books, NewIsUnknown, CancelledRuns, archive
  <2>2. CASE CreateRefuse(j)
    BY <1>0, <2>2, QuietBooks DEF CreateRefuse, Books, NewIsUnknown, CancelledRuns, DownIsIdle, archive
  <2>3. CASE CreateAdmit(j)
    <3>1. /\ rec' = [rec EXCEPT ![j] = [stage |-> "packing", staged |-> 0]]
          /\ saved' = [saved EXCEPT ![j] = [stage |-> "packing", staged |-> 0]]
          /\ reserved' = [reserved EXCEPT ![j] = Needed]
          /\ task' = [task EXCEPT ![j] = "scheduled"]
          /\ used' = used \cup {j} /\ planning' = planning \ {j}
          /\ UNCHANGED <<process, cancelled, purging, serving>>
          /\ j \in planning
      BY <2>3 DEF CreateAdmit, Save
    <3>2. j \notin used /\ task[j] = "none" /\ process # "down"
      BY <1>0, <3>1 DEF Books, NewIsUnknown, DownIsIdle
    <3>3. /\ rec'[j].stage = "packing" /\ saved'[j].stage = "packing"
          /\ reserved'[j] # Unreserved /\ task'[j] = "scheduled"
          /\ \A k \in Jobs \ {j} : /\ rec'[k] = rec[k] /\ saved'[k] = saved[k]
                                 /\ reserved'[k] = reserved[k] /\ task'[k] = task[k]
      BY <1>0, <3>1, UnreservedType DEF TypeOK
    <3>4. PackingIffLive' /\ ReservedWhileLive' /\ CancelledRuns'
      BY <1>0, <3>1, <3>2, <3>3 DEF Books, PackingIffLive, ReservedWhileLive, CancelledRuns, Live
    <3>5. NewIsUnknown' /\ DownIsIdle' /\ ManifestFollows'
      <4>1. NewIsUnknown'
        BY <1>0, <3>1, <3>2, <3>3 DEF Books, NewIsUnknown
      <4>2. DownIsIdle'
        BY <1>0, <3>1, <3>2, <3>3 DEF Books, DownIsIdle
      <4>3. ManifestFollows'
        BY <1>0, <3>1, <3>2, <3>3 DEF Books, ManifestFollows
      <4>4. QED
        BY <4>1, <4>2, <4>3
    <3>6. QED
      BY <3>4, <3>5 DEF Books
  <2>4. ASSUME NEW open, Control(j, open) PROVE Books'
    <3>1. /\ saved' = [saved EXCEPT ![j] = rec[j]]
          /\ UNCHANGED <<process, rec, used, task, cancelled, reserved, planning, purging, serving>>
          /\ rec[j].stage = "packing"
      BY <2>4 DEF Control, calls
    <3>2. saved'[j] = rec[j] /\ \A k \in Jobs \ {j} : saved'[k] = saved[k]
      BY <1>0, <3>1 DEF TypeOK
    <3>3. QED
      BY <1>0, <3>1, <3>2 DEF Books, PackingIffLive, ReservedWhileLive, CancelledRuns, NewIsUnknown,
                              DownIsIdle, ManifestFollows, Live
  <2>5. CASE Forget(j)
    <3>1. /\ saved' = [saved EXCEPT ![j] = NoRecord]
          /\ UNCHANGED <<process, used, cancelled, reserved, planning, purging, serving>>
          /\ rec[j].stage = "purged" /\ process = "up"
          /\ \/ rec' = [rec EXCEPT ![j] = NoRecord] /\ task' = [task EXCEPT ![j] = "none"]
             \/ UNCHANGED <<rec, task>>
      BY <2>5 DEF Forget, calls
    <3>2. ~Live(j)
      BY <1>0, <3>1 DEF Books, PackingIffLive
    <3>3. j \in used /\ j \notin cancelled
      BY <1>0, <3>1, <3>2 DEF Books, NewIsUnknown, CancelledRuns, Live
    <3>4. /\ saved'[j].stage = "absent" /\ \A k \in Jobs \ {j} : saved'[k] = saved[k]
          /\ \A k \in Jobs \ {j} : rec'[k] = rec[k] /\ task'[k] = task[k]
          /\ \/ rec'[j].stage = "absent" /\ task'[j] = "none"
             \/ rec'[j].stage = "purged" /\ task'[j] = task[j]
      BY <1>0, <3>1 DEF TypeOK, NoRecord
    <3>5. PackingIffLive' /\ ReservedWhileLive' /\ CancelledRuns'
      <4>1. rec'[j].stage # "packing" /\ ~Live(j)'
        BY <3>2, <3>4 DEF Live
      <4>2. \A k \in Jobs \ {j} : rec'[k] = rec[k] /\ (Live(k)' <=> Live(k))
        BY <3>4 DEF Live
      <4>3. PackingIffLive'
        BY <1>0, <4>1, <4>2 DEF Books, PackingIffLive
      <4>4. ReservedWhileLive'
        BY <1>0, <3>1, <3>2, <4>1, <4>2 DEF Books, ReservedWhileLive
      <4>5. CancelledRuns'
        BY <1>0, <3>1, <3>3, <3>4 DEF Books, CancelledRuns, TypeOK
      <4>6. QED
        BY <4>3, <4>4, <4>5
    <3>6. NewIsUnknown' /\ DownIsIdle' /\ ManifestFollows'
      <4>1. NewIsUnknown'
        BY <1>0, <3>1, <3>3, <3>4 DEF Books, NewIsUnknown
      <4>2. DownIsIdle'
        BY <1>0, <3>1, <3>3, <3>4 DEF Books, DownIsIdle
      <4>3. ManifestFollows'
        BY <1>0, <3>1, <3>3, <3>4 DEF Books, ManifestFollows, Lag
      <4>4. QED
        BY <4>1, <4>2, <4>3
    <3>7. QED
      BY <3>5, <3>6 DEF Books
  <2>6. CASE PurgeBegin(j)
    <3>1. task[j] \in {"waiting", "writing", "draining"}
      BY <1>0, <2>6 DEF PurgeBegin, Live, TypeOK
    <3>2. QED
      BY <1>0, <2>6, <3>1, QuietBooks DEF PurgeBegin, Books, NewIsUnknown, CancelledRuns, archive
  <2>7. ASSUME Remove(j), ~Live(j), j \in used, process # "down",
               UNCHANGED <<process, used, task, cancelled, reserved, planning, serving>>
        PROVE  Books'
    <3>1. /\ rec'[j].stage = "purged" /\ saved'[j].stage = "purged"
          /\ \A k \in Jobs \ {j} : rec'[k] = rec[k] /\ saved'[k] = saved[k]
      BY <1>0, <2>7 DEF Remove, Save, TypeOK
    <3>2. PackingIffLive' /\ ReservedWhileLive' /\ CancelledRuns'
      BY <1>0, <2>7, <3>1 DEF Books, PackingIffLive, ReservedWhileLive, CancelledRuns, Live
    <3>3. NewIsUnknown' /\ DownIsIdle' /\ ManifestFollows'
      <4>1. NewIsUnknown'
        BY <1>0, <2>7, <3>1 DEF Books, NewIsUnknown
      <4>2. DownIsIdle'
        BY <1>0, <2>7, <3>1 DEF Books, DownIsIdle
      <4>3. ManifestFollows'
        BY <1>0, <2>7, <3>1 DEF Books, ManifestFollows
      <4>4. QED
        BY <4>1, <4>2, <4>3
    <3>4. QED
      BY <3>2, <3>3 DEF Books
  <2>8. CASE PurgeNow(j)
    <3>1. j \in used
      BY <1>0, <2>8 DEF PurgeNow, Books, NewIsUnknown
    <3>2. QED
      BY <2>7, <2>8, <3>1 DEF PurgeNow, calls
  <2>9. CASE PurgeEnd(j)
    <3>1. process # "down"
      BY <1>0, <2>9 DEF PurgeEnd, Books, DownIsIdle, TypeOK
    <3>2. CASE rec[j].stage = "absent"
      BY <1>0, <2>9, <3>1, <3>2, QuietBooks DEF PurgeEnd, Books, NewIsUnknown, CancelledRuns
    <3>3. CASE rec[j].stage # "absent"
      <4>1. j \in used
        BY <1>0, <3>3 DEF Books, NewIsUnknown
      <4>2. QED
        BY <2>7, <2>9, <3>1, <3>3, <4>1 DEF PurgeEnd
    <3>4. QED
      BY <3>2, <3>3
  <2>10. ASSUME NEW i \in Parts(j), PartBegin(j, i) PROVE Books'
    <3>1. rec[j].stage # "absent" /\ process # "down"
      BY <2>10 DEF PartBegin, PartReady
    <3>2. j \in used
      BY <1>0, <3>1 DEF Books, NewIsUnknown
    <3>3. QED
      BY <1>0, <2>10, <3>1, <3>2, QuietBooks DEF PartBegin, Books, NewIsUnknown, CancelledRuns, archive
  <2>11. ASSUME NEW i \in Parts(j), PartRefuse(j, i) PROVE Books'
    BY <1>0, <2>11, QuietBooks DEF PartRefuse, Books, NewIsUnknown, CancelledRuns, DownIsIdle, archive
  <2>12. ASSUME NEW i \in Parts(j), PartSend(j, i) PROVE Books'
    <3>1. /\ j \in used /\ process # "down"
          /\ serving' = serving \ {<<j, i>>}
          /\ UNCHANGED <<process, rec, used, task, cancelled, reserved, planning, purging>>
      BY <1>0, <2>12 DEF PartSend, Books, NewIsUnknown, DownIsIdle
    <3>2. /\ saved'[j] = IF rec[j].stage = "absent" THEN [stage |-> "purged", staged |-> 0] ELSE rec[j]
          /\ \A k \in Jobs \ {j} : saved'[k] = saved[k]
      BY <1>0, <2>12 DEF PartSend, TypeOK
    <3>3. rec[j].stage = saved'[j].stage \/ <<rec[j].stage, saved'[j].stage>> \in Lag
      BY <3>2 DEF Lag
    <3>4. QED
      BY <1>0, <3>1, <3>2, <3>3 DEF Books, PackingIffLive, ReservedWhileLive, CancelledRuns, NewIsUnknown,
                              DownIsIdle, ManifestFollows, Live
  <2>13. QED
    BY <1>1, <2>1, <2>2, <2>3, <2>4, <2>5, <2>6, <2>8, <2>9, <2>10, <2>11, <2>12 DEF Request, Pause, Resume
<1>2. ASSUME NEW j \in Jobs, Task(j) PROVE Books'
  <2>1. CASE PackStart(j)
    BY <1>0, <2>1, TaskBooks DEF PackStart, Running, Live, TypeOK, archive
  <2>2. CASE PackChunk(j)
    BY <1>0, <2>2, TaskBooks DEF PackChunk, Running, Live, TypeOK, archive
  <2>3. CASE PackWrote(j)
    <3>1. Live(j)
      BY <2>3 DEF PackWrote, Running, Live
    <3>2. DOMAIN rec' = Jobs /\ \A k \in Jobs : rec'[k].stage = rec[k].stage
      BY <1>0, <2>3 DEF PackWrote, TypeOK, Record
    <3>3. Clip(Needed - position[j], 0, Needed) \in Nat
      BY <1>0, BoundsType DEF Clip, TypeOK
    <3>4. \A k \in Jobs : reserved'[k] # Unreserved <=> reserved[k] # Unreserved
      BY <1>0, <2>3, <3>1, <3>3, UnreservedType DEF PackWrote, TypeOK, Books, ReservedWhileLive
    <3>5. QED
      BY <2>3, <3>1, <3>2, <3>4, TaskBooks DEF PackWrote
  <2>4. CASE PackFinish(j)
    BY <2>4, SettleBooks DEF PackFinish, Running, Live
  <2>5. CASE PackFail(j)
    <3>1. PICK n \in {0, Overhead} : Settle(j, "failed", n)
      BY <2>5 DEF PackFail
    <3>2. QED
      BY <2>5, <3>1, SettleBooks DEF PackFail, Running, Live
  <2>6. CASE PackCancelled(j)
    <3>1. task[j] \in {"waiting", "writing", "draining"} /\ Live(j)
      BY <1>0, <2>6 DEF PackCancelled, Books, CancelledRuns, Live
    <3>2. CASE task[j] = "writing"
      <4>1. /\ task' = [task EXCEPT ![j] = "draining"]
            /\ cancelled' \subseteq cancelled
            /\ UNCHANGED <<process, rec, saved, used, reserved, calls>>
        BY <1>0, <2>6, <3>2 DEF PackCancelled, TypeOK
      <4>2. QED
        BY <1>0, <3>1, <4>1, TaskBooks DEF TypeOK
    <3>3. CASE task[j] # "writing"
      BY <2>6, <3>1, <3>3, SettleBooks DEF PackCancelled
    <3>4. QED
      BY <3>2, <3>3
  <2>7. CASE PackDrained(j)
    BY <2>7, SettleBooks DEF PackDrained, Running, Live
  <2>8. QED
    BY <1>2, <2>1, <2>2, <2>3, <2>4, <2>5, <2>6, <2>7 DEF Task
<1>3. ASSUME NEW j \in Jobs, ThreadWrite(j) PROVE Books'
  BY <1>0, <1>3, QuietBooks DEF ThreadWrite, Books, NewIsUnknown, CancelledRuns, DownIsIdle, archive, calls
<1>4. ASSUME Service PROVE Books'
  <2>1. CASE Lost
    BY <2>1, LostBooks
  <2>2. CASE Shutdown
    <3>1. /\ \A k \in Jobs : Live(k) => task[k] \in {"waiting", "writing", "draining"}
          /\ cancelled' = {k \in Jobs : Live(k)} /\ process = "up" /\ process' = "stopping"
          /\ UNCHANGED <<rec, saved, used, task, reserved, planning, purging, serving>>
      BY <1>0, <2>2 DEF Shutdown, Live, TypeOK, archive, calls
    <3>2. QED
      BY <1>0, <3>1 DEF Books, PackingIffLive, ReservedWhileLive, CancelledRuns, NewIsUnknown,
                        DownIsIdle, ManifestFollows, Live
  <2>3. CASE Start
    <3>1. /\ process = "down" /\ process' = "up"
          /\ UNCHANGED <<saved, used, task, cancelled, reserved, planning, purging, serving>>
          /\ \A k \in Jobs : rec'[k] = IF saved[k].stage = "packing"
                                THEN [saved[k] EXCEPT !.stage = "failed"] ELSE saved[k]
      BY <2>3 DEF Start, calls
    <3>2. \A k \in Jobs : task[k] = "none"
      BY <1>0, <3>1 DEF Books, DownIsIdle
    <3>3. \A k \in Jobs : rec'[k].stage = IF saved[k].stage = "packing" THEN "failed" ELSE saved[k].stage
      BY <1>0, <3>1 DEF TypeOK, Record
    <3>4. QED
      BY <1>0, <3>1, <3>2, <3>3 DEF Books, PackingIffLive, ReservedWhileLive, CancelledRuns, NewIsUnknown,
                                    DownIsIdle, ManifestFollows, Live, Lag
  <2>4. QED
    BY <1>4, <2>1, <2>2, <2>3 DEF Service, Crash, CrashInPurge, Exit
<1>5. CASE UNCHANGED vars
  BY <1>0, <1>5, QuietBooks DEF Books, NewIsUnknown, CancelledRuns, DownIsIdle, vars, archive, calls
<1>6. QED
  BY <1>1, <1>2, <1>3, <1>4, <1>5 DEF Next

(* The bookkeeping of the service stays consistent through every await, crash
   and restart. *)
THEOREM BookkeepingCorrect == Spec => []IInv
BY BookkeepingInit, BookkeepingStep, PTL DEF Spec

(* No record is stuck in packing, and no live task is told to have ended. *)
THEOREM PackingCorrect == Spec => []PackingIffLive
<1>1. IInv => PackingIffLive
  BY DEF IInv
<1>2. QED
  BY <1>1, BookkeepingCorrect, PTL

(* Staging space stays reserved exactly as long as a task may write. *)
THEOREM ReservationCorrect == Spec => []ReservedWhileLive
<1>1. IInv => ReservedWhileLive
  BY DEF IInv
<1>2. QED
  BY <1>1, BookkeepingCorrect, PTL

-----------------------------------------------------------------------------
(* The archive service implements ArchiveLifecycle *)

(* What the owner of j is told does not change, or moves as the life cycle allows. *)
Moved(j) == ToldStage(j)' # ToldStage(j) => <<ToldStage(j), ToldStage(j)'>> \in Lifecycle!Moves

(* While the service is up its owner is told the record. *)
LEMMA ToldRecord ==
  ASSUME process # "down", process' # "down", \A k \in Jobs : rec'[k].stage = rec[k].stage
  PROVE  \A k \in Jobs : Moved(k)
BY DEF Moved, ToldStage

(* One record changes, along a move. *)
LEMMA ToldMove ==
  ASSUME process # "down", process' # "down", NEW j \in Jobs,
         rec'[j].stage = rec[j].stage \/ <<rec[j].stage, rec'[j].stage>> \in Lifecycle!Moves,
         \A k \in Jobs \ {j} : rec'[k] = rec[k]
  PROVE  \A k \in Jobs : Moved(k)
BY DEF Moved, ToldStage

LEMMA MoveCases ==
  /\ <<"absent", "packing">> \in Lifecycle!Moves /\ <<"packing", "ready">> \in Lifecycle!Moves
  /\ <<"packing", "failed">> \in Lifecycle!Moves /\ <<"ready", "purged">> \in Lifecycle!Moves
  /\ <<"failed", "purged">> \in Lifecycle!Moves /\ <<"purged", "absent">> \in Lifecycle!Moves
  /\ <<"absent", "purged">> \in Lifecycle!Moves
BY DEF Lifecycle!Moves, Lifecycle!Submitted, Lifecycle!Completed, Lifecycle!Failed,
       Lifecycle!Purged, Lifecycle!Forgotten, Lifecycle!Reappears

THEOREM LifecycleInit == Init => Lifecycle!Init
BY DEF Init, Lifecycle!Init, ToldStage, NoRecord

THEOREM LifecycleStep == IInv /\ [Next]_vars => \A j \in Jobs : Moved(j)
<1> SUFFICES ASSUME IInv, [Next]_vars PROVE \A j \in Jobs : Moved(j)
  OBVIOUS
<1> USE MoveCases
<1>0. /\ TypeOK /\ PackingIffLive /\ NewIsUnknown /\ DownIsIdle /\ ManifestFollows /\ CancelledRuns
  BY DEF IInv
<1>1. ASSUME NEW j \in Jobs, Live(j), NEW st \in {"ready", "failed"}, NEW n, Settle(j, st, n), process' = process
      PROVE  \A k \in Jobs : Moved(k)
  <2>1. rec[j].stage = "packing" /\ process # "down"
    BY <1>0, <1>1 DEF PackingIffLive, DownIsIdle, Live
  <2>2. rec'[j].stage = st /\ \A k \in Jobs \ {j} : rec'[k] = rec[k]
    BY <1>0, <1>1 DEF Settle, Save, TypeOK
  <2>3. QED
    BY <1>1, <2>1, <2>2, ToldMove
<1>2. ASSUME NEW j \in Jobs, ~Live(j), rec[j].stage # "absent", Remove(j), process # "down", process' = process
      PROVE  \A k \in Jobs : Moved(k)
  <2>1. rec[j].stage \in {"ready", "failed", "purged"}
    BY <1>0, <1>2 DEF PackingIffLive, TypeOK, Record
  <2>2. rec'[j].stage = "purged" /\ \A k \in Jobs \ {j} : rec'[k] = rec[k]
    BY <1>0, <1>2 DEF Remove, Save, TypeOK
  <2>3. QED
    BY <1>2, <2>1, <2>2, ToldMove
<1>3. ASSUME NEW j \in Jobs, Request(j) PROVE \A k \in Jobs : Moved(k)
  <2>1. process # "down" /\ process' = process
    <3>1. process' = process
      BY <1>3 DEF Request, CreateBegin, CreateRefuse, CreateAdmit, Pause, Resume, Control, Forget,
                  PurgeBegin, PurgeNow, PurgeEnd, PartBegin, PartRefuse, PartSend
    <3>2. CASE process = "up"
      BY <3>1, <3>2
    <3>3. CASE j \in planning \/ serving # {} \/ purging[j] > 0
      BY <1>0, <3>1, <3>3 DEF DownIsIdle, TypeOK
    <3>4. QED
      BY <1>3, <3>2, <3>3 DEF Request, CreateBegin, CreateRefuse, CreateAdmit, Pause, Resume, Control,
                              Forget, PurgeBegin, PurgeNow, PurgeEnd, PartBegin, PartRefuse, PartSend
  <2>2. CASE UNCHANGED rec
    BY <2>1, <2>2, ToldRecord
  <2>3. CASE CreateAdmit(j)
    <3>1. rec[j].stage = "absent"
      BY <1>0, <2>3 DEF CreateAdmit, NewIsUnknown
    <3>2. rec'[j].stage = "packing" /\ \A k \in Jobs \ {j} : rec'[k] = rec[k]
      BY <1>0, <2>3 DEF CreateAdmit, Save, TypeOK
    <3>3. QED
      BY <2>1, <3>1, <3>2, ToldMove
  <2>4. CASE Forget(j)
    <3>1. rec[j].stage = "purged" /\ \A k \in Jobs \ {j} : rec'[k] = rec[k]
      BY <1>0, <2>4 DEF Forget, TypeOK
    <3>2. rec'[j].stage = "absent" \/ rec'[j].stage = rec[j].stage
      BY <1>0, <2>4 DEF Forget, TypeOK, NoRecord
    <3>3. QED
      BY <2>1, <3>1, <3>2, ToldMove
  <2>5. CASE PurgeNow(j)
    BY <1>2, <2>1, <2>5 DEF PurgeNow
  <2>6. CASE PurgeEnd(j)
    BY <1>2, <2>1, <2>2, <2>6 DEF PurgeEnd
  <2>7. QED
    BY <1>3, <2>2, <2>3, <2>4, <2>5, <2>6 DEF Request, CreateBegin, CreateRefuse, Pause, Resume, Control,
                        PurgeBegin, PartBegin, PartRefuse, PartSend, archive
<1>4. ASSUME NEW j \in Jobs, Task(j) PROVE \A k \in Jobs : Moved(k)
  <2>1. Live(j)
    BY <1>0, <1>4 DEF Task, PackStart, PackChunk, PackWrote, PackFinish, PackFail, PackCancelled, PackDrained,
                      Running, CancelledRuns, Live
  <2>2. process # "down" /\ process' = process
    BY <1>0, <1>4, <2>1 DEF Task, PackStart, PackChunk, PackWrote, PackFinish, PackFail, PackCancelled,
                            PackDrained, DownIsIdle, Live
  <2>3. CASE UNCHANGED rec
    BY <2>2, <2>3, ToldRecord
  <2>4. CASE PackWrote(j)
    <3>1. \A k \in Jobs : rec'[k].stage = rec[k].stage
      BY <1>0, <2>4 DEF PackWrote, TypeOK, Record
    <3>2. QED
      BY <2>2, <3>1, ToldRecord
  <2>5. CASE \E st \in {"ready", "failed"}, n \in {0, Overhead} : Settle(j, st, n)
    BY <1>1, <2>1, <2>2, <2>5
  <2>6. QED
    BY <1>4, <2>3, <2>4, <2>5 DEF Task, PackStart, PackChunk, PackFinish, PackFail, PackCancelled, PackDrained, archive
<1>5. ASSUME NEW j \in Jobs, ThreadWrite(j) PROVE \A k \in Jobs : Moved(k)
  BY <1>5 DEF ThreadWrite, archive, Moved, ToldStage
<1>6. ASSUME Service PROVE \A k \in Jobs : Moved(k)
  <2> SUFFICES ASSUME NEW k \in Jobs PROVE Moved(k)
    OBVIOUS
  <2>1. ASSUME process # "down", Lost PROVE Moved(k)
    <3>1. ToldStage(k) = rec[k].stage
      BY <2>1 DEF ToldStage
    <3>2. ToldStage(k)' = IF saved[k].stage = "packing" THEN "failed" ELSE saved[k].stage
      BY <2>1 DEF Lost, ToldStage
    <3>3. rec[k].stage = saved[k].stage \/ <<rec[k].stage, saved[k].stage>> \in Lag
      BY <1>0, <2>1 DEF ManifestFollows
    <3>4. QED
      BY <3>1, <3>2, <3>3 DEF Lag, Moved
  <2>2. CASE Shutdown
    BY <2>2 DEF Shutdown, archive, Moved, ToldStage
  <2>3. CASE Start
    <3>1. rec'[k].stage = IF saved[k].stage = "packing" THEN "failed" ELSE saved[k].stage
      BY <1>0, <2>3 DEF Start, TypeOK, Record
    <3>2. QED
      BY <2>3, <3>1 DEF Start, Moved, ToldStage
  <2>4. QED
    BY <1>6, <2>1, <2>2, <2>3 DEF Service, Crash, CrashInPurge, Exit
<1>7. CASE UNCHANGED vars
  BY <1>7 DEF vars, archive, Moved, ToldStage
<1>8. QED
  BY <1>3, <1>4, <1>5, <1>6, <1>7 DEF Next

(* What the owner of a job is told follows the life cycle, whatever the tasks,
   threads, requests, crashes and restarts do. *)
THEOREM LifecycleCorrect == Spec => LifecycleSpec
<1>1. IInv /\ IInv' /\ [Next]_vars => [Lifecycle!Next]_([j \in Jobs |-> ToldStage(j)])
  <2> SUFFICES ASSUME IInv, IInv', [Next]_vars PROVE Lifecycle!Next
    OBVIOUS
  <2>1. \A j \in Jobs : Moved(j)
    BY LifecycleStep
  <2>2. \A j \in Jobs : ToldStage(j)' \in Lifecycle!Stages
    <3>1. TypeOK'
      BY DEF IInv
    <3>2. QED
      BY <3>1 DEF TypeOK, Record, ToldStage, Lifecycle!Stages
  <2>3. QED
    BY <2>1, <2>2 DEF Lifecycle!Next, Moved
<1>2. QED
  BY <1>1, LifecycleInit, BookkeepingCorrect, PTL DEF Spec, LifecycleSpec, Lifecycle!Spec

-----------------------------------------------------------------------------
(* What is on disk: ready archives are whole, parts handed out are final *)

Whole(j) == \A i \in Parts(j) : files[j][i] = PartSize(j, Needed, i)

(* A job whose id was not drawn has written nothing. *)
NewIsEmpty(j) ==
  j \notin used =>
    files[j] = Empty(j) /\ position[j] = 0 /\ chunk[j] = 0 /\ handle[j] = "none" /\ packed[j] = 0

(* The parts of a live job hold what its writer has written, and the writer is
   at the chunks the task has accounted for, plus what the thread has done of
   the one it writes. *)
WriterFollows(j) ==
  Live(j) =>
    /\ handle[j] # "closed"
    /\ \A i \in Parts(j) : files[j][i] = PartSize(j, position[j], i)
    /\ task[j] \in {"scheduled", "waiting"} => chunk[j] = 0 /\ position[j] = packed[j] * ChunkUnits
    /\ task[j] = "writing" => position[j] + chunk[j] = packed[j] * ChunkUnits + ChunkUnits

(* No thread writes for an archive that is ready, or for a service that is down. *)
NoLateThread(j) == chunk[j] > 0 => process # "down" /\ rec[j].stage # "ready"

(* Ready in memory or in the manifest: whole, unless a crash cut a purge short. *)
StoredIsWhole(j) ==
  j \notin cut /\ (rec[j].stage = "ready" \/ saved[j].stage = "ready") => Whole(j)

Full(j, i) == PartLimit[j] # 0 /\ PartSize(j, position[j], i) = PartLimit[j]

(* A part offered while its job packs is full ... *)
ServingIsFull(j) ==
  \A i \in Nat : <<j, i>> \in serving =>
    j \in used /\ i \in Parts(j) /\ (rec[j].stage = "packing" => Full(j, i))

(* ... and one that was handed out stays so as long as anybody may write to it. *)
GivenIsFull(j) ==
  \A i, n \in Nat : <<j, i, n>> \in given =>
    /\ j \in used /\ i \in Parts(j) /\ n = PartLimit[j]
    /\ files[j][i] \in {0, n}
    /\ Live(j) \/ chunk[j] > 0 => Full(j, i)

Stored(j) ==
  /\ NewIsEmpty(j) /\ WriterFollows(j) /\ NoLateThread(j)
  /\ StoredIsWhole(j) /\ ServingIsFull(j) /\ GivenIsFull(j)

Staging == \A j \in Jobs : Stored(j)

(* A part is empty before its first unit, and full for good once it is full. *)
LEMMA PartSizeEnds ==
  ASSUME NEW j \in Jobs, NEW i \in Parts(j)
  PROVE  /\ PartSize(j, 0, i) = 0
         /\ \A n, m \in Nat : PartLimit[j] # 0 /\ PartSize(j, n, i) = PartLimit[j]
              => PartSize(j, n + m, i) = PartLimit[j]
<1>1. PartLimit[j] \in Nat
  BY ArchiveAssumption
<1>2. i \in Int /\ i >= 1
  <2> DEFINE last == (Needed + PartLimit[j] - 1) \div PartLimit[j]
  <2>1. i \in {1} \/ i \in 1 .. last
    BY DEF Parts
  <2> HIDE DEF last
  <2>2. QED
    BY <2>1
<1>3. CASE PartLimit[j] = 0
  BY <1>3 DEF PartSize
<1>4. CASE PartLimit[j] # 0
  <2> DEFINE p == (i - 1) * PartLimit[j]
  <2>1. p \in Int /\ p >= 0
    BY <1>1, <1>2
  <2>2. \A k : PartSize(j, k, i) = Clip(k - p, 0, PartLimit[j])
    BY <1>4 DEF PartSize
  <2> HIDE DEF p
  <2>3. QED
    BY <1>1, <2>1, <2>2 DEF Clip
<1>5. QED
  BY <1>3, <1>4

(* A job whose files, writer, task, stages and readers stay as they are. *)
LEMMA StoredKeeps ==
  ASSUME NEW k \in Jobs, Stored(k),
         files'[k] = files[k], position'[k] = position[k], chunk'[k] = chunk[k],
         handle'[k] = handle[k], packed'[k] = packed[k], task'[k] = task[k],
         rec'[k].stage = rec[k].stage,
         saved'[k].stage = "ready" => "ready" \in {rec[k].stage, saved[k].stage},
         k \in used' <=> k \in used, cut \subseteq cut', process' = "down" => process = "down",
         \A i \in Nat : <<k, i>> \in serving' => <<k, i>> \in serving,
         \A i, n \in Nat : <<k, i, n>> \in given' => <<k, i, n>> \in given
  PROVE  Stored(k)'
<1>1. NewIsEmpty(k)' /\ WriterFollows(k)' /\ NoLateThread(k)'
  BY DEF Stored, NewIsEmpty, WriterFollows, NoLateThread, Live
<1>2. StoredIsWhole(k)'
  BY DEF Stored, StoredIsWhole, Whole
<1>3. ServingIsFull(k)' /\ GivenIsFull(k)'
  BY DEF Stored, ServingIsFull, GivenIsFull, Full, Live
<1>4. QED
  BY <1>1, <1>2, <1>3 DEF Stored

(* A job that was drawn, packs no longer and is not ready: its files may go. *)
LEMMA StoredQuits ==
  ASSUME NEW k \in Jobs, Stored(k), k \in used, k \in used', ~Live(k)',
         rec'[k].stage \notin {"ready", "packing"}, saved'[k].stage = "ready" => saved[k].stage = "ready",
         \A i \in Parts(k) : files'[k][i] = files[k][i] \/ (files'[k][i] = 0 /\ (saved'[k].stage # "ready" \/ k \in cut')),
         chunk'[k] = 0 \/ (chunk'[k] = chunk[k] /\ position'[k] = position[k]),
         cut \subseteq cut', process' = "down" => process = "down" \/ chunk'[k] = 0,
         \A i \in Nat : <<k, i>> \in serving' => <<k, i>> \in serving,
         \A i, n \in Nat : <<k, i, n>> \in given' => <<k, i, n>> \in given
  PROVE  Stored(k)'
<1>1. NewIsEmpty(k)' /\ WriterFollows(k)' /\ NoLateThread(k)'
  BY DEF Stored, NewIsEmpty, WriterFollows, NoLateThread
<1>2. StoredIsWhole(k)'
  BY DEF Stored, StoredIsWhole, Whole
<1>3. ServingIsFull(k)'
  BY DEF Stored, ServingIsFull
<1>4. GivenIsFull(k)'
  BY DEF Stored, GivenIsFull, Full
<1>5. QED
  BY <1>1, <1>2, <1>3, <1>4 DEF Stored

LEMMA StagingInit == Init => Staging
<1> SUFFICES ASSUME Init, NEW j \in Jobs PROVE Stored(j)
  BY DEF Staging
<1>1. NewIsEmpty(j) /\ WriterFollows(j) /\ NoLateThread(j) /\ StoredIsWhole(j)
  BY DEF Init, NewIsEmpty, WriterFollows, NoLateThread, StoredIsWhole, Live, NoRecord
<1>2. ServingIsFull(j) /\ GivenIsFull(j)
  BY DEF Init, ServingIsFull, GivenIsFull
<1>3. QED
  BY <1>1, <1>2 DEF Stored

(* What an action leaves alone of a job it is not about. *)
Undisturbed(k) ==
  /\ files'[k] = files[k] /\ position'[k] = position[k] /\ chunk'[k] = chunk[k]
  /\ handle'[k] = handle[k] /\ packed'[k] = packed[k] /\ task'[k] = task[k]
  /\ rec'[k].stage = rec[k].stage /\ saved'[k].stage = saved[k].stage /\ (k \in used' <=> k \in used)
  /\ \A i \in Nat : <<k, i>> \in serving' => <<k, i>> \in serving
  /\ \A i, n \in Nat : <<k, i, n>> \in given' => <<k, i, n>> \in given

LEMMA StoredElsewhere ==
  ASSUME Staging, NEW j \in Jobs, Stored(j)', \A k \in Jobs \ {j} : Undisturbed(k),
         cut \subseteq cut', process' = "down" => process = "down"
  PROVE  Staging'
<1> SUFFICES ASSUME NEW k \in Jobs \ {j} PROVE Stored(k)'
  BY DEF Staging
<1>1. Stored(k) /\ Undisturbed(k)
  BY DEF Staging
<1>2. QED
  BY <1>1, StoredKeeps DEF Undisturbed

(* A writer that follows its parts and appends to them still follows them. *)
LEMMA AppendedFollows ==
  ASSUME TypeOK, NEW j \in Jobs, NEW n \in Nat, NEW i \in Parts(j)
  PROVE  /\ files[j][i] = PartSize(j, position[j], i) => Appended(j, n)[i] = PartSize(j, position[j] + n, i)
         /\ Full(j, i) => /\ PartLimit[j] # 0 /\ PartSize(j, position[j] + n, i) = PartLimit[j]
                          /\ Appended(j, n)[i] = files[j][i]
<1>1. position[j] \in Nat /\ files[j][i] \in Nat
  BY DEF TypeOK
<1>2. position[j] + n \in Nat
  BY <1>1
<1>3. /\ PartSize(j, position[j], i) \in Nat
      /\ PartSize(j, position[j] + n, i) - PartSize(j, position[j], i) \in Nat
  BY <1>1, PartSizeGrows
<1>4. PartSize(j, position[j] + n, i) \in Nat
  <2> DEFINE m == position[j] + n
  <2> HIDE DEF m
  <2>1. m \in Nat => PartSize(j, m, i) \in Nat
    BY PartSizeGrows
  <2>2. QED
    BY <1>2, <2>1 DEF m
<1>5. Appended(j, n)[i] = files[j][i] + PartSize(j, position[j] + n, i) - PartSize(j, position[j], i)
  BY DEF Appended
<1>6. Full(j, i) => PartLimit[j] # 0 /\ PartSize(j, position[j] + n, i) = PartLimit[j]
  BY <1>1, PartSizeEnds DEF Full
<1> DEFINE a == PartSize(j, position[j], i)
           b == PartSize(j, position[j] + n, i)
<1>7. Full(j, i) => a = b
  BY <1>6 DEF Full
<1> HIDE DEF a, b
<1>8. Appended(j, n)[i] = files[j][i] + b - a /\ a \in Nat /\ b \in Nat
  BY <1>3, <1>4, <1>5 DEF a, b
<1>9. (files[j][i] = a => Appended(j, n)[i] = b) /\ (Full(j, i) => Appended(j, n)[i] = files[j][i])
  BY <1>1, <1>7, <1>8
<1>10. QED
  BY <1>6, <1>9 DEF a, b

(* The way out of the packing task: ready only with every unit written. *)
LEMMA StoredSettles ==
  ASSUME IInv, Staging, NEW j \in Jobs, NEW st \in {"ready", "failed"}, NEW n \in Nat, Settle(j, st, n), Live(j),
         UNCHANGED <<process, used, packed, serving, history>>,
         chunk' = chunk \/ chunk' = [chunk EXCEPT ![j] = 0],
         st = "ready" => chunk[j] = 0 /\ position[j] + n = Needed
  PROVE  Staging'
<1>0. TypeOK /\ Books /\ Stored(j)
  BY DEF IInv, Books, Staging
<1>1. /\ files' = [files EXCEPT ![j] = Appended(j, n)]
      /\ position' = [position EXCEPT ![j] = @ + n]
      /\ handle' = [handle EXCEPT ![j] = "closed"]
      /\ rec' = [rec EXCEPT ![j] = [stage |-> st, staged |-> position[j] + n]]
      /\ saved' = [saved EXCEPT ![j] = [stage |-> st, staged |-> position[j] + n]]
      /\ task' = [task EXCEPT ![j] = "done"]
      /\ UNCHANGED <<process, used, packed, serving, given, cut>>
  BY DEF Settle, Save, history
<1>2. \A k \in Jobs \ {j} : Undisturbed(k)
  BY <1>0, <1>1 DEF TypeOK, Undisturbed
<1>3. /\ files'[j] = Appended(j, n) /\ position'[j] = position[j] + n
      /\ rec'[j].stage = st /\ saved'[j].stage = st /\ ~Live(j)'
      /\ chunk'[j] = chunk[j] \/ chunk'[j] = 0
  BY <1>0, <1>1 DEF TypeOK, Live
<1>4. j \in used /\ process # "down"
  BY <1>0 DEF Books, NewIsUnknown, DownIsIdle, Live
<1>5. \A i \in Parts(j) : /\ files[j][i] = PartSize(j, position[j], i)
                          /\ files'[j][i] = PartSize(j, position'[j], i)
                          /\ Full(j, i) => Full(j, i)' /\ files'[j][i] = files[j][i]
  BY <1>0, <1>3, AppendedFollows DEF Stored, WriterFollows, Full
<1>6. NewIsEmpty(j)' /\ WriterFollows(j)' /\ NoLateThread(j)'
  BY <1>0, <1>1, <1>3, <1>4 DEF NewIsEmpty, WriterFollows, NoLateThread, TypeOK
<1>7. StoredIsWhole(j)'
  BY <1>3, <1>5 DEF StoredIsWhole, Whole
<1>8. ServingIsFull(j)'
  BY <1>0, <1>1, <1>3 DEF Stored, ServingIsFull
<1>9. GivenIsFull(j)'
  BY <1>0, <1>1, <1>3, <1>5 DEF Stored, GivenIsFull
<1>10. Stored(j)'
  BY <1>6, <1>7, <1>8, <1>9 DEF Stored
<1>11. QED
  BY <1>1, <1>2, <1>10, StoredElsewhere

(* A step of the thread: it belongs to the task, or to one that was cancelled. *)
LEMMA StoredThread ==
  ASSUME IInv, Staging, NEW j \in Jobs, ThreadWrite(j)
  PROVE  Staging'
<1>0. TypeOK /\ Books /\ Stored(j) /\ chunk[j] \in Nat /\ position[j] \in Nat
  BY BoundsType DEF IInv, Books, Staging, TypeOK
<1>1. /\ UNCHANGED <<process, rec, saved, used, task, packed, serving, given, cut>>
      /\ chunk[j] > 0
  BY DEF ThreadWrite, archive, calls, history
<1>2. j \in used /\ rec[j].stage # "ready" /\ process # "down"
  BY <1>0, <1>1 DEF Stored, NewIsEmpty, NoLateThread
<1>3. saved[j].stage # "ready"
  BY <1>0, <1>2 DEF Books, ManifestFollows, Lag
<1>4. CASE handle[j] = "closed" /\ ~AtBoundary(j)
  <2>1. chunk' = [chunk EXCEPT ![j] = 0] /\ UNCHANGED <<files, position, handle>>
    BY <1>4 DEF ThreadWrite
  <2>2. \A k \in Jobs \ {j} : Undisturbed(k)
    BY <1>0, <1>1, <2>1 DEF TypeOK, Undisturbed
  <2>3. ~Live(j) /\ rec[j].stage # "packing" /\ chunk'[j] = 0
    BY <1>0, <1>4, <2>1 DEF Stored, WriterFollows, Books, PackingIffLive, TypeOK
  <2>4. Stored(j)'
    BY <1>0, <1>1, <1>2, <1>3, <2>1, <2>3, StoredQuits DEF Live
  <2>5. QED
    BY <1>1, <2>2, <2>4, StoredElsewhere
<1>5. CASE ~(handle[j] = "closed" /\ ~AtBoundary(j))
  <2>1. PICK p \in Nat :
          /\ files' = [files EXCEPT ![j] = Appended(j, p)]
          /\ position' = [position EXCEPT ![j] = @ + p]
          /\ chunk' = [chunk EXCEPT ![j] = @ - p]
          /\ handle' = [handle EXCEPT ![j] = "open"]
    BY <1>0, <1>1, <1>5, PieceType DEF ThreadWrite
  <2>2. \A k \in Jobs \ {j} : Undisturbed(k)
    BY <1>0, <1>1, <2>1 DEF TypeOK, Undisturbed
  <2>3. /\ files'[j] = Appended(j, p) /\ position'[j] = position[j] + p
        /\ chunk'[j] = chunk[j] - p /\ handle'[j] = "open"
    BY <1>0, <2>1 DEF TypeOK
  <2>4. \A i \in Parts(j) : /\ Live(j) => files'[j][i] = PartSize(j, position'[j], i)
                            /\ Full(j, i) => Full(j, i)' /\ files'[j][i] = files[j][i]
    BY <1>0, <2>3, AppendedFollows DEF Stored, WriterFollows, Full
  <2>5. NewIsEmpty(j)' /\ NoLateThread(j)' /\ StoredIsWhole(j)'
    BY <1>1, <1>2, <1>3 DEF NewIsEmpty, NoLateThread, StoredIsWhole
  <2>6. WriterFollows(j)'
    <3> SUFFICES ASSUME Live(j)' PROVE WriterFollows(j)'
      BY DEF WriterFollows
    <3>1. Live(j) /\ task'[j] = task[j] /\ packed'[j] = packed[j]
      BY <1>1 DEF Live
    <3>2. task[j] \notin {"scheduled", "waiting"}
      BY <1>0, <1>1, <3>1 DEF Stored, WriterFollows
    <3>3. task[j] = "writing" => position'[j] + chunk'[j] = packed[j] * ChunkUnits + ChunkUnits
      <4> DEFINE goal == packed[j] * ChunkUnits + ChunkUnits
      <4>1. task[j] = "writing" => position[j] + chunk[j] = goal
        BY <1>0, <3>1 DEF Stored, WriterFollows
      <4> HIDE DEF goal
      <4>2. task[j] = "writing" => position'[j] + chunk'[j] = goal
        BY <1>0, <2>3, <4>1
      <4>3. QED
        BY <4>2 DEF goal
    <3>4. QED
      BY <2>3, <2>4, <3>1, <3>2, <3>3 DEF WriterFollows
  <2>7. ServingIsFull(j)' /\ GivenIsFull(j)'
    BY <1>0, <1>1, <2>4 DEF Stored, ServingIsFull, GivenIsFull, Live
  <2>8. Stored(j)'
    BY <2>5, <2>6, <2>7 DEF Stored
  <2>9. QED
    BY <1>1, <2>2, <2>8, StoredElsewhere
<1>6. QED
  BY <1>4, <1>5

(* Any step of the task. *)
LEMMA StoredTask ==
  ASSUME IInv, Staging, NEW j \in Jobs, Task(j)
  PROVE  Staging'
<1>0. /\ TypeOK /\ Books /\ Stored(j) /\ chunk[j] \in Nat /\ position[j] \in Nat /\ packed[j] \in Nat
      /\ Overhead \in Nat /\ 0 \in Nat /\ ChunkUnits \in Nat /\ Chunks \in Nat
  BY BoundsType DEF IInv, Books, Staging, TypeOK
<1>1. CASE PackStart(j)
  <2>1. /\ task' = [task EXCEPT ![j] = "waiting"] /\ task[j] = "scheduled"
        /\ UNCHANGED <<process, rec, saved, used, files, position, chunk, handle, packed, serving, given, cut>>
    BY <1>1 DEF PackStart, Running, archive, writers, calls, history
  <2>2. \A k \in Jobs \ {j} : Undisturbed(k)
    BY <1>0, <2>1 DEF TypeOK, Undisturbed
  <2>3. task'[j] = "waiting"
    BY <1>0, <2>1 DEF TypeOK
  <2>4. Stored(j)'
    BY <1>0, <2>1, <2>3 DEF Stored, NewIsEmpty, WriterFollows, NoLateThread, StoredIsWhole, Whole,
                            ServingIsFull, GivenIsFull, Full, Live
  <2>5. QED
    BY <2>1, <2>2, <2>4, StoredElsewhere
<1>2. CASE PackChunk(j)
  <2>1. /\ task' = [task EXCEPT ![j] = "writing"] /\ task[j] = "waiting"
        /\ chunk' = [chunk EXCEPT ![j] = ChunkUnits]
        /\ UNCHANGED <<process, rec, saved, used, files, position, handle, packed, serving, given, cut>>
    BY <1>2 DEF PackChunk, Running, archive, calls, history
  <2>2. \A k \in Jobs \ {j} : Undisturbed(k)
    BY <1>0, <2>1 DEF TypeOK, Undisturbed
  <2>3. task'[j] = "writing" /\ chunk'[j] = ChunkUnits /\ Live(j) /\ Live(j)'
    BY <1>0, <2>1 DEF TypeOK, Live
  <2>4. j \in used /\ process # "down" /\ rec[j].stage = "packing"
    BY <1>0, <2>3 DEF Books, NewIsUnknown, DownIsIdle, PackingIffLive, Live
  <2>5. WriterFollows(j)'
    BY <1>0, <2>1, <2>3 DEF Stored, WriterFollows
  <2>6. NewIsEmpty(j)' /\ NoLateThread(j)' /\ StoredIsWhole(j)'
    BY <1>0, <2>1, <2>4 DEF Stored, NewIsEmpty, NoLateThread, StoredIsWhole, Whole
  <2>7. ServingIsFull(j)' /\ GivenIsFull(j)'
    BY <1>0, <2>1, <2>3 DEF Stored, ServingIsFull, GivenIsFull, Full
  <2>8. QED
    BY <2>1, <2>2, <2>5, <2>6, <2>7, StoredElsewhere DEF Stored
<1>3. CASE PackWrote(j)
  <2>1. /\ task' = [task EXCEPT ![j] = "waiting"] /\ task[j] = "writing" /\ chunk[j] = 0
        /\ packed' = [packed EXCEPT ![j] = @ + 1]
        /\ rec' = [rec EXCEPT ![j].staged = position[j]]
        /\ UNCHANGED <<process, saved, used, files, position, chunk, handle, serving, given, cut>>
    BY <1>3 DEF PackWrote, Running, calls, history
  <2>2. \A k \in Jobs \ {j} : Undisturbed(k)
    BY <1>0, <2>1 DEF TypeOK, Undisturbed
  <2>3. /\ task'[j] = "waiting" /\ packed'[j] = packed[j] + 1 /\ rec'[j].stage = rec[j].stage
        /\ Live(j) /\ Live(j)'
    BY <1>0, <2>1 DEF TypeOK, Live, Record
  <2>4. j \in used
    BY <1>0, <2>3 DEF Books, NewIsUnknown, Live
  <2>5. position[j] = packed'[j] * ChunkUnits
    <3>1. position[j] = packed[j] * ChunkUnits + ChunkUnits
      BY <1>0, <2>1, <2>3 DEF Stored, WriterFollows
    <3>2. \A p, c \in Nat : (p + 1) * c = p * c + c
      OBVIOUS
    <3>3. QED
      BY <1>0, <2>3, <3>1, <3>2
  <2>6. WriterFollows(j)'
    BY <1>0, <2>1, <2>3, <2>5 DEF Stored, WriterFollows
  <2>7. NewIsEmpty(j)' /\ NoLateThread(j)' /\ StoredIsWhole(j)'
    BY <1>0, <2>1, <2>3, <2>4 DEF Stored, NewIsEmpty, NoLateThread, StoredIsWhole, Whole
  <2>8. ServingIsFull(j)' /\ GivenIsFull(j)'
    BY <1>0, <2>1, <2>3 DEF Stored, ServingIsFull, GivenIsFull, Full
  <2>9. QED
    BY <2>1, <2>2, <2>6, <2>7, <2>8, StoredElsewhere DEF Stored
<1>4. CASE PackFinish(j)
  <2>1. /\ task[j] = "waiting" /\ packed[j] = Chunks /\ Settle(j, "ready", Overhead)
        /\ UNCHANGED <<process, used, packed, serving, history, chunk>>
    BY <1>4 DEF PackFinish, Running, calls
  <2>2. Live(j) /\ chunk[j] = 0 /\ position[j] + Overhead = Needed
    BY <1>0, <2>1 DEF Stored, WriterFollows, Live, Needed
  <2>3. QED
    BY <1>0, <2>1, <2>2, StoredSettles
<1>5. CASE PackFail(j)
  <2>1. PICK n \in {0, Overhead} : Settle(j, "failed", n)
    BY <1>5 DEF PackFail
  <2>2. /\ Live(j) /\ chunk' = [chunk EXCEPT ![j] = 0]
        /\ UNCHANGED <<process, used, packed, serving, history>>
    BY <1>5 DEF PackFail, Running, Live, calls
  <2>3. QED
    BY <1>0, <2>1, <2>2, StoredSettles
<1>6. CASE PackCancelled(j)
  <2>1. task[j] \in {"waiting", "writing", "draining"}
    BY <1>0, <1>6 DEF PackCancelled, Books, CancelledRuns
  <2>2. UNCHANGED <<process, used, packed, serving, history, chunk, given, cut>>
    BY <1>6 DEF PackCancelled, calls, history
  <2>3. CASE task[j] = "writing"
    <3>1. /\ task' = [task EXCEPT ![j] = "draining"]
          /\ UNCHANGED <<rec, saved, files, position, handle>>
      BY <1>6, <2>3 DEF PackCancelled, TypeOK
    <3>2. \A k \in Jobs \ {j} : Undisturbed(k)
      BY <1>0, <2>2, <3>1 DEF TypeOK, Undisturbed
    <3>3. task'[j] = "draining"
      BY <1>0, <3>1 DEF TypeOK
    <3>4. Stored(j)'
      BY <1>0, <2>2, <2>3, <3>1, <3>3 DEF Stored, NewIsEmpty, WriterFollows, NoLateThread, StoredIsWhole, Whole,
                              ServingIsFull, GivenIsFull, Full, Live
    <3>5. QED
      BY <2>2, <3>2, <3>4, StoredElsewhere
  <2>4. CASE task[j] # "writing"
    <3>1. Settle(j, "failed", Overhead) /\ Live(j)
      BY <1>6, <2>1, <2>4 DEF PackCancelled, Live
    <3>2. QED
      BY <1>0, <2>2, <3>1, StoredSettles
  <2>5. QED
    BY <2>3, <2>4
<1>7. CASE PackDrained(j)
  <2>1. /\ Live(j) /\ Settle(j, "failed", Overhead)
        /\ UNCHANGED <<process, used, packed, serving, history, chunk>>
    BY <1>7 DEF PackDrained, Running, Live, calls
  <2>2. QED
    BY <1>0, <2>1, StoredSettles
<1>8. QED
  BY <1>1, <1>2, <1>3, <1>4, <1>5, <1>6, <1>7 DEF Task

(* Creating a job: it starts with nothing on disk and its writer at the start. *)
LEMMA StoredAdmit ==
  ASSUME IInv, Staging, NEW j \in Jobs, CreateAdmit(j)
  PROVE  Staging'
<1>0. TypeOK /\ Books /\ Stored(j)
  BY DEF IInv, Books, Staging
<1>1. /\ rec' = [rec EXCEPT ![j] = [stage |-> "packing", staged |-> 0]]
      /\ saved' = [saved EXCEPT ![j] = [stage |-> "packing", staged |-> 0]]
      /\ task' = [task EXCEPT ![j] = "scheduled"]
      /\ used' = used \cup {j} /\ j \in planning
      /\ UNCHANGED <<process, files, position, chunk, handle, packed, serving, given, cut>>
  BY DEF CreateAdmit, Save, writers, history
<1>2. \A k \in Jobs \ {j} : Undisturbed(k)
  BY <1>0, <1>1 DEF TypeOK, Undisturbed
<1>3. j \notin used /\ j \in used'
  BY <1>0, <1>1 DEF Books, NewIsUnknown
<1>4. rec'[j].stage = "packing" /\ saved'[j].stage = "packing" /\ task'[j] = "scheduled"
  BY <1>0, <1>1 DEF TypeOK
<1>5. files[j] = Empty(j) /\ position[j] = 0 /\ chunk[j] = 0 /\ handle[j] = "none" /\ packed[j] = 0
  BY <1>0, <1>3 DEF Stored, NewIsEmpty
<1>6. WriterFollows(j)'
  <2>1. \A i \in Parts(j) : files'[j][i] = PartSize(j, position'[j], i)
    BY <1>1, <1>5, PartSizeEnds DEF Empty
  <2>2. position'[j] = packed'[j] * ChunkUnits
    BY <1>1, <1>5, BoundsType
  <2>3. QED
    BY <1>1, <1>4, <1>5, <2>1, <2>2 DEF WriterFollows
<1>7. NewIsEmpty(j)' /\ NoLateThread(j)' /\ StoredIsWhole(j)'
  BY <1>1, <1>3, <1>4, <1>5 DEF NewIsEmpty, NoLateThread, StoredIsWhole
<1>8. ServingIsFull(j)' /\ GivenIsFull(j)'
  BY <1>0, <1>1, <1>3 DEF Stored, ServingIsFull, GivenIsFull
<1>9. QED
  BY <1>1, <1>2, <1>6, <1>7, <1>8, StoredElsewhere DEF Stored

(* A purge removes the parts, but no task and no reader rests on them. *)
LEMMA StoredRemove ==
  ASSUME IInv, Staging, NEW j \in Jobs, Remove(j), ~Live(j), rec[j].stage # "absent",
         UNCHANGED <<process, used, task, position, chunk, handle, packed, serving, given, cut>>
  PROVE  Staging'
<1>0. TypeOK /\ Books /\ Stored(j)
  BY DEF IInv, Books, Staging
<1>1. /\ files' = [files EXCEPT ![j] = Empty(j)]
      /\ rec' = [rec EXCEPT ![j] = [stage |-> "purged", staged |-> 0]]
      /\ saved' = [saved EXCEPT ![j] = [stage |-> "purged", staged |-> 0]]
  BY DEF Remove, Save
<1>2. \A k \in Jobs \ {j} : Undisturbed(k)
  BY <1>0, <1>1 DEF TypeOK, Undisturbed
<1>3. /\ rec'[j].stage = "purged" /\ saved'[j].stage = "purged" /\ files'[j] = Empty(j)
      /\ j \in used /\ ~Live(j)'
  BY <1>0, <1>1 DEF TypeOK, Books, NewIsUnknown, Live
<1>4. \A i \in Parts(j) : files'[j][i] = 0
  BY <1>3 DEF Empty
<1>5. Stored(j)'
  BY <1>0, <1>3, <1>4, StoredQuits
<1>6. QED
  BY <1>2, <1>5, StoredElsewhere

LEMMA StoredRequest ==
  ASSUME IInv, Staging, NEW j \in Jobs, Request(j)
  PROVE  Staging'
<1>0. TypeOK /\ Books /\ Stored(j) /\ Parts(j) \subseteq Nat
  BY PartsAreNumbers DEF IInv, Books, Staging
<1>1. ASSUME UNCHANGED <<process, rec, saved, used, files, task, position, chunk, handle, packed, serving, given, cut>>
      PROVE  Staging'
  BY <1>1, StoredKeeps DEF Staging
<1>2. CASE CreateBegin(j)
  BY <1>1, <1>2 DEF CreateBegin, archive, writers, history
<1>3. CASE CreateRefuse(j)
  BY <1>1, <1>3 DEF CreateRefuse, archive, writers, history
<1>4. CASE CreateAdmit(j)
  BY <1>4, StoredAdmit
<1>5. ASSUME NEW open, Control(j, open) PROVE Staging'
  <2>1. /\ saved' = [saved EXCEPT ![j] = rec[j]]
        /\ UNCHANGED <<process, rec, used, files, task, position, chunk, handle, packed, serving, given, cut>>
    BY <1>5 DEF Control, writers, calls, history
  <2>2. saved'[j] = rec[j] /\ \A k \in Jobs \ {j} : Undisturbed(k)
    BY <1>0, <2>1 DEF TypeOK, Undisturbed
  <2>3. Stored(j)'
    BY <1>0, <2>1, <2>2, StoredKeeps
  <2>4. QED
    BY <2>1, <2>2, <2>3, StoredElsewhere
<1>6. CASE Forget(j)
  <2>1. /\ saved' = [saved EXCEPT ![j] = NoRecord] /\ rec[j].stage = "purged"
        /\ \/ rec' = [rec EXCEPT ![j] = NoRecord] /\ task' = [task EXCEPT ![j] = "none"]
           \/ UNCHANGED <<rec, task>>
        /\ UNCHANGED <<process, used, files, position, chunk, handle, packed, serving, given, cut>>
    BY <1>6 DEF Forget, writers, calls, history
  <2>2. \A k \in Jobs \ {j} : Undisturbed(k)
    BY <1>0, <2>1 DEF TypeOK, Undisturbed
  <2>3. j \in used /\ ~Live(j)
    BY <1>0, <2>1 DEF Books, NewIsUnknown, PackingIffLive
  <2>4. saved'[j].stage = "absent" /\ rec'[j].stage \in {"purged", "absent"} /\ ~Live(j)'
    BY <1>0, <2>1, <2>3 DEF TypeOK, NoRecord, Live
  <2>5. Stored(j)'
    BY <1>0, <2>1, <2>3, <2>4, StoredQuits
  <2>6. QED
    BY <2>1, <2>2, <2>5, StoredElsewhere
<1>7. CASE PurgeBegin(j)
  BY <1>1, <1>7 DEF PurgeBegin, archive, writers, history
<1>8. CASE PurgeNow(j)
  BY <1>8, StoredRemove DEF PurgeNow, writers, calls, history
<1>9. CASE PurgeEnd(j)
  <2>1. UNCHANGED <<process, used, task, position, chunk, handle, packed, serving, given, cut>> /\ ~Live(j)
    BY <1>9 DEF PurgeEnd, writers, history
  <2>2. CASE rec[j].stage = "absent"
    BY <1>1, <1>9, <2>1, <2>2 DEF PurgeEnd
  <2>3. CASE rec[j].stage # "absent"
    BY <1>9, <2>1, <2>3, StoredRemove DEF PurgeEnd
  <2>4. QED
    BY <2>2, <2>3
<1>10. ASSUME NEW i \in Parts(j), PartBegin(j, i) PROVE Staging'
  <2>1. /\ serving' = serving \cup {<<j, i>>} /\ PartReady(j, i)
        /\ UNCHANGED <<process, rec, saved, used, files, task, position, chunk, handle, packed, given, cut>>
    BY <1>10 DEF PartBegin, archive, writers, history
  <2>2. \A k \in Jobs \ {j} : Undisturbed(k)
    BY <2>1 DEF Undisturbed
  <2>3. j \in used /\ (rec[j].stage = "packing" => Full(j, i))
    BY <1>0, <2>1 DEF PartReady, Books, NewIsUnknown, Full
  <2>4. NewIsEmpty(j)' /\ WriterFollows(j)' /\ NoLateThread(j)' /\ StoredIsWhole(j)' /\ GivenIsFull(j)'
    BY <1>0, <2>1 DEF Stored, NewIsEmpty, WriterFollows, NoLateThread, StoredIsWhole, Whole, GivenIsFull, Full, Live
  <2>5. ServingIsFull(j)'
    BY <1>0, <2>1, <2>3 DEF Stored, ServingIsFull, Full
  <2>6. QED
    BY <2>1, <2>2, <2>4, <2>5, StoredElsewhere DEF Stored
<1>11. ASSUME NEW i \in Parts(j), PartRefuse(j, i) PROVE Staging'
  <2>1. /\ serving' \subseteq serving
        /\ UNCHANGED <<process, rec, saved, used, files, task, position, chunk, handle, packed, given, cut>>
    BY <1>11 DEF PartRefuse, archive, writers, history
  <2>2. QED
    BY <2>1, StoredKeeps DEF Staging
<1>12. ASSUME NEW i \in Parts(j), PartSend(j, i) PROVE Staging'
  <2>1. /\ <<j, i>> \in serving /\ serving' \subseteq serving
        /\ saved' = [saved EXCEPT ![j] =
             IF rec[j].stage = "absent" THEN [stage |-> "purged", staged |-> 0] ELSE rec[j]]
        /\ \/ given' = given \cup {<<j, i, files[j][i]>>} /\ rec[j].stage = "packing"
           \/ given' = given
        /\ UNCHANGED <<process, rec, used, files, task, position, chunk, handle, packed, cut>>
    BY <1>12 DEF PartSend, writers
  <2>2. \A k \in Jobs \ {j} : Undisturbed(k)
    BY <1>0, <2>1 DEF TypeOK, Undisturbed
  <2>3. j \in used /\ i \in Parts(j) /\ i \in Nat /\ (rec[j].stage = "packing" => Full(j, i))
    BY <1>0, <2>1 DEF Stored, ServingIsFull
  <2>4. rec[j].stage = "packing" => files[j][i] = PartLimit[j]
    BY <1>0, <2>3 DEF Stored, WriterFollows, Books, PackingIffLive, Full
  <2>5. saved'[j].stage = "ready" => rec[j].stage = "ready"
    BY <1>0, <2>1 DEF TypeOK
  <2>6. NewIsEmpty(j)' /\ WriterFollows(j)' /\ NoLateThread(j)' /\ ServingIsFull(j)'
    BY <1>0, <2>1 DEF Stored, NewIsEmpty, WriterFollows, NoLateThread, ServingIsFull, Full, Live
  <2>7. StoredIsWhole(j)'
    BY <1>0, <2>1, <2>5 DEF Stored, StoredIsWhole, Whole
  <2>8. GivenIsFull(j)'
    BY <1>0, <2>1, <2>3, <2>4 DEF Stored, GivenIsFull, Full, Live
  <2>9. QED
    BY <2>1, <2>2, <2>6, <2>7, <2>8, StoredElsewhere DEF Stored
<1>13. QED
  BY <1>2, <1>3, <1>4, <1>5, <1>6, <1>7, <1>8, <1>9, <1>10, <1>11, <1>12 DEF Request, Pause, Resume

(* When the process stops, what is on disk stays, but for a purge cut short. *)
LEMMA StoredLost ==
  ASSUME IInv, Staging, Lost, cut \subseteq cut', NEW j \in Jobs,
         \/ files'[j] = files[j]
         \/ j \in used /\ j \in cut' /\ \A i \in Parts(j) : files'[j][i] \in {0, files[j][i]}
  PROVE  Stored(j)'
<1>0. Stored(j)
  BY DEF Staging
<1>1. /\ ~Live(j)' /\ rec'[j].stage = "absent" /\ chunk'[j] = 0 /\ position'[j] = 0
      /\ handle'[j] = "none" /\ packed'[j] = 0
      /\ serving' = {} /\ UNCHANGED <<saved, used, given>>
  BY DEF Lost, Live, NoRecord
<1>2. NewIsEmpty(j)' /\ WriterFollows(j)' /\ NoLateThread(j)' /\ ServingIsFull(j)'
  BY <1>0, <1>1 DEF Stored, NewIsEmpty, WriterFollows, NoLateThread, ServingIsFull
<1>3. StoredIsWhole(j)'
  BY <1>0, <1>1 DEF Stored, StoredIsWhole, Whole
<1>4. GivenIsFull(j)'
  BY <1>0, <1>1 DEF Stored, GivenIsFull
<1>5. QED
  BY <1>2, <1>3, <1>4 DEF Stored

LEMMA StoredService ==
  ASSUME IInv, Staging, Service
  PROVE  Staging'
<1>0. TypeOK /\ Books
  BY DEF IInv, Books
<1>1. CASE Crash \/ Exit
  BY <1>1, StoredLost DEF Crash, Exit, Staging
<1>2. ASSUME NEW j \in Jobs, CrashInPurge(j) PROVE Staging'
  <2>1. PICK kept \in SUBSET {i \in Parts(j) : files[j][i] > 0} :
          files' = [files EXCEPT ![j] = [i \in Parts(j) |-> IF i \in kept THEN @[i] ELSE 0]]
    BY <1>2 DEF CrashInPurge
  <2>2. cut' = cut \cup {j} /\ Lost /\ j \in used
    BY <1>0, <1>2 DEF CrashInPurge, Books, NewIsUnknown
  <2>3. /\ \A k \in Jobs \ {j} : files'[k] = files[k]
        /\ \A i \in Parts(j) : files'[j][i] \in {0, files[j][i]}
    BY <1>0, <2>1 DEF TypeOK
  <2>4. QED
    BY <2>2, <2>3, StoredLost DEF Staging
<1>3. CASE Shutdown
  <2>1. /\ process' = "stopping"
        /\ UNCHANGED <<rec, saved, used, files, task, position, chunk, handle, packed, serving, given, cut>>
    BY <1>3 DEF Shutdown, archive, writers, calls, history
  <2>2. QED
    BY <2>1, StoredKeeps DEF Staging
<1>4. CASE Start
  <2> SUFFICES ASSUME NEW j \in Jobs PROVE Stored(j)'
    BY DEF Staging
  <2>1. /\ process = "down" /\ process' = "up"
        /\ rec' = [k \in Jobs |-> IF saved[k].stage = "packing"
                                  THEN [saved[k] EXCEPT !.stage = "failed"] ELSE saved[k]]
        /\ UNCHANGED <<saved, used, files, task, position, chunk, handle, packed, serving, given, cut>>
    BY <1>4 DEF Start, writers, calls
  <2>2. Stored(j) /\ chunk[j] \in Nat
    BY <1>0, BoundsType DEF Staging, TypeOK
  <2>3. ~Live(j) /\ ~Live(j)' /\ chunk[j] = 0 /\ serving = {}
    BY <1>0, <2>1, <2>2 DEF Books, DownIsIdle, Live, Stored, NoLateThread
  <2>4. rec'[j].stage = "ready" => saved[j].stage = "ready"
    BY <1>0, <2>1 DEF TypeOK, Record
  <2>5. NewIsEmpty(j)' /\ WriterFollows(j)' /\ NoLateThread(j)' /\ ServingIsFull(j)'
    BY <2>1, <2>2, <2>3 DEF Stored, NewIsEmpty, WriterFollows, NoLateThread, ServingIsFull
  <2>6. StoredIsWhole(j)'
    BY <2>1, <2>2, <2>4 DEF Stored, StoredIsWhole, Whole
  <2>7. GivenIsFull(j)'
    BY <2>1, <2>2, <2>3 DEF Stored, GivenIsFull, Full
  <2>8. QED
    BY <2>5, <2>6, <2>7 DEF Stored
<1>5. QED
  BY <1>1, <1>2, <1>3, <1>4 DEF Service

THEOREM StagingStep == IInv /\ Staging /\ [Next]_vars => Staging'
<1> SUFFICES ASSUME IInv, Staging, [Next]_vars PROVE Staging'
  OBVIOUS
<1>1. CASE UNCHANGED vars
  <2>1. UNCHANGED <<process, rec, saved, used, files, task, position, chunk, handle, packed, serving, given, cut>>
    BY <1>1 DEF vars, archive, writers, calls, history
  <2>2. QED
    BY <2>1, StoredKeeps DEF Staging
<1>2. CASE Next
  BY <1>2, StoredRequest, StoredTask, StoredThread, StoredService DEF Next
<1>3. QED
  BY <1>1, <1>2

(* Parts, writers, threads and readers agree in every state. *)
THEOREM StagingCorrect == Spec => []Staging
<1>1. Spec => []IInv
  BY BookkeepingCorrect
<1>2. QED
  BY <1>1, StagingInit, StagingStep, PTL DEF Spec

(* A job told to be ready has all its parts in full (jobs.py 208-220), after
   any crash or restart, unless a crash cut its purge short. *)
THEOREM ReadyCorrect == Spec => []ReadyIsWhole
<1>1. Staging => ReadyIsWhole
  BY DEF Staging, Stored, StoredIsWhole, Whole, ReadyIsWhole
<1>2. QED
  BY <1>1, StagingCorrect, PTL

(* A part handed out while its job packs never changes its size afterwards
   (jobs.py 47-48, http.py 416), though a cancelled task's thread still writes. *)
THEOREM ServedCorrect == Spec => []ServedIsFinal
<1>1. TypeOK /\ Staging => ServedIsFinal
  <2> SUFFICES ASSUME TypeOK, Staging, NEW g \in given PROVE files[g[1]][g[2]] \in {0, g[3]}
    BY DEF ServedIsFinal
  <2>1. PICK j \in Jobs, i \in Nat, n \in Nat : g = <<j, i, n>>
    BY DEF TypeOK
  <2>2. files[j][i] \in {0, n}
    BY <2>1 DEF Staging, Stored, GivenIsFull
  <2>3. QED
    BY <2>1, <2>2
<1>2. QED
  BY <1>1, StagingCorrect, TypeCorrect, PTL

-----------------------------------------------------------------------------
(* Sums over finite sets *)

(* A collection of subsets of a finite set has a smallest member. *)
LEMMA Smallest ==
  ASSUME NEW S, IsFiniteSet(S), NEW T \in SUBSET SUBSET S, T # {}
  PROVE  \E x \in T : \A y \in T : y \subseteq x => y = x
<1> DEFINE R == StrictSubsetOrdering(S)
<1>1. IsWellFoundedOn(R, SUBSET S)
  BY FS_FiniteSubsetsOfFinite, FS_StrictSubsetOrderingWellFounded
<1> HIDE DEF R
<1>2. \E x \in T : \A y \in T : ~(<<y, x>> \in R)
  BY <1>1, WFMin
<1>3. QED
  BY <1>2 DEF R, StrictSubsetOrdering

(* The element a sum takes next, and the function by which it counts. *)
Pick(s) == CHOOSE x \in s : TRUE
Sums(f, S, g) == g = [s \in SUBSET S |-> IF s = {} THEN 0 ELSE f[Pick(s)] + g[s \ {Pick(s)}]]
Partial(f, S) == CHOOSE g : Sums(f, S, g)

(* A sum, as Functions defines it, is the last value of that function. *)
LEMMA SumDef ==
  ASSUME NEW f, NEW S PROVE SumFunctionOnSet(f, S) = Partial(f, S)[S]
BY Zenon DEF SumFunctionOnSet, FoldFunctionOnSet, MapThenFoldSet, Partial, Sums, Pick

(* What the function has at each set. *)
LEMMA SumsAre ==
  ASSUME NEW f, NEW S, NEW g, Sums(f, S, g)
  PROVE  \A s \in SUBSET S : g[s] = IF s = {} THEN 0 ELSE f[Pick(s)] + g[s \ {Pick(s)}]
BY DEF Sums

LEMMA PickIn == \A s : s # {} => Pick(s) \in s
BY DEF Pick

(* Two such functions agree on the sets that both have. *)
LEMMA SumsAgree ==
  ASSUME NEW f, NEW A, NEW B, NEW g, NEW h, Sums(f, A, g), Sums(f, B, h), 
         NEW S, IsFiniteSet(S), S \subseteq A, S \subseteq B
  PROVE  g[S] = h[S]
<1> DEFINE Bad == {s \in SUBSET S : g[s] # h[s]}
<1>1. SUFFICES ASSUME Bad # {} PROVE FALSE
  OBVIOUS
<1>2. PICK s \in Bad : \A r \in Bad : r \subseteq s => r = s
  <2> HIDE DEF Bad
  <2>1. Bad \in SUBSET SUBSET S
    BY DEF Bad
  <2>2. QED
    BY <1>1, <2>1, Smallest
<1>3. s # {} => g[s \ {Pick(s)}] = h[s \ {Pick(s)}]
  BY <1>2, PickIn
<1>4. QED
  BY <1>2, <1>3, SumsAre

(* There is such a function: its value at a set is that of the function of a smaller set. *)
LEMMA SumsExist ==
  ASSUME NEW f, NEW S, IsFiniteSet(S)
  PROVE  Sums(f, S, Partial(f, S))
<1> DEFINE Bad == {s \in SUBSET S : ~Sums(f, s, Partial(f, s))}
<1>1. SUFFICES ASSUME Bad # {} PROVE FALSE
  OBVIOUS
<1>2. PICK T \in Bad : \A r \in Bad : r \subseteq T => r = T
  <2> HIDE DEF Bad
  <2>1. Bad \in SUBSET SUBSET S
    BY DEF Bad
  <2>2. QED
    BY <1>1, <2>1, Smallest
<1>3. T \in SUBSET S /\ \A r \in SUBSET T : r # T => Sums(f, r, Partial(f, r)) /\ IsFiniteSet(r)
  BY <1>2, FS_Subset
<1> DEFINE h == [s \in SUBSET T |-> IF s = {} THEN 0 ELSE f[Pick(s)] + Partial(f, s \ {Pick(s)})[s \ {Pick(s)}]]
<1>4. \A r \in SUBSET T : r # T => h[r] = Partial(f, r)[r]
  <2> SUFFICES ASSUME NEW r \in SUBSET T, r # T PROVE h[r] = Partial(f, r)[r]
    OBVIOUS
  <2>1. Partial(f, r)[r] = IF r = {} THEN 0 ELSE f[Pick(r)] + Partial(f, r)[r \ {Pick(r)}]
    BY <1>3, SumsAre
  <2>2. CASE r = {}
    BY <2>1, <2>2
  <2>3. CASE r # {}
    <3> DEFINE q == r \ {Pick(r)}
    <3>1. q \in SUBSET T /\ q # T /\ q \subseteq r
      BY <2>3, PickIn
    <3>2. Partial(f, r)[q] = Partial(f, q)[q]
      BY <1>3, <3>1, SumsAgree
    <3>3. QED
      BY <2>1, <2>3, <3>2
  <2>4. QED
    BY <2>2, <2>3
<1>5. Sums(f, T, h)
  <2>1. \A s \in SUBSET T : s # {} => h[s \ {Pick(s)}] = Partial(f, s \ {Pick(s)})[s \ {Pick(s)}]
    <3> HIDE DEF h
    <3> SUFFICES ASSUME NEW s \in SUBSET T, s # {} PROVE h[s \ {Pick(s)}] = Partial(f, s \ {Pick(s)})[s \ {Pick(s)}]
      OBVIOUS
    <3>1. s \ {Pick(s)} \in SUBSET T /\ s \ {Pick(s)} # T
      BY PickIn
    <3>2. QED
      BY <1>4, <3>1
  <2>2. h = [s \in SUBSET T |-> IF s = {} THEN 0 ELSE f[Pick(s)] + h[s \ {Pick(s)}]]
    BY <2>1
  <2> HIDE DEF h
  <2>3. QED
    BY <2>2 DEF Sums
<1>6. Sums(f, T, Partial(f, T))
  <2> HIDE DEF h
  <2>1. QED
    BY <1>5 DEF Partial
<1>7. QED
  BY <1>2, <1>6

Sum(f, S) == SumFunctionOnSet(f, S)

(* The laws of sums. *)
LEMMA SumEmpty == \A f : Sum(f, {}) = 0
<1> SUFFICES ASSUME NEW f PROVE Sum(f, {}) = 0
  OBVIOUS
<1>1. Sums(f, {}, Partial(f, {}))
  BY SumsExist, FS_EmptySet
<1>2. QED
  BY <1>1, SumDef, SumsAre DEF Sum

LEMMA SumPick ==
  ASSUME NEW f, NEW S, IsFiniteSet(S), S # {}
  PROVE  Sum(f, S) = f[Pick(S)] + Sum(f, S \ {Pick(S)})
<1>1. Sums(f, S, Partial(f, S))
  BY SumsExist
<1> DEFINE q == S \ {Pick(S)}
<1>2. Partial(f, S)[S] = f[Pick(S)] + Partial(f, S)[q]
  BY <1>1, SumsAre
<1>3. IsFiniteSet(q)
  BY FS_Subset
<1>4. Sums(f, q, Partial(f, q))
  BY <1>3, SumsExist
<1>5. Partial(f, S)[q] = Partial(f, q)[q]
  BY <1>1, <1>3, <1>4, SumsAgree
<1>6. QED
  BY <1>2, <1>5, SumDef DEF Sum

LEMMA SumInt ==
  ASSUME NEW f, NEW S, IsFiniteSet(S), \A x \in S : f[x] \in Int
  PROVE  Sum(f, S) \in Int
<1> DEFINE Bad == {s \in SUBSET S : Sum(f, s) \notin Int}
<1>1. SUFFICES ASSUME Bad # {} PROVE FALSE
  OBVIOUS
<1>2. PICK s \in Bad : \A r \in Bad : r \subseteq s => r = s
  <2> HIDE DEF Bad
  <2>1. Bad \in SUBSET SUBSET S
    BY DEF Bad
  <2>2. QED
    BY <1>1, <2>1, Smallest
<1>3. s # {}
  <2>1. Sum(f, {}) = 0
    BY SumEmpty
  <2>2. Sum(f, s) \notin Int
    BY <1>2
  <2>3. QED
    BY <2>1, <2>2
<1>4. Sum(f, s) = f[Pick(s)] + Sum(f, s \ {Pick(s)})
  BY <1>2, <1>3, SumPick, FS_Subset
<1>5. Sum(f, s \ {Pick(s)}) \in Int
  BY <1>2, <1>3, PickIn
<1>6. QED
  BY <1>2, <1>3, <1>4, <1>5, PickIn

(* The order of a sum does not matter: any element may be taken first. *)
LEMMA SumTakes ==
  ASSUME NEW f, NEW S, IsFiniteSet(S), \A x \in S : f[x] \in Int, NEW e \in S
  PROVE  Sum(f, S) = f[e] + Sum(f, S \ {e})
<1> DEFINE Bad == {s \in SUBSET S : \E x \in s : Sum(f, s) # f[x] + Sum(f, s \ {x})}
<1>1. SUFFICES ASSUME Bad # {} PROVE FALSE
  OBVIOUS
<1>2. PICK s \in Bad : \A r \in Bad : r \subseteq s => r = s
  <2> HIDE DEF Bad
  <2>1. Bad \in SUBSET SUBSET S
    BY DEF Bad
  <2>2. QED
    BY <1>1, <2>1, Smallest
<1>3. PICK x \in s : Sum(f, s) # f[x] + Sum(f, s \ {x})
  BY <1>2
<1> DEFINE y == Pick(s)
           q == s \ {x, y}
<1>4. y \in s /\ s \in SUBSET S
  BY <1>2, PickIn
<1>5. Sum(f, s) = f[y] + Sum(f, s \ {y})
  BY <1>2, SumPick, FS_Subset
<1> HIDE DEF y
<1>6. x # y
  BY <1>3, <1>5
<1>7. Sum(f, s \ {y}) = f[x] + Sum(f, q)
  <2>1. s \ {y} \notin Bad /\ s \ {y} \in SUBSET S /\ x \in s \ {y}
    BY <1>2, <1>4, <1>6
  <2>2. (s \ {y}) \ {x} = q
    OBVIOUS
  <2>3. QED
    BY <2>1, <2>2
<1>8. Sum(f, s \ {x}) = f[y] + Sum(f, q)
  <2>1. s \ {x} \notin Bad /\ s \ {x} \in SUBSET S /\ y \in s \ {x}
    BY <1>2, <1>4, <1>6
  <2>2. (s \ {x}) \ {y} = q
    OBVIOUS
  <2>3. QED
    BY <2>1, <2>2
<1>9. f[x] \in Int /\ f[y] \in Int /\ Sum(f, q) \in Int
  <2>1. IsFiniteSet(q) /\ \A z \in q : f[z] \in Int
    BY <1>4, FS_Subset
  <2>2. QED
    BY <1>4, <2>1, SumInt
<1> HIDE DEF q
<1>10. QED
  BY <1>3, <1>5, <1>7, <1>8, <1>9

(* A sum of sums is taken term by term. *)
LEMMA SumPlus ==
  ASSUME NEW f, NEW g, NEW h, NEW S, IsFiniteSet(S), NEW T \in SUBSET S,
         \A x \in S : f[x] \in Int /\ h[x] \in Int,
         \A x \in T : g[x] \in Int,
         \A x \in S : h[x] = f[x] + (IF x \in T THEN g[x] ELSE 0)
  PROVE  Sum(h, S) = Sum(f, S) + Sum(g, T)
<1> DEFINE Bad == {s \in SUBSET S : ~(Sum(h, s) = Sum(f, s) + Sum(g, s \cap T))}
<1>1. SUFFICES ASSUME Bad # {} PROVE FALSE
  <2>1. S \cap T = T
    OBVIOUS
  <2>2. QED
    BY <2>1
<1>2. PICK s \in Bad : \A r \in Bad : r \subseteq s => r = s
  <2> HIDE DEF Bad
  <2>1. Bad \in SUBSET SUBSET S
    BY DEF Bad
  <2>2. QED
    BY <1>1, <2>1, Smallest
<1>3. s # {}
  <2>1. Sum(f, {}) = 0 /\ Sum(g, {}) = 0 /\ Sum(h, {}) = 0
    BY SumEmpty
  <2>2. ~(Sum(h, s) = Sum(f, s) + Sum(g, s \cap T))
    BY <1>2
  <2>3. SUFFICES ASSUME s = {} PROVE FALSE
    OBVIOUS
  <2>4. Sum(h, s) = 0 /\ Sum(f, s) = 0
    BY <2>1, <2>3
  <2>5. s \cap T = {}
    BY <2>3
  <2>6. Sum(g, s \cap T) = 0
    BY <2>1, <2>5
  <2>7. QED
    BY <2>2, <2>4, <2>6
<1>4. PICK x \in s : TRUE
  BY <1>3
<1> DEFINE r == s \ {x}
<1>5. Sum(h, r) = Sum(f, r) + Sum(g, r \cap T)
  BY <1>2
<1>6. Sum(h, s) = h[x] + Sum(h, r) /\ Sum(f, s) = f[x] + Sum(f, r)
  BY <1>2, SumTakes, FS_Subset
<1>7. Sum(g, s \cap T) = (IF x \in T THEN g[x] ELSE 0) + Sum(g, r \cap T)
  <2>1. CASE x \in T
    <3>1. IsFiniteSet(s \cap T) /\ x \in s \cap T /\ (s \cap T) \ {x} = r \cap T /\ \A z \in s \cap T : g[z] \in Int
      BY <1>2, <2>1, FS_Subset
    <3>2. QED
      BY <2>1, <3>1, SumTakes
  <2>2. CASE x \notin T
    <3>1. s \cap T = r \cap T
      BY <2>2
    <3>2. IsFiniteSet(r \cap T) /\ \A z \in r \cap T : g[z] \in Int
      BY <1>2, FS_Subset
    <3> DEFINE v == Sum(g, r \cap T)
    <3>3. v \in Int
      BY <3>2, SumInt
    <3>4. Sum(g, s \cap T) = v
      BY <3>1
    <3> HIDE DEF v
    <3>5. Sum(g, s \cap T) = (IF x \in T THEN g[x] ELSE 0) + v
      BY <2>2, <3>3, <3>4
    <3>6. QED
      BY <3>5 DEF v
  <2>3. QED
    BY <2>1, <2>2
<1>8. Sum(h, r) \in Int /\ Sum(f, r) \in Int /\ Sum(g, r \cap T) \in Int
  <2>1. IsFiniteSet(r) /\ r \subseteq S /\ IsFiniteSet(r \cap T)
    BY <1>2, FS_Subset
  <2>2. QED
    BY <2>1, SumInt
<1>9. h[x] = f[x] + (IF x \in T THEN g[x] ELSE 0) /\ h[x] \in Int /\ f[x] \in Int /\ (x \in T => g[x] \in Int)
  BY <1>2
<1>10. s \in Bad => ~(Sum(h, s) = Sum(f, s) + Sum(g, s \cap T))
  OBVIOUS
<1> HIDE DEF r, Bad
<1>11. QED
  BY <1>2, <1>5, <1>6, <1>7, <1>8, <1>9, <1>10

(* Greater terms have a greater sum. *)
LEMMA SumGrows ==
  ASSUME NEW f, NEW h, NEW S, IsFiniteSet(S), \A x \in S : f[x] \in Int /\ h[x] \in Int /\ h[x] <= f[x]
  PROVE  Sum(h, S) <= Sum(f, S)
<1> DEFINE Bad == {s \in SUBSET S : ~(Sum(h, s) <= Sum(f, s))}
<1>1. SUFFICES ASSUME Bad # {} PROVE FALSE
  OBVIOUS
<1>2. PICK s \in Bad : \A r \in Bad : r \subseteq s => r = s
  <2> HIDE DEF Bad
  <2>1. Bad \in SUBSET SUBSET S
    BY DEF Bad
  <2>2. QED
    BY <1>1, <2>1, Smallest
<1>3. s # {}
  <2>1. Sum(f, {}) = 0 /\ Sum(h, {}) = 0
    BY SumEmpty
  <2>2. ~(Sum(h, s) <= Sum(f, s))
    BY <1>2
  <2>3. QED
    BY <2>1, <2>2
<1>4. PICK x \in s : TRUE
  BY <1>3
<1> DEFINE r == s \ {x}
<1>5. Sum(h, r) <= Sum(f, r)
  BY <1>2
<1>6. Sum(h, s) = h[x] + Sum(h, r) /\ Sum(f, s) = f[x] + Sum(f, r)
  BY <1>2, SumTakes, FS_Subset
<1>7. Sum(h, r) \in Int /\ Sum(f, r) \in Int
  BY <1>2, SumInt, FS_Subset
<1>8. h[x] \in Int /\ f[x] \in Int /\ h[x] <= f[x] /\ ~(Sum(h, s) <= Sum(f, s))
  BY <1>2
<1> HIDE DEF r
<1>9. QED
  BY <1>5, <1>6, <1>7, <1>8

LEMMA SumZero ==
  ASSUME NEW f, NEW S, IsFiniteSet(S), \A x \in S : f[x] = 0
  PROVE  Sum(f, S) = 0
<1>1. Sum(f, S) \in Int
  BY SumInt
<1>2. Sum(f, S) = Sum(f, S) + Sum(f, S)
  <2>1. \A x \in S : f[x] = f[x] + (IF x \in S THEN f[x] ELSE 0)
    OBVIOUS
  <2>2. QED
    BY <2>1, SumPlus
<1> DEFINE v == Sum(f, S)
<1> HIDE DEF v
<1>3. v \in Int /\ v = v + v
  BY <1>1, <1>2 DEF v
<1>4. v = 0
  BY <1>3
<1>5. QED
  BY <1>4 DEF v

LEMMA PartSizeAt ==
  ASSUME NEW j \in Jobs, NEW n \in Nat, NEW i \in Parts(j)
  PROVE  PartSize(j, n, i) \in Nat
<1>1. 0 \in Nat
  OBVIOUS
<1>2. QED
  BY <1>1, PartSizeGrows

(* A set of numbers up to a bound has a least one. *)
LEMMA Least ==
  ASSUME NEW m \in Nat, NEW B \in SUBSET (0 .. m), B # {}
  PROVE  \E k \in B : \A i \in B : ~(i < k)
<1> DEFINE Heads == {0 .. i : i \in B}
           Upto == 0 .. m
<1>1. Heads \in SUBSET SUBSET Upto /\ Heads # {}
  <2>1. \A i \in B : 0 .. i \in SUBSET (0 .. m)
    OBVIOUS
  <2>2. QED
    BY <2>1
<1>2. IsFiniteSet(Upto)
  BY FS_Interval
<1> HIDE DEF Heads, Upto
<1>3. PICK x \in Heads : \A y \in Heads : y \subseteq x => y = x
  BY <1>1, <1>2, Smallest
<1>4. PICK k \in B : x = 0 .. k
  BY DEF Heads
<1>5. SUFFICES ASSUME NEW i \in B, i < k PROVE FALSE
  OBVIOUS
<1>6. 0 .. i \in Heads
  BY DEF Heads
<1>7. 0 .. i \subseteq 0 .. k /\ k \in 0 .. k /\ k \notin 0 .. i
  BY <1>5
<1>8. QED
  BY <1>3, <1>4, <1>6, <1>7

(* The units of an archive are those of its parts. *)
LEMMA PartsMakeUp ==
  ASSUME NEW j \in Jobs, NEW n \in 0 .. Needed, NEW f, \A i \in Parts(j) : f[i] = PartSize(j, n, i)
  PROVE  Sum(f, Parts(j)) = n
<1>1. PartLimit[j] \in Nat /\ n \in Nat /\ Needed \in Nat /\ n <= Needed
  BY ArchiveAssumption
<1>2. CASE PartLimit[j] = 0
  <2>1. f[1] = n /\ Parts(j) = {1} /\ {1} \ {1} = {}
    BY <1>2 DEF Parts, PartSize
  <2>2. IsFiniteSet({1})
    BY FS_Singleton
  <2>3. Sum(f, {1}) = f[1] + Sum(f, {1} \ {1})
    BY <1>1, <2>1, <2>2, SumTakes
  <2>4. Sum(f, {}) = 0
    BY SumEmpty
  <2>5. QED
    BY <1>1, <2>1, <2>3, <2>4
<1>3. CASE PartLimit[j] # 0
  <2> DEFINE L == PartLimit[j]
             last == (Needed + L - 1) \div L
  <2>1. L \in Nat /\ L > 0
    BY <1>1, <1>3
  <2>2. last \in Nat /\ last * L >= Needed /\ Parts(j) = 1 .. last
    <3>1. Parts(j) = 1 .. last
      BY <1>3 DEF Parts
    <3>2. \A a, b \in Nat : b > 0 => a \div b \in Nat /\ a = b * (a \div b) + (a % b) /\ 0 <= a % b /\ a % b < b
      OBVIOUS
    <3> HIDE DEF L
    <3> DEFINE a == Needed + L - 1
               r == a % L
    <3>3. a \in Nat
      BY <1>1, <2>1
    <3> HIDE DEF a
    <3>4. last \in Nat /\ a = L * last + r /\ 0 <= r /\ r < L /\ r \in Int
      BY <2>1, <3>2, <3>3 DEF a
    <3> HIDE DEF last, r
    <3> DEFINE m == L * last
    <3>5. m \in Nat /\ last * L = m
      BY <2>1, <3>4
    <3> HIDE DEF m
    <3>6. a = m + r
      BY <3>4 DEF m
    <3>7. m >= Needed
      BY <1>1, <2>1, <3>4, <3>5, <3>6 DEF a
    <3>8. QED
      BY <3>1, <3>4, <3>5, <3>7 DEF last
  <2> HIDE DEF last
  <2> DEFINE Up(k) == Sum(f, 1 .. k) = Clip(n, 0, k * L)
             Bad == {k \in 0 .. last : ~Up(k)}
  <2> HIDE DEF Bad
  <2>3. SUFFICES ASSUME Bad # {} PROVE FALSE
    <3>1. Up(last)
      BY <2>2, <2>3 DEF Bad
    <3>2. QED
      BY <1>1, <2>2, <3>1 DEF Clip
  <2>4. PICK k \in Bad : \A i \in Bad : ~(i < k)
    <3>1. Bad \in SUBSET (0 .. last)
      BY DEF Bad
    <3>2. QED
      BY <2>2, <2>3, <3>1, Least
  <2>5. k \in Nat /\ k <= last /\ ~Up(k)
    BY <2>2 DEF Bad
  <2>6. k # 0
    <3>1. Sum(f, 1 .. 0) = 0
      BY SumEmpty
    <3>2. QED
      BY <1>1, <2>1, <2>5, <3>1 DEF Clip
  <2>7. Up(k - 1)
    BY <2>2, <2>4, <2>5, <2>6 DEF Bad
  <2>8. Sum(f, 1 .. k) = f[k] + Sum(f, 1 .. k - 1)
    <3>0. k \in Nat /\ k > 0
      BY <2>5, <2>6
    <3>1. IsFiniteSet(1 .. k) /\ k \in 1 .. k /\ (1 .. k) \ {k} = 1 .. k - 1
      <4>1. IsFiniteSet(1 .. k)
        BY <3>0, FS_Interval
      <4>2. k \in 1 .. k
        BY <3>0
      <4>3. \A i : i \in (1 .. k) \ {k} <=> i \in 1 .. k - 1
        BY <3>0
      <4>4. QED
        BY <4>1, <4>2, <4>3
    <3>2. \A i \in 1 .. k : f[i] \in Int
      <4>1. \A i \in 1 .. k : i \in Parts(j)
        BY <2>2, <2>5
      <4>2. QED
        BY <1>1, <4>1, PartSizeAt
    <3>3. QED
      BY <3>1, <3>2, SumTakes
  <2>9. f[k] = Clip(n - (k - 1) * L, 0, L)
    BY <1>3, <2>2, <2>5, <2>6 DEF PartSize
  <2> DEFINE p == (k - 1) * L
  <2>10. p \in Nat /\ k * L = p + L
    BY <2>1, <2>5, <2>6
  <2> HIDE DEF p, L
  <2>11. f[k] = Clip(n - p, 0, L) /\ Sum(f, 1 .. k - 1) = Clip(n, 0, p)
    BY <2>7, <2>9 DEF p
  <2>12. QED
    BY <1>1, <2>1, <2>5, <2>8, <2>10, <2>11 DEF Clip
<1>4. QED
  BY <1>2, <1>3

-----------------------------------------------------------------------------
(* The capacity of a filesystem *)

(* A job claims what it needs while it packs, and what it has staged otherwise. *)
Claim(j) == IF Live(j) THEN Needed ELSE Staged(j)
Claims(d) == Sum([j \in Jobs |-> Claim(j)], OnDevice(d))

(* What keeps a live task within its claim: the chunks still to come fit, so does what is
   reserved; and a thread works for a live task only, which is cancelled but once. *)
Budget(j) ==
  /\ chunk[j] > 0 => task[j] \in {"writing", "draining"}
  /\ Live(j) => position[j] + chunk[j] <= Chunks * ChunkUnits /\ Needed - position[j] <= reserved[j]
  /\ task[j] = "draining" => j \notin cancelled
  /\ task[j] = "draining" \/ j \in cancelled => purging[j] >= 1 \/ process = "stopping"

Budgets == \A j \in Jobs : Budget(j)

(* Nobody asks to purge a job that is being purged. *)
OnePurge == \A j \in Jobs : purging[j] <= 1

Capacity == Budgets /\ \A d \in Devices : Claims(d) <= Disk[d]

(* Sums are over finite sets only. *)
LEMMA PartsFinite == \A j \in Jobs : IsFiniteSet(Parts(j))
<1> SUFFICES ASSUME NEW j \in Jobs PROVE IsFiniteSet(Parts(j))
  OBVIOUS
<1> DEFINE last == (Needed + PartLimit[j] - 1) \div PartLimit[j]
<1>1. CASE PartLimit[j] = 0
  BY <1>1, FS_Singleton DEF Parts
<1>2. CASE PartLimit[j] # 0
  <2>1. last \in Int
    <3>1. Needed \in Nat /\ PartLimit[j] \in Nat
      BY ArchiveAssumption
    <3>2. QED
      BY <1>2, <3>1
  <2>2. Parts(j) = 1 .. last
    BY <1>2 DEF Parts
  <2> HIDE DEF last
  <2>3. QED
    BY <2>1, <2>2, FS_Interval
<1>3. QED
  BY <1>1, <1>2

(* What is staged, and what is claimed, are numbers, before and after a step. *)
LEMMA StagedType ==
  ASSUME TypeOK, NEW j \in Jobs PROVE Staged(j) \in Int
<1>1. \A i \in Parts(j) : files[j][i] \in Int
  BY DEF TypeOK
<1>2. QED
  BY <1>1, PartsFinite, SumInt DEF Staged, Sum

LEMMA ClaimType ==
  ASSUME TypeOK, NEW j \in Jobs PROVE Claim(j) \in Int
BY BoundsType, StagedType DEF Claim

LEMMA ClaimTypeNext ==
  ASSUME TypeOK', NEW j \in Jobs PROVE Claim(j)' \in Int
<1>1. \A i \in Parts(j) : files'[j][i] \in Int
  BY DEF TypeOK
<1>2. Staged(j)' \in Int
  BY <1>1, PartsFinite, SumInt DEF Staged, Sum
<1>3. QED
  BY <1>2, BoundsType DEF Claim

(* Fewer units in each part are fewer units. *)
LEMMA StagedShrinks ==
  ASSUME TypeOK, TypeOK', NEW j \in Jobs, \A i \in Parts(j) : files'[j][i] <= files[j][i]
  PROVE  Staged(j)' <= Staged(j) /\ Staged(j)' \in Int
<1>1. \A i \in Parts(j) : files[j][i] \in Int /\ files'[j][i] \in Int
  BY DEF TypeOK
<1>2. Sum(files'[j], Parts(j)) <= Sum(files[j], Parts(j)) /\ Sum(files'[j], Parts(j)) \in Int
  BY <1>1, PartsFinite, SumGrows, SumInt
<1>3. QED
  BY <1>2 DEF Staged, Sum

(* A live task has staged what its writer has written, and it fits its claim. *)
LEMMA LiveStaged ==
  ASSUME TypeOK, Staging, NEW j \in Jobs, Budget(j), Live(j)
  PROVE  Staged(j) = position[j] /\ position[j] \in Nat /\ position[j] + Overhead <= Needed
<1>1. position[j] \in Nat /\ chunk[j] \in Nat /\ Chunks * ChunkUnits \in Nat /\ Overhead \in Nat /\ Needed \in Nat
  BY BoundsType DEF TypeOK
<1>2. position[j] + chunk[j] <= Chunks * ChunkUnits
  BY DEF Budget
<1> DEFINE all == Chunks * ChunkUnits
<1>3. Needed = all + Overhead
  BY DEF Needed
<1>4. position[j] + Overhead <= Needed
  <2> HIDE DEF all
  <2>1. QED
    BY <1>1, <1>2, <1>3 DEF all
<1>5. position[j] \in 0 .. Needed
  BY <1>1, <1>4
<1>6. \A i \in Parts(j) : files[j][i] = PartSize(j, position[j], i)
  BY DEF Staging, Stored, WriterFollows
<1>7. QED
  BY <1>1, <1>4, <1>5, <1>6, PartsMakeUp DEF Staged, Sum

(* What a step keeps of a job: its budget, and no more than its claim. *)
Stays(k) == Budget(k)' /\ Claim(k)' <= Claim(k)

(* Nothing happens to the task, and no part grows. *)
LEMMA StaysIdle ==
  ASSUME IInv, TypeOK', NEW k \in Jobs, Budget(k),
         task'[k] = task[k], chunk'[k] = chunk[k], position'[k] = position[k], reserved'[k] = reserved[k],
         k \in cancelled' => k \in cancelled, Live(k) => purging'[k] >= purging[k],
         process = "stopping" => process' = "stopping",
         \A i \in Parts(k) : files'[k][i] <= files[k][i]
  PROVE  Stays(k)
<1>1. TypeOK /\ CancelledRuns
  BY DEF IInv
<1>2. k \in cancelled => Live(k)
  BY <1>1 DEF CancelledRuns, Live
<1>3. purging[k] \in Nat /\ purging'[k] \in Nat
  BY <1>1, BoundsType DEF TypeOK
<1>4. Budget(k)'
  BY <1>2, <1>3 DEF Budget, Live
<1>5. Claim(k)' <= Claim(k)
  BY <1>1, StagedShrinks, BoundsType DEF Claim, Live
<1>6. QED
  BY <1>4, <1>5 DEF Stays

(* A live task stays live: its claim is the same. *)
LEMMA StaysLive ==
  ASSUME NEW k \in Jobs, Budget(k)', Live(k), Live(k)'
  PROVE  Stays(k)
BY BoundsType DEF Stays, Claim

(* A job packs no longer, or packed no more, and no part grows. *)
LEMMA StaysEnded ==
  ASSUME TypeOK, TypeOK', Staging, NEW k \in Jobs, Budget(k), ~Live(k)', chunk'[k] = 0, k \notin cancelled',
         \A i \in Parts(k) : files'[k][i] <= files[k][i]
  PROVE  Stays(k)
<1>1. Budget(k)'
  BY DEF Budget, Live
<1>2. Staged(k)' <= Staged(k) /\ Staged(k) \in Int /\ Staged(k)' \in Int
  BY StagedShrinks, StagedType
<1>3. Live(k) => Staged(k) <= Needed
  BY LiveStaged, BoundsType
<1>4. QED
  BY <1>1, <1>2, <1>3, BoundsType DEF Stays, Claim

(* A task ends and closes its archive: what it has staged fits its claim. *)
LEMMA StaysSettled ==
  ASSUME IInv, TypeOK', Staging, NEW j \in Jobs, NEW st, NEW n \in {0, Overhead}, Settle(j, st, n),
         Budget(j), Live(j), chunk'[j] = 0
  PROVE  Stays(j)
<1>1. TypeOK /\ ~Live(j)' /\ j \notin cancelled'
  BY DEF IInv, TypeOK, Settle, Live
<1>2. Budget(j)'
  BY <1>1 DEF Budget, Live
<1>3. n \in Nat /\ position[j] \in Nat /\ position[j] + n \in 0 .. Needed
  BY <1>1, LiveStaged, BoundsType
<1>4. files'[j] = Appended(j, n)
  BY <1>1 DEF TypeOK, Settle
<1>5. \A i \in Parts(j) : files'[j][i] = PartSize(j, position[j] + n, i)
  BY <1>1, <1>3, <1>4, AppendedFollows DEF Staging, Stored, WriterFollows
<1> DEFINE m == position[j] + n
<1>6. m \in 0 .. Needed /\ \A i \in Parts(j) : files'[j][i] = PartSize(j, m, i)
  BY <1>3, <1>5
<1> HIDE DEF m
<1>7. Sum(files'[j], Parts(j)) = m
  BY <1>6, PartsMakeUp
<1>8. Staged(j)' = m
  BY <1>7 DEF Staged, Sum
<1>9. QED
  BY <1>1, <1>2, <1>6, <1>8, BoundsType DEF Stays, Claim

(* A job that an action is not about. *)
LEMMA StaysAside ==
  ASSUME IInv, Budgets, TypeOK', NEW j \in Jobs, NEW k \in Jobs \ {j},
         task'[k] = task[k], chunk'[k] = chunk[k], position'[k] = position[k], reserved'[k] = reserved[k],
         files'[k] = files[k], k \in cancelled' => k \in cancelled, purging'[k] = purging[k], process' = process
  PROVE  Stays(k)
<1>1. TypeOK /\ TypeOK'
  BY DEF IInv
<1>2. \A i \in Parts(k) : files[k][i] \in Nat /\ files'[k][i] <= files[k][i]
  BY <1>1 DEF TypeOK
<1>3. purging[k] \in Nat
  BY <1>1, BoundsType DEF TypeOK
<1>4. Budget(k)
  BY DEF Budgets
<1>5. QED
  BY <1>2, <1>3, <1>4, StaysIdle

(* An action about one job keeps the others. *)
LEMMA StaysOne ==
  ASSUME IInv, Budgets, TypeOK', NEW j \in Jobs, Stays(j), process' = process,
         \A k \in Jobs \ {j} :
           /\ task'[k] = task[k] /\ chunk'[k] = chunk[k] /\ position'[k] = position[k] /\ reserved'[k] = reserved[k]
           /\ files'[k] = files[k] /\ (k \in cancelled' => k \in cancelled) /\ purging'[k] = purging[k]
  PROVE  \A k \in Jobs : Stays(k)
BY StaysAside

(* The thread works for a live task, for which the space is reserved. *)
LEMMA ThreadStays ==
  ASSUME IInv, Staging, Budgets, TypeOK', NEW j \in Jobs, ThreadWrite(j)
  PROVE  \A k \in Jobs : Stays(k)
<1>1. TypeOK /\ Budget(j) /\ chunk[j] > 0 /\ UNCHANGED <<process, task, cancelled, reserved, purging>>
  BY DEF IInv, Budgets, ThreadWrite, calls
<1>2. task[j] \in {"writing", "draining"} /\ Live(j) /\ Live(j)'
  BY <1>1 DEF Budget, Live
<1>3. handle[j] # "closed"
  BY <1>2 DEF Staging, Stored, WriterFollows
<1>4. PICK p \in Nat : /\ files' = [files EXCEPT ![j] = Appended(j, p)]
                       /\ position' = [position EXCEPT ![j] = @ + p]
                       /\ chunk' = [chunk EXCEPT ![j] = @ - p]
                       /\ chunk[j] - p \in Nat
  BY <1>1, <1>3, PieceType, BoundsType DEF ThreadWrite
<1>5. /\ position'[j] = position[j] + p /\ chunk'[j] = chunk[j] - p
      /\ position[j] \in Nat /\ chunk[j] \in Nat /\ reserved[j] \in Int /\ Chunks * ChunkUnits \in Nat
  BY <1>1, <1>4, BoundsType DEF TypeOK, Unreserved
<1>6. Budget(j)'
  <2> DEFINE all == Chunks * ChunkUnits
  <2>1. position[j] + chunk[j] <= all /\ Needed - position[j] <= reserved[j]
    BY <1>1, <1>2 DEF Budget
  <2> HIDE DEF all
  <2>2. position'[j] + chunk'[j] <= all /\ Needed - position'[j] <= reserved[j]
    BY <1>4, <1>5, <2>1, BoundsType DEF all
  <2>3. QED
    BY <1>1, <1>2, <2>2 DEF Budget, all
<1>7. Stays(j)
  BY <1>2, <1>6, StaysLive
<1>8. QED
  BY <1>1, <1>4, <1>7, StaysOne DEF TypeOK

(* Every step of the task. *)
LEMMA TaskStays ==
  ASSUME IInv, Staging, Budgets, TypeOK', NEW j \in Jobs, Task(j)
  PROVE  \A k \in Jobs : Stays(k)
<1>0. TypeOK /\ Budget(j) /\ CancelledRuns
  BY DEF IInv, Budgets
<1>a. /\ position[j] \in Nat /\ chunk[j] \in Nat /\ reserved[j] \in Int /\ ChunkUnits \in Nat /\ Overhead \in Nat
      /\ Needed \in Nat /\ packed[j] \in Nat
  BY <1>0, BoundsType DEF TypeOK, Unreserved
<1>b. ASSUME NEW st, NEW n \in {0, Overhead}, Settle(j, st, n), Live(j), UNCHANGED <<process, purging>>,
             (chunk' = chunk /\ chunk[j] = 0) \/ chunk' = [chunk EXCEPT ![j] = 0]
      PROVE  \A k \in Jobs : Stays(k)
  <2>1. chunk'[j] = 0 /\ \A k \in Jobs \ {j} : chunk'[k] = chunk[k]
    BY <1>0, <1>b DEF TypeOK
  <2>2. Stays(j)
    BY <1>0, <1>b, <2>1, StaysSettled
  <2>3. QED
    BY <1>0, <1>b, <2>1, <2>2, StaysOne DEF Settle, TypeOK
<1>c. Live(j) => WriterFollows(j)
  BY DEF Staging, Stored
<1>1. CASE PackStart(j)
  <2>1. task' = [task EXCEPT ![j] = "waiting"] /\ Live(j) /\ Live(j)'
        /\ UNCHANGED <<process, files, cancelled, position, chunk, reserved, purging>> /\ j \notin cancelled
        /\ task[j] = "scheduled"
    BY <1>0, <1>1 DEF PackStart, Running, Live, TypeOK, writers, calls
  <2>2. Budget(j)'
    BY <1>0, <1>c, <2>1 DEF Budget, TypeOK, WriterFollows
  <2>3. QED
    BY <1>0, <2>1, <2>2, StaysLive, StaysOne DEF TypeOK
<1>2. CASE PackChunk(j)
  <2>1. /\ task' = [task EXCEPT ![j] = "writing"] /\ chunk' = [chunk EXCEPT ![j] = ChunkUnits] /\ Live(j) /\ Live(j)'
        /\ UNCHANGED <<process, files, cancelled, position, reserved, purging>> /\ j \notin cancelled
        /\ task[j] = "waiting" /\ packed[j] < Chunks
    BY <1>0, <1>2 DEF PackChunk, Running, Live, TypeOK, calls
  <2>2. position[j] = packed[j] * ChunkUnits
    BY <1>c, <2>1 DEF WriterFollows
  <2>3. position[j] + ChunkUnits <= Chunks * ChunkUnits
    <3>1. \A a, c, u \in Nat : a < c => a * u + u <= c * u
      <4> SUFFICES ASSUME NEW a \in Nat, NEW c \in Nat, NEW u \in Nat, a < c PROVE a * u + u <= c * u
        OBVIOUS
      <4>1. PICK d \in Nat : c = a + 1 + d
        <5>1. c - a - 1 \in Nat /\ c = a + 1 + (c - a - 1)
          OBVIOUS
        <5>2. QED
          BY <5>1
      <4>2. c * u = a * u + u + d * u /\ d * u \in Nat /\ a * u \in Nat
        BY <4>1
      <4>3. QED
        BY <4>2
    <3>2. QED
      BY <1>a, <2>1, <2>2, <3>1, BoundsType
  <2>4. Budget(j)'
    BY <1>0, <2>1, <2>3 DEF Budget, TypeOK
  <2>5. QED
    BY <1>0, <2>1, <2>4, StaysLive, StaysOne DEF TypeOK
<1>3. CASE PackWrote(j)
  <2>1. /\ task' = [task EXCEPT ![j] = "waiting"] /\ Live(j) /\ Live(j)'
        /\ reserved' = [reserved EXCEPT ![j] = Clip(Needed - position[j], 0, Needed)]
        /\ UNCHANGED <<process, files, cancelled, position, chunk, purging>> /\ j \notin cancelled
        /\ task[j] = "writing" /\ chunk[j] = 0
    BY <1>0, <1>3 DEF PackWrote, Running, Live, TypeOK, calls
  <2>2. Needed - position[j] <= Clip(Needed - position[j], 0, Needed)
    BY <1>a DEF Clip
  <2>3. Budget(j)'
    BY <1>0, <2>1, <2>2 DEF Budget, TypeOK
  <2>4. QED
    BY <1>0, <2>1, <2>3, StaysLive, StaysOne DEF TypeOK
<1>4. CASE PackFinish(j)
  <2>1. Settle(j, "ready", Overhead) /\ Live(j) /\ task[j] = "waiting" /\ UNCHANGED <<process, purging, chunk>>
    BY <1>4 DEF PackFinish, Running, Live, calls
  <2>2. chunk[j] = 0
    BY <1>c, <2>1 DEF WriterFollows
  <2>3. QED
    BY <1>b, <2>1, <2>2
<1>5. CASE PackFail(j)
  <2>1. PICK n \in {0, Overhead} : Settle(j, "failed", n)
    BY <1>5 DEF PackFail
  <2>2. Live(j) /\ UNCHANGED <<process, purging>> /\ chunk' = [chunk EXCEPT ![j] = 0]
    BY <1>5 DEF PackFail, Running, Live, calls
  <2>3. QED
    BY <1>b, <2>1, <2>2
<1>6. CASE PackCancelled(j)
  <2>1. j \in cancelled /\ task[j] \in {"waiting", "writing"} /\ Live(j) /\ UNCHANGED <<process, purging, chunk>>
    BY <1>0, <1>6 DEF PackCancelled, CancelledRuns, Budget, Live, calls
  <2>2. CASE task[j] = "writing"
    <3>1. /\ task' = [task EXCEPT ![j] = "draining"] /\ cancelled' = cancelled \ {j}
          /\ UNCHANGED <<files, position, reserved>>
      BY <1>0, <1>6, <2>2 DEF PackCancelled, TypeOK
    <3>2. Live(j)' /\ task'[j] = "draining"
      BY <1>0, <3>1 DEF Live, TypeOK
    <3>3. Budget(j)'
      BY <1>0, <2>1, <3>1, <3>2 DEF Budget
    <3>4. QED
      BY <1>0, <2>1, <3>1, <3>2, <3>3, StaysLive, StaysOne DEF TypeOK
  <2>3. CASE task[j] = "waiting"
    <3>1. Settle(j, "failed", Overhead)
      BY <1>6, <2>3 DEF PackCancelled
    <3>2. chunk[j] = 0
      BY <1>c, <2>1, <2>3 DEF WriterFollows
    <3>3. QED
      BY <1>b, <2>1, <3>1, <3>2
  <2>4. QED
    BY <2>1, <2>2, <2>3
<1>7. CASE PackDrained(j)
  <2>1. Settle(j, "failed", Overhead) /\ Live(j) /\ chunk[j] = 0 /\ UNCHANGED <<process, purging, chunk>>
    BY <1>7 DEF PackDrained, Running, Live, calls
  <2>2. QED
    BY <1>b, <2>1
<1>8. QED
  BY <1>1, <1>2, <1>3, <1>4, <1>5, <1>6, <1>7 DEF Task

(* Requests, but for the one that admits a job. *)
LEMMA RequestStays ==
  ASSUME IInv, Staging, Budgets, TypeOK', OnePurge', NEW j \in Jobs, Request(j), ~CreateAdmit(j)
  PROVE  \A k \in Jobs : Stays(k)
<1>0. TypeOK /\ Budget(j) /\ CancelledRuns /\ PackingIffLive
  BY DEF IInv, Budgets
<1>a. purging[j] \in Nat
  BY <1>0, BoundsType DEF TypeOK
<1>b. \A k \in Jobs : \A i \in Parts(k) : files[k][i] \in Nat
  BY <1>0 DEF TypeOK
<1>c. j \in cancelled => Live(j)
  BY <1>0 DEF CancelledRuns, Live
<1>1. CASE UNCHANGED <<process, files, task, cancelled, position, chunk, reserved, purging>>
  <2>1. purging[j] >= purging[j] /\ \A i \in Parts(j) : files'[j][i] <= files[j][i]
    BY <1>1, <1>a, <1>b
  <2>2. Stays(j)
    BY <1>0, <1>1, <2>1, StaysIdle
  <2>3. QED
    BY <1>1, <2>2, StaysOne
<1>2. CASE PurgeBegin(j)
  <2>1. /\ cancelled' = cancelled \cup {j} /\ purging' = [purging EXCEPT ![j] = @ + 1] /\ Live(j) /\ process = "up"
        /\ UNCHANGED <<process, files, task, position, chunk, reserved>>
    BY <1>2 DEF PurgeBegin, writers
  <2>2. purging'[j] = purging[j] + 1 /\ purging'[j] <= 1
    BY <1>0, <2>1 DEF TypeOK, OnePurge
  <2>3. purging[j] = 0 /\ purging'[j] = 1
    BY <1>a, <2>2
  <2>4. task[j] # "draining"
    BY <1>0, <2>1, <2>3 DEF Budget
  <2>5. Budget(j)'
    BY <1>0, <2>1, <2>3, <2>4 DEF Budget, Live
  <2>6. Stays(j)
    BY <2>1, <2>5, StaysLive DEF Live
  <2>7. QED
    BY <1>0, <2>1, <2>6, StaysOne DEF TypeOK
<1>3. CASE PurgeNow(j) \/ PurgeEnd(j)
  <2>1. /\ ~Live(j) /\ UNCHANGED <<process, task, cancelled, position, chunk, reserved>>
        /\ Remove(j) \/ UNCHANGED files
        /\ \A k \in Jobs \ {j} : purging'[k] = purging[k]
    BY <1>0, <1>3 DEF PurgeNow, PurgeEnd, writers, calls, TypeOK
  <2>2. \A i \in Parts(j) : files'[j][i] <= files[j][i]
    BY <1>0, <1>b, <2>1 DEF Remove, Empty, TypeOK
  <2>3. Stays(j)
    BY <1>0, <2>1, <2>2, StaysIdle
  <2>4. QED
    BY <1>0, <2>1, <2>3, StaysOne DEF Remove, TypeOK
<1>4. CASE Forget(j)
  <2>1. /\ task' = task \/ task' = [task EXCEPT ![j] = "none"]
        /\ rec[j].stage = "purged"
        /\ UNCHANGED <<process, files, cancelled, position, chunk, reserved, purging>>
    BY <1>4 DEF Forget, writers, calls
  <2>2. ~Live(j) /\ ~Live(j)'
    BY <1>0, <2>1 DEF PackingIffLive, Live, TypeOK
  <2>3. chunk'[j] = 0 /\ j \notin cancelled'
    <3>1. chunk[j] \in Nat
      BY <1>0, BoundsType DEF TypeOK
    <3>2. QED
      BY <1>0, <1>c, <2>1, <2>2, <3>1 DEF Budget, Live
  <2>4. \A i \in Parts(j) : files'[j][i] <= files[j][i]
    BY <1>b, <2>1
  <2>5. Stays(j)
    BY <1>0, <2>2, <2>3, <2>4, StaysEnded
  <2>6. QED
    BY <1>0, <2>1, <2>5, StaysOne DEF TypeOK
<1>5. QED
  BY <1>1, <1>2, <1>3, <1>4 DEF Request, CreateBegin, CreateRefuse, Pause, Resume, Control, PartBegin, PartRefuse, PartSend,
     writers, calls

(* A crash, a shutdown and a start. *)
LEMMA ServiceStays ==
  ASSUME IInv, Staging, Budgets, TypeOK', Service
  PROVE  \A k \in Jobs : Stays(k)
<1> SUFFICES ASSUME NEW k \in Jobs PROVE Stays(k)
  OBVIOUS
<1>0. TypeOK /\ Budget(k) /\ CancelledRuns /\ DownIsIdle
  BY DEF IInv, Budgets
<1>a. \A i \in Parts(k) : files[k][i] \in Nat
  BY <1>0 DEF TypeOK
<1>1. CASE Lost /\ \A i \in Parts(k) : files'[k][i] <= files[k][i]
  <2>1. ~Live(k)' /\ chunk'[k] = 0 /\ k \notin cancelled'
    BY <1>1 DEF Lost, Live
  <2>2. QED
    BY <1>0, <1>1, <2>1, StaysEnded
<1>2. CASE Crash \/ Exit
  BY <1>1, <1>2, <1>a DEF Crash, Exit
<1>3. ASSUME NEW j \in Jobs, CrashInPurge(j) PROVE Stays(k)
  <2>1. PICK kept \in SUBSET {i \in Parts(j) : files[j][i] > 0} :
          files' = [files EXCEPT ![j] = [i \in Parts(j) |-> IF i \in kept THEN @[i] ELSE 0]]
    BY <1>3 DEF CrashInPurge
  <2>2. \A i \in Parts(k) : files'[k][i] \in {0, files[k][i]}
    BY <1>0, <2>1 DEF TypeOK
  <2>3. \A i \in Parts(k) : files'[k][i] <= files[k][i]
    BY <1>a, <2>2
  <2>4. QED
    BY <1>1, <1>3, <2>3 DEF CrashInPurge
<1>4. CASE Shutdown
  <2>1. /\ process = "up" /\ purging[k] = 0 /\ process' = "stopping" /\ cancelled' = {i \in Jobs : Live(i)}
        /\ UNCHANGED <<files, task, position, chunk, reserved>>
    BY <1>4 DEF Shutdown, writers
  <2>2. task[k] # "draining"
    BY <1>0, <2>1 DEF Budget
  <2>3. Budget(k)'
    BY <1>0, <2>1, <2>2 DEF Budget, Live
  <2>4. CASE Live(k)
    BY <2>1, <2>3, <2>4, StaysLive DEF Live
  <2>5. CASE ~Live(k)
    <3>1. ~Live(k)' /\ k \notin cancelled' /\ \A i \in Parts(k) : files'[k][i] <= files[k][i]
      BY <1>a, <2>1, <2>5 DEF Live
    <3>2. chunk[k] \in Nat
      BY <1>0, BoundsType DEF TypeOK
    <3>3. chunk'[k] = 0
      BY <1>0, <2>1, <2>5, <3>2 DEF Budget, Live
    <3>4. QED
      BY <1>0, <3>1, <3>3, StaysEnded
  <2>6. QED
    BY <2>4, <2>5
<1>5. CASE Start
  <2>1. /\ process = "down" /\ UNCHANGED <<files, task, cancelled, position, chunk, reserved, purging>>
    BY <1>5 DEF Start, writers, calls
  <2>2. purging[k] \in Nat
    BY <1>0, BoundsType DEF TypeOK
  <2>3. purging'[k] >= purging[k] /\ \A i \in Parts(k) : files'[k][i] <= files[k][i]
    BY <1>a, <2>1, <2>2
  <2>4. QED
    BY <1>0, <2>1, <2>3, StaysIdle
<1>6. QED
  BY <1>2, <1>3, <1>4, <1>5 DEF Service

-----------------------------------------------------------------------------
(* The claims on a filesystem *)

LEMMA DevicesFinite == \A d : OnDevice(d) \subseteq Jobs /\ IsFiniteSet(OnDevice(d))
BY ArchiveAssumption, FS_Subset DEF OnDevice

(* Claims that do not grow fit where they did. *)
LEMMA ClaimsShrink ==
  ASSUME TypeOK, TypeOK', NEW d, \A k \in OnDevice(d) : Claim(k)' <= Claim(k)
  PROVE  Claims(d)' <= Claims(d) /\ Claims(d) \in Int /\ Claims(d)' \in Int
<1>1. \A k \in Jobs : Claim(k) \in Int
  BY ClaimType
<1>2. \A k \in Jobs : Claim(k)' \in Int
  BY ClaimTypeNext
<1> DEFINE f == [k \in Jobs |-> Claim(k)]
           h == [k \in Jobs |-> Claim(k)']
<1>3. \A k \in OnDevice(d) : f[k] \in Int /\ h[k] \in Int /\ h[k] <= f[k]
  BY <1>1, <1>2, DevicesFinite
<1>4. Claims(d) = Sum(f, OnDevice(d)) /\ Claims(d)' = Sum(h, OnDevice(d))
  BY DEF Claims, OnDevice
<1> HIDE DEF f, h
<1>5. QED
  BY <1>3, <1>4, DevicesFinite, SumGrows, SumInt

(* What is free is what nobody claims: a live task has reserved what it has still to write. *)
LEMMA FreeIsUnclaimed ==
  ASSUME IInv, Staging, Budgets, NEW d \in Devices
  PROVE  Claims(d) + Free(d) <= Disk[d] /\ Claims(d) \in Int /\ Free(d) \in Int
<1>0. TypeOK /\ ReservedWhileLive
  BY DEF IInv
<1> DEFINE D == OnDevice(d)
           R == {j \in D : reserved[j] # Unreserved}
           staged == [j \in Jobs |-> Staged(j)]
           claim == [j \in Jobs |-> Claim(j)]
           both == [j \in Jobs |-> staged[j] + (IF j \in R THEN reserved[j] ELSE 0)]
<1>1. \A j \in Jobs : staged[j] \in Int /\ claim[j] \in Int /\ reserved[j] \in Int
  BY <1>0, StagedType, ClaimType, BoundsType DEF TypeOK, Unreserved
<1>2. D \subseteq Jobs /\ IsFiniteSet(D) /\ R \in SUBSET D /\ IsFiniteSet(R)
  BY DevicesFinite, FS_Subset
<1>3. \A j \in D : both[j] \in Int /\ claim[j] <= both[j]
  <2> SUFFICES ASSUME NEW j \in D PROVE both[j] \in Int /\ claim[j] <= both[j]
    OBVIOUS
  <2>1. j \in Jobs
    BY <1>2
  <2>2. CASE Live(j)
    <3>1. j \in R
      BY <1>0, <2>1, <2>2 DEF ReservedWhileLive
    <3>2. Staged(j) = position[j] /\ Needed - position[j] <= reserved[j]
      BY <1>0, <2>1, <2>2, LiveStaged DEF Budgets, Budget
    <3>3. position[j] \in Nat /\ Needed \in Nat /\ reserved[j] \in Int
      BY <1>0, <1>1, <2>1, BoundsType DEF TypeOK
    <3>4. Needed <= Staged(j) + reserved[j]
      BY <3>2, <3>3
    <3>5. both[j] = Staged(j) + reserved[j] /\ claim[j] = Needed
      BY <2>1, <2>2, <3>1 DEF Claim
    <3>6. QED
      BY <3>2, <3>3, <3>4, <3>5
  <2>3. CASE ~Live(j)
    <3>1. j \notin R
      BY <1>0, <2>1, <2>3 DEF ReservedWhileLive
    <3>2. both[j] = Staged(j) + 0 /\ claim[j] = Staged(j)
      BY <2>1, <2>3, <3>1 DEF Claim
    <3>3. Staged(j) \in Int
      BY <1>0, <2>1, StagedType
    <3>4. QED
      BY <3>2, <3>3
  <2>4. QED
    BY <2>2, <2>3
<1>4. Sum(both, D) = Sum(staged, D) + Sum(reserved, R)
  <2>1. \A j \in D : both[j] = staged[j] + (IF j \in R THEN reserved[j] ELSE 0)
    BY <1>2
  <2>2. /\ \A j \in D : staged[j] \in Int /\ both[j] \in Int
        /\ \A j \in R : reserved[j] \in Int
    BY <1>1, <1>2, <1>3
  <2> HIDE DEF D, R, staged, claim, both
  <2>3. QED
    BY <1>2, <2>1, <2>2, SumPlus
<1>5. Sum(claim, D) <= Sum(both, D) /\ Sum(claim, D) \in Int /\ Sum(staged, D) \in Int /\ Sum(reserved, R) \in Int
  <2>1. /\ \A j \in D : staged[j] \in Int /\ both[j] \in Int /\ claim[j] \in Int /\ claim[j] <= both[j]
        /\ \A j \in R : reserved[j] \in Int
    BY <1>1, <1>2, <1>3
  <2> HIDE DEF D, R, staged, claim, both
  <2>2. QED
    BY <1>2, <2>1, SumGrows, SumInt
<1>6. Claims(d) = Sum(claim, D) /\ Free(d) = Disk[d] - Sum(staged, D) - Sum(reserved, R) /\ Disk[d] \in Nat
  BY ArchiveAssumption DEF Claims, Free, StagedOn, Reservations, Sum
<1> HIDE DEF D, R, staged, claim, both
<1>7. QED
  BY <1>4, <1>5, <1>6

(* A job is admitted: what it needs is free, and nobody else claims more than before. *)
LEMMA AdmitStays ==
  ASSUME IInv, Staging, Budgets, TypeOK', NEW j \in Jobs, CreateAdmit(j)
  PROVE  /\ Budgets'
         /\ \A k \in Jobs \ {j} : Claim(k)' <= Claim(k)
         /\ Claim(j) = 0 /\ Claim(j)' = Needed
<1>0. TypeOK /\ NewIsUnknown /\ CancelledRuns
  BY DEF IInv
<1>1. /\ j \in planning /\ task' = [task EXCEPT ![j] = "scheduled"] /\ reserved' = [reserved EXCEPT ![j] = Needed]
      /\ UNCHANGED <<process, files, cancelled, position, chunk, purging>>
  BY DEF CreateAdmit, writers
<1>2. j \notin used /\ task[j] = "none" /\ j \notin cancelled
  BY <1>0, <1>1 DEF NewIsUnknown, CancelledRuns
<1>3. files[j] = Empty(j) /\ position[j] = 0 /\ chunk[j] = 0
  BY <1>2 DEF Staging, Stored, NewIsEmpty
<1>4. task'[j] = "scheduled" /\ reserved'[j] = Needed /\ ~Live(j) /\ Live(j)'
  BY <1>0, <1>1, <1>2 DEF TypeOK, Live
<1>5. Claim(j) = 0 /\ Claim(j)' = Needed
  <2>1. \A i \in Parts(j) : files[j][i] = 0
    BY <1>3 DEF Empty
  <2>2. Sum(files[j], Parts(j)) = 0
    BY <2>1, PartsFinite, SumZero
  <2>3. QED
    BY <1>4, <2>2 DEF Claim, Staged, Sum
<1>6. Budget(j)'
  <2>1. 0 + 0 <= Chunks * ChunkUnits /\ Needed - 0 <= Needed
    BY BoundsType
  <2>2. QED
    BY <1>1, <1>2, <1>3, <1>4, <2>1 DEF Budget
<1>7. \A k \in Jobs \ {j} : Stays(k)
  BY <1>0, <1>1, StaysAside DEF TypeOK
<1>8. QED
  BY <1>5, <1>6, <1>7 DEF Stays, Budgets

LEMMA AdmitFits ==
  ASSUME IInv, Staging, Budgets, TypeOK', NEW j \in Jobs, CreateAdmit(j), NEW d \in Devices, Claims(d) <= Disk[d]
  PROVE  Claims(d)' <= Disk[d]
<1>0. TypeOK /\ \A k \in Jobs \ {j} : Claim(k)' <= Claim(k)
  BY AdmitStays DEF IInv
<1>1. Claims(d) + Free(d) <= Disk[d] /\ Claims(d) \in Int /\ Free(d) \in Int /\ Disk[d] \in Nat /\ Needed \in Nat
  BY FreeIsUnclaimed, BoundsType, ArchiveAssumption
<1>2. CASE d # Device[j]
  <2>1. j \notin OnDevice(d)
    BY <1>2 DEF OnDevice
  <2>2. \A k \in OnDevice(d) : Claim(k)' <= Claim(k)
    BY <1>0, <2>1, DevicesFinite
  <2>3. Claims(d)' <= Claims(d) /\ Claims(d)' \in Int
    BY <1>0, <2>2, ClaimsShrink
  <2>4. QED
    BY <1>1, <2>3
<1>3. CASE d = Device[j]
  <2> DEFINE f == [k \in Jobs |-> Claim(k)]
             h == [k \in Jobs |-> Claim(k)']
             D == OnDevice(d)
             E == D \ {j}
  <2>1. j \in D /\ D \subseteq Jobs /\ IsFiniteSet(D) /\ E \subseteq D /\ IsFiniteSet(E)
    <3>1. j \in D
      BY <1>3 DEF OnDevice
    <3>2. D \subseteq Jobs /\ IsFiniteSet(D)
      BY DevicesFinite
    <3> HIDE DEF D
    <3>3. E \subseteq D /\ IsFiniteSet(E)
      BY <3>2, FS_Subset
    <3>4. QED
      BY <3>1, <3>2, <3>3
  <2>2. \A k \in Jobs : f[k] \in Int
    BY <1>0, ClaimType
  <2>3. \A k \in Jobs : h[k] \in Int
    BY ClaimTypeNext
  <2>4. \A k \in E : f[k] \in Int /\ h[k] \in Int /\ h[k] <= f[k]
    BY <1>0, <2>1, <2>2, <2>3
  <2>5. f[j] = 0 /\ h[j] = Needed
    BY AdmitStays
  <2>6. Claims(d) = Sum(f, D) /\ Claims(d)' = Sum(h, D)
    BY DEF Claims, OnDevice
  <2>7. \A k \in D : f[k] \in Int /\ h[k] \in Int
    BY <2>1, <2>2, <2>3
  <2>8. Needed <= Free(d)
    BY <1>3 DEF CreateAdmit
  <2> HIDE DEF f, h, D
  <2>9. Sum(f, D) = f[j] + Sum(f, E) /\ Sum(h, D) = h[j] + Sum(h, E)
    BY <2>1, <2>7, SumTakes
  <2>10. Sum(h, E) <= Sum(f, E) /\ Sum(h, E) \in Int /\ Sum(f, E) \in Int
    BY <2>1, <2>4, SumGrows, SumInt
  <2> HIDE DEF E
  <2>11. QED
    BY <1>1, <2>5, <2>6, <2>8, <2>9, <2>10
<1>4. QED
  BY <1>2, <1>3

(* Nothing is claimed at first. *)
THEOREM CapacityInit == Init => Capacity
<1> SUFFICES ASSUME Init PROVE Capacity
  OBVIOUS
<1>1. Budgets
  BY DEF Init, Budgets, Budget, Live
<1>2. \A k \in Jobs : Claim(k) = 0
  <2> SUFFICES ASSUME NEW k \in Jobs PROVE Claim(k) = 0
    OBVIOUS
  <2>1. ~Live(k) /\ \A i \in Parts(k) : files[k][i] = 0
    BY DEF Init, Live, Empty
  <2>2. Sum(files[k], Parts(k)) = 0
    BY <2>1, PartsFinite, SumZero
  <2>3. QED
    BY <2>1, <2>2 DEF Claim, Staged, Sum
<1>3. ASSUME NEW d \in Devices PROVE Claims(d) <= Disk[d]
  <2> DEFINE f == [k \in Jobs |-> Claim(k)]
  <2>1. \A k \in OnDevice(d) : f[k] = 0
    BY <1>2, DevicesFinite
  <2> HIDE DEF f
  <2>2. Sum(f, OnDevice(d)) = 0
    BY <2>1, DevicesFinite, SumZero
  <2>3. Disk[d] >= 0
    BY ArchiveAssumption
  <2>4. QED
    BY <2>2, <2>3 DEF Claims, f
<1>4. QED
  BY <1>1, <1>3 DEF Capacity

(* The step: one job is admitted, or no job claims more than before. *)
THEOREM CapacityStep == IInv /\ IInv' /\ Staging /\ Capacity /\ OnePurge' /\ [Next]_vars => Capacity'
<1> SUFFICES ASSUME IInv, IInv', Staging, Capacity, OnePurge', [Next]_vars PROVE Capacity'
  OBVIOUS
<1>0. TypeOK /\ TypeOK' /\ Budgets /\ \A d \in Devices : Claims(d) <= Disk[d]
  BY DEF IInv, Capacity
<1>1. CASE \A k \in Jobs : Stays(k)
  <2>1. Budgets'
    BY <1>1 DEF Budgets, Stays
  <2>2. ASSUME NEW d \in Devices PROVE Claims(d)' <= Disk[d]
    <3>1. \A k \in OnDevice(d) : Claim(k)' <= Claim(k)
      BY <1>1, DevicesFinite DEF Stays
    <3>2. Claims(d)' <= Claims(d) /\ Claims(d) \in Int /\ Claims(d)' \in Int
      BY <1>0, <3>1, ClaimsShrink
    <3>3. Claims(d) <= Disk[d] /\ Disk[d] \in Nat
      BY <1>0, ArchiveAssumption
    <3>4. QED
      BY <3>2, <3>3
  <2>3. QED
    BY <2>1, <2>2 DEF Capacity
<1>2. ASSUME NEW j \in Jobs, CreateAdmit(j) PROVE Capacity'
  BY <1>0, <1>2, AdmitStays, AdmitFits DEF Capacity
<1>3. ASSUME NEW j \in Jobs, Request(j), ~CreateAdmit(j) PROVE Capacity'
  BY <1>0, <1>1, <1>3, RequestStays
<1>4. ASSUME NEW j \in Jobs, Task(j) PROVE Capacity'
  BY <1>0, <1>1, <1>4, TaskStays
<1>5. ASSUME NEW j \in Jobs, ThreadWrite(j) PROVE Capacity'
  BY <1>0, <1>1, <1>5, ThreadStays
<1>6. CASE Service
  BY <1>0, <1>1, <1>6, ServiceStays
<1>7. CASE UNCHANGED vars
  BY <1>0, <1>7 DEF vars, writers, calls, archive, Capacity, Budgets, Budget, Claims, Claim, Live, Staged
<1>8. QED
  BY <1>2, <1>3, <1>4, <1>5, <1>6, <1>7 DEF Next

(* As long as nobody purges a job that is being purged, the disk holds what is staged and
   what live tasks have still to write, whichever stores share it and whatever fails, is
   cancelled, purged or restarted meanwhile (jobs.py 96-106, 155, 205). *)
THEOREM CapacityCorrect == Spec /\ []OnePurge => []NoOvercommit
<1>1. IInv /\ Staging /\ Capacity => NoOvercommit
  <2> SUFFICES ASSUME IInv, Staging, Capacity, NEW d \in Devices
               PROVE  StagedOn(d) + SumFunctionOnSet([j \in Jobs |-> Needed - position[j]], {j \in OnDevice(d) : Live(j)})
                        <= Disk[d]
    BY DEF NoOvercommit
  <2>0. TypeOK /\ Budgets /\ Claims(d) <= Disk[d]
    BY DEF IInv, Capacity
  <2> DEFINE D == OnDevice(d)
             L == {j \in D : Live(j)}
             staged == [j \in Jobs |-> Staged(j)]
             left == [j \in Jobs |-> Needed - position[j]]
             claim == [j \in Jobs |-> Claim(j)]
  <2>1. D \subseteq Jobs /\ IsFiniteSet(D) /\ L \in SUBSET D
    BY DevicesFinite
  <2>2. \A j \in Jobs : staged[j] \in Int /\ claim[j] \in Int /\ left[j] \in Int
    BY <2>0, StagedType, ClaimType, BoundsType DEF TypeOK
  <2>3. \A j \in D : claim[j] = staged[j] + (IF j \in L THEN left[j] ELSE 0)
    <3> SUFFICES ASSUME NEW j \in D PROVE claim[j] = staged[j] + (IF j \in L THEN left[j] ELSE 0)
      OBVIOUS
    <3>1. j \in Jobs
      BY <2>1
    <3>2. CASE Live(j)
      <4>1. Staged(j) = position[j] /\ position[j] \in Nat /\ Needed \in Nat
        BY <2>0, <3>1, <3>2, LiveStaged, BoundsType DEF Budgets
      <4>2. claim[j] = Needed /\ staged[j] = position[j] /\ left[j] = Needed - position[j] /\ j \in L
        BY <3>1, <3>2, <4>1 DEF Claim
      <4>3. QED
        BY <4>1, <4>2
    <3>3. CASE ~Live(j)
      <4>1. claim[j] = Staged(j) /\ staged[j] = Staged(j) /\ j \notin L /\ Staged(j) \in Int
        BY <2>0, <3>1, <3>3, StagedType DEF Claim
      <4>2. QED
        BY <4>1
    <3>4. QED
      BY <3>2, <3>3
  <2>4. Claims(d) = Sum(claim, D) /\ StagedOn(d) = Sum(staged, D)
    BY DEF Claims, StagedOn, Sum
  <2>5. (\A j \in D : staged[j] \in Int /\ claim[j] \in Int) /\ \A j \in L : left[j] \in Int
    BY <2>1, <2>2
  <2> HIDE DEF D, L, staged, left, claim
  <2>6. Sum(claim, D) = Sum(staged, D) + Sum(left, L)
    BY <2>1, <2>3, <2>5, SumPlus
  <2>7. StagedOn(d) + Sum(left, L) <= Disk[d]
    BY <2>0, <2>4, <2>6
  <2>8. QED
    BY <2>7 DEF Sum, left, L, D
<1>2. QED
  BY <1>1, CapacityInit, CapacityStep, BookkeepingCorrect, StagingCorrect, PTL DEF Spec
====
