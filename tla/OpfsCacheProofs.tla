--------------------------- MODULE OpfsCacheProofs ---------------------------
(***************************************************************************)
(* Proofs about the tasks of the service worker, the lock of the eviction  *)
(* index and the files of the store, for any resources, tasks, requests    *)
(* and restarts.                                                           *)
(*                                                                         *)
(* First the lock.  To it every action is one of four: the task joins the  *)
(* line, leaves it, stays out of it, or goes on with the scan while it is  *)
(* first.  Then the types, the usage of the store as a sum among them, and *)
(* the files: what an operation has found of a key that is its alone stays *)
(* so until it is over.  On that rest the times of the last uses, what the *)
(* metadata cache says of the files, the agreement of the index with the   *)
(* store, and the room that is made before a write.                        *)
(***************************************************************************)
EXTENDS OpfsCache, Sums, SequenceTheorems, TLAPS

OrderInv == ScheduleOK /\ LineInv

(* Where a task is that was begun and does not wait for the lock. *)
Elsewhere == PcType \ (Waiting \cup {"idle"})

Joins(t) ==
  /\ pc[t] \notin Waiting
  /\ \E s \in Waiting : Goto(t, s)
  /\ Join(t)
  /\ UNCHANGED <<stage, scan, cachePopulated>>

Leaves(t) ==
  /\ line # <<>> /\ Head(line) = t /\ stage # "scan"
  /\ \E s \in Elsewhere : Goto(t, s)
  /\ Leave
  /\ UNCHANGED <<scan, cachePopulated>>

Stays(t) ==
  /\ pc[t] \notin Waiting
  /\ \E s \in Elsewhere : Goto(t, s)
  /\ UNCHANGED lockVars
  /\ cachePopulated' => cachePopulated

Scans ==
  /\ UNCHANGED <<pc, line>>
  /\ line # <<>> /\ pc[Head(line)] \in Populating
  /\ stage' \in {"scan", "ready"}
  /\ stage' = "scan" => ~cachePopulated'
  /\ stage' = "ready" => scan' = NoScan

LEMMA WaitingTypes == /\ Populating \subseteq Waiting
                      /\ Waiting \subseteq PcType
                      /\ Terminal \cap Waiting = {}
                      /\ "idle" \notin Waiting
BY DEF Populating, Waiting, PcType, Terminal

(* Nobody waits for the lock of a worker that has just started. *)
LEMMA InitOrderInv == Init => OrderInv
<1> SUFFICES ASSUME Init PROVE OrderInv
  OBVIOUS
<1>1. line = <<>> /\ Len(line) = 0 /\ line \in Seq(Tasks)
  BY DEF Init
<1>2. pc \in [Tasks -> PcType] /\ \A t \in Tasks : pc[t] \notin Waiting
  BY WaitingTypes DEF Init, PcType
<1>3. QED
  BY <1>1, <1>2 DEF Init, OrderInv, ScheduleOK, LineInv

LEMMA JoinsOrderInv ==
  ASSUME OrderInv, NEW t \in Tasks, Joins(t)
  PROVE  OrderInv'
<1> USE DEF OrderInv
<1>1. /\ line \in Seq(Tasks) /\ line' = Append(line, t)
      /\ line' \in Seq(Tasks) /\ Len(line') = Len(line) + 1
      /\ \A i \in 1..Len(line) : line'[i] = line[i]
      /\ line'[Len(line) + 1] = t
  BY DEF ScheduleOK, Joins, Join
<1>2. ScheduleOK'
  BY <1>1, WaitingTypes DEF ScheduleOK, Joins, Goto
<1>3. /\ pc'[t] \in Waiting
      /\ \A u \in Tasks : u # t => pc'[u] = pc[u]
  BY DEF ScheduleOK, Joins, Goto
<1>4. \A u \in Tasks : pc'[u] \in Waiting <=> \E i \in 1..Len(line') : line'[i] = u
  <2> TAKE u \in Tasks
  <2>1. CASE u = t
    BY <1>1, <1>3, <2>1 DEF ScheduleOK
  <2>2. CASE u # t
    BY <1>1, <1>3, <2>2 DEF LineInv
  <2>3. QED
    BY <2>1, <2>2
<1>5. \A i \in 1..Len(line) : line[i] # t
  BY DEF LineInv, Joins
<1>6. \A i, j \in 1..Len(line') : line'[i] = line'[j] => i = j
  BY <1>1, <1>5 DEF LineInv
<1>7. stage' # "enter" => line' # <<>> /\ pc'[Head(line')] \in Populating
  <2> SUFFICES ASSUME stage # "enter"
               PROVE  line' # <<>> /\ pc'[Head(line')] \in Populating
    BY DEF Joins
  <2>1. line # <<>> /\ pc[Head(line)] \in Populating
    BY DEF LineInv
  <2>2. Head(line) \in Tasks /\ Head(line) # t
    BY <1>1, <2>1, WaitingTypes DEF Joins
  <2>3. line' # <<>> /\ Head(line') = Head(line)
    BY <1>1, <2>1
  <2>4. QED
    BY <1>3, <2>1, <2>2, <2>3
<1>8. QED
  BY <1>2, <1>4, <1>6, <1>7 DEF LineInv, Joins

LEMMA LeavesOrderInv ==
  ASSUME OrderInv, NEW t \in Tasks, Leaves(t)
  PROVE  OrderInv'
<1> USE DEF OrderInv, Elsewhere
<1>1. /\ line \in Seq(Tasks) /\ Len(line) \in Nat /\ Len(line) >= 1
      /\ line' \in Seq(Tasks) /\ Len(line') = Len(line) - 1
      /\ \A i \in 1..Len(line') : line'[i] = line[i + 1]
      /\ line[1] = t
  BY DEF ScheduleOK, Leaves, Leave
<1>2. ScheduleOK'
  BY <1>1 DEF ScheduleOK, Leaves, Leave, Goto
<1>3. /\ pc'[t] \notin Waiting
      /\ \A u \in Tasks : u # t => pc'[u] = pc[u]
  BY DEF ScheduleOK, Leaves, Goto
<1>4. \A i \in 2..Len(line) : line[i] # t
  BY <1>1 DEF LineInv
<1>5. \A u \in Tasks : pc'[u] \in Waiting <=> \E i \in 1..Len(line') : line'[i] = u
  <2> TAKE u \in Tasks
  <2>1. CASE u = t
    BY <1>1, <1>3, <1>4, <2>1
  <2>2. CASE u # t
    <3>1. pc[u] \in Waiting <=> \E i \in 1..Len(line) : line[i] = u
      BY DEF LineInv
    <3>2. ASSUME NEW i \in 1..Len(line), line[i] = u
          PROVE  i - 1 \in 1..Len(line') /\ line'[i - 1] = u
      BY <1>1, <2>2, <3>2
    <3>3. ASSUME NEW i \in 1..Len(line'), line'[i] = u
          PROVE  i + 1 \in 1..Len(line) /\ line[i + 1] = u
      BY <1>1, <3>3
    <3>4. QED
      BY <1>3, <2>2, <3>1, <3>2, <3>3
  <2>3. QED
    BY <2>1, <2>2
<1>6. \A i, j \in 1..Len(line') : line'[i] = line'[j] => i = j
  BY <1>1 DEF LineInv
<1>7. QED
  BY <1>2, <1>5, <1>6 DEF LineInv, Leaves, Leave

LEMMA StaysOrderInv ==
  ASSUME OrderInv, NEW t \in Tasks, Stays(t)
  PROVE  OrderInv'
<1> USE DEF OrderInv, Elsewhere
<1>1. ScheduleOK'
  BY DEF ScheduleOK, Stays, Goto, lockVars
<1>2. \A u \in Tasks : /\ pc'[u] \in Waiting <=> pc[u] \in Waiting
                       /\ pc[u] \in Waiting => pc'[u] = pc[u]
  BY DEF ScheduleOK, Stays, Goto
<1>3. line # <<>> => Head(line) \in Tasks
  BY DEF ScheduleOK
<1>4. QED
  BY <1>1, <1>2, <1>3, WaitingTypes DEF LineInv, Stays, lockVars

LEMMA ScansOrderInv == OrderInv /\ Scans => OrderInv'
BY DEF OrderInv, ScheduleOK, LineInv, Scans
------------------------------------------------------------------------------
(* What each action is to the lock. *)
OneOfFour(t) == Joins(t) \/ Leaves(t) \/ Stays(t) \/ (Populate(t) /\ Scans)

LEMMA IndexStepIsOne ==
  ASSUME OrderInv, NEW t \in Tasks, IndexStep(t)
  PROVE  OneOfFour(t)
<1> USE DEF lockVars, storeVars, memoryVars, indexVars
<1>1. CASE Populate(t)
  <2>1. ASSUME PopulateSkip(t) \/ PopulateBegin(t) PROVE Scans
    BY <2>1 DEF PopulateSkip, PopulateBegin, Scans, Holds, OrderInv, LineInv
  <2>2. ASSUME NEW k \in Keys, ScanRead(t, k) PROVE Scans
    BY <2>2 DEF ScanRead, Scans, OrderInv, LineInv
  <2>3. ASSUME ScanRecord(t) \/ ScanPassOver(t) \/ PopulateEnd(t) PROVE Scans
    BY <2>3 DEF ScanRecord, ScanPassOver, PopulateEnd, Scans, OrderInv, LineInv
  <2>4. QED
    BY <1>1, <2>1, <2>2, <2>3 DEF Populate, OneOfFour
<1>2. CASE Ensured(t)
  <2>1. Leaves(t)
    BY <1>2 DEF Ensured, Leaves, Leave, Holds, Elsewhere, PcType, Terminal, Waiting, Populating
  <2>2. QED
    BY <2>1 DEF OneOfFour
<1>3. CASE Register(t)
  <2>1. Leaves(t)
    BY <1>3 DEF Register, Leaves, Leave, Holds, Elsewhere, PcType, Terminal, Waiting, Populating
  <2>2. QED
    BY <2>1 DEF OneOfFour
<1>4. CASE Unindex(t)
  <2>1. Joins(t)
    BY <1>4 DEF Unindex, Joins, Waiting, Populating
  <2>2. QED
    BY <2>1 DEF OneOfFour
<1>5. CASE Unindexed(t)
  <2>1. AfterUnindex(t) \in Elsewhere
    BY DEF AfterUnindex, Elsewhere, PcType, Terminal, Waiting, Populating
  <2>2. Leaves(t)
    BY <1>5, <2>1 DEF Unindexed, Leaves, Leave, Holds
  <2>3. QED
    BY <2>2 DEF OneOfFour
<1>6. QED
  BY <1>1, <1>2, <1>3, <1>4, <1>5 DEF IndexStep

LEMMA WriteStepIsOne ==
  ASSUME OrderInv, NEW t \in Tasks, WriteStep(t)
  PROVE  OneOfFour(t)
<1> USE DEF lockVars, storeVars, memoryVars, indexVars
<1>1. ASSUME \/ WriteExists(t) \/ CreateFile(t) \/ OpenWritable(t) \/ OpenFails(t)
             \/ CloseWritable(t) \/ Stat(t)
      PROVE  Stays(t)
  BY <1>1 DEF WriteExists, CreateFile, OpenWritable, OpenFails, CloseWritable, Stat,
              Stays, Elsewhere, PcType, Terminal, Waiting, Populating
<1>2. ASSUME Evict(t) PROVE Stays(t)
  <2>1. AfterUnindex(t) \in Elsewhere
    BY DEF AfterUnindex, Elsewhere, PcType, Terminal, Waiting, Populating
  <2>2. QED
    BY <1>2, <2>1 DEF Evict, Stays, Elsewhere, PcType, Waiting, Populating
<1>3. ASSUME StreamFails(t) \/ FileMissing(t) PROVE Stays(t)
  <2>1. "cleanup" \in Elsewhere /\ {"stream", "stat"} \cap Waiting = {}
    BY DEF Elsewhere, PcType, Waiting, Populating
  <2>2. \A reason, bytes : Fail(t, reason, bytes) =>
          Goto(t, "cleanup") /\ UNCHANGED <<line, stage, scan>>
    BY DEF Fail
  <2>3. /\ pc[t] \in {"stream", "stat"}
        /\ \E reason, bytes : Fail(t, reason, bytes)
        /\ cachePopulated' => cachePopulated
    BY <1>3 DEF StreamFails, FileMissing, InvalidateFolders
  <2>4. QED
    BY <2>1, <2>2, <2>3 DEF Stays
<1>4. ASSUME Estimate(t) \/ CallRegister(t) PROVE Joins(t)
  BY <1>4 DEF Estimate, CallRegister, Joins, Waiting, Populating
<1>5. ASSUME DecideSpace(t) PROVE Leaves(t)
  BY <1>5 DEF DecideSpace, Leaves, Leave, Holds, Elsewhere, PcType, Terminal, Waiting, Populating
<1>6. ASSUME DecideQuota(t) PROVE Leaves(t)
  BY <1>6 DEF DecideQuota, Leaves, Leave, Holds, Elsewhere, PcType, Terminal, Waiting, Populating
<1>7. ASSUME Cleanup(t) PROVE Stays(t) \/ Joins(t)
  BY <1>7 DEF Cleanup, Stays, Joins, Elsewhere, PcType, Terminal, Waiting, Populating
<1>8. QED
  BY <1>1, <1>2, <1>3, <1>4, <1>5, <1>6, <1>7 DEF WriteStep, OneOfFour

LEMMA ControlStepIsOne ==
  ASSUME OrderInv, NEW t \in Tasks, ControlStep(t)
  PROVE  OneOfFour(t)
<1> USE DEF lockVars, storeVars, memoryVars, indexVars
<1>1. ASSUME Delete(t) \/ Lookup(t) \/ ReadFile(t) \/ ListEntries(t) \/ ClearEnd(t)
      PROVE  Stays(t)
  BY <1>1 DEF Delete, Lookup, ReadFile, ListEntries, ClearEnd, InvalidateFolders,
              Stays, Elsewhere, PcType, Terminal, Waiting, Populating
<1>2. ASSUME NEW k \in Keys, ClearRead(t, k) \/ ClearRemove(t, k)
      PROVE  Stays(t)
  <2>1. /\ pc[t] = "collect" /\ UNCHANGED pc
        /\ UNCHANGED lockVars /\ cachePopulated' = cachePopulated
    BY <1>2 DEF ClearRead, ClearRemove
  <2>2. Goto(t, "collect")
    BY <2>1 DEF Goto, OrderInv, ScheduleOK
  <2>3. QED
    BY <2>1, <2>2 DEF Stays, Elsewhere, PcType, Waiting, Populating
<1>3. QED
  BY <1>1, <1>2 DEF ControlStep, OneOfFour

LEMMA TaskIsOne ==
  ASSUME OrderInv, NEW t \in Tasks, TaskStep(t)
  PROVE  OneOfFour(t)
<1>1. ASSUME TouchEnd(t) PROVE Leaves(t)
  BY <1>1 DEF TouchEnd, Leaves, Leave, Holds, Elsewhere, PcType, Terminal, Waiting, Populating
<1>2. QED
  BY <1>1, IndexStepIsOne, WriteStepIsOne, ControlStepIsOne DEF TaskStep, OneOfFour

(* The flush of the last uses has nothing to do with the lock. *)
LEMMA AsideOrderInv ==
  ASSUME OrderInv, UNCHANGED <<lockVars, pc, cachePopulated>>
  PROVE  OrderInv'
BY DEF OrderInv, ScheduleOK, LineInv, lockVars

LEMMA ThrottledOrderInv ==
  ASSUME OrderInv, NEW t \in Tasks, NEW r \in Requests, Throttled(t, r)
  PROVE  OrderInv'
<1>1. Stays(t)
  BY DEF Throttled, Stays, memoryVars, Elsewhere, PcType, Terminal, Waiting, Populating
<1>2. QED
  BY <1>1, StaysOrderInv

LEMMA BeginOrderInv ==
  ASSUME OrderInv, NEW t \in Tasks, NEW r \in Requests, Begin(t, r)
  PROVE  OrderInv'
<1> USE DEF lockVars, storeVars, memoryVars, indexVars
<1>1. r.op \in Ops
  BY CacheAssumption DEF RequestType
<1>2. FirstStep(r.op) \in Elsewhere \cup Waiting
  BY <1>1 DEF FirstStep, Ops, Elsewhere, PcType, Waiting, Populating
<1>3. Stays(t) \/ Joins(t)
  BY <1>2, WaitingTypes DEF Begin, Stays, Joins
<1>4. QED
  BY <1>3, StaysOrderInv, JoinsOrderInv

LEMMA RestartOrderInv == OrderInv /\ Restart => OrderInv'
<1> SUFFICES ASSUME OrderInv, Restart PROVE OrderInv'
  OBVIOUS
<1>1. line' = <<>> /\ Len(line') = 0 /\ line' \in Seq(Tasks)
  BY DEF Restart
<1>2. pc' \in [Tasks -> PcType] /\ \A t \in Tasks : pc'[t] \notin Waiting
  BY DEF Restart, OrderInv, ScheduleOK, Active, PcType, Terminal, Waiting, Populating
<1>3. QED
  BY <1>1, <1>2 DEF Restart, OrderInv, ScheduleOK, LineInv

LEMMA NextOrderInv == OrderInv /\ [Next]_vars => OrderInv'
<1> SUFFICES ASSUME OrderInv, [Next]_vars PROVE OrderInv'
  OBVIOUS
<1>1. CASE Restart
  BY <1>1, RestartOrderInv
<1>2. ASSUME NEW t \in Tasks, TaskStep(t) PROVE OrderInv'
  BY <1>2, TaskIsOne, JoinsOrderInv, LeavesOrderInv, StaysOrderInv, ScansOrderInv
     DEF OneOfFour
<1>3. ASSUME NEW t \in Tasks, NEW r \in Requests, Begin(t, r) \/ Throttled(t, r)
      PROVE  OrderInv'
  BY <1>3, BeginOrderInv, ThrottledOrderInv
<1>4. CASE UNCHANGED vars
  BY <1>4 DEF OrderInv, ScheduleOK, LineInv, vars
<1>5. ASSUME Fire \/ \E k \in Keys : Flush(k) PROVE OrderInv'
  BY <1>5, AsideOrderInv DEF Fire, Flush, indexVars
<1>6. QED
  BY <1>1, <1>2, <1>3, <1>4, <1>5 DEF Next
------------------------------------------------------------------------------
(* Whatever the tasks do and whenever the worker is restarted, the line is *)
(* that of the tasks that wait for the lock, and only its first populates  *)
(* the caches.                                                             *)
THEOREM LineIsKept == Spec => []LineInv
<1>1. OrderInv => LineInv
  BY DEF OrderInv
<1>2. QED
  BY <1>1, InitOrderInv, NextOrderInv, PTL DEF Spec
------------------------------------------------------------------------------
(* What files of the store are kept.  The types of the variables that      *)
(* matter to them; `usage`, a sum over the store, may be anything.         *)
LocalOK ==
  /\ local = [t \in Tasks |-> local[t]]
  /\ \A t \in Tasks :
       local[t] \in [keys : SUBSET Keys, todo : SUBSET Keys, size : Nat, now : Nat,
                     usage : {local[t].usage}, failed : Reasons]

StoreTypes ==
  /\ disk \in [Keys -> FileType \cup {None}]
  /\ index \in [Keys -> EntryType \cup {None}]
  /\ flush \in [Keys -> FlushType]
  /\ \A k \in Keys : flush[k].at \in {"open", "write"} => flush[k].file \in FileType
  /\ scan \in ScanType /\ (scan.key # None => scan.file \in FileType)
  /\ pendingWrites \in [Keys -> Nat]
  /\ req \in [Tasks -> Requests \cup {None}]
  /\ clock \in Nat
  /\ LocalOK

(* Which operations a task may be at which position for. *)
WritePcs == {"exists", "estimate", "entries", "evict", "create", "open", "stream",
             "stat", "register", "registering", "cleanup", "quotaEntries"}
OpOK(t) ==
  /\ Active(t) => req[t] \in Requests
  /\ pc[t] \in WritePcs => req[t].op = "write"
  /\ pc[t] = "remove" => req[t].op = "delete"
  /\ pc[t] = "collect" => req[t].op = "clear"
  /\ pc[t] \in {"unindex", "unindexing"} => req[t].op \in {"write", "delete", "drop"}

Typed == OrderInv /\ StoreTypes /\ \A t \in Tasks : OpOK(t)

LEMMA Constants ==
  /\ None \notin FileType /\ None \notin EntryType /\ None \notin Keys
  /\ \A r \in Requests : /\ r \in RequestType /\ r.key \in Keys /\ r.folder \in Folders
                         /\ r.body \in Nat /\ r.evictable \in BOOLEAN /\ r.op \in Ops
  /\ Placeholder \in FileType
  /\ \A f \in FileType : FileSize(f) \in Nat /\ IndexEntry(f) \in EntryType
BY CacheAssumption DEF RequestType, Placeholder, FileType, FileSize, IndexEntry, EntryType

LEMMA NoLocalType ==
  NoLocal \in [keys : SUBSET Keys, todo : SUBSET Keys, size : Nat, now : Nat,
               usage : {NoLocal.usage}, failed : Reasons]
BY DEF NoLocal, Reasons

(* A step that changes the locals of one task. *)
LEMMA LocalStep ==
  ASSUME LocalOK, NEW t \in Tasks, NEW l,
         local' = [local EXCEPT ![t] = l],
         l \in [keys : SUBSET Keys, todo : SUBSET Keys, size : Nat, now : Nat,
                usage : {l.usage}, failed : Reasons]
  PROVE  LocalOK'
<1>1. local'[t] = l /\ \A u \in Tasks : u # t => local'[u] = local[u]
  BY DEF LocalOK
<1>2. local' = [u \in Tasks |-> local'[u]]
  BY DEF LocalOK
<1>3. QED
  BY <1>1, <1>2 DEF LocalOK

LEMMA InitTyped == Init => Typed
<1> SUFFICES ASSUME Init PROVE Typed
  OBVIOUS
<1>1. \A r \in Requests : StoredFile(r) \in FileType
  BY Constants DEF StoredFile, FileType
<1>2. disk \in [Keys -> FileType \cup {None}]
  BY <1>1 DEF Init
<1>3. index \in [Keys -> EntryType \cup {None}] /\ pendingWrites \in [Keys -> Nat]
  BY DEF Init, Nothing, Never
<1>4. flush \in [Keys -> FlushType] /\ \A k \in Keys : flush[k].at = "none"
  BY DEF Init, NoFlushes, NoFlush, FlushType
<1>5. scan \in ScanType /\ scan.key = None
  BY DEF Init, NoScan, ScanType
<1>6. LocalOK
  BY NoLocalType DEF Init, LocalOK
<1>7. \A t \in Tasks : OpOK(t)
  BY DEF Init, OpOK, Active, WritePcs
<1>8. QED
  BY <1>2, <1>3, <1>4, <1>5, <1>6, <1>7, InitOrderInv DEF Init, Typed, StoreTypes

(* A step of a task leaves what the others are asked to do. *)
LEMMA GotoOps ==
  ASSUME Typed, NEW t \in Tasks, NEW s \in PcType, Goto(t, s), req' = req,
         s \notin Terminal => Active(t),
         s \in WritePcs => req[t].op = "write",
         s = "remove" => req[t].op = "delete",
         s = "collect" => req[t].op = "clear",
         s \in {"unindex", "unindexing"} => req[t].op \in {"write", "delete", "drop"}
  PROVE  \A u \in Tasks : OpOK(u)'
<1>1. pc'[t] = s /\ \A u \in Tasks : u # t => pc'[u] = pc[u]
  BY DEF Typed, OrderInv, ScheduleOK, Goto
<1>2. \A u \in Tasks : u # t => OpOK(u)'
  BY <1>1 DEF Typed, OpOK, Active
<1>3. OpOK(t)'
  BY <1>1 DEF Typed, OpOK, Active
<1>4. QED
  BY <1>2, <1>3

(* Asks and positions are as before. *)
LEMMA SameOps ==
  ASSUME Typed, UNCHANGED <<pc, req>>
  PROVE  \A t \in Tasks : OpOK(t)'
BY DEF Typed, OpOK, Active

LEMMA ActiveTypes ==
  ASSUME Typed, NEW t \in Tasks, Active(t)
  PROVE  /\ req[t] \in Requests /\ req[t] \in RequestType /\ req[t].key \in Keys
         /\ req[t].folder \in Folders /\ req[t].body \in Nat /\ req[t].evictable \in BOOLEAN
         /\ req[t].op \in Ops
BY Constants DEF Typed, OpOK

LEMMA PopulateTyped ==
  ASSUME Typed, NEW t \in Tasks, Populate(t)
  PROVE  StoreTypes' /\ \A u \in Tasks : OpOK(u)'
<1> USE DEF storeVars, memoryVars, indexVars, accessVars, auxVars
<1>1. UNCHANGED <<pc, req, local, disk, flush, pendingWrites, clock>>
  BY DEF Populate, PopulateSkip, PopulateBegin, PopulateEnd, ScanRecord, ScanPassOver, ScanRead
<1>2. LocalOK'
  BY <1>1 DEF Typed, StoreTypes, LocalOK
<1>3. /\ index' \in [Keys -> EntryType \cup {None}]
      /\ scan' \in ScanType /\ (scan'.key # None => scan'.file \in FileType)
  <2>1. CASE PopulateSkip(t)
    BY <2>1 DEF PopulateSkip, Typed, StoreTypes
  <2>2. CASE PopulateBegin(t)
    BY <2>2 DEF PopulateBegin, Typed, StoreTypes, Nothing, NoScan, ScanType
  <2>3. CASE PopulateEnd(t)
    BY <2>3 DEF PopulateEnd, Typed, StoreTypes, NoScan, ScanType
  <2>4. CASE ScanPassOver(t)
    BY <2>4 DEF ScanPassOver, Typed, StoreTypes, NoScan, ScanType
  <2>5. CASE ScanRecord(t)
    <3>1. scan.key \in Keys /\ scan.file \in FileType
      BY <2>5 DEF ScanRecord, Typed, StoreTypes, ScanType
    <3>2. IndexEntry(scan.file) \in EntryType
      BY <3>1, Constants
    <3>3. QED
      BY <2>5, <3>1, <3>2 DEF ScanRecord, Typed, StoreTypes, NoScan, ScanType
  <2>6. CASE \E k \in Keys : ScanRead(t, k)
    BY <2>6 DEF ScanRead, Typed, StoreTypes, ScanType
  <2>7. QED
    BY <2>1, <2>2, <2>3, <2>4, <2>5, <2>6 DEF Populate
<1>4. QED
  BY <1>1, <1>2, <1>3, SameOps DEF Typed, StoreTypes

(* A removal leaves nothing new in the store. *)
LEMMA RemovalTyped ==
  ASSUME Typed, NEW S, RemoveEntries(S)
  PROVE  /\ disk' \in [Keys -> FileType \cup {None}]
         /\ \A k \in Keys : disk'[k] = disk[k] \/ (k \in S /\ disk'[k] = None)
BY DEF Typed, StoreTypes, RemoveEntries

LEMMA IndexTyped ==
  ASSUME Typed, NEW t \in Tasks, IndexStep(t)
  PROVE  StoreTypes' /\ \A u \in Tasks : OpOK(u)'
<1> USE DEF storeVars, memoryVars, indexVars, accessVars, auxVars
<1>1. CASE Populate(t)
  BY <1>1, PopulateTyped
<1>2. CASE Ensured(t)
  <2>1. StoreTypes'
    BY <1>2 DEF Ensured, Typed, StoreTypes, LocalOK
  <2>2. /\ req' = req
        /\ Goto(t, "lookup") \/ Goto(t, "listing") \/ Goto(t, "done")
        /\ Active(t)
    BY <1>2 DEF Ensured, Holds, Active, Terminal
  <2>3. QED
    BY <2>1, <2>2, GotoOps DEF PcType, WritePcs, Terminal
<1>3. CASE Register(t)
  <2>1. Active(t) /\ req' = req /\ Goto(t, "written")
    BY <1>3 DEF Register, Holds, Active, Terminal
  <2>2. index' \in [Keys -> EntryType \cup {None}]
    BY <1>3, <2>1, ActiveTypes DEF Register, Typed, StoreTypes, LocalOK, EntryType
  <2>3. LocalOK'
    BY <1>3, LocalStep, NoLocalType DEF Register, Typed, StoreTypes
  <2>4. StoreTypes'
    BY <1>3, <2>2, <2>3 DEF Register, Typed, StoreTypes
  <2>5. QED
    BY <2>1, <2>4, GotoOps DEF PcType, WritePcs, Terminal
<1>4. CASE Unindex(t)
  <2>1. /\ Active(t) /\ req' = req /\ Goto(t, "unindexing")
        /\ req[t].op \in {"write", "delete", "drop"}
    BY <1>4 DEF Unindex, Active, Terminal, Typed, OpOK
  <2>2. StoreTypes'
    BY <1>4 DEF Unindex, Typed, StoreTypes, LocalOK
  <2>3. QED
    BY <2>1, <2>2, GotoOps DEF PcType, WritePcs, Terminal
<1>5. CASE Unindexed(t)
  <2>1. /\ Active(t) /\ req' = req /\ Goto(t, AfterUnindex(t))
        /\ req[t].op \in {"write", "delete", "drop"}
    BY <1>5 DEF Unindexed, Holds, Active, Terminal, Typed, OpOK
  <2>2. \/ AfterUnindex(t) \in {"done", "failed"}
        \/ AfterUnindex(t) = "create" /\ req[t].op = "write"
    BY <2>1 DEF AfterUnindex
  <2>3. LocalOK'
    BY <1>5, LocalStep, NoLocalType DEF Unindexed, Typed, StoreTypes
  <2>4. StoreTypes'
    BY <1>5, <2>3 DEF Unindexed, Typed, StoreTypes
  <2>5. QED
    BY <2>1, <2>2, <2>4, GotoOps DEF PcType, WritePcs, Terminal
<1>6. QED
  BY <1>1, <1>2, <1>3, <1>4, <1>5 DEF IndexStep

LEMMA ControlTyped ==
  ASSUME Typed, NEW t \in Tasks, ControlStep(t) \/ TouchEnd(t)
  PROVE  StoreTypes' /\ \A u \in Tasks : OpOK(u)'
<1> USE DEF storeVars, memoryVars, indexVars, accessVars, auxVars, lockVars
<1>1. CASE Delete(t)
  <2>1. Active(t) /\ req' = req /\ Goto(t, "unindex") /\ req[t].op = "delete"
    BY <1>1 DEF Delete, Active, Terminal, Typed, OpOK
  <2>2. LocalOK'
    <3> DEFINE l == [local[t] EXCEPT !.keys = {req[t].key}]
    <3>1. l \in [keys : SUBSET Keys, todo : SUBSET Keys, size : Nat, now : Nat,
                 usage : {l.usage}, failed : Reasons]
      BY <2>1, ActiveTypes DEF Typed, StoreTypes, LocalOK
    <3>2. local' = [local EXCEPT ![t] = l]
      BY <1>1 DEF Delete
    <3>3. QED
      BY <3>1, <3>2, LocalStep DEF Typed, StoreTypes
  <2>3. StoreTypes'
    BY <1>1, <2>2, RemovalTyped DEF Delete, Typed, StoreTypes
  <2>4. QED
    BY <2>1, <2>3, GotoOps DEF PcType, WritePcs, Terminal
<1>2. CASE Lookup(t) \/ ReadFile(t)
  <2>1. /\ Active(t) /\ req' = req
        /\ Goto(t, "yes") \/ Goto(t, "read") \/ Goto(t, "no")
    BY <1>2 DEF Lookup, ReadFile, Active, Terminal
  <2>2. StoreTypes'
    BY <1>2 DEF Lookup, ReadFile, Typed, StoreTypes, LocalOK
  <2>3. QED
    BY <2>1, <2>2, GotoOps DEF PcType, WritePcs, Terminal
<1>3. CASE ListEntries(t)
  <2>1. Active(t) /\ req' = req /\ Goto(t, "done")
    BY <1>3 DEF ListEntries, Active, Terminal
  <2>2. LocalOK'
    <3> DEFINE l == [local[t] EXCEPT !.keys = Listed(req[t].folder)]
    <3>1. l \in [keys : SUBSET Keys, todo : SUBSET Keys, size : Nat, now : Nat,
                 usage : {l.usage}, failed : Reasons]
      BY DEF Typed, StoreTypes, LocalOK, Listed
    <3>2. local' = [local EXCEPT ![t] = l]
      BY <1>3 DEF ListEntries
    <3>3. QED
      BY <3>1, <3>2, LocalStep DEF Typed, StoreTypes
  <2>3. StoreTypes'
    BY <1>3, <2>2 DEF ListEntries, Typed, StoreTypes
  <2>4. QED
    BY <2>1, <2>3, GotoOps DEF PcType, WritePcs, Terminal
<1>4. ASSUME NEW k \in Keys, ClearRead(t, k)
      PROVE  StoreTypes' /\ \A u \in Tasks : OpOK(u)'
  <2> DEFINE l == [local[t] EXCEPT !.todo = @ \ {k},
                                   !.keys = IF IsInFolder(k, req[t].folder)
                                            THEN @ \cup {k} ELSE @]
  <2>1. l \in [keys : SUBSET Keys, todo : SUBSET Keys, size : Nat, now : Nat,
               usage : {l.usage}, failed : Reasons]
    BY DEF Typed, StoreTypes, LocalOK
  <2>2. local' = [local EXCEPT ![t] = l]
    BY <1>4 DEF ClearRead
  <2>3. LocalOK'
    BY <2>1, <2>2, LocalStep DEF Typed, StoreTypes
  <2>4. QED
    BY <1>4, <2>3, SameOps DEF ClearRead, Typed, StoreTypes
<1>5. ASSUME NEW k \in Keys, ClearRemove(t, k)
      PROVE  StoreTypes' /\ \A u \in Tasks : OpOK(u)'
  <2> DEFINE l == [local[t] EXCEPT !.keys = @ \ {k}]
  <2>1. l \in [keys : SUBSET Keys, todo : SUBSET Keys, size : Nat, now : Nat,
               usage : {l.usage}, failed : Reasons]
    BY DEF Typed, StoreTypes, LocalOK
  <2>2. local' = [local EXCEPT ![t] = l]
    BY <1>5 DEF ClearRemove
  <2>3. LocalOK'
    BY <2>1, <2>2, LocalStep DEF Typed, StoreTypes
  <2>4. QED
    BY <1>5, <2>3, SameOps, RemovalTyped DEF ClearRemove, Typed, StoreTypes
<1>6. CASE ClearEnd(t)
  <2>1. Active(t) /\ req' = req /\ Goto(t, "done")
    BY <1>6 DEF ClearEnd, Active, Terminal
  <2>2. StoreTypes'
    BY <1>6 DEF ClearEnd, InvalidateFolders, Nothing, Typed, StoreTypes, LocalOK
  <2>3. QED
    BY <2>1, <2>2, GotoOps DEF PcType, WritePcs, Terminal
<1>7. CASE TouchEnd(t)
  <2>1. Active(t) /\ req' = req /\ Goto(t, "done")
    BY <1>7 DEF TouchEnd, Holds, Active, Terminal
  <2>2. LocalOK'
    BY <1>7, LocalStep, NoLocalType DEF TouchEnd, Typed, StoreTypes
  <2>3. local[t].now \in Nat /\ req[t].key \in Keys
    BY <2>1, ActiveTypes DEF Typed, StoreTypes, LocalOK
  <2>4. index' \in [Keys -> EntryType \cup {None}] /\ pendingWrites' \in [Keys -> Nat]
    BY <1>7, <2>3 DEF TouchEnd, Typed, StoreTypes, EntryType
  <2>5. StoreTypes'
    BY <1>7, <2>2, <2>4 DEF TouchEnd, Typed, StoreTypes
  <2>6. QED
    BY <2>1, <2>5, GotoOps DEF PcType, WritePcs, Terminal
<1>8. QED
  BY <1>1, <1>2, <1>3, <1>4, <1>5, <1>6, <1>7 DEF ControlStep

LEMMA FileInPlace ==
  ASSUME Typed, NEW k, NEW f \in FileType, disk' = [disk EXCEPT ![k] = f]
  PROVE  disk' \in [Keys -> FileType \cup {None}]
<1>1. disk \in [Keys -> FileType \cup {None}]
  BY DEF Typed, StoreTypes
<1>2. QED
  BY <1>1

(* What DecideQuota does to the writer: it gives up, or evicts. *)
LEMMA QuotaDecision ==
  ASSUME NEW t \in Tasks, DecideQuota(t)
  PROVE  /\ pc[t] = "quotaEntries"
         /\ UNCHANGED <<req, index, flush, scan, pendingWrites, disk, clock, doubled>>
         /\ \/ local' = [local EXCEPT ![t] = NoLocal] /\ Goto(t, "failed") /\ mixed' = mixed
            \/ \E S \in SUBSET Evictable :
                 /\ local' = [local EXCEPT ![t] = Evicting(S, "quota")]
                 /\ mixed' = mixed \cup Contended(t, S)
                 /\ Goto(t, "evict")
<1> DEFINE Sets == computeEvictionSet(index, Evictable, local[t].size + Headroom(Usage))
           Full == local[t].size >= TotalSize
<1>1. /\ pc[t] = "quotaEntries"
      /\ IF Full
         THEN /\ Goto(t, "failed")
              /\ local' = [local EXCEPT ![t] = NoLocal]
              /\ UNCHANGED mixed
         ELSE /\ \E S \in Sets :
                   /\ local' = [local EXCEPT ![t] = Evicting(S, "quota")]
                   /\ mixed' = mixed \cup Contended(t, S)
              /\ Goto(t, "evict")
      /\ UNCHANGED <<storeVars, indexVars, accessVars, scan, req, clock, doubled>>
  BY Zenon DEF DecideQuota, Holds
<1>2. Sets \subseteq SUBSET Evictable
  BY DEF computeEvictionSet
<1> HIDE DEF Sets, Full
<1>3. UNCHANGED <<req, index, flush, scan, pendingWrites, disk, clock, doubled>>
  BY <1>1 DEF storeVars, indexVars, accessVars
<1>4. QED
  BY <1>1, <1>2, <1>3

(* What DecideSpace does: the write goes on, is given up, or evicts.       *)
LEMMA SpaceDecision ==
  ASSUME NEW t \in Tasks, DecideSpace(t)
  PROVE  /\ pc[t] = "entries" /\ UNCHANGED <<req, flush, disk, index, scan, doubled>>
         /\ \/ /\ local' = [local EXCEPT ![t] = NoLocal] /\ mixed' = mixed
               /\ Goto(t, "create") \/ Goto(t, "failed")
            \/ \E S \in SUBSET Evictable :
                 /\ local' = [local EXCEPT ![t] = Evicting(S, "no")]
                 /\ mixed' = mixed \cup Contended(t, S)
                 /\ Goto(t, "evict")
<1> DEFINE own == IF req[t].spare THEN {key(t)} ELSE {}
           others == Evictable \ own
           needOther == Larger(0, NeedToFree(req[t].body, TotalSize, local[t].usage)
                                    - SizeOf(index, Evictable \cap own))
           Sets == computeEvictionSet(index, others, needOther)
           Few == needOther = 0
           Many == needOther > SizeOf(index, others)
           Some == needOther \in 1..SizeOf(index, others)
<1>1. /\ pc[t] = "entries" /\ UNCHANGED <<storeVars, memoryVars, scan, req, doubled>>
      /\ \/ Few /\ Goto(t, "create") /\ local' = [local EXCEPT ![t] = NoLocal] /\ mixed' = mixed
         \/ Many /\ Goto(t, "failed") /\ local' = [local EXCEPT ![t] = NoLocal] /\ mixed' = mixed
         \/ /\ Some /\ Goto(t, "evict")
            /\ \E S \in Sets : /\ local' = [local EXCEPT ![t] = Evicting(S, "no")]
                               /\ mixed' = mixed \cup Contended(t, S)
  BY Zenon DEF DecideSpace, Holds
<1>2. Sets \subseteq SUBSET Evictable
  BY DEF computeEvictionSet
<1> HIDE DEF Sets, Few, Many, Some
<1>3. UNCHANGED <<req, flush, disk, index, scan, doubled>>
  BY <1>1 DEF storeVars, memoryVars, indexVars, accessVars
<1>4. QED
  BY <1>1, <1>2, <1>3

(* The writers whose locals stay as they are. *)
LEMMA PlainWriteTyped ==
  ASSUME Typed, NEW t \in Tasks,
         \/ WriteExists(t) \/ Evict(t) \/ CreateFile(t) \/ OpenWritable(t)
         \/ OpenFails(t) \/ CloseWritable(t)
  PROVE  StoreTypes' /\ \A u \in Tasks : OpOK(u)'
<1> USE DEF storeVars, memoryVars, indexVars, accessVars, auxVars, lockVars
<1>1. /\ Active(t) /\ pc[t] \in WritePcs
      /\ UNCHANGED <<req, local, index, flush, scan, pendingWrites>>
  BY DEF WriteExists, Evict, CreateFile, OpenWritable, OpenFails, CloseWritable,
         Active, Terminal, WritePcs
<1>2. req[t].op = "write" /\ LocalOK'
  BY <1>1 DEF Typed, OpOK, StoreTypes, LocalOK
<1>3. \E s \in WritePcs \cup {"existed", "failed", "unindex"} : Goto(t, s)
  BY <1>2 DEF WriteExists, Evict, CreateFile, OpenWritable, OpenFails, CloseWritable,
              WritePcs, AfterUnindex
<1>4. \A u \in Tasks : OpOK(u)'
  BY <1>1, <1>2, <1>3, GotoOps DEF PcType, WritePcs, Terminal
<1>5. disk' \in [Keys -> FileType \cup {None}] /\ clock' \in Nat
  <2>1. CASE WriteExists(t) \/ OpenWritable(t) \/ OpenFails(t)
    BY <2>1 DEF WriteExists, OpenWritable, OpenFails, Typed, StoreTypes
  <2>2. CASE Evict(t)
    BY <2>2, RemovalTyped DEF Evict, Typed, StoreTypes
  <2>3. CASE CreateFile(t)
    BY <2>3, Constants DEF CreateFile, Typed, StoreTypes
  <2>4. CASE CloseWritable(t)
    <3>1. /\ req[t].body \in Nat /\ req[t].folder \in Folders /\ req[t].evictable \in BOOLEAN
          /\ clock \in Nat
      BY <1>1, ActiveTypes DEF Typed, StoreTypes
    <3>2. FinishedFile(t) \in FileType
      BY <3>1 DEF FinishedFile, FileType
    <3>3. disk' = [disk EXCEPT ![key(t)] = FinishedFile(t)] /\ clock' = clock + 1
      BY <2>4 DEF CloseWritable
    <3>4. disk' \in [Keys -> FileType \cup {None}]
      BY <3>2, <3>3, FileInPlace, Zenon
    <3>5. QED
      BY <3>1, <3>3, <3>4
  <2>5. QED
    BY <2>1, <2>2, <2>3, <2>4
<1>6. QED
  BY <1>1, <1>2, <1>4, <1>5 DEF Typed, StoreTypes

LEMMA FailTyped ==
  ASSUME Typed, NEW t \in Tasks, StreamFails(t) \/ FileMissing(t)
  PROVE  /\ StoreTypes' /\ \A u \in Tasks : OpOK(u)'
         /\ local'[t].keys = {} /\ Goto(t, "cleanup")
         /\ \E l : local' = [local EXCEPT ![t] = l]
         /\ UNCHANGED <<disk, req, flush, scan, stage, line, doubled>>
         /\ index' = index \/ index' = Nothing
         /\ mixed \subseteq mixed' \/ mixed' = Keys
<1> USE DEF storeVars, memoryVars, indexVars, accessVars, auxVars, lockVars
<1>1. /\ Active(t) /\ pc[t] \in WritePcs
  BY DEF StreamFails, FileMissing, Active, Terminal, WritePcs
<1>2. req[t].op = "write" /\ req[t].body \in Nat
  BY <1>1, ActiveTypes DEF Typed, OpOK
<1>3. PICK reason \in Reasons, bytes \in Nat : Fail(t, reason, bytes)
  BY <1>2 DEF StreamFails, FileMissing, Reasons
<1>4. /\ Goto(t, "cleanup") /\ UNCHANGED <<disk, req, flush, scan, stage, line, clock,
                                           pendingWrites, doubled>>
  BY <1>3 DEF Fail
<1>5. LocalOK' /\ local'[t].keys = {} /\ \E l : local' = [local EXCEPT ![t] = l]
  <2> DEFINE l == [NoLocal EXCEPT !.failed = reason, !.size = bytes]
  <2>1. l \in [keys : SUBSET Keys, todo : SUBSET Keys, size : Nat, now : Nat,
               usage : {l.usage}, failed : Reasons] /\ l.keys = {}
    BY DEF NoLocal
  <2>2. local' = [local EXCEPT ![t] = l]
    BY <1>3 DEF Fail
  <2>3. local'[t] = l
    BY <2>2 DEF Typed, StoreTypes, LocalOK
  <2>4. QED
    BY <2>1, <2>2, <2>3, LocalStep DEF Typed, StoreTypes
<1>6. /\ index' = index \/ index' = Nothing
      /\ mixed \subseteq mixed' \/ mixed' = Keys
  BY DEF StreamFails, FileMissing, InvalidateFolders
<1>7. index' \in [Keys -> EntryType \cup {None}]
  BY <1>6 DEF Nothing, Typed, StoreTypes
<1>8. StoreTypes'
  BY <1>4, <1>5, <1>7 DEF Typed, StoreTypes
<1>9. QED
  BY <1>1, <1>2, <1>4, <1>5, <1>6, <1>8, GotoOps DEF PcType, WritePcs, Terminal

(* The writers that wait for the lock, or come to a decision under it. *)
LockedWrite(t) ==
  /\ Active(t) /\ pc[t] \in WritePcs
  /\ UNCHANGED <<req, index, flush, scan, pendingWrites>>
  /\ \E s \in WritePcs \cup {"failed"} : Goto(t, s)
  /\ disk' \in [Keys -> FileType \cup {None}] /\ clock' \in Nat
  /\ LocalOK'

LEMMA LockedWriteTyped ==
  ASSUME Typed, NEW t \in Tasks, LockedWrite(t)
  PROVE  StoreTypes' /\ \A u \in Tasks : OpOK(u)'
<1>1. req[t].op = "write"
  BY DEF LockedWrite, Typed, OpOK
<1>2. \A u \in Tasks : OpOK(u)'
  BY <1>1, GotoOps DEF LockedWrite, PcType, WritePcs, Terminal
<1>3. QED
  BY <1>2 DEF LockedWrite, Typed, StoreTypes

LEMMA LockedWriteSteps ==
  ASSUME Typed, NEW t \in Tasks,
         \/ Estimate(t) \/ DecideSpace(t) \/ Stat(t) \/ CallRegister(t)
         \/ Cleanup(t) \/ DecideQuota(t)
  PROVE  LockedWrite(t)
<1> USE DEF storeVars, memoryVars, indexVars, accessVars, auxVars, lockVars
<1> DEFINE Locals == [keys : SUBSET Keys, todo : SUBSET Keys, size : Nat, now : Nat,
                      usage : {local[t].usage}, failed : Reasons]
           LocalsAre(l) == /\ local' = [local EXCEPT ![t] = l]
                           /\ l \in [keys : SUBSET Keys, todo : SUBSET Keys, size : Nat,
                                      now : Nat, usage : {l.usage}, failed : Reasons]
<1>1. /\ clock \in Nat /\ clock + 1 \in Nat /\ disk \in [Keys -> FileType \cup {None}]
      /\ local[t] \in Locals /\ LocalOK
  BY DEF Typed, StoreTypes, LocalOK
<1>2. ASSUME NEW l, LocalsAre(l) PROVE LocalOK'
  BY <1>1, <1>2, LocalStep
<1>3. CASE Estimate(t)
  <2>1. LocalsAre([local[t] EXCEPT !.usage = Usage])
    BY <1>1, <1>3 DEF Estimate
  <2>2. LocalOK'
    BY <1>2, <2>1
  <2>3. QED
    BY <1>1, <1>3, <2>2 DEF Estimate, LockedWrite, Active, Terminal, WritePcs
<1>4. CASE DecideSpace(t)
  <2>1. \/ local' = [local EXCEPT ![t] = NoLocal]
        \/ \E S \in SUBSET Keys : local' = [local EXCEPT ![t] = Evicting(S, "no")]
    BY <1>4 DEF DecideSpace, computeEvictionSet, Evictable, Indexed
  <2>2. \E l : LocalsAre(l)
    BY <2>1, NoLocalType DEF Evicting, Reasons
  <2>3. LocalOK'
    BY <1>2, <2>2
  <2>4. QED
    BY <1>1, <1>4, <2>3 DEF DecideSpace, Holds, LockedWrite, Active, Terminal, WritePcs
<1>5. CASE Stat(t)
  <2>1. /\ Active(t) /\ pc[t] \in WritePcs
    BY <1>5 DEF Stat, Active, Terminal, WritePcs
  <2>2. disk[key(t)] \in FileType
    BY <1>1, <1>5, <2>1, ActiveTypes DEF Stat, key
  <2>3. LocalsAre([local[t] EXCEPT !.size = FileSize(disk[key(t)])])
    BY <1>1, <1>5, <2>2, Constants DEF Stat
  <2>4. LocalOK'
    BY <1>2, <2>3
  <2>5. QED
    BY <1>1, <1>5, <2>1, <2>4 DEF Stat, LockedWrite, WritePcs
<1>6. CASE CallRegister(t)
  <2>1. LocalsAre([local[t] EXCEPT !.now = clock])
    BY <1>1, <1>6 DEF CallRegister
  <2>2. LocalOK'
    BY <1>2, <2>1
  <2>3. QED
    BY <1>1, <1>6, <2>2 DEF CallRegister, LockedWrite, Active, Terminal, WritePcs
<1>7. CASE Cleanup(t)
  <2>1. LocalOK'
    <3>1. UNCHANGED local \/ LocalsAre(NoLocal)
      BY <1>7, NoLocalType DEF Cleanup
    <3>2. QED
      BY <1>1, <1>2, <3>1 DEF LocalOK
  <2>2. disk' \in [Keys -> FileType \cup {None}]
    BY <1>7, RemovalTyped DEF Cleanup
  <2>3. QED
    BY <1>1, <1>7, <2>1, <2>2 DEF Cleanup, LockedWrite, Active, Terminal, WritePcs
<1>8. CASE DecideQuota(t)
  <2>1. /\ Active(t) /\ pc[t] \in WritePcs
        /\ UNCHANGED <<req, index, flush, scan, pendingWrites, disk, clock>>
    BY <1>8, QuotaDecision DEF Active, Terminal, WritePcs
  <2>2. CASE local' = [local EXCEPT ![t] = NoLocal] /\ Goto(t, "failed")
    <3>1. LocalOK'
      BY <1>2, <2>2, NoLocalType
    <3>2. QED
      BY <1>1, <2>1, <2>2, <3>1 DEF LockedWrite
  <2>3. ASSUME NEW S \in SUBSET Evictable, Goto(t, "evict"),
               local' = [local EXCEPT ![t] = Evicting(S, "quota")]
        PROVE  LockedWrite(t)
    <3>1. LocalsAre(Evicting(S, "quota"))
      BY <2>3 DEF Evicting, Reasons, Evictable, Indexed
    <3>2. LocalOK'
      BY <1>2, <3>1
    <3>3. QED
      BY <1>1, <2>1, <2>3, <3>2 DEF LockedWrite, WritePcs
  <2>4. QED
    BY <1>8, <2>2, <2>3, QuotaDecision
<1>9. QED
  BY <1>3, <1>4, <1>5, <1>6, <1>7, <1>8

LEMMA TaskTyped ==
  ASSUME Typed, NEW t \in Tasks, TaskStep(t)
  PROVE  StoreTypes' /\ \A u \in Tasks : OpOK(u)'
BY IndexTyped, ControlTyped, PlainWriteTyped, FailTyped, LockedWriteTyped, LockedWriteSteps
   DEF TaskStep, WriteStep

LEMMA BeginTyped ==
  ASSUME Typed, NEW t \in Tasks, NEW r \in Requests, Begin(t, r)
  PROVE  StoreTypes' /\ \A u \in Tasks : OpOK(u)'
<1>1. /\ pc'[t] = FirstStep(r.op) /\ req'[t] = r
      /\ \A u \in Tasks : u # t => pc'[u] = pc[u] /\ req'[u] = req[u]
  BY DEF Begin, Goto, Typed, OrderInv, ScheduleOK, StoreTypes
<1>2. \A u \in Tasks : u # t => OpOK(u)'
  BY <1>1 DEF Typed, OpOK, Active
<1>3. r.op \in Ops /\ r.key \in Keys
  BY Constants
<1>4. OpOK(t)'
  BY <1>1, <1>3 DEF OpOK, Active, FirstStep, Ops, Terminal, WritePcs
<1>5. LocalOK'
  <2> DEFINE l == [local[t] EXCEPT !.todo = IF r.op = "clear" THEN Keys ELSE {},
                                   !.keys = IF r.op = "drop" THEN {r.key} ELSE {},
                                   !.now = IF r.op = "touch" THEN clock ELSE 0]
  <2>1. local' = [local EXCEPT ![t] = l]
    BY DEF Begin
  <2>2. l \in [keys : SUBSET Keys, todo : SUBSET Keys, size : Nat, now : Nat,
               usage : {l.usage}, failed : Reasons]
    BY <1>3 DEF Typed, StoreTypes, LocalOK
  <2>3. QED
    BY <2>1, <2>2, LocalStep DEF Typed, StoreTypes
<1>6. UNCHANGED <<disk, index, flush, scan, pendingWrites>> /\ clock' \in Nat
  BY DEF Begin, Typed, StoreTypes, storeVars, memoryVars, accessVars
<1>7. req' \in [Tasks -> Requests \cup {None}]
  BY DEF Begin, Typed, StoreTypes
<1>8. QED
  BY <1>1, <1>2, <1>4, <1>5, <1>6, <1>7 DEF Typed, StoreTypes

LEMMA ThrottledTyped ==
  ASSUME Typed, NEW t \in Tasks, NEW r \in Requests, Throttled(t, r)
  PROVE  StoreTypes' /\ \A u \in Tasks : OpOK(u)'
<1>1. /\ pc'[t] = "done" /\ req'[t] = r
      /\ \A u \in Tasks : u # t => pc'[u] = pc[u] /\ req'[u] = req[u]
  BY DEF Throttled, Goto, Typed, OrderInv, ScheduleOK, StoreTypes
<1>2. \A u \in Tasks : OpOK(u)'
  BY <1>1 DEF Typed, OpOK, Active, Terminal, WritePcs
<1>3. StoreTypes'
  BY DEF Throttled, Typed, StoreTypes, LocalOK, storeVars, memoryVars, accessVars, lockVars
<1>4. QED
  BY <1>2, <1>3

LEMMA RestartTyped ==
  ASSUME Typed, Restart
  PROVE  StoreTypes' /\ \A u \in Tasks : OpOK(u)'
<1>1. \A u \in Tasks : pc'[u] \in Terminal \cup {"idle"}
  BY DEF Restart, Active, Terminal, Typed, OrderInv, ScheduleOK
<1>2. \A u \in Tasks : OpOK(u)'
  BY <1>1 DEF OpOK, Active, Terminal, WritePcs
<1>3. LocalOK'
  BY NoLocalType DEF Restart, LocalOK
<1>4. /\ index' \in [Keys -> EntryType \cup {None}] /\ pendingWrites' \in [Keys -> Nat]
      /\ flush' \in [Keys -> FlushType] /\ \A k \in Keys : flush'[k].at = "none"
      /\ scan' \in ScanType /\ scan'.key = None
  BY DEF Restart, Nothing, Never, NoFlushes, NoFlush, FlushType, NoScan, ScanType
<1>5. QED
  BY <1>2, <1>3, <1>4 DEF Restart, Typed, StoreTypes

LEMMA FireTyped ==
  ASSUME Typed, Fire
  PROVE  StoreTypes' /\ \A u \in Tasks : OpOK(u)'
<1>1. UNCHANGED <<pc, req, local, disk, index, scan, clock>>
  BY Zenon DEF Fire, storeVars, indexVars, lockVars
<1>2. pendingWrites' \in [Keys -> Nat]
  BY DEF Fire, Never
<1>3. /\ flush' \in [Keys -> FlushType]
      /\ \A k \in Keys : flush'[k].at \in {"open", "write"} => flush'[k].file \in FileType
  <2>1. flush' = [k \in Keys |-> IF k \in Pending
                    THEN [at |-> "read", time |-> pendingWrites[k], file |-> None]
                    ELSE flush[k]]
    BY DEF Fire
  <2>2. \A k \in Keys : pendingWrites[k] \in Nat /\ flush[k] \in FlushType
    BY DEF Typed, StoreTypes
  <2>3. \A k \in Keys : flush'[k] \in FlushType
    BY <2>1, <2>2 DEF FlushType
  <2>4. QED
    BY <2>1, <2>3 DEF Typed, StoreTypes
<1>4. QED
  BY <1>1, <1>2, <1>3, SameOps DEF Typed, StoreTypes, LocalOK

LEMMA FlushTyped ==
  ASSUME Typed, NEW k \in Keys, Flush(k)
  PROVE  StoreTypes' /\ \A u \in Tasks : OpOK(u)'
<1>1. UNCHANGED <<pc, req, local, index, scan, clock, pendingWrites>>
  BY Zenon DEF Flush, indexVars, lockVars
<1>2. flush[k] \in FlushType /\ flush[k].time \in Nat
  BY DEF Typed, StoreTypes, FlushType
<1>3. /\ disk' \in [Keys -> FileType \cup {None}] /\ flush' \in [Keys -> FlushType]
      /\ flush'[k].at \in {"open", "write"} => flush'[k].file \in FileType
      /\ \A i \in Keys : i # k => flush'[i] = flush[i]
  <2>1. CASE FlushRead(k)
    <3>1. disk[k] \in FileType
      BY <2>1 DEF FlushRead, Typed, StoreTypes
    <3>2. QED
      BY <1>2, <2>1, <3>1 DEF FlushRead, Typed, StoreTypes, NoFlush, FlushType
  <2>2. CASE FlushOpen(k)
    BY <2>2 DEF FlushOpen, Typed, StoreTypes, FlushType
  <2>3. CASE FlushFails(k)
    BY <2>3 DEF FlushFails, Typed, StoreTypes, NoFlush, FlushType
  <2>4. CASE FlushClose(k)
    <3>1. flush[k].file \in FileType
      BY <2>4 DEF FlushClose, Typed, StoreTypes
    <3>2. [flush[k].file EXCEPT !.lastAccessed = flush[k].time] \in FileType
      BY <1>2, <3>1 DEF FileType
    <3>3. disk' = [disk EXCEPT ![k] = [flush[k].file EXCEPT !.lastAccessed = flush[k].time]]
          /\ flush' = [flush EXCEPT ![k] = NoFlush]
      BY <2>4 DEF FlushClose
    <3>4. disk' \in [Keys -> FileType \cup {None}]
      BY <3>2, <3>3, FileInPlace
    <3>5. NoFlush \in FlushType /\ NoFlush.at = "none"
      BY DEF NoFlush, FlushType
    <3>6. QED
      BY <3>3, <3>4, <3>5 DEF Typed, StoreTypes
  <2>5. QED
    BY <2>1, <2>2, <2>3, <2>4 DEF Flush
<1>4. QED
  BY <1>1, <1>3, SameOps DEF Typed, StoreTypes, LocalOK

(* The types are kept by every step. *)
LEMMA NextTyped == Typed /\ [Next]_vars => Typed'
<1> SUFFICES ASSUME Typed, [Next]_vars PROVE Typed'
  OBVIOUS
<1>1. OrderInv'
  BY NextOrderInv DEF Typed
<1>2. CASE UNCHANGED vars
  BY <1>1, <1>2, SameOps DEF vars, Typed, StoreTypes, LocalOK
<1>3. CASE Next
  BY <1>1, <1>3, TaskTyped, BeginTyped, ThrottledTyped, RestartTyped, FireTyped, FlushTyped
     DEF Next, Typed
<1>4. QED
  BY <1>2, <1>3
------------------------------------------------------------------------------
(* The rest of the type invariant.                                         *)
RestTypes ==
  /\ writables \subseteq Tasks
  /\ cachePopulated \in BOOLEAN
  /\ meta \in [Keys -> MetaType \cup {None}]
  /\ skipList \subseteq Keys
  /\ lastUpdate \in [Keys -> Nat]
  /\ restarts \in 0..MaxRestarts
  /\ mixed \subseteq Keys /\ outdated \subseteq Keys /\ doubled \subseteq Keys

LEMMA IndexRest ==
  ASSUME Typed, RestTypes, NEW t \in Tasks, IndexStep(t)
  PROVE  RestTypes'
<1> USE DEF storeVars, memoryVars, indexVars, accessVars, lockVars, auxVars
<1>1. CASE \/ PopulateSkip(t) \/ PopulateEnd(t) \/ ScanPassOver(t) \/ Ensured(t)
           \/ Register(t) \/ Unindexed(t) \/ \E k \in Keys : ScanRead(t, k)
  BY <1>1 DEF PopulateSkip, PopulateEnd, ScanPassOver, ScanRead, Ensured, Register, Unindexed,
              RestTypes
<1>2. CASE PopulateBegin(t)
  BY <1>2 DEF PopulateBegin, RestTypes, Nothing
<1>3. CASE ScanRecord(t)
  <2>1. scan.key \in Keys /\ scan.file \in FileType
    BY <1>3 DEF ScanRecord, Typed, StoreTypes, ScanType
  <2>2. MetaEntry(scan.file) \in MetaType
    BY <2>1, Constants DEF MetaEntry, MetaType, FileType
  <2>3. QED
    BY <1>3, <2>1, <2>2 DEF ScanRecord, RestTypes
<1>4. CASE Unindex(t)
  BY <1>4 DEF Unindex, RestTypes
<1>5. QED
  BY <1>1, <1>2, <1>3, <1>4 DEF IndexStep, Populate

LEMMA MixedKeys ==
  ASSUME Typed, RestTypes, NEW t \in Tasks, NEW S \in SUBSET Evictable
  PROVE  mixed \cup Contended(t, S) \subseteq Keys
BY DEF RestTypes, Contended, Evictable, Indexed

LEMMA WriteRest ==
  ASSUME Typed, RestTypes, NEW t \in Tasks, WriteStep(t)
  PROVE  RestTypes'
<1> USE DEF storeVars, memoryVars, indexVars, accessVars, lockVars, auxVars
<1>1. CASE \/ WriteExists(t) \/ Estimate(t) \/ Evict(t) \/ CreateFile(t) \/ OpenWritable(t)
           \/ OpenFails(t) \/ CloseWritable(t) \/ Stat(t) \/ CallRegister(t) \/ Cleanup(t)
  BY <1>1 DEF WriteExists, Estimate, Evict, CreateFile, OpenWritable, OpenFails, CloseWritable,
              Stat, CallRegister, Cleanup, RestTypes
<1>2. CASE DecideSpace(t)
  <2>1. UNCHANGED <<writables, cachePopulated, meta, skipList, lastUpdate, restarts, outdated,
                    doubled>>
    BY <1>2, Zenon DEF DecideSpace
  <2>2. mixed' \subseteq Keys
    BY <1>2, SpaceDecision, MixedKeys DEF RestTypes
  <2>3. QED
    BY <2>1, <2>2 DEF RestTypes
<1>3. CASE DecideQuota(t)
  <2>1. /\ UNCHANGED <<writables, cachePopulated, meta, lastUpdate, restarts, outdated, doubled>>
        /\ skipList' = skipList \/ skipList' = skipList \cup {req[t].key}
    BY <1>3, Zenon DEF DecideQuota, key
  <2>2. mixed' \subseteq Keys
    BY <1>3, QuotaDecision, MixedKeys DEF RestTypes
  <2>3. req[t].key \in Keys
    BY <1>3, QuotaDecision, ActiveTypes DEF Active, Terminal
  <2>4. QED
    BY <2>1, <2>2, <2>3 DEF RestTypes
<1>4. CASE StreamFails(t) \/ FileMissing(t)
  <2>0. PICK reason, bytes : Fail(t, reason, bytes)
    BY <1>4 DEF StreamFails, FileMissing
  <2>1. UNCHANGED <<skipList, lastUpdate, restarts, outdated, doubled>>
    BY <2>0 DEF Fail
  <2>2. writables' \subseteq Tasks
    BY <2>0 DEF Fail, RestTypes
  <2>3. /\ cachePopulated' \in BOOLEAN /\ mixed' \subseteq Keys
        /\ meta' \in [Keys -> MetaType \cup {None}]
    BY <1>4 DEF StreamFails, FileMissing, InvalidateFolders, RestTypes
  <2>4. QED
    BY <2>1, <2>2, <2>3 DEF RestTypes
<1>5. QED
  BY <1>1, <1>2, <1>3, <1>4 DEF WriteStep

LEMMA ControlRest ==
  ASSUME Typed, RestTypes, NEW t \in Tasks, ControlStep(t) \/ TouchEnd(t)
  PROVE  RestTypes'
<1> USE DEF storeVars, memoryVars, indexVars, accessVars, lockVars, auxVars
<1>1. CASE \/ Delete(t) \/ Lookup(t) \/ ReadFile(t) \/ ListEntries(t)
           \/ \E k \in Keys : ClearRead(t, k) \/ ClearRemove(t, k)
  BY <1>1 DEF Delete, Lookup, ReadFile, ListEntries, ClearRead, ClearRemove, RestTypes
<1>2. CASE ClearEnd(t)
  <2>1. UNCHANGED <<writables, skipList, lastUpdate, restarts, outdated, doubled>>
    BY <1>2 DEF ClearEnd
  <2>2. /\ cachePopulated' \in BOOLEAN /\ mixed' \subseteq Keys
        /\ meta' \in [Keys -> MetaType \cup {None}]
    BY <1>2 DEF ClearEnd, InvalidateFolders, RestTypes
  <2>3. QED
    BY <2>1, <2>2 DEF RestTypes
<1>3. CASE TouchEnd(t)
  <2>1. local[t].now \in Nat
    BY DEF Typed, StoreTypes, LocalOK
  <2>2. lastUpdate' \in [Keys -> Nat]
    BY <1>3, <2>1 DEF TouchEnd, RestTypes
  <2>3. QED
    BY <1>3, <2>2 DEF TouchEnd, RestTypes
<1>4. QED
  BY <1>1, <1>2, <1>3 DEF ControlStep

LEMMA NextRest == Typed /\ RestTypes /\ [Next]_vars => RestTypes'
<1> SUFFICES ASSUME Typed, RestTypes, [Next]_vars PROVE RestTypes'
  OBVIOUS
<1> USE DEF storeVars, memoryVars, indexVars, accessVars, lockVars, auxVars
<1>1. CASE UNCHANGED vars
  BY <1>1 DEF vars, RestTypes
<1>2. CASE Restart
  <2>1. /\ meta' \in [Keys -> MetaType \cup {None}] /\ lastUpdate' \in [Keys -> Nat]
        /\ cachePopulated' \in BOOLEAN
    BY <1>2 DEF Restart, Nothing, Never
  <2>2. restarts' \in 0..MaxRestarts
    BY <1>2, CacheAssumption DEF Restart, RestTypes
  <2>3. QED
    BY <1>2, <2>1, <2>2 DEF Restart, RestTypes
<1>3. CASE Fire
  BY <1>3 DEF Fire, RestTypes, Pending
<1>4. ASSUME NEW k \in Keys, Flush(k) PROVE RestTypes'
  BY <1>4 DEF Flush, FlushRead, FlushOpen, FlushClose, FlushFails, RestTypes
<1>5. ASSUME NEW t \in Tasks, TaskStep(t) PROVE RestTypes'
  BY <1>5, IndexRest, WriteRest, ControlRest DEF TaskStep
<1>6. ASSUME NEW t \in Tasks, NEW r \in Requests, Begin(t, r) PROVE RestTypes'
  <2>1. Touched(r) \subseteq Keys
    BY Constants DEF Touched
  <2>2. QED
    BY <1>6, <2>1 DEF Begin, RestTypes
<1>7. ASSUME NEW t \in Tasks, NEW r \in Requests, Throttled(t, r) PROVE RestTypes'
  BY <1>7 DEF Throttled, RestTypes
<1>8. QED
  BY <1>1, <1>2, <1>3, <1>4, <1>5, <1>6, <1>7 DEF Next

LEMMA InitRest == Init => RestTypes
<1> SUFFICES ASSUME Init PROVE RestTypes
  OBVIOUS
<1>1. /\ meta \in [Keys -> MetaType \cup {None}] /\ lastUpdate \in [Keys -> Nat]
      /\ cachePopulated \in BOOLEAN
  BY DEF Init, Nothing, Never
<1>2. restarts \in 0..MaxRestarts
  BY CacheAssumption DEF Init
<1>3. QED
  BY <1>1, <1>2 DEF Init, RestTypes

(* What the estimate says is used is the sum of the files' sizes. *)
LEMMA UsageIsTotal ==
  ASSUME NEW d, NEW S, IsFiniteSet(S)
  PROVE  MapThenSumSet(LAMBDA k : FileSize(d[k]), S) = Total([k \in S |-> FileSize(d[k])], S)
<1> DEFINE f == [k \in S |-> FileSize(d[k])]
           Rule(g) == g = [s \in SUBSET S |-> IF s = {} THEN 0
                             ELSE FileSize(d[Pick(s)]) + g[s \ {Pick(s)}]]
<1>1. MapThenSumSet(LAMBDA k : FileSize(d[k]), S) = (CHOOSE g : Rule(g))[S]
  BY DEF MapThenSumSet, MapThenFoldSet, Pick
<1>2. ASSUME NEW g PROVE Rule(g) <=> AddsUp(g, f, S)
  <2>1. \A s \in SUBSET S : s # {} => f[Pick(s)] = FileSize(d[Pick(s)])
    BY PickIn
  <2>2. QED
    BY <2>1 DEF AddsUp
<1>3. \E g : AddsUp(g, f, S)
  BY SumExists
<1>4. Rule(CHOOSE g : Rule(g))
  BY <1>2, <1>3
<1>5. QED
  BY <1>1, <1>2, <1>4, TotalUnique

LEMMA UsageType == StoreTypes => Usage \in Nat
<1> SUFFICES ASSUME StoreTypes PROVE Usage \in Nat
  OBVIOUS
<1> DEFINE S == {k \in Keys : disk[k] # None}
<1>1. IsFiniteSet(S)
  BY CacheAssumption, FS_Subset
<1>2. \A k \in S : FileSize(disk[k]) \in Nat
  BY Constants DEF StoreTypes
<1>3. Usage = Total([k \in S |-> FileSize(disk[k])], S)
  BY <1>1, UsageIsTotal DEF Usage
<1>4. QED
  BY <1>1, <1>2, <1>3, TotalType

UsageOK == \A t \in Tasks : local[t].usage \in Nat

(* What a task notes down in `usage` and `now`: nothing, what it had, the  *)
(* estimate of now, or the time of now, which is over with that.           *)
Notes(t, l) ==
  /\ local' = [local EXCEPT ![t] = l]
  /\ l.usage \in {0, local[t].usage, Usage}
  /\ l.now \in {0, local[t].now} \/ (l.now = clock /\ clock' = clock + 1)

LEMMA TaskNotes ==
  ASSUME Typed, NEW t \in Tasks, TaskStep(t)
  PROVE  \E l : Notes(t, l)
<1> USE DEF storeVars, memoryVars, indexVars, accessVars, lockVars, auxVars
<1>0. LocalOK
  BY DEF Typed, StoreTypes
<1>1. CASE local' = local
  <2>1. local' = [local EXCEPT ![t] = local[t]]
    BY <1>0, <1>1 DEF LocalOK
  <2>2. QED
    BY <2>1 DEF Notes
<1>2. CASE local' = [local EXCEPT ![t] = NoLocal]
  <2>1. NoLocal.usage = 0 /\ NoLocal.now = 0
    BY DEF NoLocal
  <2>2. QED
    BY <1>2, <2>1 DEF Notes
<1>3. ASSUME NEW f \in {"keys", "size"}, NEW v, local' = [local EXCEPT ![t][f] = v]
      PROVE  \E l : Notes(t, l)
  <2> DEFINE l == [local[t] EXCEPT ![f] = v]
  <2>1. local' = [local EXCEPT ![t] = l]
    BY <1>3
  <2>2. l.usage = local[t].usage /\ l.now = local[t].now
    BY <1>0 DEF LocalOK
  <2> HIDE DEF l
  <2>3. QED
    BY <2>1, <2>2 DEF Notes
<1>4. CASE IndexStep(t)
  <2>1. local' = local \/ local' = [local EXCEPT ![t] = NoLocal]
    BY <1>4 DEF IndexStep, Populate, PopulateSkip, PopulateBegin, PopulateEnd, ScanRecord,
                ScanPassOver, ScanRead, Ensured, Register, Unindex, Unindexed
  <2>2. QED
    BY <1>1, <1>2, <2>1
<1>5. CASE ControlStep(t) \/ TouchEnd(t)
  <2>1. CASE Delete(t)
    BY <1>3, <2>1 DEF Delete
  <2>2. CASE ListEntries(t)
    BY <1>3, <2>2 DEF ListEntries
  <2>3. ASSUME NEW k \in Keys, ClearRemove(t, k) PROVE \E l : Notes(t, l)
    <3>1. local' = [local EXCEPT ![t]["keys"] = local[t].keys \ {k}]
      BY <2>3 DEF ClearRemove
    <3>2. QED
      BY <1>3, <3>1
  <2>4. ASSUME NEW k \in Keys, ClearRead(t, k) PROVE \E l : Notes(t, l)
    <3> DEFINE l == [local[t] EXCEPT !.todo = @ \ {k},
                                     !.keys = IF IsInFolder(k, req[t].folder)
                                              THEN @ \cup {k} ELSE @]
    <3>1. local' = [local EXCEPT ![t] = l]
      BY <2>4 DEF ClearRead
    <3>2. l.usage = local[t].usage /\ l.now = local[t].now
      BY <1>0 DEF LocalOK
    <3> HIDE DEF l
    <3>3. QED
      BY <3>1, <3>2 DEF Notes
  <2>5. CASE Lookup(t) \/ ReadFile(t) \/ ClearEnd(t) \/ TouchEnd(t)
    <3>1. local' = local \/ local' = [local EXCEPT ![t] = NoLocal]
      BY <2>5 DEF Lookup, ReadFile, ClearEnd, TouchEnd
    <3>2. QED
      BY <1>1, <1>2, <3>1
  <2>6. QED
    BY <1>5, <2>1, <2>2, <2>3, <2>4, <2>5 DEF ControlStep
<1>6. CASE WriteStep(t)
  <2>1. CASE Estimate(t)
    <3> DEFINE l == [local[t] EXCEPT !.usage = Usage]
    <3>1. local' = [local EXCEPT ![t] = l]
      BY <2>1 DEF Estimate
    <3>2. l.usage = Usage /\ l.now = local[t].now
      BY <1>0 DEF LocalOK
    <3> HIDE DEF l
    <3>3. QED
      BY <3>1, <3>2 DEF Notes
  <2>2. CASE Stat(t)
    BY <1>3, <2>2 DEF Stat
  <2>3. CASE CallRegister(t)
    <3> DEFINE l == [local[t] EXCEPT !.now = clock]
    <3>1. local' = [local EXCEPT ![t] = l] /\ clock' = clock + 1
      BY <2>3 DEF CallRegister
    <3>2. l.usage = local[t].usage /\ l.now = clock
      BY <1>0 DEF LocalOK
    <3> HIDE DEF l
    <3>3. QED
      BY <3>1, <3>2 DEF Notes
  <2>4. CASE StreamFails(t) \/ FileMissing(t)
    <3>1. PICK reason, bytes : Fail(t, reason, bytes)
      BY <2>4 DEF StreamFails, FileMissing
    <3> DEFINE l == [NoLocal EXCEPT !.failed = reason, !.size = bytes]
    <3>2. l.usage = 0 /\ l.now = 0
      BY DEF NoLocal
    <3>3. local' = [local EXCEPT ![t] = l]
      BY <3>1 DEF Fail
    <3> HIDE DEF l
    <3>4. QED
      BY <3>2, <3>3 DEF Notes
  <2>5. CASE DecideSpace(t) \/ DecideQuota(t)
    <3>1. PICK l : local' = [local EXCEPT ![t] = l]
                   /\ (l = NoLocal \/ \E S, reason : l = Evicting(S, reason))
      BY <2>5, SpaceDecision, QuotaDecision
    <3>2. l.usage = 0 /\ l.now = 0
      BY <3>1 DEF NoLocal, Evicting
    <3>3. QED
      BY <3>1, <3>2 DEF Notes
  <2>6. CASE \/ WriteExists(t) \/ Evict(t) \/ CreateFile(t) \/ OpenWritable(t) \/ OpenFails(t)
             \/ CloseWritable(t) \/ Cleanup(t)
    <3>1. local' = local \/ local' = [local EXCEPT ![t] = NoLocal]
      BY <2>6 DEF WriteExists, Evict, CreateFile, OpenWritable, OpenFails, CloseWritable, Cleanup
    <3>2. QED
      BY <1>1, <1>2, <3>1
  <2>7. QED
    BY <1>6, <2>1, <2>2, <2>3, <2>4, <2>5, <2>6 DEF WriteStep
<1>7. QED
  BY <1>4, <1>5, <1>6 DEF TaskStep

LEMMA TaskUsage ==
  ASSUME Typed, UsageOK, NEW t \in Tasks, TaskStep(t)
  PROVE  UsageOK'
<1>1. PICK l : Notes(t, l)
  BY TaskNotes
<1>2. LocalOK /\ Usage \in Nat
  BY UsageType DEF Typed, StoreTypes
<1>3. l.usage \in Nat
  BY <1>1, <1>2 DEF Notes, UsageOK
<1>4. QED
  BY <1>1, <1>2, <1>3 DEF Notes, LocalOK, UsageOK

LEMMA NextUsage == Typed /\ UsageOK /\ [Next]_vars => UsageOK'
<1> SUFFICES ASSUME Typed, UsageOK, [Next]_vars PROVE UsageOK'
  OBVIOUS
<1>0. LocalOK
  BY DEF Typed, StoreTypes
<1>1. CASE UNCHANGED vars \/ Restart \/ Fire
  BY <1>1 DEF vars, Restart, Fire, UsageOK, NoLocal
<1>2. ASSUME NEW k \in Keys, Flush(k) PROVE UsageOK'
  BY <1>2 DEF Flush, UsageOK
<1>3. ASSUME NEW t \in Tasks, NEW r \in Requests, Begin(t, r) PROVE UsageOK'
  <2> DEFINE l == [local[t] EXCEPT !.todo = IF r.op = "clear" THEN Keys ELSE {},
                                   !.keys = IF r.op = "drop" THEN {r.key} ELSE {},
                                   !.now = IF r.op = "touch" THEN clock ELSE 0]
  <2>1. local' = [local EXCEPT ![t] = l]
    BY <1>3 DEF Begin
  <2>2. l.usage = local[t].usage
    BY <1>0 DEF LocalOK
  <2> HIDE DEF l
  <2>3. QED
    BY <1>0, <2>1, <2>2 DEF UsageOK, LocalOK
<1>4. ASSUME NEW t \in Tasks, NEW r \in Requests, Throttled(t, r) PROVE UsageOK'
  BY <1>4 DEF Throttled, UsageOK
<1>5. QED
  BY <1>1, <1>2, <1>3, <1>4, TaskUsage DEF Next

LEMMA TypesHold == Typed /\ RestTypes /\ UsageOK => CacheInv
<1> SUFFICES ASSUME Typed, RestTypes, UsageOK PROVE CacheInv
  OBVIOUS
<1>1. local \in [Tasks -> LocalType]
  <2>1. \A t \in Tasks : local[t] \in LocalType
    <3> TAKE t \in Tasks
    <3>1. /\ local[t] \in [keys : SUBSET Keys, todo : SUBSET Keys, size : Nat, now : Nat,
                           usage : {local[t].usage}, failed : Reasons]
          /\ local[t].usage \in Nat
      BY DEF Typed, StoreTypes, LocalOK, UsageOK
    <3>2. QED
      BY <3>1 DEF LocalType
  <2>2. QED
    BY <2>1 DEF Typed, StoreTypes, LocalOK
<1>2. QED
  BY <1>1 DEF CacheInv, TypeOK, Typed, OrderInv, StoreTypes, RestTypes
------------------------------------------------------------------------------
(* Every variable keeps its type, whatever the tasks do and whenever the   *)
(* worker is restarted, and the lock serves the tasks that wait for it, the*)
(* first of them alone.                                                    *)
THEOREM CacheIsSound == Spec => []CacheInv
<1>1. Init => Typed /\ RestTypes /\ UsageOK
  BY InitTyped, InitRest DEF Init, UsageOK, NoLocal
<1>2. (Typed /\ RestTypes /\ UsageOK) /\ [Next]_vars => (Typed /\ RestTypes /\ UsageOK)'
  BY NextTyped, NextRest, NextUsage
<1>3. QED
  BY <1>1, <1>2, TypesHold, PTL DEF Spec
------------------------------------------------------------------------------
(* The keys on which no two operations have overlapped are each that of    *)
(* one operation, or one flush, at a time; so what it has found there      *)
(* stays until it is over.                                                 *)
Sole == Keys \ (mixed \cup doubled)
Changes(t) == Touched(req[t]) \cup local[t].keys
Whole(k) == disk[k] # None /\ disk[k].written

Excl(k) ==
  /\ \A t, u \in Tasks :
       Active(t) /\ Active(u) /\ k \in Changes(t) /\ k \in Changes(u) => t = u
  /\ flush[k].at # "none" => \A t \in Tasks : Active(t) => k \notin Changes(t)

(* A writer finds no whole file until it has closed its own; what is being *)
(* evicted may be evicted, and what is being cleared is of the folder.     *)
Before == {"estimate", "entries", "evict", "unindex", "unindexing", "create", "open",
           "stream", "cleanup", "quotaEntries"}
After == {"stat", "register", "registering"}

Own(t, k) ==
  /\ pc[t] \in Before /\ req[t].op = "write" /\ req[t].key = k => ~Whole(k)
  /\ pc[t] \in After /\ req[t].key = k /\ Whole(k) => disk[k].evictable = req[t].evictable
  /\ pc[t] = "evict" /\ k \in local[t].keys /\ Whole(k) => disk[k].evictable
  /\ pc[t] = "collect" /\ k \in local[t].keys /\ Whole(k) => disk[k].folder = req[t].folder

(* Neither the index nor the scan takes a pinned file for one that may be  *)
(* evicted, but for a file whose writer is yet to register it: the scan may*)
(* have seen it empty.                                                     *)
Registering(k) == \E t \in Tasks : pc[t] \in After /\ req[t].key = k
Settled(k) == Whole(k) /\ ~Registering(k)
IndexOK(k) == index[k] # None /\ index[k].evictable /\ Settled(k) => disk[k].evictable
ScanOK(k) == scan.key = k /\ scan.file.evictable /\ Settled(k) => disk[k].evictable

(* A flush writes back what it has read.                                   *)
SameFile(f, g) ==
  /\ f \in FileType /\ g \in FileType
  /\ f.written = g.written /\ f.body = g.body /\ f.folder = g.folder
  /\ f.evictable = g.evictable
FlushOK(k) == flush[k].at \in {"open", "write"} => SameFile(disk[k], flush[k].file)

KeyOK(k) == Excl(k) /\ IndexOK(k) /\ ScanOK(k) /\ FlushOK(k) /\ \A t \in Tasks : Own(t, k)
KeptInv == Typed /\ \A k \in Sole : KeyOK(k)

LEMMA InitKept == Init => KeptInv
<1> SUFFICES ASSUME Init PROVE KeptInv
  OBVIOUS
<1>1. \A t \in Tasks : pc[t] = "idle"
  BY DEF Init
<1>2. \A k \in Keys : index[k] = None /\ scan.key # k /\ flush[k].at = "none"
  BY Constants DEF Init, Nothing, NoScan, NoFlushes, NoFlush
<1>3. \A k \in Sole : KeyOK(k)
  BY <1>1, <1>2 DEF Sole, KeyOK, Excl, IndexOK, ScanOK, FlushOK, Own, Active, Before, After
<1>4. QED
  BY <1>3, InitTyped DEF KeptInv

(* A step of a task on the files: it changes those of its own keys only,   *)
(* and adds to them none that is another's, unless the key is mixed then.  *)
Acts(t) ==
  /\ Active(t) /\ req' = req /\ flush' = flush /\ Sole' \subseteq Sole
  /\ \A u \in Tasks \ {t} : pc'[u] = pc[u] /\ local'[u] = local[u]
  /\ \A k \in Keys : disk'[k] # disk[k] => k \in Changes(t)
  /\ \A k \in Sole' : Active(t)' /\ k \in local'[t].keys =>
       k \in Changes(t) \/ k \notin Flushed \cup ChangedBy(Tasks \ {t})

LEMMA OwnerChanges ==
  ASSUME Typed, NEW t \in Tasks, NEW k,
         \/ pc[t] \in Before /\ req[t].op = "write" /\ req[t].key = k
         \/ pc[t] \in After /\ req[t].key = k
         \/ pc[t] \in {"evict", "collect"} /\ k \in local[t].keys
  PROVE  Active(t) /\ k \in Changes(t)
BY DEF Typed, OpOK, WritePcs, Before, After, Active, Terminal, Changes, Touched

LEMMA ActsOthers ==
  ASSUME KeptInv, NEW t \in Tasks, Acts(t), NEW k \in Sole'
  PROVE  Excl(k)' /\ FlushOK(k)' /\ \A u \in Tasks \ {t} : Own(u, k)'
<1>1. k \in Sole /\ k \in Keys /\ Excl(k) /\ FlushOK(k) /\ \A u \in Tasks : Own(u, k)
  BY DEF Acts, Sole, KeptInv, KeyOK
<1>2. \A u \in Tasks \ {t} : /\ Changes(u)' = Changes(u) /\ (Active(u)' <=> Active(u))
                             /\ pc'[u] = pc[u] /\ req'[u] = req[u] /\ local'[u] = local[u]
  BY DEF Acts, Changes, Active
<1>3. Active(t)' /\ k \in Changes(t)' =>
        \/ k \in Changes(t)
        \/ flush[k].at = "none" /\ \A u \in Tasks \ {t} : Active(u) => k \notin Changes(u)
  BY <1>1 DEF Acts, Changes, Flushed, ChangedBy
<1>4. Excl(k)'
  BY <1>1, <1>2, <1>3 DEF Acts, Excl
<1>5. FlushOK(k)'
  BY <1>1 DEF Acts, Excl, FlushOK
<1>6. ASSUME NEW u \in Tasks \ {t} PROVE Own(u, k)'
  <2>1. CASE disk'[k] = disk[k]
    BY <1>1, <1>2, <2>1 DEF Own, Whole
  <2>2. CASE disk'[k] # disk[k]
    <3>1. ~(Active(u) /\ k \in Changes(u))
      BY <1>1, <2>2 DEF Acts, Excl
    <3>2. /\ ~(pc[u] \in Before /\ req[u].op = "write" /\ req[u].key = k)
          /\ ~(pc[u] \in After /\ req[u].key = k)
          /\ ~(pc[u] \in {"evict", "collect"} /\ k \in local[u].keys)
      BY <3>1, OwnerChanges DEF KeptInv
    <3>3. QED
      BY <1>2, <3>2 DEF Own
  <2>3. QED
    BY <2>1, <2>2
<1>7. QED
  BY <1>4, <1>5, <1>6

(* Steps that leave the scan alone, and the index but for what they take   *)
(* out of it or the time of a use.                                         *)
NothingIndexed ==
  /\ scan' = scan
  /\ \A k \in Keys : \/ index'[k] = index[k] \/ index'[k] = None
                     \/ index[k] # None /\ index'[k].evictable = index[k].evictable

(* A whole file appears only with its writer yet to register it, and the   *)
(* writer is over with that only if the file is gone.                      *)
NothingSettles(t) ==
  /\ pc[t] \in After => pc'[t] \in After \/ ~Whole(req[t].key)'
  /\ \A k \in Keys : disk'[k] = disk[k] \/ ~Whole(k)' \/ (pc'[t] \in After /\ req[t].key = k)

LEMMA PlainStep ==
  ASSUME KeptInv, NEW t \in Tasks, Acts(t), NothingIndexed, NothingSettles(t),
         \A k \in Sole' : Own(t, k)'
  PROVE  \A k \in Sole' : KeyOK(k)'
<1> TAKE k \in Sole'
<1>1. k \in Sole /\ k \in Keys /\ IndexOK(k) /\ ScanOK(k)
  BY DEF Acts, Sole, KeptInv, KeyOK
<1>2. Settled(k)' => Settled(k) /\ disk'[k] = disk[k]
  <2>1. ASSUME Registering(k), Whole(k)' PROVE Registering(k)'
    <3>1. PICK u \in Tasks : pc[u] \in After /\ req[u].key = k
      BY <2>1 DEF Registering
    <3>2. pc'[u] \in After /\ req'[u].key = k
      BY <2>1, <3>1 DEF Acts, NothingSettles
    <3>3. QED
      BY <3>2 DEF Registering
  <2>2. ASSUME Whole(k)', disk'[k] # disk[k] PROVE Registering(k)'
    BY <1>1, <2>2 DEF Acts, NothingSettles, Registering
  <2>3. QED
    BY <2>1, <2>2 DEF Settled, Whole
<1>3. IndexOK(k)' /\ ScanOK(k)'
  BY <1>1, <1>2 DEF NothingIndexed, IndexOK, ScanOK
<1>4. QED
  BY <1>3, ActsOthers DEF KeyOK

(* The parts of an action that say where the task goes and what it keeps.  *)
Moves(t, s) ==
  /\ pc'[t] = s /\ \A u \in Tasks \ {t} : pc'[u] = pc[u] /\ local'[u] = local[u]
  /\ req' = req /\ flush' = flush

LEMMA MovesIf ==
  ASSUME Typed, NEW t \in Tasks, NEW s, Goto(t, s), req' = req, flush' = flush,
         local' = local \/ \E l : local' = [local EXCEPT ![t] = l]
  PROVE  Moves(t, s)
<1>1. DOMAIN pc = Tasks /\ pc'[t] = s /\ \A u \in Tasks \ {t} : pc'[u] = pc[u]
  BY DEF Typed, OrderInv, ScheduleOK, Goto
<1>2. \A u \in Tasks \ {t} : local'[u] = local[u]
  BY DEF Typed, StoreTypes, LocalOK
<1>3. QED
  BY <1>1, <1>2 DEF Moves

(* The steps that change neither the store nor the index nor what overlaps.*)
LEMMA QuietStep ==
  ASSUME KeptInv, NEW t \in Tasks, NEW s, Moves(t, s), Active(t),
         UNCHANGED <<disk, index, scan, mixed, doubled>>,
         s \notin Terminal \cup {"idle"} => local'[t].keys \subseteq local[t].keys,
         s \notin {"evict", "collect"},
         s \in Before /\ req[t].op = "write" => pc[t] \in Before \/ ~Whole(req[t].key),
         s \in After => pc[t] \in After,
         pc[t] \in After => s \in After \/ ~Whole(req[t].key)
  PROVE  \A k \in Sole' : KeyOK(k)'
<1>1. Sole' = Sole
  BY DEF Sole
<1>2. Acts(t)
  BY <1>1 DEF Acts, Moves, Changes, Active
<1>3. NothingIndexed /\ NothingSettles(t)
  BY DEF NothingIndexed, NothingSettles, Moves, Whole
<1>4. \A k \in Sole' : Own(t, k)'
  BY <1>1 DEF KeptInv, KeyOK, Own, Moves, Whole
<1>5. QED
  BY <1>2, <1>3, <1>4, PlainStep

LEMMA QuietSteps ==
  ASSUME KeptInv, NEW t \in Tasks,
         \/ WriteExists(t) \/ Estimate(t) \/ OpenWritable(t) \/ OpenFails(t)
         \/ Stat(t) \/ CallRegister(t) \/ StreamFails(t)
         \/ Ensured(t) \/ Unindex(t) \/ Unindexed(t)
         \/ Lookup(t) \/ ReadFile(t) \/ ListEntries(t)
  PROVE  \A k \in Sole' : KeyOK(k)'
<1> USE DEF storeVars, memoryVars, indexVars, accessVars, auxVars, lockVars
<1>0. Typed /\ LocalOK
  BY DEF KeptInv, Typed, StoreTypes
<1>1. CASE WriteExists(t)
  <2>1. \E s \in {"existed", "estimate", "create"} :
          Goto(t, s) /\ (s # "existed" => disk[key(t)] = None)
    BY <1>1 DEF WriteExists
  <2>2. /\ Active(t) /\ pc[t] \notin After
        /\ UNCHANGED <<req, flush, local, disk, index, scan, mixed, doubled>>
    BY <1>1 DEF WriteExists, Active, Terminal, After
  <2>3. QED
    BY <1>0, <2>1, <2>2, MovesIf, QuietStep DEF key, Whole, Terminal, Before, After
<1>2. CASE Estimate(t)
  <2>1. /\ Goto(t, "entries") /\ local' = [local EXCEPT ![t].usage = Usage]
        /\ pc[t] = "estimate" /\ UNCHANGED <<req, flush, disk, index, scan, mixed, doubled>>
    BY <1>2 DEF Estimate
  <2>2. local'[t].keys = local[t].keys
    BY <1>0, <2>1 DEF LocalOK
  <2>3. QED
    BY <1>0, <2>1, <2>2, MovesIf, QuietStep DEF Active, Terminal, Before, After
<1>3. CASE OpenWritable(t)
  <2>1. /\ Goto(t, "stream") /\ pc[t] = "open"
        /\ UNCHANGED <<local, req, flush, disk, index, scan, mixed, doubled>>
    BY <1>3 DEF OpenWritable
  <2>2. QED
    BY <1>0, <2>1, MovesIf, QuietStep DEF Active, Terminal, Before, After
<1>4. CASE OpenFails(t)
  <2>1. /\ Goto(t, "failed") /\ pc[t] \in {"create", "open"}
        /\ UNCHANGED <<local, req, flush, disk, index, scan, mixed, doubled>>
    BY <1>4 DEF OpenFails
  <2>2. QED
    BY <1>0, <2>1, MovesIf, QuietStep DEF Active, Terminal, Before, After
<1>5. CASE Stat(t)
  <2>1. /\ Goto(t, "register") /\ pc[t] = "stat"
        /\ local' = [local EXCEPT ![t].size = FileSize(disk[key(t)])]
        /\ UNCHANGED <<req, flush, disk, index, scan, mixed, doubled>>
    BY <1>5 DEF Stat
  <2>2. local'[t].keys = local[t].keys
    BY <1>0, <2>1 DEF LocalOK
  <2>3. QED
    BY <1>0, <2>1, <2>2, MovesIf, QuietStep DEF Active, Terminal, Before, After
<1>6. CASE CallRegister(t)
  <2>1. /\ Goto(t, "registering") /\ pc[t] = "register"
        /\ local' = [local EXCEPT ![t].now = clock]
        /\ UNCHANGED <<req, flush, disk, index, scan, mixed, doubled>>
    BY <1>6 DEF CallRegister
  <2>2. local'[t].keys = local[t].keys
    BY <1>0, <2>1 DEF LocalOK
  <2>3. QED
    BY <1>0, <2>1, <2>2, MovesIf, QuietStep DEF Active, Terminal, Before, After
<1>7. CASE StreamFails(t)
  <2>1. /\ Goto(t, "cleanup") /\ pc[t] = "stream" /\ local'[t].keys = {}
        /\ UNCHANGED <<req, flush, disk, index, scan, mixed, doubled>>
    BY <1>0, <1>7, FailTyped DEF StreamFails
  <2>2. \E l : local' = [local EXCEPT ![t] = l]
    BY <1>0, <1>7, FailTyped
  <2>3. QED
    BY <1>0, <2>1, <2>2, MovesIf, QuietStep DEF Active, Terminal, Before, After
<1>8. CASE Ensured(t)
  <2>1. /\ \E s \in {"lookup", "listing", "done"} : Goto(t, s)
        /\ pc[t] = "ensuring"
        /\ UNCHANGED <<local, req, flush, disk, index, scan, mixed, doubled>>
    BY <1>8 DEF Ensured, Holds
  <2>2. QED
    BY <1>0, <2>1, MovesIf, QuietStep DEF Active, Terminal, Before, After
<1>9. CASE Unindex(t)
  <2>1. /\ Goto(t, "unindexing") /\ pc[t] = "unindex"
        /\ UNCHANGED <<local, req, flush, disk, index, scan, mixed, doubled>>
    BY <1>9 DEF Unindex
  <2>2. QED
    BY <1>0, <2>1, MovesIf, QuietStep DEF Active, Terminal, Before, After
<1>11. CASE Lookup(t) \/ ReadFile(t)
  <2>1. /\ \E s \in {"yes", "read", "no"} : Goto(t, s)
        /\ pc[t] \in {"lookup", "read"}
        /\ UNCHANGED <<local, req, flush, disk, index, scan, mixed, doubled>>
    BY <1>11 DEF Lookup, ReadFile
  <2>2. QED
    BY <1>0, <2>1, MovesIf, QuietStep DEF Active, Terminal, Before, After
<1>12. CASE ListEntries(t)
  <2>1. /\ Goto(t, "done") /\ pc[t] = "listing"
        /\ \E l : local' = [local EXCEPT ![t] = l]
        /\ UNCHANGED <<req, flush, disk, index, scan, mixed, doubled>>
    BY <1>12 DEF ListEntries
  <2>2. QED
    BY <1>0, <2>1, MovesIf, QuietStep DEF Active, Terminal, Before, After
<1>13. CASE Unindexed(t)
  <2>1. /\ Goto(t, AfterUnindex(t)) /\ pc[t] = "unindexing"
        /\ local' = [local EXCEPT ![t] = NoLocal]
        /\ UNCHANGED <<req, flush, disk, scan, mixed, doubled>>
        /\ index' = [k \in Keys |-> IF k \in local[t].keys THEN None ELSE index[k]]
    BY <1>13 DEF Unindexed, Holds
  <2>2. AfterUnindex(t) \in {"done", "create", "failed"}
    BY DEF AfterUnindex
  <2>3. Moves(t, AfterUnindex(t)) /\ local'[t].keys = {} /\ Sole' = Sole
    BY <1>0, <2>1, MovesIf DEF LocalOK, NoLocal, Sole
  <2>4. Acts(t)
    BY <2>1, <2>3 DEF Acts, Moves, Active, Terminal
  <2>5. NothingIndexed /\ NothingSettles(t)
    BY <2>1 DEF NothingIndexed, NothingSettles, After
  <2>6. \A k \in Sole' : Own(t, k)'
    BY <2>1, <2>2, <2>3 DEF KeptInv, KeyOK, Own, Moves, Whole, Before, After
  <2>7. QED
    BY <2>4, <2>5, <2>6, PlainStep
<1>14. QED
  BY <1>1, <1>2, <1>3, <1>4, <1>5, <1>6, <1>7, <1>8, <1>9, <1>11, <1>12, <1>13

(* What is chosen for an eviction and is nobody else's may be evicted: the *)
(* index, which says so, is right about it.                                *)
LEMMA ChosenIsEvictable ==
  ASSUME KeptInv, NEW t \in Tasks, pc[t] \in {"entries", "quotaEntries"},
         NEW S \in SUBSET Evictable, NEW k \in S, k \in Sole, k \notin Contended(t, S)
  PROVE  /\ Whole(k) => disk[k].evictable
         /\ k \notin Flushed \cup ChangedBy(Tasks \ {t})
<1>1. k \notin Flushed \cup ChangedBy(Tasks \ {t})
  BY DEF Contended
<1>2. index[k] # None /\ index[k].evictable
  BY DEF Evictable, Indexed
<1>3. ~Registering(k)
  <2> SUFFICES ASSUME NEW u \in Tasks, pc[u] \in After, req[u].key = k PROVE FALSE
    BY DEF Registering
  <2>1. Active(u) /\ k \in Changes(u)
    BY OwnerChanges DEF KeptInv
  <2>2. u # t
    BY DEF After
  <2>3. k \in ChangedBy(Tasks \ {t})
    BY <2>1, <2>2 DEF ChangedBy, Changes
  <2>4. QED
    BY <1>1, <2>3
<1>4. QED
  BY <1>1, <1>2, <1>3 DEF KeptInv, KeyOK, IndexOK, Settled

LEMMA ChoiceStep ==
  ASSUME KeptInv, NEW t \in Tasks, pc[t] \in {"entries", "quotaEntries"},
         UNCHANGED <<disk, index, scan, doubled>>, NEW S \in SUBSET Evictable,
         Moves(t, "evict"), local'[t].keys = S, mixed' = mixed \cup Contended(t, S)
  PROVE  \A k \in Sole' : KeyOK(k)'
<1>1. \A k \in Sole' : k \in Sole /\ k \notin Contended(t, S)
  BY DEF Sole
<1>2. \A k \in Sole' : k \in S => /\ Whole(k) => disk[k].evictable
                                  /\ k \notin Flushed \cup ChangedBy(Tasks \ {t})
  BY <1>1, ChosenIsEvictable
<1>3. Acts(t)
  BY <1>1, <1>2 DEF Acts, Moves, Active, Terminal
<1>4. NothingIndexed /\ NothingSettles(t)
  BY DEF NothingIndexed, NothingSettles, After
<1>5. \A k \in Sole' : Own(t, k)'
  BY <1>1, <1>2 DEF KeptInv, KeyOK, Own, Moves, Whole, Before, After
<1>6. QED
  BY <1>3, <1>4, <1>5, PlainStep

LEMMA DecisionsKept ==
  ASSUME KeptInv, NEW t \in Tasks, DecideSpace(t) \/ DecideQuota(t)
  PROVE  \A k \in Sole' : KeyOK(k)'
<1> USE DEF storeVars, memoryVars, indexVars, accessVars, auxVars, lockVars
<1>0. Typed /\ LocalOK
  BY DEF KeptInv, Typed, StoreTypes
<1>1. /\ pc[t] \in {"entries", "quotaEntries"}
      /\ UNCHANGED <<req, flush, disk, index, scan, doubled>>
  BY SpaceDecision, QuotaDecision
<1>2. \/ /\ local' = [local EXCEPT ![t] = NoLocal] /\ mixed' = mixed
         /\ Goto(t, "create") \/ Goto(t, "failed")
      \/ \E S \in SUBSET Evictable, reason \in Reasons :
           /\ local' = [local EXCEPT ![t] = Evicting(S, reason)]
           /\ mixed' = mixed \cup Contended(t, S)
           /\ Goto(t, "evict")
  BY SpaceDecision, QuotaDecision DEF Reasons
<1>3. CASE /\ local' = [local EXCEPT ![t] = NoLocal] /\ mixed' = mixed
           /\ Goto(t, "create") \/ Goto(t, "failed")
  <2>1. local'[t].keys = {}
    BY <1>0, <1>3 DEF LocalOK, NoLocal
  <2>2. QED
    BY <1>0, <1>1, <1>3, <2>1, MovesIf, QuietStep DEF Active, Terminal, Before, After
<1>4. ASSUME NEW S \in SUBSET Evictable, NEW reason \in Reasons,
             local' = [local EXCEPT ![t] = Evicting(S, reason)],
             mixed' = mixed \cup Contended(t, S), Goto(t, "evict")
      PROVE  \A k \in Sole' : KeyOK(k)'
  <2>1. local'[t].keys = S
    BY <1>0, <1>4 DEF LocalOK, Evicting
  <2>2. Moves(t, "evict")
    BY <1>0, <1>1, <1>4, MovesIf
  <2>3. QED
    BY <1>1, <1>4, <2>1, <2>2, ChoiceStep
<1>5. QED
  BY <1>2, <1>3, <1>4

(* The steps that remove files of the task's own.                          *)
LEMMA RemovalStep ==
  ASSUME KeptInv, NEW t \in Tasks, NEW s, Moves(t, s), Active(t),
         NEW S \in SUBSET Changes(t), RemoveEntries(S),
         UNCHANGED <<index, scan, mixed, doubled>>,
         s \notin Terminal => local'[t].keys \subseteq Changes(t),
         s = "collect" => local'[t].keys \subseteq local[t].keys /\ pc[t] = "collect",
         s # "evict", s \notin After, pc[t] \notin After,
         s \in Before /\ req[t].op = "write" => pc[t] \in Before
  PROVE  \A k \in Sole' : KeyOK(k)'
<1>1. Sole' = Sole
  BY DEF Sole
<1>2. \A k \in Keys : disk'[k] = disk[k] \/ (k \in S /\ disk'[k] = None)
  BY RemovalTyped DEF KeptInv
<1>3. Acts(t)
  BY <1>1, <1>2 DEF Acts, Moves, Active
<1>4. NothingIndexed /\ NothingSettles(t)
  BY <1>2 DEF NothingIndexed, NothingSettles, Whole
<1>5. \A k \in Sole' : Own(t, k)'
  BY <1>1, <1>2 DEF KeptInv, KeyOK, Own, Moves, Whole, Sole
<1>6. QED
  BY <1>3, <1>4, <1>5, PlainStep

LEMMA RemovalsKept ==
  ASSUME KeptInv, NEW t \in Tasks,
         Evict(t) \/ Cleanup(t) \/ Delete(t) \/ \E k \in Keys : ClearRemove(t, k)
  PROVE  \A k \in Sole' : KeyOK(k)'
<1> USE DEF storeVars, memoryVars, indexVars, accessVars, auxVars, lockVars
<1>0. Typed /\ LocalOK /\ OpOK(t)
  BY DEF KeptInv, Typed, StoreTypes
<1>1. CASE Evict(t)
  <2>1. /\ pc[t] = "evict" /\ RemoveEntries(local[t].keys)
        /\ Goto(t, IF local[t].keys = {} THEN AfterUnindex(t) ELSE "unindex")
        /\ UNCHANGED <<local, req, flush, index, scan, mixed, doubled>>
    BY <1>1 DEF Evict
  <2>2. Active(t) /\ local[t].keys \subseteq Changes(t)
    BY <2>1 DEF Active, Terminal, Changes
  <2>3. AfterUnindex(t) \in {"done", "create", "failed"}
    BY DEF AfterUnindex
  <2>4. QED
    BY <1>0, <2>1, <2>2, <2>3, MovesIf, RemovalStep DEF Terminal, Before, After
<1>2. CASE Cleanup(t)
  <2>1. /\ pc[t] = "cleanup" /\ RemoveEntries({req[t].key})
        /\ \/ Goto(t, "quotaEntries") /\ local' = local
           \/ Goto(t, "failed") /\ local' = [local EXCEPT ![t] = NoLocal]
        /\ UNCHANGED <<req, flush, index, scan, mixed, doubled>>
    BY <1>2 DEF Cleanup, key
  <2>2. Active(t) /\ {req[t].key} \subseteq Changes(t) /\ local[t].keys \subseteq Changes(t)
    BY <1>0, <2>1 DEF Active, Terminal, Changes, Touched, OpOK, WritePcs
  <2>3. QED
    BY <1>0, <2>1, <2>2, MovesIf, RemovalStep DEF Terminal, Before, After
<1>3. CASE Delete(t)
  <2>1. /\ pc[t] = "remove" /\ RemoveEntries({req[t].key})
        /\ Goto(t, "unindex") /\ local' = [local EXCEPT ![t].keys = {req[t].key}]
        /\ UNCHANGED <<req, flush, index, scan, mixed, doubled>>
    BY <1>3 DEF Delete
  <2>2. /\ Active(t) /\ {req[t].key} \subseteq Changes(t) /\ local'[t].keys = {req[t].key}
        /\ req[t].op # "write"
    BY <1>0, <2>1 DEF Active, Terminal, Changes, Touched, OpOK, LocalOK
  <2>3. Moves(t, "unindex")
    BY <1>0, <2>1, MovesIf
  <2>4. QED
    BY <2>1, <2>2, <2>3, RemovalStep DEF After
<1>4. ASSUME NEW k \in Keys, ClearRemove(t, k) PROVE \A i \in Sole' : KeyOK(i)'
  <2>1. /\ pc[t] = "collect" /\ RemoveEntries({k}) /\ k \in local[t].keys /\ pc' = pc
        /\ local' = [local EXCEPT ![t].keys = @ \ {k}]
        /\ UNCHANGED <<req, flush, index, scan, mixed, doubled>>
    BY <1>4 DEF ClearRemove
  <2>2. Goto(t, "collect")
    BY <1>0, <2>1 DEF Goto, Typed, OrderInv, ScheduleOK
  <2>3. /\ Active(t) /\ {k} \subseteq Changes(t)
        /\ local'[t].keys \subseteq local[t].keys /\ local[t].keys \subseteq Changes(t)
    BY <1>0, <2>1 DEF Active, Terminal, Changes, LocalOK
  <2>4. QED
    BY <1>0, <2>1, <2>2, <2>3, MovesIf, RemovalStep DEF Terminal, Before, After
<1>5. QED
  BY <1>1, <1>2, <1>3, <1>4

(* The writer's file: its placeholder, its content, and its entry.         *)
LEMMA FilesKept ==
  ASSUME KeptInv, NEW t \in Tasks, CreateFile(t) \/ CloseWritable(t)
  PROVE  \A k \in Sole' : KeyOK(k)'
<1> USE DEF storeVars, memoryVars, indexVars, accessVars, auxVars, lockVars
<1> DEFINE s == IF pc[t] = "create" THEN "open" ELSE "stat"
           f == IF pc[t] = "create"
                THEN IF disk[req[t].key] = None THEN Placeholder ELSE disk[req[t].key]
                ELSE FinishedFile(t)
<1>0. Typed /\ OpOK(t)
  BY DEF KeptInv, Typed
<1>1. /\ pc[t] \in {"create", "stream"} /\ Goto(t, s)
      /\ disk' = [disk EXCEPT ![req[t].key] = f]
      /\ UNCHANGED <<local, req, flush, index, scan, mixed, doubled>>
  BY DEF CreateFile, CloseWritable, key
<1>2. Active(t) /\ req[t].op = "write" /\ req[t].key \in Keys /\ Sole' = Sole
      /\ req[t].key \in Changes(t)
  BY <1>0, <1>1, ActiveTypes DEF Active, Terminal, OpOK, WritePcs, Sole, Changes, Touched
<1>3. /\ disk'[req[t].key] = f
      /\ \A k \in Keys : k # req[t].key => disk'[k] = disk[k]
  BY <1>0, <1>1, <1>2 DEF Typed, StoreTypes
<1>4. Moves(t, s)
  BY <1>0, <1>1, MovesIf
<1>5. Acts(t)
  BY <1>1, <1>2, <1>3, <1>4 DEF Acts, Moves, Changes
<1>6. pc[t] = "create" => disk'[req[t].key] = disk[req[t].key] \/ ~Whole(req[t].key)'
  <2>1. CASE pc[t] = "create" /\ disk[req[t].key] = None
    <3>1. disk'[req[t].key] = Placeholder /\ Placeholder.written = FALSE
      BY <1>3, <2>1 DEF Placeholder
    <3>2. QED
      BY <1>1, <3>1 DEF Whole
  <2>2. CASE pc[t] = "create" /\ disk[req[t].key] # None
    BY <1>3, <2>2
  <2>3. QED
    BY <2>1, <2>2
<1>7. NothingIndexed /\ NothingSettles(t)
  BY <1>1, <1>2, <1>3, <1>4, <1>6 DEF NothingIndexed, NothingSettles, Moves, After
<1>8. f.evictable = req[t].evictable \/ pc[t] = "create"
  BY DEF FinishedFile
<1>9. ASSUME NEW k \in Sole' PROVE Own(t, k)'
  <2>1. Own(t, k)
    BY <1>2, <1>9 DEF KeptInv, KeyOK
  <2>2. CASE k # req[t].key
    <3>1. disk'[k] = disk[k]
      BY <1>2, <1>3, <1>9, <2>2 DEF Sole
    <3>2. QED
      BY <1>1, <1>4, <2>1, <2>2, <3>1 DEF Own, Moves, Whole
  <2>3. CASE k = req[t].key /\ pc[t] = "create"
    <3>1. ~Whole(k)'
      <4>1. ~Whole(k)
        BY <1>2, <2>1, <2>3 DEF Own, Before
      <4>2. QED
        BY <1>1, <1>6, <2>3, <4>1 DEF Whole
    <3>2. QED
      BY <1>4, <2>3, <3>1 DEF Own, Moves
  <2>4. CASE k = req[t].key /\ pc[t] = "stream"
    <3>1. disk'[k].evictable = req'[t].evictable /\ pc'[t] = "stat"
      BY <1>1, <1>3, <1>4, <1>8, <2>4 DEF Moves
    <3>2. QED
      BY <3>1 DEF Own, Before
  <2>5. QED
    BY <1>1, <2>2, <2>3, <2>4
<1>10. QED
  BY <1>5, <1>7, <1>9, PlainStep

LEMMA RegisterKept ==
  ASSUME KeptInv, NEW t \in Tasks, Register(t)
  PROVE  \A k \in Sole' : KeyOK(k)'
<1> USE DEF storeVars, memoryVars, indexVars, accessVars, auxVars, lockVars
<1>0. Typed /\ LocalOK /\ LineInv
  BY DEF KeptInv, Typed, StoreTypes, OrderInv
<1>1. /\ pc[t] = "registering" /\ stage = "enter" /\ Goto(t, "written")
      /\ local' = [local EXCEPT ![t] = NoLocal]
      /\ UNCHANGED <<disk, req, flush, scan, mixed, doubled>>
      /\ index' = [index EXCEPT ![req[t].key] =
                     [size |-> local[t].size, lastAccessed |-> local[t].now,
                      evictable |-> req[t].evictable]]
  BY DEF Register, Holds
<1>2. Active(t) /\ Sole' = Sole /\ local'[t].keys = {}
  BY <1>0, <1>1 DEF Active, Terminal, Sole, LocalOK, NoLocal
<1>3. Moves(t, "written")
  BY <1>0, <1>1, MovesIf
<1>4. Acts(t)
  BY <1>1, <1>2, <1>3 DEF Acts, Moves
<1> TAKE k \in Sole'
<1>5. k \in Keys /\ IndexOK(k) /\ Own(t, k)
  BY <1>2 DEF KeptInv, KeyOK, Sole
<1>6. Own(t, k)'
  BY <1>3 DEF Own, Moves, Before, After
<1>7. scan.key # k
  BY <1>0, <1>1, <1>5, Constants DEF LineInv, NoScan
<1>8. ScanOK(k)'
  BY <1>1, <1>7 DEF ScanOK
<1>9. IndexOK(k)'
  <2>1. CASE k = req[t].key
    <3>1. index'[k].evictable = req[t].evictable
      BY <1>0, <1>1, <1>5, <2>1 DEF Typed, StoreTypes
    <3>2. QED
      BY <1>1, <1>5, <2>1, <3>1 DEF Own, IndexOK, Settled, Whole, After
  <2>2. CASE k # req[t].key
    <3>1. index'[k] = index[k]
      BY <1>0, <1>1, <1>5, <2>2 DEF Typed, StoreTypes
    <3>2. Registering(k) => Registering(k)'
      BY <1>1, <1>3, <2>2 DEF Registering, Moves
    <3>3. QED
      BY <1>1, <1>5, <3>1, <3>2 DEF IndexOK, Settled, Whole
  <2>3. QED
    BY <2>1, <2>2
<1>10. QED
  BY <1>4, <1>6, <1>8, <1>9, ActsOthers DEF KeyOK

(* The steps that take entries out of the index, or note a use in it.      *)
LEMMA IndexStepsKept ==
  ASSUME KeptInv, NEW t \in Tasks, FileMissing(t) \/ ClearEnd(t) \/ TouchEnd(t)
  PROVE  \A k \in Sole' : KeyOK(k)'
<1> USE DEF storeVars, memoryVars, indexVars, accessVars, auxVars, lockVars
<1>0. Typed /\ LocalOK /\ OpOK(t)
  BY DEF KeptInv, Typed, StoreTypes
<1>1. /\ pc[t] \in {"stream", "stat", "collect", "touching"}
      /\ \E s \in {"cleanup", "done"} :
           Goto(t, s) /\ (s = "cleanup" => pc[t] \in {"stream", "stat"})
      /\ UNCHANGED <<disk, req, flush, scan, doubled>>
      /\ mixed \subseteq mixed' \/ mixed' = Keys
  <2>1. CASE FileMissing(t)
    BY <1>0, <2>1, FailTyped DEF FileMissing
  <2>2. CASE ClearEnd(t)
    BY <2>2 DEF ClearEnd, InvalidateFolders
  <2>3. CASE TouchEnd(t)
    BY <2>3 DEF TouchEnd, Holds
  <2>4. QED
    BY <2>1, <2>2, <2>3
<1>2. PICK s \in {"cleanup", "done"} :
        Goto(t, s) /\ (s = "cleanup" => pc[t] \in {"stream", "stat"})
  BY <1>1
<1>3. local' = local \/ \E l : local' = [local EXCEPT ![t] = l]
  BY <1>0, FailTyped DEF ClearEnd, TouchEnd
<1>4. Moves(t, s)
  BY <1>0, <1>1, <1>2, <1>3, MovesIf
<1>5. s = "cleanup" => local'[t].keys = {}
  <2>1. CASE FileMissing(t)
    BY <1>0, <2>1, FailTyped
  <2>2. CASE ClearEnd(t) \/ TouchEnd(t)
    BY <1>2, <2>2 DEF ClearEnd, TouchEnd, Holds
  <2>3. QED
    BY <2>1, <2>2
<1>6. Active(t) /\ Sole' \subseteq Sole /\ (s = "done" => ~Active(t)')
  BY <1>1, <1>4 DEF Active, Terminal, Sole, Moves
<1>7. Acts(t)
  BY <1>1, <1>4, <1>5, <1>6 DEF Acts, Moves
<1>8. NothingIndexed
  <2>1. CASE FileMissing(t) \/ ClearEnd(t)
    BY <1>1, <2>1 DEF FileMissing, ClearEnd, InvalidateFolders, Nothing, NothingIndexed
  <2>2. CASE TouchEnd(t)
    <3>1. \A k \in Keys : index'[k] = index[k] \/
            (index[k] # None /\ index'[k] = [index[k] EXCEPT !.lastAccessed = local[t].now])
      BY <1>0, <2>2 DEF TouchEnd, Typed, StoreTypes
    <3>2. \A k \in Keys : index[k] # None => index[k] \in EntryType
      BY <1>0 DEF Typed, StoreTypes
    <3>3. QED
      BY <1>1, <3>1, <3>2 DEF NothingIndexed, EntryType
  <2>3. QED
    BY <2>1, <2>2
<1>9. pc[t] \in {"stream", "stat"} => ~Whole(req[t].key)
  BY <1>1, <1>2 DEF FileMissing, ClearEnd, TouchEnd, Holds, Whole, key
<1>10. NothingSettles(t)
  BY <1>1, <1>9 DEF NothingSettles, After, Whole
<1>11. \A k \in Sole' : Own(t, k)'
  BY <1>1, <1>2, <1>4, <1>9 DEF Own, Moves, Before, After, Whole
<1>12. QED
  BY <1>7, <1>8, <1>10, <1>11, PlainStep

LEMMA ClearReadKept ==
  ASSUME KeptInv, NEW t \in Tasks, NEW i \in Keys, ClearRead(t, i)
  PROVE  \A k \in Sole' : KeyOK(k)'
<1> USE DEF storeVars, memoryVars, indexVars, accessVars, auxVars, lockVars
<1>0. Typed /\ LocalOK /\ OpOK(t)
  BY DEF KeptInv, Typed, StoreTypes
<1>1. /\ pc[t] = "collect" /\ pc' = pc
      /\ UNCHANGED <<disk, req, flush, index, scan, mixed, doubled>>
      /\ local' = [local EXCEPT ![t].todo = @ \ {i},
                                ![t].keys = IF IsInFolder(i, req[t].folder)
                                            THEN @ \cup {i} ELSE @]
  BY DEF ClearRead
<1>2. Goto(t, "collect") /\ \E l : local' = [local EXCEPT ![t] = l]
  BY <1>0, <1>1 DEF Goto, Typed, OrderInv, ScheduleOK
<1>3. Moves(t, "collect") /\ Sole' = Sole
  BY <1>0, <1>1, <1>2, MovesIf DEF Sole
<1>4. local'[t].keys = IF IsInFolder(i, req[t].folder)
                       THEN local[t].keys \cup {i} ELSE local[t].keys
  BY <1>0, <1>1 DEF LocalOK
<1>5. Active(t) /\ Touched(req[t]) = Keys
  BY <1>0, <1>1 DEF Active, Terminal, OpOK, Touched
<1>6. Acts(t)
  BY <1>1, <1>3, <1>5 DEF Acts, Moves, Changes, Sole
<1>7. NothingIndexed /\ NothingSettles(t)
  BY <1>1 DEF NothingIndexed, NothingSettles, After
<1>8. \A k \in Sole' : Own(t, k)'
  BY <1>1, <1>3, <1>4 DEF KeptInv, KeyOK, Own, Moves, Whole, Before, After, IsInFolder
<1>9. QED
  BY <1>6, <1>7, <1>8, PlainStep

(* Steps that leave the tasks, the store and the flushes as they are.      *)
LEMMA AsideStep ==
  ASSUME KeptInv, UNCHANGED <<disk, pc, req, local, flush>>, Sole' \subseteq Sole,
         \A k \in Sole : IndexOK(k)' /\ ScanOK(k)'
  PROVE  \A k \in Sole' : KeyOK(k)'
<1> TAKE k \in Sole'
<1>1. k \in Sole /\ Excl(k) /\ FlushOK(k) /\ \A t \in Tasks : Own(t, k)
  BY DEF KeptInv, KeyOK
<1>2. Excl(k)' /\ FlushOK(k)' /\ \A t \in Tasks : Own(t, k)'
  BY <1>1 DEF Excl, Active, Changes, FlushOK, Own, Whole
<1>3. QED
  BY <1>1, <1>2 DEF KeyOK

LEMMA PopulateKept ==
  ASSUME KeptInv, NEW t \in Tasks, Populate(t)
  PROVE  \A k \in Sole' : KeyOK(k)'
<1> USE DEF storeVars, memoryVars, indexVars, accessVars, auxVars, lockVars
<1>1. UNCHANGED <<disk, pc, req, local, flush, mixed, doubled>>
  BY DEF Populate, PopulateSkip, PopulateBegin, PopulateEnd, ScanRecord, ScanPassOver, ScanRead
<1>2. Sole' = Sole
  BY <1>1 DEF Sole
<1>3. ASSUME NEW k \in Sole PROVE IndexOK(k)' /\ ScanOK(k)'
  <2>1. /\ k \in Keys /\ IndexOK(k) /\ ScanOK(k) /\ k # None
        /\ Settled(k)' = Settled(k)
    BY <1>1, Constants DEF KeptInv, KeyOK, Sole, Settled, Registering, Whole
  <2>2. CASE PopulateSkip(t)
    BY <1>1, <2>1, <2>2 DEF PopulateSkip, IndexOK, ScanOK
  <2>3. CASE PopulateBegin(t)
    BY <2>1, <2>3 DEF PopulateBegin, IndexOK, ScanOK, Nothing, NoScan
  <2>4. CASE PopulateEnd(t) \/ ScanPassOver(t)
    BY <1>1, <2>1, <2>4 DEF PopulateEnd, ScanPassOver, IndexOK, ScanOK, NoScan
  <2>5. CASE ScanRecord(t)
    <3>1. scan'.key = None /\ index' = [index EXCEPT ![scan.key] = IndexEntry(scan.file)]
      BY <2>5 DEF ScanRecord, NoScan
    <3>2. ScanOK(k)'
      BY <2>1, <3>1 DEF ScanOK
    <3>3. CASE k = scan.key
      <4>1. index'[k].evictable = scan.file.evictable
        BY <2>1, <3>1, <3>3 DEF IndexEntry, KeptInv, Typed, StoreTypes
      <4>2. QED
        BY <1>1, <2>1, <3>2, <3>3, <4>1 DEF IndexOK, ScanOK
    <3>4. CASE k # scan.key
      <4>1. index'[k] = index[k]
        BY <2>1, <3>1, <3>4 DEF KeptInv, Typed, StoreTypes
      <4>2. QED
        BY <1>1, <2>1, <3>2, <4>1 DEF IndexOK
    <3>5. QED
      BY <3>3, <3>4
  <2>6. CASE \E i \in Keys : ScanRead(t, i)
    <3>1. index' = index /\ (scan'.key = k => scan'.file = disk[k])
      BY <2>1, <2>6 DEF ScanRead
    <3>2. QED
      BY <1>1, <2>1, <3>1 DEF IndexOK, ScanOK
  <2>7. QED
    BY <2>2, <2>3, <2>4, <2>5, <2>6 DEF Populate
<1>4. QED
  BY <1>1, <1>2, <1>3, AsideStep

LEMMA BeginKept ==
  ASSUME KeptInv, NEW t \in Tasks, NEW r \in Requests, Begin(t, r)
  PROVE  \A k \in Sole' : KeyOK(k)'
<1> USE DEF storeVars, memoryVars, indexVars, accessVars
<1>0. /\ Typed /\ LocalOK /\ r.op \in Ops
      /\ pc[t] = "idle" /\ UNCHANGED <<disk, index, scan, flush>>
  BY Constants DEF Begin, KeptInv, Typed, StoreTypes
<1>1. /\ pc'[t] = FirstStep(r.op) /\ req'[t] = r
      /\ local'[t].keys = IF r.op = "drop" THEN {r.key} ELSE {}
      /\ \A u \in Tasks \ {t} : pc'[u] = pc[u] /\ req'[u] = req[u] /\ local'[u] = local[u]
  BY <1>0 DEF Begin, Goto, Typed, OrderInv, ScheduleOK, StoreTypes, LocalOK
<1>2. Changes(t)' = Touched(r)
  BY <1>1 DEF Changes, Touched
<1>3. \A u \in Tasks \ {t} : Changes(u)' = Changes(u) /\ (Active(u)' <=> Active(u))
  BY <1>1 DEF Changes, Active
<1> TAKE k \in Sole'
<1>4. k \in Sole /\ k \in Keys
  BY DEF Begin, Sole
<1>5. k \in Touched(r) => /\ k \notin Flushed
                          /\ \A u \in Tasks \ {t} : Active(u) => k \notin Changes(u)
  <2>1. k \in Touched(r) => /\ k \notin Flushed /\ k \notin ChangedBy(Tasks \ Rivals(r))
                            /\ k \notin ChangedBy(Rivals(r))
    BY DEF Begin, Sole
  <2>2. ASSUME NEW u \in Tasks, Active(u), k \in Changes(u)
        PROVE  k \in ChangedBy(Tasks \ Rivals(r)) \/ k \in ChangedBy(Rivals(r))
    BY <2>2 DEF ChangedBy, Changes
  <2>3. QED
    BY <2>1, <2>2
<1>6. Excl(k) /\ IndexOK(k) /\ ScanOK(k) /\ FlushOK(k) /\ \A u \in Tasks : Own(u, k)
  BY <1>4 DEF KeptInv, KeyOK
<1>7. Excl(k)'
  BY <1>0, <1>2, <1>3, <1>4, <1>5, <1>6 DEF Excl, Flushed
<1>8. Registering(k) => Registering(k)'
  BY <1>0, <1>1 DEF Registering, After
<1>9. IndexOK(k)' /\ ScanOK(k)' /\ FlushOK(k)'
  BY <1>0, <1>6, <1>8 DEF IndexOK, ScanOK, FlushOK, Settled, Whole
<1>10. Own(t, k)'
  BY <1>0, <1>1 DEF Own, FirstStep, Ops, Before, After
<1>11. \A u \in Tasks \ {t} : Own(u, k)'
  BY <1>0, <1>1, <1>6 DEF Own, Whole
<1>12. QED
  BY <1>7, <1>9, <1>10, <1>11 DEF KeyOK

LEMMA ThrottledKept ==
  ASSUME KeptInv, NEW t \in Tasks, NEW r \in Requests, Throttled(t, r)
  PROVE  \A k \in Sole' : KeyOK(k)'
<1> USE DEF storeVars, memoryVars, indexVars, accessVars, auxVars, lockVars
<1>1. /\ pc[t] = "idle" /\ pc'[t] = "done"
      /\ UNCHANGED <<disk, index, scan, flush, local, mixed, doubled>>
      /\ \A u \in Tasks \ {t} : pc'[u] = pc[u] /\ req'[u] = req[u]
  BY DEF Throttled, Goto, KeptInv, Typed, OrderInv, ScheduleOK, StoreTypes
<1> TAKE k \in Sole'
<1>2. Excl(k) /\ IndexOK(k) /\ ScanOK(k) /\ FlushOK(k) /\ \A u \in Tasks : Own(u, k)
  BY <1>1 DEF KeptInv, KeyOK, Sole
<1>3. \A u \in Tasks : Active(u)' => Active(u) /\ Changes(u)' = Changes(u)
  BY <1>1 DEF Active, Terminal, Changes
<1>4. Excl(k)' /\ FlushOK(k)'
  BY <1>1, <1>2, <1>3 DEF Excl, FlushOK
<1>5. Registering(k) => Registering(k)'
  BY <1>1 DEF Registering, After
<1>6. IndexOK(k)' /\ ScanOK(k)' /\ \A u \in Tasks : Own(u, k)'
  BY <1>1, <1>2, <1>5 DEF IndexOK, ScanOK, Settled, Whole, Own, Before, After
<1>7. QED
  BY <1>4, <1>6 DEF KeyOK

LEMMA SameFileButUse ==
  ASSUME NEW f, NEW g, SameFile(f, g) PROVE SameButUse(g, f)
<1>1. f \in FileType /\ g \in FileType /\ g # None
  BY Constants DEF SameFile
<1>2. PICK a \in Nat : f.lastAccessed = a
  BY <1>1 DEF FileType
<1>3. [g EXCEPT !.lastAccessed = a] \in FileType
  BY <1>1 DEF FileType
<1>4. /\ [g EXCEPT !.lastAccessed = a].written = f.written
      /\ [g EXCEPT !.lastAccessed = a].body = f.body
      /\ [g EXCEPT !.lastAccessed = a].folder = f.folder
      /\ [g EXCEPT !.lastAccessed = a].evictable = f.evictable
      /\ [g EXCEPT !.lastAccessed = a].lastAccessed = f.lastAccessed
  BY <1>1, <1>2 DEF SameFile, FileType
<1>5. \A h \in FileType :
        h = [written |-> h.written, body |-> h.body, folder |-> h.folder,
             evictable |-> h.evictable, lastAccessed |-> h.lastAccessed]
  BY DEF FileType
<1>6. [g EXCEPT !.lastAccessed = a] = f
  BY <1>1, <1>3, <1>4, <1>5
<1>7. QED
  BY <1>1, <1>2, <1>6 DEF SameButUse

LEMMA RestartKept == ASSUME KeptInv, Restart PROVE \A k \in Sole' : KeyOK(k)'
<1> TAKE k \in Sole'
<1>1. \A t \in Tasks : ~Active(t)' /\ pc'[t] \notin Before \cup After \cup {"evict", "collect"}
  BY DEF Restart, Active, Terminal, Before, After
<1>2. index'[k] = None /\ scan'.key # k /\ flush'[k].at = "none"
  BY Constants DEF Restart, Nothing, NoScan, NoFlushes, NoFlush, Sole
<1>3. QED
  BY <1>1, <1>2 DEF KeyOK, Excl, IndexOK, ScanOK, FlushOK, Own

LEMMA FireKept == ASSUME KeptInv, Fire PROVE \A k \in Sole' : KeyOK(k)'
<1> USE DEF storeVars, indexVars, lockVars
<1> TAKE k \in Sole'
<1>1. UNCHANGED <<disk, index, scan, pc, req, local>>
  BY DEF Fire
<1>2. k \in Sole /\ k \in Keys /\ (k \in Pending => k \notin ChangedBy(Tasks))
  BY DEF Fire, Sole
<1>3. Excl(k) /\ IndexOK(k) /\ ScanOK(k) /\ FlushOK(k) /\ \A t \in Tasks : Own(t, k)
  BY <1>2 DEF KeptInv, KeyOK
<1>4. flush'[k] = flush[k] \/ (k \in Pending /\ flush'[k].at = "read")
  BY <1>2 DEF Fire
<1>5. Excl(k)'
  BY <1>1, <1>2, <1>3, <1>4 DEF Excl, Active, Changes, ChangedBy
<1>6. FlushOK(k)'
  BY <1>1, <1>3, <1>4 DEF FlushOK
<1>7. IndexOK(k)' /\ ScanOK(k)' /\ \A t \in Tasks : Own(t, k)'
  BY <1>1, <1>3 DEF IndexOK, ScanOK, Settled, Registering, Whole, Own
<1>8. QED
  BY <1>5, <1>6, <1>7 DEF KeyOK

(* What a step of a flush on i does to the file and the flush of each key. *)
LEMMA FlushStep ==
  ASSUME Typed, NEW i \in Keys, Flush(i), NEW k \in Keys, FlushOK(k)
  PROVE  /\ UNCHANGED <<index, scan, pc, req, local>>
         /\ flush'[k].at # "none" => flush[k].at # "none"
         /\ FlushOK(k)'
         /\ disk'[k] = disk[k] \/ (SameFile(disk[k], disk'[k]) /\ SameButUse(disk'[k], disk[k]))
<1> USE DEF indexVars, lockVars
<1>1. UNCHANGED <<index, scan, pc, req, local>>
  BY DEF Flush
<1>2. FlushOK(k) /\ Typed
  OBVIOUS
<1>3. \E g, f : flush' = [flush EXCEPT ![i] = g] /\ (disk' = disk \/ disk' = [disk EXCEPT ![i] = f])
  BY DEF Flush, FlushRead, FlushOpen, FlushClose, FlushFails
<1>4. CASE k # i
  <2>1. flush'[k] = flush[k] /\ disk'[k] = disk[k]
    BY <1>2, <1>3, <1>4 DEF Typed, StoreTypes
  <2>2. QED
    BY <1>1, <1>2, <2>1 DEF FlushOK
<1>5. CASE k = i /\ FlushRead(i)
  <2>1. /\ flush[k].at = "read" /\ disk' = disk /\ disk[k] \in FileType
        /\ flush'[k] = IF disk[k].written
                       THEN [at |-> "open", time |-> flush[k].time, file |-> disk[k]]
                       ELSE NoFlush
    BY <1>2, <1>5 DEF FlushRead, Typed, StoreTypes
  <2>2. QED
    BY <1>1, <1>2, <2>1 DEF FlushOK, SameFile, NoFlush
<1>6. CASE k = i /\ FlushOpen(i)
  <2>1. /\ flush[k].at = "open" /\ disk' = disk /\ flush'[k].file = flush[k].file
    BY <1>2, <1>6 DEF FlushOpen, Typed, StoreTypes, FlushType
  <2>2. QED
    BY <1>1, <1>2, <2>1 DEF FlushOK
<1>7. CASE k = i /\ FlushClose(i)
  <2>1. /\ flush[k].at = "write" /\ flush'[k].at = "none"
        /\ disk'[k] = [flush[k].file EXCEPT !.lastAccessed = flush[k].time]
        /\ flush[k].time \in Nat
    BY <1>2, <1>7 DEF FlushClose, Typed, StoreTypes, FlushType, NoFlush
  <2>2. SameFile(disk[k], flush[k].file)
    BY <1>2, <2>1 DEF FlushOK
  <2>3. SameFile(disk[k], disk'[k])
    BY <2>1, <2>2 DEF SameFile, FileType
  <2>4. SameButUse(disk'[k], disk[k])
    BY <2>3, SameFileButUse
  <2>5. QED
    BY <1>1, <1>2, <2>1, <2>3, <2>4 DEF FlushOK
<1>8. CASE k = i /\ FlushFails(i)
  <2>1. flush[k].at # "none" /\ disk' = disk /\ flush'[k].at = "none"
    BY <1>2, <1>8 DEF FlushFails, Typed, StoreTypes, NoFlush
  <2>2. QED
    BY <1>1, <1>2, <2>1 DEF FlushOK
<1>9. QED
  BY <1>4, <1>5, <1>6, <1>7, <1>8 DEF Flush

LEMMA FlushKept ==
  ASSUME KeptInv, NEW i \in Keys, Flush(i)
  PROVE  \A k \in Sole' : KeyOK(k)'
<1> TAKE k \in Sole'
<1>0. k \in Sole /\ k \in Keys /\ Typed /\ FlushOK(k)
  BY DEF Flush, FlushRead, FlushOpen, FlushClose, FlushFails, Sole, KeptInv, KeyOK
<1>1. /\ UNCHANGED <<index, scan, pc, req, local>>
      /\ flush'[k].at # "none" => flush[k].at # "none"
      /\ FlushOK(k)'
      /\ disk'[k] = disk[k] \/ SameFile(disk[k], disk'[k])
  BY <1>0, FlushStep
<1>2. Excl(k) /\ IndexOK(k) /\ ScanOK(k) /\ \A t \in Tasks : Own(t, k)
  BY <1>0 DEF KeptInv, KeyOK
<1>3. /\ Whole(k)' => Whole(k)
      /\ disk'[k].evictable = disk[k].evictable /\ disk'[k].folder = disk[k].folder
  BY <1>1, Constants DEF Whole, SameFile
<1>4. Excl(k)'
  BY <1>1, <1>2 DEF Excl, Active, Changes
<1>5. IndexOK(k)' /\ ScanOK(k)'
  BY <1>1, <1>2, <1>3 DEF IndexOK, ScanOK, Settled, Registering
<1>6. \A t \in Tasks : Own(t, k)'
  BY <1>1, <1>2, <1>3 DEF Own
<1>7. QED
  BY <1>1, <1>4, <1>5, <1>6 DEF KeyOK

LEMMA TaskKept ==
  ASSUME KeptInv, NEW t \in Tasks, TaskStep(t)
  PROVE  \A k \in Sole' : KeyOK(k)'
BY QuietSteps, DecisionsKept, RemovalsKept, FilesKept, RegisterKept, IndexStepsKept,
   ClearReadKept, PopulateKept DEF TaskStep, IndexStep, WriteStep, ControlStep

LEMMA NextKept == KeptInv /\ [Next]_vars => KeptInv'
<1> SUFFICES ASSUME KeptInv, [Next]_vars PROVE KeptInv'
  OBVIOUS
<1>1. Typed'
  BY NextTyped DEF KeptInv
<1>2. CASE UNCHANGED vars
  <2>1. UNCHANGED <<disk, index, scan, flush, pc, req, local, mixed, doubled>>
    BY <1>2 DEF vars
  <2>2. \A k \in Sole : IndexOK(k)' /\ ScanOK(k)'
    BY <2>1 DEF KeptInv, KeyOK, IndexOK, ScanOK, Settled, Registering, Whole
  <2>3. QED
    BY <1>1, <2>1, <2>2, AsideStep DEF KeptInv, Sole
<1>3. CASE Next
  BY <1>1, <1>3, TaskKept, BeginKept, ThrottledKept, RestartKept, FireKept, FlushKept
     DEF Next, KeptInv
<1>4. QED
  BY <1>2, <1>3

(* A whole file that a step removes, or changes but for the time of its    *)
(* last use, is one that may be removed then.                              *)
Kept(k) == Whole(k) /\ ~SameButUse(disk'[k], disk[k]) => Removable(k)

LEMMA SameIsKept ==
  ASSUME KeptInv, NEW k \in Keys, disk'[k] = disk[k] PROVE Kept(k)
<1>1. CASE Whole(k)
  <2>1. disk[k] \in FileType
    BY <1>1 DEF Whole, KeptInv, Typed, StoreTypes
  <2>2. SameButUse(disk[k], disk[k])
    BY <2>1, SameFileButUse DEF SameFile
  <2>3. QED
    BY <2>2 DEF Kept
<1>2. QED
  BY <1>1 DEF Kept

LEMMA RemovalIsAllowed ==
  ASSUME KeptInv, NEW t \in Tasks, NEW k \in Sole,
         Evict(t) \/ Cleanup(t) \/ Delete(t) \/ \E i \in Keys : ClearRemove(t, i)
  PROVE  Kept(k)
<1>0. k \in Keys /\ Own(t, k) /\ OpOK(t) /\ Typed
  BY DEF Sole, KeptInv, KeyOK, Typed
<1> SUFFICES ASSUME Whole(k), disk'[k] # disk[k] PROVE Removable(k)
  BY <1>0, SameIsKept DEF Kept
<1>1. CASE Evict(t)
  <2>1. pc[t] = "evict" /\ k \in local[t].keys
    BY <1>0, <1>1, RemovalTyped DEF Evict
  <2>2. QED
    BY <1>0, <2>1 DEF Own, Removable
<1>2. CASE Cleanup(t)
  <2>1. pc[t] = "cleanup" /\ k = req[t].key
    BY <1>0, <1>2, RemovalTyped DEF Cleanup, key
  <2>2. QED
    BY <1>0, <2>1 DEF Own, Before, OpOK, WritePcs
<1>3. CASE Delete(t)
  <2>1. pc[t] = "remove" /\ k = req[t].key
    BY <1>0, <1>3, RemovalTyped DEF Delete
  <2>2. QED
    BY <2>1 DEF Removable
<1>4. ASSUME NEW i \in Keys, ClearRemove(t, i) PROVE Removable(k)
  <2>1. pc[t] = "collect" /\ k = i /\ k \in local[t].keys
    BY <1>0, <1>4, RemovalTyped DEF ClearRemove
  <2>2. QED
    BY <1>0, <2>1 DEF Own, Removable
<1>5. QED
  BY <1>1, <1>2, <1>3, <1>4

LEMMA WriterFindsNone ==
  ASSUME KeptInv, NEW t \in Tasks, NEW k \in Sole, CreateFile(t) \/ CloseWritable(t)
  PROVE  Kept(k)
<1>1. /\ k \in Keys /\ Own(t, k) /\ OpOK(t) /\ disk \in [Keys -> FileType \cup {None}]
      /\ pc[t] \in {"create", "stream"}
      /\ \E f : disk' = [disk EXCEPT ![req[t].key] = f]
  BY DEF Sole, KeptInv, KeyOK, Typed, StoreTypes, CreateFile, CloseWritable, key
<1>2. CASE k = req[t].key
  BY <1>1, <1>2 DEF Own, Before, OpOK, WritePcs, Kept
<1>3. CASE k # req[t].key
  BY <1>1, <1>3, SameIsKept
<1>4. QED
  BY <1>2, <1>3

(* The other steps of a task leave the store alone. *)
LEMMA TaskLeavesStore ==
  ASSUME Typed, NEW t \in Tasks, TaskStep(t)
  PROVE  \/ Evict(t) \/ Cleanup(t) \/ Delete(t) \/ \E k \in Keys : ClearRemove(t, k)
         \/ CreateFile(t) \/ CloseWritable(t)
         \/ disk' = disk
<1> USE DEF storeVars, memoryVars, indexVars, accessVars
<1>1. CASE IndexStep(t)
  BY <1>1 DEF IndexStep, Populate, PopulateSkip, PopulateBegin, PopulateEnd, ScanRecord,
              ScanPassOver, ScanRead, Ensured, Register, Unindex, Unindexed
<1>2. CASE ControlStep(t)
  BY <1>2 DEF ControlStep, Lookup, ReadFile, ListEntries, ClearEnd, ClearRead
<1>3. CASE TouchEnd(t)
  BY <1>3 DEF TouchEnd
<1>4. CASE WriteStep(t)
  <2>1. WriteExists(t) \/ Estimate(t) \/ OpenWritable(t) \/ OpenFails(t) \/ Stat(t)
          \/ CallRegister(t) => disk' = disk
    BY DEF WriteExists, Estimate, OpenWritable, OpenFails, Stat, CallRegister
  <2>2. StreamFails(t) \/ FileMissing(t) => disk' = disk
    BY FailTyped
  <2>3. DecideSpace(t) \/ DecideQuota(t) => disk' = disk
    BY SpaceDecision, QuotaDecision
  <2>4. QED
    BY <1>4, <2>1, <2>2, <2>3 DEF WriteStep
<1>5. QED
  BY <1>1, <1>2, <1>3, <1>4 DEF TaskStep

LEMMA StepKeeps ==
  ASSUME KeptInv, [Next]_vars, NEW k \in Sole PROVE Kept(k)
<1>0. k \in Keys /\ Typed /\ FlushOK(k)
  BY DEF Sole, KeptInv, KeyOK
<1>1. CASE UNCHANGED vars
  BY <1>0, <1>1, SameIsKept DEF vars
<1>2. CASE Restart \/ Fire
  BY <1>0, <1>2, SameIsKept DEF Restart, Fire, storeVars
<1>3. ASSUME NEW i \in Keys, Flush(i) PROVE Kept(k)
  BY <1>0, <1>3, FlushStep, SameIsKept DEF Kept
<1>4. ASSUME NEW t \in Tasks, NEW r \in Requests, Begin(t, r) \/ Throttled(t, r)
      PROVE  Kept(k)
  BY <1>0, <1>4, SameIsKept DEF Begin, Throttled, storeVars
<1>5. ASSUME NEW t \in Tasks, TaskStep(t) PROVE Kept(k)
  BY <1>0, <1>5, TaskLeavesStore, SameIsKept, RemovalIsAllowed, WriterFindsNone
     DEF KeptInv
<1>6. QED
  BY <1>1, <1>2, <1>3, <1>4, <1>5 DEF Next
------------------------------------------------------------------------------
(* A file that was written whole leaves the store by a deletion, a clear   *)
(* of its folder or, if it is not pinned, an eviction, and by nothing else:*)
(* no step of a task, a flush or a restart removes or changes it otherwise,*)
(* but where operations overlapped on its key.                             *)
THEOREM FilesStay == Spec => FilesAreKept
<1>1. KeptInv /\ [Next]_vars =>
        \A k \in Keys \ (mixed \cup doubled) :
          disk[k] # None /\ disk[k].written /\ ~SameButUse(disk[k]', disk[k]) => Removable(k)
  BY StepKeeps DEF Kept, Whole, Sole
<1>2. QED
  BY <1>1, InitKept, NextKept, PTL DEF Spec, FilesAreKept
------------------------------------------------------------------------------
(* The time of the last use.  It is pending until its flush begins, and in *)
(* the flush until that has written it.                                    *)

LEMMA MixedGrows ==
  ASSUME Typed, RestTypes, [Next]_vars, ~Restart
  PROVE  mixed \subseteq mixed'
<1> USE DEF auxVars
<1>1. CASE UNCHANGED vars \/ Fire \/ \E k \in Keys : Flush(k)
  BY <1>1 DEF vars, Fire, Flush, FlushRead, FlushOpen, FlushClose, FlushFails
<1>2. ASSUME NEW t \in Tasks, NEW r \in Requests, Begin(t, r) \/ Throttled(t, r)
      PROVE  mixed \subseteq mixed'
  BY <1>2 DEF Begin, Throttled
<1>3. ASSUME NEW t \in Tasks, TaskStep(t) PROVE mixed \subseteq mixed'
  <2>1. CASE IndexStep(t)
    BY <2>1 DEF IndexStep, Populate, PopulateSkip, PopulateBegin, PopulateEnd, ScanRecord,
                ScanPassOver, ScanRead, Ensured, Register, Unindex, Unindexed
  <2>2. CASE ControlStep(t) \/ TouchEnd(t)
    BY <2>2 DEF ControlStep, TouchEnd, Delete, Lookup, ReadFile, ListEntries, ClearRead,
                ClearRemove, ClearEnd, InvalidateFolders, RestTypes
  <2>3. CASE WriteStep(t)
    <3>1. CASE DecideSpace(t) \/ DecideQuota(t)
      BY <3>1, SpaceDecision, QuotaDecision
    <3>2. CASE StreamFails(t) \/ FileMissing(t)
      BY <3>2 DEF StreamFails, FileMissing, InvalidateFolders, RestTypes
    <3>3. CASE \/ WriteExists(t) \/ Evict(t) \/ CreateFile(t) \/ OpenWritable(t) \/ OpenFails(t)
               \/ CloseWritable(t) \/ Cleanup(t) \/ Estimate(t) \/ Stat(t) \/ CallRegister(t)
      BY <3>3 DEF WriteExists, Evict, CreateFile, OpenWritable, OpenFails, CloseWritable,
                  Cleanup, Estimate, Stat, CallRegister
    <3>4. QED
      BY <2>3, <3>1, <3>2, <3>3 DEF WriteStep
  <2>4. QED
    BY <1>3, <2>1, <2>2, <2>3 DEF TaskStep
<1>4. QED
  BY <1>1, <1>2, <1>3 DEF Next

(* A use that was noted is over, as are those the tasks are to note.       *)
TimeInv ==
  /\ \A t \in Tasks : local[t].now < clock
  /\ \A k \in Keys : lastUpdate[k] < clock

UseOK(k) ==
  /\ pendingWrites[k] # 0 => pendingWrites[k] = lastUpdate[k]
  /\ pendingWrites[k] = 0 /\ flush[k].at # "none" => flush[k].time >= lastUpdate[k]
  /\ pendingWrites[k] = 0 /\ flush[k].at = "none" /\ Whole(k) =>
       disk[k].lastAccessed >= lastUpdate[k]

UseTypes == Typed /\ RestTypes
UseInv == UseTypes /\ TimeInv /\ \A k \in Keys \ mixed : UseOK(k)

LEMMA UseTyped == UseTypes /\ [Next]_vars => UseTypes'
BY NextTyped, NextRest DEF UseTypes

LEMMA InitUse == Init => UseInv
<1> SUFFICES ASSUME Init PROVE UseInv
  OBVIOUS
<1>1. UseTypes
  BY InitTyped, InitRest DEF UseTypes
<1>2. /\ \A t \in Tasks : local[t].now = 0
      /\ \A k \in Keys : lastUpdate[k] = 0 /\ pendingWrites[k] = 0 /\ flush[k].at = "none"
      /\ clock = 1
  BY DEF Init, Never, NoLocal, NoFlushes, NoFlush
<1>3. \A k \in Keys : Whole(k) => disk[k].lastAccessed = 0
  BY DEF Init, Whole, StoredFile
<1>4. QED
  BY <1>1, <1>2, <1>3 DEF UseInv, TimeInv, UseOK

(* Where no use was noted, none can be lost. *)
LEMMA UnusedOK ==
  ASSUME NEW k \in Keys, UseTypes', lastUpdate'[k] = 0, pendingWrites'[k] = 0
  PROVE  UseOK(k)'
<1>1. flush'[k].time \in Nat /\ (disk'[k] # None => disk'[k].lastAccessed \in Nat)
  BY DEF UseTypes, Typed, StoreTypes, FlushType, FileType
<1>2. QED
  BY <1>1 DEF UseOK, Whole

LEMMA SameUseOK ==
  ASSUME UseTypes, NEW k \in Keys, UseOK(k), UNCHANGED accessVars,
         \/ disk'[k] = disk[k] \/ ~Whole(k)'
         \/ disk'[k].lastAccessed >= lastUpdate[k]
  PROVE  UseOK(k)'
BY DEF accessVars, UseOK, Whole

LEMMA TaskAccess ==
  ASSUME Typed, NEW t \in Tasks, TaskStep(t)
  PROVE  UNCHANGED accessVars \/ Unindex(t) \/ TouchEnd(t)
<1> USE DEF memoryVars, indexVars
<1>1. CASE IndexStep(t)
  BY <1>1 DEF IndexStep, Populate, PopulateSkip, PopulateBegin, PopulateEnd, ScanRecord,
              ScanPassOver, ScanRead, Ensured, Register, Unindexed
<1>2. CASE ControlStep(t)
  BY <1>2 DEF ControlStep, Delete, Lookup, ReadFile, ListEntries, ClearRead, ClearRemove, ClearEnd
<1>3. CASE WriteStep(t)
  <2>1. CASE DecideSpace(t) \/ DecideQuota(t)
    BY <2>1, Zenon DEF DecideSpace, DecideQuota
  <2>2. CASE StreamFails(t) \/ FileMissing(t)
    <3>1. PICK reason, bytes : Fail(t, reason, bytes)
      BY <2>2 DEF StreamFails, FileMissing
    <3>2. QED
      BY <3>1 DEF Fail
  <2>3. CASE \/ WriteExists(t) \/ Evict(t) \/ CreateFile(t) \/ OpenWritable(t) \/ OpenFails(t)
             \/ CloseWritable(t) \/ Cleanup(t) \/ Estimate(t) \/ Stat(t) \/ CallRegister(t)
    BY <2>3 DEF WriteExists, Evict, CreateFile, OpenWritable, OpenFails, CloseWritable,
                Cleanup, Estimate, Stat, CallRegister
  <2>4. QED
    BY <1>3, <2>1, <2>2, <2>3 DEF WriteStep
<1>4. QED
  BY <1>1, <1>2, <1>3 DEF TaskStep

LEMMA ClockRuns == ASSUME UseTypes, [Next]_vars PROVE clock' \in Nat /\ clock' >= clock
<1>0. clock \in Nat
  BY DEF UseTypes, Typed, StoreTypes
<1>1. clock' = clock \/ clock' = clock + 1
  <2>1. CASE UNCHANGED vars \/ Restart \/ Fire \/ \E k \in Keys : Flush(k)
    BY <2>1, Zenon DEF vars, Restart, Fire, Flush
  <2>2. ASSUME NEW t \in Tasks, NEW r \in Requests, Begin(t, r) \/ Throttled(t, r)
        PROVE  clock' = clock \/ clock' = clock + 1
    BY <2>2 DEF Begin, Throttled
  <2>3. ASSUME NEW t \in Tasks, TaskStep(t) PROVE clock' = clock \/ clock' = clock + 1
    <3>1. CASE IndexStep(t)
      BY <3>1, Zenon DEF IndexStep, Populate, PopulateSkip, PopulateBegin, PopulateEnd,
         ScanRecord, ScanPassOver, ScanRead, Ensured, Register, Unindex, Unindexed
    <3>2. CASE ControlStep(t) \/ TouchEnd(t)
      BY <3>2, Zenon DEF ControlStep, TouchEnd, Delete, Lookup, ReadFile, ListEntries, ClearRead,
         ClearRemove, ClearEnd
    <3>3. CASE WriteStep(t)
      BY <3>3, Zenon DEF WriteStep, DecideSpace, DecideQuota, StreamFails, FileMissing, Fail,
         WriteExists, Evict, CreateFile, OpenWritable, OpenFails, CloseWritable, Cleanup,
         Estimate, Stat, CallRegister
    <3>4. QED
      BY <2>3, <3>1, <3>2, <3>3 DEF TaskStep
  <2>4. QED
    BY <2>1, <2>2, <2>3 DEF Next
<1>2. QED
  BY <1>0, <1>1

LEMMA NextTime == ASSUME UseTypes, TimeInv, [Next]_vars PROVE TimeInv'
<1>0. /\ LocalOK /\ clock \in Nat /\ clock' \in Nat /\ clock' >= clock
      /\ \A t \in Tasks : local[t].now \in Nat
      /\ \A k \in Keys : lastUpdate[k] \in Nat
  BY ClockRuns DEF UseTypes, Typed, StoreTypes, LocalOK, RestTypes
<1>1. CASE UNCHANGED vars \/ Fire \/ \E k \in Keys : Flush(k)
  BY <1>1 DEF vars, Fire, Flush, TimeInv
<1>2. CASE Restart
  <2>1. /\ \A t \in Tasks : local'[t].now = 0
        /\ \A k \in Keys : lastUpdate'[k] = 0
        /\ clock' = clock
    BY <1>2 DEF Restart, NoLocal, Never
  <2>2. QED
    BY <1>0, <2>1 DEF TimeInv
<1>3. ASSUME NEW t \in Tasks, NEW r \in Requests, Begin(t, r) PROVE TimeInv'
  <2>1. /\ lastUpdate' = lastUpdate
        /\ \A u \in Tasks \ {t} : local'[u].now = local[u].now
        /\ \/ local'[t].now = 0 /\ clock' = clock
           \/ local'[t].now = clock /\ clock' = clock + 1
    BY <1>0, <1>3 DEF Begin, LocalOK, memoryVars, accessVars
  <2>2. QED
    BY <1>0, <2>1 DEF TimeInv
<1>4. ASSUME NEW t \in Tasks, NEW r \in Requests, Throttled(t, r) PROVE TimeInv'
  BY <1>4 DEF Throttled, TimeInv, memoryVars, accessVars
<1>5. ASSUME NEW t \in Tasks, TaskStep(t) PROVE TimeInv'
  <2>1. PICK l : Notes(t, l)
    BY <1>5, TaskNotes DEF UseTypes
  <2>2. l.now < clock'
    BY <1>0, <2>1 DEF Notes, TimeInv
  <2>3. \A u \in Tasks : local'[u].now < clock'
    BY <1>0, <2>1, <2>2 DEF Notes, LocalOK, TimeInv
  <2>4. \A k \in Keys : lastUpdate'[k] \in {0, lastUpdate[k], local[t].now}
    <3>1. CASE UNCHANGED accessVars
      BY <3>1 DEF accessVars
    <3>2. CASE Unindex(t)
      BY <3>2 DEF Unindex
    <3>3. CASE TouchEnd(t)
      BY <3>3 DEF TouchEnd, UseTypes, RestTypes
    <3>4. QED
      BY <1>5, <3>1, <3>2, <3>3, TaskAccess DEF UseTypes
  <2>5. QED
    BY <1>0, <2>3, <2>4 DEF TimeInv
<1>6. QED
  BY <1>1, <1>2, <1>3, <1>4, <1>5 DEF Next

LEMMA TaskUse ==
  ASSUME UseInv, UseTypes', NEW t \in Tasks, TaskStep(t), NEW k \in Keys \ mixed
  PROVE  UseOK(k)'
<1>0. Typed /\ UseTypes /\ UseOK(k) /\ k \in Keys
  BY DEF UseInv, UseTypes
<1>1. CASE Unindex(t)
  <2>1. CASE k \in local[t].keys
    BY <1>1, <2>1, UnusedOK DEF Unindex
  <2>2. CASE k \notin local[t].keys
    BY <1>0, <1>1, <2>2 DEF Unindex, storeVars, UseOK, Whole
  <2>3. QED
    BY <2>1, <2>2
<1>2. CASE TouchEnd(t)
  <2>1. CASE UNCHANGED <<lastUpdate, pendingWrites>> \/ k # req[t].key
    <3>1. UNCHANGED <<disk, flush>>
      BY <1>2 DEF TouchEnd, storeVars
    <3>2. lastUpdate'[k] = lastUpdate[k] /\ pendingWrites'[k] = pendingWrites[k]
      BY <1>0, <1>2, <2>1 DEF TouchEnd, UseTypes, Typed, StoreTypes, RestTypes
    <3>3. QED
      BY <1>0, <3>1, <3>2 DEF UseOK, Whole
  <2>2. CASE ~UNCHANGED <<lastUpdate, pendingWrites>> /\ k = req[t].key
    <3>1. lastUpdate'[k] = local[t].now /\ pendingWrites'[k] = local[t].now
      BY <1>0, <1>2, <2>2 DEF TouchEnd, UseTypes, Typed, StoreTypes, RestTypes
    <3>2. CASE local[t].now = 0
      BY <3>1, <3>2, UnusedOK
    <3>3. CASE local[t].now # 0
      BY <3>1, <3>3 DEF UseOK
    <3>4. QED
      BY <3>2, <3>3
  <2>3. QED
    BY <2>1, <2>2
<1>3. CASE UNCHANGED accessVars
  <2>1. CASE \/ Evict(t) \/ Cleanup(t) \/ Delete(t) \/ \E i \in Keys : ClearRemove(t, i)
    <3>1. disk'[k] = disk[k] \/ disk'[k] = None
      BY <1>0, <2>1, RemovalTyped DEF Evict, Cleanup, Delete, ClearRemove
    <3>2. QED
      BY <1>0, <1>3, <3>1, SameUseOK DEF Whole
  <2>2. CASE CreateFile(t)
    <3>1. disk'[k] = disk[k] \/ ~Whole(k)'
      BY <1>0, <2>2 DEF CreateFile, Whole, Placeholder, Typed, StoreTypes
    <3>2. QED
      BY <1>0, <1>3, <3>1, SameUseOK
  <2>3. CASE CloseWritable(t)
    <3>1. disk'[k] = disk[k] \/ disk'[k].lastAccessed = clock
      BY <1>0, <2>3 DEF CloseWritable, FinishedFile, Typed, StoreTypes
    <3>2. clock \in Nat /\ lastUpdate[k] \in Nat /\ clock >= lastUpdate[k]
      BY <1>0 DEF UseInv, UseTypes, Typed, StoreTypes, RestTypes, TimeInv
    <3>3. QED
      BY <1>0, <1>3, <3>1, <3>2, SameUseOK
  <2>4. CASE disk' = disk
    BY <1>0, <1>3, <2>4, SameUseOK
  <2>5. QED
    BY <1>0, <2>1, <2>2, <2>3, <2>4, TaskLeavesStore
<1>4. QED
  BY <1>0, <1>1, <1>2, <1>3, TaskAccess

LEMMA FlushUse ==
  ASSUME UseInv, NEW i \in Keys, Flush(i), NEW k \in Keys, k \notin mixed'
  PROVE  UseOK(k)'
<1>0. Typed /\ UseOK(k) /\ UNCHANGED <<lastUpdate, pendingWrites>>
  BY DEF Flush, FlushRead, FlushOpen, FlushClose, FlushFails, UseInv, UseTypes
<1>1. CASE k # i
  <2>1. flush'[k] = flush[k] /\ disk'[k] = disk[k]
    BY <1>0, <1>1 DEF Flush, FlushRead, FlushOpen, FlushClose, FlushFails, Typed, StoreTypes
  <2>2. QED
    BY <1>0, <2>1 DEF UseOK, Whole
<1>2. CASE k = i /\ FlushRead(i)
  <2>1. /\ disk' = disk /\ flush[k].at # "none"
        /\ \/ Whole(k) /\ flush'[k].at # "none" /\ flush'[k].time = flush[k].time
           \/ ~Whole(k) /\ flush'[k].at = "none"
    BY <1>0, <1>2 DEF FlushRead, Whole, NoFlush, Typed, StoreTypes
  <2>2. QED
    BY <1>0, <2>1 DEF UseOK, Whole
<1>3. CASE k = i /\ FlushOpen(i)
  <2>1. /\ disk' = disk /\ flush[k].at # "none"
        /\ flush'[k].at # "none" /\ flush'[k].time = flush[k].time
    BY <1>0, <1>3 DEF FlushOpen, Typed, StoreTypes, FlushType
  <2>2. QED
    BY <1>0, <2>1 DEF UseOK
<1>4. CASE k = i /\ FlushClose(i)
  <2>1. flush[k].at # "none" /\ flush'[k].at = "none" /\ flush[k].file \in FileType
    BY <1>0, <1>4 DEF FlushClose, NoFlush, Typed, StoreTypes
  <2>2. disk'[k] = [flush[k].file EXCEPT !.lastAccessed = flush[k].time]
    BY <1>0, <1>4 DEF FlushClose, Typed, StoreTypes
  <2>3. disk'[k].lastAccessed = flush[k].time
    BY <2>1, <2>2 DEF FileType
  <2>4. QED
    BY <1>0, <2>1, <2>3 DEF UseOK
<1>5. QED
  BY <1>1, <1>2, <1>3, <1>4 DEF Flush, FlushFails

LEMMA NextUse == UseInv /\ [Next]_vars => UseInv'
<1> SUFFICES ASSUME UseInv, [Next]_vars PROVE UseInv'
  OBVIOUS
<1>1. UseTypes' /\ TimeInv'
  BY UseTyped, NextTime DEF UseInv
<1>2. CASE Restart
  <2>1. \A k \in Keys : lastUpdate'[k] = 0 /\ pendingWrites'[k] = 0
    BY <1>2 DEF Restart, Never
  <2>2. QED
    BY <1>1, <2>1, UnusedOK DEF UseInv
<1>3. CASE ~Restart
  <2>1. mixed \subseteq mixed'
    BY <1>3, MixedGrows DEF UseInv, UseTypes
  <2> SUFFICES ASSUME NEW k \in Keys, k \notin mixed' PROVE UseOK(k)'
    BY <1>1 DEF UseInv
  <2>2. UseOK(k) /\ k \in Keys \ mixed /\ UseTypes
    BY <2>1 DEF UseInv
  <2>3. CASE UNCHANGED vars
    BY <2>2, <2>3 DEF vars, UseOK, Whole
  <2>4. CASE Fire
    <3>1. UNCHANGED disk /\ pendingWrites'[k] = 0 /\ UNCHANGED lastUpdate
      BY <2>4 DEF Fire, storeVars, Never
    <3>2. \/ pendingWrites[k] # 0 /\ flush'[k].at # "none" /\ flush'[k].time = pendingWrites[k]
          \/ pendingWrites[k] = 0 /\ flush'[k] = flush[k]
      BY <2>4 DEF Fire, Pending
    <3>3. lastUpdate[k] \in Nat
      BY <2>2 DEF UseTypes, RestTypes
    <3>4. QED
      BY <2>2, <3>1, <3>2, <3>3 DEF UseOK, Whole
  <2>5. ASSUME NEW i \in Keys, Flush(i) PROVE UseOK(k)'
    BY <2>5, FlushUse
  <2>6. ASSUME NEW t \in Tasks, NEW r \in Requests, Begin(t, r) \/ Throttled(t, r)
        PROVE  UseOK(k)'
    BY <2>2, <2>6, SameUseOK DEF Begin, Throttled, memoryVars, storeVars
  <2>7. ASSUME NEW t \in Tasks, TaskStep(t) PROVE UseOK(k)'
    BY <1>1, <2>2, <2>7, TaskUse
  <2>8. QED
    BY <1>3, <2>3, <2>4, <2>5, <2>6, <2>7 DEF Next
<1>4. QED
  BY <1>2, <1>3
------------------------------------------------------------------------------
(* Once nothing is pending and no flush is on its way, the footer of each  *)
(* file says when it was last used, or later: a worker that starts anew    *)
(* evicts in the order of use.                                             *)
THEOREM UsesAreSaved == Spec => []UseIsSaved
<1>1. UseInv => UseIsSaved
  <2> SUFFICES ASSUME UseInv, pendingWrites = Never, flush = NoFlushes,
                      NEW k \in Keys, k \notin mixed, Whole(k)
               PROVE  disk[k].lastAccessed >= lastUpdate[k]
    BY DEF UseIsSaved, Whole
  <2>1. pendingWrites[k] = 0 /\ flush[k].at = "none"
    BY DEF Never, NoFlushes, NoFlush
  <2>2. QED
    BY <2>1 DEF UseInv, UseOK
<1>2. QED
  BY <1>1, InitUse, NextUse, PTL DEF Spec
------------------------------------------------------------------------------
(* Where each step of a task finds it.                                     *)
LEMMA StepPlaces ==
  ASSUME Typed, NEW t \in Tasks
  PROVE  /\ Populate(t) => pc[t] \in Populating
         /\ Ensured(t) => pc[t] = "ensuring"
         /\ Register(t) => pc[t] = "registering" /\ stage = "enter"
         /\ Unindex(t) => pc[t] = "unindex"
         /\ Unindexed(t) => pc[t] = "unindexing" /\ stage = "enter"
         /\ TouchEnd(t) => pc[t] = "touching"
         /\ WriteStep(t) => pc[t] \in WritePcs \ {"registering"}
         /\ Delete(t) => pc[t] = "remove"
         /\ Lookup(t) => pc[t] = "lookup"
         /\ ReadFile(t) => pc[t] = "read"
         /\ ListEntries(t) => pc[t] = "listing"
         /\ ClearEnd(t) => pc[t] = "collect"
         /\ \A k \in Keys : ClearRead(t, k) \/ ClearRemove(t, k) => pc[t] = "collect"
<1>1. Populate(t) => pc[t] \in Populating
  <2>1. line # <<>> /\ Head(line) = t /\ stage = "scan" => pc[t] \in Populating
    BY DEF Typed, OrderInv, LineInv
  <2>2. QED
    BY <2>1, Zenon DEF Populate, PopulateSkip, PopulateBegin, PopulateEnd, ScanRecord,
                ScanPassOver, ScanRead, Holds
<1>2. WriteStep(t) => pc[t] \in WritePcs \ {"registering"}
  <2>1. DecideSpace(t) => pc[t] = "entries"
    BY SpaceDecision
  <2>2. DecideQuota(t) => pc[t] = "quotaEntries"
    BY QuotaDecision
  <2>3. StreamFails(t) \/ FileMissing(t) => pc[t] \in {"stream", "stat"}
    BY DEF StreamFails, FileMissing
  <2>4. ASSUME \/ WriteExists(t) \/ Evict(t) \/ CreateFile(t) \/ OpenWritable(t) \/ OpenFails(t)
               \/ CloseWritable(t) \/ Cleanup(t) \/ Estimate(t) \/ Stat(t) \/ CallRegister(t)
        PROVE  pc[t] \in WritePcs \ {"registering"}
    BY <2>4 DEF WriteExists, Evict, CreateFile, OpenWritable, OpenFails, CloseWritable,
                Cleanup, Estimate, Stat, CallRegister, WritePcs
  <2>5. QED
    BY <2>1, <2>2, <2>3, <2>4 DEF WriteStep, WritePcs
<1>3. QED
  BY <1>1, <1>2 DEF Ensured, Register, Unindex, Unindexed, TouchEnd, Holds, Delete, Lookup,
     ReadFile, ListEntries, ClearEnd, ClearRead, ClearRemove

(* A step of a task leaves the others where they are. *)
LEMMA OthersStay ==
  ASSUME Typed, NEW t \in Tasks, TaskStep(t)
  PROVE  /\ req' = req /\ flush' = flush /\ Active(t)
         /\ \A u \in Tasks \ {t} : pc'[u] = pc[u] /\ local'[u] = local[u]
<1> USE DEF memoryVars, accessVars
<1>1. /\ req' = req
      /\ pc' = pc \/ \E s : Goto(t, s)
  <2>1. CASE IndexStep(t)
    BY <2>1, Zenon DEF IndexStep, Populate, PopulateSkip, PopulateBegin, PopulateEnd,
       ScanRecord, ScanPassOver, ScanRead, Ensured, Register, Unindex, Unindexed
  <2>2. CASE ControlStep(t) \/ TouchEnd(t)
    BY <2>2, Zenon DEF ControlStep, TouchEnd, Delete, Lookup, ReadFile, ListEntries, ClearRead,
       ClearRemove, ClearEnd
  <2>3. CASE WriteStep(t)
    <3>1. CASE DecideSpace(t) \/ DecideQuota(t)
      BY <3>1, SpaceDecision, QuotaDecision
    <3>2. CASE StreamFails(t) \/ FileMissing(t)
      BY <3>2, FailTyped
    <3>3. CASE \/ WriteExists(t) \/ Evict(t) \/ CreateFile(t) \/ OpenWritable(t) \/ OpenFails(t)
               \/ CloseWritable(t) \/ Cleanup(t) \/ Estimate(t) \/ Stat(t) \/ CallRegister(t)
      BY <3>3, Zenon DEF WriteExists, Evict, CreateFile, OpenWritable, OpenFails, CloseWritable,
                  Cleanup, Estimate, Stat, CallRegister
    <3>4. QED
      BY <2>3, <3>1, <3>2, <3>3 DEF WriteStep
  <2>4. QED
    BY <2>1, <2>2, <2>3 DEF TaskStep
<1>2. flush' = flush
  BY TaskAccess DEF Unindex, TouchEnd
<1>3. \A u \in Tasks \ {t} : pc'[u] = pc[u]
  BY <1>1 DEF Goto, Typed, OrderInv, ScheduleOK
<1>4. \A u \in Tasks \ {t} : local'[u] = local[u]
  <2>1. PICK l : local' = [local EXCEPT ![t] = l]
    BY TaskNotes DEF Notes
  <2>2. QED
    BY <2>1 DEF Typed, StoreTypes, LocalOK
<1>5. Active(t)
  BY StepPlaces DEF TaskStep, IndexStep, ControlStep, Active, Terminal, Populating, WritePcs
<1>6. QED
  BY <1>1, <1>2, <1>3, <1>4, <1>5

LEMMA TaskDoubled ==
  ASSUME Typed, NEW t \in Tasks, TaskStep(t)
  PROVE  doubled' = doubled
<1> USE DEF auxVars
<1>1. CASE IndexStep(t)
  BY <1>1, Zenon DEF IndexStep, Populate, PopulateSkip, PopulateBegin, PopulateEnd, ScanRecord,
     ScanPassOver, ScanRead, Ensured, Register, Unindex, Unindexed
<1>2. CASE ControlStep(t) \/ TouchEnd(t)
  BY <1>2, Zenon DEF ControlStep, TouchEnd, Delete, Lookup, ReadFile, ListEntries, ClearRead,
     ClearRemove, ClearEnd
<1>3. CASE WriteStep(t)
  BY <1>3, Zenon DEF WriteStep, DecideSpace, DecideQuota, StreamFails, FileMissing, Fail,
     WriteExists, Evict, CreateFile, OpenWritable, OpenFails, CloseWritable, Cleanup,
     Estimate, Stat, CallRegister
<1>4. QED
  BY <1>1, <1>2, <1>3 DEF TaskStep
------------------------------------------------------------------------------
(* The metadata cache.  What it says of a file is true, or its entry is    *)
(* about to be taken out: by the operation that has removed the file, or   *)
(* by the clearing of its folder.                                          *)
Empties(t, k) ==
  \/ pc[t] = "unindex" /\ k \in local[t].keys
  \/ pc[t] = "collect" /\ local[t].todo = {} /\ req[t].folder = meta[k].folder

MetaOK(k) ==
  meta[k] # None /\ meta[k].folder \in Folders /\ k \notin outdated =>
    IsInFolder(k, meta[k].folder) \/ \E t \in Tasks : Empties(t, k)

(* A file that its writer has not closed is in no folder, and no flush     *)
(* writes to it.                                                           *)
BlankOK ==
  \A k \in Keys : /\ disk[k] # None /\ ~disk[k].written => disk[k] = Placeholder
                  /\ flush[k].at \in {"open", "write"} => flush[k].file.written

MetaInv == KeptInv /\ RestTypes /\ BlankOK /\ \A k \in Sole : MetaOK(k)

LEMMA InitMeta == Init => MetaInv
<1> SUFFICES ASSUME Init PROVE MetaInv
  OBVIOUS
<1>1. \A k \in Keys : meta[k] = None /\ flush[k].at = "none"
  BY DEF Init, Nothing, NoFlushes, NoFlush
<1>2. \A k \in Keys : disk[k] # None => disk[k].written
  BY DEF Init, StoredFile
<1>3. QED
  BY <1>1, <1>2, InitKept, InitRest DEF MetaInv, BlankOK, MetaOK, Sole

LEMMA NextBlank == Typed /\ BlankOK /\ [Next]_vars => BlankOK'
<1> SUFFICES ASSUME Typed, BlankOK, [Next]_vars PROVE BlankOK'
  OBVIOUS
<1>0. /\ disk \in [Keys -> FileType \cup {None}] /\ flush \in [Keys -> FlushType]
      /\ \A k \in Keys : flush[k].at \in {"open", "write"} => flush[k].file \in FileType
  BY DEF Typed, StoreTypes
<1>1. CASE UNCHANGED vars
  BY <1>1 DEF vars, BlankOK
<1>2. CASE Restart
  BY <1>2 DEF Restart, BlankOK, NoFlushes, NoFlush
<1>3. CASE Fire
  <2>1. disk' = disk /\ \A k \in Keys : flush'[k] = flush[k] \/ flush'[k].at = "read"
    BY <1>3 DEF Fire, storeVars
  <2>2. QED
    BY <2>1 DEF BlankOK
<1>4. ASSUME NEW i \in Keys, Flush(i) PROVE BlankOK'
  <2>1. CASE FlushRead(i)
    <3>1. disk' = disk /\ \A k \in Keys : \/ flush'[k] = flush[k]
                                          \/ flush'[k].at = "none"
                                          \/ flush'[k].file.written
      BY <1>0, <2>1 DEF FlushRead, NoFlush
    <3>2. QED
      BY <3>1 DEF BlankOK
  <2>2. CASE FlushOpen(i)
    <3>1. disk' = disk /\ \A k \in Keys : \/ flush'[k] = flush[k]
                                          \/ flush'[k].file = flush[k].file /\ flush[k].at = "open"
      BY <1>0, <2>2 DEF FlushOpen, FlushType
    <3>2. QED
      BY <3>1 DEF BlankOK
  <2>3. CASE FlushClose(i)
    <3>1. /\ flush[i].file \in FileType /\ flush[i].file.written
          /\ disk' = [disk EXCEPT ![i] = [flush[i].file EXCEPT !.lastAccessed = flush[i].time]]
      BY <1>0, <2>3 DEF FlushClose, BlankOK
    <3>2. [flush[i].file EXCEPT !.lastAccessed = flush[i].time].written
      BY <3>1 DEF FileType
    <3>3. \A k \in Keys : disk'[k] = disk[k] \/ disk'[k].written
      BY <1>0, <3>1, <3>2
    <3>4. \A k \in Keys : flush'[k] = flush[k] \/ flush'[k].at = "none"
      BY <1>0, <2>3 DEF FlushClose, NoFlush
    <3>5. QED
      BY <3>3, <3>4 DEF BlankOK
  <2>4. CASE FlushFails(i)
    <3>1. disk' = disk /\ \A k \in Keys : flush'[k] = flush[k] \/ flush'[k].at = "none"
      BY <1>0, <2>4 DEF FlushFails, NoFlush
    <3>2. QED
      BY <3>1 DEF BlankOK
  <2>5. QED
    BY <1>4, <2>1, <2>2, <2>3, <2>4 DEF Flush
<1>5. ASSUME NEW t \in Tasks, NEW r \in Requests, Begin(t, r) \/ Throttled(t, r) PROVE BlankOK'
  BY <1>5 DEF Begin, Throttled, storeVars, memoryVars, accessVars, BlankOK
<1>6. ASSUME NEW t \in Tasks, TaskStep(t) PROVE BlankOK'
  <2>1. flush' = flush
    BY <1>6, OthersStay
  <2>2. \A k \in Keys : disk'[k] \in {None, disk[k], Placeholder} \/ disk'[k].written
    <3>1. CASE \/ Evict(t) \/ Cleanup(t) \/ Delete(t) \/ \E i \in Keys : ClearRemove(t, i)
      BY <3>1, RemovalTyped DEF Evict, Cleanup, Delete, ClearRemove
    <3>2. CASE CreateFile(t)
      BY <1>0, <3>2 DEF CreateFile
    <3>3. CASE CloseWritable(t)
      BY <1>0, <3>3 DEF CloseWritable, FinishedFile
    <3>4. QED
      BY <1>6, <3>1, <3>2, <3>3, TaskLeavesStore
  <2>3. QED
    BY <2>1, <2>2 DEF BlankOK
<1>7. QED
  BY <1>1, <1>2, <1>3, <1>4, <1>5, <1>6 DEF Next

(* A step that leaves what is known of k, or forgets it.                   *)
LEMMA SameMetaOK ==
  ASSUME NEW k, MetaOK(k), meta'[k] \in {None, meta[k]}, k \in outdated => k \in outdated',
         meta'[k] # None => \A t \in Tasks : Empties(t, k) => Empties(t, k)',
         meta'[k] # None /\ IsInFolder(k, meta[k].folder) /\ meta[k].folder \in Folders =>
           IsInFolder(k, meta[k].folder)' \/ \E t \in Tasks : Empties(t, k)'
  PROVE  MetaOK(k)'
BY DEF MetaOK

(* It is the task that empties that goes on with it. *)
LEMMA EmptiesStay ==
  ASSUME Typed, NEW t \in Tasks, TaskStep(t), NEW k \in Keys, meta'[k] = meta[k], meta[k] # None,
         NEW u \in Tasks, Empties(u, k)
  PROVE  Empties(u, k)'
<1>1. CASE u # t
  BY <1>1, OthersStay DEF Empties
<1>2. CASE u = t /\ pc[t] = "unindex"
  <2>1. Unindex(t)
    BY <1>2, StepPlaces DEF TaskStep, IndexStep, ControlStep, WritePcs, Populating
  <2>2. meta'[k] = None
    BY <1>2, <2>1 DEF Empties, Unindex
  <2>3. QED
    BY <2>2
<1>3. CASE u = t /\ pc[t] = "collect"
  <2>1. local[t].todo = {} /\ req[t].folder = meta[k].folder
    BY <1>3 DEF Empties
  <2>2. ClearEnd(t) \/ \E i \in Keys : ClearRead(t, i) \/ ClearRemove(t, i)
    BY <1>3, StepPlaces DEF TaskStep, IndexStep, ControlStep, WritePcs, Populating
  <2>3. CASE ClearEnd(t)
    BY <2>1, <2>3 DEF ClearEnd, InvalidateFolders
  <2>4. ASSUME NEW i \in Keys, ClearRead(t, i) \/ ClearRemove(t, i) PROVE Empties(t, k)'
    <3>1. ClearRemove(t, i)
      BY <2>1, <2>4 DEF ClearRead
    <3>2. pc' = pc /\ req' = req /\ local'[t].todo = local[t].todo
      BY <3>1 DEF ClearRemove, Typed, StoreTypes, LocalOK
    <3>3. QED
      BY <1>3, <2>1, <3>2 DEF Empties
  <2>5. QED
    BY <1>3, <2>2, <2>3, <2>4
<1>4. QED
  BY <1>1, <1>2, <1>3 DEF Empties

(* What a step of a task does to the metadata cache. *)
LEMMA TaskMeta ==
  ASSUME Typed, NEW t \in Tasks, TaskStep(t)
  PROVE  \/ PopulateBegin(t) \/ ScanRecord(t)
         \/ outdated' = outdated /\ \A k \in Keys : meta'[k] \in {None, meta[k]}
<1> USE DEF memoryVars, auxVars
<1>1. CASE IndexStep(t)
  BY <1>1 DEF IndexStep, Populate, PopulateSkip, PopulateEnd, ScanPassOver, ScanRead, Ensured,
              Register, Unindex, Unindexed
<1>2. CASE ControlStep(t) \/ TouchEnd(t)
  BY <1>2 DEF ControlStep, TouchEnd, Delete, Lookup, ReadFile, ListEntries, ClearRead,
              ClearRemove, ClearEnd, InvalidateFolders
<1>3. CASE WriteStep(t)
  <2>1. CASE DecideSpace(t) \/ DecideQuota(t)
    <3>1. UNCHANGED <<meta, outdated>>
      BY <2>1, Zenon DEF DecideSpace, DecideQuota
    <3>2. QED
      BY <3>1
  <2>2. CASE StreamFails(t) \/ FileMissing(t)
    <3>1. PICK reason, bytes : Fail(t, reason, bytes)
      BY <2>2 DEF StreamFails, FileMissing
    <3>2. outdated' = outdated
      BY <3>1 DEF Fail
    <3>3. \A k \in Keys : meta'[k] \in {None, meta[k]}
      BY <2>2 DEF StreamFails, FileMissing, InvalidateFolders
    <3>4. QED
      BY <3>2, <3>3
  <2>3. CASE \/ WriteExists(t) \/ Evict(t) \/ CreateFile(t) \/ OpenWritable(t) \/ OpenFails(t)
             \/ CloseWritable(t) \/ Cleanup(t) \/ Estimate(t) \/ Stat(t) \/ CallRegister(t)
    BY <2>3 DEF WriteExists, Evict, CreateFile, OpenWritable, OpenFails, CloseWritable,
                Cleanup, Estimate, Stat, CallRegister
  <2>4. QED
    BY <1>3, <2>1, <2>2, <2>3 DEF WriteStep
<1>4. QED
  BY <1>1, <1>2, <1>3 DEF TaskStep

(* A file in a folder leaves it by the hand of one that empties the cache. *)
LEMMA TaskEmpties ==
  ASSUME MetaInv, NEW t \in Tasks, TaskStep(t), NEW k \in Sole, NEW f \in Folders,
         IsInFolder(k, f), meta'[k] = meta[k], meta[k].folder = f
  PROVE  IsInFolder(k, f)' \/ \E u \in Tasks : Empties(u, k)'
<1>0. /\ Typed /\ LocalOK /\ k \in Keys /\ Own(t, k) /\ Whole(k) /\ OpOK(t)
      /\ disk \in [Keys -> FileType \cup {None}]
  <2>1. Placeholder.folder \notin Folders
    BY CacheAssumption DEF Placeholder
  <2>2. QED
    BY <2>1 DEF MetaInv, KeptInv, KeyOK, Sole, Typed, StoreTypes, BlankOK, Whole, IsInFolder
<1> SUFFICES ASSUME disk'[k] # disk[k]
             PROVE  IsInFolder(k, f)' \/ Empties(t, k)'
  BY DEF IsInFolder
<1>1. CASE Evict(t)
  <2>1. k \in local[t].keys /\ local' = local /\ pc' = [pc EXCEPT ![t] = "unindex"]
    BY <1>0, <1>1, RemovalTyped DEF Evict, Goto
  <2>2. pc'[t] = "unindex"
    BY <1>0, <2>1 DEF Typed, OrderInv, ScheduleOK
  <2>3. QED
    BY <2>1, <2>2 DEF Empties
<1>2. CASE Cleanup(t)
  <2>1. pc[t] = "cleanup" /\ k = req[t].key
    BY <1>0, <1>2, RemovalTyped DEF Cleanup, key
  <2>2. QED
    BY <1>0, <2>1 DEF Own, Before, OpOK, WritePcs
<1>3. CASE Delete(t)
  <2>1. k = req[t].key /\ local' = [local EXCEPT ![t].keys = {req[t].key}]
        /\ pc' = [pc EXCEPT ![t] = "unindex"]
    BY <1>0, <1>3, RemovalTyped DEF Delete, Goto
  <2>2. pc'[t] = "unindex" /\ local'[t].keys = {k}
    BY <1>0, <2>1 DEF Typed, OrderInv, ScheduleOK, LocalOK
  <2>3. QED
    BY <2>2 DEF Empties
<1>4. ASSUME NEW i \in Keys, ClearRemove(t, i) PROVE Empties(t, k)'
  <2>1. pc[t] = "collect" /\ k = i /\ k \in local[t].keys /\ local[t].todo = {}
    BY <1>0, <1>4, RemovalTyped DEF ClearRemove
  <2>2. req[t].folder = f
    BY <1>0, <2>1 DEF Own, IsInFolder
  <2>3. pc' = pc /\ req' = req /\ local'[t].todo = local[t].todo
    BY <1>0, <1>4 DEF ClearRemove, LocalOK
  <2>4. QED
    BY <2>1, <2>2, <2>3 DEF Empties
<1>5. CASE CreateFile(t)
  BY <1>0, <1>5 DEF CreateFile, Whole
<1>6. CASE CloseWritable(t)
  <2>1. pc[t] = "stream" /\ k = req[t].key
    BY <1>0, <1>6 DEF CloseWritable, key
  <2>2. QED
    BY <1>0, <2>1 DEF Own, Before, OpOK, WritePcs
<1>7. QED
  BY <1>0, <1>1, <1>2, <1>3, <1>4, <1>5, <1>6, TaskLeavesStore

LEMMA NextMeta == MetaInv /\ [Next]_vars => MetaInv'
<1> SUFFICES ASSUME MetaInv, [Next]_vars PROVE MetaInv'
  OBVIOUS
<1> USE DEF storeVars, memoryVars, indexVars, accessVars, lockVars, auxVars
<1>0. KeptInv /\ Typed /\ RestTypes
  BY DEF MetaInv, KeptInv
<1>1. KeptInv' /\ RestTypes' /\ BlankOK'
  BY <1>0, NextKept, NextRest, NextBlank DEF MetaInv
<1> SUFFICES ASSUME NEW k \in Sole' PROVE MetaOK(k)'
  BY <1>1 DEF MetaInv
<1>2. CASE Restart
  BY <1>2 DEF Restart, Nothing, MetaOK, Sole
<1>3. CASE UNCHANGED vars \/ Fire
  <2>1. UNCHANGED <<disk, meta, outdated, pc, req, local, doubled>> /\ mixed \subseteq mixed'
    BY <1>3 DEF vars, Fire
  <2>2. MetaOK(k)
    BY <2>1 DEF Sole, MetaInv
  <2>3. QED
    BY <2>1, <2>2 DEF MetaOK, IsInFolder, Empties
<1>4. ASSUME NEW i \in Keys, Flush(i) PROVE MetaOK(k)'
  <2>1. k \in Sole /\ UNCHANGED <<pc, req, local, meta, outdated>>
    BY <1>4 DEF Flush, FlushRead, FlushOpen, FlushClose, FlushFails, Sole
  <2>2. disk'[k] = disk[k] \/ SameFile(disk[k], disk'[k])
    BY <1>0, <1>4, <2>1, FlushStep DEF KeptInv, KeyOK, Sole
  <2>3. \A f : IsInFolder(k, f) => IsInFolder(k, f)'
    BY <2>2, Constants DEF IsInFolder, SameFile
  <2>4. MetaOK(k)
    BY <2>1 DEF MetaInv
  <2>5. QED
    BY <2>1, <2>3, <2>4 DEF MetaOK, Empties
<1>5. ASSUME NEW t \in Tasks, NEW r \in Requests, Begin(t, r) \/ Throttled(t, r) PROVE MetaOK(k)'
  <2>1. /\ UNCHANGED <<disk, meta, outdated>> /\ pc[t] = "idle" /\ k \in Sole
        /\ \A u \in Tasks \ {t} : pc'[u] = pc[u] /\ req'[u] = req[u] /\ local'[u] = local[u]
    BY <1>0, <1>5 DEF Begin, Throttled, Goto, Sole, Typed, OrderInv, ScheduleOK, StoreTypes, LocalOK
  <2>2. MetaOK(k) /\ \A u \in Tasks : Empties(u, k) => Empties(u, k)'
    BY <2>1 DEF MetaInv, Empties
  <2>3. QED
    BY <2>1, <2>2, SameMetaOK DEF IsInFolder
<1>6. ASSUME NEW t \in Tasks, TaskStep(t) PROVE MetaOK(k)'
  <2> SUFFICES ASSUME ~Restart PROVE MetaOK(k)'
    BY <1>2
  <2>1. k \in Sole /\ k \in Keys /\ MetaOK(k)
    <3>1. mixed \subseteq mixed'
      BY <1>0, MixedGrows
    <3>2. doubled' = doubled
      BY <1>0, <1>6, TaskDoubled
    <3>3. QED
      BY <3>1, <3>2 DEF Sole, MetaInv
  <2>2. CASE PopulateBegin(t)
    BY <2>1, <2>2 DEF PopulateBegin, Nothing, MetaOK
  <2>3. CASE ScanRecord(t)
    <3>1. /\ UNCHANGED <<disk, pc, req, local>>
          /\ meta' = [meta EXCEPT ![scan.key] = MetaEntry(scan.file)]
      BY <2>3 DEF ScanRecord
    <3>2. CASE k = scan.key
      <4>1. meta'[k].folder = scan.file.folder
        BY <1>0, <2>1, <3>1, <3>2 DEF MetaEntry, RestTypes
      <4>2. k \in outdated' \/ IsInFolder(k, scan.file.folder)
        BY <2>3, <3>1, <3>2 DEF ScanRecord, IsInFolder
      <4>3. QED
        BY <3>1, <4>1, <4>2 DEF MetaOK, IsInFolder
    <3>3. CASE k # scan.key
      <4>1. meta'[k] = meta[k] /\ (k \in outdated => k \in outdated')
        BY <1>0, <2>1, <2>3, <3>1, <3>3 DEF ScanRecord, RestTypes
      <4>2. QED
        BY <2>1, <3>1, <4>1 DEF MetaOK, Empties, IsInFolder
    <3>4. QED
      BY <3>2, <3>3
  <2>4. CASE outdated' = outdated /\ \A i \in Keys : meta'[i] \in {None, meta[i]}
    BY <1>0, <1>6, <2>1, <2>4, SameMetaOK, EmptiesStay, TaskEmpties
  <2>5. QED
    BY <1>0, <1>6, <2>2, <2>3, <2>4, TaskMeta
<1>7. QED
  BY <1>2, <1>3, <1>4, <1>5, <1>6 DEF Next
------------------------------------------------------------------------------
(* What HAS and LIST say is there is there, in that folder, though they do *)
(* not look: but while an operation removes it, when operations overlapped *)
(* on it, or when a scan recorded it late.                                 *)
THEOREM AnswersHold == Spec => []AnswersAreTrue
<1>1. MetaInv => AnswersAreTrue
  <2> SUFFICES ASSUME MetaInv, NEW f \in Folders, NEW k \in Listed(f),
                      k \notin mixed \cup outdated \cup doubled
               PROVE  IsInFolder(k, f) \/ \E t \in Tasks : IsRemoving(t, k)
    BY DEF AnswersAreTrue
  <2>1. k \in Sole /\ meta[k] # None /\ meta[k].folder = f
    BY DEF Listed, Sole
  <2>2. \A t \in Tasks : Empties(t, k) => IsRemoving(t, k)
    BY DEF Empties, IsRemoving
  <2>3. QED
    BY <2>1, <2>2 DEF MetaInv, MetaOK
<1>2. QED
  BY <1>1, InitMeta, NextMeta, PTL DEF Spec
------------------------------------------------------------------------------
(* The index and the store.  Here two writers of one resource may be at    *)
(* work on a key at a time, as long as they bring in the same file.        *)
Writes(t, k) == req[t].op = "write" /\ req[t].key = k

Twins(t, u, k) ==
  /\ Writes(t, k) /\ Writes(u, k)
  /\ req[t].body = req[u].body /\ req[t].evictable = req[u].evictable
  /\ k \notin local[t].keys \cup local[u].keys

Shared(k) ==
  /\ \A t, u \in Tasks :
       Active(t) /\ Active(u) /\ k \in Changes(t) /\ k \in Changes(u) => t = u \/ Twins(t, u, k)
  /\ flush[k].at # "none" => \A t \in Tasks : Active(t) => k \notin Changes(t)

(* A writer that has failed, or is on its way to fail.                     *)
Fails(t) ==
  \/ pc[t] \in {"failed", "killed", "cleanup", "quotaEntries"}
  \/ pc[t] \in {"evict", "unindex", "unindexing"} /\ local[t].failed # "no"
Failing(k) == \E t \in Tasks : Writes(t, k) /\ Fails(t)

(* What a writer of k finds there: nothing whole but what it or its twin   *)
(* has written, and that once it has closed its file.                      *)
Fresh(t, k) == /\ Whole(k) /\ disk[k].body = req[t].body
               /\ disk[k].evictable = req[t].evictable
WriterOK(t, k) ==
  Writes(t, k) =>
    /\ pc[t] \in Before => disk[k] \in {None, Placeholder} \/ Fresh(t, k)
    /\ pc[t] \in After => Fresh(t, k)
    /\ pc[t] \in {"register", "registering"} => local[t].size = req[t].body + FooterLen

(* What an operation is about to take out of the index is gone.            *)
Removes(t, k) == /\ pc[t] \in {"unindex", "unindexing"} /\ k \in local[t].keys
                 /\ req[t].op # "drop"
StoreOK(k) == \A t \in Tasks : WriterOK(t, k) /\ (Removes(t, k) => disk[k] = None)

(* The index, or the scan, is right about a file, or about to be put right.*)
Removing(k) == \E t \in Tasks : Removes(t, k)
Clearing == \E t \in Tasks : pc[t] = "collect"
Writing(k) == \E t \in Tasks : Writes(t, k) /\ pc[t] \in Before \cup After
Describes(entry, file) == /\ file # None /\ entry.size = FileSize(file)
                          /\ entry.evictable = file.evictable
EntryOK(k) == index[k] # None =>
                Describes(index[k], disk[k]) \/ Registering(k) \/ Removing(k)
ReadOK(k) == scan.key = k => scan.file = disk[k] \/ Registering(k) \/ Removing(k)

(* No file is left out, once the scan has come by it.                      *)
Scanned(k) == stage = "scan" /\ k \notin scan.todo /\ scan.key # k
CompleteOK(k) ==
  (cachePopulated \/ Scanned(k)) /\ disk[k] # None =>
     index[k] # None \/ Dropped(k) \/ Writing(k)
TruthOK(k) == EntryOK(k) /\ ReadOK(k) /\ CompleteOK(k)

AgreeOK(k) ==
  /\ Shared(k) /\ FlushOK(k)
  /\ ~Failing(k) => StoreOK(k) /\ (Clearing \/ TruthOK(k))

(* Only a writer at work, or that has failed, has an open writable, and a  *)
(* drop takes out the entry it is for.                                     *)
TasksOK ==
  \A t \in Tasks :
    /\ t \in writables => req[t].op = "write" /\ (pc[t] = "stream" \/ Fails(t))
    /\ pc[t] \in {"unindex", "unindexing"} /\ req[t].op = "drop" => local[t].keys = {req[t].key}

AgreeTypes == Typed /\ RestTypes /\ TasksOK
AgreeInv == AgreeTypes /\ \A k \in Keys \ mixed : AgreeOK(k)

LEMMA InitAgree == Init => AgreeInv
<1> SUFFICES ASSUME Init PROVE AgreeInv
  OBVIOUS
<1>1. \A t \in Tasks : pc[t] = "idle"
  BY DEF Init
<1>2. \A k \in Keys : index[k] = None /\ scan.key # k /\ flush[k].at = "none"
  BY Constants DEF Init, Nothing, NoScan, NoFlushes, NoFlush
<1>3. ~cachePopulated /\ stage = "enter" /\ writables = {}
  BY DEF Init
<1>4. TasksOK
  BY <1>1, <1>3 DEF TasksOK
<1>5. \A k \in Keys : AgreeOK(k)
  <2> TAKE k \in Keys
  <2>1. Shared(k) /\ FlushOK(k)
    BY <1>1, <1>2 DEF Shared, FlushOK, Active
  <2>2. StoreOK(k)
    BY <1>1 DEF StoreOK, WriterOK, Removes, Before, After
  <2>3. TruthOK(k)
    BY <1>2, <1>3 DEF TruthOK, EntryOK, ReadOK, CompleteOK, Scanned
  <2>4. QED
    BY <2>1, <2>2, <2>3 DEF AgreeOK
<1>6. QED
  BY <1>4, <1>5, InitTyped, InitRest DEF AgreeInv, AgreeTypes

(* What a task adds to the keys it removes was its own, or is nobody's.    *)
LEMMA TaskClaims ==
  ASSUME Typed, NEW t \in Tasks, TaskStep(t), NEW k \in Keys, k \notin mixed',
         Active(t)', k \in local'[t].keys
  PROVE  \/ k \in local[t].keys
         \/ k \in Changes(t) /\ req[t].op # "write"
         \/ k \notin Flushed \cup ChangedBy(Tasks \ {t})
<1> USE DEF storeVars, memoryVars, indexVars, accessVars, lockVars, auxVars
<1>0. LocalOK /\ OpOK(t)
  BY DEF Typed, StoreTypes
<1>1. CASE local' = local \/ local' = [local EXCEPT ![t] = NoLocal]
  BY <1>0, <1>1 DEF LocalOK, NoLocal
<1>2. CASE Delete(t)
  BY <1>0, <1>2 DEF Delete, OpOK, Changes, Touched, LocalOK, Active, Terminal
<1>3. CASE ListEntries(t)
  <2>1. pc'[t] = "done"
    BY <1>3 DEF ListEntries, Goto, Typed, OrderInv, ScheduleOK
  <2>2. QED
    BY <2>1 DEF Active, Terminal
<1>4. ASSUME NEW i \in Keys, ClearRead(t, i) \/ ClearRemove(t, i)
      PROVE  k \in Changes(t) /\ req[t].op # "write"
  BY <1>0, <1>4 DEF ClearRead, ClearRemove, OpOK, Changes, Touched
<1>5. CASE DecideSpace(t) \/ DecideQuota(t)
  <2>1. CASE local' = [local EXCEPT ![t] = NoLocal]
    BY <1>1, <2>1
  <2>2. ASSUME NEW S, NEW reason, local' = [local EXCEPT ![t] = Evicting(S, reason)],
               mixed' = mixed \cup Contended(t, S)
        PROVE  k \notin Flushed \cup ChangedBy(Tasks \ {t})
    <3>1. local'[t].keys = S
      BY <1>0, <2>2 DEF LocalOK, Evicting
    <3>2. QED
      BY <2>2, <3>1 DEF Contended
  <2>3. QED
    BY <1>5, <2>1, <2>2, SpaceDecision, QuotaDecision
<1>6. CASE StreamFails(t) \/ FileMissing(t)
  BY <1>6, FailTyped
<1>7. CASE Estimate(t) \/ Stat(t) \/ CallRegister(t)
  <2>1. local'[t].keys = local[t].keys
    BY <1>0, <1>7 DEF Estimate, Stat, CallRegister, LocalOK
  <2>2. QED
    BY <2>1
<1>8. CASE IndexStep(t)
  BY <1>1, <1>8 DEF IndexStep, Populate, PopulateSkip, PopulateBegin, PopulateEnd, ScanRecord,
                    ScanPassOver, ScanRead, Ensured, Register, Unindex, Unindexed
<1>9. CASE Lookup(t) \/ ReadFile(t) \/ ClearEnd(t) \/ TouchEnd(t)
  BY <1>1, <1>9 DEF Lookup, ReadFile, ClearEnd, TouchEnd
<1>10. CASE \/ WriteExists(t) \/ Evict(t) \/ CreateFile(t) \/ OpenWritable(t) \/ OpenFails(t)
            \/ CloseWritable(t) \/ Cleanup(t)
  BY <1>1, <1>10 DEF WriteExists, Evict, CreateFile, OpenWritable, OpenFails, CloseWritable, Cleanup
<1>11. QED
  BY <1>2, <1>3, <1>4, <1>5, <1>6, <1>7, <1>8, <1>9, <1>10
     DEF TaskStep, WriteStep, ControlStep

LEMMA TaskShared ==
  ASSUME Typed, NEW t \in Tasks, TaskStep(t), NEW k \in Keys, k \notin mixed', Shared(k)
  PROVE  Shared(k)'
<1>1. /\ req' = req /\ flush' = flush /\ Active(t)
      /\ \A u \in Tasks \ {t} : pc'[u] = pc[u] /\ local'[u] = local[u]
  BY OthersStay
<1>2. \A u \in Tasks \ {t} : Changes(u)' = Changes(u) /\ (Active(u)' <=> Active(u))
  BY <1>1 DEF Changes, Active
<1>3. Active(t)' /\ k \in local'[t].keys =>
        \/ k \in local[t].keys
        \/ k \in Changes(t) /\ req[t].op # "write"
        \/ flush[k].at = "none" /\ \A u \in Tasks \ {t} : Active(u) => k \notin Changes(u)
  BY TaskClaims DEF Flushed, ChangedBy, Changes
<1>4. Active(t)' /\ k \in Changes(t)' =>
        \/ k \in Changes(t)
        \/ flush[k].at = "none" /\ \A u \in Tasks \ {t} : Active(u) => k \notin Changes(u)
  BY <1>1, <1>3 DEF Changes
<1>5. flush'[k].at # "none" => \A u \in Tasks : Active(u)' => k \notin Changes(u)'
  BY <1>1, <1>2, <1>4 DEF Shared
<1>6. ASSUME NEW u \in Tasks \ {t}, Active(t)', Active(u)', k \in Changes(t)', k \in Changes(u)'
      PROVE  Twins(t, u, k)' /\ Twins(u, t, k)'
  <2>1. Active(u) /\ k \in Changes(u)
    BY <1>2, <1>6
  <2>2. k \in Changes(t)
    BY <1>4, <1>6, <2>1
  <2>3. Twins(t, u, k)
    BY <1>1, <2>1, <2>2 DEF Shared
  <2>4. k \notin local'[t].keys
    BY <1>3, <1>6, <2>1, <2>3 DEF Twins, Writes
  <2>5. QED
    BY <1>1, <2>3, <2>4 DEF Twins, Writes
<1>7. ASSUME NEW u \in Tasks \ {t}, NEW v \in Tasks \ {t}, Twins(u, v, k)
      PROVE  Twins(u, v, k)'
  BY <1>1, <1>7 DEF Twins, Writes
<1>8. \A u, v \in Tasks : Active(u)' /\ Active(v)' /\ k \in Changes(u)' /\ k \in Changes(v)' =>
        u = v \/ Twins(u, v, k)'
  <2> SUFFICES ASSUME NEW u \in Tasks, NEW v \in Tasks, Active(u)', Active(v)',
                      k \in Changes(u)', k \in Changes(v)', u # v
               PROVE  Twins(u, v, k)'
    OBVIOUS
  <2>1. CASE u = t \/ v = t
    BY <1>6, <2>1
  <2>2. CASE u # t /\ v # t
    BY <1>2, <1>7, <2>2 DEF Shared
  <2>3. QED
    BY <2>1, <2>2
<1>9. QED
  BY <1>5, <1>8 DEF Shared

LEMMA WritePlaces ==
  ASSUME NEW t \in Tasks
  PROVE  /\ WriteExists(t) => pc[t] = "exists"
         /\ Estimate(t) => pc[t] = "estimate"
         /\ DecideSpace(t) => pc[t] = "entries"
         /\ Evict(t) => pc[t] = "evict"
         /\ CreateFile(t) => pc[t] = "create"
         /\ OpenWritable(t) => pc[t] = "open"
         /\ OpenFails(t) => pc[t] \in {"create", "open"}
         /\ CloseWritable(t) => pc[t] = "stream"
         /\ Stat(t) => pc[t] = "stat"
         /\ CallRegister(t) => pc[t] = "register"
         /\ StreamFails(t) \/ FileMissing(t) => pc[t] \in {"stream", "stat"}
         /\ Cleanup(t) => pc[t] = "cleanup"
         /\ DecideQuota(t) => pc[t] = "quotaEntries"
BY SpaceDecision, QuotaDecision DEF WriteExists, Estimate, Evict, CreateFile, OpenWritable,
   OpenFails, CloseWritable, Stat, CallRegister, StreamFails, FileMissing, Cleanup

(* A scan changes nothing of the tasks. *)
LEMMA PopulateMovesNone ==
  ASSUME NEW t \in Tasks, Populate(t)
  PROVE  UNCHANGED <<pc, req, local, disk, writables>>
BY DEF Populate, PopulateSkip, PopulateBegin, PopulateEnd, ScanRecord, ScanPassOver, ScanRead,
       storeVars

(* A writer that fails will have failed. *)
LEMMA FailsStay ==
  ASSUME Typed, NEW t \in Tasks, TaskStep(t), NEW u \in Tasks, req[u].op = "write", Fails(u)
  PROVE  Fails(u)'
<1> USE DEF storeVars, memoryVars, indexVars, accessVars, lockVars, auxVars
<1>0. LocalOK /\ pc \in [Tasks -> PcType]
  BY DEF Typed, StoreTypes, OrderInv, ScheduleOK
<1>1. CASE u # t
  BY <1>1, OthersStay DEF Fails
<1>2. CASE Populate(t)
  BY <1>2, PopulateMovesNone DEF Fails
<1> SUFFICES ASSUME u = t, ~Populate(t) PROVE Fails(t)'
  BY <1>1, <1>2
<1>3. CASE pc[t] \in {"failed", "killed"}
  BY <1>3, OthersStay DEF Active, Terminal
<1>4. CASE pc[t] = "cleanup"
  <2>1. Cleanup(t)
    BY <1>4, StepPlaces, WritePlaces DEF TaskStep, IndexStep, ControlStep, WriteStep, Populating
  <2>2. pc'[t] \in {"failed", "quotaEntries"}
    BY <1>0, <2>1 DEF Cleanup, Goto
  <2>3. QED
    BY <2>2 DEF Fails
<1>5. CASE pc[t] = "quotaEntries"
  <2>1. DecideQuota(t)
    BY <1>5, StepPlaces, WritePlaces DEF TaskStep, IndexStep, ControlStep, WriteStep, Populating
  <2>2. \/ pc'[t] = "failed"
        \/ pc'[t] = "evict" /\ \E S : local' = [local EXCEPT ![t] = Evicting(S, "quota")]
    BY <1>0, <2>1, QuotaDecision DEF Goto
  <2>3. \A S : local' = [local EXCEPT ![t] = Evicting(S, "quota")] => local'[t].failed = "quota"
    BY <1>0 DEF LocalOK, Evicting
  <2>4. QED
    BY <2>2, <2>3 DEF Fails
<1>6. CASE pc[t] = "evict" /\ local[t].failed # "no"
  <2>1. Evict(t)
    BY <1>6, StepPlaces, WritePlaces DEF TaskStep, IndexStep, ControlStep, WriteStep, Populating
  <2>2. local' = local /\ pc'[t] \in {"unindex", AfterUnindex(t)}
    BY <1>0, <2>1 DEF Evict, Goto
  <2>3. AfterUnindex(t) = "failed"
    BY <1>6 DEF AfterUnindex
  <2>4. QED
    BY <1>6, <2>2, <2>3 DEF Fails
<1>7. CASE pc[t] = "unindex" /\ local[t].failed # "no"
  <2>1. Unindex(t)
    BY <1>7, StepPlaces DEF TaskStep, IndexStep, ControlStep, WritePcs, Populating
  <2>2. local' = local /\ pc'[t] = "unindexing"
    BY <1>0, <2>1 DEF Unindex, Goto
  <2>3. QED
    BY <1>7, <2>2 DEF Fails
<1>8. CASE pc[t] = "unindexing" /\ local[t].failed # "no"
  <2>1. Unindexed(t)
    BY <1>8, StepPlaces DEF TaskStep, IndexStep, ControlStep, WritePcs, Populating
  <2>2. pc'[t] = AfterUnindex(t)
    BY <1>0, <2>1 DEF Unindexed, Goto
  <2>3. QED
    BY <1>8, <2>2 DEF Fails, AfterUnindex
<1>9. QED
  BY <1>3, <1>4, <1>5, <1>6, <1>7, <1>8 DEF Fails

LEMMA FailingStays ==
  ASSUME Typed, NEW t \in Tasks, TaskStep(t), NEW k, Failing(k)
  PROVE  Failing(k)'
<1>1. PICK u \in Tasks : Writes(u, k) /\ Fails(u)
  BY DEF Failing
<1>2. Fails(u)' /\ req' = req
  BY <1>1, FailsStay, OthersStay DEF Writes
<1>3. QED
  BY <1>1, <1>2 DEF Failing, Writes

(* Only the step that opens a writable adds to them. *)
LEMMA TaskWritables ==
  ASSUME NEW t \in Tasks, TaskStep(t), ~OpenWritable(t)
  PROVE  writables' \subseteq writables
<1> USE DEF storeVars, memoryVars, indexVars, accessVars, lockVars, auxVars
<1>1. CASE CloseWritable(t)
  BY <1>1 DEF CloseWritable
<1>2. CASE StreamFails(t) \/ FileMissing(t)
  <2>1. PICK reason, bytes : Fail(t, reason, bytes)
    BY <1>2 DEF StreamFails, FileMissing
  <2>2. QED
    BY <2>1 DEF Fail
<1>3. CASE DecideSpace(t) \/ DecideQuota(t)
  <2>1. writables' = writables
    BY <1>3, Zenon DEF DecideSpace, DecideQuota
  <2>2. QED
    BY <2>1
<1>4. CASE \/ WriteExists(t) \/ Evict(t) \/ CreateFile(t) \/ OpenFails(t)
           \/ Cleanup(t) \/ Estimate(t) \/ Stat(t) \/ CallRegister(t)
  BY <1>4 DEF WriteExists, Evict, CreateFile, OpenFails, Cleanup, Estimate, Stat, CallRegister
<1>5. CASE Populate(t)
  BY <1>5, PopulateMovesNone
<1>6. CASE Ensured(t) \/ Register(t) \/ Unindex(t) \/ Unindexed(t) \/ TouchEnd(t)
  BY <1>6 DEF Ensured, Register, Unindex, Unindexed, TouchEnd
<1>7. CASE ControlStep(t)
  BY <1>7 DEF ControlStep, Delete, Lookup, ReadFile, ListEntries, ClearRead, ClearRemove, ClearEnd
<1>8. QED
  BY <1>1, <1>2, <1>3, <1>4, <1>5, <1>6, <1>7 DEF TaskStep, IndexStep, WriteStep

LEMMA TaskTasksOK ==
  ASSUME AgreeTypes, NEW t \in Tasks, TaskStep(t)
  PROVE  TasksOK'
<1> USE DEF storeVars, memoryVars, indexVars, accessVars, lockVars, auxVars
<1>0. Typed /\ LocalOK /\ pc \in [Tasks -> PcType] /\ OpOK(t)
  BY DEF AgreeTypes, Typed, StoreTypes, OrderInv, ScheduleOK
<1>1. /\ req' = req
      /\ \A u \in Tasks \ {t} : pc'[u] = pc[u] /\ local'[u] = local[u]
  BY <1>0, OthersStay
<1>2. CASE Populate(t)
  BY <1>2, PopulateMovesNone DEF AgreeTypes, TasksOK, Fails
<1> SUFFICES ASSUME ~Populate(t) PROVE TasksOK'
  BY <1>2
<1>3. \A u \in Tasks : u \in writables' => u \in writables \/ (u = t /\ OpenWritable(t))
  <2>1. CASE OpenWritable(t)
    BY <2>1 DEF OpenWritable
  <2>2. QED
    BY <2>1, TaskWritables
<1>4. t \in writables' => req[t].op = "write" /\ (pc'[t] = "stream" \/ Fails(t)')
  <2>1. CASE Fails(t) /\ req[t].op = "write"
    BY <1>0, <2>1, FailsStay
  <2>2. CASE t \in writables /\ pc[t] = "stream"
    <3>1. CloseWritable(t) \/ StreamFails(t) \/ FileMissing(t)
      BY <1>0, <2>2, StepPlaces, WritePlaces
         DEF TaskStep, IndexStep, ControlStep, WriteStep, Populating
    <3>2. CASE CloseWritable(t)
      BY <3>2 DEF CloseWritable
    <3>3. CASE StreamFails(t) \/ FileMissing(t)
      <4>1. pc'[t] = "cleanup"
        BY <1>0, <3>3, FailTyped DEF Goto
      <4>2. QED
        BY <1>0, <2>2, <4>1 DEF Fails, OpOK, WritePcs
    <3>4. QED
      BY <3>1, <3>2, <3>3
  <2>3. CASE t \notin writables
    <3>1. t \in writables' => pc[t] = "open" /\ pc'[t] = "stream"
      BY <1>0, <1>3, <2>3 DEF OpenWritable, Goto
    <3>2. QED
      BY <1>0, <3>1 DEF OpOK, WritePcs
  <2>4. QED
    BY <2>1, <2>2, <2>3 DEF AgreeTypes, TasksOK
<1>5. pc'[t] \in {"unindex", "unindexing"} /\ req[t].op = "drop" => local'[t].keys = {req[t].key}
  <2> SUFFICES ASSUME req[t].op = "drop", pc'[t] \in {"unindex", "unindexing"}
               PROVE  local'[t].keys = {req[t].key}
    OBVIOUS
  <2>1. CASE Unindex(t)
    BY <2>1 DEF Unindex, AgreeTypes, TasksOK
  <2>2. CASE Unindexed(t)
    <3>1. pc'[t] = "done"
      BY <1>0, <2>2 DEF Unindexed, Goto, AfterUnindex
    <3>2. QED
      BY <3>1
  <2>3. CASE Ensured(t) \/ TouchEnd(t) \/ Lookup(t) \/ ReadFile(t) \/ ListEntries(t) \/ ClearEnd(t)
    <3>1. pc'[t] \in {"lookup", "listing", "done", "yes", "no", "read"}
      BY <1>0, <2>3 DEF Ensured, TouchEnd, Lookup, ReadFile, ListEntries, ClearEnd, Goto
    <3>2. QED
      BY <3>1
  <2>4. CASE \/ WriteStep(t) \/ Register(t) \/ Delete(t)
             \/ \E k \in Keys : ClearRead(t, k) \/ ClearRemove(t, k)
    <3>1. req[t].op # "drop"
      BY <1>0, <2>4, StepPlaces DEF OpOK, WritePcs
    <3>2. QED
      BY <3>1
  <2>5. QED
    BY <2>1, <2>2, <2>3, <2>4 DEF TaskStep, IndexStep, ControlStep
<1>6. ASSUME NEW u \in Tasks \ {t} PROVE
        /\ u \in writables' => req[u].op = "write" /\ (pc'[u] = "stream" \/ Fails(u)')
        /\ pc'[u] \in {"unindex", "unindexing"} /\ req[u].op = "drop" =>
             local'[u].keys = {req[u].key}
  BY <1>0, <1>1, <1>3, FailsStay DEF AgreeTypes, TasksOK
<1>7. QED
  BY <1>1, <1>4, <1>5, <1>6 DEF TasksOK

(* How a writer comes to where it is. *)
LEMMA WriterMoves ==
  ASSUME Typed, NEW t \in Tasks, TaskStep(t), req[t].op = "write", ~Fails(t)',
         pc'[t] \in Before \cup After
  PROVE  \/ pc[t] \in Before /\ pc'[t] \in Before
         \/ pc'[t] \in Before /\ disk[req[t].key] = None /\ disk' = disk
         \/ CloseWritable(t) /\ pc'[t] = "stat"
         \/ /\ pc[t] = "stat" /\ pc'[t] = "register" /\ disk' = disk
            /\ local'[t].size = FileSize(disk[req[t].key])
         \/ /\ pc[t] = "register" /\ pc'[t] = "registering" /\ disk' = disk
            /\ local'[t].size = local[t].size
<1> USE DEF storeVars
<1>0. LocalOK /\ pc \in [Tasks -> PcType] /\ OpOK(t)
  BY DEF Typed, StoreTypes, OrderInv, ScheduleOK
<1>1. CASE Populate(t)
  <2>1. pc'[t] = pc[t] /\ pc[t] \in Populating
    BY <1>1, PopulateMovesNone, StepPlaces
  <2>2. QED
    BY <2>1 DEF Populating, Before, After
<1>2. CASE WriteExists(t)
  BY <1>0, <1>2 DEF WriteExists, Goto, key, Before, After
<1>3. CASE CloseWritable(t)
  BY <1>0, <1>3 DEF CloseWritable, Goto
<1>4. CASE Stat(t)
  BY <1>0, <1>4 DEF Stat, Goto, LocalOK, key
<1>5. CASE CallRegister(t)
  BY <1>0, <1>5 DEF CallRegister, Goto, LocalOK
<1>6. CASE Evict(t) \/ CreateFile(t) \/ OpenWritable(t) \/ OpenFails(t) \/ Estimate(t)
  <2>1. pc[t] \in {"evict", "create", "open", "estimate"}
    BY <1>6, WritePlaces
  <2>2. pc'[t] \in {"unindex", AfterUnindex(t), "open", "stream", "failed", "entries"}
    BY <1>0, <1>6 DEF Evict, CreateFile, OpenWritable, OpenFails, Estimate, Goto
  <2>3. AfterUnindex(t) \in {"done", "create", "failed"}
    BY DEF AfterUnindex
  <2>4. QED
    BY <2>1, <2>2, <2>3 DEF Before, After
<1>7. CASE DecideSpace(t)
  <2>1. pc[t] = "entries" /\ pc'[t] \in {"create", "failed", "evict"}
    BY <1>0, <1>7, SpaceDecision DEF Goto
  <2>2. QED
    BY <2>1 DEF Before, After
<1>8. CASE DecideQuota(t)
  <2>1. pc[t] = "quotaEntries" /\ pc'[t] \in {"failed", "evict"}
    BY <1>0, <1>8, QuotaDecision DEF Goto
  <2>2. QED
    BY <2>1 DEF Before, After
<1>9. CASE StreamFails(t) \/ FileMissing(t)
  BY <1>0, <1>9, FailTyped DEF Goto, Fails
<1>10. CASE Cleanup(t)
  <2>1. pc'[t] \in {"failed", "quotaEntries"}
    BY <1>0, <1>10 DEF Cleanup, Goto
  <2>2. QED
    BY <2>1 DEF Fails
<1>11. CASE Ensured(t) \/ Register(t) \/ Unindexed(t) \/ TouchEnd(t)
  <2>1. pc[t] \in {"ensuring", "registering", "unindexing", "touching"}
    BY <1>11, StepPlaces
  <2>2. pc'[t] \in {"lookup", "listing", "done", "written", AfterUnindex(t)}
    BY <1>0, <1>11 DEF Ensured, Register, Unindexed, TouchEnd, Goto
  <2>3. AfterUnindex(t) \in {"done", "create", "failed"}
    BY DEF AfterUnindex
  <2>4. Unindexed(t) => pc[t] = "unindexing"
    BY StepPlaces
  <2>5. ~Unindexed(t) => pc'[t] \in {"lookup", "listing", "done", "written"}
    BY <1>0, <1>11 DEF Ensured, Register, TouchEnd, Goto
  <2>6. QED
    BY <2>2, <2>3, <2>4, <2>5 DEF Before, After
<1>12. CASE Unindex(t)
  BY <1>0, <1>12 DEF Unindex, Goto, Before, After
<1>13. CASE ControlStep(t)
  <2>1. pc[t] \in {"remove", "collect", "lookup", "read", "listing"}
    BY <1>13, StepPlaces DEF ControlStep
  <2>2. pc[t] \notin {"remove", "collect"}
    BY <1>0, <2>1 DEF OpOK
  <2>3. Lookup(t) \/ ReadFile(t) \/ ListEntries(t)
    BY <1>13, <2>2, StepPlaces DEF ControlStep
  <2>4. pc'[t] \in {"yes", "no", "read", "done"}
    BY <1>0, <2>3 DEF Lookup, ReadFile, ListEntries, Goto
  <2>5. QED
    BY <2>4 DEF Before, After
<1>14. QED
  BY <1>1, <1>2, <1>3, <1>4, <1>5, <1>6, <1>7, <1>8, <1>9, <1>10, <1>11, <1>12, <1>13
     DEF TaskStep, IndexStep, WriteStep

(* Who is at work on k. *)
LEMMA Workers ==
  ASSUME Typed, NEW t \in Tasks, NEW k,
         \/ Writes(t, k) /\ pc[t] \in Before \cup After
         \/ Removes(t, k)
         \/ pc[t] = "evict" /\ k \in local[t].keys
         \/ pc[t] = "remove" /\ req[t].key = k
  PROVE  Active(t) /\ k \in Changes(t)
BY DEF Writes, Removes, Before, After, Active, Terminal, Changes, Touched, Typed, OpOK, WritePcs

(* What a step of a task does to the file of k. *)
LEMMA FileStep ==
  ASSUME Typed, NEW t \in Tasks, TaskStep(t), NEW k \in Keys, ~Failing(k)'
  PROVE  \/ disk'[k] = disk[k]
         \/ /\ disk'[k] = None
            /\ \/ Evict(t) /\ k \in local[t].keys
               \/ Delete(t) /\ req[t].key = k
               \/ \E i \in Keys : ClearRemove(t, i)
         \/ CreateFile(t) /\ Writes(t, k) /\ disk[k] = None /\ disk'[k] = Placeholder
         \/ CloseWritable(t) /\ Writes(t, k) /\ disk'[k] = FinishedFile(t)
<1>0. disk \in [Keys -> FileType \cup {None}] /\ OpOK(t)
  BY DEF Typed, StoreTypes
<1>1. CASE Evict(t)
  BY <1>1, RemovalTyped DEF Evict
<1>2. CASE Delete(t)
  BY <1>2, RemovalTyped DEF Delete
<1>3. CASE \E i \in Keys : ClearRemove(t, i)
  BY <1>3, RemovalTyped DEF ClearRemove
<1>4. CASE Cleanup(t)
  <2>1. disk'[k] = disk[k] \/ req[t].key = k
    BY <1>4, RemovalTyped DEF Cleanup, key
  <2>2. req[t].op = "write" /\ Fails(t)
    BY <1>0, <1>4 DEF Cleanup, OpOK, WritePcs, Fails
  <2>3. QED
    BY <2>1, <2>2, FailingStays DEF Failing, Writes
<1>5. CASE CreateFile(t)
  BY <1>0, <1>5 DEF CreateFile, key, Writes, OpOK, WritePcs
<1>6. CASE CloseWritable(t)
  <2>1. disk' = [disk EXCEPT ![req[t].key] = FinishedFile(t)] /\ req[t].op = "write"
    BY <1>0, <1>6 DEF CloseWritable, key, OpOK, WritePcs
  <2>2. QED
    BY <1>0, <1>6, <2>1 DEF Writes
<1>7. QED
  BY <1>1, <1>2, <1>3, <1>4, <1>5, <1>6, TaskLeavesStore

(* No lock of the browser is in the way of one that removes k alone.       *)
LEMMA RemovalWorks ==
  ASSUME AgreeTypes, NEW t \in Tasks, NEW k \in Keys, Shared(k), ~Failing(k),
         \/ Evict(t) /\ k \in local[t].keys
         \/ Delete(t) /\ req[t].key = k
  PROVE  disk'[k] = None
<1>1. \/ pc[t] = "evict" /\ k \in local[t].keys
      \/ pc[t] = "remove" /\ req[t].key = k
  BY DEF Evict, Delete
<1>2. Active(t) /\ k \in Changes(t) /\ Typed /\ OpOK(t)
  BY <1>1, Workers DEF AgreeTypes, Typed
<1>3. flush[k].at # "write"
  BY <1>2 DEF Shared
<1>4. ASSUME NEW u \in writables, req[u].key = k PROVE FALSE
  <2>1. u \in Tasks /\ req[u].op = "write" /\ (pc[u] = "stream" \/ Fails(u))
    BY <1>4 DEF AgreeTypes, RestTypes, TasksOK
  <2>2. pc[u] = "stream"
    BY <1>4, <2>1 DEF Failing, Writes
  <2>3. Active(u) /\ k \in Changes(u)
    BY <1>2, <1>4, <2>1, <2>2, Workers DEF Writes, Before
  <2>4. Twins(t, u, k)
    BY <1>1, <1>2, <2>1, <2>2, <2>3 DEF Shared
  <2>5. QED
    BY <1>1, <1>2, <2>4 DEF Twins, Writes, OpOK
<1>5. ~Locked(k)
  BY <1>3, <1>4 DEF Locked
<1>6. \E S : k \in S /\ RemoveEntries(S)
  BY DEF Evict, Delete
<1>7. QED
  BY <1>5, <1>6 DEF RemoveEntries

(* How an operation comes to take k out of the index. *)
LEMMA RemovesMoves ==
  ASSUME Typed, NEW t \in Tasks, TaskStep(t), NEW k, Removes(t, k)'
  PROVE  \/ Evict(t) /\ k \in local[t].keys
         \/ Delete(t) /\ req[t].key = k
         \/ Unindex(t) /\ Removes(t, k) /\ disk' = disk
<1> USE DEF storeVars
<1>0. LocalOK /\ pc \in [Tasks -> PcType] /\ pc'[t] \in {"unindex", "unindexing"} /\ req' = req
  BY OthersStay DEF Typed, StoreTypes, OrderInv, ScheduleOK, Removes
<1>1. CASE Evict(t)
  BY <1>1 DEF Evict, Removes
<1>2. CASE Delete(t)
  BY <1>0, <1>2 DEF Delete, Removes, LocalOK
<1>3. CASE Unindex(t)
  BY <1>0, <1>3 DEF Unindex, Removes
<1>4. CASE Populate(t)
  <2>1. pc'[t] = pc[t] /\ pc[t] \in Populating
    BY <1>4, PopulateMovesNone, StepPlaces
  <2>2. QED
    BY <1>0, <2>1 DEF Populating
<1>5. CASE Ensured(t) \/ Register(t) \/ Unindexed(t) \/ TouchEnd(t)
  <2>1. pc'[t] \in {"lookup", "listing", "done", "written", AfterUnindex(t)}
    BY <1>0, <1>5 DEF Ensured, Register, Unindexed, TouchEnd, Goto
  <2>2. QED
    BY <1>0, <2>1 DEF AfterUnindex
<1>6. CASE Lookup(t) \/ ReadFile(t) \/ ListEntries(t) \/ ClearEnd(t)
  <2>1. pc'[t] \in {"yes", "no", "read", "done"}
    BY <1>0, <1>6 DEF Lookup, ReadFile, ListEntries, ClearEnd, Goto
  <2>2. QED
    BY <1>0, <2>1
<1>7. ASSUME NEW i \in Keys, ClearRead(t, i) \/ ClearRemove(t, i) PROVE FALSE
  <2>1. pc' = pc /\ pc[t] = "collect"
    BY <1>7 DEF ClearRead, ClearRemove
  <2>2. QED
    BY <1>0, <2>1
<1>8. CASE DecideSpace(t) \/ DecideQuota(t)
  <2>1. pc'[t] \in {"create", "failed", "evict"}
    BY <1>0, <1>8, SpaceDecision, QuotaDecision DEF Goto
  <2>2. QED
    BY <1>0, <2>1
<1>9. CASE StreamFails(t) \/ FileMissing(t)
  <2>1. pc'[t] = "cleanup"
    BY <1>0, <1>9, FailTyped DEF Goto
  <2>2. QED
    BY <1>0, <2>1
<1>10. CASE \/ WriteExists(t) \/ Estimate(t) \/ CreateFile(t) \/ OpenWritable(t) \/ OpenFails(t)
            \/ CloseWritable(t) \/ Stat(t) \/ CallRegister(t) \/ Cleanup(t)
  <2>1. pc'[t] \in {"existed", "estimate", "create", "entries", "open", "stream", "failed",
                    "stat", "register", "registering", "quotaEntries"}
    BY <1>0, <1>10 DEF WriteExists, Estimate, CreateFile, OpenWritable, OpenFails,
       CloseWritable, Stat, CallRegister, Cleanup, Goto
  <2>2. QED
    BY <1>0, <2>1
<1>11. QED
  BY <1>1, <1>2, <1>3, <1>4, <1>5, <1>6, <1>7, <1>8, <1>9, <1>10
     DEF TaskStep, IndexStep, WriteStep, ControlStep

(* One that takes k away is alone with it. *)
LEMMA RemoverIsAlone ==
  ASSUME Typed, NEW t \in Tasks, NEW k, Shared(k),
         \/ Evict(t) /\ k \in local[t].keys
         \/ Delete(t) /\ req[t].key = k
         \/ k \in Keys /\ \E i \in Keys : ClearRemove(t, i)
  PROVE  /\ \A u \in Tasks \ {t} : Active(u) => k \notin Changes(u)
         /\ Active(t) /\ k \in Changes(t)
         /\ flush[k].at = "none"
<1>1. OpOK(t)
  BY DEF Typed
<1>2. /\ Active(t) /\ k \in Changes(t)
      /\ \A u \in Tasks \ {t} : ~Twins(t, u, k)
  BY <1>1 DEF Evict, Delete, ClearRemove, Active, Terminal, Changes, Touched, OpOK, Twins, Writes
<1>3. QED
  BY <1>2 DEF Shared

LEMMA TaskStore ==
  ASSUME AgreeInv, NEW t \in Tasks, TaskStep(t), NEW k \in Keys, k \notin mixed,
         ~Failing(k)'
  PROVE  StoreOK(k)'
<1>0. Typed /\ AgreeTypes /\ Shared(k) /\ ~Failing(k) /\ StoreOK(k)
  BY FailingStays DEF AgreeInv, AgreeTypes, AgreeOK
<1>1. /\ req' = req /\ \A u \in Tasks \ {t} : pc'[u] = pc[u] /\ local'[u] = local[u]
  BY <1>0, OthersStay
<1>2. \/ disk'[k] = disk[k]
      \/ /\ disk'[k] = None
         /\ \A u \in Tasks \ {t} : Active(u) => k \notin Changes(u)
      \/ Writes(t, k) /\ pc[t] \in Before /\ disk[k] = None /\ disk'[k] = Placeholder
      \/ CloseWritable(t) /\ Writes(t, k) /\ pc[t] \in Before /\ disk'[k] = FinishedFile(t)
  BY <1>0, FileStep, RemoverIsAlone, WritePlaces DEF Before
<1>3. CloseWritable(t) /\ disk'[k] = FinishedFile(t) =>
        /\ Whole(k)' /\ disk'[k].body = req[t].body /\ disk'[k].evictable = req[t].evictable
  <2> SUFFICES ASSUME CloseWritable(t), disk'[k] = FinishedFile(t)
               PROVE  Whole(k)' /\ disk'[k].body = req[t].body
                      /\ disk'[k].evictable = req[t].evictable
    OBVIOUS
  <2>1. /\ req[t].body \in Nat /\ req[t].folder \in Folders /\ req[t].evictable \in BOOLEAN
        /\ clock \in Nat
    BY <1>0, ActiveTypes, OthersStay DEF Typed, StoreTypes
  <2>2. FinishedFile(t) \in FileType
    BY <2>1 DEF FinishedFile, FileType
  <2>3. FinishedFile(t) # None
    BY <2>2, Constants
  <2>4. QED
    BY <2>3 DEF Whole, FinishedFile
<1>4. ASSUME NEW u \in Tasks \ {t}, Writes(u, k), pc[u] \in Before \cup After
      PROVE  /\ pc[u] \in Before => disk'[k] \in {None, Placeholder} \/ Fresh(u, k)'
             /\ pc[u] \in After => Fresh(u, k)'
  <2>1. Active(u) /\ k \in Changes(u) /\ WriterOK(u, k)
    BY <1>0, <1>4, Workers DEF StoreOK
  <2>2. Writes(t, k) /\ pc[t] \in Before => Twins(t, u, k)
    BY <1>0, <1>4, <2>1, Workers DEF Shared
  <2>3. CASE disk'[k] = disk[k]
    BY <1>1, <1>4, <2>1, <2>3 DEF WriterOK, Fresh, Whole
  <2>4. CASE disk[k] = None /\ disk'[k] = Placeholder
    BY <1>4, <2>1, <2>4 DEF WriterOK, Fresh, Whole
  <2>5. CASE CloseWritable(t) /\ Writes(t, k) /\ pc[t] \in Before /\ disk'[k] = FinishedFile(t)
    BY <1>1, <1>3, <2>2, <2>5 DEF Twins, Fresh
  <2>6. QED
    BY <1>2, <2>1, <2>3, <2>4, <2>5
<1>5. \A u \in Tasks \ {t} : WriterOK(u, k)'
  <2> SUFFICES ASSUME NEW u \in Tasks \ {t}, Writes(u, k), pc[u] \in Before \cup After
               PROVE  WriterOK(u, k)'
    BY <1>1 DEF WriterOK, Writes, After
  <2>1. WriterOK(u, k)
    BY <1>0 DEF StoreOK
  <2>2. QED
    BY <1>1, <1>4, <2>1 DEF WriterOK
<1>6. WriterOK(t, k)'
  <2> SUFFICES ASSUME Writes(t, k), pc'[t] \in Before \cup After PROVE WriterOK(t, k)'
    BY <1>1 DEF WriterOK, Writes, After
  <2>0. req[t].op = "write" /\ req[t].key = k /\ ~Fails(t)' /\ WriterOK(t, k)
    BY <1>0, <1>1 DEF Writes, Failing, StoreOK
  <2>1. CASE pc[t] \in Before /\ pc'[t] \in Before
    <3>1. disk[k] \in {None, Placeholder} \/ Fresh(t, k)
      BY <2>0, <2>1 DEF WriterOK, Writes
    <3>2. disk'[k] \in {None, Placeholder} \/ Fresh(t, k)'
      BY <1>1, <1>2, <1>3, <3>1 DEF Fresh, Whole
    <3>3. QED
      BY <2>1, <3>2 DEF WriterOK, Before, After
  <2>2. CASE pc'[t] \in Before /\ disk[k] = None /\ disk' = disk
    BY <2>2 DEF WriterOK, Before, After
  <2>3. CASE CloseWritable(t) /\ pc'[t] = "stat"
    <3>1. disk'[k] = FinishedFile(t)
      BY <1>0, <2>0, <2>3 DEF CloseWritable, key, Typed, StoreTypes
    <3>2. Fresh(t, k)'
      BY <1>1, <1>3, <2>3, <3>1 DEF Fresh
    <3>3. QED
      BY <2>3, <3>2 DEF WriterOK, Before
  <2>4. CASE /\ pc[t] = "stat" /\ pc'[t] = "register" /\ disk' = disk
             /\ local'[t].size = FileSize(disk[k])
    <3>1. Fresh(t, k)
      BY <2>0, <2>4 DEF WriterOK, Writes, After
    <3>2. FileSize(disk[k]) = req[t].body + FooterLen
      BY <3>1 DEF Fresh, Whole, FileSize
    <3>3. Fresh(t, k)'
      BY <1>1, <2>4, <3>1 DEF Fresh, Whole
    <3>4. QED
      BY <1>1, <2>4, <3>2, <3>3 DEF WriterOK, Before
  <2>5. CASE /\ pc[t] = "register" /\ pc'[t] = "registering" /\ disk' = disk
             /\ local'[t].size = local[t].size
    <3>1. Fresh(t, k) /\ local[t].size = req[t].body + FooterLen
      BY <2>0, <2>5 DEF WriterOK, Writes, After
    <3>2. Fresh(t, k)'
      BY <1>1, <2>5, <3>1 DEF Fresh, Whole
    <3>3. QED
      BY <1>1, <2>5, <3>1, <3>2 DEF WriterOK, Before
  <2>6. QED
    BY <1>0, <2>0, <2>1, <2>2, <2>3, <2>4, <2>5, WriterMoves
<1>7. ASSUME NEW u \in Tasks \ {t}, Removes(u, k)' PROVE disk'[k] = None
  <2>1. Removes(u, k)
    BY <1>1, <1>7 DEF Removes
  <2>2. disk[k] = None /\ Active(u) /\ k \in Changes(u)
    BY <1>0, <2>1, Workers DEF StoreOK
  <2>3. Writes(t, k) /\ pc[t] \in Before => Twins(t, u, k)
    BY <1>0, <2>2, Workers DEF Shared
  <2>4. ~Twins(t, u, k)
    BY <2>1 DEF Removes, Twins
  <2>5. QED
    BY <1>2, <2>2, <2>3, <2>4
<1>8. Removes(t, k)' => disk'[k] = None
  BY <1>0, RemovesMoves, RemovalWorks DEF StoreOK
<1>9. QED
  BY <1>5, <1>6, <1>7, <1>8 DEF StoreOK

(* A writer goes on until it registers its file, or fails. *)
LEMMA WritingStays ==
  ASSUME Typed, NEW t \in Tasks, TaskStep(t), req[t].op = "write", ~Fails(t)', ~Register(t)
  PROVE  /\ pc[t] \in Before \cup After => pc'[t] \in Before \cup After
         /\ pc[t] \in After => pc'[t] \in After
<1>0. LocalOK /\ pc \in [Tasks -> PcType] /\ pc'[t] # "failed" /\ pc'[t] # "cleanup"
  BY DEF Typed, StoreTypes, OrderInv, ScheduleOK, Fails
<1>1. CASE Populate(t)
  BY <1>1, PopulateMovesNone
<1>2. CASE Unindex(t)
  BY <1>0, <1>2 DEF Unindex, Goto, Before, After
<1>3. CASE Unindexed(t)
  <2>1. pc[t] = "unindexing" /\ pc'[t] = AfterUnindex(t)
    BY <1>0, <1>3, StepPlaces DEF Unindexed, Goto
  <2>2. AfterUnindex(t) \in {"create", "failed"}
    BY DEF AfterUnindex
  <2>3. QED
    BY <1>0, <2>1, <2>2 DEF Before, After
<1>4. CASE Ensured(t) \/ TouchEnd(t) \/ ControlStep(t)
  <2>1. pc[t] \in {"ensuring", "touching", "remove", "collect", "lookup", "read", "listing"}
    BY <1>4, StepPlaces DEF ControlStep
  <2>2. QED
    BY <2>1 DEF Before, After
<1>5. CASE WriteStep(t)
  <2>1. CASE DecideSpace(t) \/ DecideQuota(t)
    BY <1>0, <2>1, SpaceDecision, QuotaDecision DEF Goto, Before, After
  <2>2. CASE StreamFails(t) \/ FileMissing(t)
    BY <1>0, <2>2, FailTyped DEF Goto
  <2>3. CASE Evict(t)
    BY <1>0, <2>3 DEF Evict, Goto, AfterUnindex, Before, After
  <2>4. CASE \/ WriteExists(t) \/ Estimate(t) \/ CreateFile(t) \/ OpenWritable(t) \/ OpenFails(t)
             \/ CloseWritable(t) \/ Stat(t) \/ CallRegister(t) \/ Cleanup(t)
    BY <1>0, <2>4 DEF WriteExists, Estimate, CreateFile, OpenWritable, OpenFails,
       CloseWritable, Stat, CallRegister, Cleanup, Goto, Before, After
  <2>5. QED
    BY <1>5, <2>1, <2>2, <2>3, <2>4 DEF WriteStep
<1>6. QED
  BY <1>1, <1>2, <1>3, <1>4, <1>5 DEF TaskStep, IndexStep

(* What the index may wait for goes on until it is done. *)
LEMMA WorkStays ==
  ASSUME Typed, NEW t \in Tasks, TaskStep(t), NEW k, ~Failing(k)'
  PROVE  /\ ~(Register(t) /\ req[t].key = k) =>
              (Registering(k) => Registering(k)') /\ (Writing(k) => Writing(k)')
         /\ ~(Unindexed(t) /\ k \in local[t].keys) => (Removing(k) => Removing(k)')
         /\ Dropped(k) => Dropped(k)'
<1>1. /\ req' = req /\ Active(t)
      /\ \A u \in Tasks \ {t} : pc'[u] = pc[u] /\ local'[u] = local[u]
  BY OthersStay
<1>2. \A u \in Tasks : pc[u] \in After => req[u].op = "write"
  BY DEF Typed, OpOK, After, WritePcs
<1>3. Writes(t, k) => ~Fails(t)'
  BY <1>1 DEF Failing, Writes
<1>4. ASSUME ~(Register(t) /\ req[t].key = k), Registering(k) PROVE Registering(k)'
  BY <1>1, <1>2, <1>3, <1>4, WritingStays DEF Registering, Writes
<1>5. ASSUME ~(Register(t) /\ req[t].key = k), Writing(k) PROVE Writing(k)'
  BY <1>1, <1>3, <1>5, WritingStays DEF Writing, Writes
<1>6. ASSUME ~(Unindexed(t) /\ k \in local[t].keys), Removing(k) PROVE Removing(k)'
  <2>1. PICK u \in Tasks : Removes(u, k)
    BY <1>6 DEF Removing
  <2>2. CASE u # t
    BY <1>1, <2>1, <2>2 DEF Removing, Removes
  <2>3. CASE u = t
    <3>1. pc[t] \in {"unindex", "unindexing"} /\ k \in local[t].keys
      BY <2>1, <2>3 DEF Removes
    <3>2. Unindex(t)
      BY <1>6, <3>1, StepPlaces, WritePlaces
         DEF TaskStep, IndexStep, ControlStep, WritePcs, Populating
    <3>3. pc'[t] = "unindexing" /\ local' = local
      BY <3>2 DEF Unindex, Goto, Typed, OrderInv, ScheduleOK
    <3>4. QED
      BY <1>1, <2>1, <2>3, <3>3 DEF Removing, Removes
  <2>4. QED
    BY <2>2, <2>3
<1>7. Dropped(k) => Dropped(k)'
  BY <1>1 DEF Dropped, Active, Terminal
<1>8. QED
  BY <1>4, <1>5, <1>6, <1>7

(* The steps that are not about the index leave it, and the scan. *)
LEMMA IndexStays ==
  ASSUME Typed, NEW t \in Tasks, TaskStep(t)
  PROVE  \/ IndexStep(t) \/ TouchEnd(t) \/ FileMissing(t) \/ ClearEnd(t)
         \/ UNCHANGED <<index, cachePopulated, scan>> /\ stage' \in {stage, "enter"}
<1> USE DEF memoryVars, indexVars, lockVars
<1>1. CASE DecideSpace(t) \/ DecideQuota(t)
  <2>1. UNCHANGED <<index, cachePopulated, scan>> /\ Leave
    BY <1>1, Zenon DEF DecideSpace, DecideQuota
  <2>2. QED
    BY <2>1 DEF Leave
<1>2. CASE StreamFails(t)
  <2>1. PICK reason, bytes : Fail(t, reason, bytes)
    BY <1>2 DEF StreamFails
  <2>2. UNCHANGED <<lockVars, indexVars>>
    BY <1>2, <2>1, Zenon DEF StreamFails, Fail
  <2>3. QED
    BY <2>2
<1>3. CASE \/ WriteExists(t) \/ Evict(t) \/ CreateFile(t) \/ OpenWritable(t) \/ OpenFails(t)
           \/ CloseWritable(t) \/ Cleanup(t) \/ Estimate(t) \/ Stat(t) \/ CallRegister(t)
  BY <1>3 DEF WriteExists, Evict, CreateFile, OpenWritable, OpenFails, CloseWritable,
              Cleanup, Estimate, Stat, CallRegister
<1>4. CASE ControlStep(t)
  BY <1>4 DEF ControlStep, Delete, Lookup, ReadFile, ListEntries, ClearRead, ClearRemove
<1>5. QED
  BY <1>1, <1>2, <1>3, <1>4 DEF TaskStep, WriteStep

(* A step that is not about k, and one after which nothing is known of it. *)
LEMMA TruthStays ==
  ASSUME NEW k, TruthOK(k), index'[k] = index[k], disk'[k] = disk[k],
         scan'.key = k => scan.key = k /\ scan'.file = scan.file,
         cachePopulated' \/ Scanned(k)' => cachePopulated \/ Scanned(k),
         Registering(k) => Registering(k)', Removing(k) => Removing(k)',
         Writing(k) => Writing(k)', Dropped(k) => Dropped(k)'
  PROVE  TruthOK(k)'
BY DEF TruthOK, EntryOK, ReadOK, CompleteOK, Describes

LEMMA NothingKnown ==
  ASSUME NEW k, index'[k] = None, scan'.key # k, ~cachePopulated', ~Scanned(k)'
  PROVE  TruthOK(k)'
BY DEF TruthOK, EntryOK, ReadOK, CompleteOK

LEMMA PopulateTruth ==
  ASSUME AgreeInv, NEW t \in Tasks, Populate(t), NEW k \in Keys, k \notin mixed, ~Failing(k),
         TruthOK(k)
  PROVE  TruthOK(k)'
<1> USE DEF storeVars, memoryVars, indexVars
<1>0. /\ Typed /\ StoreOK(k) /\ index \in [Keys -> EntryType \cup {None}] /\ k # None
      /\ stage = "scan" => ~cachePopulated
      /\ scan.key # None => scan.file \in FileType
  BY Constants DEF AgreeInv, AgreeTypes, AgreeOK, Typed, StoreTypes, OrderInv, LineInv
<1>1. UNCHANGED <<pc, req, local, disk>>
  BY PopulateMovesNone
<1>2. /\ Registering(k) <=> Registering(k)'
      /\ Removing(k) <=> Removing(k)'
      /\ Writing(k) <=> Writing(k)'
      /\ Dropped(k) <=> Dropped(k)'
  BY <1>1 DEF Registering, Removing, Removes, Writing, Writes, Dropped
<1>3. CASE PopulateSkip(t)
  BY <1>1, <1>2, <1>3, TruthStays DEF PopulateSkip, Scanned
<1>4. CASE PopulateBegin(t)
  BY <1>0, <1>4, NothingKnown DEF PopulateBegin, Nothing, NoScan, Scanned
<1>5. CASE PopulateEnd(t)
  <2>1. Scanned(k) /\ scan'.key = None /\ index' = index
    BY <1>0, <1>5 DEF PopulateEnd, Scanned, NoScan
  <2>2. QED
    BY <1>0, <1>1, <1>2, <2>1, TruthStays
<1>6. ASSUME NEW i \in Keys, ScanRead(t, i) PROVE TruthOK(k)'
  <2>1. /\ stage = "scan" /\ stage' = stage /\ index' = index /\ scan.key = None
        /\ cachePopulated' = cachePopulated /\ disk' = disk
        /\ scan' = [todo |-> scan.todo \ {i}, file |-> disk[i],
                    key |-> IF disk[i] = None THEN None ELSE i]
    BY <1>6 DEF ScanRead
  <2>2. CASE k # i
    <3>1. scan'.key # k /\ (Scanned(k)' => Scanned(k))
      BY <1>0, <2>1, <2>2 DEF Scanned
    <3>2. QED
      BY <1>1, <1>2, <2>1, <3>1, TruthStays
  <2>3. CASE k = i
    <3>1. EntryOK(k)'
      BY <1>1, <1>2, <2>1 DEF TruthOK, EntryOK, Describes
    <3>2. ReadOK(k)'
      BY <1>0, <2>1, <2>3 DEF ReadOK
    <3>3. CompleteOK(k)'
      BY <1>0, <2>1, <2>3 DEF CompleteOK, Scanned
    <3>4. QED
      BY <3>1, <3>2, <3>3 DEF TruthOK
  <2>4. QED
    BY <2>2, <2>3
<1>7. CASE ScanRecord(t)
  <2>1. /\ stage = "scan" /\ stage' = stage /\ cachePopulated' = cachePopulated
        /\ scan' = [NoScan EXCEPT !.todo = scan.todo] /\ scan.key # None
        /\ index' = [index EXCEPT ![scan.key] = IndexEntry(scan.file)]
    BY <1>7 DEF ScanRecord
  <2>2. scan'.key = None /\ scan'.todo = scan.todo
    BY <2>1 DEF NoScan
  <2>3. CASE scan.key = k
    <3>1. index'[k] = IndexEntry(scan.file) /\ index'[k] # None /\ scan.file # None
      BY <1>0, <2>1, <2>3, Constants
    <3>2. ReadOK(k)
      BY DEF TruthOK
    <3>3. EntryOK(k)'
      BY <1>1, <1>2, <2>3, <3>1, <3>2 DEF ReadOK, EntryOK, Describes, IndexEntry
    <3>4. QED
      BY <1>0, <2>2, <3>1, <3>3 DEF TruthOK, ReadOK, CompleteOK
  <2>4. CASE scan.key # k
    <3>1. index'[k] = index[k] /\ scan'.key # k /\ (Scanned(k)' => Scanned(k))
      BY <1>0, <2>1, <2>2, <2>4 DEF Scanned
    <3>2. QED
      BY <1>1, <1>2, <2>1, <3>1, TruthStays
  <2>5. QED
    BY <2>3, <2>4
<1>8. CASE ScanPassOver(t)
  <2>1. /\ stage = "scan" /\ stage' = stage /\ UNCHANGED <<index, cachePopulated>>
        /\ scan' = [NoScan EXCEPT !.todo = scan.todo] /\ disk[scan.key] # scan.file
    BY <1>8 DEF ScanPassOver
  <2>2. scan'.key = None /\ scan'.todo = scan.todo
    BY <2>1 DEF NoScan
  <2>3. CASE scan.key = k
    <3>1. Registering(k) \/ Removing(k)
      BY <2>1, <2>3 DEF TruthOK, ReadOK
    <3>2. Registering(k) => Writing(k)
      BY <1>0 DEF Registering, Writing, Writes, Typed, OpOK, After, WritePcs
    <3>3. Removing(k) => disk[k] = None
      BY <1>0 DEF Removing, StoreOK
    <3>4. CompleteOK(k)'
      BY <1>1, <1>2, <3>1, <3>2, <3>3 DEF CompleteOK
    <3>5. EntryOK(k)'
      BY <1>1, <1>2, <2>1 DEF TruthOK, EntryOK, Describes
    <3>6. QED
      BY <1>0, <2>2, <3>4, <3>5 DEF TruthOK, ReadOK
  <2>4. CASE scan.key # k
    <3>1. scan'.key # k /\ (Scanned(k)' => Scanned(k))
      BY <1>0, <2>1, <2>2, <2>4 DEF Scanned
    <3>2. QED
      BY <1>1, <1>2, <2>1, <3>1, TruthStays
  <2>5. QED
    BY <2>3, <2>4
<1>9. QED
  BY <1>3, <1>4, <1>5, <1>6, <1>7, <1>8 DEF Populate

LEMMA IndexTruth ==
  ASSUME AgreeInv, NEW t \in Tasks,
         Ensured(t) \/ Register(t) \/ Unindex(t) \/ Unindexed(t) \/ TouchEnd(t),
         NEW k \in Keys, k \notin mixed, ~Failing(k)', TruthOK(k)
  PROVE  TruthOK(k)'
<1> USE DEF storeVars, memoryVars, indexVars
<1>0. /\ TaskStep(t) /\ Typed /\ TasksOK /\ ~Failing(k) /\ StoreOK(k)
      /\ index \in [Keys -> EntryType \cup {None}] /\ pc \in [Tasks -> PcType]
      /\ OpOK(t) /\ req' = req /\ Active(t)
  <2>1. TaskStep(t)
    BY DEF TaskStep, IndexStep
  <2>2. QED
    BY <2>1, FailingStays, OthersStay
       DEF AgreeInv, AgreeTypes, AgreeOK, Typed, StoreTypes, OrderInv, ScheduleOK
<1>1. /\ ~(Register(t) /\ req[t].key = k) =>
           (Registering(k) => Registering(k)') /\ (Writing(k) => Writing(k)')
      /\ ~(Unindexed(t) /\ k \in local[t].keys) => (Removing(k) => Removing(k)')
      /\ Dropped(k) => Dropped(k)'
  BY <1>0, WorkStays
<1>2. /\ disk' = disk /\ cachePopulated' = cachePopulated /\ scan' = scan
      /\ stage' \in {stage, "enter"}
  BY DEF Ensured, Register, Unindex, Unindexed, TouchEnd, Leave
<1>3. Scanned(k)' => Scanned(k)
  BY <1>2 DEF Scanned
<1>4. ~Register(t) \/ ~Unindexed(t)
  BY DEF Register, Unindexed, Holds
<1>5. CASE Ensured(t) \/ Unindex(t)
  <2>1. index' = index /\ ~Register(t) /\ ~Unindexed(t)
    BY <1>5 DEF Ensured, Unindex, Register, Unindexed, Holds
  <2>2. QED
    BY <1>1, <1>2, <1>3, <2>1, TruthStays
<1>6. CASE Register(t)
  <2>1. /\ pc[t] = "registering" /\ stage = "enter" /\ scan.key = None
        /\ index' = [index EXCEPT ![req[t].key] =
                       [size |-> local[t].size, lastAccessed |-> local[t].now,
                        evictable |-> req[t].evictable]]
    BY <1>0, <1>6 DEF Register, Holds, Typed, OrderInv, LineInv, NoScan
  <2>2. CASE req[t].key = k
    <3>1. /\ index'[k] = [size |-> local[t].size, lastAccessed |-> local[t].now,
                          evictable |-> req[t].evictable]
          /\ index'[k] \in EntryType
      BY <1>0, <2>1, <2>2, ActiveTypes DEF Typed, StoreTypes, LocalOK, EntryType
    <3>2. Fresh(t, k) /\ local[t].size = req[t].body + FooterLen
      BY <1>0, <2>1, <2>2 DEF StoreOK, WriterOK, Writes, After, OpOK, WritePcs
    <3>3. Describes(index'[k], disk[k])
      BY <3>1, <3>2 DEF Fresh, Whole, Describes, FileSize
    <3>4. index'[k] # None
      BY <3>1, Constants
    <3>5. EntryOK(k)' /\ CompleteOK(k)'
      BY <1>2, <3>3, <3>4 DEF EntryOK, CompleteOK, Describes
    <3>6. ReadOK(k)'
      BY <1>2, <2>1, Constants DEF ReadOK
    <3>7. QED
      BY <3>5, <3>6 DEF TruthOK
  <2>3. CASE req[t].key # k
    BY <1>0, <1>1, <1>2, <1>3, <1>4, <1>6, <2>1, <2>3, TruthStays
  <2>4. QED
    BY <2>2, <2>3
<1>7. CASE Unindexed(t)
  <2>1. /\ pc[t] = "unindexing" /\ pc'[t] = AfterUnindex(t) /\ stage = "enter"
        /\ scan.key = None
        /\ index' = [i \in Keys |-> IF i \in local[t].keys THEN None ELSE index[i]]
    BY <1>0, <1>7 DEF Unindexed, Goto, Holds, Typed, OrderInv, LineInv, NoScan
  <2>2. CASE k \in local[t].keys
    <3>1. EntryOK(k)' /\ ReadOK(k)'
      BY <1>2, <2>1, <2>2, Constants DEF EntryOK, ReadOK
    <3>2. CASE req[t].op = "drop"
      <4>1. pc'[t] = "done" /\ req[t].key = k
        BY <1>0, <2>1, <2>2, <3>2 DEF AfterUnindex, TasksOK
      <4>2. Dropped(k)'
        BY <1>0, <3>2, <4>1 DEF Dropped
      <4>3. QED
        BY <3>1, <4>2 DEF TruthOK, CompleteOK
    <3>3. CASE req[t].op # "drop"
      <4>1. disk[k] = None
        BY <1>0, <2>1, <2>2, <3>3 DEF StoreOK, Removes
      <4>2. QED
        BY <1>2, <3>1, <4>1 DEF TruthOK, CompleteOK
    <3>4. QED
      BY <3>2, <3>3
  <2>3. CASE k \notin local[t].keys
    <3>1. index'[k] = index[k]
      BY <2>1, <2>3
    <3>2. QED
      BY <1>1, <1>2, <1>3, <1>4, <1>7, <2>3, <3>1, TruthStays
  <2>4. QED
    BY <2>2, <2>3
<1>8. CASE TouchEnd(t)
  <2>1. ~Register(t) /\ ~Unindexed(t)
    BY <1>8 DEF TouchEnd, Register, Unindexed, Holds
  <2>2. \/ index' = index
        \/ /\ index[req[t].key] # None
           /\ index' = [index EXCEPT ![req[t].key].lastAccessed = local[t].now]
    BY <1>8 DEF TouchEnd
  <2>3. CASE index'[k] = index[k]
    BY <1>1, <1>2, <1>3, <2>1, <2>3, TruthStays
  <2>4. CASE index'[k] # index[k]
    <3>1. /\ index'[k] = [index[k] EXCEPT !.lastAccessed = local[t].now]
          /\ index[k] # None /\ index[k] \in EntryType /\ local[t].now \in Nat
      BY <1>0, <2>2, <2>4 DEF Typed, StoreTypes, LocalOK
    <3>2. /\ index'[k] \in EntryType /\ index'[k].size = index[k].size
          /\ index'[k].evictable = index[k].evictable
      BY <3>1 DEF EntryType
    <3>3. index'[k] # None
      BY <3>2, Constants
    <3>4. EntryOK(k)'
      BY <1>1, <1>2, <2>1, <3>1, <3>2 DEF TruthOK, EntryOK, Describes
    <3>5. CompleteOK(k)'
      BY <3>3 DEF CompleteOK
    <3>6. ReadOK(k)'
      BY <1>1, <1>2, <2>1 DEF TruthOK, ReadOK
    <3>7. QED
      BY <3>4, <3>5, <3>6 DEF TruthOK
  <2>5. QED
    BY <2>3, <2>4
<1>9. QED
  BY <1>5, <1>6, <1>7, <1>8

LEMMA FileTruth ==
  ASSUME AgreeInv, NEW t \in Tasks, TaskStep(t), NEW k \in Keys, k \notin mixed,
         ~Failing(k)', TruthOK(k), disk'[k] # disk[k], ~Clearing'
  PROVE  TruthOK(k)'
<1> USE DEF storeVars, memoryVars, indexVars, lockVars
<1>0. /\ Typed /\ AgreeTypes /\ ~Failing(k) /\ StoreOK(k) /\ Shared(k) /\ OpOK(t)
      /\ pc \in [Tasks -> PcType] /\ LocalOK /\ req' = req
  BY FailingStays, OthersStay
     DEF AgreeInv, AgreeTypes, AgreeOK, Typed, StoreTypes, OrderInv, ScheduleOK
<1>1. CASE Evict(t) /\ k \in local[t].keys
  <2>1. disk'[k] = None /\ pc[t] = "evict" /\ pc'[t] = "unindex" /\ local' = local
    BY <1>0, <1>1, RemovalWorks DEF Evict, Goto
  <2>2. Removes(t, k)'
    BY <1>0, <1>1, <2>1 DEF Removes, OpOK, WritePcs
  <2>3. QED
    BY <2>1, <2>2 DEF TruthOK, EntryOK, ReadOK, CompleteOK, Removing
<1>2. CASE Delete(t) /\ req[t].key = k
  <2>1. disk'[k] = None /\ pc[t] = "remove" /\ pc'[t] = "unindex" /\ local'[t].keys = {k}
    BY <1>0, <1>2, RemovalWorks DEF Delete, Goto, LocalOK
  <2>2. Removes(t, k)'
    BY <1>0, <1>2, <2>1 DEF Removes, OpOK
  <2>3. QED
    BY <2>1, <2>2 DEF TruthOK, EntryOK, ReadOK, CompleteOK, Removing
<1>3. ASSUME NEW i \in Keys, ClearRemove(t, i) PROVE FALSE
  <2>1. pc[t] = "collect" /\ pc' = pc
    BY <1>3 DEF ClearRemove
  <2>2. QED
    BY <2>1 DEF Clearing
<1>4. CASE CreateFile(t) /\ Writes(t, k) /\ disk[k] = None
  <2>1. /\ pc[t] = "create" /\ pc'[t] = "open" /\ scan' = scan /\ index' = index
    BY <1>0, <1>4 DEF CreateFile, Goto
  <2>2. ~Registering(k)
    BY <1>0, <1>4 DEF Registering, StoreOK, WriterOK, Fresh, Whole, Writes, Typed, OpOK,
                      After, WritePcs
  <2>3. ~Removing(k)
    <3>1. Active(t) /\ k \in Changes(t)
      BY <1>0, <1>4, <2>1, Workers DEF Before
    <3>2. SUFFICES ASSUME NEW u \in Tasks, Removes(u, k) PROVE FALSE
      BY DEF Removing
    <3>3. Active(u) /\ k \in Changes(u) /\ u # t
      BY <1>0, <2>1, <3>2, Workers DEF Removes
    <3>4. Twins(u, t, k)
      BY <1>0, <3>1, <3>3 DEF Shared
    <3>5. QED
      BY <3>2, <3>4 DEF Removes, Twins
  <2>4. index[k] = None /\ scan.key # k
    <3>1. scan.key = k => scan.file # None
      BY <1>0, Constants DEF Typed, StoreTypes
    <3>2. QED
      BY <1>4, <2>2, <2>3, <3>1 DEF TruthOK, EntryOK, ReadOK, Describes
  <2>5. Writing(k)'
    BY <1>0, <1>4, <2>1 DEF Writing, Writes, Before
  <2>6. QED
    BY <2>1, <2>4, <2>5 DEF TruthOK, EntryOK, ReadOK, CompleteOK
<1>5. CASE CloseWritable(t) /\ Writes(t, k)
  <2>1. pc'[t] = "stat"
    BY <1>0, <1>5 DEF CloseWritable, Goto
  <2>2. Registering(k)' /\ Writing(k)'
    BY <1>0, <1>5, <2>1 DEF Registering, Writing, Writes, After
  <2>3. QED
    BY <2>2 DEF TruthOK, EntryOK, ReadOK, CompleteOK
<1>6. QED
  BY <1>0, <1>1, <1>2, <1>3, <1>4, <1>5, FileStep

(* When the caches are dropped nothing is known any more. *)
LEMMA InvalidTruth ==
  ASSUME AgreeInv, NEW t \in Tasks, NEW k \in Keys, k \notin mixed', FileMissing(t) \/ ClearEnd(t)
  PROVE  TruthOK(k)'
<1>0. (stage # "scan" => scan = NoScan) /\ None \notin Keys
  BY Constants DEF AgreeInv, AgreeTypes, Typed, OrderInv, LineInv
<1>1. \E folders : InvalidateFolders(folders)
  BY DEF FileMissing, ClearEnd
<1>2. stage' = stage /\ scan' = scan
  <2>1. CASE FileMissing(t)
    BY <2>1, Zenon DEF FileMissing, Fail, lockVars
  <2>2. CASE ClearEnd(t)
    BY <2>2 DEF ClearEnd, lockVars
  <2>3. QED
    BY <2>1, <2>2
<1>3. index' = Nothing /\ ~cachePopulated' /\ stage # "scan"
  BY <1>1 DEF InvalidateFolders
<1>4. QED
  BY <1>0, <1>2, <1>3, NothingKnown DEF Nothing, NoScan, Scanned

LEMMA TaskTruth ==
  ASSUME AgreeInv, NEW t \in Tasks, TaskStep(t), NEW k \in Keys, k \notin mixed, k \notin mixed',
         ~Failing(k)', Clearing \/ TruthOK(k)
  PROVE  Clearing' \/ TruthOK(k)'
<1>0. Typed /\ ~Failing(k) /\ pc \in [Tasks -> PcType]
  BY FailingStays DEF AgreeInv, AgreeTypes, Typed, OrderInv, ScheduleOK
<1>1. CASE FileMissing(t) \/ ClearEnd(t)
  BY <1>1, InvalidTruth
<1>2. CASE Clearing /\ ~ClearEnd(t)
  <2>1. PICK u \in Tasks : pc[u] = "collect"
    BY <1>2 DEF Clearing
  <2>2. CASE u # t
    BY <1>0, <2>1, <2>2, OthersStay DEF Clearing
  <2>3. CASE u = t
    <3>1. \E i \in Keys : ClearRead(t, i) \/ ClearRemove(t, i)
      BY <1>0, <1>2, <2>1, <2>3, StepPlaces
         DEF TaskStep, IndexStep, ControlStep, WritePcs, Populating
    <3>2. pc' = pc
      BY <3>1 DEF ClearRead, ClearRemove
    <3>3. QED
      BY <2>1, <3>2 DEF Clearing
  <2>4. QED
    BY <2>2, <2>3
<1> SUFFICES ASSUME ~FileMissing(t), ~ClearEnd(t), TruthOK(k), ~Clearing' PROVE TruthOK(k)'
  BY <1>1, <1>2
<1>3. CASE disk'[k] # disk[k]
  BY <1>3, FileTruth
<1>4. CASE Populate(t)
  BY <1>0, <1>4, PopulateTruth
<1>5. CASE Ensured(t) \/ Register(t) \/ Unindex(t) \/ Unindexed(t) \/ TouchEnd(t)
  BY <1>5, IndexTruth
<1>6. CASE disk'[k] = disk[k] /\ (WriteStep(t) \/ ControlStep(t))
  <2>2. ~Register(t) /\ ~Unindexed(t)
    BY <1>0, <1>6, StepPlaces DEF ControlStep, WritePcs
  <2>3. CASE IndexStep(t) \/ TouchEnd(t)
    BY <1>4, <1>5, <2>3 DEF IndexStep
  <2>4. CASE UNCHANGED <<index, cachePopulated, scan>> /\ stage' \in {stage, "enter"}
    <3>1. Scanned(k)' => Scanned(k)
      BY <2>4 DEF Scanned
    <3>2. /\ Registering(k) => Registering(k)'
          /\ Writing(k) => Writing(k)'
          /\ Removing(k) => Removing(k)'
          /\ Dropped(k) => Dropped(k)'
      BY <1>0, <2>2, WorkStays
    <3>3. QED
      BY <1>6, <2>4, <3>1, <3>2, TruthStays
  <2>5. QED
    BY <1>0, <2>3, <2>4, IndexStays
<1>7. QED
  BY <1>3, <1>4, <1>5, <1>6 DEF TaskStep, IndexStep

(* A task changes the files of its own keys only. *)
LEMMA OwnFiles ==
  ASSUME Typed, NEW t \in Tasks, TaskStep(t), NEW k \in Keys, disk'[k] # disk[k]
  PROVE  Active(t) /\ k \in Changes(t)
<1>0. OpOK(t) /\ Active(t) /\ disk \in [Keys -> FileType \cup {None}]
  BY OthersStay DEF Typed, StoreTypes
<1>1. CASE Evict(t) \/ Delete(t) \/ Cleanup(t) \/ \E i \in Keys : ClearRemove(t, i)
  <2>1. \/ RemoveEntries(local[t].keys)
        \/ pc[t] \in {"remove", "cleanup"} /\ RemoveEntries({req[t].key})
        \/ pc[t] = "collect" /\ \E i \in Keys : RemoveEntries({i})
    BY <1>1 DEF Evict, Delete, Cleanup, ClearRemove, key
  <2>2. \/ k \in local[t].keys
        \/ pc[t] \in {"remove", "cleanup"} /\ k = req[t].key
        \/ pc[t] = "collect"
    BY <2>1, RemovalTyped
  <2>3. QED
    BY <1>0, <2>2 DEF Changes, Touched, OpOK, WritePcs
<1>2. CASE CreateFile(t) \/ CloseWritable(t)
  <2>1. req[t].op = "write" /\ \E f : disk' = [disk EXCEPT ![req[t].key] = f]
    BY <1>0, <1>2 DEF CreateFile, CloseWritable, key, OpOK, WritePcs
  <2>2. QED
    BY <1>0, <2>1 DEF Changes, Touched
<1>3. QED
  BY <1>1, <1>2, TaskLeavesStore

LEMMA TaskAgree ==
  ASSUME AgreeInv, NEW t \in Tasks, TaskStep(t), NEW k \in Keys, k \notin mixed, k \notin mixed'
  PROVE  AgreeOK(k)'
<1>0. Typed /\ AgreeOK(k)
  BY DEF AgreeInv, AgreeTypes
<1>1. Shared(k)'
  BY <1>0, TaskShared DEF AgreeOK
<1>2. FlushOK(k)'
  <2>1. flush' = flush
    BY <1>0, OthersStay
  <2>2. flush[k].at # "none" => disk'[k] = disk[k]
    BY <1>0, OwnFiles DEF AgreeOK, Shared
  <2>3. QED
    BY <1>0, <2>1, <2>2 DEF AgreeOK, FlushOK
<1>3. ASSUME ~Failing(k)' PROVE StoreOK(k)' /\ (Clearing' \/ TruthOK(k)')
  <2>1. ~Failing(k)
    BY <1>0, <1>3, FailingStays
  <2>2. Clearing \/ TruthOK(k)
    BY <1>0, <2>1 DEF AgreeOK
  <2>3. QED
    BY <1>3, <2>2, TaskStore, TaskTruth
<1>4. QED
  BY <1>1, <1>2, <1>3 DEF AgreeOK

(* A task that has been asked something is not at work on what another     *)
(* changes, unless that writes the same.                                   *)
LEMMA CallAgrees ==
  ASSUME AgreeInv, NEW t \in Tasks, NEW r \in Requests, Begin(t, r) \/ Throttled(t, r),
         NEW k \in Keys, k \notin mixed'
  PROVE  AgreeOK(k)'
<1> USE DEF storeVars, memoryVars, indexVars, accessVars, lockVars, auxVars
<1>0. /\ Typed /\ LocalOK /\ pc \in [Tasks -> PcType] /\ req \in [Tasks -> Requests \cup {None}]
  BY DEF AgreeInv, AgreeTypes, Typed, StoreTypes, OrderInv, ScheduleOK
<1>1. /\ UNCHANGED <<disk, index, cachePopulated, stage, scan, flush>>
      /\ pc[t] = "idle" /\ k \notin mixed
      /\ \A u \in Tasks \ {t} : pc'[u] = pc[u] /\ req'[u] = req[u] /\ local'[u] = local[u]
      /\ req'[t] = r
  BY <1>0 DEF Begin, Throttled, Goto, LocalOK
<1>2. /\ pc'[t] \in {"exists", "remove", "collect", "ensuring", "touching", "unindex", "done"}
      /\ pc'[t] = "unindex" => r.op = "drop"
      /\ pc'[t] = "done" => r.op = "touch"
  <2>1. CASE Begin(t, r)
    <3>1. pc'[t] = FirstStep(r.op) /\ r.op \in Ops
      BY <1>0, <2>1, Constants DEF Begin, Goto
    <3>2. QED
      BY <3>1 DEF FirstStep, Ops
  <2>2. CASE Throttled(t, r)
    BY <1>0, <2>2 DEF Throttled, Goto
  <2>3. QED
    BY <2>1, <2>2
<1>3. AgreeOK(k)
  BY <1>1 DEF AgreeInv
<1>4. Shared(k)'
  <2>1. \A u \in Tasks \ {t} : (Active(u)' <=> Active(u)) /\ Changes(u)' = Changes(u)
    BY <1>1 DEF Active, Changes
  <2>2. ASSUME Active(t)', k \in Changes(t)'
        PROVE  /\ flush[k].at = "none"
               /\ \A u \in Tasks \ {t} : Active(u) /\ k \in Changes(u) =>
                    Twins(t, u, k)' /\ Twins(u, t, k)'
    <3>1. Begin(t, r)
      BY <1>0, <2>2 DEF Throttled, Goto, Active, Terminal
    <3>2. local'[t].keys = IF r.op = "drop" THEN {r.key} ELSE {}
      BY <1>0, <3>1 DEF Begin, LocalOK
    <3>3. k \in Touched(r) /\ (r.op = "write" => r.key = k /\ local'[t].keys = {})
      BY <1>1, <2>2, <3>2 DEF Changes, Touched
    <3>4. k \notin Flushed /\ k \notin ChangedBy(Tasks \ Rivals(r))
      BY <3>1, <3>3 DEF Begin
    <3>5. \A u \in Tasks : Active(u) /\ k \in Changes(u) => u \in Rivals(r)
      BY <3>4 DEF ChangedBy, Changes
    <3>6. QED
      BY <1>1, <3>3, <3>4, <3>5 DEF Flushed, Rivals, Twins, Writes
  <2>3. \A u, v \in Tasks \ {t} : Twins(u, v, k) => Twins(u, v, k)'
    BY <1>1 DEF Twins, Writes
  <2>4. ASSUME NEW u \in Tasks, NEW v \in Tasks, Active(u)', Active(v)', k \in Changes(u)',
               k \in Changes(v)', u # v
        PROVE  Twins(u, v, k)'
    <3>1. CASE u = t \/ v = t
      BY <2>1, <2>2, <2>4, <3>1
    <3>2. CASE u # t /\ v # t
      BY <1>3, <2>1, <2>3, <2>4, <3>2 DEF AgreeOK, Shared
    <3>3. QED
      BY <3>1, <3>2
  <2>5. flush'[k].at # "none" => \A u \in Tasks : Active(u)' => k \notin Changes(u)'
    BY <1>1, <1>3, <2>1, <2>2 DEF AgreeOK, Shared
  <2>6. QED
    BY <2>4, <2>5 DEF Shared
<1>5. FlushOK(k)'
  BY <1>1, <1>3 DEF AgreeOK, FlushOK
<1>6. Failing(k) => Failing(k)'
  BY <1>1 DEF Failing, Writes, Fails
<1>7. StoreOK(k) => StoreOK(k)'
  <2> SUFFICES ASSUME StoreOK(k) PROVE StoreOK(k)'
    OBVIOUS
  <2>1. \A u \in Tasks \ {t} : WriterOK(u, k)' /\ (Removes(u, k)' => disk'[k] = None)
    BY <1>1 DEF StoreOK, WriterOK, Writes, Fresh, Whole, Removes
  <2>2. WriterOK(t, k)' /\ ~Removes(t, k)'
    BY <1>1, <1>2 DEF WriterOK, Writes, Removes, Before, After
  <2>3. QED
    BY <2>1, <2>2 DEF StoreOK
<1>8. (Clearing => Clearing') /\ (TruthOK(k) => TruthOK(k)')
  <2>1. /\ Clearing => Clearing'
        /\ Registering(k) => Registering(k)'
        /\ Removing(k) => Removing(k)'
        /\ Writing(k) => Writing(k)'
        /\ Dropped(k) => Dropped(k)'
    BY <1>1 DEF Clearing, Registering, Removing, Removes, Writing, Writes, Dropped, Before, After
  <2>2. Scanned(k)' <=> Scanned(k)
    BY <1>1 DEF Scanned
  <2>3. QED
    BY <1>1, <2>1, <2>2, TruthStays
<1>9. QED
  BY <1>3, <1>4, <1>5, <1>6, <1>7, <1>8 DEF AgreeOK

LEMMA FlushAgrees ==
  ASSUME AgreeInv, NEW i \in Keys, Flush(i), NEW k \in Keys, k \notin mixed'
  PROVE  AgreeOK(k)'
<1> USE DEF indexVars, lockVars
<1>0. Typed /\ flush \in [Keys -> FlushType] /\ disk \in [Keys -> FileType \cup {None}]
  BY DEF AgreeInv, AgreeTypes, Typed, StoreTypes
<1>1. UNCHANGED <<index, cachePopulated, stage, scan, pc, req, local>> /\ k \notin mixed
  BY DEF Flush, FlushRead, FlushOpen, FlushClose, FlushFails
<1>2. AgreeOK(k)
  BY <1>1 DEF AgreeInv
<1>3. /\ FlushOK(k)' /\ (flush'[k].at # "none" => flush[k].at # "none")
      /\ disk'[k] = disk[k] \/ SameFile(disk[k], disk'[k])
  BY <1>0, <1>2, FlushStep DEF AgreeOK
<1>4. Shared(k)'
  BY <1>1, <1>2, <1>3 DEF AgreeOK, Shared, Active, Changes, Twins, Writes
<1>5. /\ (Failing(k)' <=> Failing(k)) /\ (Clearing' <=> Clearing)
      /\ (Registering(k)' <=> Registering(k)) /\ (Removing(k)' <=> Removing(k))
      /\ (Writing(k)' <=> Writing(k)) /\ (Dropped(k)' <=> Dropped(k))
      /\ (Scanned(k)' <=> Scanned(k))
  BY <1>1 DEF Failing, Fails, Clearing, Registering, Removing, Removes, Writing, Writes,
              Dropped, Scanned
<1>6. CASE disk'[k] = disk[k]
  <2>1. StoreOK(k) => StoreOK(k)'
    BY <1>1, <1>6 DEF StoreOK, WriterOK, Writes, Fresh, Whole, Removes
  <2>2. TruthOK(k) => TruthOK(k)'
    BY <1>1, <1>5, <1>6, TruthStays
  <2>3. QED
    BY <1>2, <1>3, <1>4, <1>5, <2>1, <2>2 DEF AgreeOK
<1>7. CASE disk'[k] # disk[k]
  <2>1. flush[k].at = "write" /\ scan.key # k
    BY <1>0, <1>7 DEF Flush, FlushRead, FlushOpen, FlushClose, FlushFails
  <2>2. \A t \in Tasks : Active(t) => k \notin Changes(t)
    BY <1>2, <2>1 DEF AgreeOK, Shared
  <2>3. \A t \in Tasks : ~(Writes(t, k) /\ pc[t] \in Before \cup After) /\ ~Removes(t, k)
    BY <1>0, <2>2, Workers
  <2>4. ~Registering(k) /\ ~Removing(k) /\ ~Writing(k)
    BY <1>0, <2>3 DEF Registering, Removing, Writing, Writes, Typed, OpOK, After, WritePcs
  <2>5. StoreOK(k)'
    BY <1>1, <2>3 DEF StoreOK, WriterOK, Writes, Removes, After
  <2>6. ASSUME TruthOK(k) PROVE TruthOK(k)'
    <3>1. /\ disk'[k] # None /\ disk[k] # None /\ disk'[k].evictable = disk[k].evictable
          /\ FileSize(disk'[k]) = FileSize(disk[k])
      BY <1>3, <1>7, Constants DEF SameFile, FileSize
    <3>2. EntryOK(k)'
      BY <1>1, <2>4, <2>6, <3>1 DEF TruthOK, EntryOK, Describes
    <3>3. ReadOK(k)'
      BY <1>1, <2>1 DEF ReadOK
    <3>4. CompleteOK(k)'
      BY <1>1, <1>5, <2>6, <3>1 DEF TruthOK, CompleteOK
    <3>5. QED
      BY <3>2, <3>3, <3>4 DEF TruthOK
  <2>7. QED
    BY <1>2, <1>3, <1>4, <1>5, <2>5, <2>6 DEF AgreeOK
<1>8. QED
  BY <1>6, <1>7

LEMMA AsideAgrees ==
  ASSUME AgreeInv, UNCHANGED vars \/ Fire, NEW k \in Keys, k \notin mixed'
  PROVE  AgreeOK(k)'
<1> USE DEF storeVars, indexVars, lockVars
<1>1. /\ UNCHANGED <<disk, index, cachePopulated, stage, scan, pc, req, local>> /\ k \notin mixed
      /\ \/ flush'[k] = flush[k]
         \/ k \in Pending /\ flush'[k].at = "read" /\ k \notin ChangedBy(Tasks)
  BY DEF vars, Fire
<1>2. AgreeOK(k)
  BY <1>1 DEF AgreeInv
<1>3. Shared(k)'
  BY <1>1, <1>2 DEF AgreeOK, Shared, Active, Changes, ChangedBy, Twins, Writes
<1>4. FlushOK(k)'
  BY <1>1, <1>2 DEF AgreeOK, FlushOK
<1>5. /\ (Failing(k)' <=> Failing(k)) /\ (Clearing' <=> Clearing)
      /\ (Registering(k)' <=> Registering(k)) /\ (Removing(k)' <=> Removing(k))
      /\ (Writing(k)' <=> Writing(k)) /\ (Dropped(k)' <=> Dropped(k))
      /\ (Scanned(k)' <=> Scanned(k))
  BY <1>1 DEF Failing, Fails, Clearing, Registering, Removing, Removes, Writing, Writes,
              Dropped, Scanned
<1>6. StoreOK(k) => StoreOK(k)'
  BY <1>1 DEF StoreOK, WriterOK, Writes, Fresh, Whole, Removes
<1>7. TruthOK(k) => TruthOK(k)'
  BY <1>1, <1>5, TruthStays
<1>8. QED
  BY <1>2, <1>3, <1>4, <1>5, <1>6, <1>7 DEF AgreeOK

LEMMA RestartAgrees ==
  ASSUME Restart, NEW k \in Keys PROVE AgreeOK(k)'
<1>1. \A t \in Tasks : ~Active(t)' /\ pc'[t] \notin Before \cup After \cup {"unindex", "unindexing"}
  BY DEF Restart, Active, Terminal, Before, After
<1>2. /\ index'[k] = None /\ scan'.key # k /\ flush'[k].at = "none"
      /\ ~cachePopulated' /\ ~Scanned(k)'
  BY Constants DEF Restart, Nothing, NoScan, NoFlushes, NoFlush, Scanned
<1>3. StoreOK(k)'
  BY <1>1 DEF StoreOK, WriterOK, Removes, After
<1>4. TruthOK(k)'
  BY <1>2, NothingKnown
<1>5. QED
  BY <1>1, <1>2, <1>3, <1>4 DEF AgreeOK, Shared, FlushOK

LEMMA NextTasksOK ==
  ASSUME AgreeTypes, [Next]_vars PROVE TasksOK'
<1> USE DEF storeVars, lockVars
<1>1. CASE UNCHANGED vars \/ Fire \/ \E k \in Keys : Flush(k)
  <2>1. UNCHANGED <<writables, pc, req, local>>
    BY <1>1 DEF vars, Fire, Flush
  <2>2. QED
    BY <2>1 DEF AgreeTypes, TasksOK, Fails
<1>2. CASE Restart
  BY <1>2 DEF Restart, TasksOK, Active, Terminal
<1>3. ASSUME NEW t \in Tasks, NEW r \in Requests, Begin(t, r) \/ Throttled(t, r) PROVE TasksOK'
  <2>0. /\ LocalOK /\ pc \in [Tasks -> PcType] /\ req \in [Tasks -> Requests \cup {None}]
    BY DEF AgreeTypes, Typed, StoreTypes, OrderInv, ScheduleOK
  <2>1. /\ writables' = writables /\ pc[t] = "idle" /\ req'[t] = r
        /\ \A u \in Tasks \ {t} : pc'[u] = pc[u] /\ req'[u] = req[u] /\ local'[u] = local[u]
    BY <1>3, <2>0 DEF Begin, Throttled, Goto, LocalOK
  <2>2. t \notin writables
    BY <2>1 DEF AgreeTypes, TasksOK, Fails
  <2>3. pc'[t] \in {"unindex", "unindexing"} => local'[t].keys = {r.key} \/ r.op # "drop"
    <3>1. CASE Begin(t, r)
      BY <2>0, <3>1 DEF Begin, LocalOK
    <3>2. CASE Throttled(t, r)
      BY <2>0, <3>2 DEF Throttled, Goto
    <3>3. QED
      BY <1>3, <3>1, <3>2
  <2>4. ASSUME NEW u \in Tasks \ {t} PROVE
          /\ u \in writables' => req'[u].op = "write" /\ (pc'[u] = "stream" \/ Fails(u)')
          /\ pc'[u] \in {"unindex", "unindexing"} /\ req'[u].op = "drop" =>
               local'[u].keys = {req'[u].key}
    BY <2>1 DEF AgreeTypes, TasksOK, Fails
  <2>5. QED
    BY <2>1, <2>2, <2>3, <2>4 DEF TasksOK
<1>4. ASSUME NEW t \in Tasks, TaskStep(t) PROVE TasksOK'
  BY <1>4, TaskTasksOK
<1>5. QED
  BY <1>1, <1>2, <1>3, <1>4 DEF Next

LEMMA NextAgree == AgreeInv /\ [Next]_vars => AgreeInv'
<1> SUFFICES ASSUME AgreeInv, [Next]_vars PROVE AgreeInv'
  OBVIOUS
<1>1. Typed /\ RestTypes /\ AgreeTypes'
  BY NextTyped, NextRest, NextTasksOK DEF AgreeInv, AgreeTypes
<1>2. ASSUME NEW k \in Keys, k \notin mixed' PROVE AgreeOK(k)'
  <2>1. CASE Restart
    BY <2>1, RestartAgrees
  <2>2. CASE ~Restart
    <3>1. k \notin mixed
      BY <1>1, <1>2, <2>2, MixedGrows
    <3>2. QED
      BY <1>2, <2>2, <3>1, TaskAgree, CallAgrees, FlushAgrees, AsideAgrees DEF Next
  <2>3. QED
    BY <2>1, <2>2
<1>3. QED
  BY <1>1, <1>2 DEF AgreeInv
------------------------------------------------------------------------------
(* Once all operations are over, the populated index describes the store:  *)
(* an entry for each file, with its size and whether it may be evicted, and*)
(* none for a file that is gone; but where a write failed or operations    *)
(* overlapped, and an error while serving may leave a file without entry.  *)
THEOREM IndexIsRight == Spec => []IndexAgrees
<1>1. AgreeInv => IndexAgrees
  <2> SUFFICES ASSUME AgreeInv, Quiet, cachePopulated, NEW k \in Keys \ mixed, ~FailedOn(k)
               PROVE  /\ disk[k] # None => index[k] # None \/ Dropped(k)
                      /\ index[k] # None => /\ disk[k] # None
                                            /\ index[k].size = FileSize(disk[k])
                                            /\ index[k].evictable = disk[k].evictable
    BY DEF IndexAgrees
  <2>1. \A t \in Tasks : pc[t] \in Terminal \cup {"idle"}
    BY DEF Quiet, Active
  <2>2. ~Clearing /\ ~Registering(k) /\ ~Removing(k) /\ ~Writing(k)
    BY <2>1 DEF Clearing, Registering, Removing, Removes, Writing, Terminal, Before, After
  <2>3. ~Failing(k)
    BY <2>1 DEF Failing, Fails, Writes, FailedOn, Terminal
  <2>4. TruthOK(k)
    BY <2>2, <2>3 DEF AgreeInv, AgreeOK
  <2>5. QED
    BY <2>2, <2>4 DEF TruthOK, EntryOK, CompleteOK, Describes
<1>2. QED
  BY <1>1, InitAgree, NextAgree, PTL DEF Spec
------------------------------------------------------------------------------
(* The room for a write.  The bytes of each file, and what the index has   *)
(* them down for.                                                          *)
Load(d) == [k \in Keys |-> IF d[k] = None THEN 0 ELSE FileSize(d[k])]
Weights(e) == [k \in Keys |-> IF e[k] = None THEN 0 ELSE e[k].size]

LEMMA LoadTypes ==
  /\ \A d \in [Keys -> FileType \cup {None}] : Load(d) \in [Keys -> Nat]
  /\ \A e \in [Keys -> EntryType \cup {None}] : Weights(e) \in [Keys -> Nat]
BY Constants DEF Load, Weights, EntryType

LEMMA UsageIsLoad ==
  ASSUME NEW d \in [Keys -> FileType \cup {None}]
  PROVE  MapThenSumSet(LAMBDA k : FileSize(d[k]), {k \in Keys : d[k] # None}) = Total(Load(d), Keys)
<1> DEFINE S == {k \in Keys : d[k] # None}
           f == [k \in S |-> FileSize(d[k])]
           load == Load(d)
<1>1. IsFiniteSet(Keys) /\ S \in SUBSET Keys /\ IsFiniteSet(S) /\ IsFiniteSet(Keys \ S)
  BY CacheAssumption, FS_Subset
<1>2. MapThenSumSet(LAMBDA k : FileSize(d[k]), S) = Total(f, S)
  BY <1>1, UsageIsTotal
<1>3. load \in [Keys -> Nat] /\ (\A k \in S : load[k] = f[k]) /\ \A k \in Keys \ S : load[k] = 0
  BY LoadTypes DEF Load
<1> HIDE DEF S, f, load
<1>4. Total(f, S) = Total(load, S) /\ Total(load, Keys \ S) = 0
  BY <1>1, <1>3, TotalSame, TotalZero
<1>5. Total(load, Keys) = Total(load, S) + Total(load, Keys \ S) /\ Total(load, S) \in Nat
  <2>1. (\A k \in Keys : load[k] \in Int) /\ \A k \in S : load[k] \in Nat
    BY <1>1, <1>3
  <2>2. Total(load, S) \in Nat
    BY <1>1, <2>1, TotalType
  <2>3. QED
    BY <1>1, <2>1, <2>2, TotalParts
<1>6. QED
  BY <1>2, <1>4, <1>5 DEF S, load

LEMMA SizeIsWeight ==
  ASSUME NEW e \in [Keys -> EntryType \cup {None}], NEW S \in SUBSET Keys,
         \A k \in S : e[k] # None
  PROVE  SizeOf(e, S) = Total(Weights(e), S)
<1> DEFINE f == [k \in S |-> e[k].size]
           w == Weights(e)
<1>1. IsFiniteSet(S)
  BY CacheAssumption, FS_Subset
<1>2. SizeOf(e, S) = Total(f, S)
  BY <1>1, SizesAreTotal DEF Sizes, SizeOf
<1>3. \A k \in S : f[k] = w[k]
  BY DEF Weights
<1> HIDE DEF f, w
<1>4. QED
  BY <1>1, <1>2, <1>3, TotalSame DEF w

LEMMA TotalIsWeight ==
  ASSUME index \in [Keys -> EntryType \cup {None}]
  PROVE  TotalSize = Total(Weights(index), Keys)
<1> DEFINE w == Weights(index)
<1>1. IsFiniteSet(Keys) /\ Indexed \in SUBSET Keys /\ IsFiniteSet(Indexed)
      /\ IsFiniteSet(Keys \ Indexed)
  BY CacheAssumption, FS_Subset DEF Indexed
<1>2. w \in [Keys -> Nat] /\ \A k \in Keys \ Indexed : w[k] = 0
  BY LoadTypes DEF Weights, Indexed
<1>3. TotalSize = Total(w, Indexed)
  BY <1>1, SizeIsWeight DEF TotalSize, Indexed
<1> HIDE DEF w
<1>4. Total(w, Keys) = Total(w, Indexed) + Total(w, Keys \ Indexed)
      /\ Total(w, Indexed) \in Nat /\ Total(w, Keys \ Indexed) = 0
  <2>1. (\A k \in Keys : w[k] \in Int) /\ \A k \in Indexed : w[k] \in Nat
    BY <1>1, <1>2
  <2>2. Total(w, Indexed) \in Nat
    BY <1>1, <2>1, TotalType
  <2>3. Total(w, Keys \ Indexed) = 0
    BY <1>1, <1>2, TotalZero
  <2>4. QED
    BY <1>1, <2>1, <2>2, <2>3, TotalParts
<1>5. QED
  BY <1>3, <1>4 DEF w

LEMMA LimitIsShare ==
  ASSUME NEW usage \in Nat
  PROVE  getCacheLimit(usage) \in Nat /\ getCacheLimit(usage) <= CacheShare
BY SpaceAssumption DEF getCacheLimit, Larger, Smaller

(* What is freed when the decision on the room is made leaves enough of it.*)
LEMMA RoomIsFreed ==
  ASSUME NEW t \in Tasks, index \in [Keys -> EntryType \cup {None}],
         local[t].usage \in Nat, req[t].body \in Nat, req[t].key \in Keys,
         NEW own, own \in {{}, {req[t].key}}, NEW S \in SUBSET (Evictable \ own),
         SizeOf(index, S) >= NeedToFree(req[t].body, TotalSize, local[t].usage)
                               - SizeOf(index, Evictable \cap own)
  PROVE  Total(Weights(index), Keys \ ({req[t].key} \cup S)) + req[t].body <= CacheShare
<1> DEFINE w == Weights(index)
           k == req[t].key
           body == req[t].body
           limit == getCacheLimit(local[t].usage)
           kept == Evictable \cap own
           rest == Keys \ S
           left == Keys \ ({k} \cup S)
<1>1. /\ w \in [Keys -> Nat] /\ S \in SUBSET Keys /\ kept \in SUBSET Keys
      /\ \A i \in S \cup kept : index[i] # None
  BY LoadTypes DEF Evictable, Indexed
<1>2. /\ SizeOf(index, S) = Total(w, S) /\ SizeOf(index, kept) = Total(w, kept)
      /\ TotalSize = Total(w, Keys)
  BY <1>1, SizeIsWeight, TotalIsWeight
<1>3. /\ IsFiniteSet(Keys) /\ IsFiniteSet(S) /\ IsFiniteSet(kept) /\ IsFiniteSet(rest)
      /\ IsFiniteSet(left) /\ left \in SUBSET rest
  BY <1>1, CacheAssumption, FS_Subset
<1>4. limit \in Nat /\ limit <= CacheShare /\ CacheShare \in Nat /\ Quota \in Nat
  BY LimitIsShare, SpaceAssumption
<1>5. k \in rest \/ k \in S
  OBVIOUS
<1>6. kept = {} \/ (kept = {k} /\ k \in rest)
  OBVIOUS
<1>7. left = rest \ {k}
  OBVIOUS
<1>8. /\ NeedToFree(body, TotalSize, local[t].usage) >= TotalSize + body - limit
      /\ NeedToFree(body, TotalSize, local[t].usage) \in Int
  <2>1. Total(w, Keys) \in Nat
    BY <1>1, <1>3, TotalType
  <2>2. QED
    BY <1>2, <1>4, <2>1 DEF NeedToFree, Larger
<1> DEFINE need == NeedToFree(body, TotalSize, local[t].usage)
<1>9. Total(w, S) >= need - Total(w, kept)
  BY <1>2
<1> HIDE DEF w, limit, kept, rest, left, need
<1>10. Total(w, Keys) = Total(w, S) + Total(w, rest)
  BY <1>1, <1>3, TotalParts DEF rest
<1>11. /\ Total(w, S) \in Nat /\ Total(w, rest) \in Nat /\ Total(w, left) \in Nat
       /\ Total(w, kept) \in Nat
  <2>1. rest \in SUBSET Keys /\ left \in SUBSET Keys
    BY DEF rest, left
  <2>2. QED
    BY <1>1, <1>3, <2>1, TotalType
<1>12. need >= Total(w, Keys) + body - limit /\ need \in Int
  BY <1>2, <1>8 DEF need
<1>13. Total(w, rest) + body <= limit + Total(w, kept)
  BY <1>4, <1>9, <1>10, <1>11, <1>12
<1>14. CASE kept = {}
  <2>1. Total(w, kept) = 0
    BY <1>14, TotalEmpty
  <2>2. Total(w, left) <= Total(w, rest)
    <3>1. \A i \in rest : w[i] \in Nat
      BY <1>1 DEF rest
    <3>2. QED
      BY <1>3, <3>1, TotalMonotone
  <2>3. Total(w, left) + body <= CacheShare
    BY <1>4, <1>11, <1>13, <2>1, <2>2
  <2>4. QED
    BY <2>3 DEF left, w
<1>15. CASE kept = {k} /\ k \in rest
  <2>1. \A i \in rest : w[i] \in Int
    BY <1>1 DEF rest
  <2>2. Total(w, rest) = w[k] + Total(w, left)
    BY <1>3, <1>7, <1>15, <2>1, TotalRemove
  <2>3. Total(w, kept) = w[k] + Total(w, {}) /\ w[k] \in Nat
    <3>1. kept \ {k} = {} /\ k \in kept /\ \A i \in kept : w[i] \in Int
      BY <1>1, <1>15
    <3>2. Total(w, kept) = w[k] + Total(w, kept \ {k})
      BY <1>3, <3>1, TotalRemove
    <3>3. QED
      BY <1>1, <3>1, <3>2
  <2>4. Total(w, left) + body <= CacheShare
    BY <1>4, <1>11, <1>13, <2>2, <2>3, TotalEmpty
  <2>5. QED
    BY <2>4 DEF left, w
<1>16. QED
  BY <1>6, <1>14, <1>15

(* The files that a write does not replace, once what it evicts is gone.   *)
Others(t) == Keys \ ({req[t].key} \cup (IF pc[t] = "evict" THEN local[t].keys ELSE {}))

Alone(t) == Active(t) /\ req[t].op = "write" /\ OnlyWrite(t)

(* The decision on the room is made on caches that are populated.          *)
ReadyOK(t) == Holds(t, "entries") /\ stage = "ready" => cachePopulated

(* Once it is made the room is there.                                      *)
Roomy(t) == \/ pc[t] \in {"create", "open", "stream"}
            \/ pc[t] \in {"evict", "unindex", "unindexing"} /\ local[t].failed = "no"
RoomOK(t) == req[t].known /\ Roomy(t) => Total(Load(disk), Others(t)) + req[t].body <= CacheShare

IdleOK == \A t \in Tasks : pc[t] = "idle" <=> req[t] = None
RoomTypes == UsageOK /\ IdleOK
RoomInv == /\ AgreeInv /\ RoomTypes
           /\ mixed = {} => \A t \in Tasks : Alone(t) => ReadyOK(t) /\ RoomOK(t)

LEMMA InitRoom == Init => RoomInv
<1> SUFFICES ASSUME Init PROVE RoomInv
  OBVIOUS
<1>1. \A t \in Tasks : /\ ~Active(t) /\ pc[t] = "idle" /\ req[t] = None
                         /\ local[t].usage = 0
  BY DEF Init, Active, NoLocal
<1>2. QED
  BY <1>1, InitAgree DEF RoomInv, RoomTypes, UsageOK, IdleOK, Alone

LEMMA TaskIsBusy ==
  ASSUME Typed, NEW t \in Tasks, TaskStep(t) PROVE pc'[t] # "idle"
<1>1. OneOfFour(t) /\ Active(t) /\ pc \in [Tasks -> PcType]
  BY TaskIsOne, OthersStay DEF Typed, OrderInv, ScheduleOK
<1>2. CASE Populate(t) /\ Scans
  BY <1>1, <1>2 DEF Scans, Active
<1>3. CASE Joins(t)
  BY <1>1, <1>3, WaitingTypes DEF Joins, Goto
<1>4. CASE Leaves(t) \/ Stays(t)
  BY <1>1, <1>4 DEF Leaves, Stays, Goto, Elsewhere
<1>5. QED
  BY <1>1, <1>2, <1>3, <1>4 DEF OneOfFour

(* A task that was not asked anything yet does not begin a second time.    *)
LEMMA NextRoomTypes ==
  ASSUME Typed, RoomTypes, [Next]_vars PROVE RoomTypes'
<1>1. UsageOK'
  BY NextUsage DEF RoomTypes
<1>2. ASSUME NEW t \in Tasks PROVE pc'[t] = "idle" <=> req'[t] = None
  <2>0. /\ pc \in [Tasks -> PcType] /\ (pc[t] = "idle" <=> req[t] = None)
        /\ req \in [Tasks -> Requests \cup {None}] /\ None \notin Requests
    BY CacheAssumption DEF RoomTypes, IdleOK, Typed, StoreTypes, OrderInv, ScheduleOK
  <2>1. CASE UNCHANGED vars \/ Fire \/ \E k \in Keys : Flush(k)
    BY <2>0, <2>1 DEF vars, Fire, Flush
  <2>2. CASE Restart
    BY <2>0, <2>2 DEF Restart, Active
  <2>3. ASSUME NEW u \in Tasks, NEW r \in Requests, Begin(u, r) \/ Throttled(u, r)
        PROVE  pc'[t] = "idle" <=> req'[t] = None
    <3>1. CASE u = t
      <4>1. FirstStep(r.op) # "idle"
        BY Constants DEF FirstStep, Ops
      <4>2. Goto(u, FirstStep(r.op)) \/ Goto(u, "done")
        BY <2>3 DEF Begin, Throttled
      <4>3. pc'[t] # "idle"
        BY <2>0, <3>1, <4>1, <4>2 DEF Goto
      <4>4. req'[t] = r
        BY <2>0, <2>3, <3>1 DEF Begin, Throttled
      <4>5. QED
        BY <2>0, <4>3, <4>4
    <3>2. CASE u # t
      <4>1. pc'[t] = pc[t] /\ req'[t] = req[t]
        BY <2>0, <2>3, <3>2 DEF Begin, Throttled, Goto
      <4>2. QED
        BY <2>0, <4>1
    <3>3. QED
      BY <3>1, <3>2
  <2>4. ASSUME NEW u \in Tasks, TaskStep(u) PROVE pc'[t] = "idle" <=> req'[t] = None
    <3>1. CASE u = t
      <4>1. pc'[t] # "idle" /\ pc[t] # "idle" /\ req' = req
        BY <2>4, <3>1, TaskIsBusy, OthersStay DEF Active
      <4>2. QED
        BY <2>0, <4>1
    <3>2. CASE u # t
      BY <2>0, <2>4, <3>2, OthersStay
    <3>3. QED
      BY <3>1, <3>2
  <2>5. QED
    BY <2>1, <2>2, <2>3, <2>4 DEF Next
<1>3. QED
  BY <1>1, <1>2 DEF RoomTypes, IdleOK

(* What the others are at while there is one writer.                       *)
LEMMA AloneThen ==
  ASSUME AgreeInv, mixed = {}, NEW t \in Tasks, Alone(t), NEW u \in Tasks \ {t}
  PROVE  pc[u] \notin WritePcs \cup {"collect"}
<1>0. Typed /\ Active(t) /\ req[t].op = "write" /\ req[t].key \in Keys /\ OpOK(u)
  BY ActiveTypes DEF AgreeInv, AgreeTypes, Alone, Typed
<1>1. Active(u) => req[u].op # "write"
  BY <1>0, CacheAssumption DEF Alone, OnlyWrite, OpOK
<1>2. pc[u] \in WritePcs \cup {"collect"} => Active(u)
  BY DEF WritePcs, Active, Terminal
<1>3. ASSUME pc[u] = "collect" PROVE FALSE
  <2>1. Shared(req[t].key)
    BY <1>0 DEF AgreeInv, AgreeOK
  <2>2. Active(u) /\ req[t].key \in Changes(t) /\ req[t].key \in Changes(u)
    BY <1>0, <1>2, <1>3 DEF Changes, Touched, OpOK
  <2>3. Twins(t, u, req[t].key)
    BY <1>0, <2>1, <2>2 DEF Shared
  <2>4. QED
    BY <1>1, <2>2, <2>3 DEF Twins, Writes
<1>4. QED
  BY <1>0, <1>1, <1>2, <1>3 DEF Writes, OpOK

(* The index accounts for every file that the writer does not replace.     *)
LEMMA LoadIsKnown ==
  ASSUME AgreeInv, RoomTypes, mixed = {}, cachePopulated,
         NEW t \in Tasks, Alone(t), pc[t] = "entries", NEW k \in Keys, k # req[t].key
  PROVE  Load(disk)[k] <= Weights(index)[k]
<1>0. /\ AgreeOK(k) /\ disk \in [Keys -> FileType \cup {None}]
      /\ index \in [Keys -> EntryType \cup {None}]
  BY DEF AgreeInv, AgreeTypes, Typed, StoreTypes
<1>1. \A u \in Tasks \ {t} : pc[u] # "idle" => req[u].op \notin {"write", "drop"}
  BY DEF Alone, OnlyWrite, RoomTypes, IdleOK
<1>2. \A u \in Tasks \ {t} : pc[u] \notin WritePcs \cup {"collect"}
  BY AloneThen
<1>3. ~Failing(k) /\ ~Writing(k)
  BY <1>1 DEF Failing, Fails, Writing, Writes, Before, After
<1>4. ~Clearing /\ ~Registering(k)
  BY <1>2 DEF Clearing, Registering, After, WritePcs
<1>5. ~Dropped(k)
  BY <1>1 DEF Dropped
<1>6. TruthOK(k) /\ (Removing(k) => disk[k] = None)
  BY <1>0, <1>3, <1>4 DEF AgreeOK, StoreOK, Removing
<1>7. CASE disk[k] = None
  BY <1>0, <1>7, LoadTypes DEF Load
<1>8. CASE disk[k] # None
  <2>1. index[k] # None /\ index[k].size = FileSize(disk[k])
    BY <1>3, <1>4, <1>5, <1>6, <1>8 DEF TruthOK, EntryOK, CompleteOK, Describes
  <2>2. FileSize(disk[k]) \in Nat
    BY <1>0, <1>8, Constants
  <2>3. QED
    BY <1>8, <2>1, <2>2 DEF Load, Weights
<1>9. QED
  BY <1>7, <1>8

(* What the decision comes to: no room, or room beside the files S.        *)
LEMMA SpaceFound ==
  ASSUME NEW t \in Tasks, DecideSpace(t), index \in [Keys -> EntryType \cup {None}],
         local[t].usage \in Nat, req[t].body \in Nat
  PROVE  \/ Goto(t, "failed")
         \/ \E own \in {{}, {req[t].key}}, S \in SUBSET Evictable :
              /\ S \cap own = {}
              /\ SizeOf(index, S) >= NeedToFree(req[t].body, TotalSize, local[t].usage)
                                       - SizeOf(index, Evictable \cap own)
              /\ \/ Goto(t, "create") /\ S = {}
                 \/ Goto(t, "evict") /\ local' = [local EXCEPT ![t] = Evicting(S, "no")]
<1> DEFINE own == IF req[t].spare THEN {key(t)} ELSE {}
           others == Evictable \ own
           need == NeedToFree(req[t].body, TotalSize, local[t].usage)
           kept == SizeOf(index, Evictable \cap own)
           needOther == Larger(0, need - kept)
           Sets == computeEvictionSet(index, others, needOther)
           Few == needOther = 0
           Some == needOther \in 1..SizeOf(index, others)
           Enough(S) == SizeOf(index, S) >= need - kept
<1>1. \/ Goto(t, "failed")
      \/ Few /\ Goto(t, "create")
      \/ /\ Some /\ Goto(t, "evict")
         /\ \E S \in Sets : local' = [local EXCEPT ![t] = Evicting(S, "no")]
  BY Zenon DEF DecideSpace
<1>2. own \in {{}, {req[t].key}} /\ others \in SUBSET Evictable /\ others \cap own = {}
  BY DEF key
<1>3. \A S \in SUBSET Evictable : SizeOf(index, S) \in Nat
  <2> TAKE S \in SUBSET Evictable
  <2>1. S \in SUBSET Keys /\ \A k \in S : index[k] # None
    BY DEF Evictable, Indexed
  <2>2. IsFiniteSet(S) /\ \A k \in S : Weights(index)[k] \in Nat
    BY <2>1, LoadTypes, CacheAssumption, FS_Subset
  <2>3. QED
    BY <2>1, <2>2, SizeIsWeight, TotalType
<1>4. need \in Int /\ kept \in Nat
  <2>1. IsFiniteSet(Keys) /\ \A k \in Keys : Weights(index)[k] \in Nat
    BY LoadTypes, CacheAssumption
  <2>2. TotalSize \in Nat
    BY <2>1, TotalIsWeight, TotalType
  <2>3. getCacheLimit(local[t].usage) \in Nat /\ Quota \in Nat
    BY LimitIsShare, SpaceAssumption
  <2>4. need \in Int
    BY <2>2, <2>3 DEF NeedToFree, Larger
  <2>5. kept \in Nat
    BY <1>3
  <2>6. QED
    BY <2>4, <2>5
<1>5. SizeOf(index, {}) = 0
  BY SizeIsWeight, TotalEmpty
<1>6. \A S \in Sets : S \in SUBSET others /\ (SizeOf(index, S) >= needOther \/ S = others)
  BY DEF computeEvictionSet
<1> HIDE DEF Sets, others, kept, need, own
<1>7. needOther \in Nat /\ needOther >= need - kept
  BY <1>4 DEF Larger
<1>8. CASE Few /\ Goto(t, "create")
  <2>1. SizeOf(index, {}) >= need - kept
    BY <1>4, <1>5, <1>7, <1>8
  <2>2. {} \in SUBSET Evictable /\ {} \cap own = {}
    OBVIOUS
  <2>3. QED
    BY <1>2, <1>8, <2>1, <2>2 DEF kept, need
<1>9. ASSUME Some, Goto(t, "evict"), NEW S \in Sets,
             local' = [local EXCEPT ![t] = Evicting(S, "no")]
      PROVE  \E X \in SUBSET Evictable :
               /\ X \cap own = {} /\ Enough(X)
               /\ local' = [local EXCEPT ![t] = Evicting(X, "no")]
  <2>1. S \in SUBSET Evictable /\ S \cap own = {} /\ SizeOf(index, S) \in Nat
    BY <1>2, <1>3, <1>6
  <2>2. SizeOf(index, others) \in Nat
    BY <1>2, <1>3
  <2>3. SizeOf(index, S) >= needOther
    BY <1>6, <1>7, <1>9, <2>1, <2>2
  <2>4. Enough(S)
    BY <1>4, <1>7, <2>1, <2>3
  <2>5. QED
    BY <1>9, <2>1, <2>4
<1>10. QED
  <2>1. CASE /\ Some /\ Goto(t, "evict")
             /\ \E S \in Sets : local' = [local EXCEPT ![t] = Evicting(S, "no")]
    <3>1. \E X \in SUBSET Evictable :
            /\ X \cap own = {} /\ Enough(X)
            /\ local' = [local EXCEPT ![t] = Evicting(X, "no")]
      BY <1>9, <2>1
    <3>2. QED
      BY <1>2, <2>1, <3>1 DEF kept, need
  <2>2. QED
    BY <1>1, <1>8, <2>1

LEMMA DecisionMakesRoom ==
  ASSUME RoomInv, mixed = {}, NEW t \in Tasks, Alone(t), DecideSpace(t)
  PROVE  RoomOK(t)'
<1> DEFINE k == req[t].key
           body == req[t].body
           W == Weights(index)
<1>0. /\ AgreeInv /\ RoomTypes /\ ReadyOK(t) /\ LocalOK /\ pc \in [Tasks -> PcType]
      /\ disk \in [Keys -> FileType \cup {None}] /\ index \in [Keys -> EntryType \cup {None}]
      /\ Active(t) /\ k \in Keys /\ body \in Nat /\ local[t].usage \in Nat
  <2>1. Typed /\ Active(t)
    BY DEF RoomInv, AgreeInv, AgreeTypes, Alone
  <2>2. QED
    BY <2>1, ActiveTypes DEF RoomInv, RoomTypes, UsageOK, Typed, StoreTypes, OrderInv, ScheduleOK
<1>1. Holds(t, "entries") /\ stage = "ready" /\ UNCHANGED <<disk, req>>
  BY Zenon DEF DecideSpace, storeVars
<1>2. pc[t] = "entries" /\ cachePopulated
  BY <1>0, <1>1 DEF ReadyOK, Holds
<1>3. \A i \in Keys \ {k} : Load(disk)[i] <= W[i]
  BY <1>0, <1>2, LoadIsKnown
<1>4. CASE Goto(t, "failed")
  BY <1>0, <1>4 DEF Goto, RoomOK, Roomy
<1>5. ASSUME NEW own \in {{}, {k}}, NEW S \in SUBSET Evictable, S \cap own = {},
             SizeOf(index, S) >= NeedToFree(body, TotalSize, local[t].usage)
                                   - SizeOf(index, Evictable \cap own),
             \/ Goto(t, "create") /\ S = {}
             \/ Goto(t, "evict") /\ local' = [local EXCEPT ![t] = Evicting(S, "no")]
      PROVE  RoomOK(t)'
  <2> DEFINE left == Keys \ ({k} \cup S)
  <2>1. S \in SUBSET (Evictable \ own)
    BY <1>5
  <2>2. Total(W, left) + body <= CacheShare
    BY <1>0, <1>5, <2>1, RoomIsFreed
  <2>3. /\ IsFiniteSet(left)
        /\ \A i \in left : Load(disk)[i] \in Nat /\ W[i] \in Nat /\ Load(disk)[i] <= W[i]
    BY <1>0, <1>3, LoadTypes, CacheAssumption, FS_Subset
  <2>4. Others(t)' = left
    <3>1. CASE Goto(t, "create") /\ S = {}
      BY <1>0, <1>1, <3>1 DEF Goto, Others
    <3>2. CASE Goto(t, "evict") /\ local' = [local EXCEPT ![t] = Evicting(S, "no")]
      <4>1. pc'[t] = "evict" /\ local'[t] = Evicting(S, "no")
        BY <1>0, <3>2 DEF Goto, LocalOK
      <4>2. QED
        BY <1>1, <4>1 DEF Others, Evicting
    <3>3. QED
      BY <1>5, <3>1, <3>2
  <2> HIDE DEF left
  <2>5. Total(Load(disk), left) <= Total(W, left)
    <3> DEFINE f == Load(disk)
    <3> HIDE DEF f, W
    <3>1. \A i \in left : f[i] \in Nat /\ W[i] \in Nat /\ f[i] <= W[i]
      BY <2>3 DEF f
    <3>2. Total(f, left) <= Total(W, left)
      BY <2>3, <3>1, TotalAtMost
    <3>3. QED
      BY <3>2 DEF f
  <2>6. Total(Load(disk), left) \in Nat /\ Total(W, left) \in Nat
    <3> DEFINE f == Load(disk)
    <3> HIDE DEF f, W
    <3>1. (\A i \in left : f[i] \in Nat) /\ \A i \in left : W[i] \in Nat
      BY <2>3 DEF f
    <3>2. Total(f, left) \in Nat /\ Total(W, left) \in Nat
      BY <2>3, <3>1, TotalType
    <3>3. QED
      BY <3>2 DEF f
  <2>7. Total(Load(disk), left) + body <= CacheShare
    BY <1>0, <2>2, <2>5, <2>6, SpaceAssumption
  <2>8. QED
    BY <1>1, <2>4, <2>7 DEF RoomOK, Load
<1>6. QED
  BY <1>0, <1>4, <1>5, SpaceFound

(* A write that had its room keeps it while the files take no more.        *)
LEMMA RoomStays ==
  ASSUME NEW t \in Tasks, Roomy(t), RoomOK(t), req' = req,
         disk \in [Keys -> FileType \cup {None}], disk' \in [Keys -> FileType \cup {None}],
         req[t].body \in Nat,
         \A k \in Others(t)' : Load(disk')[k] <= IF k \in Others(t) THEN Load(disk)[k] ELSE 0
  PROVE  RoomOK(t)'
<1> DEFINE f == Load(disk)
           g == Load(disk')
           S == Others(t)
           T == Others(t)'
<1>1. f \in [Keys -> Nat] /\ g \in [Keys -> Nat]
  BY LoadTypes
<1>2. S \in SUBSET Keys /\ T \in SUBSET Keys /\ IsFiniteSet(S) /\ IsFiniteSet(T)
      /\ IsFiniteSet(S \cap T) /\ IsFiniteSet(T \ S)
  <2>1. S \in SUBSET Keys /\ T \in SUBSET Keys
    BY DEF Others
  <2>2. S \cap T \in SUBSET Keys /\ T \ S \in SUBSET Keys
    BY <2>1
  <2>3. QED
    BY <2>1, <2>2, CacheAssumption, FS_Subset
<1>3. \A k \in T : g[k] <= IF k \in S THEN f[k] ELSE 0
  OBVIOUS
<1>4. req[t].known => Total(f, S) + req[t].body <= CacheShare
  BY DEF RoomOK
<1> HIDE DEF f, g, S, T
<1>5. Total(g, T) <= Total(f, S)
  <2>1. Total(g, T) = Total(g, S \cap T) + Total(g, T \ S)
    <3>1. S \cap T \in SUBSET T /\ T \ (S \cap T) = T \ S /\ \A k \in T : g[k] \in Int
      BY <1>1, <1>2
    <3>2. Total(g, T) = Total(g, S \cap T) + Total(g, T \ (S \cap T))
      BY <1>2, <3>1, TotalParts
    <3>3. QED
      BY <3>1, <3>2
  <2>2. Total(g, T \ S) = 0
    <3>1. \A k \in T \ S : g[k] \in Nat /\ g[k] <= 0
      BY <1>1, <1>2, <1>3
    <3>2. \A k \in T \ S : g[k] = 0
      BY <3>1
    <3>3. QED
      BY <1>2, <3>2, TotalZero
  <2>3. Total(g, S \cap T) <= Total(f, S \cap T)
    <3>1. \A k \in S \cap T : g[k] \in Nat /\ f[k] \in Nat /\ g[k] <= f[k]
      BY <1>1, <1>2, <1>3
    <3>2. QED
      BY <1>2, <3>1, TotalAtMost
  <2>4. Total(f, S \cap T) <= Total(f, S)
    <3>1. S \cap T \in SUBSET S /\ \A k \in S : f[k] \in Nat
      BY <1>1, <1>2
    <3>2. QED
      BY <1>2, <3>1, TotalMonotone
  <2>5. /\ Total(g, S \cap T) \in Nat /\ Total(f, S \cap T) \in Nat /\ Total(f, S) \in Nat
    <3>1. \A k \in S : f[k] \in Nat
      BY <1>1, <1>2
    <3>2. (\A k \in S \cap T : g[k] \in Nat) /\ \A k \in S \cap T : f[k] \in Nat
      BY <1>1, <1>2
    <3>3. QED
      BY <1>2, <3>1, <3>2, TotalType
  <2>6. QED
    BY <2>1, <2>2, <2>3, <2>4, <2>5
<1>6. Total(g, T) \in Nat /\ Total(f, S) \in Nat
  <2>1. (\A k \in T : g[k] \in Nat) /\ \A k \in S : f[k] \in Nat
    BY <1>1, <1>2
  <2>2. QED
    BY <1>2, <2>1, TotalType
<1>7. req[t].known => Total(g, T) + req[t].body <= CacheShare
  BY <1>4, <1>5, <1>6, SpaceAssumption
<1>8. QED
  BY <1>7 DEF RoomOK, g, T

LEMMA PopulatedStays ==
  ASSUME Typed, NEW t \in Tasks, TaskStep(t), ~Populate(t), ~FileMissing(t), ~ClearEnd(t)
  PROVE  cachePopulated' = cachePopulated
<1>1. CASE IndexStep(t) \/ TouchEnd(t)
  BY <1>1 DEF IndexStep, TouchEnd, Ensured, Register, Unindex, Unindexed, memoryVars, indexVars
<1>2. QED
  BY <1>1, IndexStays

LEMMA ReadyStays ==
  ASSUME RoomInv, mixed = {}, NEW t \in Tasks, Alone(t), NEW u \in Tasks, TaskStep(u)
  PROVE  ReadyOK(t)'
<1> SUFFICES ASSUME Holds(t, "entries")', stage' = "ready" PROVE cachePopulated'
  BY DEF ReadyOK
<1>0. /\ AgreeInv /\ Typed /\ OrderInv /\ ReadyOK(t) /\ pc \in [Tasks -> PcType]
      /\ pc'[t] = "entries" /\ line' # <<>> /\ Head(line') = t
  BY DEF RoomInv, AgreeInv, AgreeTypes, Typed, OrderInv, ScheduleOK, Holds
<1>1. stage # "enter" => line # <<>> /\ pc[Head(line)] \in Populating
  BY <1>0 DEF OrderInv, LineInv
<1>2. CASE Populate(u) /\ Scans
  BY <1>0, <1>2 DEF Populate, PopulateSkip, PopulateBegin, PopulateEnd, ScanRecord, ScanPassOver,
     ScanRead, memoryVars, indexVars
<1>3. CASE Leaves(u)
  BY <1>3 DEF Leaves, Leave
<1>4. CASE Joins(u)
  <2>1. stage = "ready" /\ line # <<>> /\ pc[Head(line)] \in Waiting
    BY <1>1, <1>4, WaitingTypes DEF Joins
  <2>2. Head(line') = Head(line)
    <3>1. line \in Seq(Tasks) /\ line' = Append(line, u)
      BY <1>0, <1>4 DEF Joins, Join, OrderInv, ScheduleOK
    <3>2. QED
      BY <2>1, <3>1
  <2>3. u # t
    BY <1>0, <1>4, <2>1, <2>2 DEF Joins
  <2>4. pc[t] = "entries" /\ cachePopulated' = cachePopulated
    BY <1>0, <1>4, <2>3, OthersStay DEF Joins
  <2>5. QED
    BY <1>0, <2>1, <2>2, <2>4 DEF ReadyOK, Holds
<1>5. CASE Stays(u)
  <2>1. stage = "ready" /\ line # <<>> /\ Head(line) = t
    BY <1>0, <1>5 DEF Stays, lockVars
  <2>2. u # t
    BY <1>1, <1>5, <2>1, WaitingTypes DEF Stays
  <2>3. pc[u] \notin WritePcs \cup {"collect"} /\ pc[t] = "entries"
    BY <1>0, <2>2, AloneThen, OthersStay
  <2>4. ~FileMissing(u) /\ ~ClearEnd(u)
    BY <2>3 DEF FileMissing, ClearEnd, WritePcs
  <2>5. cachePopulated
    BY <1>0, <2>1, <2>3 DEF ReadyOK, Holds
  <2>6. ~Populate(u)
    BY <1>0, <1>5, StepPlaces, WaitingTypes DEF Stays
  <2>7. QED
    BY <1>0, <2>4, <2>5, <2>6, PopulatedStays
<1>6. QED
  BY <1>0, <1>2, <1>3, <1>4, <1>5, TaskIsOne DEF OneOfFour

(* How the writer comes to where its room was made.                        *)
LEMMA RoomMoves ==
  ASSUME Typed, NEW t \in Tasks, TaskStep(t), req[t].op = "write", req[t].known, Roomy(t)'
  PROVE  \/ DecideSpace(t)
         \/ Roomy(t) /\ Evict(t)
         \/ /\ Roomy(t) /\ pc[t] # "evict" /\ pc'[t] # "evict"
            /\ disk' = disk \/ CreateFile(t)
<1> USE DEF storeVars
<1>0. LocalOK /\ pc \in [Tasks -> PcType] /\ OpOK(t)
  BY DEF Typed, StoreTypes, OrderInv, ScheduleOK
<1>1. CASE Populate(t)
  <2>1. pc'[t] = pc[t] /\ pc[t] \in Populating
    BY <1>1, PopulateMovesNone, StepPlaces
  <2>2. QED
    BY <2>1 DEF Populating, Roomy
<1>2. CASE WriteExists(t) \/ OpenFails(t) \/ CloseWritable(t) \/ Stat(t) \/ Estimate(t)
             \/ CallRegister(t) \/ Cleanup(t)
  <2>1. pc'[t] \in {"existed", "estimate", "failed", "stat", "register", "entries",
                    "registering", "quotaEntries"}
    BY <1>0, <1>2 DEF WriteExists, OpenFails, CloseWritable, Stat, Estimate, CallRegister,
                      Cleanup, Goto
  <2>2. QED
    BY <2>1 DEF Roomy
<1>3. CASE StreamFails(t) \/ FileMissing(t)
  BY <1>0, <1>3, FailTyped DEF Goto, Roomy
<1>4. CASE DecideQuota(t)
  <2>1. \/ Goto(t, "failed")
        \/ Goto(t, "evict") /\ \E S : local' = [local EXCEPT ![t] = Evicting(S, "quota")]
    BY <1>4, QuotaDecision
  <2>2. CASE Goto(t, "failed")
    BY <1>0, <2>2 DEF Goto, Roomy
  <2>3. ASSUME NEW S, Goto(t, "evict"), local' = [local EXCEPT ![t] = Evicting(S, "quota")]
        PROVE  FALSE
    <3>1. pc'[t] = "evict" /\ local'[t] = Evicting(S, "quota")
      BY <1>0, <2>3 DEF Goto, LocalOK
    <3>2. QED
      BY <3>1 DEF Evicting, Roomy
  <2>4. QED
    BY <2>1, <2>2, <2>3
<1>5. CASE CreateFile(t) \/ OpenWritable(t)
  BY <1>0, <1>5 DEF CreateFile, OpenWritable, Goto, Roomy
<1>6. CASE Evict(t)
  <2>1. pc'[t] \in {AfterUnindex(t), "unindex"} /\ local' = local /\ pc[t] = "evict"
    BY <1>0, <1>6 DEF Evict, Goto
  <2>2. AfterUnindex(t) = IF local[t].failed = "no" THEN "create" ELSE "failed"
    BY DEF AfterUnindex
  <2>3. QED
    BY <1>6, <2>1, <2>2 DEF Roomy
<1>7. CASE Unindex(t)
  BY <1>0, <1>7 DEF Unindex, Goto, Roomy
<1>8. CASE Unindexed(t)
  <2>1. pc'[t] = AfterUnindex(t) /\ pc[t] = "unindexing" /\ disk' = disk
    BY <1>0, <1>8 DEF Unindexed, Goto, Holds
  <2>2. AfterUnindex(t) = IF local[t].failed = "no" THEN "create" ELSE "failed"
    BY DEF AfterUnindex
  <2>3. QED
    BY <2>1, <2>2 DEF Roomy
<1>9. CASE Ensured(t) \/ Register(t) \/ TouchEnd(t)
  <2>1. pc'[t] \in {"lookup", "listing", "done", "written"}
    BY <1>0, <1>9 DEF Ensured, Register, TouchEnd, Goto
  <2>2. QED
    BY <2>1 DEF Roomy
<1>10. CASE ControlStep(t)
  <2>1. pc[t] \notin {"remove", "collect"}
    BY <1>0 DEF OpOK
  <2>2. Lookup(t) \/ ReadFile(t) \/ ListEntries(t)
    BY <1>10, <2>1, StepPlaces DEF ControlStep
  <2>3. pc'[t] \in {"yes", "no", "read", "done"}
    BY <1>0, <2>2 DEF Lookup, ReadFile, ListEntries, Goto
  <2>4. QED
    BY <2>3 DEF Roomy
<1>11. QED
  BY <1>1, <1>2, <1>3, <1>4, <1>5, <1>6, <1>7, <1>8, <1>9, <1>10
     DEF TaskStep, IndexStep, WriteStep

LEMMA WriterKeepsRoom ==
  ASSUME RoomInv, mixed = {}, NEW t \in Tasks, Alone(t), TaskStep(t)
  PROVE  RoomOK(t)'
<1>0. /\ AgreeInv /\ AgreeTypes /\ Typed /\ RoomTypes /\ RoomOK(t) /\ OpOK(t)
      /\ disk \in [Keys -> FileType \cup {None}]
      /\ Active(t) /\ req[t].op = "write" /\ req[t].key \in Keys /\ req[t].body \in Nat
      /\ req' = req
  <2>1. Typed /\ Active(t)
    BY DEF RoomInv, AgreeInv, AgreeTypes, Alone
  <2>2. QED
    BY <2>1, ActiveTypes, OthersStay DEF RoomInv, AgreeInv, Alone, Typed, StoreTypes
<1>1. disk' \in [Keys -> FileType \cup {None}]
  BY <1>0, TaskTyped DEF StoreTypes
<1> SUFFICES ASSUME req[t].known, Roomy(t)' PROVE RoomOK(t)'
  BY <1>0 DEF RoomOK
<1>2. CASE DecideSpace(t)
  BY <1>2, DecisionMakesRoom
<1>3. CASE Roomy(t) /\ Evict(t)
  <2>1. pc[t] = "evict" /\ local[t].failed = "no" /\ RemoveEntries(local[t].keys)
    BY <1>3 DEF Evict, Roomy
  <2>2. pc'[t] # "evict"
    <3>1. pc'[t] \in {AfterUnindex(t), "unindex"}
      BY <1>0, <1>3 DEF Evict, Goto, Typed, OrderInv, ScheduleOK
    <3>2. QED
      BY <3>1 DEF AfterUnindex
  <2>3. ASSUME NEW k \in Others(t)'
        PROVE  Load(disk')[k] <= IF k \in Others(t) THEN Load(disk)[k] ELSE 0
    <3>1. k \in Keys /\ k # req[t].key
      BY <1>0, <2>2 DEF Others
    <3>2. CASE k \in local[t].keys
      <4>1. ~Failing(k)
        BY <2>1, <3>1 DEF Failing, Writes, Fails, Alone, OnlyWrite, RoomInv, RoomTypes, IdleOK
      <4>2. Shared(k)
        BY <1>0, <3>1 DEF AgreeInv, AgreeOK
      <4>3. disk'[k] = None
        BY <1>0, <1>3, <3>1, <3>2, <4>1, <4>2, RemovalWorks
      <4>4. Load(disk')[k] = 0 /\ k \notin Others(t)
        BY <2>1, <3>1, <3>2, <4>3 DEF Load, Others
      <4>5. QED
        BY <4>4
    <3>3. CASE k \notin local[t].keys
      <4>1. disk'[k] = disk[k] /\ k \in Others(t)
        BY <1>0, <2>1, <3>1, <3>3, RemovalTyped DEF Others
      <4>2. Load(disk')[k] = Load(disk)[k] /\ Load(disk)[k] \in Nat
        BY <1>0, <3>1, <4>1, LoadTypes DEF Load
      <4>3. QED
        BY <4>1, <4>2
    <3>4. QED
      BY <3>2, <3>3
  <2>4. QED
    BY <1>0, <1>1, <1>3, <2>3, RoomStays
<1>4. CASE /\ Roomy(t) /\ pc[t] # "evict" /\ pc'[t] # "evict"
           /\ disk' = disk \/ CreateFile(t)
  <2>1. Others(t)' = Others(t) /\ Others(t) = Keys \ {req[t].key}
    BY <1>0, <1>4 DEF Others
  <2>2. ASSUME NEW k \in Others(t)'
        PROVE  Load(disk')[k] <= IF k \in Others(t) THEN Load(disk)[k] ELSE 0
    <3>1. k \in Keys /\ disk'[k] = disk[k]
      BY <1>0, <1>4, <2>1, <2>2 DEF CreateFile, key
    <3>2. Load(disk')[k] = Load(disk)[k] /\ Load(disk)[k] \in Nat
      BY <1>0, <3>1, LoadTypes DEF Load
    <3>3. QED
      BY <2>1, <2>2, <3>2
  <2>3. QED
    BY <1>0, <1>1, <1>4, <2>2, RoomStays
<1>5. QED
  BY <1>0, <1>2, <1>3, <1>4, RoomMoves

(* The others take files away and bring none.                              *)
LEMMA OthersLeaveRoom ==
  ASSUME RoomInv, mixed = {}, NEW t \in Tasks, Alone(t), req[t].body \in Nat,
         UNCHANGED <<req, pc[t], local[t]>>,
         disk' \in [Keys -> FileType \cup {None}],
         \A k \in Keys : \/ disk'[k] \in {disk[k], None}
                         \/ /\ disk[k] # None /\ disk'[k] # None
                            /\ FileSize(disk'[k]) = FileSize(disk[k])
  PROVE  RoomOK(t)'
<1>1. RoomOK(t) /\ disk \in [Keys -> FileType \cup {None}]
  BY DEF RoomInv, AgreeInv, AgreeTypes, Typed, StoreTypes
<1>2. Others(t)' = Others(t) /\ Others(t) \in SUBSET Keys
  BY DEF Others
<1>3. ASSUME NEW k \in Others(t)'
      PROVE  Load(disk')[k] <= IF k \in Others(t) THEN Load(disk)[k] ELSE 0
  <2>1. k \in Keys /\ k \in Others(t)
    BY <1>2
  <2>2. Load(disk)[k] \in Nat
    BY <1>1, <2>1, LoadTypes
  <2>3. Load(disk')[k] \in {Load(disk)[k], 0}
    BY <2>1 DEF Load
  <2>4. QED
    BY <2>1, <2>2, <2>3
<1>4. CASE Roomy(t)
  BY <1>1, <1>3, <1>4, RoomStays
<1>5. CASE ~Roomy(t)
  BY <1>5 DEF RoomOK, Roomy
<1>6. QED
  BY <1>4, <1>5

LEMMA TaskRoom ==
  ASSUME RoomInv, mixed = {}, NEW t \in Tasks, Alone(t), NEW u \in Tasks \ {t}, TaskStep(u)
  PROVE  RoomOK(t)'
<1>0. /\ AgreeInv /\ Typed /\ req[t].body \in Nat /\ req' = req
      /\ pc'[t] = pc[t] /\ local'[t] = local[t]
  <2>1. AgreeInv /\ Typed /\ Active(t)
    BY DEF RoomInv, AgreeInv, AgreeTypes, Alone
  <2>2. QED
    BY <2>1, ActiveTypes, OthersStay
<1>1. disk' \in [Keys -> FileType \cup {None}]
  BY <1>0, TaskTyped DEF StoreTypes
<1>2. ~CreateFile(u) /\ ~CloseWritable(u)
  BY <1>0, AloneThen DEF CreateFile, CloseWritable, WritePcs
<1>3. \A k \in Keys : disk'[k] \in {disk[k], None}
  BY <1>0, <1>2, TaskLeavesStore, RemovalTyped DEF Evict, Cleanup, Delete, ClearRemove
<1>4. QED
  BY <1>0, <1>1, <1>3, OthersLeaveRoom

LEMMA FlushRoom ==
  ASSUME RoomInv, mixed = {}, NEW t \in Tasks, Alone(t), NEW i \in Keys, Flush(i)
  PROVE  RoomOK(t)'
<1>0. AgreeInv /\ Typed /\ Active(t) /\ req[t].body \in Nat
      /\ disk \in [Keys -> FileType \cup {None}]
  <2>1. AgreeInv /\ Typed /\ Active(t)
    BY DEF RoomInv, AgreeInv, AgreeTypes, Alone
  <2>2. QED
    BY <2>1, ActiveTypes DEF Typed, StoreTypes
<1>1. disk' \in [Keys -> FileType \cup {None}]
  BY <1>0, FlushTyped DEF StoreTypes
<1>2. UNCHANGED <<req, pc[t], local[t]>>
  BY <1>0, FlushStep DEF AgreeInv, AgreeOK
<1>3. ASSUME NEW k \in Keys
      PROVE  \/ disk'[k] \in {disk[k], None}
             \/ /\ disk[k] # None /\ disk'[k] # None
                /\ FileSize(disk'[k]) = FileSize(disk[k])
  <2>1. FlushOK(k)
    BY <1>0 DEF AgreeInv, AgreeOK
  <2>2. disk'[k] = disk[k] \/ (SameFile(disk[k], disk'[k]) /\ SameButUse(disk'[k], disk[k]))
    BY <1>0, <2>1, FlushStep
  <2>3. SameFile(disk[k], disk'[k]) => FileSize(disk'[k]) = FileSize(disk[k])
    BY DEF SameFile, FileSize
  <2>4. SameFile(disk[k], disk'[k]) => disk[k] # None /\ disk'[k] # None
    BY Constants DEF SameFile
  <2>5. QED
    BY <2>2, <2>3, <2>4
<1>4. QED
  BY <1>0, <1>1, <1>2, <1>3, OthersLeaveRoom

(* A call that begins makes no writer alone that was not.                  *)
LEMMA BeginRoom ==
  ASSUME RoomInv, mixed = {}, NEW t \in Tasks, NEW u \in Tasks, NEW r \in Requests,
         Begin(u, r) \/ Throttled(u, r), Alone(t)'
  PROVE  ReadyOK(t)' /\ RoomOK(t)'
<1> USE DEF storeVars, memoryVars, indexVars, lockVars
<1>0. /\ Typed /\ RoomTypes /\ LocalOK /\ line \in Seq(Tasks)
      /\ pc \in [Tasks -> PcType] /\ req \in [Tasks -> Requests \cup {None}]
  BY DEF RoomInv, AgreeInv, AgreeTypes, Typed, StoreTypes, OrderInv, ScheduleOK
<1>1. /\ pc[u] = "idle" /\ UNCHANGED <<disk, cachePopulated, stage>>
      /\ line' = line \/ line' = Append(line, u)
      /\ \A v \in Tasks \ {u} : pc'[v] = pc[v] /\ req'[v] = req[v] /\ local'[v] = local[v]
  <2>1. CASE Begin(u, r)
    BY <1>0, <2>1 DEF Begin, Goto, Join, LocalOK
  <2>2. CASE Throttled(u, r)
    BY <1>0, <2>2 DEF Throttled, Goto
  <2>3. QED
    BY <2>1, <2>2
<1>2. CASE u = t
  <2>1. \/ pc'[t] = "done"
        \/ pc'[t] = FirstStep(r.op) /\ req'[t] = r
    BY <1>0, <1>2 DEF Begin, Throttled, Goto
  <2>2. pc'[t] = "exists" \/ pc'[t] = "done"
    BY <2>1 DEF Alone, FirstStep
  <2>3. QED
    BY <2>2 DEF ReadyOK, Holds, RoomOK, Roomy
<1>3. CASE u # t
  <2>1. pc'[t] = pc[t] /\ req'[t] = req[t] /\ local'[t] = local[t]
    BY <1>1, <1>3
  <2>2. Active(t) /\ req[t].op = "write"
    BY <2>1 DEF Alone, Active
  <2>3. OnlyWrite(t)
    BY <1>0, <1>1 DEF Alone, OnlyWrite, RoomTypes, IdleOK
  <2>4. Alone(t) /\ ReadyOK(t) /\ RoomOK(t)
    BY <2>2, <2>3 DEF Alone, RoomInv
  <2>5. RoomOK(t)'
    BY <1>1, <2>1, <2>4 DEF RoomOK, Roomy, Others, Load
  <2>6. ReadyOK(t)'
    <3> SUFFICES ASSUME Holds(t, "entries")', stage' = "ready" PROVE cachePopulated'
      BY DEF ReadyOK
    <3>1. pc[t] = "entries" /\ stage = "ready" /\ line' # <<>> /\ Head(line') = t
      BY <1>1, <2>1 DEF Holds
    <3>2. line # <<>>
      BY <1>0, <3>1 DEF Typed, OrderInv, LineInv
    <3>3. Head(line) = t
      <4>1. CASE line' = line
        BY <3>1, <4>1
      <4>2. CASE line' = Append(line, u)
        <5>1. Head(Append(line, u)) = Head(line)
          BY <1>0, <3>2
        <5>2. QED
          BY <3>1, <4>2, <5>1
      <4>3. QED
        BY <1>1, <4>1, <4>2
    <3>4. QED
      BY <1>1, <2>4, <3>1, <3>2, <3>3 DEF ReadyOK, Holds
  <2>7. QED
    BY <2>5, <2>6
<1>4. QED
  BY <1>2, <1>3

LEMMA NextRoom == RoomInv /\ [Next]_vars => RoomInv'
<1> SUFFICES ASSUME RoomInv, [Next]_vars PROVE RoomInv'
  OBVIOUS
<1>0. AgreeInv /\ Typed /\ RestTypes /\ RoomTypes
  BY DEF RoomInv, AgreeInv, AgreeTypes
<1>1. AgreeInv' /\ RoomTypes'
  BY <1>0, NextAgree, NextRoomTypes
<1>2. ASSUME mixed' = {}, NEW t \in Tasks, Alone(t)' PROVE ReadyOK(t)' /\ RoomOK(t)'
  <2>1. CASE Restart
    BY <1>2, <2>1 DEF Restart, Alone, Active, Terminal
  <2>2. CASE ~Restart
    <3>1. mixed = {}
      BY <1>0, <1>2, <2>2, MixedGrows
    <3>2. ASSUME NEW u \in Tasks, NEW r \in Requests, Begin(u, r) \/ Throttled(u, r)
          PROVE  ReadyOK(t)' /\ RoomOK(t)'
      BY <1>2, <3>1, <3>2, BeginRoom
    <3>3. CASE UNCHANGED vars \/ Fire
      <4>1. UNCHANGED <<disk, cachePopulated, line, stage, pc, req, local>>
        BY <3>3 DEF vars, Fire, storeVars, indexVars, lockVars
      <4>2. Alone(t)
        BY <1>2, <4>1 DEF Alone, Active, OnlyWrite
      <4>3. QED
        BY <3>1, <4>1, <4>2 DEF RoomInv, ReadyOK, Holds, RoomOK, Roomy, Others, Load
    <3>4. ASSUME NEW i \in Keys, Flush(i) PROVE ReadyOK(t)' /\ RoomOK(t)'
      <4>1. UNCHANGED <<cachePopulated, line, stage, pc, req, local>>
        BY <3>4, Zenon DEF Flush, indexVars, lockVars
      <4>2. Alone(t)
        BY <1>2, <4>1 DEF Alone, Active, OnlyWrite
      <4>3. ReadyOK(t)'
        BY <3>1, <4>1, <4>2 DEF RoomInv, ReadyOK, Holds
      <4>4. QED
        BY <3>1, <3>4, <4>2, <4>3, FlushRoom
    <3>5. ASSUME NEW u \in Tasks, TaskStep(u) PROVE ReadyOK(t)' /\ RoomOK(t)'
      <4>1. Alone(t)
        <5>1. req' = req /\ (u # t => pc'[t] = pc[t]) /\ Active(u)
          BY <1>0, <3>5, OthersStay
        <5>2. QED
          BY <1>2, <5>1 DEF Alone, Active, OnlyWrite
      <4>2. QED
        BY <3>1, <3>5, <4>1, ReadyStays, WriterKeepsRoom, TaskRoom
    <3>6. QED
      BY <2>2, <3>2, <3>3, <3>4, <3>5 DEF Next
  <2>3. QED
    BY <2>1, <2>2
<1>3. QED
  BY <1>1, <1>2 DEF RoomInv

(* The end of a write that had its room.                                   *)
LEMMA EndIsClose ==
  ASSUME Typed, [Next]_vars, NEW t \in Tasks, pc[t] = "stream", pc'[t] = "stat"
  PROVE  CloseWritable(t)
<1>0. /\ OpOK(t) /\ Active(t) /\ pc \in [Tasks -> PcType]
  BY DEF Typed, OrderInv, ScheduleOK, Active, Terminal
<1>1. req[t].op = "write"
  BY <1>0 DEF OpOK, WritePcs
<1>2. ASSUME NEW u \in Tasks, TaskStep(u) PROVE CloseWritable(t)
  <2>1. u = t
    BY <1>2, OthersStay
  <2>2. ~Fails(t)' /\ pc'[t] \in Before \cup After
    BY DEF Fails, After
  <2>3. QED
    BY <1>1, <1>2, <2>1, <2>2, WriterMoves DEF Before
<1>3. ~(UNCHANGED vars) /\ ~Restart /\ ~Fire /\ \A k \in Keys : ~Flush(k)
  BY <1>0 DEF vars, Restart, Fire, Flush
<1>4. ASSUME NEW u \in Tasks, NEW r \in Requests, Begin(u, r) \/ Throttled(u, r) PROVE FALSE
  <2>1. pc'[t] = pc[t] \/ u = t
    BY <1>0, <1>4 DEF Begin, Throttled, Goto
  <2>2. pc[u] = "idle"
    BY <1>4 DEF Begin, Throttled
  <2>3. QED
    BY <2>1, <2>2
<1>5. QED
  BY <1>2, <1>3, <1>4 DEF Next

(* What the store takes after a step. *)
LEMMA UsageThen == StoreTypes' => Usage' = Total(Load(disk'), Keys)
<1>1. StoreTypes => Usage = Total(Load(disk), Keys)
  BY UsageIsLoad DEF StoreTypes, Usage
<1>2. (StoreTypes => Usage = Total(Load(disk), Keys))'
  BY <1>1, PTL
<1>3. QED
  BY <1>2

LEMMA RoomIsUsed ==
  ASSUME RoomInv, [Next]_vars, NEW t \in Tasks, pc[t] = "stream", pc'[t] = "stat",
         OnlyWrite(t), req[t].known, mixed = {}
  PROVE  Usage' <= CacheShare + FooterLen
<1> DEFINE k == req[t].key
           f == Load(disk)
           g == Load(disk')
           left == Keys \ {k}
<1>0. /\ Typed /\ Typed' /\ CloseWritable(t)
      /\ disk \in [Keys -> FileType \cup {None}] /\ disk' \in [Keys -> FileType \cup {None}]
  BY NextTyped, EndIsClose DEF RoomInv, AgreeInv, AgreeTypes, Typed, StoreTypes
<1>1. /\ Alone(t) /\ k \in Keys /\ req[t].body \in Nat
  <2>1. Active(t) /\ OpOK(t)
    BY <1>0 DEF Active, Terminal, Typed
  <2>2. req[t].op = "write"
    BY <2>1 DEF OpOK, WritePcs
  <2>3. QED
    BY <1>0, <2>1, <2>2, ActiveTypes DEF Alone
<1>2. Total(f, left) + req[t].body <= CacheShare
  <2>1. RoomOK(t) /\ Roomy(t)
    BY <1>1 DEF RoomInv, Roomy
  <2>2. Others(t) = left
    BY DEF Others
  <2>3. QED
    BY <2>1, <2>2 DEF RoomOK
<1>3. g[k] = req[t].body + FooterLen /\ \A i \in left : g[i] = f[i]
  <2>1. disk' = [disk EXCEPT ![k] = FinishedFile(t)]
    BY <1>0 DEF CloseWritable, key
  <2>2. disk'[k] = FinishedFile(t) /\ \A i \in left : disk'[i] = disk[i]
    BY <1>0, <1>1, <2>1
  <2>3. FinishedFile(t) # None
    <3>1. clock \in Nat /\ req[t] \in RequestType
      BY <1>0, <1>1, ActiveTypes DEF Alone, Typed, StoreTypes
    <3>2. FinishedFile(t) \in FileType
      BY <3>1 DEF FinishedFile, FileType, RequestType
    <3>3. QED
      BY <3>2, Constants
  <2>4. FileSize(FinishedFile(t)) = req[t].body + FooterLen
    BY DEF FinishedFile, FileSize
  <2>5. QED
    BY <1>1, <2>2, <2>3, <2>4 DEF Load
<1>4. Usage' = Total(g, Keys)
  BY <1>0, UsageThen DEF Typed
<1>5. f \in [Keys -> Nat] /\ g \in [Keys -> Nat] /\ IsFiniteSet(Keys) /\ IsFiniteSet(left)
  BY <1>0, LoadTypes, CacheAssumption, FS_Subset
<1> HIDE DEF f, g, k
<1>6. Total(g, Keys) = g[k] + Total(g, left)
  <2>1. \A i \in Keys : g[i] \in Int
    BY <1>5
  <2>2. QED
    BY <1>1, <1>5, <2>1, TotalRemove
<1>7. Total(g, left) = Total(f, left)
  BY <1>3, <1>5, TotalSame
<1>8. Total(f, left) \in Nat
  <2>1. \A i \in left : f[i] \in Nat
    BY <1>5
  <2>2. QED
    BY <1>5, <2>1, TotalType
<1>9. QED
  BY <1>1, <1>2, <1>3, <1>4, <1>6, <1>7, <1>8, SpaceAssumption, CacheAssumption
------------------------------------------------------------------------------
(* What a write brings into the store fits in the share of the cache, but  *)
(* for its footer, when its size was known and it was the only write: the  *)
(* room is made before the file is, and nothing else takes it meanwhile.   *)
THEOREM RoomIsThere == Spec => RoomIsMade
<1>1. RoomInv /\ [Next]_vars =>
        \A t \in Tasks :
          pc[t] = "stream" /\ pc'[t] = "stat" /\ OnlyWrite(t) /\ req[t].known /\ mixed = {} =>
            Usage' <= CacheShare + FooterLen
  BY RoomIsUsed
<1>2. QED
  BY <1>1, InitRoom, NextRoom, PTL DEF Spec, RoomIsMade
==============================================================================
