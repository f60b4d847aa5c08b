------------------------------ MODULE OpfsCache ------------------------------
(***************************************************************************)
(* The cache of the service worker: writes, deletions, clearings,          *)
(* questions and warm-ups run as tasks over one flat store, one eviction   *)
(* index and one metadata cache, and the browser may stop the worker       *)
(* between any two of their steps.                                         *)
(***************************************************************************)
EXTENDS OpfsWrite, CacheControl, LastAccess

StoredFile(r) == [written |-> TRUE, body |-> r.body, folder |-> r.folder,
                  evictable |-> r.evictable, lastAccessed |-> 0]

(* A worker that has just started: its memory is empty, and the store      *)
(* holds what workers before it have written.                              *)
Init ==
  /\ disk \in {d \in [Keys -> {StoredFile(r) : r \in Requests} \cup {None}] :
                 \A k \in Keys : d[k] # None =>
                   \E r \in Requests : r.key = k /\ d[k] = StoredFile(r)}
  /\ writables = {}
  /\ index = Nothing /\ cachePopulated = FALSE /\ meta = Nothing
  /\ skipList = {}
  /\ lastUpdate = Never /\ pendingWrites = Never /\ flush = NoFlushes
  /\ line = <<>> /\ stage = "enter" /\ scan = NoScan
  /\ pc = [t \in Tasks |-> "idle"]
  /\ req = [t \in Tasks |-> None]
  /\ local = [t \in Tasks |-> NoLocal]
  /\ clock = 1 /\ restarts = 0 /\ mixed = {} /\ outdated = {} /\ doubled = {}

FirstStep(op) == CASE op = "write" -> "exists"
                   [] op = "delete" -> "remove"
                   [] op = "clear" -> "collect"
                   [] op \in {"has", "list", "warmup"} -> "ensuring"
                   [] op = "touch" -> "touching"
                   [] op = "drop" -> "unindex"

(* The call of an operation.  One that starts with a function on the index *)
(* joins the line at once.  writeToOpfs does not ask the skip list: some   *)
(* of its callers do (see RangeFetch).  A drop is what opfsServeRange does *)
(* when it cannot serve a range, be it for the file or for the header:     *)
(* invalidateCachesForFileKeyOnError.                                      *)
Begin(t, r) ==
  /\ pc[t] = "idle"
  /\ req' = [req EXCEPT ![t] = r]
  /\ Goto(t, FirstStep(r.op))
  /\ IF FirstStep(r.op) \in Waiting THEN Join(t) ELSE UNCHANGED line
  /\ local' = [local EXCEPT ![t].todo = IF r.op = "clear" THEN Keys ELSE {},
                            ![t].keys = IF r.op = "drop" THEN {r.key} ELSE {},
                            ![t].now = IF r.op = "touch" THEN clock ELSE 0]
  /\ clock' = IF r.op = "touch" THEN clock + 1 ELSE clock
  /\ mixed' = mixed \cup (Touched(r) \cap (Flushed \cup ChangedBy(Tasks \ Rivals(r))))
  /\ doubled' = doubled \cup (Touched(r) \cap ChangedBy(Rivals(r)))
  /\ UNCHANGED <<storeVars, memoryVars, stage, scan, restarts, outdated>>

(* The browser stops the worker: all that was in memory is gone, and with  *)
(* it the operations in progress and what their writables had received.    *)
Restart ==
  /\ restarts < MaxRestarts
  /\ restarts' = restarts + 1
  /\ writables' = {}
  /\ index' = Nothing /\ cachePopulated' = FALSE /\ meta' = Nothing
  /\ skipList' = {}
  /\ lastUpdate' = Never /\ pendingWrites' = Never /\ flush' = NoFlushes
  /\ line' = <<>> /\ stage' = "enter" /\ scan' = NoScan
  /\ pc' = [t \in Tasks |-> IF Active(t) THEN "killed" ELSE pc[t]]
  /\ local' = [t \in Tasks |-> NoLocal]
  /\ mixed' = {} /\ outdated' = {} /\ doubled' = {}
  /\ UNCHANGED <<disk, req, clock>>

TaskStep(t) == IndexStep(t) \/ WriteStep(t) \/ ControlStep(t) \/ TouchEnd(t)

Next == \/ Restart \/ Fire \/ \E k \in Keys : Flush(k)
        \/ \E t \in Tasks : TaskStep(t) \/ \E r \in Requests : Begin(t, r) \/ Throttled(t, r)

(* A call of the file system comes back, a stream ends or fails, and the   *)
(* reaction of a settled promise runs.                                     *)
Fairness == \A t \in Tasks : WF_vars(TaskStep(t))

Spec == Init /\ [][Next]_vars /\ Fairness
------------------------------------------------------------------------------
PcType == {"idle", "exists", "estimate", "entries", "evict", "unindex",
           "unindexing", "create", "open", "stream", "stat", "register",
           "registering", "cleanup", "quotaEntries", "remove", "ensuring",
           "touching", "lookup", "read", "listing", "collect"} \cup Terminal

LocalType == [keys : SUBSET Keys, todo : SUBSET Keys, size : Nat, now : Nat,
              usage : Nat, failed : Reasons]

ScanType == [todo : SUBSET Keys, key : Keys \cup {None}, file : FileType \cup {None}]

FlushType == [at : {"none", "read", "open", "write"}, time : Nat,
              file : FileType \cup {None}]

(* The part of the type invariant the order of the tasks depends on. *)
ScheduleOK ==
  /\ line \in Seq(Tasks)
  /\ stage \in {"enter", "scan", "ready"}
  /\ pc \in [Tasks -> PcType]

TypeOK ==
  /\ ScheduleOK
  /\ disk \in [Keys -> FileType \cup {None}]
  /\ writables \subseteq Tasks
  /\ index \in [Keys -> EntryType \cup {None}]
  /\ cachePopulated \in BOOLEAN
  /\ meta \in [Keys -> MetaType \cup {None}]
  /\ skipList \subseteq Keys
  /\ lastUpdate \in [Keys -> Nat] /\ pendingWrites \in [Keys -> Nat]
  /\ flush \in [Keys -> FlushType]
  /\ scan \in ScanType
  /\ req \in [Tasks -> Requests \cup {None}]
  /\ local \in [Tasks -> LocalType]
  /\ clock \in Nat /\ restarts \in 0..MaxRestarts /\ mixed \cup outdated \cup doubled \subseteq Keys

(* The lock of the index serves the tasks that wait for it and no other:   *)
(* each is in line once, only the first of the line populates the caches,  *)
(* and they do not count as populated while it does.                       *)
LineInv ==
  /\ \A t \in Tasks : pc[t] \in Waiting <=> \E i \in 1..Len(line) : line[i] = t
  /\ \A i, j \in 1..Len(line) : line[i] = line[j] => i = j
  /\ stage # "enter" => line # <<>> /\ pc[Head(line)] \in Populating
  /\ stage = "scan" => ~cachePopulated
  /\ stage # "scan" => scan = NoScan

CacheInv == TypeOK /\ LineInv

(* A resource whose write failed or was cut short. *)
FailedOn(k) == \E t \in Tasks : /\ pc[t] \in {"failed", "killed"}
                                /\ req[t].op = "write" /\ req[t].key = k

(* Once all operations are over, the populated index describes the store:  *)
(* an entry for each file, with its size and whether it may be evicted.    *)
(* Only a key on which operations overlapped, or whose write failed, may   *)
(* differ; that two writers bring in the same resource at a time is no     *)
(* overlap here, if both succeed.  An error while serving may take the     *)
(* entry of a file away, but leaves none behind that is wrong.  The order  *)
(* of the code is what it takes: the store first, the index after it, the  *)
(* index under the lock.                                                   *)
Dropped(k) == \E t \in Tasks : pc[t] = "done" /\ req[t].op = "drop" /\ req[t].key = k
IndexAgrees ==
  Quiet /\ cachePopulated =>
    \A k \in Keys \ mixed :
      ~FailedOn(k) =>
        /\ disk[k] # None => index[k] # None \/ Dropped(k)
        /\ index[k] # None => /\ disk[k] # None
                              /\ index[k].size = FileSize(disk[k])
                              /\ index[k].evictable = disk[k].evictable

(* HAS and LIST do not look at a file the metadata cache knows of, and yet *)
(* what they say is there is: but while an operation removes it, or when a *)
(* scan that had read the file before it was removed has recorded it since.*)
IsRemoving(t, k) == \/ pc[t] = "unindex" /\ k \in local[t].keys
                    \/ pc[t] = "collect" /\ local[t].todo = {}
AnswersAreTrue ==
  \A folder \in Folders : \A k \in Listed(folder) \ (mixed \cup outdated \cup doubled) :
    IsInFolder(k, folder) \/ \E t \in Tasks : IsRemoving(t, k)

(* What a write brings into the store fits in the share of the cache, but  *)
(* for its footer, when its size was known, no other write was made, no    *)
(* error dropped an entry and no operations overlapped: the room is made   *)
(* before the file is.                                                     *)
OnlyWrite(t) == \A u \in Tasks \ {t} : req[u] = None \/ req[u].op \notin {"write", "drop"}
RoomIsMade ==
  [][\A t \in Tasks :
       pc[t] = "stream" /\ pc'[t] = "stat" /\ OnlyWrite(t) /\ req[t].known /\ mixed = {} =>
         Usage' <= CacheShare + FooterLen]_vars

(* A file that was written whole leaves the store by a deletion, a clear   *)
(* of its folder or, if it is not pinned, an eviction.  No other step may  *)
(* remove it, or change more of it than the time of its last use, unless   *)
(* operations overlapped on its key.                                       *)
Removable(k) ==
  \E t \in Tasks :
    \/ pc[t] = "remove" /\ req[t].key = k
    \/ pc[t] = "collect" /\ req[t].folder = disk[k].folder
    \/ pc[t] = "evict" /\ k \in local[t].keys /\ disk[k].evictable
SameButUse(f, g) == f # None /\ [f EXCEPT !.lastAccessed = g.lastAccessed] = g
FilesAreKept ==
  [][\A k \in Keys \ (mixed \cup doubled) :
       disk[k] # None /\ disk[k].written /\ ~SameButUse(disk[k]', disk[k]) =>
         Removable(k)]_vars

(* The last use that was noted of a file is in its footer once nothing is  *)
(* pending: a worker that starts anew evicts in the order of use.          *)
UseIsSaved ==
  Quiet /\ pendingWrites = Never /\ flush = NoFlushes =>
    \A k \in Keys \ (mixed \cup doubled) :
      disk[k] # None /\ disk[k].written => disk[k].lastAccessed >= lastUpdate[k]

(* Every operation that was begun comes to an end, or ends with the worker.*)
EveryTaskEnds == \A t \in Tasks : Active(t) ~> ~Active(t)
==============================================================================
