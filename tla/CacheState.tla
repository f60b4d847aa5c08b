----------------------------- MODULE CacheState -----------------------------
(***************************************************************************)
(* The state the service worker's parts share: the flat store in OPFS, the *)
(* in-memory caches over it, the lock of the eviction index, and the       *)
(* operations in progress.                                                 *)
(*                                                                         *)
(* An operation is a task: one call of an asynchronous function of the     *)
(* worker.  pc[t] names the `await` the task is at; a step of the task is  *)
(* what the code does from there to the next one.                          *)
(***************************************************************************)
EXTENDS OpfsLru, Sequences

CONSTANTS Keys,           \* file names: urlToOpfsKey of the resources' URLs
          Folders,        \* the logical folders registered by the plugins
          Tasks,          \* the operations of one behaviour
          Requests,       \* what a task may be asked to do
          None,           \* no file, no entry
          FooterLen,      \* bytes of JSON metadata and its length field
          MaxRestarts     \* how often the browser may stop the worker

Ops == {"write", "delete", "clear", "has", "list", "warmup", "touch", "drop"}

(* A request: the operation and the resource it is about.  `known` says    *)
(* that the response has a Content-Length; `spare`, that the writer keeps  *)
(* its own key from being evicted (excludeKeyFromEviction).                *)
RequestType == [op : Ops, key : Keys, folder : Folders, body : Nat \ {0},
                evictable : BOOLEAN, known : BOOLEAN, spare : BOOLEAN]

(* A file of the store.  One whose writer has not closed it is empty, and  *)
(* reads as a file with neither folder nor lastAccessed.                   *)
FileType == [written : BOOLEAN, body : Nat, folder : Folders \cup {None},
             evictable : BOOLEAN, lastAccessed : Nat]

Placeholder == [written |-> FALSE, body |-> 0, folder |-> None,
                evictable |-> TRUE, lastAccessed |-> 0]

FileSize(file) == IF file.written THEN file.body + FooterLen ELSE 0

EntryType == [size : Nat, lastAccessed : Nat, evictable : BOOLEAN]
MetaType == [fullSize : Nat, folder : Folders \cup {None}]

(* A directory has finitely many files. *)
ASSUME CacheAssumption ==
  /\ IsFiniteSet(Keys)
  /\ Requests \subseteq RequestType
  /\ FooterLen \in Nat \ {0}
  /\ MaxRestarts \in Nat
  /\ None \notin Folders \cup Keys \cup Requests \cup FileType \cup EntryType \cup MetaType

VARIABLES
  disk,                   \* the flat store: key -> file or None
  writables,              \* the tasks whose FileSystemWritableFileStream is open
  index,                  \* globalEvictionCache: key -> entry or None
  cachePopulated,         \* the flag of opfsEvictionIndex.ts
  meta,                   \* globalMetadataCache: key -> entry or None
  skipList,               \* the keys of the URLs that are not cached again
  lastUpdate,             \* lastAccessedUpdateByKey: key -> time, 0 if there is none
  pendingWrites,          \* pendingFooterWrites: key -> time, 0 if there is none
  flush,                  \* key -> its writeLastAccessedToFileFooter
  line,                   \* the tasks in runWithLock, oldest first (FifoMutex)
  stage,                  \* how far the function of the first in line has come
  scan,                   \* the locals of its populateCacheUnlocked
  pc, req, local,         \* per task: position, request or None, locals
  clock,                  \* Date.now(), as a count of the readings of it
  restarts,               \* how often the worker was restarted
  mixed,                  \* auxiliary: the keys on which operations overlapped
  outdated,               \* auxiliary: the keys of which a scan has recorded
                          \* metadata when their file was gone
  doubled                 \* auxiliary: the keys that were written twice at a time

storeVars == <<disk, writables>>
indexVars == <<index, cachePopulated>>
accessVars == <<lastUpdate, pendingWrites, flush>>
memoryVars == <<index, cachePopulated, meta, skipList, accessVars>>
lockVars == <<line, stage, scan>>
auxVars == <<restarts, mixed, outdated, doubled>>
vars == <<disk, writables, index, cachePopulated, meta, skipList, lastUpdate,
          pendingWrites, flush, line, stage, scan, pc, req, local, clock, restarts, mixed,
          outdated, doubled>>

NoFlush == [at |-> "none", time |-> 0, file |-> None]
NoScan == [todo |-> {}, key |-> None, file |-> None]
(* keys: those to evict, remove or read; size: of the file, or the bytes   *)
(* written when the quota ran out; failed: the reason writeToOpfs rejects. *)
NoLocal == [keys |-> {}, todo |-> {}, size |-> 0, now |-> 0, usage |-> 0,
            failed |-> "no"]
(* The locals of evictFiles on S, in a write that goes on or has failed.   *)
Evicting(S, reason) ==
  [keys |-> S, todo |-> {}, size |-> 0, now |-> 0, usage |-> 0, failed |-> reason]
Reasons == {"no", "error", "quota", "missing"}

Terminal == {"written", "existed", "failed", "done", "yes", "no", "killed"}
Active(t) == pc[t] \notin Terminal \cup {"idle"}
Quiet == \A t \in Tasks : ~Active(t)

(* The pcs of the tasks in line; the first four populate the caches.       *)
Populating == {"entries", "quotaEntries", "ensuring", "touching"}
Waiting == Populating \cup {"registering", "unindexing"}

Goto(t, s) == pc' = [pc EXCEPT ![t] = s]
Join(t) == line' = Append(line, t)
(* Mutants of Leave: the stage of the function that is over is kept, and   *)
(* the lock is not released.                                               *)
LeaveStage == line' = Tail(line) /\ UNCHANGED stage
LeaveHeld == line' = line /\ stage' = "enter"
(* The function given to runWithLock is over. *)
Leave == line' = Tail(line) /\ stage' = "enter"
(* t's function is the one that runs: it is first in line. *)
Holds(t, s) == pc[t] = s /\ line # <<>> /\ Head(line) = t

(* The keys whose file or index entry an operation may change, and those   *)
(* of S that another operation than t, or a flush, may be changing too.    *)
Touched(r) == CASE r.op \in {"write", "delete", "drop"} -> {r.key}
                [] r.op = "clear" -> Keys
                [] OTHER -> {}
Flushed == {k \in Keys : flush[k].at # "none"}
ChangedBy(T) == UNION {Touched(req[u]) \cup local[u].keys : u \in {v \in T : Active(v)}}
Contended(t, S) == S \cap (Flushed \cup ChangedBy(Tasks \ {t}))

(* The tasks that write what r would write, and evict nothing meanwhile.   *)
Rivals(r) ==
  {u \in Tasks : /\ Active(u) /\ local[u].keys = {}
                 /\ r.op = "write" /\ req[u].op = "write" /\ req[u].key = r.key
                 /\ req[u].body = r.body /\ req[u].evictable = r.evictable}

(* navigator.storage.estimate().usage: what the files of the store take.   *)
Usage == MapThenSumSet(LAMBDA k : FileSize(disk[k]),
                       {k \in Keys : disk[k] # None})

IsInFolder(k, folder) == disk[k] # None /\ disk[k].folder = folder

(* A file whose writable is open may refuse to be removed: the browser     *)
(* holds a lock on it.  Every other file is removed.                       *)
Locked(k) == flush[k].at = "write" \/ \E t \in writables : req[t].key = k
RemoveEntries(S) ==
  \E refused \in SUBSET {k \in S : Locked(k)} :
     disk' = [k \in Keys |-> IF k \in S \ refused THEN None ELSE disk[k]]
==============================================================================
