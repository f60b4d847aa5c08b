---------------------------- MODULE EvictionIndex ----------------------------
(***************************************************************************)
(* opfsEvictionIndex.ts: the in-memory eviction index, the metadata cache  *)
(* that is filled along with it, and the functions that run under its lock.*)
(*                                                                         *)
(* The lock is the first-in first-out lock of FifoMutex, which module      *)
(* IndexLock shows runWithLock to implement: a task joins `line` when it   *)
(* calls runWithLock, and the function it passed runs while the task is    *)
(* first.  A function that awaits nothing runs in a single step; one that  *)
(* populates the caches goes through the stages "scan" and "ready".        *)
(***************************************************************************)
EXTENDS CacheState

(* What the scan of a file puts in the index and in the metadata cache:    *)
(* the size of both is that of the whole file, metadata footer included.   *)
IndexEntry(file) == [size |-> FileSize(file), lastAccessed |-> file.lastAccessed,
                     evictable |-> file.evictable]
MetaEntry(file) == [fullSize |-> FileSize(file), folder |-> file.folder]

Nothing == [k \in Keys |-> None]

(* invalidateCacheForDir and invalidateEntriesByFolder: they do not wait   *)
(* for the lock, so they may come in the middle of a scan.                 *)
InvalidateFolders(folders) ==
  /\ index' = Nothing
  /\ cachePopulated' = FALSE
  /\ meta' = [k \in Keys |-> IF meta[k] # None /\ meta[k].folder \in folders
                             THEN None ELSE meta[k]]
  /\ mixed' = IF stage = "scan" THEN Keys ELSE mixed
------------------------------------------------------------------------------
(* populateCacheUnlocked, the first step of every function that needs the  *)
(* caches.                                                                 *)

PopulateSkip(t) ==
  /\ \E s \in Populating : Holds(t, s)
  /\ stage = "enter" /\ cachePopulated
  /\ stage' = "ready"
  /\ UNCHANGED <<storeVars, memoryVars, line, scan, pc, req, local, clock, auxVars>>

PopulateBegin(t) ==
  /\ \E s \in Populating : Holds(t, s)
  /\ stage = "enter" /\ ~cachePopulated
  /\ stage' = "scan"
  /\ index' = Nothing
  /\ meta' = Nothing
  /\ scan' = [NoScan EXCEPT !.todo = Keys]
  /\ outdated' = {}
  /\ UNCHANGED <<storeVars, cachePopulated, skipList, accessVars, line, pc, req, local, clock, restarts, mixed,
                 doubled>>

(* One turn of the iteration over dir.entries() up to the read of the      *)
(* file's footer.  An entry that appears after its turn is not seen.       *)
ScanRead(t, k) ==
  /\ Holds(t, pc[t]) /\ stage = "scan"
  /\ scan.key = None /\ k \in scan.todo
  /\ scan' = [todo |-> scan.todo \ {k}, file |-> disk[k],
              key |-> IF disk[k] = None THEN None ELSE k]
  /\ UNCHANGED <<storeVars, memoryVars, line, stage, pc, req, local, clock, auxVars>>

(* The rest of the turn, once the read is over. *)
ScanRecord(t) ==
  /\ Holds(t, pc[t]) /\ stage = "scan"
  /\ scan.key # None
  /\ index' = [index EXCEPT ![scan.key] = IndexEntry(scan.file)]
  /\ meta' = [meta EXCEPT ![scan.key] = MetaEntry(scan.file)]
  /\ scan' = [NoScan EXCEPT !.todo = scan.todo]
  /\ outdated' = IF IsInFolder(scan.key, scan.file.folder) THEN outdated
                 ELSE outdated \cup {scan.key}
  /\ UNCHANGED <<storeVars, cachePopulated, skipList, accessVars, line, stage, pc, req, local, clock, restarts, mixed,
                 doubled>>

(* The read fails, which it may when the file changes under it: the file   *)
(* is passed over.                                                         *)
ScanPassOver(t) ==
  /\ Holds(t, pc[t]) /\ stage = "scan"
  /\ scan.key # None /\ disk[scan.key] # scan.file
  /\ scan' = [NoScan EXCEPT !.todo = scan.todo]
  /\ UNCHANGED <<storeVars, memoryVars, line, stage, pc, req, local, clock, auxVars>>

PopulateEnd(t) ==
  /\ Holds(t, pc[t]) /\ stage = "scan"
  /\ scan.key = None /\ scan.todo = {}
  /\ cachePopulated' = TRUE
  /\ stage' = "ready"
  /\ scan' = NoScan
  /\ UNCHANGED <<storeVars, index, meta, skipList, accessVars, line, pc, req, local, clock, auxVars>>

Populate(t) ==
  \/ PopulateSkip(t) \/ PopulateBegin(t) \/ PopulateEnd(t)
  \/ ScanRecord(t) \/ ScanPassOver(t)
  \/ \E k \in Keys : ScanRead(t, k)
------------------------------------------------------------------------------
(* ensureCachesPopulated is over: a warm-up ends, a question goes on.      *)
Ensured(t) ==
  /\ Holds(t, "ensuring") /\ stage = "ready"
  /\ Leave
  /\ Goto(t, CASE req[t].op = "has" -> "lookup" [] req[t].op = "list" -> "listing"
               [] OTHER -> "done")
  /\ UNCHANGED <<storeVars, memoryVars, scan, req, local, clock, auxVars>>

(* addToEvictionIndex and registerFileInCache, after a write. *)
Register(t) ==
  /\ Holds(t, "registering") /\ stage = "enter"
  /\ index' = [index EXCEPT ![req[t].key] =
                 [size |-> local[t].size, lastAccessed |-> local[t].now,
                  evictable |-> req[t].evictable]]
  /\ Leave
  /\ Goto(t, "written")
  /\ local' = [local EXCEPT ![t] = NoLocal]
  /\ UNCHANGED <<storeVars, cachePopulated, meta, skipList, accessVars, scan, req, clock, auxVars>>

(* Mutant of Unindex: the metadata cache is not told. *)
UnindexKeepsMeta(t) ==
  /\ pc[t] = "unindex"
  /\ lastUpdate' = [k \in Keys |-> IF k \in local[t].keys THEN 0 ELSE lastUpdate[k]]
  /\ pendingWrites' = [k \in Keys |-> IF k \in local[t].keys THEN 0 ELSE pendingWrites[k]]
  /\ Join(t)
  /\ Goto(t, "unindexing")
  /\ UNCHANGED <<storeVars, indexVars, meta, skipList, flush, stage, scan, req, local, clock, auxVars>>

(* removeFromEvictionIndex up to its runWithLock: the metadata cache is    *)
(* not under the lock.                                                     *)
Unindex(t) ==
  /\ pc[t] = "unindex"
  /\ meta' = [k \in Keys |-> IF k \in local[t].keys THEN None ELSE meta[k]]
  /\ lastUpdate' = [k \in Keys |-> IF k \in local[t].keys THEN 0 ELSE lastUpdate[k]]
  /\ pendingWrites' = [k \in Keys |-> IF k \in local[t].keys THEN 0 ELSE pendingWrites[k]]
  /\ Join(t)
  /\ Goto(t, "unindexing")
  /\ UNCHANGED <<storeVars, indexVars, skipList, flush, stage, scan, req, local, clock, auxVars>>

(* Where the caller of removeFromEvictionIndex goes on: a deletion, a drop *)
(* and the clean-up of a failed write end, ensureSpaceForWrite has made    *)
(* room.                                                                   *)
AfterUnindex(t) == IF req[t].op \in {"delete", "drop"} THEN "done"
                   ELSE IF local[t].failed = "no" THEN "create" ELSE "failed"

(* The function it passes to runWithLock. *)
Unindexed(t) ==
  /\ Holds(t, "unindexing") /\ stage = "enter"
  /\ index' = [k \in Keys |-> IF k \in local[t].keys THEN None ELSE index[k]]
  /\ Leave
  /\ Goto(t, AfterUnindex(t))
  /\ local' = [local EXCEPT ![t] = NoLocal]
  /\ UNCHANGED <<storeVars, cachePopulated, meta, skipList, accessVars, scan, req, clock, auxVars>>

IndexStep(t) ==
  Populate(t) \/ Ensured(t) \/ Register(t) \/ Unindex(t) \/ Unindexed(t)
==============================================================================
