------------------------------ MODULE OpfsWrite ------------------------------
(***************************************************************************)
(* writeToOpfs (opfsWrite.ts) with ensureSpaceForWrite (opfsLru.ts).       *)
(***************************************************************************)
EXTENDS EvictionIndex

key(t) == req[t].key

(* The file the writer's close puts in place of the placeholder.           *)
FinishedFile(t) ==
  [written |-> TRUE, body |-> req[t].body, folder |-> req[t].folder,
   evictable |-> req[t].evictable, lastAccessed |-> clock]

(* getFileHandle(key) without create: whatever is there ends the write.    *)
WriteExists(t) ==
  /\ pc[t] = "exists"
  /\ Goto(t, IF disk[key(t)] # None THEN "existed"
             ELSE IF req[t].known THEN "estimate" ELSE "create")
  /\ UNCHANGED <<storeVars, memoryVars, lockVars, req, local, clock, auxVars>>
------------------------------------------------------------------------------
(* ensureSpaceForWrite *)

(* Ask for the estimate, then for the entries of the index. *)
Estimate(t) ==
  /\ pc[t] = "estimate"
  /\ local' = [local EXCEPT ![t].usage = Usage]
  /\ Join(t)
  /\ Goto(t, "entries")
  /\ UNCHANGED <<storeVars, memoryVars, stage, scan, req, clock, auxVars>>

Indexed == {k \in Keys : index[k] # None}
(* Mutant of Evictable: the pinned files are not left out. *)
EvictableAll == Indexed
Evictable == {k \in Indexed : index[k].evictable}
TotalSize == SizeOf(index, Indexed)

(* getEntriesForEviction and the decision made on its result. *)
DecideSpace(t) ==
  LET need == NeedToFree(req[t].body, TotalSize, local[t].usage)
      own == IF req[t].spare THEN {key(t)} ELSE {}
      needOther == Larger(0, need - SizeOf(index, Evictable \cap own))
      others == Evictable \ own
  IN /\ Holds(t, "entries") /\ stage = "ready"
     /\ Leave
     /\ \/ /\ needOther = 0
           /\ Goto(t, "create")
           /\ local' = [local EXCEPT ![t] = NoLocal]
           /\ UNCHANGED mixed
        \/ /\ needOther > SizeOf(index, others)
           /\ Goto(t, "failed")
           /\ local' = [local EXCEPT ![t] = NoLocal]
           /\ UNCHANGED mixed
        \/ /\ needOther \in 1..SizeOf(index, others)
           /\ \E S \in computeEvictionSet(index, others, needOther) :
                 /\ local' = [local EXCEPT ![t] = Evicting(S, "no")]
                 /\ mixed' = mixed \cup Contended(t, S)
           /\ Goto(t, "evict")
     /\ UNCHANGED <<storeVars, memoryVars, scan, req, clock, restarts, outdated, doubled>>

(* evictFiles; removeFromEvictionIndex of nothing returns at once.         *)
Evict(t) ==
  /\ pc[t] = "evict"
  /\ RemoveEntries(local[t].keys)
  /\ Goto(t, IF local[t].keys = {} THEN AfterUnindex(t) ELSE "unindex")
  /\ UNCHANGED <<writables, memoryVars, lockVars, req, local, clock, auxVars>>
------------------------------------------------------------------------------
(* The write itself.  Until the writable is open nothing cleans up behind  *)
(* a failure: these two calls are outside of the `try`.                    *)

CreateFile(t) ==
  /\ pc[t] = "create"
  /\ disk' = [disk EXCEPT ![key(t)] = IF @ = None THEN Placeholder ELSE @]
  /\ Goto(t, "open")
  /\ UNCHANGED <<writables, memoryVars, lockVars, req, local, clock, auxVars>>

OpenWritable(t) ==
  /\ pc[t] = "open"
  /\ disk[key(t)] # None
  /\ writables' = writables \cup {t}
  /\ Goto(t, "stream")
  /\ UNCHANGED <<disk, memoryVars, lockVars, req, local, clock, auxVars>>

OpenFails(t) ==
  /\ pc[t] \in {"create", "open"}
  /\ Goto(t, "failed")
  /\ UNCHANGED <<storeVars, memoryVars, lockVars, req, local, clock, auxVars>>

(* The stream has ended and the writable is closed: the file gets its new  *)
(* content in one step, and is there again if it was removed meanwhile.    *)
CloseWritable(t) ==
  /\ pc[t] = "stream"
  /\ disk' = [disk EXCEPT ![key(t)] = FinishedFile(t)]
  /\ writables' = writables \ {t}
  /\ clock' = clock + 1
  /\ Goto(t, "stat")
  /\ UNCHANGED <<memoryVars, lockVars, req, local, auxVars>>

(* getFile after the stream, for the size of the file. *)
Stat(t) ==
  /\ pc[t] = "stat"
  /\ disk[key(t)] # None
  /\ local' = [local EXCEPT ![t].size = FileSize(disk[key(t)])]
  /\ Goto(t, "register")
  /\ UNCHANGED <<storeVars, memoryVars, lockVars, req, clock, auxVars>>

(* Mutant of CallRegister: the index is written without the lock. *)
CallRegisterUnlocked(t) ==
  /\ pc[t] = "register"
  /\ index' = [index EXCEPT ![key(t)] =
                 [size |-> local[t].size, lastAccessed |-> clock,
                  evictable |-> req[t].evictable]]
  /\ clock' = clock + 1
  /\ Goto(t, "written")
  /\ UNCHANGED <<storeVars, cachePopulated, meta, skipList, accessVars, lockVars, req, local, auxVars>>

CallRegister(t) ==
  /\ pc[t] = "register"
  /\ local' = [local EXCEPT ![t].now = clock]
  /\ clock' = clock + 1
  /\ Join(t)
  /\ Goto(t, "registering")
  /\ UNCHANGED <<storeVars, memoryVars, stage, scan, req, auxVars>>
------------------------------------------------------------------------------
(* The `catch`: the stream or the disk failed, the quota ran out, or the   *)
(* file is gone.  pipeTo aborts the wrapper and not the writable under it, *)
(* which may stay open.                                                    *)

Fail(t, reason, bytes) ==
  /\ local' = [local EXCEPT ![t] = [NoLocal EXCEPT !.failed = reason, !.size = bytes]]
  /\ Goto(t, "cleanup")
  /\ \/ UNCHANGED storeVars
     \/ t \in writables /\ writables' = writables \ {t} /\ UNCHANGED disk
  /\ UNCHANGED <<skipList, accessVars, lockVars, req, clock, restarts, outdated, doubled>>

StreamFails(t) ==
  /\ pc[t] = "stream"
  /\ \/ Fail(t, "error", 0)
     \/ \E bytes \in 1..req[t].body : Fail(t, "quota", bytes)
  /\ UNCHANGED <<indexVars, meta, mixed>>

(* A NotFoundError also drops the caches and the handle of the directory.  *)
FileMissing(t) ==
  /\ pc[t] \in {"stream", "stat"}
  /\ disk[key(t)] = None
  /\ Fail(t, "missing", 0)
  /\ InvalidateFolders(Folders)

Cleanup(t) ==
  /\ pc[t] = "cleanup"
  /\ RemoveEntries({key(t)})
  /\ IF local[t].failed = "quota"
     THEN Join(t) /\ Goto(t, "quotaEntries") /\ UNCHANGED <<local, writables>>
     ELSE /\ Goto(t, "failed")
          /\ local' = [local EXCEPT ![t] = NoLocal]
          /\ UNCHANGED <<line, writables>>
  /\ UNCHANGED <<memoryVars, stage, scan, req, clock, auxVars>>

(* The quota ran out: give up on the URL if not even the whole cache would *)
(* have made room for what was written, else evict that much.  The         *)
(* estimate of the second case is taken in the same step.                  *)
DecideQuota(t) ==
  /\ Holds(t, "quotaEntries") /\ stage = "ready"
  /\ Leave
  /\ IF local[t].size >= TotalSize
     THEN /\ skipList' = skipList \cup {key(t)}
          /\ Goto(t, "failed")
          /\ local' = [local EXCEPT ![t] = NoLocal]
          /\ UNCHANGED mixed
     ELSE /\ \E S \in computeEvictionSet(index, Evictable, local[t].size + Headroom(Usage)) :
                /\ local' = [local EXCEPT ![t] = Evicting(S, "quota")]
                /\ mixed' = mixed \cup Contended(t, S)
          /\ Goto(t, "evict")
          /\ UNCHANGED skipList
  /\ UNCHANGED <<storeVars, indexVars, meta, accessVars, scan, req, clock, restarts, outdated, doubled>>

WriteStep(t) ==
  \/ WriteExists(t) \/ Estimate(t) \/ DecideSpace(t) \/ Evict(t)
  \/ CreateFile(t) \/ OpenWritable(t) \/ OpenFails(t) \/ CloseWritable(t)
  \/ Stat(t) \/ CallRegister(t) \/ StreamFails(t) \/ FileMissing(t)
  \/ Cleanup(t) \/ DecideQuota(t)
==============================================================================
