----------------------------- MODULE LastAccess -----------------------------
(***************************************************************************)
(* The time of the last use of a file (opfsEvictionIndex.ts): a use is     *)
(* noted in the index under its lock, and some seconds later written into  *)
(* the footer of the file.                                                 *)
(*                                                                         *)
(* The timer of scheduleFooterFlush is set whenever something is pending,  *)
(* and has no variable of its own.                                         *)
(***************************************************************************)
EXTENDS EvictionIndex

Never == [k \in Keys |-> 0]
NoFlushes == [k \in Keys |-> NoFlush]

(* updateEvictionIndexLastAccessed with the caches populated. *)
TouchEnd(t) ==
  LET k == req[t].key
  IN /\ Holds(t, "touching") /\ stage = "ready"
     /\ Leave
     /\ Goto(t, "done")
     /\ local' = [local EXCEPT ![t] = NoLocal]
     /\ IF index[k] = None \/ ~index[k].evictable
        THEN UNCHANGED <<index, lastUpdate, pendingWrites>>
        ELSE /\ index' = [index EXCEPT ![k].lastAccessed = local[t].now]
             /\ lastUpdate' = [lastUpdate EXCEPT ![k] = local[t].now]
             /\ pendingWrites' = [pendingWrites EXCEPT ![k] = local[t].now]
     /\ UNCHANGED <<storeVars, cachePopulated, meta, skipList, flush, scan, req,
                    clock, auxVars>>

(* The use before is less than LAST_ACCESSED_THROTTLE_MS ago. *)
Throttled(t, r) ==
  /\ pc[t] = "idle" /\ r.op = "touch"
  /\ lastUpdate[r.key] # 0
  /\ req' = [req EXCEPT ![t] = r]
  /\ Goto(t, "done")
  /\ UNCHANGED <<storeVars, memoryVars, lockVars, local, clock, auxVars>>

Pending == {k \in Keys : pendingWrites[k] # 0}

(* Mutant of Fire: the Map is cleared before it is copied. *)
FireEmpty ==
  /\ Pending # {} /\ Flushed \cap Pending = {}
  /\ pendingWrites' = Never
  /\ mixed' = mixed \cup (Pending \cap ChangedBy(Tasks))
  /\ UNCHANGED <<storeVars, indexVars, meta, skipList, lastUpdate, flush, lockVars,
                 pc, req, local, clock, restarts, outdated, doubled>>

(* The timer fires: the pending footers are written side by side.  Those   *)
(* of the timer before, some seconds ago, are over.                        *)
Fire ==
  /\ Pending # {} /\ Flushed \cap Pending = {}
  /\ pendingWrites' = Never
  /\ flush' = [k \in Keys |-> IF k \in Pending
                              THEN [at |-> "read", time |-> pendingWrites[k], file |-> None]
                              ELSE flush[k]]
  /\ mixed' = mixed \cup (Pending \cap ChangedBy(Tasks))
  /\ UNCHANGED <<storeVars, indexVars, meta, skipList, lastUpdate, lockVars,
                 pc, req, local, clock, restarts, outdated, doubled>>
------------------------------------------------------------------------------
(* writeLastAccessedToFileFooter *)

(* The file and its metadata are read; a file without footer is left alone.*)
FlushRead(k) ==
  /\ flush[k].at = "read" /\ disk[k] # None
  /\ flush' = [flush EXCEPT ![k] = IF disk[k].written
                                   THEN [at |-> "open", time |-> @.time, file |-> disk[k]]
                                   ELSE NoFlush]
  /\ UNCHANGED <<disk, mixed>>

(* createWritable with keepExistingData. *)
FlushOpen(k) ==
  /\ flush[k].at = "open" /\ disk[k] # None
  /\ flush' = [flush EXCEPT ![k].at = "write"]
  /\ UNCHANGED <<disk, mixed>>

(* The writable is closed.  The body is as long as that of the file that   *)
(* was read, and so is its footer but for the time.  A scan that is at the *)
(* file may find it changed.                                               *)
FlushClose(k) ==
  /\ flush[k].at = "write"
  /\ disk' = [disk EXCEPT ![k] = [flush[k].file EXCEPT !.lastAccessed = flush[k].time]]
  /\ flush' = [flush EXCEPT ![k] = NoFlush]
  /\ mixed' = IF scan.key = k THEN mixed \cup {k} ELSE mixed

(* Any of the calls fails, which is ignored. *)
FlushFails(k) ==
  /\ flush[k].at # "none"
  /\ flush' = [flush EXCEPT ![k] = NoFlush]
  /\ mixed' = mixed \cup {k}
  /\ UNCHANGED disk

Flush(k) ==
  /\ FlushRead(k) \/ FlushOpen(k) \/ FlushClose(k) \/ FlushFails(k)
  /\ UNCHANGED <<writables, indexVars, meta, skipList, lastUpdate, pendingWrites,
                 lockVars, pc, req, local, clock, restarts, outdated, doubled>>
==============================================================================
