---------------------------- MODULE CacheControl ----------------------------
(***************************************************************************)
(* The requests a page sends to opfsCacheControl.ts about the store: is a  *)
(* resource cached, which are, delete one, clear a folder (clearOpfsCache  *)
(* of opfsUtil.ts).                                                        *)
(***************************************************************************)
EXTENDS EvictionIndex

(* DELETE: the file goes first, its entries in the caches after it.  That  *)
(* it could not be removed is not noticed.                                 *)
Delete(t) ==
  /\ pc[t] = "remove"
  /\ RemoveEntries({req[t].key})
  /\ local' = [local EXCEPT ![t].keys = {req[t].key}]
  /\ Goto(t, "unindex")
  /\ UNCHANGED <<writables, memoryVars, lockVars, req, clock, auxVars>>

(* The keys of which the metadata cache knows that they are in the folder. *)
Listed(folder) == {k \in Keys : meta[k] # None /\ meta[k].folder = folder}

(* HAS: the metadata cache answers if it knows the file in this folder,    *)
(* else the file does.                                                     *)
Lookup(t) ==
  /\ pc[t] = "lookup"
  /\ Goto(t, IF req[t].key \in Listed(req[t].folder) THEN "yes" ELSE "read")
  /\ UNCHANGED <<storeVars, memoryVars, lockVars, req, local, clock, auxVars>>

ReadFile(t) ==
  /\ pc[t] = "read"
  /\ Goto(t, IF IsInFolder(req[t].key, req[t].folder) THEN "yes" ELSE "no")
  /\ UNCHANGED <<storeVars, memoryVars, lockVars, req, local, clock, auxVars>>

(* LIST: the entries of the metadata cache for the folder, and no file is  *)
(* looked at.                                                              *)
ListEntries(t) ==
  /\ pc[t] = "listing"
  /\ local' = [local EXCEPT ![t].keys = Listed(req[t].folder)]
  /\ Goto(t, "done")
  /\ UNCHANGED <<storeVars, memoryVars, lockVars, req, clock, auxVars>>

(* CLEAR: read every file's footer, remove the folder's files one by one,  *)
(* then drop the caches.                                                   *)
ClearRead(t, k) ==
  /\ pc[t] = "collect"
  /\ k \in local[t].todo
  /\ local' = [local EXCEPT
                 ![t].todo = @ \ {k},
                 ![t].keys = IF IsInFolder(k, req[t].folder)
                             THEN @ \cup {k} ELSE @]
  /\ UNCHANGED <<storeVars, memoryVars, lockVars, pc, req, clock, auxVars>>

ClearRemove(t, k) ==
  /\ pc[t] = "collect" /\ local[t].todo = {}
  /\ k \in local[t].keys
  /\ RemoveEntries({k})
  /\ local' = [local EXCEPT ![t].keys = @ \ {k}]
  /\ UNCHANGED <<writables, memoryVars, lockVars, pc, req, clock, auxVars>>

ClearEnd(t) ==
  /\ pc[t] = "collect" /\ local[t].todo = {} /\ local[t].keys = {}
  /\ InvalidateFolders({req[t].folder})
  /\ Goto(t, "done")
  /\ UNCHANGED <<storeVars, skipList, accessVars, lockVars, req, local, clock, restarts, outdated, doubled>>

ControlStep(t) ==
  \/ Delete(t) \/ Lookup(t) \/ ReadFile(t) \/ ListEntries(t) \/ ClearEnd(t)
  \/ \E k \in Keys : ClearRead(t, k) \/ ClearRemove(t, k)
==============================================================================
