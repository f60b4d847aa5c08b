----------------------------- MODULE ServeRange -----------------------------
(***************************************************************************)
(* The fetch handler of opfsServeRange (opfsServeRange.ts) with the URLs   *)
(* that a tab got from the network (opfsPerTabNetworkUrls.ts).             *)
(*                                                                         *)
(* Requests for one resource that find no metadata share one read of its   *)
(* footer; the read is named by the request that started it.  Meanwhile    *)
(* the scan of the directory fills the same metadata cache, and files are  *)
(* written and removed by the other plugins, whose steps are no more than  *)
(* their effects on the store and on the metadata.  Any of them may find   *)
(* the directory gone and drop the cached promise of it and the flag       *)
(* cachePopulated, so neither is kept: getFlatStoreDir may fail and a scan *)
(* may begin at any time.  A pathname stands for its key.                  *)
(*                                                                         *)
(* The browser may stop the worker at any time: the marks of the tabs, the *)
(* caches and the reads are in its memory only.                            *)
(***************************************************************************)
EXTENDS RangeUtil, Sequences, FiniteSets

CONSTANTS
  Requests, Tabs, Keys, Folders, None,
  RequestTypes,           \* records: tab, key, folder of the plugin, If-Range
                          \* (None or an etag), Range header
  Files,                  \* records: etag, body (its size), folder
  FooterLen,
  MaxPathnames,           \* MAX_PATHNAMES_PER_CLIENT
  MaxRestarts             \* bound of the model: how often the worker is stopped

(* A file that is being written: it is empty and has no footer.            *)
Unfinished == [etag |-> None, body |-> 0, folder |-> None]

ASSUME ServeAssumption ==
  /\ None \notin Requests \cup Keys \cup Folders \cup Files \cup RequestTypes
  /\ None # Unfinished
  /\ FooterLen \in Nat \ {0} /\ MaxPathnames \in Nat \ {0} /\ MaxRestarts \in Nat
  /\ \A f \in Files : f.body \in Nat /\ f.folder \in Folders /\ f.etag # None
  /\ \A q \in RequestTypes : /\ q.tab \in Tabs /\ q.key \in Keys
                             /\ q.folder \in Folders

VARIABLES
  disk,                   \* key -> None, Unfinished or a file
  removed,                \* keys whose removal is not yet known to the caches
  writing,                \* keys with a write under way
  meta,                   \* the metadata cache
  scan,                   \* the progress of the scan
  inflight,               \* metadataFooterInflight: key -> a request or None
  read,                   \* the read a request started
  served,                 \* tab -> the paths served from the network, in order
  req, pc,                \* the requests
  awaits,                 \* the read a request awaits
  cachedMeta,             \* the local of that name
  answer,                 \* what a 206 was made of
  mixed,                  \* auxiliary: keys removed or written during a read
  origin, kept,           \* auxiliary: see SourceIsKept
  restarts                \* how often the worker was stopped

storeVars == <<disk, removed, writing>>
metaVars == <<meta, scan>>
readVars == <<inflight, read>>
reqVars == <<req, pc, awaits, cachedMeta, answer>>
tabVars == <<origin, kept, restarts>>
vars == <<storeVars, metaVars, readVars, served, reqVars, mixed, tabVars>>

NoRead == [at |-> "none", file |-> None]
NoScan == [todo |-> {}, key |-> None, file |-> None]

Init ==
  /\ disk \in [Keys -> Files \cup {None}] /\ removed = {} /\ writing = {}
  /\ meta = [k \in Keys |-> None]
  /\ scan = NoScan
  /\ inflight = [k \in Keys |-> None]
  /\ read = [r \in Requests |-> NoRead]
  /\ served = [t \in Tabs |-> <<>>]
  /\ req = [r \in Requests |-> None] /\ pc = [r \in Requests |-> "idle"]
  /\ awaits = [r \in Requests |-> None]
  /\ cachedMeta = [r \in Requests |-> None]
  /\ answer = [r \in Requests |-> None]
  /\ mixed = {}
  /\ origin = [r \in Requests |-> "none"] /\ kept = {}
  /\ restarts = 0

FooterMeta(f) == [etag |-> f.etag, fullSize |-> f.body, folder |-> f.folder]

InvalidateFolders(fs) ==
  meta' = [k \in Keys |-> IF meta[k] # None /\ meta[k].folder \in fs
                          THEN None ELSE meta[k]]

(* The scan takes the size of the whole file. *)
ScanMeta(f) ==
  [etag |-> f.etag, folder |-> f.folder,
   fullSize |-> IF f = Unfinished THEN 0 ELSE f.body + FooterLen]
------------------------------------------------------------------------------
(* The paths a tab was served from the network. *)

Has(s, k) == \E i \in DOMAIN s : s[i] = k
Without(s, k) == LET i == CHOOSE i \in DOMAIN s : s[i] = k
                 IN [j \in 1..(Len(s) - 1) |-> IF j < i THEN s[j] ELSE s[j + 1]]

(* At the limit the first path goes, also if k is there already. *)
Mark(s, k) == LET rest == IF Len(s) >= MaxPathnames THEN Tail(s) ELSE s
              IN IF Has(rest, k) THEN rest ELSE Append(rest, k)

addUrlServedFromNetwork(r) ==
  served' = [served EXCEPT ![req[r].tab] = Mark(@, req[r].key)]

isUrlServedFromNetwork(r) == Has(served[req[r].tab], req[r].key)

(* The page reconnects its player: OPFS_REQUEST_CLEAR_SERVED_FROM_NETWORK. *)
Reconnect(t, k) ==
  /\ Has(served[t], k)
  /\ served' = [served EXCEPT ![t] = Without(@, k)]
  /\ kept' = kept \ {<<t, k>>}
  /\ origin' = [r \in Requests |->
                  IF req[r] # None /\ req[r].tab = t /\ req[r].key = k
                  THEN "none" ELSE origin[r]]
  /\ UNCHANGED <<storeVars, metaVars, readVars, reqVars, mixed, restarts>>
------------------------------------------------------------------------------
(* The steps of a request. *)

Goto(r, p) == pc' = [pc EXCEPT ![r] = p]

Arrive(r, q, p, o) ==
  /\ pc[r] = "idle"
  /\ req' = [req EXCEPT ![r] = q]
  /\ Goto(r, p)
  /\ origin' = [origin EXCEPT ![r] = o]
  /\ UNCHANGED <<storeVars, metaVars, readVars, served, awaits, cachedMeta,
                 answer, mixed, kept, restarts>>

(* The handler returns before it looks into the store, and marks nothing:  *)
(* the request has no Range header, is no GET, is not included, has no     *)
(* clientId, or its URL cannot be hashed.                                  *)
Unhandled(r, q) == Arrive(r, q, "network", "unmarked")

Begin(r, q) ==
  Arrive(r, q, "dir", IF <<q.tab, q.key>> \in kept THEN "kept" ELSE "any")

(* getFlatStoreDir fails: invalidateAllCachesAndPluginRoot. *)
DirFails(r) ==
  /\ pc[r] = "dir"
  /\ InvalidateFolders(Folders)
  /\ addUrlServedFromNetwork(r)
  /\ Goto(r, "network")
  /\ UNCHANGED <<storeVars, scan, readVars, req, awaits, cachedMeta, answer,
                 mixed, tabVars>>

PassThrough(r) ==
  /\ Goto(r, "network")
  /\ UNCHANGED <<meta, answer>>

(* invalidateCachesForFileKeyOnError up to its await of the lock. *)
Invalidate(r) ==
  /\ meta' = [meta EXCEPT ![req[r].key] = None]
  /\ Goto(r, "invalidating")
  /\ UNCHANGED <<served, answer>>

ifRangeMatches(q, m) == q.ifRange = None \/ q.ifRange = m.etag

Respond(r, m, f) ==
  /\ answer' = [answer EXCEPT ![r] =
                  [meta |-> m, file |-> f,
                   range |-> parseRangeHeader(req[r].header, m.fullSize)]]
  /\ Goto(r, "served")
  /\ UNCHANGED <<meta, served>>

(* From the metadata to the first await behind it; f is None if only the   *)
(* metadata are there.                                                     *)
Decide(r, m, f) ==
  LET range == parseRangeHeader(req[r].header, m.fullSize)
      ours == m.folder = req[r].folder
  IN \/ /\ ~ours \/ (~isUrlServedFromNetwork(r) /\ ~ifRangeMatches(req[r], m))
        /\ addUrlServedFromNetwork(r) /\ PassThrough(r) /\ UNCHANGED cachedMeta
     \/ /\ ours /\ isUrlServedFromNetwork(r)
        /\ PassThrough(r) /\ UNCHANGED <<served, cachedMeta>>
     \/ /\ ours /\ ~isUrlServedFromNetwork(r) /\ ifRangeMatches(req[r], m)
        /\ \/ range = Error /\ Invalidate(r) /\ UNCHANGED cachedMeta
           \/ range # Error /\ f # None /\ Respond(r, m, f) /\ UNCHANGED cachedMeta
           \/ /\ range # Error /\ f = None
              /\ cachedMeta' = [cachedMeta EXCEPT ![r] = m]
              /\ Goto(r, "file")
              /\ UNCHANGED <<meta, served, answer>>

(* The directory is there; the metadata are cached, or a read is joined or *)
(* started.                                                                *)
Lookup(r) ==
  /\ pc[r] = "dir"
  /\ LET k == req[r].key
     IN \/ /\ meta[k] # None
           /\ Decide(r, meta[k], None)
           /\ UNCHANGED <<readVars, awaits>>
        \/ /\ meta[k] = None
           /\ IF inflight[k] # None
              THEN UNCHANGED readVars
              ELSE /\ inflight' = [inflight EXCEPT ![k] = r]
                   /\ read' = [read EXCEPT ![r].at = "open"]
           /\ awaits' = [awaits EXCEPT ![r] = inflight'[k]]
           /\ Goto(r, "waiting")
           /\ UNCHANGED <<meta, served, cachedMeta, answer>>
  /\ UNCHANGED <<storeVars, scan, req, mixed, tabVars>>

(* The read a request awaits has settled. *)
Await(r) ==
  /\ pc[r] = "waiting"
  /\ LET loaded == read[awaits[r]]
     IN \/ /\ loaded.at = "loaded"
           /\ Decide(r, FooterMeta(loaded.file), loaded.file)
        \/ /\ loaded.at = "folder_mismatch"
           /\ addUrlServedFromNetwork(r) /\ PassThrough(r) /\ UNCHANGED cachedMeta
        \/ loaded.at = "failed" /\ Invalidate(r) /\ UNCHANGED cachedMeta
  /\ awaits' = [awaits EXCEPT ![r] = None]
  /\ UNCHANGED <<storeVars, scan, readVars, req, mixed, tabVars>>

(* getFileHandle and getFile for metadata that were cached. *)
OpenFile(r) ==
  /\ pc[r] = "file"
  /\ \/ /\ disk[req[r].key] # None
        /\ Respond(r, cachedMeta[r], disk[req[r].key])
     \/ Invalidate(r)
  /\ cachedMeta' = [cachedMeta EXCEPT ![r] = None]
  /\ UNCHANGED <<storeVars, scan, readVars, req, awaits, mixed, tabVars>>

(* Mutant of Invalidated: the path is not marked. *)
InvalidatedUnmarked(r) ==
  /\ pc[r] = "invalidating"
  /\ Goto(r, "network")
  /\ UNCHANGED <<storeVars, metaVars, readVars, served, req, awaits,
                 cachedMeta, answer, mixed, tabVars>>

(* The entry of the index is gone, and the request is passed on. *)
Invalidated(r) ==
  /\ pc[r] = "invalidating"
  /\ addUrlServedFromNetwork(r)
  /\ Goto(r, "network")
  /\ UNCHANGED <<storeVars, metaVars, readVars, req, awaits, cachedMeta,
                 answer, mixed, tabVars>>

(* The network answers a request that was passed on.  The plugin that      *)
(* fetches it marks the path; without that plugin the browser fetches.     *)
NetworkAnswer(r) ==
  LET path == {<<req[r].tab, req[r].key>>}
  IN /\ pc[r] = "network"
     /\ Goto(r, "passed")
     /\ \/ /\ addUrlServedFromNetwork(r)
           /\ kept' = IF origin[r] = "none" THEN kept ELSE kept \cup path
        \/ /\ UNCHANGED served
           /\ kept' = IF origin[r] \in {"none", "unmarked"} THEN kept
                      ELSE kept \cup path
     /\ origin' = [origin EXCEPT ![r] = "none"]
     /\ UNCHANGED <<storeVars, metaVars, readVars, req, awaits, cachedMeta,
                    answer, mixed, restarts>>

(* The browser stops the worker and starts another: what is under way is   *)
(* lost, and what was in memory is empty again.                            *)
Restart ==
  /\ restarts < MaxRestarts
  /\ restarts' = restarts + 1
  /\ removed' = {} /\ writing' = {}
  /\ meta' = [k \in Keys |-> None] /\ scan' = NoScan
  /\ inflight' = [k \in Keys |-> None] /\ read' = [r \in Requests |-> NoRead]
  /\ served' = [t \in Tabs |-> <<>>] /\ kept' = {}
  /\ pc' = [r \in Requests |-> IF pc[r] \in {"idle", "served", "passed"}
                               THEN pc[r] ELSE "lost"]
  /\ awaits' = [r \in Requests |-> None]
  /\ cachedMeta' = [r \in Requests |-> None]
  /\ origin' = [r \in Requests |-> "none"]
  /\ UNCHANGED <<disk, req, answer, mixed>>
------------------------------------------------------------------------------
(* startMetadataFooterInflight *)

(* The read settles, with its file if that was loaded, and the finally     *)
(* forgets it.                                                             *)
Settle(r, at, file) ==
  /\ read' = [read EXCEPT ![r] = [at |-> at, file |-> file]]
  /\ inflight' = [inflight EXCEPT ![req[r].key] = None]

(* getFileHandle and getFile. *)
ReadOpen(r) ==
  /\ read[r].at = "open"
  /\ disk[req[r].key] # None
  /\ read' = [read EXCEPT ![r] = [at |-> "footer", file |-> disk[req[r].key]]]
  /\ UNCHANGED <<storeVars, metaVars, inflight, served, reqVars, mixed, tabVars>>

(* Mutant of ReadFooter: a read that is over stays in the map. *)
ReadFooterKept(r) ==
  /\ read[r].at = "footer"
  /\ IF read[r].file.folder = req[r].folder
     THEN /\ meta' = [meta EXCEPT ![req[r].key] = FooterMeta(read[r].file)]
          /\ read' = [read EXCEPT ![r].at = "loaded"]
     ELSE UNCHANGED meta /\ read' = [read EXCEPT ![r].at = "folder_mismatch"]
  /\ UNCHANGED <<storeVars, scan, inflight, served, reqVars, mixed, tabVars>>

ReadFooter(r) ==
  /\ read[r].at = "footer"
  /\ IF read[r].file.folder = req[r].folder
     THEN /\ meta' = [meta EXCEPT ![req[r].key] = FooterMeta(read[r].file)]
          /\ Settle(r, "loaded", read[r].file)
     ELSE UNCHANGED meta /\ Settle(r, "folder_mismatch", None)
  /\ UNCHANGED <<storeVars, scan, served, reqVars, mixed, tabVars>>

(* Mutant of ReadFails: only a read that comes to the footer settles. *)
ReadFailsUnsettled(r) ==
  /\ read[r].at = "footer"
  /\ Settle(r, "failed", None)
  /\ UNCHANGED <<storeVars, metaVars, served, reqVars, mixed, tabVars>>

ReadFails(r) ==
  /\ read[r].at \in {"open", "footer"}
  /\ Settle(r, "failed", None)
  /\ UNCHANGED <<storeVars, metaVars, served, reqVars, mixed, tabVars>>
------------------------------------------------------------------------------
(* The other plugins. *)

(* populateCacheUnlocked, called by the warm-up, by writes, and by         *)
(* updateEvictionIndexLastAccessed when a range was served.                *)
ScanBegin ==
  /\ scan = NoScan
  /\ meta' = [k \in Keys |-> None]
  /\ scan' = [NoScan EXCEPT !.todo = {k \in Keys : disk[k] # None}]
  /\ UNCHANGED <<storeVars, readVars, served, reqVars, mixed, tabVars>>

ScanRead(k) ==
  /\ scan.key = None /\ k \in scan.todo
  /\ scan' = IF disk[k] = None THEN [scan EXCEPT !.todo = @ \ {k}]
             ELSE [todo |-> scan.todo \ {k}, key |-> k, file |-> disk[k]]
  /\ UNCHANGED <<storeVars, meta, readVars, served, reqVars, mixed, tabVars>>

ScanRecord ==
  /\ scan.key # None
  /\ meta' = [meta EXCEPT ![scan.key] = ScanMeta(scan.file)]
  /\ scan' = [scan EXCEPT !.key = None, !.file = None]
  /\ UNCHANGED <<storeVars, readVars, served, reqVars, mixed, tabVars>>

(* A write creates its file, and closes it or removes it; the removal may  *)
(* be refused.  What is in the way of a file that was removed or replaced  *)
(* meanwhile is left out of AnswerIsRight.                                 *)
WriteBegin(k) ==
  /\ disk[k] = None
  /\ disk' = [disk EXCEPT ![k] = Unfinished]
  /\ writing' = writing \cup {k}
  /\ mixed' = IF \/ k \in removed
                 \/ \E r \in Requests : pc[r] = "file" /\ req[r].key = k
              THEN mixed \cup {k} ELSE mixed
  /\ UNCHANGED <<removed, metaVars, readVars, served, reqVars, tabVars>>

WriteEnd(k, f) ==
  /\ k \in writing
  /\ writing' = writing \ {k}
  /\ disk' = [disk EXCEPT ![k] = f]
  /\ mixed' = IF disk[k] = Unfinished THEN mixed ELSE mixed \cup {k}
  /\ UNCHANGED <<removed, metaVars, readVars, served, reqVars, tabVars>>

WriteLeft(k) ==
  /\ k \in writing
  /\ writing' = writing \ {k}
  /\ UNCHANGED <<disk, removed, metaVars, readVars, served, reqVars, mixed, tabVars>>

(* A deletion or an eviction removes the file, and then tells the caches.  *)
Remove(k) ==
  /\ disk[k] # None
  /\ disk' = [disk EXCEPT ![k] = None]
  /\ removed' = removed \cup {k}
  /\ UNCHANGED writing
  /\ mixed' = IF inflight[k] # None \/ scan # NoScan THEN mixed \cup {k} ELSE mixed
  /\ UNCHANGED <<metaVars, readVars, served, reqVars, tabVars>>

(* Mutant of Unindex: removeFromEvictionIndex leaves the metadata. *)
UnindexOnly(k) ==
  /\ k \in removed
  /\ removed' = removed \ {k}
  /\ UNCHANGED <<disk, writing, metaVars, readVars, served, reqVars, mixed, tabVars>>

(* removeFromEvictionIndex *)
Unindex(k) ==
  /\ k \in removed
  /\ removed' = removed \ {k}
  /\ meta' = [meta EXCEPT ![k] = None]
  /\ UNCHANGED <<disk, writing, scan, readVars, served, reqVars, mixed, tabVars>>

(* The user clears the data of the site, or a clear that is to invalidate  *)
(* its folder later removes the file.                                      *)
RemoveOutside(k) ==
  /\ disk[k] # None
  /\ disk' = [disk EXCEPT ![k] = None]
  /\ mixed' = mixed \cup {k}
  /\ UNCHANGED <<removed, writing, metaVars, readVars, served, reqVars, tabVars>>

(* invalidateAllCachesForFolder *)
InvalidateFolder(fo) ==
  /\ InvalidateFolders({fo})
  /\ UNCHANGED <<storeVars, scan, readVars, served, reqVars, mixed, tabVars>>
------------------------------------------------------------------------------
Serve(r) == DirFails(r) \/ Lookup(r) \/ Await(r) \/ OpenFile(r) \/ Invalidated(r)
            \/ NetworkAnswer(r)
Read(r) == ReadOpen(r) \/ ReadFooter(r) \/ ReadFails(r)
Scan == ScanBegin \/ ScanRecord \/ \E k \in Keys : ScanRead(k)

Others ==
  \/ Scan
  \/ \E k \in Keys : \/ WriteBegin(k) \/ WriteLeft(k) \/ Remove(k) \/ Unindex(k) \/ RemoveOutside(k)
                     \/ \E f \in Files \cup {None} : WriteEnd(k, f)
                     \/ \E t \in Tabs : Reconnect(t, k)
  \/ \E fo \in Folders : InvalidateFolder(fo)

Next == \/ \E r \in Requests : \/ Serve(r) \/ Read(r)
                               \/ \E q \in RequestTypes : Begin(r, q) \/ Unhandled(r, q)
        \/ Others \/ Restart

(* Calls of the file system and of the network come back while the worker  *)
(* runs; Restart is the browser's, and has no fairness.                    *)
Spec == Init /\ [][Next]_vars
        /\ \A r \in Requests : WF_vars(Serve(r)) /\ WF_vars(Read(r))
------------------------------------------------------------------------------
(* Requests for one resource share one read of its footer                  *)
(* (opfsServeRange.ts:42), and a read is in the map exactly as long as it  *)
(* runs, whichever way it ends.                                            *)
Running(r) == read[r].at \in {"open", "footer"}
InflightInv ==
  /\ \A k \in Keys, r \in Requests :
       inflight[k] = r <=> Running(r) /\ req[r] # None /\ req[r].key = k
  /\ \A r \in Requests :
       pc[r] = "waiting" => /\ awaits[r] \in Requests
                            /\ read[awaits[r]].at # "none"
                            /\ req[awaits[r]].key = req[r].key

(* A 206 is made of metadata and a file that belong together: the file is  *)
(* of the folder of the plugin, has the etag of the response, and the one  *)
(* If-Range names.  Left out are resources whose file was removed or       *)
(* written while it was read, or removed without telling the caches.       *)
AnswerIsRight ==
  \A r \in Requests :
    pc[r] = "served" /\ req[r].key \notin mixed =>
      LET a == answer[r]
      IN /\ a.file.folder = req[r].folder
         /\ a.file.etag = a.meta.etag
         /\ ifRangeMatches(req[r], a.file)

(* A tab that was answered from the network is not switched to the store:  *)
(* not a request that begins later, until the player reconnects.  `kept`   *)
(* are the paths a tab got from the network that the handler passed on     *)
(* after it looked into the store, or that the other plugin marked, in the *)
(* life of this worker.  For what the handler passed on before, and behind *)
(* a stop of the worker, the claim does not hold.  A tab that has marked   *)
(* as many paths as there is room for is left out.                         *)
PathsOf(t) == {req[r].key : r \in {s \in Requests : req[s] # None /\ req[s].tab = t}}
SourceIsKept ==
  \A r \in Requests :
    origin[r] = "kept" /\ Cardinality(PathsOf(req[r].tab)) < MaxPathnames =>
      pc[r] # "served"

(* Every request that has begun gets its answer, or is lost with a worker  *)
(* that is stopped: whatever it awaits, it does not wait for ever.  (A     *)
(* request is idle before it begins and never again.)                      *)
EveryRequestEnds ==
  \A r \in Requests : []<>(pc[r] \in {"idle", "served", "passed", "lost"})
==============================================================================
