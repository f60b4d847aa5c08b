-------------------------- MODULE ServeRangeProofs --------------------------
(***************************************************************************)
(* Proofs about opfsServeRange.ts for any requests, tabs, resources and    *)
(* files: the shared reads of footers (metadataFooterInflight), what a 206 *)
(* is made of, and the source of the requests of a tab.                    *)
(***************************************************************************)
EXTENDS ServeRange, FiniteSetTheorems, TLAPS

Begun == {"dir", "waiting", "file", "invalidating", "network", "served", "passed", "lost"}
ReadStates == {"none", "open", "footer", "loaded", "folder_mismatch", "failed"}

(* The request of a read is known and has looked up its metadata. *)
ReadsInv ==
  /\ inflight \in [Keys -> Requests \cup {None}]
  /\ DOMAIN read = Requests /\ DOMAIN awaits = Requests
  /\ pc \in [Requests -> Begun \cup {"idle"}]
  /\ \A r \in Requests :
       /\ read[r] = [at |-> read[r].at, file |-> read[r].file]
       /\ read[r].at \in ReadStates
       /\ pc[r] # "idle" => req[r] \in RequestTypes
       /\ pc[r] \in {"idle", "dir"} => read[r].at = "none"
  /\ DOMAIN req = Requests
  /\ InflightInv

LEMMA InitReadsInv == Init => ReadsInv
BY ServeAssumption DEF Init, ReadsInv, InflightInv, Running, NoRead, Begun, ReadStates

(* A step that starts and ends no read, changes no request, and makes      *)
(* no request wait.                                                        *)
LEMMA OtherStep ==
  ASSUME ReadsInv, UNCHANGED <<readVars, req>>,
         DOMAIN awaits' = Requests,
         pc' \in [Requests -> Begun \cup {"idle"}],
         \A r \in Requests : /\ pc'[r] = pc[r] \/ (pc[r] # "idle" /\ pc'[r] \in Begun \ {"dir"})
                             /\ pc'[r] = "waiting" => pc[r] = "waiting" /\ awaits'[r] = awaits[r]
  PROVE  ReadsInv'
<1>1. InflightInv'
  BY DEF ReadsInv, InflightInv, Running, readVars
<1>2. QED
  BY <1>1 DEF ReadsInv, readVars, Begun

(* The steps of a request behind its lookup. *)
LEMMA GotoStep ==
  ASSUME ReadsInv, UNCHANGED <<readVars, req>>, NEW r \in Requests,
         pc[r] # "idle", NEW p \in Begun \ {"dir", "waiting"}, Goto(r, p),
         DOMAIN awaits' = Requests,
         \A s \in Requests \ {r} : awaits'[s] = awaits[s]
  PROVE  ReadsInv'
BY OtherStep DEF Goto, ReadsInv, Begun

LEMMA DecideGoes ==
  ASSUME NEW r, NEW m, NEW f, Decide(r, m, f)
  PROVE  \E p \in Begun \ {"dir", "waiting"} : Goto(r, p)
BY DEF Decide, PassThrough, Invalidate, Respond, Begun

LEMMA ArriveReadsInv ==
  ASSUME ReadsInv, NEW r \in Requests, NEW q \in RequestTypes,
         NEW p \in {"dir", "network"}, NEW o, Arrive(r, q, p, o)
  PROVE  ReadsInv'
<1>1. read[r].at = "none"
  BY DEF Arrive, ReadsInv
<1>2. pc' = [pc EXCEPT ![r] = p] /\ req' = [req EXCEPT ![r] = q]
  BY DEF Arrive, Goto
<1>3. UNCHANGED <<inflight, read, awaits>>
  BY DEF Arrive, readVars
<1>4. InflightInv'
  <2>1. ASSUME NEW k \in Keys, NEW s \in Requests
        PROVE  inflight'[k] = s <=> Running(s)' /\ req'[s] # None /\ req'[s].key = k
    <3>1. CASE s = r
      BY <1>1, <1>2, <1>3, <3>1 DEF ReadsInv, InflightInv, Running
    <3>2. CASE s # r
      BY <1>2, <1>3, <3>2 DEF ReadsInv, InflightInv, Running
    <3>3. QED
      BY <3>1, <3>2
  <2>2. ASSUME NEW s \in Requests, pc'[s] = "waiting"
        PROVE  /\ awaits'[s] \in Requests
               /\ read'[awaits'[s]].at # "none"
               /\ req'[awaits'[s]].key = req'[s].key
    <3>1. s # r /\ pc[s] = "waiting"
      BY <1>2, <2>2 DEF ReadsInv
    <3>2. awaits[s] # r
      BY <1>1, <3>1 DEF ReadsInv, InflightInv
    <3>3. QED
      BY <1>2, <1>3, <3>1, <3>2 DEF ReadsInv, InflightInv
  <2>3. QED
    BY <2>1, <2>2 DEF InflightInv
<1>5. QED
  BY <1>1, <1>2, <1>3, <1>4 DEF ReadsInv, Begun

(* Metadata are missing: a read is joined, or one is started where there   *)
(* was none.                                                               *)
LEMMA LookupReadsInv ==
  ASSUME ReadsInv, NEW r \in Requests, Lookup(r)
  PROVE  ReadsInv'
<1> DEFINE k == req[r].key
<1>1. pc[r] = "dir" /\ read[r].at = "none" /\ k \in Keys
  BY ServeAssumption DEF Lookup, ReadsInv
<1>2. ASSUME Decide(r, meta[k], None), UNCHANGED <<readVars, awaits>>
      PROVE  ReadsInv'
  <2>1. PICK p \in Begun \ {"dir", "waiting"} : Goto(r, p)
    BY <1>2, DecideGoes
  <2>2. UNCHANGED req /\ DOMAIN awaits' = Requests
    BY <1>2 DEF Lookup, ReadsInv
  <2>3. QED
    BY <1>1, <1>2, <2>1, <2>2, GotoStep
<1>3. ASSUME inflight[k] # None, UNCHANGED readVars,
             awaits' = [awaits EXCEPT ![r] = inflight'[k]], Goto(r, "waiting")
      PROVE  ReadsInv'
  <2>1. UNCHANGED <<inflight, read, req>>
    BY <1>3 DEF Lookup, readVars
  <2>2. inflight[k] \in Requests /\ Running(inflight[k]) /\ req[inflight[k]].key = k
    BY <1>1, <1>3 DEF ReadsInv, InflightInv
  <2>3. InflightInv'
    BY <1>3, <2>1, <2>2 DEF ReadsInv, InflightInv, Running, Goto
  <2>4. QED
    BY <1>1, <1>3, <2>1, <2>3 DEF ReadsInv, Goto, Begun
<1>4. ASSUME inflight[k] = None,
             inflight' = [inflight EXCEPT ![k] = r],
             read' = [read EXCEPT ![r].at = "open"],
             awaits' = [awaits EXCEPT ![r] = inflight'[k]], Goto(r, "waiting")
      PROVE  ReadsInv'
  <2>1. UNCHANGED req /\ req[r] # None /\ req[r] \in RequestTypes
    BY <1>1, ServeAssumption DEF Lookup, ReadsInv
  <2>2. inflight'[k] = r /\ \A j \in Keys \ {k} : inflight'[j] = inflight[j]
    BY <1>1, <1>4 DEF ReadsInv
  <2>3. /\ read'[r] = [at |-> "open", file |-> read[r].file]
        /\ \A s \in Requests \ {r} : read'[s] = read[s]
    BY <1>4 DEF ReadsInv
  <2>4. /\ pc'[r] = "waiting" /\ awaits'[r] = r
        /\ \A s \in Requests \ {r} : pc'[s] = pc[s] /\ awaits'[s] = awaits[s]
    BY <1>4, <2>2 DEF ReadsInv, Goto
  <2>5. ASSUME NEW j \in Keys, NEW s \in Requests
        PROVE  inflight'[j] = s <=> Running(s)' /\ req'[s] # None /\ req'[s].key = j
    <3>1. CASE j = k
      BY <1>1, <1>4, <2>1, <2>2, <2>3, <3>1, ServeAssumption
         DEF ReadsInv, InflightInv, Running
    <3>2. CASE j # k
      BY <1>1, <1>4, <2>1, <2>2, <2>3, <3>2 DEF ReadsInv, InflightInv, Running
    <3>3. QED
      BY <3>1, <3>2
  <2>6. InflightInv'
    BY <2>1, <2>3, <2>4, <2>5 DEF ReadsInv, InflightInv
  <2>7. QED
    BY <1>1, <1>4, <2>1, <2>2, <2>3, <2>4, <2>6
       DEF ReadsInv, Goto, Begun, ReadStates
<1>5. QED
  BY <1>2, <1>3, <1>4 DEF Lookup

LEMMA AwaitReadsInv ==
  ASSUME ReadsInv, NEW r \in Requests, Await(r)
  PROVE  ReadsInv'
<1>1. PICK p \in Begun \ {"dir", "waiting"} : Goto(r, p)
  BY DecideGoes DEF Await, PassThrough, Invalidate, Begun
<1>2. /\ UNCHANGED <<readVars, req>> /\ pc[r] # "idle"
      /\ DOMAIN awaits' = Requests
      /\ \A s \in Requests \ {r} : awaits'[s] = awaits[s]
  BY DEF Await, ReadsInv
<1>3. QED
  BY <1>1, <1>2, GotoStep

LEMMA ReadOpenReadsInv ==
  ASSUME ReadsInv, NEW r \in Requests, ReadOpen(r)
  PROVE  ReadsInv'
<1>1. UNCHANGED <<inflight, req, pc, awaits>>
  BY DEF ReadOpen, reqVars
<1>2. /\ read[r].at = "open" /\ read'[r].at = "footer"
      /\ read'[r] = [at |-> read'[r].at, file |-> read'[r].file]
      /\ \A s \in Requests \ {r} : read'[s] = read[s]
      /\ DOMAIN read' = Requests
  BY DEF ReadOpen, ReadsInv
<1>3. InflightInv'
  BY <1>1, <1>2 DEF ReadsInv, InflightInv, Running
<1>4. QED
  BY <1>1, <1>2, <1>3 DEF ReadsInv, ReadStates

(* However a read ends, it leaves the map. *)
LEMMA SettleReadsInv ==
  ASSUME ReadsInv, NEW r \in Requests, Running(r),
         NEW at \in {"loaded", "folder_mismatch", "failed"}, NEW file,
         Settle(r, at, file), UNCHANGED reqVars
  PROVE  ReadsInv'
<1>1. UNCHANGED <<req, pc, awaits>>
  BY DEF reqVars
<1>2. /\ read'[r] = [at |-> at, file |-> file]
      /\ \A s \in Requests \ {r} : read'[s] = read[s]
      /\ DOMAIN read' = Requests
  BY DEF Settle, ReadsInv
<1>3. /\ pc[r] \notin {"idle", "dir"}
      /\ req[r] # None /\ req[r].key \in Keys /\ inflight[req[r].key] = r
  BY ServeAssumption DEF ReadsInv, InflightInv, Running
<1>4. /\ inflight'[req[r].key] = None
      /\ \A j \in Keys \ {req[r].key} : inflight'[j] = inflight[j]
      /\ inflight' \in [Keys -> Requests \cup {None}]
  BY <1>3 DEF Settle, ReadsInv
<1>5. ASSUME NEW j \in Keys, NEW s \in Requests
      PROVE  inflight'[j] = s <=> Running(s)' /\ req'[s] # None /\ req'[s].key = j
  <2>1. CASE j = req[r].key
    BY <1>1, <1>2, <1>3, <1>4, <2>1, ServeAssumption DEF ReadsInv, InflightInv, Running
  <2>2. CASE j # req[r].key
    BY <1>1, <1>2, <1>3, <1>4, <2>2 DEF ReadsInv, InflightInv, Running
  <2>3. QED
    BY <2>1, <2>2
<1>6. InflightInv'
  BY <1>1, <1>2, <1>5 DEF ReadsInv, InflightInv
<1>7. QED
  BY <1>1, <1>2, <1>3, <1>4, <1>6 DEF ReadsInv, ReadStates

LEMMA ReadReadsInv ==
  ASSUME ReadsInv, NEW r \in Requests, Read(r)
  PROVE  ReadsInv'
<1>1. CASE ReadOpen(r)
  BY <1>1, ReadOpenReadsInv
<1>2. CASE ReadFooter(r)
  BY <1>2, SettleReadsInv DEF ReadFooter, Running
<1>3. CASE ReadFails(r)
  BY <1>3, SettleReadsInv DEF ReadFails, Running
<1>4. QED
  BY <1>1, <1>2, <1>3 DEF Read

LEMMA ServeReadsInv ==
  ASSUME ReadsInv, NEW r \in Requests, Serve(r)
  PROVE  ReadsInv'
<1>1. CASE Lookup(r)
  BY <1>1, LookupReadsInv
<1>2. CASE Await(r)
  BY <1>2, AwaitReadsInv
<1>3. CASE DirFails(r) \/ Invalidated(r)
  BY <1>3, GotoStep DEF DirFails, Invalidated, ReadsInv, Begun
<1>4. CASE OpenFile(r)
  BY <1>4, GotoStep DEF OpenFile, Respond, Invalidate, ReadsInv, Begun
<1>5. CASE NetworkAnswer(r)
  BY <1>5, GotoStep DEF NetworkAnswer, ReadsInv, Begun
<1>6. QED
  BY <1>1, <1>2, <1>3, <1>4, <1>5 DEF Serve

(* The other plugins and the page touch neither reads nor requests. *)
LEMMA QuietReadsInv ==
  ASSUME ReadsInv, UNCHANGED <<readVars, reqVars>>
  PROVE  ReadsInv'
BY DEF ReadsInv, InflightInv, Running, readVars, reqVars

LEMMA OthersQuiet ==
  ASSUME Others
  PROVE  UNCHANGED <<readVars, reqVars>>
BY DEF Others, Scan, ScanBegin, ScanRead, ScanRecord, WriteBegin, WriteEnd, WriteLeft, Remove,
       Unindex, RemoveOutside, InvalidateFolder, Reconnect

(* A stop of the worker leaves no read and no request that waits. *)
LEMMA RestartReadsInv == ReadsInv /\ Restart => ReadsInv'
<1> SUFFICES ASSUME ReadsInv, Restart PROVE ReadsInv'
  OBVIOUS
<1>1. /\ \A k \in Keys : inflight'[k] = None
      /\ inflight' \in [Keys -> Requests \cup {None}]
  BY DEF Restart
<1>2. \A r \in Requests : read'[r] = [at |-> "none", file |-> None] /\ ~Running(r)'
  BY DEF Restart, NoRead, Running
<1>3. /\ pc' \in [Requests -> Begun \cup {"idle"}]
      /\ \A r \in Requests : /\ pc'[r] \in {"idle", "served", "passed", "lost"}
                             /\ pc'[r] # "idle" => pc[r] # "idle"
  BY DEF ReadsInv, Restart, Begun
<1>4. InflightInv'
  <2>1. None \notin Requests
    BY ServeAssumption
  <2>2. \A k \in Keys, r \in Requests : inflight'[k] # r
    BY <1>1, <2>1
  <2>3. QED
    BY <1>2, <1>3, <2>2 DEF InflightInv
<1>5. QED
  BY <1>1, <1>2, <1>3, <1>4 DEF ReadsInv, Restart, ReadStates

LEMMA NextReadsInv == ReadsInv /\ [Next]_vars => ReadsInv'
<1> SUFFICES ASSUME ReadsInv, [Next]_vars PROVE ReadsInv'
  OBVIOUS
<1>1. CASE UNCHANGED vars
  BY <1>1, QuietReadsInv DEF vars
<1>2. CASE Others
  BY <1>2, OthersQuiet, QuietReadsInv
<1>3. ASSUME NEW r \in Requests, Serve(r) \/ Read(r)
      PROVE  ReadsInv'
  BY <1>3, ServeReadsInv, ReadReadsInv
<1>4. ASSUME NEW r \in Requests, NEW q \in RequestTypes, Begin(r, q) \/ Unhandled(r, q)
      PROVE  ReadsInv'
  BY <1>4, ArriveReadsInv DEF Begin, Unhandled
<1>5. QED
  BY <1>1, <1>2, <1>3, <1>4, RestartReadsInv DEF Next

(* A read of a footer is in metadataFooterInflight exactly while it runs,  *)
(* one for a resource, and a request that waits awaits a read of its own   *)
(* resource (opfsServeRange.ts:42), for any requests and resources.        *)
THEOREM ReadsAreShared == Spec => []InflightInv
<1>1. ReadsInv => InflightInv
  BY DEF ReadsInv
<1>2. QED
  BY <1>1, InitReadsInv, NextReadsInv, PTL DEF Spec
------------------------------------------------------------------------------
(* The answers.  What AnswerIsRight rests on: the metadata cache, the scan,*)
(* a read of a footer and a request that has its metadata know the file    *)
(* that is there, or one whose removal the caches are yet to be told of.   *)
StoreTypes ==
  /\ disk \in [Keys -> Files \cup {None, Unfinished}]
  /\ DOMAIN meta = Keys
  /\ scan = [todo |-> scan.todo, key |-> scan.key, file |-> scan.file]
  /\ scan.todo \subseteq Keys /\ scan.key \in Keys \cup {None}
  /\ DOMAIN cachedMeta = Requests /\ DOMAIN answer = Requests

Describes(m, k) ==
  disk[k] \in Files /\ m.etag = disk[k].etag /\ m.folder = disk[k].folder
MayDescribe(m, k) == m.folder = None \/ k \in removed \/ Describes(m, k)
IsOf(file, k) == file = Unfinished \/ (file \in Files /\ file = disk[k])

KeyInv(k) ==
  /\ k \in removed => disk[k] = None
  /\ meta[k] # None => MayDescribe(meta[k], k)
  /\ scan.key = k => IsOf(scan.file, k)
ReadInv(r) ==
  /\ read[r].at \in {"footer", "loaded"} => read[r].file # None
  /\ read[r].at = "footer" /\ req[r].key \notin mixed => IsOf(read[r].file, req[r].key)
FileInv(r) ==
  pc[r] = "file" => /\ cachedMeta[r].folder = req[r].folder
                    /\ ifRangeMatches(req[r], cachedMeta[r])
                    /\ \/ req[r].key \in mixed
                       \/ disk[req[r].key] = None
                       \/ Describes(cachedMeta[r], req[r].key)
AnswerInv(r) ==
  pc[r] = "served" /\ req[r].key \notin mixed =>
    /\ answer[r].file.folder = req[r].folder
    /\ answer[r].file.etag = answer[r].meta.etag
    /\ ifRangeMatches(req[r], answer[r].file)
FilesInv ==
  /\ StoreTypes
  /\ \A k \in Keys \ mixed : KeyInv(k)
  /\ \A r \in Requests : ReadInv(r) /\ FileInv(r) /\ AnswerInv(r)

LEMMA InitFilesInv == Init => FilesInv
BY ServeAssumption DEF Init, FilesInv, StoreTypes, KeyInv, ReadInv, FileInv, AnswerInv,
                       NoRead, NoScan

(* An action that only drops metadata leaves the keys as they are. *)
LEMMA DropKeeps ==
  ASSUME FilesInv, UNCHANGED <<storeVars, scan, mixed>>, DOMAIN meta' = Keys,
         \A k \in Keys : meta'[k] \in {meta[k], None}
  PROVE  \A k \in Keys \ mixed' : KeyInv(k)'
BY DEF FilesInv, KeyInv, MayDescribe, Describes, IsOf, storeVars

(* What a request knows is kept by what does not concern it. *)
LEMMA OtherRequest ==
  ASSUME FilesInv, UNCHANGED <<disk, mixed>>, NEW s \in Requests,
         read'[s] = read[s], req'[s] = req[s], pc'[s] = pc[s],
         cachedMeta'[s] = cachedMeta[s], answer'[s] = answer[s]
  PROVE  (ReadInv(s) /\ FileInv(s) /\ AnswerInv(s))'
BY DEF FilesInv, ReadInv, FileInv, AnswerInv, Describes, IsOf, ifRangeMatches

(* A request goes on with neither a file nor an answer. *)
LEMMA GoesOn ==
  ASSUME FilesInv, ReadsInv, UNCHANGED <<storeVars, scan, read, req, mixed, answer>>,
         DOMAIN meta' = Keys, \A k \in Keys : meta'[k] \in {meta[k], None},
         NEW r \in Requests, NEW p, p \notin {"file", "served"}, Goto(r, p),
         DOMAIN cachedMeta' = Requests,
         \A s \in Requests \ {r} : cachedMeta'[s] = cachedMeta[s]
  PROVE  FilesInv'
<1>1. \A k \in Keys \ mixed' : KeyInv(k)'
  BY DropKeeps
<1>2. pc'[r] = p /\ \A s \in Requests \ {r} : pc'[s] = pc[s]
  BY DEF Goto, ReadsInv
<1>3. (ReadInv(r) /\ FileInv(r) /\ AnswerInv(r))'
  BY <1>2 DEF FilesInv, ReadInv, FileInv, AnswerInv, IsOf, storeVars
<1>4. \A s \in Requests \ {r} : (ReadInv(s) /\ FileInv(s) /\ AnswerInv(s))'
  BY <1>2, OtherRequest DEF storeVars
<1>5. StoreTypes'
  BY DEF FilesInv, StoreTypes, storeVars
<1>6. QED
  BY <1>1, <1>3, <1>4, <1>5 DEF FilesInv

LEMMA DecideFilesInv ==
  ASSUME FilesInv, ReadsInv, UNCHANGED <<storeVars, scan, read, req, mixed>>,
         NEW r \in Requests, pc[r] # "idle", NEW m, NEW f, Decide(r, m, f),
         f # None => m = FooterMeta(f),
         f = None /\ req[r].key \notin mixed => MayDescribe(m, req[r].key)
  PROVE  FilesInv'
<1> DEFINE k == req[r].key
<1>1. k \in Keys /\ req[r].folder # None
  BY ServeAssumption DEF ReadsInv
<1>2. DOMAIN cachedMeta = Requests /\ DOMAIN answer = Requests /\ DOMAIN meta = Keys
  BY DEF FilesInv, StoreTypes
<1>3. CASE \E p \in {"network", "invalidating"} : Goto(r, p)
  <2>1. PICK p \in {"network", "invalidating"} : Goto(r, p)
    BY <1>3
  <2>2. pc'[r] = p
    BY <2>1 DEF Goto, ReadsInv
  <2>3. UNCHANGED <<answer, cachedMeta>> /\ (meta' = meta \/ meta' = [meta EXCEPT ![k] = None])
    BY <2>2, <2>1 DEF Decide, PassThrough, Invalidate, Respond, Goto, ReadsInv
  <2>4. QED
    BY <1>2, <2>1, <2>3, GoesOn
<1>4. ASSUME m.folder = req[r].folder, ifRangeMatches(req[r], m), f # None,
             Respond(r, m, f), UNCHANGED cachedMeta
      PROVE  FilesInv'
  <2>1. /\ pc'[r] = "served" /\ UNCHANGED meta
        /\ \A s \in Requests \ {r} : pc'[s] = pc[s] /\ answer'[s] = answer[s]
        /\ answer'[r].file = f /\ answer'[r].meta = m /\ DOMAIN answer' = Requests
    BY <1>2, <1>4 DEF Respond, Goto, ReadsInv
  <2>2. m.etag = f.etag /\ m.folder = f.folder
    BY <1>4 DEF FooterMeta
  <2>3. (ReadInv(r) /\ FileInv(r) /\ AnswerInv(r))'
    BY <1>4, <2>1, <2>2
       DEF FilesInv, ReadInv, FileInv, AnswerInv, IsOf, storeVars, ifRangeMatches
  <2>4. \A s \in Requests \ {r} : (ReadInv(s) /\ FileInv(s) /\ AnswerInv(s))'
    BY <1>4, <2>1, OtherRequest DEF storeVars
  <2>5. \A j \in Keys \ mixed' : KeyInv(j)'
    BY <1>2, <2>1, DropKeeps
  <2>6. StoreTypes'
    BY <1>4, <2>1 DEF FilesInv, StoreTypes, storeVars
  <2>7. QED
    BY <2>3, <2>4, <2>5, <2>6 DEF FilesInv
<1>5. ASSUME m.folder = req[r].folder, ifRangeMatches(req[r], m), f = None,
             cachedMeta' = [cachedMeta EXCEPT ![r] = m], Goto(r, "file"),
             UNCHANGED <<meta, answer>>
      PROVE  FilesInv'
  <2>1. /\ pc'[r] = "file" /\ cachedMeta'[r] = m /\ DOMAIN cachedMeta' = Requests
        /\ \A s \in Requests \ {r} : pc'[s] = pc[s] /\ cachedMeta'[s] = cachedMeta[s]
    BY <1>2, <1>5 DEF Goto, ReadsInv
  <2>2. k \in mixed \/ disk[k] = None \/ Describes(m, k)
    BY <1>1, <1>5 DEF FilesInv, KeyInv, MayDescribe
  <2>3. (ReadInv(r) /\ FileInv(r) /\ AnswerInv(r))'
    BY <1>5, <2>1, <2>2
       DEF FilesInv, ReadInv, FileInv, AnswerInv, IsOf, Describes, storeVars, ifRangeMatches
  <2>4. \A s \in Requests \ {r} : (ReadInv(s) /\ FileInv(s) /\ AnswerInv(s))'
    BY <1>5, <2>1, OtherRequest DEF storeVars
  <2>5. \A j \in Keys \ mixed' : KeyInv(j)'
    BY <1>2, <1>5, DropKeeps
  <2>6. StoreTypes'
    BY <1>5, <2>1 DEF FilesInv, StoreTypes, storeVars
  <2>7. QED
    BY <2>3, <2>4, <2>5, <2>6 DEF FilesInv
<1>6. QED
  BY <1>3, <1>4, <1>5 DEF Decide, PassThrough, Invalidate

LEMMA ArriveFilesInv ==
  ASSUME FilesInv, ReadsInv, NEW r \in Requests, NEW q \in RequestTypes,
         NEW p \in {"dir", "network"}, NEW o, Arrive(r, q, p, o)
  PROVE  FilesInv'
<1>1. /\ pc'[r] = p /\ read[r].at = "none"
      /\ \A s \in Requests \ {r} : pc'[s] = pc[s] /\ req'[s] = req[s]
      /\ UNCHANGED <<storeVars, metaVars, read, cachedMeta, answer, mixed>>
  BY DEF Arrive, Goto, ReadsInv, readVars
<1>2. (ReadInv(r) /\ FileInv(r) /\ AnswerInv(r))'
  BY <1>1 DEF ReadInv, FileInv, AnswerInv
<1>3. \A s \in Requests \ {r} : (ReadInv(s) /\ FileInv(s) /\ AnswerInv(s))'
  BY <1>1, OtherRequest DEF storeVars
<1>4. StoreTypes' /\ \A j \in Keys \ mixed' : KeyInv(j)'
  BY <1>1, DropKeeps DEF FilesInv, StoreTypes, storeVars, metaVars
<1>5. QED
  BY <1>2, <1>3, <1>4 DEF FilesInv

LEMMA LookupFilesInv ==
  ASSUME FilesInv, ReadsInv, NEW r \in Requests, Lookup(r)
  PROVE  FilesInv'
<1> DEFINE k == req[r].key
<1>1. /\ pc[r] = "dir" /\ read[r].at = "none" /\ k \in Keys
      /\ UNCHANGED <<storeVars, scan, req, mixed>>
  BY ServeAssumption DEF Lookup, ReadsInv
<1>2. ASSUME meta[k] # None, Decide(r, meta[k], None), UNCHANGED readVars
      PROVE  FilesInv'
  <2>1. k \notin mixed => MayDescribe(meta[k], k)
    BY <1>1, <1>2 DEF FilesInv, KeyInv
  <2>2. QED
    BY <1>1, <1>2, <2>1, DecideFilesInv DEF readVars
<1>3. ASSUME Goto(r, "waiting"), UNCHANGED <<meta, cachedMeta, answer>>,
             read' = read \/ read' = [read EXCEPT ![r].at = "open"]
      PROVE  FilesInv'
  <2>1. /\ pc'[r] = "waiting" /\ read'[r].at \in {"none", "open"}
        /\ \A s \in Requests \ {r} : pc'[s] = pc[s] /\ read'[s] = read[s]
    BY <1>1, <1>3 DEF Goto, ReadsInv
  <2>2. (ReadInv(r) /\ FileInv(r) /\ AnswerInv(r))'
    BY <2>1 DEF ReadInv, FileInv, AnswerInv
  <2>3. \A s \in Requests \ {r} : (ReadInv(s) /\ FileInv(s) /\ AnswerInv(s))'
    BY <1>1, <1>3, <2>1, OtherRequest DEF storeVars
  <2>4. StoreTypes' /\ \A j \in Keys \ mixed' : KeyInv(j)'
    BY <1>1, <1>3, DropKeeps DEF FilesInv, StoreTypes, storeVars
  <2>5. QED
    BY <2>2, <2>3, <2>4 DEF FilesInv
<1>4. QED
  BY <1>2, <1>3 DEF Lookup, readVars

LEMMA AwaitFilesInv ==
  ASSUME FilesInv, ReadsInv, NEW r \in Requests, Await(r)
  PROVE  FilesInv'
<1> DEFINE loaded == read[awaits[r]]
<1>1. /\ pc[r] = "waiting" /\ awaits[r] \in Requests
      /\ UNCHANGED <<storeVars, scan, read, req, mixed>>
  BY DEF Await, ReadsInv, InflightInv, readVars
<1>2. CASE loaded.at = "loaded" /\ Decide(r, FooterMeta(loaded.file), loaded.file)
  <2>1. loaded.file # None
    BY <1>1, <1>2 DEF FilesInv, ReadInv
  <2>2. QED
    BY <1>1, <1>2, <2>1, DecideFilesInv
<1>3. CASE PassThrough(r) /\ UNCHANGED cachedMeta
  BY <1>1, <1>3, GoesOn DEF PassThrough, FilesInv, StoreTypes
<1>4. CASE Invalidate(r) /\ UNCHANGED cachedMeta
  BY <1>1, <1>4, GoesOn DEF Invalidate, FilesInv, StoreTypes
<1>5. QED
  BY <1>2, <1>3, <1>4 DEF Await

LEMMA OpenFileFilesInv ==
  ASSUME FilesInv, ReadsInv, NEW r \in Requests, OpenFile(r)
  PROVE  FilesInv'
<1> DEFINE k == req[r].key
<1>1. /\ pc[r] = "file" /\ UNCHANGED <<storeVars, scan, read, req, mixed>>
      /\ cachedMeta' = [cachedMeta EXCEPT ![r] = None]
      /\ DOMAIN cachedMeta = Requests /\ DOMAIN meta = Keys /\ DOMAIN answer = Requests
  BY DEF OpenFile, readVars, FilesInv, StoreTypes
<1>2. CASE Invalidate(r)
  BY <1>1, <1>2, GoesOn DEF Invalidate
<1>3. CASE disk[k] # None /\ Respond(r, cachedMeta[r], disk[k])
  <2>1. /\ pc'[r] = "served" /\ UNCHANGED meta
        /\ \A s \in Requests \ {r} : /\ pc'[s] = pc[s] /\ answer'[s] = answer[s]
                                     /\ cachedMeta'[s] = cachedMeta[s]
        /\ answer'[r].file = disk[k] /\ answer'[r].meta = cachedMeta[r]
        /\ DOMAIN answer' = Requests /\ DOMAIN cachedMeta' = Requests
    BY <1>1, <1>3 DEF Respond, Goto, ReadsInv
  <2>2. /\ cachedMeta[r].folder = req[r].folder /\ ifRangeMatches(req[r], cachedMeta[r])
        /\ k \in mixed \/ Describes(cachedMeta[r], k)
    BY <1>1, <1>3 DEF FilesInv, FileInv
  <2>3. (ReadInv(r) /\ FileInv(r) /\ AnswerInv(r))'
    BY <1>1, <2>1, <2>2
       DEF FilesInv, ReadInv, FileInv, AnswerInv, Describes, IsOf, storeVars, ifRangeMatches
  <2>4. \A s \in Requests \ {r} : (ReadInv(s) /\ FileInv(s) /\ AnswerInv(s))'
    BY <1>1, <2>1, OtherRequest DEF storeVars
  <2>5. StoreTypes' /\ \A j \in Keys \ mixed' : KeyInv(j)'
    BY <1>1, <2>1, DropKeeps DEF FilesInv, StoreTypes, storeVars
  <2>6. QED
    BY <2>3, <2>4, <2>5 DEF FilesInv
<1>4. QED
  BY <1>2, <1>3 DEF OpenFile

LEMMA ServeFilesInv ==
  ASSUME FilesInv, ReadsInv, NEW r \in Requests, Serve(r)
  PROVE  FilesInv'
<1>1. CASE DirFails(r)
  <2>1. DOMAIN meta' = Keys /\ \A k \in Keys : meta'[k] \in {meta[k], None}
    BY <1>1 DEF DirFails, InvalidateFolders
  <2>2. QED
    BY <1>1, <2>1, GoesOn DEF DirFails, readVars, FilesInv, StoreTypes
<1>2. CASE Invalidated(r) \/ NetworkAnswer(r)
  BY <1>2, GoesOn DEF Invalidated, NetworkAnswer, metaVars, readVars, FilesInv, StoreTypes
<1>3. QED
  BY <1>1, <1>2, LookupFilesInv, AwaitFilesInv, OpenFileFilesInv DEF Serve

(* A read is over: the metadata cache has what it read, if that is of the  *)
(* folder that was asked for.                                              *)
LEMMA ReadFilesInv ==
  ASSUME FilesInv, ReadsInv, NEW r \in Requests, Read(r)
  PROVE  FilesInv'
<1> DEFINE k == req[r].key
<1>1. /\ read[r].at \in {"open", "footer"} /\ UNCHANGED <<storeVars, scan, reqVars, mixed>>
      /\ DOMAIN meta = Keys /\ DOMAIN read = Requests
  BY DEF Read, ReadOpen, ReadFooter, ReadFails, metaVars, ReadsInv, FilesInv, StoreTypes
<1>2. pc[r] # "idle" /\ k \in Keys /\ req[r].folder # None
  BY <1>1, ServeAssumption DEF ReadsInv
<1>3. \A s \in Requests \ {r} : read'[s] = read[s]
  BY DEF Read, ReadOpen, ReadFooter, ReadFails, Settle, ReadsInv
<1>4. \A s \in Requests \ {r} : (ReadInv(s) /\ FileInv(s) /\ AnswerInv(s))'
  BY <1>1, <1>3, OtherRequest DEF storeVars, reqVars
<1>5. (FileInv(r) /\ AnswerInv(r))'
  BY <1>1 DEF FilesInv, FileInv, AnswerInv, Describes, storeVars, reqVars, ifRangeMatches
<1>6. CASE UNCHANGED meta
  <2>1. StoreTypes' /\ \A j \in Keys \ mixed' : KeyInv(j)'
    BY <1>1, <1>6, DropKeeps DEF FilesInv, StoreTypes, storeVars, reqVars
  <2>2. ReadInv(r)'
    <3>1. CASE ReadOpen(r)
      <4>1. disk[k] # None /\ read'[r] = [at |-> "footer", file |-> disk[k]]
        BY <1>1, <3>1 DEF ReadOpen
      <4>2. disk[k] \in Files \cup {Unfinished}
        BY <1>2, <4>1 DEF FilesInv, StoreTypes
      <4>3. QED
        BY <1>1, <4>1, <4>2 DEF ReadInv, IsOf, storeVars, reqVars
    <3>2. CASE ReadFooter(r) \/ ReadFails(r)
      <4>1. \/ read'[r].at \in {"failed", "folder_mismatch"}
            \/ /\ read'[r] = [at |-> "loaded", file |-> read[r].file]
               /\ read[r].at = "footer"
        BY <1>1, <3>2 DEF ReadFooter, ReadFails, Settle
      <4>2. QED
        BY <4>1 DEF FilesInv, ReadInv
    <3>3. QED
      BY <3>1, <3>2 DEF Read
  <2>3. QED
    BY <1>4, <1>5, <2>1, <2>2 DEF FilesInv
<1>7. ASSUME read[r].at = "footer", read[r].file.folder = req[r].folder,
             meta' = [meta EXCEPT ![k] = FooterMeta(read[r].file)],
             read'[r] = [at |-> "loaded", file |-> read[r].file]
      PROVE  FilesInv'
  <2>1. ReadInv(r)'
    BY <1>7 DEF FilesInv, ReadInv
  <2>2. k \notin mixed => read[r].file \in Files /\ read[r].file = disk[k]
    BY <1>2, <1>7 DEF FilesInv, ReadInv, IsOf, Unfinished
  <2>3. \A j \in Keys \ mixed' : KeyInv(j)'
    <3> SUFFICES ASSUME NEW j \in Keys \ mixed PROVE KeyInv(j)'
      BY <1>1
    <3>1. KeyInv(j) /\ UNCHANGED <<disk, removed, scan>>
      BY <1>1 DEF FilesInv, storeVars
    <3>2. CASE j = k
      <4>1. meta'[k] = FooterMeta(disk[k]) /\ disk[k] \in Files
        BY <1>1, <1>2, <1>7, <2>2, <3>2
      <4>2. QED
        BY <3>1, <3>2, <4>1 DEF KeyInv, MayDescribe, Describes, IsOf, FooterMeta
    <3>3. CASE j # k
      <4>1. meta'[j] = meta[j]
        BY <1>1, <1>7, <3>3
      <4>2. QED
        BY <3>1, <4>1 DEF KeyInv, MayDescribe, Describes, IsOf
    <3>4. QED
      BY <3>2, <3>3
  <2>4. StoreTypes'
    BY <1>1, <1>7 DEF FilesInv, StoreTypes, storeVars, reqVars
  <2>5. QED
    BY <1>4, <1>5, <2>1, <2>3, <2>4 DEF FilesInv
<1>8. QED
  BY <1>1, <1>6, <1>7 DEF Read, ReadOpen, ReadFooter, ReadFails, Settle, metaVars

(* The requests do not look at metadata, scan and removed keys. *)
LEMMA RequestsKept ==
  ASSUME FilesInv, UNCHANGED <<disk, readVars, reqVars, mixed>>
  PROVE  \A r \in Requests : (ReadInv(r) /\ FileInv(r) /\ AnswerInv(r))'
BY OtherRequest DEF readVars, reqVars

LEMMA ScanFilesInv ==
  ASSUME FilesInv, ReadsInv, Scan
  PROVE  FilesInv'
<1>1. /\ UNCHANGED <<storeVars, readVars, reqVars, mixed>>
      /\ UNCHANGED <<disk, removed, cachedMeta, answer>>
  BY DEF Scan, ScanBegin, ScanRead, ScanRecord, storeVars, reqVars
<1>2. \A r \in Requests : (ReadInv(r) /\ FileInv(r) /\ AnswerInv(r))'
  BY <1>1, RequestsKept
<1>3. CASE ScanBegin
  <2>1. /\ meta' = [k \in Keys |-> None]
        /\ scan' = [todo |-> {k \in Keys : disk[k] # None}, key |-> None, file |-> None]
    BY <1>3 DEF ScanBegin, NoScan
  <2>2. QED
    BY <1>1, <1>2, <2>1, ServeAssumption DEF FilesInv, StoreTypes, KeyInv
<1>4. ASSUME NEW k \in Keys, ScanRead(k) PROVE FilesInv'
  <2>1. /\ UNCHANGED meta /\ scan.key = None
        /\ \/ scan' = [todo |-> scan.todo \ {k}, key |-> None, file |-> scan.file]
           \/ /\ disk[k] # None
              /\ scan' = [todo |-> scan.todo \ {k}, key |-> k, file |-> disk[k]]
    BY <1>4 DEF ScanRead, FilesInv, StoreTypes
  <2>2. disk[k] \in Files \cup {None, Unfinished}
    BY DEF FilesInv, StoreTypes
  <2>3. ASSUME NEW j \in Keys \ mixed PROVE KeyInv(j)'
    <3>1. KeyInv(j)
      BY DEF FilesInv
    <3>2. scan'.key = j => j = k /\ scan'.file = disk[k] /\ disk[k] # None
      BY <2>1, ServeAssumption
    <3>3. QED
      BY <1>1, <2>1, <2>2, <3>1, <3>2 DEF KeyInv, MayDescribe, Describes, IsOf
  <2>4. StoreTypes'
    BY <1>1, <2>1 DEF FilesInv, StoreTypes
  <2>5. QED
    BY <1>1, <1>2, <2>3, <2>4 DEF FilesInv
<1>5. CASE ScanRecord
  <2>1. /\ scan.key \in Keys /\ meta' = [meta EXCEPT ![scan.key] = ScanMeta(scan.file)]
        /\ scan' = [todo |-> scan.todo, key |-> None, file |-> None]
        /\ DOMAIN meta = Keys
    BY <1>5 DEF ScanRecord, FilesInv, StoreTypes
  <2>2. ASSUME NEW j \in Keys \ mixed PROVE KeyInv(j)'
    <3>1. KeyInv(j) /\ scan'.key # j
      BY <2>1, ServeAssumption DEF FilesInv
    <3>2. CASE j = scan.key
      <4>1. IsOf(scan.file, j) /\ meta'[j] = ScanMeta(scan.file)
        BY <2>1, <3>1, <3>2 DEF KeyInv
      <4>2. \/ meta'[j].folder = None
            \/ /\ disk[j] \in Files /\ meta'[j].etag = disk[j].etag
               /\ meta'[j].folder = disk[j].folder
        BY <4>1 DEF IsOf, ScanMeta, Unfinished
      <4>3. QED
        BY <1>1, <3>1, <4>2 DEF KeyInv, MayDescribe, Describes
    <3>3. CASE j # scan.key
      <4>1. meta'[j] = meta[j]
        BY <2>1, <3>3
      <4>2. QED
        BY <1>1, <3>1, <4>1 DEF KeyInv, MayDescribe, Describes
    <3>4. QED
      BY <3>2, <3>3
  <2>3. StoreTypes'
    BY <1>1, <2>1 DEF FilesInv, StoreTypes
  <2>4. QED
    BY <1>1, <1>2, <2>2, <2>3 DEF FilesInv
<1>6. QED
  BY <1>3, <1>4, <1>5 DEF Scan

(* What a step on the file of one key has to show of that key. *)
LEMMA StoreStep ==
  ASSUME FilesInv, ReadsInv, NEW k \in Keys, NEW v \in Files \cup {None, Unfinished},
         disk' = [disk EXCEPT ![k] = v],
         \A j \in Keys \ {k} : j \in removed' <=> j \in removed,
         UNCHANGED <<metaVars, readVars, reqVars>>, mixed \subseteq mixed',
         k \notin mixed' => KeyInv(k)',
         k \notin mixed' => \A r \in Requests : req[r].key = k =>
           /\ read[r].at = "footer" => read[r].file = Unfinished \/ read[r].file = v
           /\ pc[r] = "file" => v = None \/ Describes(cachedMeta[r], k)'
  PROVE  FilesInv'
<1>1. /\ UNCHANGED <<meta, scan, read, req, pc, cachedMeta, answer>>
      /\ disk'[k] = v /\ \A j \in Keys \ {k} : disk'[j] = disk[j]
  BY DEF metaVars, readVars, reqVars, FilesInv, StoreTypes
<1>2. StoreTypes'
  BY <1>1 DEF FilesInv, StoreTypes
<1>3. ASSUME NEW j \in Keys \ mixed' PROVE KeyInv(j)'
  <2>1. CASE j # k
    <3>1. KeyInv(j) /\ disk'[j] = disk[j] /\ (j \in removed' <=> j \in removed)
      BY <1>1, <1>3, <2>1 DEF FilesInv
    <3>2. QED
      BY <1>1, <3>1 DEF KeyInv, MayDescribe, Describes, IsOf
  <2>2. QED
    BY <1>3, <2>1
<1>4. ASSUME NEW r \in Requests PROVE (ReadInv(r) /\ FileInv(r) /\ AnswerInv(r))'
  <2>1. ReadInv(r) /\ FileInv(r) /\ AnswerInv(r)
    BY DEF FilesInv
  <2>2. AnswerInv(r)'
    BY <1>1, <2>1 DEF AnswerInv, ifRangeMatches
  <2>3. pc[r] # "idle" => req[r].key \in Keys
    BY ServeAssumption DEF ReadsInv
  <2>4. ReadInv(r)'
    <3> SUFFICES ASSUME read[r].at = "footer", req[r].key \notin mixed'
                 PROVE  IsOf(read[r].file, req[r].key)'
      BY <1>1, <2>1 DEF ReadInv
    <3>1. req[r].key \in Keys /\ req[r].key \notin mixed /\ read[r].file # None
      BY <2>1, <2>3 DEF ReadsInv, ReadInv
    <3>2. CASE req[r].key = k
      BY <1>1, <3>1, <3>2 DEF IsOf
    <3>3. CASE req[r].key # k
      BY <1>1, <2>1, <3>1, <3>3 DEF ReadInv, IsOf
    <3>4. QED
      BY <3>2, <3>3
  <2>5. FileInv(r)'
    <3> SUFFICES ASSUME pc[r] = "file", req[r].key \notin mixed'
                 PROVE  disk'[req[r].key] = None \/ Describes(cachedMeta[r], req[r].key)'
      BY <1>1, <2>1 DEF FileInv, ifRangeMatches
    <3>1. CASE req[r].key = k
      BY <1>1, <3>1
    <3>2. CASE req[r].key # k
      BY <1>1, <2>1, <2>3, <3>2 DEF FileInv, Describes
    <3>3. QED
      BY <3>1, <3>2
  <2>6. QED
    BY <2>2, <2>4, <2>5
<1>5. QED
  BY <1>2, <1>3, <1>4 DEF FilesInv

LEMMA NotFiles == None \notin Files /\ Unfinished \notin Files /\ None \notin Keys
                  /\ None \notin Requests /\ Unfinished # None
BY ServeAssumption DEF Unfinished

LEMMA WriteFilesInv ==
  ASSUME FilesInv, ReadsInv, NEW k \in Keys,
         WriteBegin(k) \/ WriteLeft(k) \/ \E f \in Files \cup {None} : WriteEnd(k, f)
  PROVE  FilesInv'
<1>1. UNCHANGED <<removed, metaVars, readVars, reqVars>> /\ UNCHANGED <<meta, scan>>
  BY DEF WriteBegin, WriteEnd, WriteLeft, metaVars
<1>2. CASE WriteBegin(k)
  <2>1. /\ disk[k] = None /\ disk' = [disk EXCEPT ![k] = Unfinished]
        /\ mixed \subseteq mixed' /\ disk'[k] = Unfinished
        /\ k \notin mixed' => /\ k \notin removed /\ k \notin mixed
                              /\ \A r \in Requests : pc[r] = "file" => req[r].key # k
    BY <1>2 DEF WriteBegin, FilesInv, StoreTypes
  <2>2. ASSUME k \notin mixed' PROVE KeyInv(k)'
    <3>1. KeyInv(k) /\ k \notin removed
      BY <2>1, <2>2 DEF FilesInv
    <3>2. QED
      BY <1>1, <2>1, <3>1, NotFiles DEF KeyInv, MayDescribe, Describes, IsOf
  <2>3. ASSUME k \notin mixed', NEW r \in Requests, req[r].key = k
        PROVE  /\ read[r].at = "footer" => read[r].file = Unfinished
               /\ pc[r] # "file"
    BY <2>1, <2>3, NotFiles DEF FilesInv, ReadInv, IsOf
  <2>4. QED
    BY <1>1, <2>1, <2>2, <2>3, StoreStep
<1>3. ASSUME NEW f \in Files \cup {None}, WriteEnd(k, f) PROVE FilesInv'
  <2>1. /\ disk' = [disk EXCEPT ![k] = f] /\ disk'[k] = f /\ mixed \subseteq mixed'
        /\ k \notin mixed' => k \notin mixed /\ disk[k] = Unfinished
    BY <1>3 DEF WriteEnd, FilesInv, StoreTypes
  <2>2. ASSUME k \notin mixed' PROVE KeyInv(k)'
    <3>1. KeyInv(k) /\ k \notin removed
      BY <2>1, <2>2, NotFiles DEF FilesInv, KeyInv
    <3>2. QED
      BY <1>1, <2>1, <2>2, <3>1, NotFiles DEF KeyInv, MayDescribe, Describes, IsOf
  <2>3. ASSUME k \notin mixed', NEW r \in Requests, req[r].key = k
        PROVE  /\ read[r].at = "footer" => read[r].file = Unfinished
               /\ pc[r] # "file"
    BY <2>1, <2>3, NotFiles DEF FilesInv, ReadInv, FileInv, IsOf, Describes
  <2>4. QED
    BY <1>1, <2>1, <2>2, <2>3, StoreStep
<1>4. CASE WriteLeft(k)
  <2>1. UNCHANGED <<disk, mixed, cachedMeta, answer>>
    BY <1>4 DEF WriteLeft, reqVars
  <2>2. \A r \in Requests : (ReadInv(r) /\ FileInv(r) /\ AnswerInv(r))'
    BY <1>1, <2>1, RequestsKept
  <2>3. StoreTypes' /\ \A j \in Keys \ mixed' : KeyInv(j)'
    BY <1>1, <2>1 DEF FilesInv, StoreTypes, KeyInv, MayDescribe, Describes, IsOf
  <2>4. QED
    BY <2>2, <2>3 DEF FilesInv
<1>5. QED
  BY <1>2, <1>3, <1>4

LEMMA RemoveFilesInv ==
  ASSUME FilesInv, ReadsInv, NEW k \in Keys, Remove(k) \/ RemoveOutside(k)
  PROVE  FilesInv'
<1>1. /\ disk' = [disk EXCEPT ![k] = None] /\ disk'[k] = None
      /\ \A j \in Keys \ {k} : j \in removed' <=> j \in removed
      /\ UNCHANGED <<metaVars, readVars, reqVars>> /\ UNCHANGED <<meta, scan>>
      /\ mixed \subseteq mixed'
  BY DEF Remove, RemoveOutside, FilesInv, StoreTypes, metaVars
<1>2. k \notin mixed' => k \in removed' /\ inflight[k] = None /\ scan = NoScan
  BY DEF Remove, RemoveOutside
<1>3. k \notin mixed' => KeyInv(k)'
  BY <1>1, <1>2, NotFiles DEF KeyInv, MayDescribe, NoScan
<1>4. ASSUME k \notin mixed', NEW r \in Requests, req[r].key = k
      PROVE  read[r].at # "footer"
  <2> SUFFICES ASSUME read[r].at = "footer" PROVE FALSE
    OBVIOUS
  <2>1. req[r] # None
    BY ServeAssumption DEF ReadsInv
  <2>2. inflight[k] = r
    BY <1>4, <2>1 DEF ReadsInv, InflightInv, Running
  <2>3. QED
    BY <1>2, <1>4, <2>2, NotFiles
<1>5. QED
  BY <1>1, <1>3, <1>4, StoreStep

LEMMA OthersFilesInv ==
  ASSUME FilesInv, ReadsInv, Others
  PROVE  FilesInv'
<1>1. CASE Scan
  BY <1>1, ScanFilesInv
<1>2. ASSUME NEW k \in Keys, Unindex(k) PROVE FilesInv'
  <2>1. /\ removed' = removed \ {k} /\ meta' = [meta EXCEPT ![k] = None]
        /\ UNCHANGED <<disk, scan, readVars, reqVars, mixed>>
        /\ UNCHANGED <<cachedMeta, answer>>
    BY <1>2 DEF Unindex, reqVars
  <2>2. \A r \in Requests : (ReadInv(r) /\ FileInv(r) /\ AnswerInv(r))'
    BY <2>1, RequestsKept
  <2>3. ASSUME NEW j \in Keys \ mixed PROVE KeyInv(j)'
    <3>1. /\ KeyInv(j) /\ (j = k => meta'[j] = None) /\ (j # k => meta'[j] = meta[j])
          /\ j # k => (j \in removed' <=> j \in removed)
      BY <2>1 DEF FilesInv, StoreTypes
    <3>2. QED
      BY <2>1, <3>1 DEF KeyInv, MayDescribe, Describes, IsOf
  <2>4. StoreTypes'
    BY <2>1 DEF FilesInv, StoreTypes
  <2>5. QED
    BY <2>1, <2>2, <2>3, <2>4 DEF FilesInv
<1>3. ASSUME UNCHANGED <<storeVars, scan, readVars, reqVars, mixed>>,
             DOMAIN meta' = Keys, \A k \in Keys : meta'[k] \in {meta[k], None}
      PROVE  FilesInv'
  <2>1. \A r \in Requests : (ReadInv(r) /\ FileInv(r) /\ AnswerInv(r))'
    BY <1>3, RequestsKept DEF storeVars
  <2>2. StoreTypes' /\ \A j \in Keys \ mixed' : KeyInv(j)'
    BY <1>3, DropKeeps DEF FilesInv, StoreTypes, storeVars, reqVars
  <2>3. QED
    BY <2>1, <2>2 DEF FilesInv
<1>4. ASSUME NEW t \in Tabs, NEW k \in Keys, Reconnect(t, k) PROVE FilesInv'
  BY <1>3, <1>4 DEF Reconnect, metaVars, FilesInv, StoreTypes
<1>5. ASSUME NEW fo \in Folders, InvalidateFolder(fo) PROVE FilesInv'
  BY <1>3, <1>5 DEF InvalidateFolder, InvalidateFolders
<1>6. QED
  BY <1>1, <1>2, <1>4, <1>5, WriteFilesInv, RemoveFilesInv DEF Others

(* A stop of the worker: the caches know nothing, and what was answered    *)
(* stays answered.                                                         *)
LEMMA RestartFilesInv == FilesInv /\ ReadsInv /\ Restart => FilesInv'
<1> SUFFICES ASSUME FilesInv, ReadsInv, Restart PROVE FilesInv'
  OBVIOUS
<1>1. /\ UNCHANGED <<disk, mixed, req, answer>> /\ removed' = {}
      /\ \A k \in Keys : meta'[k] = None
      /\ scan' = [todo |-> {}, key |-> None, file |-> None]
      /\ \A r \in Requests : /\ read'[r].at = "none" /\ pc'[r] # "file"
                             /\ pc'[r] = "served" => pc[r] = "served"
  BY DEF Restart, NoScan, NoRead
<1>2. StoreTypes'
  BY <1>1 DEF FilesInv, StoreTypes, Restart
<1>3. \A k \in Keys : KeyInv(k)'
  BY <1>1, NotFiles DEF KeyInv
<1>4. \A r \in Requests : (ReadInv(r) /\ FileInv(r) /\ AnswerInv(r))'
  <2> SUFFICES ASSUME NEW r \in Requests PROVE (ReadInv(r) /\ FileInv(r) /\ AnswerInv(r))'
    OBVIOUS
  <2>1. ReadInv(r)' /\ FileInv(r)'
    BY <1>1 DEF ReadInv, FileInv
  <2>2. AnswerInv(r)
    BY DEF FilesInv
  <2>3. AnswerInv(r)'
    BY <1>1, <2>2 DEF AnswerInv, ifRangeMatches
  <2>4. QED
    BY <2>1, <2>3
<1>5. QED
  BY <1>2, <1>3, <1>4 DEF FilesInv

LEMMA NextFilesInv == FilesInv /\ ReadsInv /\ [Next]_vars => FilesInv'
<1> SUFFICES ASSUME FilesInv, ReadsInv, [Next]_vars PROVE FilesInv'
  OBVIOUS
<1>1. CASE UNCHANGED vars
  <2>1. /\ UNCHANGED <<storeVars, metaVars, readVars, reqVars, mixed>>
        /\ UNCHANGED <<disk, meta, scan, cachedMeta, answer>>
    BY <1>1 DEF vars, storeVars, metaVars, reqVars
  <2>2. \A r \in Requests : (ReadInv(r) /\ FileInv(r) /\ AnswerInv(r))'
    BY <2>1, RequestsKept
  <2>3. StoreTypes' /\ \A j \in Keys \ mixed' : KeyInv(j)'
    BY <2>1, DropKeeps DEF FilesInv, StoreTypes
  <2>4. QED
    BY <2>2, <2>3 DEF FilesInv
<1>2. ASSUME NEW r \in Requests, NEW q \in RequestTypes, Begin(r, q) \/ Unhandled(r, q)
      PROVE  FilesInv'
  BY <1>2, ArriveFilesInv DEF Begin, Unhandled
<1>3. QED
  BY <1>1, <1>2, ServeFilesInv, ReadFilesInv, OthersFilesInv, RestartFilesInv DEF Next

(* AnswerIsRight: whatever the requests, the scan and the other plugins do *)
(* in between, a 206 is made of metadata and a file that belong together,  *)
(* of the folder that was asked for and with the etag of If-Range.         *)
THEOREM AnswersAreRight == Spec => []AnswerIsRight
<1>1. FilesInv => AnswerIsRight
  BY DEF FilesInv, AnswerInv, AnswerIsRight
<1>2. QED
  BY <1>1, InitReadsInv, NextReadsInv, InitFilesInv, NextFilesInv, PTL DEF Spec
------------------------------------------------------------------------------
(* The source of a tab.  A tab with fewer resources than there is room for *)
(* forgets no mark; the paths it has marked are those of its requests, and *)
(* no two marks are of one path.                                           *)
IsMarks(s, S) ==
  /\ s \in Seq(S)
  /\ \A i, j \in 1..Len(s) : s[i] = s[j] => i = j

LEMMA MarksFit ==
  ASSUME NEW S, IsFiniteSet(S), NEW s, IsMarks(s, S)
  PROVE  Len(s) <= Cardinality(S)
<1>1. Len(s) \in Nat /\ s \in [1..Len(s) -> S]
  BY DEF IsMarks
<1>2. IsFiniteSet(1..Len(s)) /\ Cardinality(1..Len(s)) = Len(s)
  BY <1>1, FS_Interval
<1>3. Cardinality(S) \in Nat
  BY FS_CardinalityType
<1>4. SUFFICES ASSUME Cardinality(S) < Len(s) PROVE FALSE
  BY <1>1, <1>3
<1>5. \E i, j \in 1..Len(s) : i # j /\ s[i] = s[j]
  BY <1>1, <1>2, <1>4, FS_PigeonHole
<1>6. QED
  BY <1>5 DEF IsMarks

LEMMA MarkMarks ==
  ASSUME NEW S, NEW s, IsMarks(s, S), NEW k \in S, Len(s) < MaxPathnames
  PROVE  /\ IsMarks(Mark(s, k), S) /\ Has(Mark(s, k), k)
         /\ \A j : Has(s, j) => Has(Mark(s, k), j)
<1>1. Len(s) \in Nat /\ s \in Seq(S) /\ DOMAIN s = 1..Len(s)
  BY DEF IsMarks
<1>2. Mark(s, k) = IF Has(s, k) THEN s ELSE Append(s, k)
  BY <1>1, ServeAssumption DEF Mark
<1>3. CASE Has(s, k)
  BY <1>2, <1>3
<1>4. CASE ~Has(s, k)
  <2> DEFINE a == Append(s, k)
  <2>1. /\ a \in Seq(S) /\ Len(a) = Len(s) + 1 /\ a[Len(s) + 1] = k
        /\ \A i \in 1..Len(s) : a[i] = s[i]
    BY <1>1
  <2>2. DOMAIN a = 1..(Len(s) + 1)
    BY <1>1, <2>1
  <2>3. \A i \in 1..Len(s) : s[i] # k
    BY <1>1, <1>4 DEF Has
  <2> HIDE DEF a
  <2>4. IsMarks(a, S)
    <3> SUFFICES ASSUME NEW i \in 1..Len(a), NEW j \in 1..Len(a), a[i] = a[j] PROVE i = j
      BY <2>1 DEF IsMarks
    <3>1. i \in 1..Len(s) \/ i = Len(s) + 1
      BY <1>1, <2>1
    <3>2. j \in 1..Len(s) \/ j = Len(s) + 1
      BY <1>1, <2>1
    <3>3. QED
      BY <2>1, <2>3, <3>1, <3>2 DEF IsMarks
  <2>5. Has(a, k) /\ \A j : Has(s, j) => Has(a, j)
    BY <1>1, <2>1, <2>2 DEF Has
  <2>6. QED
    BY <1>2, <1>4, <2>4, <2>5 DEF a
<1>5. QED
  BY <1>3, <1>4

LEMMA WithoutMarks ==
  ASSUME NEW S, NEW s, IsMarks(s, S), NEW k, Has(s, k)
  PROVE  /\ IsMarks(Without(s, k), S)
         /\ \A j : j # k /\ Has(s, j) => Has(Without(s, k), j)
<1>1. Len(s) \in Nat /\ s \in Seq(S) /\ DOMAIN s = 1..Len(s)
  BY DEF IsMarks
<1> DEFINE i == CHOOSE n \in DOMAIN s : s[n] = k
           w == [n \in 1..(Len(s) - 1) |-> IF n < i THEN s[n] ELSE s[n + 1]]
<1>2. i \in 1..Len(s) /\ s[i] = k
  BY <1>1 DEF Has
<1>3. Without(s, k) = w
  BY DEF Without
<1> HIDE DEF i
<1>4. Len(s) - 1 \in Nat
  BY <1>1, <1>2
<1>5. \A n \in 1..(Len(s) - 1) : w[n] \in S
  BY <1>1, <1>2
<1>6. w \in [1..(Len(s) - 1) -> S]
  BY <1>5
<1>7. w \in Seq(S) /\ Len(w) = Len(s) - 1 /\ DOMAIN w = 1..(Len(s) - 1)
  BY <1>4, <1>6
<1>8. ASSUME NEW m \in 1..(Len(s) - 1), NEW n \in 1..(Len(s) - 1), w[m] = w[n]
      PROVE  m = n
  <2>1. \E p \in 1..Len(s) : w[m] = s[p] /\ p = (IF m < i THEN m ELSE m + 1)
    BY <1>1, <1>2
  <2>2. \E p \in 1..Len(s) : w[n] = s[p] /\ p = (IF n < i THEN n ELSE n + 1)
    BY <1>1, <1>2
  <2>3. (IF m < i THEN m ELSE m + 1) = (IF n < i THEN n ELSE n + 1)
    BY <1>8, <2>1, <2>2 DEF IsMarks
  <2>4. QED
    BY <1>2, <2>3
<1>9. ASSUME NEW j, j # k, Has(s, j) PROVE Has(w, j)
  <2>1. PICK n \in 1..Len(s) : s[n] = j
    BY <1>1, <1>9 DEF Has
  <2>2. n # i
    BY <1>2, <1>9, <2>1
  <2>3. CASE n < i
    <3>1. n \in 1..(Len(s) - 1) /\ w[n] = j
      BY <1>1, <1>2, <2>1, <2>3
    <3>2. QED
      BY <1>7, <3>1 DEF Has
  <2>4. CASE n > i
    <3>1. n - 1 \in 1..(Len(s) - 1) /\ ~(n - 1 < i)
      BY <1>1, <1>2, <2>1, <2>4
    <3>2. w[n - 1] = j
      BY <2>1, <3>1
    <3>3. QED
      BY <1>7, <3>1, <3>2 DEF Has
  <2>5. QED
    BY <1>2, <2>2, <2>3, <2>4
<1>10. QED
  BY <1>3, <1>7, <1>8, <1>9 DEF IsMarks

Small(t) == Cardinality(PathsOf(t)) < MaxPathnames

Origins == {"none", "any", "kept", "unmarked"}

(* What the marks of a tab stand for: what the page got from the network   *)
(* and this worker passed on or fetched is marked, and a request that      *)
(* began behind that, or whose answer is under way after a look into the   *)
(* store, has its path marked and comes to no file.                        *)
MarksInv(t) ==
  /\ IsMarks(served[t], PathsOf(t))
  /\ \A k : <<t, k>> \in kept => Has(served[t], k)
  /\ \A r \in Requests :
       req[r] # None /\ req[r].tab = t =>
         /\ origin[r] = "kept" => /\ Has(served[t], req[r].key)
                                  /\ pc[r] \notin {"file", "served"}
         /\ pc[r] = "network" /\ origin[r] \notin {"none", "unmarked"} =>
              Has(served[t], req[r].key)
TabsInv ==
  /\ DOMAIN served = Tabs /\ origin \in [Requests -> Origins]
  /\ \A r \in Requests : pc[r] = "idle" => req[r] = None /\ origin[r] = "none"
  /\ \A t \in Tabs : IsFiniteSet(PathsOf(t)) /\ (Small(t) => MarksInv(t))

LEMMA InitTabsInv == Init => TabsInv
<1> SUFFICES ASSUME Init PROVE TabsInv
  OBVIOUS
<1>1. \A t \in Tabs : PathsOf(t) = {}
  BY DEF Init, PathsOf
<1>2. \A t \in Tabs : IsFiniteSet(PathsOf(t))
  BY <1>1, FS_EmptySet
<1>3. \A t \in Tabs : MarksInv(t)
  BY DEF Init, MarksInv, IsMarks
<1>4. QED
  BY <1>2, <1>3 DEF Init, TabsInv, Origins

(* The paths of the tabs are those of its requests. *)
LEMMA PathsStay ==
  ASSUME UNCHANGED req
  PROVE  \A t \in Tabs : PathsOf(t)' = PathsOf(t) /\ (Small(t)' <=> Small(t))
BY DEF PathsOf, Small

(* A request goes on: it may mark its path, and it must where it is passed *)
(* to the network; it comes to a file only where its path is not marked.   *)
LEMMA RequestGoesOn ==
  ASSUME TabsInv, ReadsInv, NEW r \in Requests, pc[r] # "idle", UNCHANGED req,
         served' = served \/ addUrlServedFromNetwork(r),
         NEW p, p # "idle", Goto(r, p),
         \/ UNCHANGED tabVars /\ (p = "network" => \/ addUrlServedFromNetwork(r)
                                                   \/ isUrlServedFromNetwork(r))
         \/ /\ pc[r] = "network" /\ p = "passed"
            /\ origin' = [origin EXCEPT ![r] = "none"]
            /\ \/ kept' = kept
               \/ /\ kept' = kept \cup {<<req[r].tab, req[r].key>>}
                  /\ addUrlServedFromNetwork(r) \/ origin[r] \notin {"none", "unmarked"},
         p \in {"file", "served"} =>
           ~isUrlServedFromNetwork(r) \/ (pc[r] = "file" /\ UNCHANGED tabVars)
  PROVE  TabsInv'
<1> DEFINE u == req[r].tab
           k == req[r].key
<1>1. req[r] # None /\ u \in Tabs /\ k \in Keys /\ k \in PathsOf(u)
  BY ServeAssumption DEF ReadsInv, PathsOf
<1>2. pc'[r] = p /\ \A s \in Requests \ {r} : pc'[s] = pc[s]
  BY DEF Goto, ReadsInv
<1>3. DOMAIN served' = Tabs /\ \A t \in Tabs \ {u} : served'[t] = served[t]
  BY DEF TabsInv, addUrlServedFromNetwork
<1>4. /\ origin' \in [Requests -> Origins]
      /\ origin'[r] \in {origin[r], "none"}
      /\ \A s \in Requests \ {r} : origin'[s] = origin[s]
  BY DEF TabsInv, tabVars, Origins
<1>5. \A t \in Tabs \ {u} : \A j : <<t, j>> \in kept' => <<t, j>> \in kept
  BY <1>1 DEF tabVars
<1>6. ASSUME NEW t \in Tabs, Small(t)' PROVE MarksInv(t)'
  <2>1. MarksInv(t) /\ PathsOf(t)' = PathsOf(t) /\ IsFiniteSet(PathsOf(t)) /\ Small(t)
    BY <1>6, PathsStay DEF TabsInv
  <2>2. CASE t # u
    BY <1>2, <1>3, <1>4, <1>5, <2>1, <2>2 DEF MarksInv
  <2>3. CASE t = u
    <3>1. /\ IsMarks(served[u], PathsOf(u)) /\ Len(served[u]) < MaxPathnames
      <4>1. IsMarks(served[u], PathsOf(u))
        BY <2>1, <2>3 DEF MarksInv
      <4>2. Len(served[u]) <= Cardinality(PathsOf(u))
        BY <2>1, <2>3, <4>1, MarksFit
      <4>3. Len(served[u]) \in Nat /\ Cardinality(PathsOf(u)) \in Nat
        BY <2>1, <2>3, <4>1, FS_CardinalityType DEF IsMarks
      <4>4. QED
        BY <2>1, <2>3, <4>1, <4>2, <4>3, ServeAssumption DEF Small
    <3>2. /\ IsMarks(served'[u], PathsOf(u))
          /\ \A j : Has(served[u], j) => Has(served'[u], j)
          /\ addUrlServedFromNetwork(r) => Has(served'[u], k)
      <4>1. CASE addUrlServedFromNetwork(r)
        <5>1. served'[u] = Mark(served[u], k)
          BY <1>1, <4>1 DEF addUrlServedFromNetwork, TabsInv
        <5>2. QED
          BY <1>1, <3>1, <5>1, MarkMarks
      <4>2. CASE ~addUrlServedFromNetwork(r)
        BY <3>1, <4>2
      <4>3. QED
        BY <4>1, <4>2
    <3>3. ASSUME NEW j, <<u, j>> \in kept' PROVE Has(served'[u], j)
      <4>1. \/ <<u, j>> \in kept
            \/ j = k /\ addUrlServedFromNetwork(r)
            \/ j = k /\ pc[r] = "network" /\ origin[r] \notin {"none", "unmarked"}
        BY <3>3 DEF tabVars
      <4>2. Has(served[u], j) \/ (j = k /\ addUrlServedFromNetwork(r))
        BY <1>1, <2>1, <2>3, <4>1 DEF MarksInv
      <4>3. QED
        BY <3>2, <4>2
    <3>4. ASSUME NEW s \in Requests \ {r}, req'[s] # None, req'[s].tab = u
          PROVE  /\ origin'[s] = "kept" => /\ Has(served'[u], req'[s].key)
                                           /\ pc'[s] \notin {"file", "served"}
                 /\ pc'[s] = "network" /\ origin'[s] \notin {"none", "unmarked"} =>
                      Has(served'[u], req'[s].key)
      BY <1>2, <1>4, <2>1, <2>3, <3>2, <3>4 DEF MarksInv
    <3>5. /\ origin'[r] = "kept" => Has(served'[u], k) /\ p \notin {"file", "served"}
          /\ p = "network" => Has(served'[u], k)
      <4>1. origin[r] = "kept" => Has(served[u], k) /\ pc[r] # "file"
        BY <1>1, <2>1, <2>3 DEF MarksInv
      <4>2. isUrlServedFromNetwork(r) <=> Has(served[u], k)
        BY DEF isUrlServedFromNetwork
      <4>3. p = "network" => Has(served'[u], k)
        BY <3>2, <4>2
      <4>4. QED
        BY <1>4, <3>2, <4>1, <4>2, <4>3
    <3>6. QED
      BY <1>2, <2>1, <2>3, <3>2, <3>3, <3>4, <3>5 DEF MarksInv
  <2>4. QED
    BY <2>2, <2>3
<1>7. \A t \in Tabs : IsFiniteSet(PathsOf(t))'
  BY PathsStay DEF TabsInv
<1>8. QED
  BY <1>1, <1>2, <1>3, <1>4, <1>6, <1>7 DEF TabsInv

(* A new request: its tab may have one path more. *)
LEMMA ArriveTabsInv ==
  ASSUME TabsInv, ReadsInv, NEW r \in Requests, NEW q \in RequestTypes,
         NEW p \in {"dir", "network"}, NEW o \in Origins, Arrive(r, q, p, o),
         p = "network" => o = "unmarked",
         o = "kept" => <<q.tab, q.key>> \in kept
  PROVE  TabsInv'
<1>1. /\ pc'[r] = p /\ req'[r] = q /\ q # None /\ q.tab \in Tabs
      /\ \A s \in Requests \ {r} : pc'[s] = pc[s] /\ req'[s] = req[s] /\ origin'[s] = origin[s]
      /\ UNCHANGED <<served, kept>>
      /\ origin'[r] = o
      /\ origin' \in [Requests -> Origins]
  BY ServeAssumption DEF Arrive, Goto, ReadsInv, TabsInv
<1>2. req[r] = None
  BY DEF Arrive, TabsInv
<1>3. ASSUME NEW t \in Tabs
      PROVE  /\ IsFiniteSet(PathsOf(t))' /\ PathsOf(t) \subseteq PathsOf(t)'
             /\ Small(t)' => Small(t)
  <2>1. PathsOf(t)' = IF q.tab = t THEN PathsOf(t) \cup {q.key} ELSE PathsOf(t)
    BY <1>1, <1>2 DEF PathsOf
  <2>2. IsFiniteSet(PathsOf(t))
    BY DEF TabsInv
  <2>3. /\ IsFiniteSet(PathsOf(t) \cup {q.key})
        /\ Cardinality(PathsOf(t)) \in Nat
        /\ Cardinality(PathsOf(t) \cup {q.key}) \in
             {Cardinality(PathsOf(t)), Cardinality(PathsOf(t)) + 1}
    BY <2>2, FS_AddElement, FS_CardinalityType
  <2>4. QED
    BY <2>1, <2>2, <2>3, ServeAssumption DEF Small
<1>4. ASSUME NEW t \in Tabs, Small(t)' PROVE MarksInv(t)'
  <2>1. MarksInv(t) /\ PathsOf(t) \subseteq PathsOf(t)'
    BY <1>3, <1>4 DEF TabsInv
  <2>2. IsMarks(served'[t], PathsOf(t)')
    <3>1. served[t] \in Seq(PathsOf(t)) /\ served' = served
      BY <1>1, <2>1 DEF MarksInv, IsMarks
    <3>2. served[t] \in Seq(PathsOf(t)')
      BY <2>1, <3>1
    <3>3. QED
      BY <2>1, <3>1, <3>2 DEF MarksInv, IsMarks
  <2>3. QED
    BY <1>1, <2>1, <2>2 DEF MarksInv
<1>5. QED
  BY <1>1, <1>3, <1>4 DEF TabsInv, Arrive

(* The page reconnects its player: the mark goes, and with it what it      *)
(* stood for.                                                              *)
LEMMA ReconnectTabsInv ==
  ASSUME TabsInv, ReadsInv, NEW t \in Tabs, NEW k \in Keys, Reconnect(t, k)
  PROVE  TabsInv'
<1>1. /\ Has(served[t], k) /\ served' = [served EXCEPT ![t] = Without(@, k)]
      /\ kept' = kept \ {<<t, k>>} /\ UNCHANGED <<req, pc>>
      /\ origin' = [r \in Requests |->
                      IF req[r] # None /\ req[r].tab = t /\ req[r].key = k
                      THEN "none" ELSE origin[r]]
  BY DEF Reconnect, reqVars
<1>2. DOMAIN served' = Tabs /\ origin' \in [Requests -> Origins]
  BY <1>1 DEF TabsInv, Origins
<1>3. ASSUME NEW u \in Tabs, Small(u)' PROVE MarksInv(u)'
  <2>1. MarksInv(u) /\ PathsOf(u)' = PathsOf(u)
    BY <1>1, <1>3, PathsStay DEF TabsInv
  <2>2. CASE u # t
    <3>1. served'[u] = served[u]
      BY <1>1, <2>2
    <3>2. \A r \in Requests : req[r] # None /\ req[r].tab = u => origin'[r] = origin[r]
      BY <1>1, <2>2
    <3>3. QED
      BY <1>1, <2>1, <3>1, <3>2 DEF MarksInv
  <2>3. CASE u = t
    <3>1. served'[t] = Without(served[t], k)
      BY <1>1 DEF TabsInv
    <3>2. /\ IsMarks(served'[t], PathsOf(t))
          /\ \A j : j # k /\ Has(served[t], j) => Has(served'[t], j)
      BY <1>1, <2>1, <2>3, <3>1, WithoutMarks DEF MarksInv
    <3>3. \A j : <<t, j>> \in kept' => j # k /\ <<t, j>> \in kept
      BY <1>1
    <3>4. \A r \in Requests : req[r] # None /\ req[r].tab = t =>
            origin'[r] = IF req[r].key = k THEN "none" ELSE origin[r]
      BY <1>1
    <3>5. QED
      BY <1>1, <2>1, <2>3, <3>2, <3>3, <3>4 DEF MarksInv
  <2>4. QED
    BY <2>2, <2>3
<1>4. QED
  BY <1>1, <1>2, <1>3, PathsStay DEF TabsInv

LEMMA DecideTabsInv ==
  ASSUME TabsInv, ReadsInv, NEW r \in Requests, pc[r] # "idle",
         UNCHANGED <<req, tabVars>>, NEW m, NEW f, Decide(r, m, f)
  PROVE  TabsInv'
<1>1. CASE /\ PassThrough(r)
           /\ addUrlServedFromNetwork(r) \/ (UNCHANGED served /\ isUrlServedFromNetwork(r))
  BY <1>1, RequestGoesOn DEF PassThrough
<1>2. CASE UNCHANGED served /\ ~isUrlServedFromNetwork(r)
           /\ \E p \in {"invalidating", "served", "file"} : Goto(r, p)
  BY <1>2, RequestGoesOn
<1>3. QED
  BY <1>1, <1>2 DEF Decide, Invalidate, Respond

LEMMA ServeTabsInv ==
  ASSUME TabsInv, ReadsInv, NEW r \in Requests, Serve(r)
  PROVE  TabsInv'
<1>1. UNCHANGED req /\ pc[r] # "idle"
  BY DEF Serve, DirFails, Lookup, Await, OpenFile, Invalidated, NetworkAnswer
<1>2. CASE DirFails(r) \/ Invalidated(r)
  BY <1>1, <1>2, RequestGoesOn DEF DirFails, Invalidated
<1>3. CASE Lookup(r)
  <2>1. CASE UNCHANGED served /\ Goto(r, "waiting")
    BY <1>1, <1>3, <2>1, RequestGoesOn DEF Lookup
  <2>2. CASE Decide(r, meta[req[r].key], None)
    BY <1>1, <1>3, <2>2, DecideTabsInv DEF Lookup
  <2>3. QED
    BY <1>3, <2>1, <2>2 DEF Lookup
<1>4. CASE Await(r)
  <2> DEFINE loaded == read[awaits[r]]
  <2>1. CASE Decide(r, FooterMeta(loaded.file), loaded.file)
    BY <1>1, <1>4, <2>1, DecideTabsInv DEF Await
  <2>2. CASE addUrlServedFromNetwork(r) /\ PassThrough(r)
    BY <1>1, <1>4, <2>2, RequestGoesOn DEF Await, PassThrough
  <2>3. CASE Invalidate(r)
    BY <1>1, <1>4, <2>3, RequestGoesOn DEF Await, Invalidate
  <2>4. QED
    BY <1>4, <2>1, <2>2, <2>3 DEF Await
<1>5. CASE OpenFile(r)
  <2>1. /\ UNCHANGED <<served, tabVars>> /\ pc[r] = "file"
        /\ Goto(r, "served") \/ Goto(r, "invalidating")
    BY <1>5 DEF OpenFile, Respond, Invalidate
  <2>2. QED
    BY <1>1, <2>1, RequestGoesOn
<1>6. CASE NetworkAnswer(r)
  <2>1. /\ served' = served \/ addUrlServedFromNetwork(r)
        /\ pc[r] = "network" /\ Goto(r, "passed")
        /\ origin' = [origin EXCEPT ![r] = "none"]
        /\ \/ kept' = kept
           \/ /\ kept' = kept \cup {<<req[r].tab, req[r].key>>}
              /\ addUrlServedFromNetwork(r) \/ origin[r] \notin {"none", "unmarked"}
    BY <1>6 DEF NetworkAnswer
  <2>2. QED
    BY <1>1, <2>1, RequestGoesOn
<1>7. QED
  BY <1>2, <1>3, <1>4, <1>5, <1>6 DEF Serve

(* A stop of the worker forgets every mark, and nothing that was under way *)
(* comes to an answer.                                                     *)
LEMMA RestartTabsInv == TabsInv /\ Restart => TabsInv'
<1> SUFFICES ASSUME TabsInv, Restart PROVE TabsInv'
  OBVIOUS
<1>1. /\ UNCHANGED req /\ kept' = {} /\ \A t \in Tabs : served'[t] = <<>>
      /\ \A r \in Requests : /\ origin'[r] = "none"
                             /\ pc'[r] = "idle" => pc[r] = "idle"
      /\ DOMAIN served' = Tabs /\ origin' \in [Requests -> Origins]
  BY DEF Restart, Origins
<1>2. ASSUME NEW t \in Tabs PROVE MarksInv(t)'
  <2>1. \A S : IsMarks(<<>>, S)
    BY DEF IsMarks
  <2>2. IsMarks(served'[t], PathsOf(t)')
    BY <1>1, <2>1
  <2>3. QED
    BY <1>1, <2>2 DEF MarksInv
<1>3. \A t \in Tabs : IsFiniteSet(PathsOf(t))'
  BY <1>1, PathsStay DEF TabsInv
<1>4. QED
  BY <1>1, <1>2, <1>3 DEF TabsInv

LEMMA NextTabsInv == TabsInv /\ ReadsInv /\ [Next]_vars => TabsInv'
<1> SUFFICES ASSUME TabsInv, ReadsInv, [Next]_vars PROVE TabsInv'
  OBVIOUS
<1>1. CASE UNCHANGED <<served, req, pc, kept, origin>>
  <2>1. \A t \in Tabs : PathsOf(t)' = PathsOf(t) /\ (Small(t)' <=> Small(t))
    BY <1>1, PathsStay
  <2>2. ASSUME NEW t \in Tabs, MarksInv(t) PROVE MarksInv(t)'
    BY <1>1, <2>1, <2>2 DEF MarksInv
  <2>3. QED
    BY <1>1, <2>1, <2>2 DEF TabsInv
<1>2. CASE UNCHANGED vars
  BY <1>1, <1>2 DEF vars, reqVars, tabVars
<1>3. ASSUME NEW r \in Requests, Read(r) PROVE TabsInv'
  BY <1>1, <1>3 DEF Read, ReadOpen, ReadFooter, ReadFails, reqVars, tabVars
<1>4. CASE Others
  <2>1. CASE \E t \in Tabs, k \in Keys : Reconnect(t, k)
    BY <2>1, ReconnectTabsInv
  <2>2. CASE ~\E t \in Tabs, k \in Keys : Reconnect(t, k)
    BY <1>1, <1>4, <2>2
       DEF Others, Scan, ScanBegin, ScanRead, ScanRecord, WriteBegin, WriteEnd, WriteLeft, Remove,
           Unindex, RemoveOutside, InvalidateFolder, reqVars, tabVars
  <2>3. QED
    BY <2>1, <2>2
<1>5. ASSUME NEW r \in Requests, NEW q \in RequestTypes, Begin(r, q) \/ Unhandled(r, q)
      PROVE  TabsInv'
  BY <1>5, ArriveTabsInv DEF Begin, Unhandled, Origins
<1>6. QED
  BY <1>2, <1>3, <1>4, <1>5, ServeTabsInv, RestartTabsInv DEF Next

(* SourceIsKept: for any number of tabs, requests, resources and stops of  *)
(* the worker, a tab that asks for fewer resources than there is room for  *)
(* is not switched to the store for a path it got from the network, as     *)
(* long as the worker that passed it on with a look into the store, or     *)
(* fetched it, lives.                                                      *)
THEOREM SourceStays == Spec => []SourceIsKept
<1>1. TabsInv /\ ReadsInv => SourceIsKept
  <2> SUFFICES ASSUME TabsInv, ReadsInv, NEW r \in Requests, origin[r] = "kept",
                      Cardinality(PathsOf(req[r].tab)) < MaxPathnames
               PROVE  pc[r] # "served"
    BY DEF SourceIsKept
  <2>1. req[r] \in RequestTypes
    BY DEF TabsInv, ReadsInv, Origins
  <2>2. req[r] # None /\ req[r].tab \in Tabs
    BY <2>1, ServeAssumption
  <2>3. MarksInv(req[r].tab)
    BY <2>2 DEF TabsInv, Small
  <2>4. QED
    BY <2>2, <2>3 DEF MarksInv
<1>2. QED
  BY <1>1, InitReadsInv, NextReadsInv, InitTabsInv, NextTabsInv, PTL DEF Spec
=============================================================================
