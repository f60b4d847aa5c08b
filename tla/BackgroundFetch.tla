--------------------------- MODULE BackgroundFetch ---------------------------
(***************************************************************************)
(* Background fetches, the part of the browser and of the service worker   *)
(* (opfsBackgroundFetch.ts).  A page's call starts a download; the browser *)
(* ends it, with or without the page and the worker, and hands the event   *)
(* to every plugin of the worker; the plugin of the folder writes the      *)
(* files and tells the pages.                                              *)
(*                                                                         *)
(* A download is named by the call that started it.  Its registration id   *)
(* is the encoded folder and a hash of folder and assets, for which the    *)
(* pair of folder and assets stands.                                       *)
(***************************************************************************)
EXTENDS Naturals, Sequences, FiniteSets

CONSTANTS Assets,         \* the resources, by their pathnames
          Folders,        \* the names of folders a page may give, which are
                          \* sequences of characters
          Handled,        \* those with a plugin opfsBackgroundFetch
          Plain,          \* the characters an id keeps of a folder
          Include(_),     \* the assets that pass include/exclude of its plugin
          Calls,          \* the calls of startDownloadAssetsToOpfs
          Stores,         \* what the store may hold at first
          None,           \* no file, no asset, no id
          MaxRestarts     \* how often the browser may stop the worker

IdType == [folder : Folders, assets : SUBSET Assets]
FileType == [folder : Folders, whole : BOOLEAN]
Handlers == Calls \X Handled

ASSUME FetchAssumption ==
  /\ Handled \subseteq Folders
  /\ \A f \in Handled : Include(f) \subseteq Assets
  /\ Stores \subseteq [Assets -> FileType \cup {None}]
  /\ MaxRestarts \in Nat
  /\ None \notin Assets \cup Calls \cup FileType \cup IdType

VARIABLES
  fetch,                  \* per call: the state of the download it started
  id,                     \* per call: its registration id, or None
  handler,                \* the event handlers of the plugins, per download
  store,                  \* asset -> file or None
  pc,                     \* per call: where it is (see DownloadCalls)
  mail,                   \* per call: messages on their way to its page
  restarts,               \* how often the worker was restarted
  doubtful                \* auxiliary: the assets a file of which was removed,
                          \* or taken for written before it was whole

siteVars == <<fetch, handler, store, restarts, doubtful>>

Ended == {"success", "fail", "abort"}
FetchType == {"none", "active"} \cup Ended

(* at: "thrown" when the handler was left by an exception, "killed" when   *)
(* the worker was stopped in it.  writing: the record writeToOpfs is at;   *)
(* opened: it has its file open.                                           *)
NoHandler == [at |-> "none", todo |-> {}, writing |-> None, opened |-> FALSE,
              written |-> {}, skipped |-> {}]

(* The downloads the browser has in its list of active ones: a download    *)
(* leaves it before the worker hears of its end.                           *)
Active == {d \in Calls : fetch[d] = "active"}
ActiveIds == {id[d] : d \in Active}

(* The calls that have begun and are not settled. *)
Settled == {"filtered", "nothing", "completed", "fail", "abort", "error"}
inFlight == {c \in Calls : pc[c] \notin Settled \cup {"idle"}}

(* notifyClients: the message goes to every page.  Kept are those a call   *)
(* may still take up: it has begun, and waits for no other id.             *)
Listens(c, i) == c \in inFlight /\ id[c] \in {None, i}
Tell(message) ==
  mail' = [c \in Calls |-> IF Listens(c, message.id) THEN Append(mail[c], message)
                                                     ELSE mail[c]]
EndMessage(kind, d, h) ==
  [kind |-> kind, id |-> id[d], written |-> h.written, skipped |-> h.skipped]

(* The browser ends a download: everything is there, something failed, or  *)
(* the user has stopped it.                                                *)
End(d, how) ==
  /\ fetch[d] = "active" /\ how \in Ended
  /\ fetch' = [fetch EXCEPT ![d] = how]
  /\ UNCHANGED <<id, handler, store, pc, mail, restarts, doubtful>>

(* The test of a plugin for its downloads: the id begins with the folder   *)
(* in the encoding of ids, which has one character for all but the plain.  *)
encodeFolderForId(f) == [i \in DOMAIN f |-> IF f[i] \in Plain THEN f[i] ELSE "_"]
IsOurs(d, f) ==
  id[d] # None /\ encodeFolderForId(id[d].folder) = encodeFolderForId(f)

(* backgroundfetchfail and backgroundfetchabort: the pages are told. *)
ToldEnd(d, f) ==
  /\ fetch[d] \in {"fail", "abort"} /\ IsOurs(d, f)
  /\ handler[<<d, f>>].at = "none"
  /\ handler' = [handler EXCEPT ![<<d, f>>].at = "over"]
  /\ Tell(EndMessage(fetch[d], d, NoHandler))
  /\ UNCHANGED <<fetch, id, store, pc, restarts, doubtful>>

(* backgroundfetchsuccess: the records are taken one at a time.  When the  *)
(* store or the records are refused, the handler is left by the exception, *)
(* and no page is told.                                                    *)
Success(d, f) ==
  /\ fetch[d] = "success" /\ IsOurs(d, f)
  /\ handler[<<d, f>>].at = "none"
  /\ handler' = [handler EXCEPT ![<<d, f>>] =
                   [NoHandler EXCEPT !.at = "running", !.todo = id[d].assets]]
  /\ UNCHANGED <<fetch, id, store, pc, mail, restarts, doubtful>>

SuccessFails(d, f) ==
  /\ fetch[d] = "success" /\ IsOurs(d, f)
  /\ handler[<<d, f>>].at = "none"
  /\ handler' = [handler EXCEPT ![<<d, f>>].at = "thrown"]
  /\ UNCHANGED <<fetch, id, store, pc, mail, restarts, doubtful>>

Running(d, f) == handler[<<d, f>>].at = "running"
NextRecord(d, f, a) == Running(d, f) /\ handler[<<d, f>>].writing = None /\ a \in handler[<<d, f>>].todo

(* A record is passed over: the filter of this folder, the skip list, or a *)
(* response that is not ok.  Mutant of Skip: it is not counted.            *)
SkipUncounted(d, f, a) ==
  /\ NextRecord(d, f, a)
  /\ handler' = [handler EXCEPT ![<<d, f>>].todo = @ \ {a}]
  /\ UNCHANGED <<fetch, id, store, pc, mail, restarts, doubtful>>
Skip(d, f, a) ==
  /\ NextRecord(d, f, a)
  /\ handler' = [handler EXCEPT ![<<d, f>>].todo = @ \ {a}, ![<<d, f>>].skipped = @ \cup {a}]
  /\ UNCHANGED <<fetch, id, store, pc, mail, restarts, doubtful>>

(* The response of a record is awaited outside of the try: when it is not  *)
(* to be had the handler is left, and no page is told.                     *)
RecordFails(d, f, a) ==
  /\ NextRecord(d, f, a) /\ a \in Include(f)
  /\ handler' = [handler EXCEPT ![<<d, f>>] = [NoHandler EXCEPT !.at = "thrown"]]
  /\ UNCHANGED <<fetch, id, store, pc, mail, restarts, doubtful>>

(* The record counts as written.  The pages are told what counts by now,   *)
(* which a call passes on to its caller and makes nothing else of: that    *)
(* message is left out of the mail.                                        *)
Count(d, f, a) ==
  /\ handler' = [handler EXCEPT ![<<d, f>>].todo = @ \ {a}, ![<<d, f>>].writing = None,
                                ![<<d, f>>].opened = FALSE,
                                ![<<d, f>>].written = @ \cup {a}]
  /\ UNCHANGED mail

(* writeToOpfs finds a file and returns; it does not see whether another   *)
(* writer is still at it, or was stopped before it was whole.              *)
Exists(d, f, a) ==
  /\ NextRecord(d, f, a) /\ a \in Include(f) /\ store[a] # None
  /\ Count(d, f, a)
  /\ doubtful' = IF store[a].whole THEN doubtful ELSE doubtful \cup {a}
  /\ UNCHANGED <<fetch, id, store, pc, restarts>>

(* writeToOpfs finds no file, and sees to the room for one. *)
NoFile(d, f, a) ==
  /\ NextRecord(d, f, a) /\ a \in Include(f) /\ store[a] = None
  /\ handler' = [handler EXCEPT ![<<d, f>>].writing = a]
  /\ UNCHANGED <<fetch, id, store, pc, mail, restarts, doubtful>>

Opened(d, f) == Running(d, f) /\ handler[<<d, f>>].opened
Writers(a) == {h \in Handlers : handler[h].opened /\ handler[h].writing = a}

(* The file is opened: it is created, empty until the writable is closed,  *)
(* unless another writer has created it since.                             *)
(* Mutant of Create: what is there by now is emptied.                      *)
CreateEmpties(d, f) ==
  LET a == handler[<<d, f>>].writing IN
  /\ Running(d, f) /\ a # None /\ ~handler[<<d, f>>].opened
  /\ store' = [store EXCEPT ![a] = [folder |-> f, whole |-> FALSE]]
  /\ handler' = [handler EXCEPT ![<<d, f>>].opened = TRUE]
  /\ UNCHANGED <<fetch, id, pc, mail, restarts, doubtful>>
Create(d, f) ==
  LET a == handler[<<d, f>>].writing IN
  /\ Running(d, f) /\ a # None /\ ~handler[<<d, f>>].opened
  /\ store' = [store EXCEPT ![a] =
                 IF @ = None THEN [folder |-> f, whole |-> FALSE] ELSE @]
  /\ handler' = [handler EXCEPT ![<<d, f>>].opened = TRUE]
  /\ UNCHANGED <<fetch, id, pc, mail, restarts, doubtful>>

(* The writable is closed: its content is that of the file. *)
Written(d, f) ==
  LET a == handler[<<d, f>>].writing IN
  /\ Opened(d, f)
  /\ store' = [store EXCEPT ![a] = [folder |-> f, whole |-> TRUE]]
  /\ Count(d, f, a)
  /\ UNCHANGED <<fetch, id, pc, restarts, doubtful>>

(* writeToOpfs fails: before it has a file; or later, and then it removes  *)
(* the file, its own or what another writer has made of it.  That may be   *)
(* refused, and is while another writer has the file open.                 *)
NotWritten(d, f, a) ==
  /\ handler' = [handler EXCEPT ![<<d, f>>].todo = @ \ {a}, ![<<d, f>>].writing = None,
                                ![<<d, f>>].opened = FALSE,
                                ![<<d, f>>].skipped = @ \cup {a}]
  /\ UNCHANGED mail
NoRoom(d, f) ==
  LET a == handler[<<d, f>>].writing IN
  /\ Running(d, f) /\ a # None /\ ~handler[<<d, f>>].opened
  /\ NotWritten(d, f, a)
  /\ UNCHANGED <<fetch, id, store, pc, restarts, doubtful>>

WriteFails(d, f) ==
  LET a == handler[<<d, f>>].writing IN
  /\ Opened(d, f)
  /\ NotWritten(d, f, a)
  /\ \/ UNCHANGED <<store, doubtful>>
     \/ /\ Writers(a) = {<<d, f>>}
        /\ store' = [store EXCEPT ![a] = None]
        /\ doubtful' = IF store[a] # None /\ store[a].whole
                       THEN doubtful \cup {a} ELSE doubtful
  /\ UNCHANGED <<fetch, id, pc, restarts>>

(* All records are through: COMPLETED. *)
Completed(d, f) ==
  /\ Running(d, f) /\ handler[<<d, f>>].todo = {}
  /\ handler' = [handler EXCEPT ![<<d, f>>] = [NoHandler EXCEPT !.at = "over"]]
  /\ Tell(EndMessage("success", d, handler[<<d, f>>]))
  /\ UNCHANGED <<fetch, id, store, pc, restarts, doubtful>>

PluginStep(d, f) ==
  \/ ToldEnd(d, f) \/ Success(d, f) \/ SuccessFails(d, f) \/ Completed(d, f)
  \/ Create(d, f) \/ NoRoom(d, f) \/ Written(d, f) \/ WriteFails(d, f)
  \/ \E a \in Assets : \/ Skip(d, f, a) \/ RecordFails(d, f, a)
                       \/ Exists(d, f, a) \/ NoFile(d, f, a)

(* Another operation of the worker removes a whole file: a deletion, a     *)
(* clear of its folder, an eviction.  It is refused while a writer has the *)
(* file open.                                                              *)
Remove(a) ==
  /\ store[a] # None /\ store[a].whole
  /\ Writers(a) = {}
  /\ store' = [store EXCEPT ![a] = None]
  /\ doubtful' = doubtful \cup {a}
  /\ UNCHANGED <<fetch, id, handler, pc, mail, restarts>>

(* The browser stops the worker in its handlers.  They are not called      *)
(* again; the files they had open stay, empty.  A stop while none of them  *)
(* runs changes nothing here.                                              *)
Restart ==
  /\ restarts < MaxRestarts /\ \E h \in Handlers : handler[h].at = "running"
  /\ restarts' = restarts + 1
  /\ handler' = [h \in Handlers |->
                   IF handler[h].at = "running"
                   THEN [NoHandler EXCEPT !.at = "killed"] ELSE handler[h]]
  /\ UNCHANGED <<fetch, id, store, pc, mail, doubtful>>

WorkerInit ==
  /\ fetch = [c \in Calls |-> "none"]
  /\ id = [c \in Calls |-> None]
  /\ handler = [h \in Handlers |-> NoHandler]
  /\ store \in Stores
  /\ mail = [c \in Calls |-> <<>>]
  /\ restarts = 0 /\ doubtful = {}

WorkerNext ==
  \/ Restart
  \/ \E a \in Assets : Remove(a)
  \/ \E d \in Calls : \/ \E how \in Ended : End(d, how)
                      \/ \E f \in Handled : PluginStep(d, f)
==============================================================================
