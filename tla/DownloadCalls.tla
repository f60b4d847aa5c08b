---------------------------- MODULE DownloadCalls ----------------------------
(***************************************************************************)
(* startDownloadAssetsToOpfs of client/backgroundFetch.ts: a call asks the *)
(* worker what passes its filter and which folders it has, the browser     *)
(* what is under way, the worker what is cached, and starts a download of  *)
(* the rest, or attaches to one; then it waits for the end to be told.     *)
(*                                                                         *)
(* pc[c] names the `await` the call is at, or how its promise has settled. *)
(* A question that is not answered in time has an answer of its own; the   *)
(* promise is settled by then, so that what comes later changes nothing.   *)
(***************************************************************************)
EXTENDS BackgroundFetch

CONSTANTS Asks,           \* what a call may be given
          Registered,     \* the folders registered in the worker
          FirstFilter     \* the folder whose plugin answers for the filter

(* A call is given a folder and assets; hook: startDownload of the hook    *)
(* makes it.                                                               *)
AskType == [folder : Folders, assets : SUBSET Assets, hook : BOOLEAN]

ASSUME AskAssumption ==
  /\ Asks \subseteq AskType /\ None \notin Asks
  /\ Handled \subseteq Registered /\ Registered \subseteq Folders
  /\ FirstFilter \in Handled

VARIABLES
  ask,                    \* per call: what it was given, while in flight
  local,                  \* per call: the locals below
  aborted,                \* the calls in flight whose AbortSignal is aborted
  starting,               \* the calls whose chain to startBackgroundFetch runs
  underWay                \* auxiliary: per call, what has been downloading
                          \* ever since it asked the browser

settleVars == <<pc, ask, local, aborted, mail, underWay>>
vars == <<siteVars, mail, id, pc, ask, local, aborted, starting, underWay>>

(* use: assetsToUse; ids: ourActiveIds; todo: those still to be looked at; *)
(* progress: pathnamesInProgress; rest: assetsToFetch; attach: bfReg_1 is  *)
(* there; missed, auxiliary: the end of that download has been told by now.*)
NoLocal == [use |-> {}, ids |-> {}, todo |-> {}, progress |-> {}, rest |-> {},
            attach |-> FALSE, missed |-> FALSE]

CallsInit ==
  /\ pc = [c \in Calls |-> "idle"] /\ ask = [c \in Calls |-> None]
  /\ local = [c \in Calls |-> NoLocal]
  /\ aborted = {} /\ starting = {}
  /\ underWay = [c \in Calls |-> {}]

At(c, s) == pc[c] = s
Goto(c, s) == pc' = [pc EXCEPT ![c] = s]

(* The promise settles, and the subscriptions of the call are over. *)
Settle(c, how) ==
  /\ Goto(c, how)
  /\ ask' = [ask EXCEPT ![c] = None]
  /\ local' = [local EXCEPT ![c] = NoLocal]
  /\ aborted' = aborted \ {c}
  /\ mail' = [mail EXCEPT ![c] = <<>>]
  /\ underWay' = [underWay EXCEPT ![c] = IF c \in starting THEN @ ELSE {}]

Begin(c, a) ==
  /\ At(c, "idle") /\ a \in Asks
  /\ Goto(c, "questions")
  /\ ask' = [ask EXCEPT ![c] = a]
  /\ UNCHANGED <<siteVars, mail, id, local, aborted, starting, underWay>>

(* getBackgroundFetchFilter: of several plugins the first one's filter is  *)
(* taken, whatever the folder; without an answer in time nothing passes.   *)
FilterAnswers == {Include(FirstFilter), {}}

(* getRegisteredFolders: without an answer in time there are none. *)
FolderAnswers == {Registered, {}}

Questions(c) ==
  \E include \in FilterAnswers, folders \in FolderAnswers :
    /\ At(c, "questions") /\ ask[c].folder \in folders
    /\ ask[c].assets \cap include # {}
    /\ local' = [local EXCEPT ![c].use = ask[c].assets \cap include]
    /\ Goto(c, "ids")
    /\ UNCHANGED <<siteVars, mail, id, ask, aborted, starting, underWay>>

FilteredOut(c) ==
  /\ At(c, "questions")
  /\ \E include \in FilterAnswers, folders \in FolderAnswers :
       ask[c].folder \in folders /\ ask[c].assets \cap include = {}
  /\ Settle(c, "filtered")
  /\ UNCHANGED <<siteVars, id, starting>>

FoldersFail(c) ==
  /\ At(c, "questions")
  /\ \E folders \in FolderAnswers : ask[c].folder \notin folders
  /\ Settle(c, "error")
  /\ UNCHANGED <<siteVars, id, starting>>

(* getBackgroundFetchIds: the downloads that are active now. *)
GetIds(c) ==
  /\ At(c, "ids")
  /\ local' = [local EXCEPT ![c].ids = ActiveIds, ![c].todo = ActiveIds]
  /\ underWay' = [underWay EXCEPT ![c] = UNION {i.assets : i \in ActiveIds}]
  /\ Goto(c, "match")
  /\ UNCHANGED <<siteVars, mail, id, ask, aborted, starting>>

IdsFail(c) ==
  /\ At(c, "ids")
  /\ Settle(c, "error")
  /\ UNCHANGED <<siteVars, id, starting>>

(* getBackgroundFetchRegistration and matchAll of one of them. *)
Match(c, i) ==
  /\ At(c, "match") /\ i \in local[c].todo /\ i \in ActiveIds
  /\ local' = [local EXCEPT ![c].todo = @ \ {i}, ![c].progress = @ \cup i.assets]
  /\ UNCHANGED <<siteVars, mail, id, pc, ask, aborted, starting, underWay>>

(* It is over by now, or the question fails; that is ignored. *)
MatchFails(c, i) ==
  /\ At(c, "match") /\ i \in local[c].todo
  /\ local' = [local EXCEPT ![c].todo = @ \ {i}]
  /\ underWay' = [underWay EXCEPT ![c] = @ \ i.assets]
  /\ UNCHANGED <<siteVars, mail, id, pc, ask, aborted, starting>>

(* listOpfsCachedResources: the metadata cache may not know of a file yet, *)
(* and an answer that is late or an error stands for no files.             *)
ListAnswers(f) == SUBSET {a \in Assets : store[a] = [folder |-> f, whole |-> TRUE]}

(* Mutant of Rest: what is under way is not left out. *)
RestOfAll(c, listed) == local[c].use \ listed
Rest(c, listed) == (local[c].use \ local[c].progress) \ listed

NothingToFetch(c) ==
  /\ At(c, "match") /\ local[c].todo = {}
  /\ \E listed \in ListAnswers(ask[c].folder) : Rest(c, listed) = {}
  /\ Settle(c, "nothing")
  /\ UNCHANGED <<siteVars, id, starting>>

List(c) ==
  /\ At(c, "match") /\ local[c].todo = {}
  /\ \E listed \in ListAnswers(ask[c].folder) :
       /\ Rest(c, listed) # {}
       /\ local' = [local EXCEPT ![c].rest = Rest(c, listed)]
  /\ Goto(c, "run")
  /\ UNCHANGED <<siteVars, mail, id, ask, aborted, starting, underWay>>

(* The id is known.  When it is one of those that were active before, the  *)
(* browser is asked for it again.  The hash or that question may fail.     *)
(* Mutant of StillActive: the browser is not asked again.                  *)
OwnId(c) == [folder |-> ask[c].folder, assets |-> local[c].rest]
WasActive(c) == OwnId(c) \in local[c].ids
StillActiveUnasked(c) == TRUE
StillActive(c) == OwnId(c) \in ActiveIds

Check(c) ==
  /\ At(c, "run") /\ WasActive(c)
  /\ local' = [local EXCEPT ![c].attach = StillActive(c)]
  /\ Goto(c, "checked")
  /\ UNCHANGED <<siteVars, mail, id, ask, aborted, starting, underWay>>

RunFails(c) ==
  /\ At(c, "run")
  /\ Settle(c, "error")
  /\ UNCHANGED <<siteVars, id, starting>>

(* runBackgroundFetch: a signal that is aborted already ends it; else it   *)
(* subscribes, and starts the download or attaches to the one it knows of. *)
Runs(c) == At(c, "checked") \/ (At(c, "run") /\ ~WasActive(c))

RunAborted(c) ==
  /\ Runs(c) /\ c \in aborted
  /\ Settle(c, "abort")
  /\ UNCHANGED <<siteVars, id, starting>>

Run(c) ==
  /\ Runs(c) /\ c \notin aborted
  /\ id' = [id EXCEPT ![c] = OwnId(c)]
  /\ starting' = IF local[c].attach THEN starting ELSE starting \cup {c}
  /\ local' = [local EXCEPT ![c] = [NoLocal EXCEPT !.missed = local[c].missed]]
  /\ Goto(c, "waiting")
  /\ UNCHANGED <<siteVars, mail, ask, aborted, underWay>>

(* startBackgroundFetch: the browser refuses an id that is active, and may *)
(* refuse any.  The chain runs on when the call was aborted meanwhile.     *)
Start(c) ==
  /\ c \in starting /\ id[c] \notin ActiveIds
  /\ starting' = starting \ {c}
  /\ fetch' = [fetch EXCEPT ![c] = "active"]
  /\ underWay' = [underWay EXCEPT ![c] = {}]
  /\ UNCHANGED <<handler, store, restarts, doubtful, mail, id, pc, ask, local, aborted>>

StartFails(c) ==
  /\ c \in starting
  /\ starting' = starting \ {c}
  /\ IF At(c, "waiting") THEN Settle(c, "error") ELSE UNCHANGED settleVars
  /\ UNCHANGED <<siteVars, id>>

(* A message arrives.  One with another id, or before the call has         *)
(* subscribed, is ignored: Misses(c, m), it is one the call will wait for. *)
(* Mutant of Concerns: the id is not looked at.                            *)
ConcernsAll(c, m) == At(c, "waiting")
Concerns(c, m) == At(c, "waiting") /\ m.id = id[c]
Misses(c, m) == At(c, "checked") /\ local[c].attach /\ m.id = OwnId(c)

Receive(c) ==
  /\ mail[c] # <<>>
  /\ LET m == Head(mail[c])
         how == IF m.kind = "success" THEN "completed" ELSE m.kind
     IN  IF Concerns(c, m)
         THEN Settle(c, how)
         ELSE /\ mail' = [mail EXCEPT ![c] = Tail(@)]
              /\ local' = [local EXCEPT ![c].missed = @ \/ Misses(c, m)]
              /\ UNCHANGED <<pc, ask, aborted, underWay>>
  /\ UNCHANGED <<siteVars, id, starting>>

(* The signal is aborted.  Before the call has subscribed that is not      *)
(* looked at until it does; then it settles at once.                       *)
Abort(c) ==
  /\ c \in inFlight \ aborted
  /\ IF At(c, "waiting") THEN Settle(c, "abort")
     ELSE /\ aborted' = aborted \cup {c}
          /\ UNCHANGED <<pc, ask, local, mail, underWay>>
  /\ UNCHANGED <<siteVars, id, starting>>

CallStep(c) ==
  \/ Questions(c) \/ FilteredOut(c) \/ FoldersFail(c) \/ GetIds(c) \/ IdsFail(c)
  \/ NothingToFetch(c) \/ List(c) \/ Check(c) \/ RunFails(c) \/ RunAborted(c) \/ Run(c)
  \/ StartFails(c) \/ Receive(c)
  \/ \E i \in local[c].todo : Match(c, i) \/ MatchFails(c, i)

(* A step of the browser or the worker.  What is no longer downloading was *)
(* not under way all the time.                                             *)
Downloading == UNION {i.assets : i \in ActiveIds}
Outside ==
  /\ WorkerNext
  /\ underWay' = [c \in Calls |-> underWay[c] \cap Downloading']
  /\ UNCHANGED <<ask, local, aborted, starting>>
------------------------------------------------------------------------------
LocalType == [use : SUBSET Assets, ids : SUBSET IdType, todo : SUBSET IdType,
              progress : SUBSET Assets, rest : SUBSET Assets,
              attach : BOOLEAN, missed : BOOLEAN]
HandlerType == [at : {"none", "running", "over", "thrown", "killed"},
                todo : SUBSET Assets, writing : Assets \cup {None},
                opened : BOOLEAN, written : SUBSET Assets, skipped : SUBSET Assets]
MessageType == [kind : Ended, id : IdType,
                written : SUBSET Assets, skipped : SUBSET Assets]

Asking == {"questions", "ids", "match", "run", "checked"}
PcType == {"idle", "waiting"} \cup Asking \cup Settled

TypeOK ==
  /\ fetch \in [Calls -> FetchType]
  /\ id \in [Calls -> IdType \cup {None}]
  /\ handler \in [Handlers -> HandlerType]
  /\ store \in [Assets -> FileType \cup {None}]
  /\ mail \in [Calls -> Seq(MessageType)]
  /\ restarts \in 0..MaxRestarts
  /\ doubtful \subseteq Assets
  /\ pc \in [Calls -> PcType]
  /\ ask \in [Calls -> Asks \cup {None}]
  /\ local \in [Calls -> LocalType]
  /\ aborted \subseteq Calls /\ starting \subseteq Calls
  /\ underWay \in [Calls -> SUBSET Assets]

(* A call has an id from its run on, and a download only behind that; what *)
(* is kept of a call in flight is gone when it has settled.                *)
CallsInv ==
  \A c \in Calls :
    /\ pc[c] \in {"idle"} \cup Asking => id[c] = None
    /\ pc[c] = "waiting" => id[c] # None
    /\ id[c] = None => fetch[c] = "none" /\ c \notin starting
    /\ c \in starting => fetch[c] = "none"
    /\ c \in inFlight => ask[c] # None
    /\ c \notin inFlight => c \notin aborted /\ mail[c] = <<>>

(* A handler divides the records into those to come, the written and the   *)
(* others, and the message at the end says what has become of each.        *)
Divides(S, a, b, c) == /\ a \cup b \cup c = S
                       /\ a \cap b = {} /\ a \cap c = {} /\ b \cap c = {}
HandlerOK(d, f) ==
  LET h == handler[<<d, f>>] IN
  /\ h.at # "none" => fetch[d] \in Ended /\ IsOurs(d, f)
  /\ h.at = "running" => /\ h.writing \in h.todo \cup {None}
                         /\ h.opened => h.writing # None
                         /\ Divides(id[d].assets, h.todo, h.written, h.skipped)
MessageOK(m) == m.kind = "success" => Divides(m.id.assets, {}, m.written, m.skipped)
HandlersInv ==
  /\ \A d \in Calls, f \in Handled : HandlerOK(d, f)
  /\ \A c \in Calls : \A i \in 1..Len(mail[c]) : MessageOK(mail[c][i])

(* What the pages are told is written is whole in the store, while the     *)
(* download is handled and in the message at its end: unless a file of it  *)
(* has been removed since, or another writer had it when it was counted.   *)
IsStored(told) == \A a \in told \ doubtful : store[a] # None /\ store[a].whole
ToldIsStored ==
  /\ \A h \in Handlers : IsStored(handler[h].written)
  /\ \A c \in Calls : \A i \in 1..Len(mail[c]) : IsStored(mail[c][i].written)

(* A call that resolves by the end of a download learns of every asset it  *)
(* wanted, and of no other, whether it was written.                        *)
ResultIsComplete ==
  [][\A c \in Calls :
       ~At(c, "completed") /\ pc'[c] = "completed" =>
         LET m == Head(mail[c]) IN
           /\ m.written \cup m.skipped = id[c].assets
           /\ m.written \cap m.skipped = {}]_vars

(* No download is started of what was downloading all the time since the   *)
(* call asked the browser, unless a question about it failed.              *)
NoDoubleDownload ==
  \A c \in starting : id[c].assets \cap underWay[c] = {}

(* A call waits for ever only for a download the browser never ends; for   *)
(* one in whose event the handler was left, by an exception or as the      *)
(* worker was stopped; for one of a folder without a plugin for background *)
(* fetches; or, attached, for one whose end was told after the browser had *)
(* said that it is active and before the call has subscribed.              *)
Lost(c) == \E d \in Calls, f \in Handled :
             /\ id[d] = id[c] /\ (fetch[c] = "none" \/ d = c)
             /\ handler[<<d, f>>].at \in {"thrown", "killed"}
Unhandled(c) == \A f \in Handled : ~IsOurs(c, f)
CallsEnd ==
  \A c \in Calls :
    <>[](c \in inFlight) =>
      <>[](id[c] # None /\ (\/ id[c] \in ActiveIds \/ Lost(c)
                            \/ Unhandled(c) \/ local[c].missed))
==============================================================================
