------------------------------ MODULE RangeFetch ------------------------------
(***************************************************************************)
(* opfsRangeFromNetworkAndCache.ts: a request the cache did not answer is  *)
(* sent to the network, and the resource is brought into the store behind  *)
(* it.  A full response is teed into writeToOpfs.  A partial one (206)     *)
(* starts a background GET of the whole resource, at most one per URL, and *)
(* the pages are told when the first starts and when the last is over.     *)
(* Nothing asks the browser to keep the worker for a GET in the background *)
(* (no event.waitUntil): it may be stopped in the middle, and its memory   *)
(* goes with it, while the pages stay.                                     *)
(*                                                                         *)
(* A request is a call of the plugin's fetch handler; `pc` is where it is. *)
(* `job` is the write, or background GET and write, it left behind.        *)
(***************************************************************************)
EXTENDS Integers, Sequences, FiniteSets

CONSTANTS Requests,       \* calls of the fetch handler
          Urls,           \* the URLs the plugin's include patterns let through
          MaxRestarts     \* bound of the model: how often the worker is stopped

ASSUME MaxRestartsAssumption == MaxRestarts \in Nat

VARIABLES
  pc,                     \* idle, asked, keying, answered, passed or lost, per request
  url, range,             \* of the request: its URL, whether it has a Range header
  job,                    \* none, fetching, writing or over, per request
  background,             \* the requests whose job is a backgroundFullFetchToOpfs
  loadingUrls,            \* the Set of that name
  activeRangeCacheFetchCount,
  skipList,               \* of opfsLru.ts
  outbox,                 \* messages notifyClients has not delivered yet
  busy,                   \* what a page shows: STARTED came, ALL_DONE did not
  restarts,               \* how often the worker was stopped
  interrupted             \* no variable of the code: the worker was stopped in a
                          \* GET, and no message was sent since

jobVars == <<job, background, loadingUrls, activeRangeCacheFetchCount, skipList>>
stopVars == <<restarts, interrupted>>
vars == <<pc, url, range, job, background, loadingUrls,
          activeRangeCacheFetchCount, skipList, outbox, busy, restarts, interrupted>>

Init ==
  /\ pc = [r \in Requests |-> "idle"]
  /\ url \in [Requests -> Urls]
  /\ range \in [Requests -> BOOLEAN]
  /\ job = [r \in Requests |-> "none"]
  /\ background = {}
  /\ loadingUrls = {}
  /\ activeRangeCacheFetchCount = 0
  /\ skipList = {}
  /\ outbox = <<>>
  /\ busy = FALSE
  /\ restarts = 0
  /\ interrupted = FALSE

Goto(r, s) == pc' = [pc EXCEPT ![r] = s]
------------------------------------------------------------------------------
(* The handler up to fetchPassthrough. *)
Ask(r) ==
  /\ pc[r] = "idle"
  /\ Goto(r, "asked")
  /\ UNCHANGED <<url, range, jobVars, outbox, busy, stopVars>>

(* The network fails, or its answer is handed on as it is: no body, an     *)
(* error status, a 416, a 200 of unknown length to a Range request.        *)
PassOn(r) ==
  /\ pc[r] = "asked"
  /\ Goto(r, "passed")
  /\ UNCHANGED <<url, range, jobVars, outbox, busy, stopVars>>

(* A 200: the key and the directory are looked up before the body is teed. *)
(* The skip list is asked for a full request, and not for a Range request  *)
(* to which the server answers with the whole resource.                    *)
FullResponse(r) ==
  /\ pc[r] = "asked"
  /\ Goto(r, IF ~range[r] /\ url[r] \in skipList THEN "answered" ELSE "keying")
  /\ UNCHANGED <<url, range, jobVars, outbox, busy, stopVars>>

(* The body is teed: one branch answers, the other goes to writeToOpfs.    *)
Tee(r) ==
  /\ pc[r] = "keying"
  /\ Goto(r, "answered")
  /\ job' = [job EXCEPT ![r] = "writing"]
  /\ UNCHANGED <<url, range, background, loadingUrls, activeRangeCacheFetchCount,
                 skipList, outbox, busy, stopVars>>

(* Looking up the key or the directory throws, or the range is not within  *)
(* the resource: the request is left to the browser.                       *)
TeeFails(r) ==
  /\ pc[r] = "keying"
  /\ Goto(r, "passed")
  /\ UNCHANGED <<url, range, jobVars, outbox, busy, stopVars>>

(* A 206 while the resource is loading already, or on a connection on      *)
(* which nothing is loaded in the background.                              *)
PartialOnly(r) ==
  /\ pc[r] = "asked" /\ range[r]
  /\ Goto(r, "answered")
  /\ UNCHANGED <<url, range, jobVars, outbox, busy, stopVars>>

(* Mutant of PartialStarts: the URL is not looked for in loadingUrls. *)
PartialStartsAgain(r) ==
  /\ pc[r] = "asked" /\ range[r] /\ url[r] \notin skipList
  /\ Goto(r, "answered")
  /\ job' = [job EXCEPT ![r] = "fetching"]
  /\ background' = background \cup {r}
  /\ loadingUrls' = loadingUrls \cup {url[r]}
  /\ activeRangeCacheFetchCount' = activeRangeCacheFetchCount + 1
  /\ outbox' = Append(outbox, "STARTED")
  /\ interrupted' = FALSE
  /\ UNCHANGED <<url, range, skipList, busy, restarts>>

(* A 206 that starts the background GET. *)
PartialStarts(r) ==
  /\ pc[r] = "asked" /\ range[r]
  /\ url[r] \notin loadingUrls /\ url[r] \notin skipList
  /\ Goto(r, "answered")
  /\ job' = [job EXCEPT ![r] = "fetching"]
  /\ background' = background \cup {r}
  /\ loadingUrls' = loadingUrls \cup {url[r]}
  /\ activeRangeCacheFetchCount' = activeRangeCacheFetchCount + 1
  /\ outbox' = Append(outbox, "STARTED")
  /\ interrupted' = FALSE
  /\ UNCHANGED <<url, range, skipList, busy, restarts>>

(* The same for a URL of the skip list: backgroundFullFetchToOpfs returns  *)
(* before its first await, so its `finally` has run when the handler goes  *)
(* on, and the pages are told of the end if nothing else is loading.       *)
PartialSkipped(r) ==
  /\ pc[r] = "asked" /\ range[r]
  /\ url[r] \notin loadingUrls /\ url[r] \in skipList
  /\ Goto(r, "answered")
  /\ outbox' = outbox \o (IF activeRangeCacheFetchCount = 0
                          THEN <<"STARTED", "ALL_DONE">> ELSE <<"STARTED">>)
  /\ interrupted' = FALSE
  /\ UNCHANGED <<url, range, jobVars, busy, restarts>>
------------------------------------------------------------------------------
(* The background GET is answered with a 200; what follows is the write.   *)
Fetched(r) ==
  /\ job[r] = "fetching"
  /\ job' = [job EXCEPT ![r] = "writing"]
  /\ UNCHANGED <<pc, url, range, background, loadingUrls,
                 activeRangeCacheFetchCount, skipList, outbox, busy, stopVars>>

(* Mutant of Finally: the count goes down, the URL stays. *)
FinallyKeepsUrl(r) ==
  /\ activeRangeCacheFetchCount' = activeRangeCacheFetchCount - 1
  /\ outbox' = IF activeRangeCacheFetchCount' = 0
               THEN Append(outbox, "ALL_DONE") ELSE outbox
  /\ UNCHANGED loadingUrls

(* Mutant of Finally: the end is told by each GET that is over. *)
FinallyAlwaysTells(r) ==
  /\ loadingUrls' = loadingUrls \ {url[r]}
  /\ activeRangeCacheFetchCount' = activeRangeCacheFetchCount - 1
  /\ outbox' = Append(outbox, "ALL_DONE")

(* Mutant of Finally: the end is never told. *)
FinallyNeverTells(r) ==
  /\ loadingUrls' = loadingUrls \ {url[r]}
  /\ activeRangeCacheFetchCount' = activeRangeCacheFetchCount - 1
  /\ UNCHANGED outbox

(* The `finally` of backgroundFullFetchToOpfs. *)
Finally(r) ==
  /\ loadingUrls' = loadingUrls \ {url[r]}
  /\ activeRangeCacheFetchCount' = activeRangeCacheFetchCount - 1
  /\ outbox' = IF activeRangeCacheFetchCount' = 0
               THEN Append(outbox, "ALL_DONE") ELSE outbox

(* The GET fails or is answered with another status than 200. *)
FetchFails(r) ==
  /\ job[r] = "fetching"
  /\ job' = [job EXCEPT ![r] = "over"]
  /\ Finally(r)
  /\ UNCHANGED <<pc, url, range, background, skipList, busy, stopVars>>

(* Mutant of WriteEnds: the `finally` runs after a teed write, too. *)
WriteEndsCounted(r) ==
  /\ job[r] = "writing"
  /\ job' = [job EXCEPT ![r] = "over"]
  /\ Finally(r)
  /\ UNCHANGED <<pc, url, range, background, skipList, busy, stopVars>>

(* writeToOpfs settles.  If the quota ran out it may have put the URL on   *)
(* the skip list.                                                          *)
WriteEnds(r) ==
  /\ job[r] = "writing"
  /\ job' = [job EXCEPT ![r] = "over"]
  /\ IF r \in background THEN Finally(r)
     ELSE UNCHANGED <<loadingUrls, activeRangeCacheFetchCount, outbox>>
  /\ \/ UNCHANGED skipList
     \/ skipList' = skipList \cup {url[r]}
  /\ UNCHANGED <<pc, url, range, background, busy, stopVars>>

(* notifyClients posts to every page, in the order of the calls. *)
Deliver ==
  /\ outbox # <<>>
  /\ busy' = (Head(outbox) = "STARTED")
  /\ outbox' = Tail(outbox)
  /\ UNCHANGED <<pc, url, range, jobVars, stopVars>>

(* What a page shows once the messages under way have come. *)
LastWord == IF outbox = <<>> THEN busy ELSE outbox[Len(outbox)] = "STARTED"

(* The browser stops the worker and starts another: the Set, the counter   *)
(* and the skip list are empty again, the GETs and the writes are cut off, *)
(* and so are the requests under way.  notifyClients awaits the list of    *)
(* the pages before it posts: the messages it had posted arrive, the later *)
(* ones are lost.  Nothing tells the pages of the stop.                    *)
Restart ==
  /\ restarts < MaxRestarts
  /\ restarts' = restarts + 1
  /\ pc' = [r \in Requests |-> IF pc[r] \in {"asked", "keying"} THEN "lost" ELSE pc[r]]
  /\ job' = [r \in Requests |-> IF job[r] = "none" THEN "none" ELSE "over"]
  /\ loadingUrls' = {}
  /\ activeRangeCacheFetchCount' = 0
  /\ skipList' = {}
  /\ \E n \in 0..Len(outbox) : outbox' = SubSeq(outbox, 1, n)
  /\ UNCHANGED <<url, range, background, busy>>
  /\ interrupted' = LastWord'
------------------------------------------------------------------------------
Handle(r) == \/ Ask(r) \/ PassOn(r) \/ FullResponse(r) \/ Tee(r) \/ TeeFails(r)
             \/ PartialOnly(r) \/ PartialStarts(r) \/ PartialSkipped(r)
Work(r) == Fetched(r) \/ FetchFails(r) \/ WriteEnds(r)

Next == Deliver \/ Restart \/ \E r \in Requests : Handle(r) \/ Work(r)

(* While the worker runs, every fetch and every write settles, and the     *)
(* messages that were posted arrive.  Restart is the browser's: it may     *)
(* come at any time or never, and what it cuts off is not done later.      *)
Fairness == WF_vars(Deliver) /\ \A r \in Requests : WF_vars(Work(r))

Spec == Init /\ [][Next]_vars /\ Fairness
------------------------------------------------------------------------------
Loading(r) == r \in background /\ job[r] \in {"fetching", "writing"}

TypeOK ==
  /\ pc \in [Requests -> {"idle", "asked", "keying", "answered", "passed", "lost"}]
  /\ url \in [Requests -> Urls]
  /\ range \in [Requests -> BOOLEAN]
  /\ job \in [Requests -> {"none", "fetching", "writing", "over"}]
  /\ background \subseteq Requests
  /\ loadingUrls \subseteq Urls
  /\ activeRangeCacheFetchCount \in Nat
  /\ skipList \subseteq Urls
  /\ outbox \in Seq({"STARTED", "ALL_DONE"})
  /\ busy \in BOOLEAN
  /\ restarts \in Nat
  /\ interrupted \in BOOLEAN

(* loadingUrls holds the URLs of the background GETs that run, and the     *)
(* counter their number: it is decremented once for each increment,        *)
(* whichever way the GET ends.                                             *)
CountIsExact ==
  /\ loadingUrls = {url[r] : r \in {q \in Requests : Loading(q)}}
  /\ activeRangeCacheFetchCount = Cardinality(loadingUrls)

(* No resource is loaded twice at the same time in the background. *)
OneGetPerUrl ==
  \A r, q \in Requests : Loading(r) /\ Loading(q) /\ url[r] = url[q] => r = q

(* Once its messages are delivered, a page shows that the worker is        *)
(* loading just when it is: STARTED and ALL_DONE do not get out of step    *)
(* when GETs overlap.  The one exception is a page left over from a worker *)
(* that was stopped while it was loading, until the next message comes.    *)
PagesAreRight ==
  outbox = <<>> => (busy <=> interrupted \/ \E r \in Requests : Loading(r))

(* The same of the messages under way: the last of them will be right. *)
MessagesInv ==
  /\ LastWord <=> interrupted \/ \E r \in Requests : Loading(r)
  /\ interrupted => \A r \in Requests : ~Loading(r)

(* A request has a job only once it is answered. *)
JobsInv ==
  \A r \in Requests : /\ job[r] # "none" => pc[r] = "answered"
                      /\ r \in background => job[r] # "none"
                      /\ job[r] = "fetching" => r \in background

(* The inductive invariant of the background GETs. *)
FetchInv == /\ TypeOK /\ CountIsExact /\ OneGetPerUrl /\ MessagesInv
            /\ JobsInv /\ IsFiniteSet(loadingUrls)

(* A page that was told of a start is told of the end in the end, whatever *)
(* becomes of the GETs and their writes, unless the worker is stopped in   *)
(* the middle.                                                             *)
BusyEnds == busy ~> (~busy \/ interrupted)
==============================================================================
