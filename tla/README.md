# Verification of `psw-plugin-opfs-serve-range`

The repository is a set of plugins for a service worker.  They keep media files
in the origin private file system (OPFS), answer Range requests from them, and
bring resources into the store behind requests that went to the network, or in
a background fetch.  This directory holds TLA+ modules of that program, the TLC
configurations that check them on small instances, and TLAPS proofs of what
holds for every instance.

Everything in the worker is asynchronous: between any two `await`s of one
operation steps of all the others may run, the browser may stop the worker, and
the store may have changed.  Most of what can go wrong is there, and most of the
models are about it.

- [Inventory](#inventory)
- [Modules](#modules)
- [Runs](#runs)
- [Fairness](#fairness)
- [Proofs](#proofs)
- [Where the code and its documentation differ](#where-the-code-and-its-documentation-differ)
- [Decisions](#decisions)
- [Not modelled](#not-modelled)
- [Plan](#plan)

## Inventory

All paths are below `src/src/`.  "Correct when" is what the properties are for.

### The worker

**Index lock** (`opfsEvictionIndex.ts` 43-57).  State: `indexLock`, the promise
of the latest call of `runWithLock`.  Operation: `runWithLock(fn)`.  Used by
every function on the eviction index.  Hard: the chain of promises must hold for
functions that throw, and for callers that come while others wait.  Correct
when: one function runs at a time, in the order of the calls, and every call
comes back.

**Eviction index** (`opfsEvictionIndex.ts`).  State: `globalEvictionCache` (key
to size, last access, evictable), `cachePopulated`, and the timer and the set of
footers to flush.  Operations: populate by a scan of the directory, get the
entries for an eviction, register a written file, remove, touch, flush the last
access into the footers, invalidate.  Called by writes, deletions, warm-up and
serving.  Hard: the scan awaits two file system calls for each file while
other operations create, close and remove files; the invalidation does not wait
for the lock.  Correct when: once all is quiet a populated index describes the
store.

**Space and eviction** (`opfsLru.ts`).  State: `skipListUrls`.  Operations: the
limit, the set to evict, `ensureSpaceForWrite`, `evictFiles`, the skip list.
Hard: the room is measured, then the lock is given up, then files are removed.
Correct when: only evictable files are evicted and the cache stays within its
limit.

**Write to OPFS** (`opfsWrite.ts`).  State: the file, the open
`FileSystemWritableFileStream`, locals over some fifteen `await`s.  Operation:
`writeToOpfs`.  Called by the fetch handler, the background GET and the
background fetch.  Hard: two writers of one URL, a failure after each `await`,
the quota that runs out in the middle.  Correct when: a file that is there and
whole stays until it is deleted, cleared or evicted; a failed write leaves
nothing behind; the index follows.

**Cache control, worker side** (`opfsCacheControl.ts`, and `clearOpfsCache` of
`opfsUtil.ts`).  No state of its own.  Operations: HAS, LIST, DELETE, CLEAR,
CLEAR_SERVED_FROM_NETWORK, asked by messages from the pages.  Hard: HAS and LIST
answer from the metadata cache, which lags behind the store.  Correct when: a
deletion or a clear leaves no file and no entry behind, and the answers are true
of a moment in between question and answer.

**Store directory and invalidation** (`opfsUtil.ts`).  State: the cached handles
of the root and the store directory, the configured folders.  Operations:
opening the directory, invalidating the caches of a key, a folder or everything.
Hard: the directory may be removed from outside (the user clears site data).
Correct when: nothing keeps describing a store that is gone.

**Range from network and cache** (`opfsRangeFromNetworkAndCache.ts`).  State:
`loadingUrls`, `activeRangeCacheFetchCount`.  Operations: the fetch handler,
`backgroundFullFetchToOpfs`.  Sends STARTED and ALL_DONE to the pages.  Hard:
GETs overlap, and the function for a URL of the skip list returns before its
first `await`; nothing keeps the worker alive for a background GET (line 314 has no
`waitUntil`).  Correct when: no URL is loaded twice at a time, the counter is the
number of GETs, and the pages show what is going on.

**Serve range** (`opfsServeRange.ts`).  State: `metadataFooterInflight`, one read
of the footer per key that several requests share.  Operation: the fetch handler
with its folder, If-Range and per-tab checks.  Hard: the metadata and the file
are read at different times.  Correct when: a 206 holds bytes of the body and
its total is the size of the body; a read in flight is always forgotten.

**URLs served from the network per tab** (`opfsPerTabNetworkUrls.ts`).  State: a
Map from tabs to at most 512 paths, in memory.  Hard: it is the handler's returns
that mark, each on its own, and the marks are gone when the worker is.  Correct when:
a tab that got a resource from the network does not get it from the store until it
asks to.

**Metadata cache** (`opfsMetadataCache.ts`, `lruCache.ts`).  State: a doubly
linked list, a Map and a total size.  Operations: get, set, delete, clear,
iteration, eviction from the tail.  Hard: pointers, Map and total must stay in
step, also while entries are deleted during an iteration.  Correct when: it is a
bounded sequence in the order of use.

**Range arithmetic and streams** (`opfsRangeUtil.ts`).  Operations: parse a Range
header for a size, cut a range out of a file or a stream.  Hard: zero, suffixes,
chunks that begin or end in the range.  Correct when: the bytes are those asked
for.

**File format** (`opfsFormat.ts`): body, JSON metadata, length of the metadata.
Reading a file without a valid footer gives its whole length and no metadata.

**Background fetch, worker side** (`opfsBackgroundFetch.ts`,
`opfsBackgroundFetchId.ts`).  No state of its own beyond the locals of a handler:
the records still to come, the files written and those skipped.  Operations: the
events success, fail and abort of the browser's background fetches, which every
plugin of the worker is handed; the plugin of the folder writes the files and
tells the pages.  Hard: the plugins tell their downloads apart by a prefix of the
id, in which two folders may look the same; the handler may be left by an exception,
or the worker stopped, between two records; the message at the end is the only one a
page acts on.  Correct when: each download is finished by the folder
that owns it, its end is told once, and every record is told of.

**Registered folders**, **key of a URL**, **messages, logs and types**,
**worker start and factories** (`opfsRegisteredFolders.ts`, `opfsKey.ts`,
`opfsMessages.ts`, `opfsLog.ts`, `opfsCacheEventLog.ts`, `types.ts`,
`index.ts`): little or no state.

### The page

**Background fetch** (`client/backgroundFetch.ts`).  State: the locals of each call
of `startDownloadAssetsToOpfs`, and its subscriptions.  A call asks the worker for
filter and folders, the browser for what is under way, the worker for what is
cached, and starts a download of the rest or attaches to one; then it waits for a
message.  Hard: between any two of its questions downloads begin and end, other
calls get as far, and a message that comes before it has subscribed is lost; its
`AbortSignal` may be aborted at any time.  Correct when: a call ends, unless its
download does not; it says of each asset whether it is written; and nothing is
loaded twice.

**React hook** (`client/useDownloadAssetsToOpfs.ts`).  State: `status`,
`controllerRef`, `mountedRef`.  Operations: `startDownload`, `reset`, unmounting,
and what follows a promise that settles.  Hard: `startDownload` may be called while
an earlier download is pending; `reset` and the end of a download meet.  Correct
when: what is shown as pending can be reset.

**Cache control** (`client/cacheControl.ts`).  Questions to the worker with a
timeout, whose answers may come late.  No state.

**Player reconnection** (`client/reconnectPlayer.ts` and its hook).  Reloads a
media element once its file is in the store: saves time and style, asks the worker
to forget the mark of the path, loads, and restores both.  State: the element, a
wrapper and an overlay in the DOM, listeners.

**Message handlers** (`client/messageHandlers.ts`): one subscription per type of
message.

### Who calls whom

```
 page --GET Range--> serve range --miss--> range from network and cache
                       |   |                       |        |
                 metadata  footer            full response  background GET
                  cache    read                    |        |
                                                   v        v
 page --messages--> cache control            write to OPFS <--- background fetch
                       |                      |         |
                       v                      v         v
               deletion, clear         space, eviction  register
                       |                      |         |
                       +------> eviction index, under the index lock

 hook --startDownload, reset--> call --questions--> worker, browser
                                  |                    |
                                  +--start, attach--> download (browser)
                                  ^                    | event
                                  +---messages--- background fetch (worker)
```

The shared state is the store, the eviction index, the metadata cache, the skip
list and the lock; it is what module `CacheState` declares.

## Modules

| module | models | proofs |
|---|---|---|
| `FifoMutex` | what `runWithLock` promises: a first-in first-out lock | |
| `IndexLock` | `runWithLock` as it is, a chain of promises | `IndexLockProofs` |
| `OpfsLru` | limit, bytes to free, headroom, eviction set | |
| `CacheState` | the state shared by the operations on the store | |
| `EvictionIndex` | population, registration, removal, invalidation | |
| `OpfsWrite` | `writeToOpfs` with `ensureSpaceForWrite` | |
| `CacheControl` | HAS, LIST, DELETE, CLEAR | |
| `LastAccess` | the note of a use and its flush into the footer | |
| `OpfsCache` | the composition, worker restarts, the properties | `OpfsCacheProofs` |
| `RecencyCache` | what `LRUCache` promises: a bounded map in the order of use | |
| `LruCache` | `LRUCache` with its pointers, and `MetadataCacheImpl` | `LruCacheProofs` |
| `RangeFetch` | the fetch handler and the background GET | `RangeFetchProofs` |
| `RangeUtil` | Range headers and the ranges they give for a size | |
| `RangeStreams` | the two streams that cut a range out of a body | `RangeStreamsProofs` |
| `ServeRange` | the fetch handler that answers from the store, the URLs per tab | `ServeRangeProofs` |
| `BackgroundFetch` | the downloads of the browser and their events in the worker | |
| `DownloadCalls` | the calls of `startDownloadAssetsToOpfs` in the pages | |
| `DownloadHook` | the React hook over them, the composition | `DownloadProofs` |
| `Sums` | lemmas on sums over finite sets | itself |
| `MC...` | instances for TLC, properties that the documentation states | |

**How code becomes actions.**  An operation in progress is a *task* (module
`OpfsCache`), a *call* (`IndexLock`) or a *request* (`RangeFetch`, `ServeRange`).  `pc` names
the `await` it is at, and one action is what the code does from there to the next
`await`: JavaScript runs that much without interruption.  Every action can find a
state that others have changed since the task's last step.

`OpfsCache`: `disk` is the directory: a file is unwritten (created, its writable
not closed: empty) or written.  A `FileSystemWritableFileStream` replaces the
content of the file when it is closed, so `CloseWritable` is one step.
`writables` are the tasks whose stream is open; the browser locks their files
against removal, and what `removeEntry` does then differs among browsers, so that
`RemoveEntries` may refuse.  `index`, `cachePopulated`, `meta`, `skipList` are the
variables of the worker's memory.  `line` is the queue of the tasks inside
`runWithLock`, used in the form `FifoMutex` gives it; `stage` and `scan` are the
progress of the function at its head: a function that needs the caches goes from
"enter" to "scan" if they have to be populated and to "ready" when they are.
`Restart` is the browser stopping the worker: memory is lost, open writables
with what they had received too, and the files stay.  The flush of the noted uses
is no task, since nobody waits for it: `Fire` is the timer, and `flush[k]` how far the
rewriting of the footer of `k` has come.  `lastUpdate` and `pendingWrites` are the
maps `lastAccessedUpdateByKey` and `pendingFooterWrites`.  The operation `drop` is what
`opfsServeRange` does when it cannot serve a range: the entries of the key are taken
out of the index and the metadata cache, and the file stays.

`RangeFetch`: `outbox` holds messages `notifyClients` has sent and the page has not
received, `busy` is what a page makes of them.  `Restart` is the worker stopped, at any
point: the Set, the counter and the skip list are empty, GETs and writes are cut off
(the background GET is in no `waitUntil`), requests under way are lost, of the messages
any first part arrives, and nobody tells the pages.  `interrupted` is auxiliary: what
the pages are left to show is of a worker that was stopped while it loaded.

`ServeRange`: the locals of the handler are `awaits` (the read it awaits), `cachedMeta` and
`answer`, what its 206 was made of; `read[r]` is the promise made by
`startMetadataFooterInflight` for request `r`, and `inflight` the map that holds it.
`served[t]` is the Set of tab `t`, in the order of insertion, which is the order in which it
forgets.  The store and the scan are there with their effects on files and metadata alone;
`OpfsCache` has them in full.  `Unhandled` is a request the handler passes on before it
looks into the store (no Range header, no GET, not included, no `clientId`, no hash), which
marks nothing; `NetworkAnswer` is its answer, with a mark by the other plugin or, without
that, none.  `Restart` loses all but the files: the requests, the reads, the metadata and
the marks.  `kept` and `origin` are auxiliary: the paths a tab has got from the network,
marked, since its last reconnection and since the worker started; and what was true of its
path when a request began.  `mixed` holds the keys whose file was removed or written while
it was being read.

`BackgroundFetch`: a download is named by the call that started it.  `fetch[d]` is
what the browser makes of it, which may end it at any time, also while the worker
is stopped; `handler[<<d, f>>]` are the locals of the handler of the plugin of
folder `f` for its event, from the first record to the message at the end, with
the record it is writing and whether it has its file open; `store` is the directory,
where a file is whole or not.  A folder is the sequence of its characters, and
`encodeFolderForId` does what the code does, so that `v-a` and `v_a` have one prefix.
`SuccessFails` and `RecordFails` are the ways a handler is left by an exception outside
of its `try`.  A write looks for the file (`Exists`, `NoFile`), makes room and opens it
(`Create`, `NoRoom`), and closes it or fails: two writers may both find no file and both
have it open, and the clean-up of one is refused while the other has (`Writers`).
`Restart` kills the handlers that run: the browser does not fire their event again,
and an open file stays as it is.  `Remove` stands for what the rest of the worker
does to the store.

`DownloadCalls`: `pc[c]` names the `await` of a call, then how its promise has
settled.  `Questions`, `GetIds`, `Match`, `List`, `Check` and `Run` are the code from one
answer to the next question; a question that is not answered in time has an answer
of its own in the code (no filter, no folders, nothing cached), and so it has here, and
where a rejection leaves the call there is an action for it (`IdsFail`, `RunFails`).
Between `Check`, when the browser says that a download is still active, and `Run`, when
the call subscribes, that download may end and be told; `missed` is auxiliary and notes it.
`mail[c]` are the messages on their way to the page of a call that it may take up.
The chain that leads to `backgroundFetch.fetch` runs on when the promise has been
rejected by its signal: `starting` are the calls in which it does.  `underWay` is
auxiliary: what has been downloading ever since a call asked the browser.

`DownloadHook`: `status` and `controller` are the state of the hook; `Follow` is what
it does when a promise settles, in the same step, since reactions run before the
next task.  A call may also be made without the hook (`hook` of what it is given).

`RangeStreams`: a byte is its position in the body, so that the sequence a stream
has given says which bytes they are; behind the body come the bytes of the footer.
`fullSize` is what the header is parsed with: for a file the size of the body, or that of
the whole file if the metadata are from a scan.

`LruCache`: nodes are named by their keys; `list` is head, tail and the pointers of
the nodes, `map` what the Map holds.  A node that has left the list keeps its
pointers, which the generator of `entries()` relies on.  The loops of `evict` and of
`invalidateEntriesByFolder` are taken one turn at a time, so that the list can be
looked at in between; no other operation comes between, since the class never
awaits.  The auxiliary variable `newer` orders the keys by their last use.

`IndexLock`: each call makes one promise and the promise is named by its call;
`prev` is the local variable of the code, `resolved` the promises that are
resolved.  The auxiliary variable `line` holds the order of the calls; it is the
variable of the same name of `FifoMutex`.

## Runs

`tlc -config <cfg> <module>`, in this directory.  Runs that pass:

**index_lock** (`MCIndexLock`).  Four calls, each of which may return or throw at
any time: one function runs while three wait, and calls come while the line is
empty, of one and of several.  `LockInv` is the inductive invariant of the proof;
`MutualExclusion`; `FifoOrder`, the refinement of `FifoMutex`, which says that
calls are served in the order they were made; `EveryCallReturns`.

**cache** (`MCOpfsCache`).  Three operations at any time on two resources, `film`
(2 bytes, 3 with its footer, evictable) and `pinned` (1 byte, not evictable), in
two folders, and a cache share of 3 bytes: the two do not fit together, so that a
write of `pinned` evicts `film`, and one of `film` has to be given up when `pinned` is
there.  The operations are a write of either, a write of `film` of unknown
length, and a deletion, clear, question, list, warm-up, use or drop of `film`; the store begins
with any set of written files.  `CacheInv`, the types and the order of the line
(`LineInv`: the tasks that wait are in line, once, and only the first populates);
`IndexAgrees`; `AnswersAreTrue`; `UseIsSaved`; `FilesAreKept`; `RoomIsMade`.

`IndexAgrees` is the property the index lives for: once every operation is over,
the populated index has an entry for every file, with its size and its
evictability, and no other; an error while serving may have dropped the entry of a file,
but left no wrong one.  Two writers of one resource at a time end with the right
entry too, if neither fails.  It depends on the order of three pairs of steps
(close then register, remove then unindex, scan under the lock) and one mutant
registers without the lock.  `FilesAreKept`: a file that was written whole leaves
the store by a deletion of it, a clear of its folder, or an eviction if it is
evictable, and no step changes more of it than the time of its last use, which the
flush does by the offset of an earlier read.  `UseIsSaved`: when nothing is pending
the footer has the last use that was noted.  `AnswersAreTrue`: HAS and LIST answer from
the metadata cache without a look at the file, and what they say is there is there,
but for the steps in which an operation removes it; a key that a scan recorded after
its removal is in `outdated`, the one way the answer can stay wrong.  `RoomIsMade`: the
file of a write without another beside it fits in the share of the cache; the room is
measured in one step, made in another and used several `await`s later.  All leave out
the keys in `mixed`, on which two operations overlapped that both change them: the code
makes no promise about a deletion of what is being written, and the index can be wrong
then until it is next invalidated (see the hazards in `PROJECT.json`).  Two writers of
the same resource (`Rivals`) put the key in `doubled` instead, which only `IndexAgrees`
looks into: when one of them fails, its clean-up removes the file of the other.  Tasks
that only share the index, the lock or the quota do not count as overlapping, and all of
these interleave freely.

**cache_ends** (`MCOpfsCacheEnds.cfg`).  Two operations and a restart of the
worker at any point between any two steps.  `EveryTaskEnds` is liveness: every
operation comes to an end, whatever it waits for and whatever fails; `IndexAgrees`
and `FilesAreKept` are checked over restarts: the index the new worker builds
describes the files the old one left.

**lru_cache** (`MCLruCache`).  Four keys, entries of two folders with sizes 1 and 2,
at most three entries and a total of at most 4: both limits are reached, by the
number and by the sizes, and a large entry makes more than one small one go.
Four keys are the fewest with an entry in the middle of a full list while another
arrives.  `ListInv`, the inductive invariant of the proof, which says that the
pointers run through the keys of the Map in the order of use, both ways;
`SizeInv`, the total size and the limits between operations; `OldestGoes`;
`IsRecencyCache`, the refinement of `RecencyCache`; `LoopsEnd`.

**range_fetch** (`MCRangeFetch`).  Three requests for two URLs, each with or without
a Range header, every answer of the network, and writes that put the URL on the
skip list or do not.  Three requests are the fewest for which GETs of one URL could
meet while one of another runs, and a count can go wrong in both directions.  The worker
is stopped once, at any point.  `CountIsExact`; `OneGetPerUrl`; `PagesAreRight`: the
pages show the load just as long as it runs, or are left over from the worker that was
stopped; `BusyEnds`: a page that was told of a start is told of the end, unless the
worker was stopped in the middle.

**range_streams** (`MCRangeStreams`).  Bodies of up to six bytes with a footer of two, every
Range header with numbers up to eight and those that are malformed, chunks of two bytes when
the range is pulled from a file, and chunks of every length when it is picked from a body
that passes by: ranges that begin and end in a chunk, at its edges, and in the same chunk;
suffixes shorter and longer than the body; empty bodies; and a size that counts the
footer.  `RangeIsAsked` compares `parseRangeHeader` with what RFC 9110 means by the header,
except that the code refuses a last byte behind the end where the RFC cuts it
off.  `GivenIsOfRange`, `GivenIsWhole`: what is given are the bytes of that range of the
file, whether they are of its body or not, and all of them.

**serve_range** (`MCServeRange`).  Two requests of one tab for one resource of which
there are two versions, one of the folder of each of two plugins; one request has
If-Range.  Two requests are what it takes to share a read, and to switch a
source.  Files are written and removed, folders invalidated, the directory scanned
and the player reconnected at any time and any number of times.  `InflightInv`: a
read is in `metadataFooterInflight` just while it runs, and who waits awaits a read
of his resource.  `AnswerIsRight`: the response is made of metadata and a file that
belong together and are those If-Range names; it depends on the metadata being
dropped behind each removal.  `SourceIsKept`: a tab that was answered from the network
is not switched to the store until it reconnects, as long as this worker runs.  Each of
the handler's returns behind its look into the store has to mark the path for it.
The returns before that do not mark; behind them the claim is made only if the plugin
that fetched the resource has marked it.  `EveryRequestEnds`: every request that awaits a
read, its own or a shared one, comes to an answer, also when the read fails, or is lost
with a worker that is stopped.

**background_fetch** (`MCBackgroundFetch`).  Two calls, the fewest that meet: one starts
what the other is looking for.  Each is given `film` and `clip` for the folder `video`,
`film` for `music` (by the hook), or `clip` for `cache`, which is registered but has no
plugin for background fetches: the calls may ask for the same files in one folder, for one
file in two folders, and for files nobody will tell of.  `film` is in the store at
first.  The browser ends downloads in any way and at any time, handlers are left by
exceptions, the worker is stopped once, files are removed, signals aborted and the hook
reset and unmounted at any time.  `DownloadInv`, the invariant of the proofs: no record is
lost between the browser and the message at the end.  `ResultIsComplete`: a call that
resolves learns of all its assets, and of no other; it depends on messages of other
downloads being told apart.  `ToldIsStored`: what a page is told is written is whole in the
store, unless it was removed since, or was counted while another writer had it or had left
it unfinished; it depends on a writer that opens a file which is there by now not emptying
it.  `NoDoubleDownload`: what was under way ever since the call asked is not loaded
again.  `PendingCanBeReset`, which fails if `reset` leaves the status of a call that has not
subscribed yet.

`CallsEnd` is liveness, and says when a call may wait for ever: the browser never ends its
download; the handler of the event was left by an exception, or the worker was stopped in
it; the folder has no plugin for background fetches; or the call has attached to a
download whose end was told between its check and its subscription.  Without any one of
the four the property is violated.

Runs that show where the code does something else than its documentation says,
each with one property and expected to be violated: **partial_file**,
**pinned_evicted**, **footer_served**, **same_set**; see below.

Bounds: `Tasks`, `Requests` and `Calls` are the operations of one behaviour;
`MaxRestarts` the restarts; `clock` counts the readings of the time and is bounded
by the operations; sizes are a few bytes, and only how they add up and compare
with the limit matters.  Two keys are enough for one file to make room for
another; the runs on the documentation's claims have three.  `MaxRestarts` is 1 where
restarts matter: a second one finds the same memory as the first, empty.  It is 0 in
**cache**, which has **cache_ends** beside it.  Where a run checks safety alone and its
operations are interchangeable, its cfg says so (`SYMMETRY`).
Deadlock is not checked: a behaviour ends when its operations are over.

## Fairness

`WF` for each task, call or request: a call of the file system or the network
comes back (with a result or an error), a body stream ends or fails, and the
reaction of a settled promise runs.  That is what the platform promises as long
as the worker lives, and `Restart` is there for when it does not.  No fairness is
assumed of beginnings, restarts, or of which of several outcomes happens; and what a
restart cuts off is not done later, so that what depends on it says so (`interrupted` in
`BusyEnds`, "lost" in `EveryRequestEnds`, `Lost` in `CallsEnd`).  A task
in line for the lock moves only when it is first, so that `EveryTaskEnds` depends
on each function ahead of it giving the lock up.  `RangeFetch` also has `WF` of
`Deliver`: a message that was posted arrives, in order.  `LruCache` has `WF` of its
loops alone: a loop that has begun runs on, and nothing says that a cache is used.
`ServeRange` has `WF` of each request and of each read, and none of the scan, the
writes and the removals: a request never waits for them.  `DownloadHook` has `WF` of
the steps of each call (a question is answered, fails or times out, a message that
was sent arrives), of the chain that starts a download, and of the handlers of each
download: an event that the browser has to fire is fired, and its handler goes on.
Nothing says that the browser ends a download.  `navigator.serviceWorker.ready`, which a
call awaits before it asks the browser, is taken to settle, and a message that was posted
to a page to arrive there.

## Proofs

All are checked by `tlapm` for any values of the constants.

`IndexLockProofs`.  The invariant says more than mutual exclusion: `LockInv` relates
the chain of promises to `line`.  Each call waits for the promise of the call
before it in the line, the first for one that is resolved, `indexLock` is the
promise of the last, and the resolved promises are those of the calls that ended
(`LockInvariant`).  From it follow `LockExcludes` (only the first of the line has a
resolved `prev`) and `LockIsFifo`, the refinement: `Call` is `Join`, `Resume` is `Begin`
of the head, `Return` and `Throw` are `End`.

`OpfsCacheProofs`.  Six layers, each on those before it.  The first is `LineIsKept`:
the composition uses the lock soundly.  The part of the state the lock depends on is
`ScheduleOK` and `LineInv`.  Each action of a task is shown to be one of four kinds of
steps on that part (`OneOfFour`): a task joins the line, leaves it as its head, stays out
of it, or is the head and goes on with the scan; and each kind preserves the invariant.
So a function on the index that is not a single step runs with no other in between, for
any number of operations, keys and restarts.

`CacheIsSound` adds the types.  They are inductive in two parts, `Typed` with what
matters to the files and to who may be where, and `RestTypes` with the caches and the
auxiliary variables; `UsageOK`, the estimate a writer keeps, is a sum over the store and
takes the lemmas of `Sums`.

`FilesStay` needs to know why a step that removes or replaces a file may.  Its
invariant `KeptInv` says of each key outside `mixed` and `doubled`: at most one
operation, or one flush, may change it (`Excl`); the owner's view of the file is still true
(`Own`: a writer has found no whole file until it closes its own, what is in an eviction
set is evictable, what is collected is of the folder to clear); a flush writes back the
file it has read but for the time (`FlushOK`); and neither the index nor the scan takes
a pinned file for one that may be evicted, but for a file whose writer is yet to register
it (`IndexOK`, `ScanOK`, with `Settled`).  The last exception is the window of
**pinned_evicted**: whoever evicts in it overlaps with the writer, so that the key is in
`mixed`, and the theorem leaves to that run what comes of it.  A step of a task is sorted
by what it does (`Acts`, `PlainStep`, `QuietStep`, `RemovalStep`, `ChoiceStep`).

`UsesAreSaved` follows a use from the note to the footer (`UseOK`): what is pending is the
last use; behind that a flush has its time, or a later one; and behind the flush the
file.  A file that is written meanwhile gets the time of its writing, which is not earlier:
the clock is ahead of every time a task has noted (`TimeInv`).

`AnswersHold` extends `KeptInv` by what the metadata cache says (`MetaOK`): an entry is
true of its file, or an operation is about to take it out (`Empties`), or the scan that
made it had read the file before it was removed and the key is in `outdated`.

`IndexIsRight` cannot use `KeptInv`, since two writers may bring in one resource at a time
without `mixed`.  Its invariant `AgreeInv` starts again: whoever may change a key is alone
or a twin that writes the same file and evicts nothing (`Shared`).  What a writer finds is
nothing, the placeholder, or what it would write itself (`WriterOK`), and what an operation
is about to take out of the index is gone from the store (`StoreOK`): this is where the
order "store first, index after it" is used.  Given that, `TruthOK` says of the index and of
a scan in progress that an entry is right, or its writer is yet to register (`Registering`),
or its remover is yet to take it out (`Removing`), and that no file is left out but one
being written or one an error has dropped; a scan only counts for the keys it has passed
(`Scanned`).  A failed write ends what is promised of its key (`Failing`).  When all is
quiet none of the exceptions is left.

`RoomIsThere` needs that on top, for the decision on the room is made on the index while
the promise is about the store.  `RoomInv` says of the only writer (`Alone`) that its
decision is made on populated caches (`ReadyOK`), and that from there on the files it
neither evicts nor replaces leave the room for its body (`RoomOK`).  At the decision every
such file is in the index with its size (`LoadIsKnown`, from `AgreeInv`), so that what the
arithmetic of `NeedToFree` and `computeEvictionSet` leaves of the index (`RoomIsFreed`) bounds
the store.  Behind it the others take files away and bring none, and no lock of the browser
holds back what the writer evicts (`RemovalWorks`).  The estimate may be out of date: it
only ever lowers the limit, which is at most the share.

`LruCacheProofs`.  `ListInv` describes the list without paths through it: `newer` is a
strict linear order of the cached keys, and every pointer leads to the neighbour in that
order.  So a step only has to be right locally.  The lemmas on `unlink` and `PutAtHead` say
how each carries that description to the smaller or the larger set of keys; every action is
one or two of them.  `WalkOK` is what the iteration needs: the entries it has left behind
that are still there are not of its folder (`ListIsSound`).  `OldestIsEvicted` follows,
since the tail has no neighbour behind it.  `SizesAddUp`: the running total, which the code
changes by differences, is the sum of the sizes of the entries, and the limits hold but
inside the loop that evicts. `CacheIsRecencyCache` is the refinement.  What a loop is yet to
remove is mapped to what is removed already, in the order of use of the rest; `SameKept`
says that this depends on the kept entries alone, so that each turn of a loop is a stutter
and its first step does the abstract operation.

`RangeFetchProofs`.  `FetchInv` is inductive: `loadingUrls` is the set of the URLs of
the GETs that run, no two of which have the same URL, and so the counter, which
the code changes by one, is the cardinality of a set from which one element is
taken or to which one is added; the last message sent says whether a GET runs, or is
left over from the worker that was stopped.
`CountExact`, `OneGet`, `PagesShowIt` and `FetchTyped` follow.

`RangeStreamsProofs`.  What a stream has given is always the first bytes of the range,
as many as `read` says of a file, and of a body those of the range that have passed
by (`StreamsKeep`, the invariant); the size the header is parsed with is at most that of
the file, footer included, and for a body that of the body.  `RangesAreAsked`,
`StreamsGiveTheRange` and `StreamsGiveAll` follow for any sizes, headers and lengths of chunks.

`ServeRangeProofs`.  Three layers, each inductive over those before it.  `ReadsInv`
adds to `InflightInv` that a request which has not yet looked up its metadata has no
read, so that a read is never started twice.  Steps are of three kinds: one starts a
read where there was none, one settles it and takes it out of the map, and the
others touch neither (`ReadsAreShared`).  `FilesInv` says of whoever knows a file (the
metadata cache, the scan, a read at the footer, a request that has its metadata) that
he knows the file that is there, or one whose removal the caches are yet to be told
of, or one that was empty when the scan met it; a removal is safe because of
`InflightInv`: no read of its key runs, or the key is in `mixed`.  What a 206 is made of
follows at its step (`AnswersAreRight`).  `TabsInv` is about the tabs that ask for fewer
resources than there is room for.  Their marks are an injective sequence over those
resources, so that the pigeonhole principle keeps it below the limit and no mark is
pushed out; what the tab has got from the network in the life of this worker, behind
a look into the store or with a mark by the other plugin (`kept`), is marked; and a
request that began behind that comes to no file (`SourceStays`).  A restart empties the
marks and `kept` together.

`DownloadProofs`.  `DownloadInv` is inductive but for the hook, for which `HookOK` is
needed: the call of the controller was made by the hook and has begun, so that no
call made elsewhere settles in its place.  A handler divides the records of its download
into those to come, the written and the skipped (`Divides`), which each step keeps, and
hands that on to the message at the end (`DownloadsAreSound`, `ResetReaches`).  Steps of
the worker are shown to meet one common goal (`WorkerGoal`), and steps of a call to keep
handlers and messages.  Nothing is assumed of the encoding: the plugins of two folders
may both handle a download.

`ResultAccountsForAll` says of the step that resolves a call that its message divides the
assets of the id it waits for.  `NothingTwice` needs what a call has seen: what was under
way all the time is among the pathnames it has collected or in a download it has yet to
ask about (`UnderWayInv`).  `ToldIsThere`: `ToldIsStored` is inductive given the types.  No
step makes a whole file anything else without the asset becoming doubtful (`ToldKept`):
a file is opened without being emptied, closed as a whole one, and taken away, by the
clean-up of another writer as by anyone else, only as a doubtful one.

`Sums`.  The sizes of files and entries are added up by a recursive function over a finite
set.  The provers cannot instantiate the induction theorems of the library, whose
parameter is an operator; but the subsets of a finite set are well founded, and that is
a statement about a set.  So each fact on sums is proved by a smallest
counterexample (`MinimalSet`), and the others cite the facts.

The assumptions are those of the modules: the initial promise is not that of a
call, requests are well-formed, a directory has finitely many files, `None` is no key,
request, file or entry, sizes and bounds are natural numbers, and the share of the cache is
at most the quota.

Every safety invariant, action property and refinement that a run checks is proved.
Model-checked only is liveness (`EveryCallReturns`, `EveryTaskEnds`, `BusyEnds`,
`LoopsEnd`, `EveryRequestEnds`, `CallsEnd`), which is out of the prover's reach, and so is
the absence of deadlocks, a statement about ENABLED.

## Where the code and its documentation differ

- **partial_file**.  `docs/opfs-cache-behavior.md` says partial files are always
  removed.  The `WritableStream` given to `pipeTo` has no `abort`, so that a body
  that fails leaves the file's own stream open, and the file locked by it;
  the `removeEntry` that follows may be refused, and the `catch` around it ignores
  that.  The empty file then ends every later write of its URL.
- **pinned_evicted**.  The README says pinned resources are not evicted.  A scan
  that meets the empty file of a pinned write in progress indexes it as evictable
  and never used.  The write may be closed before the caller of the scan evicts,
  and the pinned file is the first to go.
- **footer_served**.  The README says `opfsServeRange` only serves ranges of the body and
  the footer is never exposed.  A scan records the length of the whole file as the
  size of the resource, and the handler takes its metadata for those of a read
  footer: the total of the 206 is then too large, and a range that reaches the end
  holds bytes of the footer.
- **same_set**.  The README says of a call for a set of assets that is being
  downloaded that it attaches to that download and resolves when it completes.  The
  code takes what is under way out of the assets before it looks for a download of
  the same id, finds nothing left to fetch and resolves at once, with `written` naming
  files that are not there yet.  It attaches only when a question about the download
  failed or the download began in between.

Without a run:

- The README (430) tells a page to hide its indicator when
  `onOPFSRangeCacheFetchAllDone` comes.  The background GET is started without
  `event.waitUntil` (`opfsRangeFromNetworkAndCache.ts` 314); a worker that is stopped in it
  does not run the `finally` that sends ALL_DONE, and the next worker begins with a
  counter of 0.  `BusyEnds` has the stop as its one exception (`interrupted`).
- The comment of `opfsPerTabNetworkUrls.ts` (3) says that a tab which got a URL from the
  network is not switched to the store until it is loaded anew.  The marks are in memory
  and are gone with the worker; and a request the handler passes on before it looks into
  the store leaves none.  `SourceIsKept` is about the rest (`kept`).
- `docs/reference.md` (127) and the comments of `opfsBackgroundFetchId.ts` (3, 18) take the
  prefix of an id to name its folder.  The encoding maps every other character to `_`, so
  that two folders may share one, as `v-a` and `v_a` do, and both plugins handle the
  downloads of either.
- The README (143) says that a call which attaches resolves when the download completes.
  It subscribes to the messages one `await` after the browser has said that the download
  is active; if the end is told in between, the call waits for a message that has passed.
  `CallsEnd` has that as one of its four exceptions (`missed`).
- The README (362) says that the order of the two questions, for what is in progress and
  for what is in the store, ensures that a download which has just finished is not missed.
  Between its end and the last of its files there is a time when neither answer has it;
  and LIST answers from the metadata cache, which does not know of files written since the
  last scan.  They are downloaded again and found to be there.
- The README (114) says that the promise resolves when the assets are written.
  `writeToOpfs` returns when it finds a file, also one another writer has open
  (`doubtful` in `ToldIsStored`).
- `docs/reference.md` (127) says that `reset()` aborts what is in flight.  `controllerRef`
  holds the controller of the latest call alone, and that only until any call settles.
- The README (143, 394) says that a download is cancelled by `reset()`.  It settles the
  promise; the browser's download goes on, and the worker writes its files.
- `docs/opfs-cache-behavior.md` (88) says no write of a URL on the skip list is started.
  The branch of `opfsRangeFromNetworkAndCache.ts` (371) for a Range request that is
  answered with a 200 does not ask the skip list; `RangeFetch` has that branch.
- `docs/opfs-cache-behavior.md` (32) says the cache can never exceed its share of the
  quota.  The room is checked before a write and counted after it (`opfsLru.ts` 165): two
  writes that overlap each find room.  `RoomIsMade` says what does hold.
- `docs/opfs-cache-behavior.md` (47, 123) says that a use is noted in the index only
  and not in the footer; the code has written it into the footer since (`LastAccess`).
- The README (485) says that the layout of a player is kept over a reconnection.  A
  video without explicit dimensions stays absolutely positioned behind it
  (`reconnectPlayer.ts` 159).
- The comment of `invalidateCachesForFileKeyOnError` (`opfsUtil.ts` 254) is about errors of
  reading a file.  `opfsServeRange` (404) calls it for each error, also for a header whose
  range lies behind the end: the entry of a sound file is then dropped (`Begin`, "drop").
- The comment of `parseRangeHeader` says it throws for a range out of bounds; for a body
  of no bytes and a suffix it returns the range from 0 to -1.

## Decisions

- `evictFiles` removes its files in one step; the code starts all removals at once
  and waits for all of them.  Each file that is locked may be refused.
- The estimate of the quota in the `catch` of `writeToOpfs` is taken in the same step
  as the decision that uses it.
- The writer's bytes when the quota runs out are any number up to the size of the
  body: what else fills the origin's quota is not modelled.
- The scan takes the entries of the directory in any order and looks at each when
  its turn comes: an entry that appears later is not seen, one that is gone is
  passed over.  A read that fails because its file changed passes it over too.
- A use within the throttle of the one before may end at once, whatever the time
  between them (`Throttled`).  A flush is over when the timer fires again.
- A flush that fails puts its key in `mixed`: nothing is promised of its footer.  So does
  a flush that closes a file the scan has just read or is to read: the scan may then
  pass that file over, and the index is without it until it is invalidated.
- The store keeps what was open when the worker is stopped as an empty file, in all
  modules: a `FileSystemWritableFileStream` that is not closed changes nothing.
- `ServeRange` keeps neither the promise of the directory nor `cachePopulated`: other
  operations may drop them at any time, so that `getFlatStoreDir` may fail and a scan
  begin at any time.  Its tabs have one path each; `Mark` follows the code at the
  limit, and `SourceIsKept` leaves out a tab that has reached it.
- In `BackgroundFetch` a write is three steps, the look for the file, its opening and its
  close, where `OpfsWrite` has them all; records are taken in any order; the removal of a
  file by the rest of the worker is one step, and refused while a writer has it open.
- The two questions a call begins with, for the filter and for the folders, are answered
  in one step: nothing either depends on changes.
- LIST answers a call with any of the whole files of its folder: the metadata cache
  may know of any part of them.
- The messages of progress go to callbacks and are left out; so are `filteredOut` and
  the size of a download.
- An id stands for the pair of folder and assets: different pairs have different hashes.
- The metadata cache has no bound in `OpfsCache` (500 entries in the code).
- Keys stand for URLs: two URLs have different SHA-256 keys.
- Messages and log lines of the cache are left out, except those of `RangeFetch`.
- `mixed` is an auxiliary variable that no action reads.

## Not modelled

- **Player reconnection** (`client/reconnectPlayer.ts` and its hook).  What could go wrong
  there is which events a media element still fires for a load that was aborted, the
  order of its listeners, and what the layout makes of a style.  A model of that would
  be one of the browser, written from no source in this repository.  What it asks of the
  worker is modelled: HAS in `CacheControl`, the forgotten mark in `ServeRange`
  (`Reconnect`).  Its hazards are in `PROJECT.json`: two reconnections that overlap each
  wrap the element, and what the second saves is the style the first has set.
- **Message handlers**, **types**, **logs**: no state.
- **Key of a URL**, the JSON of the footer, glob patterns and lists of files: functions of
  strings without state.
- `build206Response`, `listCacheFilesWithMeta` and `getTotalCacheSize`, which nothing in
  the worker calls; the throttled display of progress in the hook.
- The cached handles of the root and the store directory: `ServeRange` lets opening the
  directory fail at any time and drops the caches then, `OpfsCache` takes it to be there.

## Plan

Done: lock, cache core with the flush of the last uses, the questions about it and the
drops after an error, two writers of one resource, range fetch, the list of `LRUCache`,
range arithmetic and streams, serve range with the URLs per tab, the downloads from the
hook to the store and back, and their proofs.  Left, in this order:

1. In `OpfsCache`: the removal of the directory from outside.
2. A proof that `computeEvictionSet` has a result for any entries, so that a decision is
   never stuck, by a smallest counterexample as in `Sums`.
