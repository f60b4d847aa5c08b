--------------------------- MODULE RangeFetchProofs ---------------------------
(***************************************************************************)
(* Proofs about the background GETs of opfsRangeFromNetworkAndCache.ts for *)
(* any requests and URLs.                                                  *)
(***************************************************************************)
EXTENDS RangeFetch, FiniteSetTheorems, SequenceTheorems, TLAPS

LoadingSet == {q \in Requests : Loading(q)}

LEMMA InitFetchInv == Init => FetchInv
<1> SUFFICES ASSUME Init PROVE FetchInv
  OBVIOUS
<1>1. TypeOK
  <2>1. outbox \in Seq({"STARTED", "ALL_DONE"})
    BY DEF Init
  <2>2. pc \in [Requests -> {"idle", "asked", "keying", "answered", "passed", "lost"}]
    BY DEF Init
  <2>3. job \in [Requests -> {"none", "fetching", "writing", "over"}]
    BY DEF Init
  <2>4. QED
    BY <2>1, <2>2, <2>3 DEF Init, TypeOK
<1>2. \A r \in Requests : ~Loading(r)
  BY DEF Init, Loading
<1>3. CountIsExact /\ IsFiniteSet(loadingUrls)
  BY <1>2, FS_EmptySet DEF Init, CountIsExact
<1>4. OneGetPerUrl /\ MessagesInv /\ JobsInv
  BY <1>2 DEF Init, OneGetPerUrl, MessagesInv, LastWord, JobsInv
<1>5. QED
  BY <1>1, <1>3, <1>4 DEF FetchInv

(* What the pages will show stays right when neither it nor the GETs       *)
(* change.                                                                 *)
LEMMA SameMessages ==
  ASSUME FetchInv,
         \A q \in Requests : Loading(q)' <=> Loading(q),
         LastWord' <=> LastWord, interrupted' = interrupted
  PROVE  MessagesInv'
BY DEF FetchInv, MessagesInv

(* A step that starts and ends no background GET keeps the invariant.      *)
LEMMA QuietStep ==
  ASSUME FetchInv, TypeOK', JobsInv',
         UNCHANGED <<url, loadingUrls, activeRangeCacheFetchCount>>,
         \A q \in Requests : Loading(q)' <=> Loading(q),
         MessagesInv'
  PROVE  FetchInv'
<1>1. CountIsExact'
  BY DEF FetchInv, CountIsExact
<1>2. OneGetPerUrl'
  BY DEF FetchInv, OneGetPerUrl
<1>3. QED
  BY <1>1, <1>2 DEF FetchInv

(* The counter is zero just when nothing is loading. *)
LEMMA CountZero ==
  ASSUME FetchInv
  PROVE  /\ activeRangeCacheFetchCount = 0 <=> loadingUrls = {}
         /\ loadingUrls = {} <=> ~\E q \in Requests : Loading(q)
<1>1. activeRangeCacheFetchCount = 0 <=> loadingUrls = {}
  BY FS_EmptySet DEF FetchInv, CountIsExact
<1>2. QED
  BY <1>1 DEF FetchInv, CountIsExact

LEMMA StartFetchInv ==
  ASSUME FetchInv, NEW r \in Requests, PartialStarts(r)
  PROVE  FetchInv'
<1> USE DEF FetchInv
<1>1. TypeOK'
  <2>1. outbox' \in Seq({"STARTED", "ALL_DONE"})
    <3>1. outbox \in Seq({"STARTED", "ALL_DONE"}) /\ outbox' = Append(outbox, "STARTED")
      BY DEF TypeOK, PartialStarts
    <3>2. QED
      BY <3>1
  <2>2. pc' \in [Requests -> {"idle", "asked", "keying", "answered", "passed", "lost"}]
    BY DEF TypeOK, PartialStarts, Goto
  <2>3. /\ job' \in [Requests -> {"none", "fetching", "writing", "over"}]
        /\ background' \subseteq Requests /\ loadingUrls' \subseteq Urls
        /\ activeRangeCacheFetchCount' \in Nat
    BY DEF TypeOK, PartialStarts
  <2>4. QED
    BY <2>1, <2>2, <2>3 DEF TypeOK, PartialStarts, stopVars
<1>2. /\ Loading(r)' /\ url' = url
      /\ \A q \in Requests : q # r => (Loading(q)' <=> Loading(q))
  BY DEF TypeOK, PartialStarts, Loading
<1>3. ~Loading(r)
  BY DEF PartialStarts, CountIsExact
<1>4. CountIsExact'
  <2>1. loadingUrls' = {url[q] : q \in {p \in Requests : Loading(p)'}}
    BY <1>2, <1>3 DEF PartialStarts, CountIsExact
  <2>2. Cardinality(loadingUrls') = Cardinality(loadingUrls) + 1
    BY FS_AddElement DEF PartialStarts
  <2>3. QED
    BY <1>2, <2>1, <2>2 DEF PartialStarts, CountIsExact
<1>5. IsFiniteSet(loadingUrls)'
  BY FS_AddElement DEF PartialStarts
<1>6. OneGetPerUrl'
  <2>1. \A q \in Requests : Loading(q) => url[q] # url[r]
    BY DEF PartialStarts, CountIsExact
  <2>2. QED
    BY <1>2, <2>1 DEF OneGetPerUrl
<1>7. MessagesInv'
  <2>1. outbox' = Append(outbox, "STARTED") /\ outbox' # <<>>
    BY DEF PartialStarts, TypeOK
  <2>2. outbox'[Len(outbox')] = "STARTED"
    BY <2>1 DEF TypeOK
  <2>3. QED
    <3>1. LastWord' /\ interrupted' = FALSE
      BY <2>1, <2>2 DEF LastWord, PartialStarts
    <3>2. QED
      BY <1>2, <3>1 DEF MessagesInv
<1>8. JobsInv'
  BY DEF TypeOK, JobsInv, PartialStarts, Goto
<1>9. QED
  BY <1>1, <1>4, <1>5, <1>6, <1>7, <1>8

(* The end of a background GET, whichever way it ends. *)
LEMMA EndFetchInv ==
  ASSUME FetchInv, NEW r \in Requests, Loading(r),
         job' = [job EXCEPT ![r] = "over"],
         Finally(r), skipList' \subseteq Urls,
         UNCHANGED <<pc, url, range, background, busy, stopVars>>
  PROVE  FetchInv'
<1> USE DEF FetchInv, stopVars
<1>1. /\ ~Loading(r)'
      /\ \A q \in Requests : q # r => (Loading(q)' <=> Loading(q))
  BY DEF TypeOK, Loading
<1>2. url[r] \in loadingUrls
  BY DEF CountIsExact
<1>3. /\ IsFiniteSet(loadingUrls')
      /\ Cardinality(loadingUrls') = Cardinality(loadingUrls) - 1
  BY <1>2, FS_RemoveElement DEF Finally
<1>4. activeRangeCacheFetchCount' = Cardinality(loadingUrls')
  BY <1>3 DEF Finally, CountIsExact
<1>5. loadingUrls' = {url[q] : q \in {p \in Requests : Loading(p)'}}
  <2>1. \A q \in Requests : q # r /\ Loading(q) => url[q] # url[r]
    BY DEF OneGetPerUrl
  <2>2. QED
    BY <1>1, <2>1 DEF Finally, CountIsExact
<1>6. activeRangeCacheFetchCount' \in Nat
  BY <1>3, <1>4, FS_CardinalityType
<1>7. TypeOK'
  BY <1>6 DEF TypeOK, Finally
<1>8. OneGetPerUrl'
  BY <1>1 DEF OneGetPerUrl
<1>9. MessagesInv'
  <2>1. activeRangeCacheFetchCount' = 0 <=> ~\E q \in Requests : Loading(q)'
    <3>1. activeRangeCacheFetchCount' = 0 <=> loadingUrls' = {}
      BY <1>3, <1>4, FS_EmptySet
    <3>2. QED
      BY <1>5, <3>1
  <2>2. CASE activeRangeCacheFetchCount' = 0
    <3>1. outbox' = Append(outbox, "ALL_DONE") /\ outbox' # <<>>
      BY <2>2 DEF Finally, TypeOK
    <3>2. outbox'[Len(outbox')] = "ALL_DONE"
      BY <3>1 DEF TypeOK
    <3>3. QED
      BY <2>1, <2>2, <3>1, <3>2 DEF MessagesInv, LastWord
  <2>3. CASE activeRangeCacheFetchCount' # 0
    <3>1. LastWord' <=> LastWord
      BY <2>3 DEF Finally, LastWord
    <3>2. QED
      BY <2>1, <2>3, <3>1 DEF MessagesInv
  <2>4. QED
    BY <2>2, <2>3
<1>10. JobsInv'
  BY DEF TypeOK, JobsInv, Loading
<1>11. QED
  BY <1>3, <1>4, <1>5, <1>7, <1>8, <1>9, <1>10 DEF CountIsExact

LEMMA SkippedFetchInv ==
  ASSUME FetchInv, NEW r \in Requests, PartialSkipped(r)
  PROVE  FetchInv'
<1>1. TypeOK'
  <2>1. outbox' \in Seq({"STARTED", "ALL_DONE"})
    <3>1. outbox' = outbox \o <<"STARTED", "ALL_DONE">> \/ outbox' = outbox \o <<"STARTED">>
      BY DEF PartialSkipped
    <3>2. outbox \in Seq({"STARTED", "ALL_DONE"})
      BY DEF FetchInv, TypeOK
    <3>3. /\ <<"STARTED", "ALL_DONE">> \in Seq({"STARTED", "ALL_DONE"})
          /\ <<"STARTED">> \in Seq({"STARTED", "ALL_DONE"})
      OBVIOUS
    <3>4. QED
      BY <3>1, <3>2, <3>3, ConcatProperties
  <2>2. pc' \in [Requests -> {"idle", "asked", "keying", "answered", "passed", "lost"}]
    BY DEF FetchInv, TypeOK, PartialSkipped, Goto
  <2>3. QED
    BY <2>1, <2>2 DEF FetchInv, TypeOK, PartialSkipped, jobVars
<1>2. \A q \in Requests : Loading(q)' <=> Loading(q)
  BY DEF PartialSkipped, Loading, jobVars
<1>3. MessagesInv'
  <2>1. CASE activeRangeCacheFetchCount = 0
    <3>1. outbox' = outbox \o <<"STARTED", "ALL_DONE">>
      BY <2>1 DEF PartialSkipped
    <3>2. outbox' # <<>> /\ outbox'[Len(outbox')] = "ALL_DONE"
      BY <3>1 DEF FetchInv, TypeOK
    <3>3. \A q \in Requests : ~Loading(q)
      BY <2>1, CountZero
    <3>4. QED
      BY <1>2, <3>2, <3>3 DEF LastWord, MessagesInv, PartialSkipped
  <2>2. CASE activeRangeCacheFetchCount # 0
    <3>1. outbox' = outbox \o <<"STARTED">>
      BY <2>2 DEF PartialSkipped
    <3>2. outbox' # <<>> /\ outbox'[Len(outbox')] = "STARTED"
      BY <3>1 DEF FetchInv, TypeOK
    <3>3. \E q \in Requests : Loading(q)
      BY <2>2, CountZero
    <3>4. QED
      BY <1>2, <3>2, <3>3 DEF LastWord, MessagesInv, PartialSkipped
  <2>3. QED
    BY <2>1, <2>2
<1>4. JobsInv'
  BY DEF FetchInv, TypeOK, JobsInv, PartialSkipped, Goto, jobVars
<1>5. QED
  BY <1>1, <1>2, <1>3, <1>4, QuietStep DEF PartialSkipped, jobVars

(* A message that arrives leaves the last word to those behind it. *)
LEMMA DeliverFetchInv == FetchInv /\ Deliver => FetchInv'
<1> SUFFICES ASSUME FetchInv, Deliver PROVE FetchInv'
  OBVIOUS
<1>1. TypeOK'
  BY DEF FetchInv, TypeOK, Deliver, jobVars, stopVars
<1>2. \A q \in Requests : Loading(q)' <=> Loading(q)
  BY DEF Deliver, Loading, jobVars
<1>3. LastWord' <=> LastWord
  <2>1. /\ Len(outbox) >= 1 /\ Len(outbox') = Len(outbox) - 1
        /\ \A i \in 1..Len(outbox') : outbox'[i] = outbox[i + 1]
    BY DEF FetchInv, TypeOK, Deliver
  <2>2. CASE Len(outbox) = 1
    <3>1. outbox # <<>> /\ outbox' = <<>>
      BY <2>1, <2>2 DEF Deliver, FetchInv, TypeOK
    <3>2. outbox[Len(outbox)] = Head(outbox)
      BY <2>2, <3>1 DEF FetchInv, TypeOK
    <3>3. QED
      BY <3>1, <3>2 DEF Deliver, LastWord
  <2>3. CASE Len(outbox) > 1
    <3>1. outbox' # <<>> /\ outbox # <<>> /\ outbox'[Len(outbox')] = outbox[Len(outbox)]
      BY <2>1, <2>3
    <3>2. QED
      BY <3>1 DEF LastWord
  <2>4. QED
    BY <2>1, <2>2, <2>3 DEF FetchInv, TypeOK
<1>4. JobsInv'
  BY DEF FetchInv, JobsInv, Deliver, jobVars
<1>5. QED
  BY <1>1, <1>2, <1>3, <1>4, SameMessages, QuietStep DEF Deliver, jobVars, stopVars

(* A stop of the worker ends every GET at once; what the pages will show   *)
(* is then left over from it.                                              *)
LEMMA RestartFetchInv == FetchInv /\ Restart => FetchInv'
<1> SUFFICES ASSUME FetchInv, Restart PROVE FetchInv'
  OBVIOUS
<1>1. outbox' \in Seq({"STARTED", "ALL_DONE"})
  BY DEF FetchInv, TypeOK, Restart
<1>2. (LastWord \in BOOLEAN)'
  BY <1>1 DEF FetchInv, TypeOK, Restart, LastWord
<1>3. TypeOK'
  BY <1>1, <1>2 DEF FetchInv, TypeOK, Restart
<1>4. \A q \in Requests : ~Loading(q)'
  BY DEF FetchInv, TypeOK, Restart, Loading
<1>5. CountIsExact' /\ IsFiniteSet(loadingUrls)'
  <2>1. loadingUrls' = {url[q] : q \in {p \in Requests : Loading(p)'}}
    BY <1>4 DEF Restart
  <2>2. QED
    BY <2>1, FS_EmptySet DEF CountIsExact, Restart
<1>6. OneGetPerUrl'
  BY <1>4 DEF OneGetPerUrl
<1>7. MessagesInv'
  BY <1>2, <1>4 DEF MessagesInv, Restart
<1>8. JobsInv'
  BY DEF FetchInv, TypeOK, JobsInv, Restart
<1>9. QED
  BY <1>3, <1>5, <1>6, <1>7, <1>8 DEF FetchInv

LEMMA NextFetchInv == FetchInv /\ [Next]_vars => FetchInv'
<1> SUFFICES ASSUME FetchInv, [Next]_vars PROVE FetchInv'
  OBVIOUS
<1>1. ASSUME NEW r \in Requests,
             \/ Ask(r) \/ PassOn(r) \/ FullResponse(r) \/ TeeFails(r) \/ PartialOnly(r)
      PROVE  FetchInv'
  <2>1. UNCHANGED <<url, range, job, background, loadingUrls,
                    activeRangeCacheFetchCount, skipList, outbox, busy, restarts, interrupted>>
    BY <1>1 DEF Ask, PassOn, FullResponse, TeeFails, PartialOnly, jobVars, stopVars
  <2>2. /\ pc[r] \in {"idle", "asked", "keying"}
        /\ \E s \in {"asked", "keying", "answered", "passed"} : Goto(r, s)
    BY <1>1 DEF Ask, PassOn, FullResponse, TeeFails, PartialOnly
  <2>3. TypeOK' /\ JobsInv'
    BY <2>1, <2>2 DEF FetchInv, TypeOK, JobsInv, Goto
  <2>4. /\ \A q \in Requests : Loading(q)' <=> Loading(q)
        /\ LastWord' <=> LastWord
    BY <2>1 DEF Loading, LastWord
  <2>5. QED
    BY <2>1, <2>3, <2>4, SameMessages, QuietStep DEF stopVars
<1>2. ASSUME NEW r \in Requests, Tee(r) PROVE FetchInv'
  <2>1. TypeOK' /\ JobsInv'
    BY <1>2 DEF FetchInv, TypeOK, JobsInv, Tee, Goto, stopVars
  <2>2. r \notin background
    BY <1>2 DEF FetchInv, JobsInv, Tee
  <2>3. /\ \A q \in Requests : Loading(q)' <=> Loading(q)
        /\ LastWord' <=> LastWord
    BY <1>2, <2>2 DEF FetchInv, TypeOK, Tee, Loading, LastWord
  <2>4. QED
    BY <1>2, <2>1, <2>3, SameMessages, QuietStep DEF Tee, stopVars
<1>3. ASSUME NEW r \in Requests, Fetched(r) PROVE FetchInv'
  <2>1. TypeOK' /\ JobsInv'
    BY <1>3 DEF FetchInv, TypeOK, JobsInv, Fetched, stopVars
  <2>2. /\ \A q \in Requests : Loading(q)' <=> Loading(q)
        /\ LastWord' <=> LastWord
    BY <1>3 DEF FetchInv, TypeOK, Fetched, Loading, LastWord
  <2>3. QED
    BY <1>3, <2>1, <2>2, SameMessages, QuietStep DEF Fetched, stopVars
<1>4. ASSUME NEW r \in Requests, FetchFails(r) PROVE FetchInv'
  <2>1. r \in background
    BY <1>4 DEF FetchFails, FetchInv, JobsInv
  <2>2. QED
    BY <1>4, <2>1, EndFetchInv DEF FetchFails, Loading, FetchInv, TypeOK
<1>5. ASSUME NEW r \in Requests, WriteEnds(r) PROVE FetchInv'
  <2>1. skipList' \subseteq Urls
    BY <1>5 DEF WriteEnds, FetchInv, TypeOK
  <2>2. CASE r \in background
    BY <1>5, <2>1, <2>2, EndFetchInv DEF WriteEnds, Loading
  <2>3. CASE r \notin background
    <3>1. TypeOK' /\ JobsInv'
      BY <1>5, <2>1, <2>3 DEF FetchInv, TypeOK, JobsInv, WriteEnds, stopVars
    <3>2. /\ \A q \in Requests : Loading(q)' <=> Loading(q)
          /\ LastWord' <=> LastWord
      BY <1>5, <2>3 DEF FetchInv, TypeOK, WriteEnds, Loading, LastWord
    <3>3. QED
      BY <1>5, <2>3, <3>1, <3>2, SameMessages, QuietStep DEF WriteEnds, stopVars
  <2>4. QED
    BY <2>2, <2>3
<1>6. CASE UNCHANGED vars
  <2>1. TypeOK' /\ JobsInv'
    BY <1>6 DEF FetchInv, TypeOK, JobsInv, vars
  <2>2. /\ \A q \in Requests : Loading(q)' <=> Loading(q)
        /\ LastWord' <=> LastWord
    BY <1>6 DEF Loading, LastWord, vars
  <2>3. QED
    BY <1>6, <2>1, <2>2, SameMessages, QuietStep DEF vars, stopVars
<1>7. ASSUME NEW r \in Requests, Handle(r) PROVE FetchInv'
  BY <1>1, <1>2, <1>7, StartFetchInv, SkippedFetchInv DEF Handle
<1>8. ASSUME NEW r \in Requests, Work(r) PROVE FetchInv'
  BY <1>3, <1>4, <1>5, <1>8 DEF Work
<1>9. QED
  BY <1>6, <1>7, <1>8, DeliverFetchInv, RestartFetchInv DEF Next

(* The bookkeeping of backgroundFullFetchToOpfs is consistent at all times.*)
THEOREM FetchInvariant == Spec => []FetchInv
<1>1. QED
  BY InitFetchInv, NextFetchInv, PTL DEF Spec

(* Every variable keeps its type: the sets of URLs and the counter, and a  *)
(* message per page.                                                       *)
THEOREM FetchTyped == Spec => []TypeOK
<1>1. FetchInv => TypeOK
  BY DEF FetchInv
<1>2. QED
  BY <1>1, FetchInvariant, PTL

(* activeRangeCacheFetchCount is the number of URLs in loadingUrls, and    *)
(* these are the ones with a background GET that has not ended.            *)
THEOREM CountExact == Spec => []CountIsExact
<1>1. FetchInv => CountIsExact
  BY DEF FetchInv
<1>2. QED
  BY <1>1, FetchInvariant, PTL

(* No two background GETs for one URL run at the same time. *)
THEOREM OneGet == Spec => []OneGetPerUrl
<1>1. FetchInv => OneGetPerUrl
  BY DEF FetchInv
<1>2. QED
  BY <1>1, FetchInvariant, PTL

(* A page with no message under way shows the worker loading just when a   *)
(* background GET runs, or when it is left over from a worker that was     *)
(* stopped in one.                                                         *)
THEOREM PagesShowIt == Spec => []PagesAreRight
<1>1. FetchInv => PagesAreRight
  BY DEF FetchInv, MessagesInv, LastWord, PagesAreRight, TypeOK
<1>2. QED
  BY <1>1, FetchInvariant, PTL
==============================================================================
