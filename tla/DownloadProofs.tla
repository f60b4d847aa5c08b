---------------------------- MODULE DownloadProofs ----------------------------
(***************************************************************************)
(* Proofs about the downloads, for any calls, folders, plugins, assets and *)
(* restarts.  The calls, the handlers of the worker and the mail between   *)
(* them are one inductive invariant, DownloadInv; a step of a call leaves  *)
(* the handlers alone, and a step of the worker the calls.  The second     *)
(* part is what a caller may rely on: the result of a call accounts for    *)
(* all of its download, no call starts again what was downloading all the  *)
(* time, and what is told to be written is in the store.                   *)
(***************************************************************************)
EXTENDS DownloadHook, SequenceTheorems, TLAPS

IInv == TypeOK /\ CallsInv /\ HandlersInv

LEMMA PcTypes ==
  /\ Settled \subseteq PcType /\ Asking \subseteq PcType
  /\ {"idle", "waiting"} \subseteq PcType
  /\ Asking \cap Settled = {} /\ "waiting" \notin Settled /\ "idle" \notin Settled
  /\ "waiting" \notin Asking /\ "idle" \notin Asking
BY DEF Settled, Asking, PcType

LEMMA InFlight ==
  ASSUME TypeOK, NEW c \in Calls
  PROVE  c \in inFlight <=> pc[c] \in {"waiting"} \cup Asking
BY DEF TypeOK, inFlight, PcType, Asking, Settled

(* What is None is no id and no asset. *)
LEMMA NoneIsNone == /\ None \notin IdType /\ None \notin Assets /\ None \notin Asks
                    /\ None \notin Calls /\ None \notin FileType
BY FetchAssumption, AskAssumption

LEMMA InitInv == Init => DownloadInv
<1> SUFFICES ASSUME Init PROVE DownloadInv
  OBVIOUS
<1> USE DEF Init, WorkerInit, CallsInit
<1>1. TypeOK
  BY FetchAssumption, PcTypes
     DEF TypeOK, FetchType, HandlerType, NoHandler, NoLocal, LocalType, FileType
<1>2. \A c \in Calls : c \notin inFlight
  BY DEF inFlight
<1>3. CallsInv
  BY <1>2, PcTypes DEF CallsInv
<1>4. HandlersInv
  <2>1. \A d \in Calls, f \in Handled : handler[<<d, f>>].at = "none"
    BY DEF Handlers, NoHandler
  <2>2. ASSUME NEW d \in Calls, NEW f \in Handled PROVE HandlerOK(d, f)
    <3>1. handler[<<d, f>>].at = "none"
      BY <2>1
    <3>2. QED
      BY <3>1 DEF HandlerOK
  <2>3. QED
    BY <2>2 DEF HandlersInv
<1>5. QED
  BY <1>1, <1>3, <1>4 DEF DownloadInv
------------------------------------------------------------------------------
(* The steps of the browser and the worker. *)

(* A message that is told goes behind the mail of the calls that listen,   *)
(* which are in flight.                                                    *)
LEMMA TellKeeps ==
  ASSUME TypeOK, NEW m \in MessageType, Tell(m)
  PROVE  /\ mail' \in [Calls -> Seq(MessageType)]
         /\ \A c \in Calls : c \notin inFlight => mail'[c] = mail[c]
         /\ (HandlersInv /\ MessageOK(m)) =>
              \A c \in Calls : \A i \in 1..Len(mail'[c]) : MessageOK(mail'[c][i])
<1>1. \A c \in Calls : mail[c] \in Seq(MessageType)
  BY DEF TypeOK
<1>2. \A c \in Calls : mail'[c] \in {mail[c], Append(mail[c], m)}
  BY DEF Tell
<1>3. mail' \in [Calls -> Seq(MessageType)]
  BY <1>1 DEF Tell
<1>4. \A c \in Calls : c \notin inFlight => mail'[c] = mail[c]
  BY DEF Tell, Listens
<1>5. ASSUME HandlersInv, MessageOK(m), NEW c \in Calls, NEW i \in 1..Len(mail'[c])
      PROVE  MessageOK(mail'[c][i])
  <2>1. CASE mail'[c] = mail[c]
    BY <1>5, <2>1 DEF HandlersInv
  <2>2. CASE mail'[c] = Append(mail[c], m)
    <3>1. /\ Len(mail'[c]) = Len(mail[c]) + 1
          /\ mail'[c][Len(mail[c]) + 1] = m
          /\ \A j \in 1..Len(mail[c]) : mail'[c][j] = mail[c][j]
          /\ Len(mail[c]) \in Nat
      BY <1>1, <2>2
    <3>2. i \in 1..Len(mail[c]) \/ i = Len(mail[c]) + 1
      BY <3>1
    <3>3. QED
      BY <1>5, <3>1, <3>2 DEF HandlersInv
  <2>3. QED
    BY <1>2, <2>1, <2>2
<1>6. QED
  BY <1>3, <1>4, <1>5

(* The invariant of the calls does not look at handlers or store: it holds *)
(* on as long as the calls stay and only what has an id changes its state. *)
LEMMA CallsKept ==
  ASSUME IInv, UNCHANGED <<pc, id, ask, aborted, starting>>,
         \A c \in Calls : fetch[c] = "none" => fetch'[c] = "none",
         \A c \in Calls : c \notin inFlight => mail'[c] = mail[c]
  PROVE  CallsInv'
BY DEF IInv, CallsInv, inFlight

(* A step of one handler leaves the others as they are. *)
OthersStay(d, f) ==
  /\ handler' \in [Handlers -> HandlerType]
  /\ \A e \in Calls, g \in Handled : <<e, g>> # <<d, f>> => handler'[<<e, g>>] = handler[<<e, g>>]
  /\ UNCHANGED <<fetch, id>>

LEMMA HandlerStep ==
  ASSUME IInv, NEW d \in Calls, NEW f \in Handled, OthersStay(d, f),
         HandlerOK(d, f)',
         \A c \in Calls : \A i \in 1..Len(mail'[c]) : MessageOK(mail'[c][i])
  PROVE  HandlersInv'
<1>1. ASSUME NEW e \in Calls, NEW g \in Handled PROVE HandlerOK(e, g)'
  <2>1. CASE <<e, g>> = <<d, f>>
    BY <2>1
  <2>2. CASE <<e, g>> # <<d, f>>
    <3>1. HandlerOK(e, g)
      BY DEF IInv, HandlersInv
    <3>2. handler'[<<e, g>>] = handler[<<e, g>>] /\ fetch' = fetch /\ id' = id
      BY <2>2 DEF OthersStay
    <3>3. QED
      BY <3>1, <3>2 DEF HandlerOK, IsOurs
  <2>3. QED
    BY <2>1, <2>2
<1>2. QED
  BY <1>1 DEF HandlersInv, MessageOK

LEMMA MailStays ==
  ASSUME IInv, UNCHANGED mail
  PROVE  /\ \A c \in Calls : \A i \in 1..Len(mail'[c]) : MessageOK(mail'[c][i])
         /\ \A c \in Calls : c \notin inFlight => mail'[c] = mail[c]
         /\ mail' \in [Calls -> Seq(MessageType)]
BY DEF IInv, HandlersInv, TypeOK

LEMMA HandlerPut ==
  ASSUME TypeOK, NEW d \in Calls, NEW f \in Handled, NEW h \in HandlerType,
         handler' = [handler EXCEPT ![<<d, f>>] = h], UNCHANGED <<fetch, id>>
  PROVE  OthersStay(d, f) /\ handler'[<<d, f>>] = h
BY DEF TypeOK, OthersStay, Handlers

(* What a step of the worker has to show of its own. *)
WorkerGoal ==
  /\ fetch' \in [Calls -> FetchType]
  /\ handler' \in [Handlers -> HandlerType]
  /\ store' \in [Assets -> FileType \cup {None}]
  /\ mail' \in [Calls -> Seq(MessageType)]
  /\ restarts' \in 0..MaxRestarts /\ doubtful' \subseteq Assets
  /\ UNCHANGED <<pc, id>>
  /\ \A c \in Calls : fetch[c] = "none" => fetch'[c] = "none"
  /\ \A c \in Calls : c \notin inFlight => mail'[c] = mail[c]
  /\ HandlersInv'

LEMMA EndGoal ==
  ASSUME IInv, NEW d \in Calls, NEW how \in Ended, End(d, how)
  PROVE  WorkerGoal
<1> USE DEF IInv
<1>1. /\ fetch \in [Calls -> FetchType] /\ fetch[d] = "active"
      /\ fetch' = [fetch EXCEPT ![d] = how]
      /\ UNCHANGED <<id, handler, store, pc, mail, restarts, doubtful>>
  BY DEF End, TypeOK
<1>2. ASSUME NEW e \in Calls, NEW f \in Handled PROVE HandlerOK(e, f)'
  <2>1. HandlerOK(e, f)
    BY DEF HandlersInv
  <2>2. fetch'[e] = fetch[e] \/ fetch'[e] \in Ended
    BY <1>1
  <2>3. QED
    BY <1>1, <2>1, <2>2 DEF HandlerOK, IsOurs
<1>3. HandlersInv'
  BY <1>1, <1>2, MailStays DEF HandlersInv
<1>4. QED
  BY <1>1, <1>3, MailStays DEF WorkerGoal, TypeOK, FetchType, Ended

(* The two ends a handler tells of; what it tells is a message that is OK. *)
LEMMA ToldEndGoal ==
  ASSUME IInv, NEW d \in Calls, NEW f \in Handled, ToldEnd(d, f)
  PROVE  WorkerGoal
<1> USE DEF IInv
<1> DEFINE m == EndMessage(fetch[d], d, NoHandler)
<1>1. /\ fetch[d] \in {"fail", "abort"} /\ IsOurs(d, f) /\ id[d] # None
      /\ handler' = [handler EXCEPT ![<<d, f>>].at = "over"] /\ Tell(m)
      /\ UNCHANGED <<fetch, id, store, pc, restarts, doubtful>>
      /\ <<d, f>> \in Handlers
  BY DEF ToldEnd, IsOurs, Handlers
<1>2. m \in MessageType /\ MessageOK(m)
  BY <1>1 DEF TypeOK, EndMessage, NoHandler, MessageType, MessageOK, Ended
<1> DEFINE h == [handler[<<d, f>>] EXCEPT !.at = "over"]
<1>3. h \in HandlerType /\ h.at = "over"
  <2>1. handler[<<d, f>>] \in HandlerType
    BY <1>1 DEF TypeOK
  <2>2. QED
    BY <2>1 DEF HandlerType
<1>4. OthersStay(d, f) /\ handler'[<<d, f>>] = h
  <2>1. handler' = [handler EXCEPT ![<<d, f>>] = h]
    BY <1>1
  <2>2. TypeOK /\ UNCHANGED <<fetch, id>> /\ h \in HandlerType
    BY <1>1, <1>3
  <2> HIDE DEF h
  <2>3. QED
    BY <2>1, <2>2, HandlerPut
<1>5. HandlerOK(d, f)'
  BY <1>1, <1>3, <1>4 DEF HandlerOK, IsOurs, Ended
<1>6. HandlersInv'
  BY <1>1, <1>2, <1>4, <1>5, TellKeeps, HandlerStep
<1>7. QED
  BY <1>1, <1>2, <1>4, <1>6, TellKeeps DEF WorkerGoal, OthersStay, TypeOK

LEMMA CompletedGoal ==
  ASSUME IInv, NEW d \in Calls, NEW f \in Handled, Completed(d, f)
  PROVE  WorkerGoal
<1> USE DEF IInv
<1> DEFINE h == handler[<<d, f>>]
           m == EndMessage("success", d, h)
<1>1. /\ h.at = "running" /\ h.todo = {} /\ <<d, f>> \in Handlers /\ Tell(m)
      /\ handler' = [handler EXCEPT ![<<d, f>>] = [NoHandler EXCEPT !.at = "over"]]
      /\ UNCHANGED <<fetch, id, store, pc, restarts, doubtful>>
  BY DEF Completed, Running, Handlers
<1>2. h \in HandlerType /\ HandlerOK(d, f)
  BY <1>1 DEF TypeOK, HandlersInv
<1>3. id[d] \in IdType
  BY <1>1, <1>2 DEF HandlerOK, IsOurs, TypeOK
<1>4. m \in MessageType /\ MessageOK(m)
  BY <1>1, <1>2, <1>3 DEF EndMessage, HandlerType, HandlerOK, MessageType, MessageOK, Ended
<1>5. OthersStay(d, f)
  BY <1>1 DEF OthersStay, TypeOK, HandlerType, Handlers, NoHandler
<1>6. handler'[<<d, f>>].at = "over"
  BY <1>1 DEF TypeOK, NoHandler
<1>7. HandlerOK(d, f)'
  BY <1>1, <1>2, <1>6 DEF HandlerOK, IsOurs
<1>8. HandlersInv'
  BY <1>1, <1>4, <1>5, <1>7, TellKeeps, HandlerStep
<1>9. QED
  BY <1>1, <1>4, <1>5, <1>8, TellKeeps DEF WorkerGoal, OthersStay, TypeOK

(* The steps of a handler that tell nobody anything: it is enough that it  *)
(* is of its type and goes on to divide the records.                       *)
LEMMA QuietGoal ==
  ASSUME IInv, NEW d \in Calls, NEW f \in Handled, NEW h \in HandlerType,
         handler' = [handler EXCEPT ![<<d, f>>] = h],
         h.at # "none" => fetch[d] \in Ended /\ IsOurs(d, f),
         h.at = "running" => /\ h.writing \in h.todo \cup {None}
                             /\ h.opened => h.writing # None
                             /\ Divides(id[d].assets, h.todo, h.written, h.skipped),
         store' \in [Assets -> FileType \cup {None}], doubtful' \subseteq Assets,
         UNCHANGED <<fetch, id, pc, mail, restarts>>
  PROVE  WorkerGoal
<1> USE DEF IInv
<1>1. OthersStay(d, f) /\ handler'[<<d, f>>] = h
  BY HandlerPut
<1>2. HandlerOK(d, f)'
  BY <1>1 DEF HandlerOK, IsOurs
<1>3. HandlersInv'
  BY <1>1, <1>2, MailStays, HandlerStep
<1>4. QED
  BY <1>1, <1>3, MailStays DEF WorkerGoal, OthersStay, TypeOK

LEMMA SuccessGoal ==
  ASSUME IInv, NEW d \in Calls, NEW f \in Handled, Success(d, f)
  PROVE  WorkerGoal
<1> DEFINE h == [NoHandler EXCEPT !.at = "running", !.todo = id[d].assets]
<1>1. /\ fetch[d] = "success" /\ IsOurs(d, f)
      /\ handler' = [handler EXCEPT ![<<d, f>>] = h]
      /\ UNCHANGED <<fetch, id, store, pc, mail, restarts, doubtful>>
  BY DEF Success
<1>2. id[d] \in IdType
  BY <1>1 DEF IInv, TypeOK, IsOurs
<1>3. /\ h \in HandlerType /\ h.writing = None /\ ~h.opened
      /\ Divides(id[d].assets, h.todo, h.written, h.skipped)
  BY <1>2 DEF NoHandler, HandlerType, IdType, Divides
<1>4. store' \in [Assets -> FileType \cup {None}] /\ doubtful' \subseteq Assets
  BY <1>1 DEF IInv, TypeOK
<1>5. QED
  BY <1>1, <1>3, <1>4, QuietGoal DEF Ended

(* The handler is left by an exception. *)
LEMMA ThrownGoal ==
  ASSUME IInv, NEW d \in Calls, NEW f \in Handled,
         SuccessFails(d, f) \/ \E a \in Assets : RecordFails(d, f, a)
  PROVE  WorkerGoal
<1> DEFINE g == handler[<<d, f>>]
<1>1. g \in HandlerType /\ HandlerOK(d, f)
  BY DEF IInv, TypeOK, Handlers, HandlersInv
<1>2. PICK h \in HandlerType : handler' = [handler EXCEPT ![<<d, f>>] = h] /\ h.at = "thrown"
  <2>1. CASE SuccessFails(d, f)
    <3> DEFINE h == [g EXCEPT !.at = "thrown"]
    <3>1. h \in HandlerType /\ h.at = "thrown"
      BY <1>1 DEF HandlerType
    <3>2. handler' = [handler EXCEPT ![<<d, f>>] = h]
      BY <2>1 DEF SuccessFails
    <3> HIDE DEF h
    <3>3. QED
      BY <3>1, <3>2
  <2>2. CASE \E a \in Assets : RecordFails(d, f, a)
    <3>1. [NoHandler EXCEPT !.at = "thrown"] \in HandlerType
      BY DEF NoHandler, HandlerType
    <3>2. [NoHandler EXCEPT !.at = "thrown"].at = "thrown"
      BY DEF NoHandler
    <3>3. QED
      BY <2>2, <3>1, <3>2 DEF RecordFails
  <2>3. QED
    BY <2>1, <2>2
<1>3. fetch[d] \in Ended /\ IsOurs(d, f)
  BY <1>1 DEF SuccessFails, RecordFails, NextRecord, Running, HandlerOK, Ended
<1>4. /\ UNCHANGED <<fetch, id, store, pc, mail, restarts, doubtful>>
      /\ store' \in [Assets -> FileType \cup {None}] /\ doubtful' \subseteq Assets
  BY DEF SuccessFails, RecordFails, IInv, TypeOK
<1>5. QED
  BY <1>2, <1>3, <1>4, QuietGoal

(* A record leaves those to come for the written or the others. *)
LEMMA RecordGoal ==
  ASSUME IInv, NEW d \in Calls, NEW f \in Handled, NEW h \in HandlerType,
         Running(d, f), NEW a \in handler[<<d, f>>].todo,
         handler' = [handler EXCEPT ![<<d, f>>] = h],
         h.at = "running", h.writing = None, ~h.opened, h.todo = handler[<<d, f>>].todo \ {a},
         \/ /\ h.written = handler[<<d, f>>].written \cup {a}
            /\ h.skipped = handler[<<d, f>>].skipped
         \/ /\ h.skipped = handler[<<d, f>>].skipped \cup {a}
            /\ h.written = handler[<<d, f>>].written,
         store' \in [Assets -> FileType \cup {None}], doubtful' \subseteq Assets,
         UNCHANGED <<fetch, id, pc, mail, restarts>>
  PROVE  WorkerGoal
<1>1. HandlerOK(d, f)
  BY DEF IInv, HandlersInv
<1>2. Divides(id[d].assets, h.todo, h.written, h.skipped)
  BY <1>1 DEF HandlerOK, Running, Divides
<1>3. QED
  BY <1>1, <1>2, QuietGoal DEF HandlerOK, Running

LEMMA RecordsGoal ==
  ASSUME IInv, NEW d \in Calls, NEW f \in Handled, NEW a \in Assets,
         Skip(d, f, a) \/ Exists(d, f, a)
  PROVE  WorkerGoal
<1> DEFINE g == handler[<<d, f>>]
<1>1. /\ g \in HandlerType /\ a \in g.todo /\ g.at = "running" /\ g.writing = None
      /\ g.opened = FALSE
  BY DEF IInv, TypeOK, Handlers, HandlerType, HandlersInv, HandlerOK,
         Skip, Exists, NextRecord, Running
<1>2. CASE Skip(d, f, a)
  <2> DEFINE h == [g EXCEPT !.todo = @ \ {a}, !.skipped = @ \cup {a}]
  <2>1. /\ handler' = [handler EXCEPT ![<<d, f>>] = h]
        /\ UNCHANGED <<fetch, id, store, pc, mail, restarts, doubtful>>
    BY <1>2 DEF Skip
  <2>2. /\ h \in HandlerType /\ h.at = "running" /\ h.writing = None /\ ~h.opened
        /\ h.todo = g.todo \ {a} /\ h.skipped = g.skipped \cup {a} /\ h.written = g.written
    BY <1>1 DEF HandlerType
  <2> HIDE DEF h
  <2>3. QED
    BY <1>1, <2>1, <2>2, RecordGoal DEF Running, IInv, TypeOK
<1>3. CASE Exists(d, f, a)
  <2> DEFINE h == [g EXCEPT !.todo = @ \ {a}, !.writing = None, !.opened = FALSE,
                            !.written = @ \cup {a}]
  <2>1. /\ handler' = [handler EXCEPT ![<<d, f>>] = h]
        /\ UNCHANGED <<fetch, id, store, pc, mail, restarts>>
        /\ doubtful' \in {doubtful, doubtful \cup {a}}
    BY <1>3 DEF Exists, Count
  <2>2. /\ h \in HandlerType /\ h.at = "running" /\ h.writing = None /\ ~h.opened
        /\ h.todo = g.todo \ {a} /\ h.written = g.written \cup {a} /\ h.skipped = g.skipped
    BY <1>1 DEF HandlerType
  <2> HIDE DEF h
  <2>3. QED
    BY <1>1, <2>1, <2>2, RecordGoal DEF Running, IInv, TypeOK
<1>4. QED
  BY <1>2, <1>3

LEMMA WrittenGoal ==
  ASSUME IInv, NEW d \in Calls, NEW f \in Handled,
         Written(d, f) \/ WriteFails(d, f) \/ NoRoom(d, f)
  PROVE  WorkerGoal
<1> DEFINE g == handler[<<d, f>>]
           a == g.writing
<1>1. g \in HandlerType /\ g.at = "running" /\ a # None /\ a \in g.todo /\ a \in Assets
  BY DEF IInv, TypeOK, Handlers, Written, WriteFails, NoRoom, Opened, Running,
         HandlersInv, HandlerOK, HandlerType
<1>2. CASE Written(d, f)
  <2> DEFINE h == [g EXCEPT !.todo = @ \ {a}, !.writing = None, !.opened = FALSE,
                            !.written = @ \cup {a}]
  <2>1. /\ handler' = [handler EXCEPT ![<<d, f>>] = h]
        /\ UNCHANGED <<fetch, id, pc, mail, restarts, doubtful>>
        /\ store' = [store EXCEPT ![a] = [folder |-> f, whole |-> TRUE]] /\ f \in Folders
    BY <1>2, FetchAssumption DEF Written, Count
  <2>2. /\ h \in HandlerType /\ h.at = "running" /\ h.writing = None /\ ~h.opened
        /\ h.todo = g.todo \ {a} /\ h.written = g.written \cup {a} /\ h.skipped = g.skipped
    BY <1>1 DEF HandlerType
  <2>3. store' \in [Assets -> FileType \cup {None}]
    BY <1>1, <2>1 DEF IInv, TypeOK, FileType
  <2> HIDE DEF h
  <2>4. QED
    BY <1>1, <2>1, <2>2, <2>3, RecordGoal DEF Running, IInv, TypeOK
<1>3. CASE WriteFails(d, f) \/ NoRoom(d, f)
  <2> DEFINE h == [g EXCEPT !.todo = @ \ {a}, !.writing = None, !.opened = FALSE,
                            !.skipped = @ \cup {a}]
  <2>1. /\ handler' = [handler EXCEPT ![<<d, f>>] = h]
        /\ UNCHANGED <<fetch, id, pc, mail, restarts>>
        /\ store' \in {store, [store EXCEPT ![a] = None]}
        /\ doubtful' \in {doubtful, doubtful \cup {a}}
    BY <1>3 DEF WriteFails, NoRoom, NotWritten
  <2>2. /\ h \in HandlerType /\ h.at = "running" /\ h.writing = None /\ ~h.opened
        /\ h.todo = g.todo \ {a} /\ h.skipped = g.skipped \cup {a} /\ h.written = g.written
    BY <1>1 DEF HandlerType
  <2>3. store' \in [Assets -> FileType \cup {None}]
    BY <1>1, <2>1 DEF IInv, TypeOK
  <2>4. doubtful' \subseteq Assets
    BY <1>1, <2>1 DEF IInv, TypeOK
  <2>5. UNCHANGED <<fetch, id, pc, mail, restarts>> /\ Running(d, f)
    BY <1>1, <2>1 DEF Running
  <2> HIDE DEF h
  <2>6. QED
    BY <1>1, <2>1, <2>2, <2>3, <2>4, <2>5, RecordGoal
<1>4. QED
  BY <1>2, <1>3

(* A handler takes a record up for writing, and opens a file for it. *)
LEMMA CreateGoal ==
  ASSUME IInv, NEW d \in Calls, NEW f \in Handled,
         Create(d, f) \/ \E a \in Assets : NoFile(d, f, a)
  PROVE  WorkerGoal
<1> DEFINE g == handler[<<d, f>>]
<1>1. /\ g \in HandlerType /\ g.at = "running" /\ HandlerOK(d, f) /\ f \in Folders
      /\ fetch[d] \in Ended /\ IsOurs(d, f)
      /\ Divides(id[d].assets, g.todo, g.written, g.skipped)
  <2>1. g.at = "running"
    BY DEF Create, NoFile, NextRecord, Running
  <2>2. g \in HandlerType /\ HandlerOK(d, f) /\ f \in Folders
    BY FetchAssumption DEF IInv, TypeOK, Handlers, HandlersInv
  <2>3. QED
    BY <2>1, <2>2 DEF HandlerOK
<1>2. CASE Create(d, f)
  <2> DEFINE a == g.writing
             h == [g EXCEPT !.opened = TRUE]
  <2>1. a # None /\ a \in g.todo /\ a \in Assets
    BY <1>1, <1>2 DEF Create, HandlerOK, HandlerType
  <2>2. /\ handler' = [handler EXCEPT ![<<d, f>>] = h]
        /\ UNCHANGED <<fetch, id, pc, mail, restarts, doubtful>>
        /\ store' \in {store, [store EXCEPT ![a] = [folder |-> f, whole |-> FALSE]]}
    BY <1>2, <2>1 DEF Create, IInv, TypeOK
  <2>3. /\ h \in HandlerType /\ h.writing = a /\ h.todo = g.todo
        /\ h.written = g.written /\ h.skipped = g.skipped
    BY <1>1 DEF HandlerType
  <2>4. store' \in [Assets -> FileType \cup {None}]
    <3>1. [folder |-> f, whole |-> FALSE] \in FileType
      BY <1>1 DEF FileType
    <3>2. QED
      BY <2>1, <2>2, <3>1 DEF IInv, TypeOK
  <2>5. doubtful' \subseteq Assets
    BY <2>2 DEF IInv, TypeOK
  <2> HIDE DEF h
  <2>6. QED
    BY <1>1, <2>1, <2>2, <2>3, <2>4, <2>5, QuietGoal
<1>3. ASSUME NEW a \in Assets, NoFile(d, f, a) PROVE WorkerGoal
  <2> DEFINE h == [g EXCEPT !.writing = a]
  <2>1. /\ handler' = [handler EXCEPT ![<<d, f>>] = h] /\ a \in g.todo
        /\ UNCHANGED <<fetch, id, store, pc, mail, restarts, doubtful>>
    BY <1>3 DEF NoFile, NextRecord
  <2>2. /\ h \in HandlerType /\ h.writing = a /\ h.todo = g.todo
        /\ h.written = g.written /\ h.skipped = g.skipped
    BY <1>1 DEF HandlerType
  <2>3. store' \in [Assets -> FileType \cup {None}] /\ doubtful' \subseteq Assets
    BY <2>1 DEF IInv, TypeOK
  <2> HIDE DEF h
  <2>4. QED
    BY <1>1, <2>1, <2>2, <2>3, NoneIsNone, QuietGoal
<1>4. QED
  BY <1>2, <1>3

LEMMA RestartGoal ==
  ASSUME IInv, Restart
  PROVE  WorkerGoal
<1> USE DEF IInv
<1>1. /\ handler' = [h \in Handlers |-> IF handler[h].at = "running"
                                     THEN [NoHandler EXCEPT !.at = "killed"] ELSE handler[h]]
      /\ restarts' \in 0..MaxRestarts
      /\ UNCHANGED <<fetch, id, store, pc, mail, doubtful>>
  BY FetchAssumption DEF Restart, TypeOK
<1>2. [NoHandler EXCEPT !.at = "killed"] \in HandlerType
  BY DEF NoHandler, HandlerType
<1>3. handler' \in [Handlers -> HandlerType]
  BY <1>1, <1>2 DEF TypeOK
<1>4. ASSUME NEW d \in Calls, NEW f \in Handled PROVE HandlerOK(d, f)'
  <2>1. HandlerOK(d, f) /\ <<d, f>> \in Handlers
    BY DEF HandlersInv, Handlers
  <2>2. CASE handler[<<d, f>>].at = "running"
    BY <1>1, <2>1, <2>2 DEF HandlerOK, IsOurs, NoHandler
  <2>3. CASE handler[<<d, f>>].at # "running"
    <3>1. handler'[<<d, f>>] = handler[<<d, f>>]
      BY <1>1, <2>1, <2>3
    <3>2. QED
      BY <1>1, <2>1, <3>1 DEF HandlerOK, IsOurs
  <2>4. QED
    BY <2>2, <2>3
<1>5. QED
  BY <1>1, <1>3, <1>4, MailStays DEF WorkerGoal, TypeOK, HandlersInv

LEMMA RemoveGoal ==
  ASSUME IInv, NEW a \in Assets, Remove(a)
  PROVE  WorkerGoal
<1> USE DEF IInv
<1>1. /\ store' = [store EXCEPT ![a] = None] /\ doubtful' = doubtful \cup {a}
      /\ UNCHANGED <<fetch, id, handler, pc, mail, restarts>>
  BY DEF Remove
<1>2. HandlersInv'
  BY <1>1 DEF HandlersInv, HandlerOK, IsOurs
<1>3. QED
  BY <1>1, <1>2, MailStays DEF WorkerGoal, TypeOK

LEMMA WorkerKeepsGoal ==
  ASSUME IInv, WorkerNext
  PROVE  WorkerGoal
<1>1. CASE Restart
  BY <1>1, RestartGoal
<1>2. CASE \E a \in Assets : Remove(a)
  BY <1>2, RemoveGoal
<1>3. ASSUME NEW d \in Calls, NEW how \in Ended, End(d, how) PROVE WorkerGoal
  BY <1>3, EndGoal
<1>4. ASSUME NEW d \in Calls, NEW f \in Handled, PluginStep(d, f) PROVE WorkerGoal
  BY <1>4, ToldEndGoal, SuccessGoal, ThrownGoal, RecordsGoal, CreateGoal, WrittenGoal,
     CompletedGoal
     DEF PluginStep
<1>5. QED
  BY <1>1, <1>2, <1>3, <1>4 DEF WorkerNext

LEMMA OutsideInv ==
  ASSUME IInv, Outside
  PROVE  IInv'
<1>1. WorkerGoal
  BY WorkerKeepsGoal DEF Outside
<1>2. /\ underWay' = [c \in Calls |-> underWay[c] \cap Downloading']
      /\ UNCHANGED <<ask, local, aborted, starting>>
  BY DEF Outside
<1>3. TypeOK'
  BY <1>1, <1>2 DEF WorkerGoal, IInv, TypeOK
<1>4. CallsInv'
  BY <1>1, <1>2, CallsKept DEF WorkerGoal
<1>5. QED
  BY <1>1, <1>3, <1>4 DEF IInv, WorkerGoal
------------------------------------------------------------------------------
(* The steps of a call. *)

(* Mail that only gets shorter, and ids that are only given to calls which *)
(* have no download, leave the handlers what they are.                     *)
LEMMA HandlersKept ==
  ASSUME IInv, UNCHANGED <<handler>>,
         \A c \in Calls : id[c] # None => id'[c] = id[c] /\ (fetch[c] \in Ended => fetch'[c] = fetch[c]),
         \A c \in Calls : mail'[c] \in {mail[c], <<>>} \/ (mail[c] # <<>> /\ mail'[c] = Tail(mail[c]))
  PROVE  HandlersInv'
<1> USE DEF IInv
<1>1. ASSUME NEW d \in Calls, NEW f \in Handled PROVE HandlerOK(d, f)'
  BY DEF HandlersInv, HandlerOK, IsOurs
<1>2. ASSUME NEW c \in Calls, NEW i \in 1..Len(mail'[c]) PROVE MessageOK(mail'[c][i])
  <2>1. mail[c] \in Seq(MessageType)
    BY DEF TypeOK
  <2>2. CASE mail'[c] = mail[c]
    BY <1>2, <2>2 DEF HandlersInv
  <2>3. CASE mail'[c] = <<>>
    BY <1>2, <2>3
  <2>4. CASE mail[c] # <<>> /\ mail'[c] = Tail(mail[c])
    <3>1. /\ Len(mail'[c]) = Len(mail[c]) - 1 /\ mail'[c][i] = mail[c][i + 1]
          /\ Len(mail[c]) \in Nat
      BY <1>2, <2>1, <2>4, HeadTailProperties
    <3>2. i + 1 \in 1..Len(mail[c])
      BY <1>2, <3>1
    <3>3. QED
      BY <3>1, <3>2 DEF HandlersInv
  <2>5. QED
    BY <2>2, <2>3, <2>4
<1>3. QED
  BY <1>1, <1>2 DEF HandlersInv, MessageOK

LEMMA SettleInv ==
  ASSUME IInv, NEW c \in Calls, NEW how \in Settled, Settle(c, how),
         starting' \subseteq starting, UNCHANGED <<siteVars, id>>, c \in inFlight
  PROVE  IInv'
<1> USE DEF IInv
<1>1. /\ pc' = [pc EXCEPT ![c] = how] /\ ask' = [ask EXCEPT ![c] = None]
      /\ local' = [local EXCEPT ![c] = NoLocal] /\ aborted' = aborted \ {c}
      /\ mail' = [mail EXCEPT ![c] = <<>>]
      /\ UNCHANGED <<fetch, handler, store, restarts, doubtful, id>>
  BY DEF Settle, Goto, siteVars
<1>2. underWay' \in [Calls -> SUBSET Assets]
  BY DEF Settle, TypeOK
<1>3. mail' \in [Calls -> Seq(MessageType)] /\ <<>> \in Seq(MessageType)
  BY <1>1 DEF TypeOK
<1>4. TypeOK'
  BY <1>1, <1>2, <1>3, PcTypes DEF TypeOK, NoLocal, LocalType
<1>5. pc'[c] = how /\ \A d \in Calls \ {c} : pc'[d] = pc[d]
  BY <1>1 DEF TypeOK
<1>6. CallsInv'
  <2>1. c \notin inFlight' /\ mail'[c] = <<>> /\ c \notin aborted'
    BY <1>1, <1>5 DEF inFlight, TypeOK
  <2>2. \A d \in Calls \ {c} : /\ d \in inFlight' <=> d \in inFlight
                               /\ mail'[d] = mail[d] /\ ask'[d] = ask[d]
                               /\ d \in aborted' <=> d \in aborted
    BY <1>1, <1>5 DEF inFlight, TypeOK
  <2>3. how \notin {"idle", "waiting"} \cup Asking
    BY PcTypes
  <2>4. QED
    BY <1>1, <1>5, <2>1, <2>2, <2>3 DEF CallsInv
<1>7. HandlersInv'
  BY <1>1, HandlersKept DEF TypeOK
<1>8. QED
  BY <1>4, <1>6, <1>7

(* A call asks on; nobody hears of it. *)
LEMMA AskingInv ==
  ASSUME IInv, NEW c \in Calls, pc[c] \in Asking, NEW s \in Asking,
         Goto(c, s), local' \in [Calls -> LocalType],
         underWay' \in [Calls -> SUBSET Assets],
         UNCHANGED <<siteVars, mail, id, ask, aborted, starting>>
  PROVE  IInv'
<1> USE DEF IInv
<1>1. /\ pc' = [pc EXCEPT ![c] = s]
      /\ UNCHANGED <<fetch, handler, store, restarts, doubtful, mail, id, ask, aborted, starting>>
  BY DEF Goto, siteVars
<1>2. TypeOK'
  BY <1>1, PcTypes DEF TypeOK
<1>3. pc'[c] = s /\ \A d \in Calls \ {c} : pc'[d] = pc[d]
  BY <1>1 DEF TypeOK
<1>4. \A d \in Calls : d \in inFlight' <=> d \in inFlight
  BY <1>3, PcTypes DEF inFlight
<1>5. CallsInv'
  BY <1>1, <1>3, <1>4, PcTypes DEF CallsInv
<1>6. HandlersInv'
  BY <1>1, HandlersKept DEF TypeOK
<1>7. QED
  BY <1>2, <1>5, <1>6

LEMMA ActiveTypes ==
  ASSUME IInv
  PROVE  ActiveIds \subseteq IdType /\ Downloading \in SUBSET Assets
<1>1. ActiveIds \subseteq IdType
  BY DEF IInv, TypeOK, CallsInv, ActiveIds, Active
<1>2. \A i \in ActiveIds : i.assets \in SUBSET Assets
  BY <1>1 DEF IdType
<1>3. QED
  BY <1>1, <1>2 DEF Downloading

(* A call that is in flight has an ask, and its questions are about that.  *)
LEMMA AskTypes ==
  ASSUME IInv, NEW c \in Calls, pc[c] \in Asking
  PROVE  /\ ask[c].folder \in Folders /\ ask[c].assets \subseteq Assets
         /\ local[c] \in LocalType /\ c \in inFlight
BY AskAssumption, PcTypes DEF AskType, IInv, TypeOK, CallsInv, inFlight

LEMMA QuestionsInv ==
  ASSUME IInv, NEW c \in Calls,
         Questions(c) \/ GetIds(c) \/ List(c) \/ Check(c)
           \/ \E i \in local[c].todo : Match(c, i) \/ MatchFails(c, i)
  PROVE  IInv'
<1> USE DEF IInv, At, Goto
<1>1. pc[c] \in Asking
  BY DEF Questions, GetIds, List, Check, Match, MatchFails, Asking
<1>2. ask[c].assets \subseteq Assets /\ local[c] \in LocalType
  BY <1>1, AskTypes
<1>3. CASE Questions(c)
  <2>1. PICK include \in FilterAnswers : local' = [local EXCEPT ![c].use = ask[c].assets \cap include]
    BY <1>3 DEF Questions
  <2>2. local' \in [Calls -> LocalType]
    BY <1>2, <2>1 DEF TypeOK, LocalType, IdType
  <2>3. underWay' \in [Calls -> SUBSET Assets]
    BY <1>3 DEF Questions, TypeOK
  <2>4. QED
    BY <1>1, <1>3, <2>2, <2>3, AskingInv DEF Questions, Asking
<1>4. CASE GetIds(c)
  <2>1. local' \in [Calls -> LocalType] /\ underWay' \in [Calls -> SUBSET Assets]
    BY <1>2, <1>4, ActiveTypes DEF GetIds, TypeOK, LocalType, Downloading
  <2>2. QED
    BY <1>1, <1>4, <2>1, AskingInv DEF GetIds, Asking
<1>5. CASE List(c)
  <2>1. PICK listed \in ListAnswers(ask[c].folder) : local' = [local EXCEPT ![c].rest = Rest(c, listed)]
    BY <1>5 DEF List
  <2>2. local' \in [Calls -> LocalType]
    BY <1>2, <2>1 DEF Rest, TypeOK, LocalType
  <2>3. QED
    BY <1>1, <1>5, <2>2, AskingInv DEF List, Asking, TypeOK
<1>6. ASSUME NEW i \in local[c].todo, Match(c, i) \/ MatchFails(c, i) PROVE IInv'
  <2>1. i \in IdType
    BY <1>2 DEF LocalType
  <2>2. local' \in [Calls -> LocalType] /\ underWay' \in [Calls -> SUBSET Assets]
    <3>1. CASE Match(c, i)
      <4>1. [local[c] EXCEPT !.todo = @ \ {i}, !.progress = @ \cup i.assets] \in LocalType
        BY <1>2, <2>1 DEF LocalType, IdType
      <4>2. local' = [local EXCEPT ![c] = [local[c] EXCEPT !.todo = @ \ {i},
                                                           !.progress = @ \cup i.assets]]
        BY <3>1 DEF Match
      <4>3. local' \in [Calls -> LocalType]
        BY <4>1, <4>2 DEF TypeOK
      <4>4. QED
        BY <3>1, <4>3 DEF Match, TypeOK
    <3>2. CASE MatchFails(c, i)
      <4>1. [local[c] EXCEPT !.todo = @ \ {i}] \in LocalType
        BY <1>2 DEF LocalType
      <4>2. QED
        BY <3>2, <4>1 DEF MatchFails, TypeOK
    <3>3. QED
      BY <1>6, <3>1, <3>2
  <2>3. pc' = [pc EXCEPT ![c] = "match"] /\ "match" \in Asking
    BY <1>6 DEF Match, MatchFails, TypeOK, Asking
  <2>4. QED
    BY <1>1, <1>6, <2>2, <2>3, AskingInv DEF Match, MatchFails
<1>7. CASE Check(c)
  <2>1. ASSUME NEW b \in BOOLEAN PROVE [local[c] EXCEPT !.attach = b] \in LocalType
    BY <1>2 DEF LocalType
  <2>2. local' \in [Calls -> LocalType]
    <3>1. StillActive(c) \in BOOLEAN
      BY DEF StillActive
    <3>2. QED
      BY <1>7, <2>1, <3>1 DEF Check, TypeOK
  <2>3. QED
    BY <1>1, <1>7, <2>2, AskingInv DEF Check, Asking, TypeOK
<1>8. QED
  BY <1>3, <1>4, <1>5, <1>6, <1>7

LEMMA BeginInv ==
  ASSUME IInv, NEW c \in Calls, NEW a \in Asks, Begin(c, a)
  PROVE  IInv' /\ c \in inFlight' /\ c \notin aborted'
<1> USE DEF IInv
<1>1. /\ pc[c] = "idle" /\ pc' = [pc EXCEPT ![c] = "questions"]
      /\ ask' = [ask EXCEPT ![c] = a]
      /\ UNCHANGED <<fetch, handler, store, restarts, doubtful, mail, id, local,
                     aborted, starting, underWay>>
  BY DEF Begin, At, Goto, siteVars
<1>2. "questions" \in Asking /\ "questions" \in PcType /\ "questions" \notin Settled
  BY DEF Asking, PcType, Settled
<1>3. TypeOK'
  BY <1>1, <1>2 DEF TypeOK
<1>4. pc'[c] = "questions" /\ ask'[c] = a /\ a # None
      /\ \A d \in Calls \ {c} : pc'[d] = pc[d] /\ ask'[d] = ask[d]
  BY <1>1, NoneIsNone DEF TypeOK
<1>5. c \in inFlight' /\ \A d \in Calls \ {c} : d \in inFlight' <=> d \in inFlight
  BY <1>2, <1>4 DEF inFlight
<1>6. c \notin inFlight
  BY <1>1 DEF inFlight
<1>7. CallsInv'
  BY <1>1, <1>2, <1>4, <1>5, <1>6 DEF CallsInv
<1>8. HandlersInv'
  BY <1>1, HandlersKept DEF TypeOK
<1>9. QED
  BY <1>1, <1>3, <1>5, <1>6, <1>7, <1>8 DEF CallsInv

LEMMA RunInv ==
  ASSUME IInv, NEW c \in Calls, Run(c)
  PROVE  IInv'
<1> USE DEF IInv
<1>1. /\ pc[c] \in {"run", "checked"} /\ pc' = [pc EXCEPT ![c] = "waiting"]
      /\ id' = [id EXCEPT ![c] = OwnId(c)]
      /\ starting' \in {starting, starting \cup {c}}
      /\ local' = [local EXCEPT ![c] = [NoLocal EXCEPT !.missed = local[c].missed]]
      /\ UNCHANGED <<fetch, handler, store, restarts, doubtful, mail, ask, aborted, underWay>>
  BY DEF Run, Runs, At, Goto, siteVars
<1>2. {"run", "checked"} \subseteq Asking /\ "waiting" \in PcType /\ "waiting" \notin Asking
  BY PcTypes DEF Asking
<1>3. OwnId(c) \in IdType /\ OwnId(c) # None /\ id[c] = None /\ fetch[c] = "none"
  BY <1>1, <1>2, AskTypes, NoneIsNone DEF OwnId, IdType, LocalType, CallsInv
<1>4. TypeOK'
  <2>1. local[c].missed \in BOOLEAN
    BY <1>1, <1>2, AskTypes DEF LocalType
  <2>2. [NoLocal EXCEPT !.missed = local[c].missed] \in LocalType
    BY <2>1 DEF NoLocal, LocalType
  <2>3. QED
    BY <1>1, <1>2, <1>3, <2>2 DEF TypeOK
<1>5. /\ pc'[c] = "waiting" /\ id'[c] = OwnId(c)
      /\ \A d \in Calls \ {c} : pc'[d] = pc[d] /\ id'[d] = id[d] /\ (d \in starting' <=> d \in starting)
  BY <1>1 DEF TypeOK
<1>6. \A d \in Calls : d \in inFlight' <=> d \in inFlight
  BY <1>1, <1>2, <1>5, PcTypes DEF inFlight
<1>7. CallsInv'
  BY <1>1, <1>2, <1>3, <1>5, <1>6 DEF CallsInv
<1>8. HandlersInv'
  BY <1>1, <1>3, <1>5, HandlersKept DEF TypeOK
<1>9. QED
  BY <1>4, <1>7, <1>8

LEMMA StartInv ==
  ASSUME IInv, NEW c \in Calls, Start(c)
  PROVE  IInv'
<1> USE DEF IInv
<1>1. /\ c \in starting /\ starting' = starting \ {c}
      /\ fetch' = [fetch EXCEPT ![c] = "active"] /\ underWay' = [underWay EXCEPT ![c] = {}]
      /\ UNCHANGED <<handler, store, restarts, doubtful, mail, id, pc, ask, local, aborted>>
  BY DEF Start
<1>2. TypeOK'
  BY <1>1 DEF TypeOK, FetchType
<1>3. CallsInv'
  BY <1>1 DEF CallsInv, inFlight, TypeOK
<1>4. fetch[c] = "none" /\ "none" \notin Ended
  BY <1>1 DEF CallsInv, Ended
<1>5. \A d \in Calls : fetch[d] \in Ended => fetch'[d] = fetch[d]
  BY <1>1, <1>4 DEF TypeOK
<1>6. HandlersInv'
  BY <1>1, <1>5, HandlersKept DEF TypeOK
<1>7. QED
  BY <1>2, <1>3, <1>6

LEMMA SettlesInv ==
  ASSUME IInv, NEW c \in Calls,
         \/ FilteredOut(c) \/ FoldersFail(c) \/ IdsFail(c) \/ NothingToFetch(c)
         \/ RunFails(c) \/ RunAborted(c)
  PROVE  IInv'
<1>1. c \in inFlight
  BY PcTypes DEF FilteredOut, FoldersFail, IdsFail, NothingToFetch, RunFails, RunAborted, Runs,
                 At, inFlight, Settled
<1>2. PICK how \in Settled : Settle(c, how)
  BY DEF FilteredOut, FoldersFail, IdsFail, NothingToFetch, RunFails, RunAborted, Settled
<1>3. UNCHANGED <<siteVars, id, starting>>
  BY DEF FilteredOut, FoldersFail, IdsFail, NothingToFetch, RunFails, RunAborted
<1>4. QED
  BY <1>1, <1>2, <1>3, SettleInv

LEMMA StartFailsInv ==
  ASSUME IInv, NEW c \in Calls, StartFails(c)
  PROVE  IInv'
<1> USE DEF IInv
<1>1. starting' = starting \ {c} /\ UNCHANGED <<siteVars, id>>
  BY DEF StartFails
<1>2. CASE At(c, "waiting")
  <2>1. Settle(c, "error") /\ "error" \in Settled /\ c \in inFlight
    BY <1>2 DEF StartFails, At, Settled, inFlight
  <2>2. QED
    BY <1>1, <2>1, SettleInv
<1>3. CASE ~At(c, "waiting")
  <2>1. UNCHANGED <<fetch, handler, store, restarts, doubtful, id, pc, ask, local, aborted,
                    mail, underWay>>
    BY <1>1, <1>3 DEF StartFails, settleVars, siteVars
  <2>2. TypeOK' /\ CallsInv'
    BY <1>1, <2>1 DEF TypeOK, CallsInv, inFlight
  <2>3. HandlersInv'
    BY <2>1, HandlersKept DEF TypeOK
  <2>4. QED
    BY <2>2, <2>3
<1>4. QED
  BY <1>2, <1>3

LEMMA ReceiveInv ==
  ASSUME IInv, NEW c \in Calls, Receive(c)
  PROVE  IInv'
<1> USE DEF IInv
<1> DEFINE m == Head(mail[c])
           how == IF m.kind = "success" THEN "completed" ELSE m.kind
<1>1. /\ mail[c] # <<>> /\ mail[c] \in Seq(MessageType) /\ m \in MessageType
      /\ UNCHANGED <<siteVars, id, starting>>
  BY HeadTailProperties DEF Receive, TypeOK
<1>2. CASE Concerns(c, m)
  <2>1. Settle(c, how) /\ how \in Settled /\ c \in inFlight
    BY <1>1, <1>2, PcTypes DEF Receive, Concerns, At, inFlight, MessageType, Ended, Settled
  <2>2. QED
    BY <1>1, <2>1, SettleInv
<1>3. CASE ~Concerns(c, m)
  <2>1. /\ mail' = [mail EXCEPT ![c] = Tail(@)]
        /\ local' = [local EXCEPT ![c].missed = @ \/ Misses(c, m)]
        /\ UNCHANGED <<fetch, handler, store, restarts, doubtful, id, pc, ask,
                       aborted, starting, underWay>>
    BY <1>1, <1>3 DEF Receive, siteVars
  <2>2. TypeOK'
    <3>1. local[c] \in LocalType
      BY DEF TypeOK
    <3>2. (local[c].missed \/ Misses(c, m)) \in BOOLEAN
      OBVIOUS
    <3>3. [local[c] EXCEPT !.missed = @ \/ Misses(c, m)] \in LocalType
      BY <3>1, <3>2 DEF LocalType
    <3>4. local' \in [Calls -> LocalType]
      BY <2>1, <3>3 DEF TypeOK
    <3>5. QED
      BY <1>1, <2>1, <3>4, HeadTailProperties DEF TypeOK
  <2>3. c \in inFlight /\ \A d \in Calls \ {c} : mail'[d] = mail[d]
    BY <1>1, <2>1 DEF CallsInv, TypeOK
  <2>4. CallsInv'
    BY <2>1, <2>3 DEF CallsInv, inFlight
  <2>5. HandlersInv'
    BY <1>1, <2>1, HandlersKept DEF TypeOK
  <2>6. QED
    BY <2>2, <2>4, <2>5
<1>4. QED
  BY <1>2, <1>3

LEMMA AbortInv ==
  ASSUME IInv, NEW c \in Calls, Abort(c)
  PROVE  IInv'
<1> USE DEF IInv
<1>1. c \in inFlight /\ UNCHANGED <<siteVars, id, starting>>
  BY DEF Abort
<1>2. CASE At(c, "waiting")
  <2>1. Settle(c, "abort") /\ "abort" \in Settled
    BY <1>2 DEF Abort, Settled
  <2>2. QED
    BY <1>1, <2>1, SettleInv
<1>3. CASE ~At(c, "waiting")
  <2>1. /\ aborted' = aborted \cup {c}
        /\ UNCHANGED <<fetch, handler, store, restarts, doubtful, id, pc, ask, local,
                       starting, mail, underWay>>
    BY <1>1, <1>3 DEF Abort, siteVars
  <2>2. TypeOK' /\ CallsInv'
    BY <1>1, <2>1 DEF TypeOK, CallsInv, inFlight
  <2>3. HandlersInv'
    BY <2>1, HandlersKept DEF TypeOK
  <2>4. QED
    BY <2>2, <2>3
<1>4. QED
  BY <1>2, <1>3

LEMMA CallStepInv ==
  ASSUME IInv, NEW c \in Calls, CallStep(c)
  PROVE  IInv'
BY QuestionsInv, SettlesInv, RunInv, StartFailsInv, ReceiveInv DEF CallStep
------------------------------------------------------------------------------
(* The hook. *)

HookOK ==
  /\ status \in {"idle", "pending", "success", "failure", "aborted", "unmounted"}
  /\ controller \in Calls \cup {None}
  /\ \A c \in Calls : c = controller => pc[c] # "idle" /\ (c \in inFlight => ask[c].hook)
  /\ PendingCanBeReset

LEMMA NextInv ==
  ASSUME IInv, [Next]_allVars
  PROVE  IInv'
<1>1. CASE UNCHANGED allVars
  BY <1>1 DEF allVars, vars, siteVars, IInv, TypeOK, CallsInv, HandlersInv, HandlerOK,
              MessageOK, IsOurs, inFlight
<1>2. CASE Outside
  BY <1>2, OutsideInv
<1>3. ASSUME NEW c \in Calls, CallStep(c) \/ Start(c) \/ Abort(c) PROVE IInv'
  BY <1>3, CallStepInv, StartInv, AbortInv
<1>4. ASSUME NEW c \in Calls, NEW a \in Asks, Begin(c, a) PROVE IInv'
  BY <1>4, BeginInv
<1>5. CASE UNCHANGED vars
  BY <1>5 DEF vars, siteVars, IInv, TypeOK, CallsInv, HandlersInv, HandlerOK,
              MessageOK, IsOurs, inFlight
<1>6. CASE Reset
  BY <1>3, <1>5, <1>6 DEF Reset, inFlight
<1>7. QED
  BY <1>1, <1>2, <1>3, <1>4, <1>5, <1>6 DEF Next, Step, StartDownload, Unmount

(* A step that begins no call anew, and leaves the call of the controller  *)
(* in flight and its signal alone, leaves the hook what it was.            *)
LEMMA HookStays ==
  ASSUME HookOK, UNCHANGED hookVars,
         \A c \in Calls : pc[c] # "idle" =>
           pc'[c] # "idle" /\ (c \in inFlight' => c \in inFlight /\ ask'[c] = ask[c]),
         \A c \in Calls : c = controller /\ c \in inFlight \ aborted => c \in inFlight' \ aborted'
  PROVE  HookOK'
BY NoneIsNone DEF HookOK, PendingCanBeReset, hookVars, inFlight

(* A step of a call is not seen in the others, takes no call back to where *)
(* it was not begun, and aborts no signal.                                 *)
LEMMA CallStepIsLocal ==
  ASSUME IInv, NEW c \in Calls, CallStep(c)
  PROVE  /\ \A d \in Calls \ {c} : pc'[d] = pc[d] /\ ask'[d] = ask[d]
         /\ pc'[c] # "idle" /\ (pc'[c] \notin Settled => ask'[c] = ask[c])
         /\ pc[c] # "idle" /\ (pc[c] \in Settled => pc'[c] \in Settled)
         /\ aborted' \subseteq aborted
         /\ \A d \in Calls \ {c} : d \in aborted <=> d \in aborted'
<1> USE DEF IInv, TypeOK
<1>1. ASSUME NEW how \in Settled, Settle(c, how)
      PROVE  /\ pc' = [pc EXCEPT ![c] = how] /\ how # "idle"
             /\ ask' = [ask EXCEPT ![c] = None] /\ aborted' = aborted \ {c}
  BY <1>1, PcTypes DEF Settle, Goto
<1>2. CASE \/ FilteredOut(c) \/ FoldersFail(c) \/ IdsFail(c) \/ NothingToFetch(c)
           \/ RunFails(c) \/ RunAborted(c)
  <2>1. PICK how \in Settled : Settle(c, how)
    BY <1>2 DEF FilteredOut, FoldersFail, IdsFail, NothingToFetch, RunFails, RunAborted, Settled
  <2>2. pc[c] # "idle"
    BY <1>2 DEF FilteredOut, FoldersFail, IdsFail, NothingToFetch, RunFails, RunAborted, Runs, At
  <2>3. QED
    BY <1>1, <2>1, <2>2
<1>3. CASE StartFails(c)
  <2>1. CASE At(c, "waiting")
    <3>1. Settle(c, "error") /\ "error" \in Settled /\ pc[c] # "idle"
      BY <1>3, <2>1 DEF StartFails, Settled, At
    <3>2. QED
      BY <1>1, <3>1
  <2>2. CASE ~At(c, "waiting")
    <3>1. UNCHANGED <<pc, ask, aborted>> /\ pc[c] # "idle"
      BY <1>3, <2>2 DEF StartFails, settleVars, CallsInv
    <3>2. QED
      BY <3>1
  <2>3. QED
    BY <2>1, <2>2
<1>4. CASE Receive(c)
  <2> DEFINE m == Head(mail[c])
             how == IF m.kind = "success" THEN "completed" ELSE m.kind
  <2>1. m \in MessageType /\ mail[c] # <<>>
    BY <1>4, HeadTailProperties DEF Receive
  <2>2. pc[c] # "idle"
    BY <2>1 DEF CallsInv, inFlight
  <2>3. CASE Concerns(c, m)
    <3>1. Settle(c, how) /\ how \in Settled
      BY <1>4, <2>1, <2>3 DEF Receive, MessageType, Ended, Settled
    <3>2. QED
      BY <1>1, <2>2, <3>1
  <2>4. CASE ~Concerns(c, m)
    BY <1>4, <2>2, <2>4 DEF Receive
  <2>5. QED
    BY <2>3, <2>4
<1>5. CASE \E i \in local[c].todo : Match(c, i) \/ MatchFails(c, i)
  BY <1>5 DEF Match, MatchFails, At
<1>6. CASE Questions(c) \/ GetIds(c) \/ List(c) \/ Check(c) \/ Run(c)
  BY <1>6, PcTypes DEF Questions, GetIds, List, Check, Run, Runs, Goto, At, Asking
<1>7. QED
  BY <1>2, <1>3, <1>4, <1>5, <1>6 DEF CallStep

LEMMA HookNext ==
  ASSUME IInv, HookOK, [Next]_allVars
  PROVE  HookOK'
<1>0. IInv'
  BY NextInv
<1>1. CASE UNCHANGED allVars
  BY <1>1, HookStays DEF allVars, vars, inFlight
<1>2. CASE Outside /\ UNCHANGED hookVars
  <2>1. UNCHANGED <<pc, ask, aborted>>
    BY <1>2, WorkerKeepsGoal DEF Outside, WorkerGoal
  <2>2. QED
    BY <1>2, <2>1, HookStays DEF inFlight
<1>3. ASSUME NEW c \in Calls, Step(c) PROVE HookOK'
  <2>1. /\ \A d \in Calls \ {c} : /\ pc'[d] = pc[d] /\ ask'[d] = ask[d]
                                  /\ d \in aborted <=> d \in aborted'
        /\ pc'[c] # "idle" /\ (pc'[c] \notin Settled => ask'[c] = ask[c])
        /\ pc[c] # "idle" /\ (pc[c] \in Settled => pc'[c] \in Settled)
        /\ aborted' \subseteq aborted
    BY <1>3, CallStepIsLocal DEF Step
  <2>2. CASE c \in inFlight /\ ask[c].hook /\ pc'[c] \in Settled
    <3>1. /\ status' = IF mounted THEN StatusOf(pc'[c]) ELSE status
          /\ controller' = None
      BY <1>3, <2>2 DEF Step, Follow
    <3>2. StatusOf(pc'[c]) \in {"success", "aborted", "failure"}
      BY DEF StatusOf
    <3>3. status' \in {"idle", "success", "failure", "aborted", "unmounted"} \/ status' = status
      BY <3>1, <3>2
    <3>4. status' # "pending"
      BY <3>1, <3>2 DEF HookOK, PendingCanBeReset, mounted
    <3>5. QED
      BY <3>1, <3>3, <3>4, NoneIsNone DEF HookOK, PendingCanBeReset
  <2>3. CASE ~(c \in inFlight /\ ask[c].hook /\ pc'[c] \in Settled)
    <3>1. UNCHANGED hookVars
      BY <1>3, <2>3 DEF Step, Follow
    <3>2. ASSUME NEW d \in Calls, d = controller, d \in inFlight \ aborted
          PROVE  d \in inFlight' \ aborted'
      <4>1. CASE d = c
        <5>1. ask[c].hook /\ pc'[c] \notin Settled \cup {"idle"}
          BY <2>1, <2>3, <3>2, <4>1 DEF HookOK
        <5>2. QED
          BY <2>1, <3>2, <4>1, <5>1 DEF inFlight
      <4>2. CASE d # c
        <5>1. pc'[d] = pc[d] /\ (d \in aborted <=> d \in aborted')
          BY <2>1, <4>2
        <5>2. QED
          BY <3>2, <5>1 DEF inFlight
      <4>3. QED
        BY <4>1, <4>2
    <3>3. ASSUME NEW d \in Calls, pc[d] # "idle"
          PROVE  pc'[d] # "idle" /\ (d \in inFlight' => d \in inFlight /\ ask'[d] = ask[d])
      <4>1. CASE d = c
        BY <2>1, <4>1 DEF inFlight
      <4>2. CASE d # c
        <5>1. pc'[d] = pc[d] /\ ask'[d] = ask[d]
          BY <2>1, <4>2
        <5>2. QED
          BY <3>3, <5>1 DEF inFlight
      <4>3. QED
        BY <4>1, <4>2
    <3>4. QED
      BY <3>1, <3>2, <3>3, HookStays
  <2>4. QED
    BY <2>2, <2>3
<1>4. ASSUME NEW c \in Calls, Start(c) /\ UNCHANGED hookVars PROVE HookOK'
  BY <1>4, HookStays DEF Start, inFlight
<1>5. ASSUME NEW c \in Calls, NEW a \in Asks, StartDownload(c, a) PROVE HookOK'
  <2>1. /\ c \in inFlight' /\ c \notin aborted' /\ status' = "pending" /\ controller' = c
    BY <1>5, BeginInv DEF StartDownload
  <2>2. pc'[c] = "questions" /\ ask'[c] = a /\ a.hook
    BY <1>5 DEF StartDownload, Begin, Goto, IInv, TypeOK
  <2>3. QED
    BY <2>1, <2>2 DEF HookOK, PendingCanBeReset
<1>6. ASSUME NEW c \in Calls, NEW a \in Asks, Begin(c, a), UNCHANGED hookVars
      PROVE  HookOK'
  <2>1. /\ pc[c] = "idle" /\ c \notin inFlight /\ aborted' = aborted
        /\ \A d \in Calls \ {c} : pc'[d] = pc[d] /\ ask'[d] = ask[d]
    BY <1>6 DEF Begin, At, Goto, IInv, TypeOK, inFlight
  <2>2. QED
    BY <1>6, <2>1, HookStays DEF inFlight
<1>7. ASSUME NEW c \in Calls, Abort(c), c \in inFlight, ~ask[c].hook, UNCHANGED hookVars
      PROVE  HookOK'
  <2>1. /\ c # controller
        /\ \A d \in Calls \ {c} : /\ pc'[d] = pc[d] /\ ask'[d] = ask[d]
                                  /\ d \in aborted' <=> d \in aborted
    BY <1>7 DEF Abort, Settle, Goto, IInv, TypeOK, HookOK
  <2>2. \A d \in Calls : pc[d] # "idle" =>
          pc'[d] # "idle" /\ (d \in inFlight' => d \in inFlight /\ ask'[d] = ask[d])
    BY <1>7, <2>1 DEF Abort, Settle, Goto, IInv, TypeOK, inFlight, Settled
  <2>3. QED
    <3>1. ASSUME NEW d \in Calls, d = controller, d \in inFlight \ aborted
          PROVE  d \in inFlight' \ aborted'
      <4>1. d # c /\ d \in Calls \ {c}
        BY <2>1, <3>1
      <4>2. pc'[d] = pc[d] /\ (d \in aborted' <=> d \in aborted)
        BY <2>1, <4>1
      <4>3. QED
        BY <3>1, <4>2 DEF inFlight
    <3>2. QED
      BY <1>7, <2>2, <3>1, HookStays
<1>8. CASE Reset
  BY <1>8, NoneIsNone DEF Reset, HookOK, PendingCanBeReset
<1>9. CASE Unmount
  <2>1. UNCHANGED <<pc, ask, aborted, controller>> /\ status' = "unmounted"
    BY <1>9 DEF Unmount, vars
  <2>2. QED
    BY <2>1 DEF HookOK, PendingCanBeReset, inFlight
<1>10. QED
  BY <1>1, <1>2, <1>3, <1>4, <1>5, <1>6, <1>7, <1>8, <1>9 DEF Next
------------------------------------------------------------------------------
(* DownloadInv: in every state the calls, the handlers and the messages of *)
(* the downloads have their types and keep what the invariant says of      *)
(* them: no record of a download is lost on its way to the pages.          *)
THEOREM DownloadsAreSound == Spec => []DownloadInv
<1>1. Init => DownloadInv /\ HookOK
  BY InitInv, NoneIsNone DEF DownloadInv, HookOK, Init, PendingCanBeReset
<1>2. ASSUME IInv, HookOK, [Next]_allVars PROVE IInv' /\ HookOK'
  BY <1>2, NextInv, HookNext
<1>3. Init => IInv /\ HookOK
  BY <1>1 DEF DownloadInv, IInv
<1>4. IInv /\ HookOK => DownloadInv
  BY DEF DownloadInv, IInv, HookOK
<1>5. QED
  BY <1>2, <1>3, <1>4, PTL DEF Spec

(* PendingCanBeReset: while the hook shows a download as pending, its      *)
(* reset reaches a call that is in flight and not aborted.                 *)
THEOREM ResetReaches == Spec => []PendingCanBeReset
<1>1. Init => IInv /\ HookOK
  BY InitInv, NoneIsNone DEF DownloadInv, IInv, HookOK, Init, PendingCanBeReset
<1>2. ASSUME IInv, HookOK, [Next]_allVars PROVE IInv' /\ HookOK'
  BY <1>2, NextInv, HookNext
<1>3. HookOK => PendingCanBeReset
  BY DEF HookOK
<1>4. QED
  BY <1>1, <1>2, <1>3, PTL DEF Spec
------------------------------------------------------------------------------
(* The steps of the calls, by what they make of the promise. *)
SettleStep(c) ==
  \/ FilteredOut(c) \/ FoldersFail(c) \/ IdsFail(c) \/ NothingToFetch(c)
  \/ RunFails(c) \/ RunAborted(c) \/ StartFails(c) \/ Abort(c)

(* A call completes by a message about its own download only. *)
LEMMA CompletedByMessage ==
  ASSUME IInv, [Next]_allVars, NEW c \in Calls,
         pc[c] # "completed", pc'[c] = "completed"
  PROVE  /\ mail[c] # <<>> /\ Head(mail[c]).kind = "success"
         /\ Head(mail[c]).id = id[c]
<1> USE DEF IInv, TypeOK
<1>1. ASSUME NEW d \in Calls, NEW how, Settle(d, how), how # "completed"
      PROVE  FALSE
  BY <1>1 DEF Settle, Goto
<1>2. ASSUME NEW d \in Calls, SettleStep(d) PROVE FALSE
  BY <1>1, <1>2 DEF SettleStep, FilteredOut, FoldersFail, IdsFail, NothingToFetch,
                    RunFails, RunAborted, StartFails, Abort, settleVars
<1>3. ASSUME NEW d \in Calls,
             Questions(d) \/ GetIds(d) \/ List(d) \/ Check(d) \/ Run(d)
               \/ (\E i \in local[d].todo : Match(d, i) \/ MatchFails(d, i))
               \/ Start(d) \/ (\E a \in Asks : Begin(d, a))
      PROVE  FALSE
  BY <1>3 DEF Questions, GetIds, List, Check, Run, Match, MatchFails, Start, Begin, Goto
<1>4. pc' # pc
  OBVIOUS
<1>5. ~Outside
  BY <1>4, WorkerKeepsGoal DEF Outside, WorkerGoal
<1>6. \A d \in Calls : ~Receive(d) => ~CallStep(d)
  BY <1>2, <1>3 DEF CallStep, SettleStep
<1>7. ASSUME NEW d \in Calls, Receive(d)
      PROVE  /\ mail[c] # <<>> /\ Head(mail[c]).kind = "success"
             /\ Head(mail[c]).id = id[c]
  <2> DEFINE m == Head(mail[d])
             how == IF m.kind = "success" THEN "completed" ELSE m.kind
  <2>1. mail[d] # <<>> /\ Concerns(d, m) /\ Settle(d, how)
    BY <1>4, <1>7 DEF Receive
  <2>2. d = c /\ how = "completed"
    BY <2>1, <1>1 DEF Settle, Goto
  <2>3. m \in MessageType
    BY <2>1, HeadTailProperties
  <2>4. m.kind = "success"
    BY <2>2, <2>3 DEF MessageType, Ended
  <2>5. QED
    BY <2>1, <2>2, <2>4 DEF Concerns
<1>8. ~Abort(c) /\ \A d \in Calls : ~Abort(d)
  BY <1>2 DEF SettleStep
<1>9. QED
  <2>1. Next
    BY <1>4 DEF allVars, vars
  <2>2. ~Reset
    BY <1>4, <1>8 DEF Reset, vars, inFlight
  <2>3. ~Unmount
    BY <1>4 DEF Unmount, vars
  <2>4. PICK d \in Calls : Receive(d)
    BY <1>3, <1>5, <1>6, <1>8, <2>1, <2>2, <2>3 DEF Next, Step, StartDownload
  <2>5. QED
    BY <1>7, <2>4

(* What ResultIsComplete says of a step. *)
ResultStep ==
  \A c \in Calls :
    ~At(c, "completed") /\ pc'[c] = "completed" =>
      LET m == Head(mail[c]) IN
        /\ m.written \cup m.skipped = id[c].assets
        /\ m.written \cap m.skipped = {}

(* ResultIsComplete: a call that resolves by the end of a download learns  *)
(* of every asset it wanted, and of no other, whether it was written.      *)
THEOREM ResultAccountsForAll == Spec => ResultIsComplete
<1>1. IInv /\ [Next]_allVars => [ResultStep]_vars
  <2> SUFFICES ASSUME IInv, [Next]_allVars, NEW c \in Calls,
                      pc[c] # "completed", pc'[c] = "completed"
               PROVE  /\ Head(mail[c]).written \cup Head(mail[c]).skipped = id[c].assets
                      /\ Head(mail[c]).written \cap Head(mail[c]).skipped = {}
    BY DEF ResultStep, At
  <2>1. /\ mail[c] # <<>> /\ Head(mail[c]).kind = "success"
        /\ Head(mail[c]).id = id[c]
    BY CompletedByMessage
  <2>2. mail[c] \in Seq(MessageType)
    BY DEF IInv, TypeOK
  <2>3. 1 \in 1..Len(mail[c]) /\ Head(mail[c]) = mail[c][1]
    BY <2>1, <2>2
  <2>4. MessageOK(Head(mail[c]))
    BY <2>3 DEF IInv, HandlersInv
  <2>5. QED
    BY <2>1, <2>4 DEF MessageOK, Divides
<1>2. DownloadInv => IInv
  BY DEF DownloadInv, IInv
<1>3. [][ResultStep]_vars => ResultIsComplete
  BY PTL DEF ResultStep, ResultIsComplete
<1>4. QED
  BY <1>1, <1>2, <1>3, DownloadsAreSound, PTL DEF Spec
------------------------------------------------------------------------------
(* What was under way all the time is found in the downloads the call has  *)
(* looked at or is yet to look at, and is left out of what it fetches.     *)
UnderWayOK(c) ==
  /\ pc[c] = "match" =>
       \A a \in underWay[c] :
         a \in local[c].progress \/ \E i \in local[c].todo : a \in i.assets
  /\ pc[c] \in {"run", "checked"} => local[c].rest \cap underWay[c] = {}
  /\ c \in starting => id[c].assets \cap underWay[c] = {}
UnderWayInv == \A c \in Calls : UnderWayOK(c)

(* A call in which nothing happens but that downloads end. *)
LEMMA UnderWayKept ==
  ASSUME NEW c \in Calls, UnderWayOK(c),
         pc'[c] = pc[c], id'[c] = id[c],
         local'[c].progress = local[c].progress, local'[c].todo = local[c].todo,
         local'[c].rest = local[c].rest,
         c \in starting' => c \in starting, underWay'[c] \subseteq underWay[c]
  PROVE  UnderWayOK(c)'
BY DEF UnderWayOK

(* A call that settles starts what it was about to start, if anything. *)
LEMMA UnderWaySettles ==
  ASSUME IInv, UnderWayInv, NEW c \in Calls, NEW how \in Settled, Settle(c, how),
         starting' \subseteq starting, UNCHANGED id
  PROVE  UnderWayInv'
<1>1. /\ pc' = [pc EXCEPT ![c] = how] /\ local' = [local EXCEPT ![c] = NoLocal]
      /\ underWay' = [underWay EXCEPT ![c] = IF c \in starting THEN @ ELSE {}]
  BY DEF Settle, Goto
<1>2. how \notin {"match", "run", "checked"}
  BY DEF Settled
<1>3. UnderWayOK(c)'
  BY <1>1, <1>2 DEF UnderWayInv, UnderWayOK, IInv, TypeOK
<1>4. ASSUME NEW d \in Calls \ {c} PROVE UnderWayOK(d)'
  BY <1>1, UnderWayKept DEF UnderWayInv, IInv, TypeOK
<1>5. QED
  BY <1>3, <1>4 DEF UnderWayInv

LEMMA UnderWayOfCall ==
  ASSUME IInv, UnderWayInv, NEW c \in Calls,
         CallStep(c) \/ Abort(c) \/ Start(c) \/ \E a \in Asks : Begin(c, a)
  PROVE  UnderWayInv'
<1> USE DEF IInv, TypeOK
<1>0. UnderWayOK(c) /\ (pc[c] \in Asking => c \notin starting)
  BY DEF UnderWayInv, CallsInv
<1>1. ASSUME /\ UNCHANGED id \/ \E i : id' = [id EXCEPT ![c] = i]
             /\ starting' \ {c} = starting \ {c}
             /\ \E s : pc' = [pc EXCEPT ![c] = s]
             /\ \E v : local' = [local EXCEPT ![c] = v]
             /\ \E w : underWay' = [underWay EXCEPT ![c] = w],
             UnderWayOK(c)'
      PROVE  UnderWayInv'
  <2>1. ASSUME NEW d \in Calls \ {c} PROVE UnderWayOK(d)'
    <3>1. UnderWayOK(d) /\ pc'[d] = pc[d] /\ local'[d] = local[d] /\ id'[d] = id[d]
          /\ (d \in starting' => d \in starting) /\ underWay'[d] = underWay[d]
      BY <1>1 DEF UnderWayInv
    <3>2. QED
      BY <3>1, UnderWayKept
  <2>2. QED
    BY <1>1, <2>1 DEF UnderWayInv
<1>2. CASE Questions(c)
  <2>1. /\ pc[c] = "questions" /\ pc' = [pc EXCEPT ![c] = "ids"]
        /\ \E v : local' = [local EXCEPT ![c] = v]
        /\ UNCHANGED <<id, starting, underWay>>
    BY <1>2 DEF Questions, At, Goto
  <2>2. UnderWayOK(c)'
    BY <1>0, <2>1 DEF UnderWayOK, Asking
  <2>3. underWay' = [underWay EXCEPT ![c] = underWay[c]]
    BY <2>1
  <2>4. QED
    BY <1>1, <2>1, <2>2, <2>3
<1>3. CASE GetIds(c)
  <2>1. /\ pc[c] = "ids" /\ pc' = [pc EXCEPT ![c] = "match"]
        /\ local' = [local EXCEPT ![c].ids = ActiveIds, ![c].todo = ActiveIds]
        /\ underWay' = [underWay EXCEPT ![c] = UNION {i.assets : i \in ActiveIds}]
        /\ UNCHANGED <<id, starting>>
    BY <1>3 DEF GetIds, At, Goto
  <2>2. /\ local'[c].todo = ActiveIds
        /\ underWay'[c] = UNION {i.assets : i \in ActiveIds} /\ pc'[c] = "match"
    BY <2>1 DEF LocalType
  <2>3. UnderWayOK(c)'
    BY <1>0, <2>1, <2>2 DEF UnderWayOK, Asking
  <2>4. \E v : local' = [local EXCEPT ![c] = v]
    BY <2>1
  <2>5. QED
    BY <1>1, <2>1, <2>3, <2>4
<1>4. ASSUME NEW i \in local[c].todo, Match(c, i) PROVE UnderWayInv'
  <2>1. /\ pc[c] = "match"
        /\ local' = [local EXCEPT ![c].todo = @ \ {i}, ![c].progress = @ \cup i.assets]
        /\ UNCHANGED <<pc, id, starting, underWay>>
    BY <1>4 DEF Match, At
  <2>2. /\ local'[c].todo = local[c].todo \ {i}
        /\ local'[c].progress = local[c].progress \cup i.assets
    BY <2>1 DEF LocalType
  <2>3. UnderWayOK(c)'
    BY <1>0, <2>1, <2>2 DEF UnderWayOK, Asking
  <2>4. /\ \E v : local' = [local EXCEPT ![c] = v]
        /\ pc' = [pc EXCEPT ![c] = pc[c]]
        /\ underWay' = [underWay EXCEPT ![c] = underWay[c]]
    BY <2>1
  <2>5. QED
    BY <1>1, <2>1, <2>3, <2>4
<1>5. ASSUME NEW i \in local[c].todo, MatchFails(c, i) PROVE UnderWayInv'
  <2>1. /\ pc[c] = "match" /\ local' = [local EXCEPT ![c].todo = @ \ {i}]
        /\ underWay' = [underWay EXCEPT ![c] = @ \ i.assets]
        /\ UNCHANGED <<pc, id, starting>>
    BY <1>5 DEF MatchFails, At
  <2>2. /\ local'[c].todo = local[c].todo \ {i} /\ local'[c].progress = local[c].progress
        /\ underWay'[c] = underWay[c] \ i.assets
    BY <2>1 DEF LocalType
  <2>3. UnderWayOK(c)'
    BY <1>0, <2>1, <2>2 DEF UnderWayOK, Asking
  <2>4. /\ \E v : local' = [local EXCEPT ![c] = v]
        /\ pc' = [pc EXCEPT ![c] = pc[c]]
    BY <2>1
  <2>5. QED
    BY <1>1, <2>1, <2>3, <2>4
<1>6. CASE List(c)
  <2>1. PICK listed \in ListAnswers(ask[c].folder) :
          /\ pc[c] = "match" /\ local[c].todo = {} /\ pc' = [pc EXCEPT ![c] = "run"]
          /\ local' = [local EXCEPT ![c].rest = Rest(c, listed)]
          /\ UNCHANGED <<id, starting, underWay>>
    BY <1>6 DEF List, At, Goto
  <2>2. local'[c].rest = (local[c].use \ local[c].progress) \ listed
    BY <2>1 DEF Rest, LocalType
  <2>3. UnderWayOK(c)'
    BY <1>0, <2>1, <2>2 DEF UnderWayOK, Asking
  <2>4. /\ \E v : local' = [local EXCEPT ![c] = v]
        /\ underWay' = [underWay EXCEPT ![c] = underWay[c]]
    BY <2>1
  <2>5. QED
    BY <1>1, <2>1, <2>3, <2>4
<1>7. CASE Run(c)
  <2>1. /\ pc[c] \in {"run", "checked"} /\ pc' = [pc EXCEPT ![c] = "waiting"]
        /\ id' = [id EXCEPT ![c] = OwnId(c)] /\ starting' \in {starting, starting \cup {c}}
        /\ \E v : local' = [local EXCEPT ![c] = v]
        /\ UNCHANGED underWay
    BY <1>7 DEF Run, Runs, At, Goto
  <2>2. id'[c].assets = local[c].rest /\ pc'[c] = "waiting"
    BY <2>1 DEF OwnId
  <2>3. UnderWayOK(c)'
    BY <1>0, <2>1, <2>2 DEF UnderWayOK
  <2>4. underWay' = [underWay EXCEPT ![c] = underWay[c]]
    BY <2>1
  <2>5. QED
    BY <1>1, <2>1, <2>3, <2>4
<1>8. CASE Check(c)
  <2>1. /\ pc[c] = "run" /\ pc' = [pc EXCEPT ![c] = "checked"]
        /\ local' = [local EXCEPT ![c].attach = StillActive(c)]
        /\ UNCHANGED <<id, starting, underWay>>
    BY <1>8 DEF Check, At, Goto
  <2>2. local'[c].rest = local[c].rest /\ pc'[c] = "checked"
    BY <2>1 DEF LocalType
  <2>3. UnderWayOK(c)'
    BY <1>0, <2>1, <2>2 DEF UnderWayOK, Asking
  <2>4. /\ \E v : local' = [local EXCEPT ![c] = v]
        /\ underWay' = [underWay EXCEPT ![c] = underWay[c]]
    BY <2>1
  <2>5. QED
    BY <1>1, <2>1, <2>3, <2>4
<1>9. CASE Start(c)
  <2>1. /\ starting' = starting \ {c} /\ underWay' = [underWay EXCEPT ![c] = {}]
        /\ UNCHANGED <<pc, id, local>>
    BY <1>9 DEF Start
  <2>2. UnderWayOK(c)'
    BY <1>0, <2>1 DEF UnderWayOK
  <2>3. local' = [local EXCEPT ![c] = local[c]] /\ pc' = [pc EXCEPT ![c] = pc[c]]
    BY <2>1
  <2>4. QED
    BY <1>1, <2>1, <2>2, <2>3
<1>10. ASSUME NEW a \in Asks, Begin(c, a) PROVE UnderWayInv'
  <2>1. /\ pc[c] = "idle" /\ pc' = [pc EXCEPT ![c] = "questions"]
        /\ UNCHANGED <<id, local, starting, underWay>>
    BY <1>10 DEF Begin, At, Goto
  <2>2. UnderWayOK(c)'
    BY <1>0, <2>1 DEF UnderWayOK
  <2>3. local' = [local EXCEPT ![c] = local[c]] /\ underWay' = [underWay EXCEPT ![c] = underWay[c]]
    BY <2>1
  <2>4. QED
    BY <1>1, <2>1, <2>2, <2>3
<1>11. CASE SettleStep(c) \/ Receive(c)
  <2>1. starting' \subseteq starting /\ UNCHANGED id
    BY <1>11 DEF SettleStep, Receive, FilteredOut, FoldersFail, IdsFail, NothingToFetch,
                 RunFails, RunAborted, StartFails, Abort
  <2>2. CASE \E how \in Settled : Settle(c, how)
    BY <2>1, <2>2, UnderWaySettles
  <2>3. CASE ~\E how \in Settled : Settle(c, how)
    <3>1. /\ UNCHANGED <<pc, underWay>>
          /\ \A d \in Calls : /\ local'[d].progress = local[d].progress
                              /\ local'[d].todo = local[d].todo
                              /\ local'[d].rest = local[d].rest
      <4>1. CASE Receive(c)
        <5>1. Head(mail[c]) \in MessageType
          BY <4>1, HeadTailProperties DEF Receive
        <5>2. /\ UNCHANGED <<pc, underWay>>
              /\ \E v : local' = [local EXCEPT ![c].missed = v]
          BY <2>3, <4>1, <5>1 DEF Receive, Settled, MessageType, Ended
        <5>3. QED
          BY <5>2 DEF LocalType
      <4>2. CASE SettleStep(c)
        BY <2>3, <4>2
           DEF SettleStep, FilteredOut, FoldersFail, IdsFail, NothingToFetch, RunFails,
               RunAborted, StartFails, Abort, settleVars, Settled
      <4>3. QED
        BY <1>11, <4>1, <4>2
    <3>2. \A d \in Calls : UnderWayOK(d)'
      BY <2>1, <3>1, UnderWayKept DEF UnderWayInv
    <3>3. QED
      BY <3>2 DEF UnderWayInv
  <2>4. QED
    BY <2>2, <2>3
<1>12. QED
  BY <1>2, <1>3, <1>4, <1>5, <1>6, <1>7, <1>8, <1>9, <1>10, <1>11 DEF CallStep, SettleStep

LEMMA UnderWayNext ==
  ASSUME IInv, UnderWayInv, [Next]_allVars
  PROVE  UnderWayInv'
<1>1. CASE UNCHANGED vars
  BY <1>1 DEF vars, UnderWayInv, UnderWayOK
<1>2. CASE Outside
  <2>1. UNCHANGED <<pc, id, local, starting>>
    BY <1>2, WorkerKeepsGoal DEF Outside, WorkerGoal
  <2>2. \A c \in Calls : underWay'[c] \subseteq underWay[c]
    BY <1>2 DEF Outside
  <2>3. QED
    BY <2>1, <2>2, UnderWayKept DEF UnderWayInv
<1>3. ASSUME NEW c \in Calls, CallStep(c) \/ Abort(c) \/ Start(c) \/ \E a \in Asks : Begin(c, a)
      PROVE  UnderWayInv'
  BY <1>3, UnderWayOfCall
<1>4. CASE Reset
  BY <1>1, <1>3, <1>4 DEF Reset, inFlight
<1>5. QED
  BY <1>1, <1>2, <1>3, <1>4 DEF Next, Step, StartDownload, Unmount, allVars

(* NoDoubleDownload: no download is started of what was downloading all    *)
(* the time since the call asked the browser.                              *)
THEOREM NothingTwice == Spec => []NoDoubleDownload
<1>1. Init => UnderWayInv
  BY DEF Init, CallsInit, UnderWayInv, UnderWayOK
<1>2. IInv /\ UnderWayInv /\ [Next]_allVars => UnderWayInv'
  BY UnderWayNext
<1>3. DownloadInv => IInv
  BY DEF DownloadInv, IInv
<1>4. IInv /\ UnderWayInv => NoDoubleDownload
  BY DEF IInv, TypeOK, UnderWayInv, UnderWayOK, NoDoubleDownload
<1>5. QED
  BY <1>1, <1>2, <1>3, <1>4, DownloadsAreSound, PTL DEF Spec
------------------------------------------------------------------------------
(* What is told is in the store: what a handler has counted, and what the  *)
(* messages on their way say.                                              *)

(* A message that arrives or is forgotten adds none to the mail. *)
NoNewMail ==
  \A c \in Calls : \A i \in 1..Len(mail'[c]) :
    \E j \in 1..Len(mail[c]) : mail'[c][i] = mail[c][j]

LEMMA MailShrinks ==
  ASSUME TypeOK,
         \A c \in Calls : mail'[c] \in {mail[c], <<>>} \/ (mail[c] # <<>> /\ mail'[c] = Tail(mail[c]))
  PROVE  NoNewMail
<1> SUFFICES ASSUME NEW c \in Calls, NEW i \in 1..Len(mail'[c])
             PROVE  \E j \in 1..Len(mail[c]) : mail'[c][i] = mail[c][j]
  BY DEF NoNewMail
<1>1. mail[c] \in Seq(MessageType)
  BY DEF TypeOK
<1>2. CASE mail'[c] = mail[c]
  BY <1>2
<1>3. CASE mail'[c] = <<>>
  BY <1>3
<1>4. CASE mail[c] # <<>> /\ mail'[c] = Tail(mail[c])
  <2>1. /\ Len(mail'[c]) = Len(mail[c]) - 1 /\ mail'[c][i] = mail[c][i + 1]
        /\ Len(mail[c]) \in Nat
    BY <1>1, <1>4, HeadTailProperties
  <2>2. i + 1 \in 1..Len(mail[c])
    BY <2>1
  <2>3. QED
    BY <2>1, <2>2
<1>5. QED
  BY <1>2, <1>3, <1>4

(* A message that is told is the only new one. *)
LEMMA TellAdds ==
  ASSUME TypeOK, NEW m, Tell(m), NEW c \in Calls, NEW i \in 1..Len(mail'[c]),
         mail'[c][i] # m
  PROVE  \E j \in 1..Len(mail[c]) : mail'[c][i] = mail[c][j]
<1>1. mail[c] \in Seq(MessageType) /\ mail'[c] \in {mail[c], Append(mail[c], m)}
  BY DEF TypeOK, Tell
<1>2. CASE mail'[c] = Append(mail[c], m)
  <2>1. /\ Len(mail[c]) \in Nat /\ i \in 1..Len(mail[c]) + 1
        /\ mail'[c][Len(mail[c]) + 1] = m
        /\ \A j \in 1..Len(mail[c]) : mail'[c][j] = mail[c][j]
    BY <1>1, <1>2
  <2>2. QED
    BY <2>1
<1>3. QED
  BY <1>1, <1>2

(* A step that takes no whole file away without it being doubtful, counts  *)
(* what is whole or doubtful, and sends on what a handler has counted,     *)
(* keeps what is told true.                                                *)
LEMMA ToldKept ==
  ASSUME ToldIsStored,
         doubtful \subseteq doubtful',
         \A a \in Assets \ doubtful' :
           store[a] # None /\ store[a].whole => store'[a] # None /\ store'[a].whole,
         \A h \in Handlers : handler'[h].written \subseteq Assets
                           /\ handler[h].written \subseteq Assets,
         \A h \in Handlers : \A a \in handler'[h].written \ doubtful' :
           a \in handler[h].written \/ (store'[a] # None /\ store'[a].whole),
         TypeOK, TypeOK',
         \A c \in Calls : \A i \in 1..Len(mail'[c]) :
           \/ \E j \in 1..Len(mail[c]) : mail'[c][i] = mail[c][j]
           \/ mail'[c][i].written = {}
           \/ \E h \in Handlers : mail'[c][i].written = handler[h].written
  PROVE  ToldIsStored'
<1>1. ASSUME NEW T \in SUBSET Assets, IsStored(T)
      PROVE  \A a \in T \ doubtful' : store'[a] # None /\ store'[a].whole
  BY <1>1 DEF IsStored
<1>2. \A h \in Handlers : IsStored(handler[h].written)'
  BY <1>1 DEF ToldIsStored, IsStored
<1>3. ASSUME NEW c \in Calls, NEW i \in 1..Len(mail'[c])
      PROVE  IsStored(mail[c][i].written)'
  <2>1. CASE \E j \in 1..Len(mail[c]) : mail'[c][i] = mail[c][j]
    <3>1. PICK j \in 1..Len(mail[c]) : mail'[c][i] = mail[c][j]
      BY <2>1
    <3>2. mail[c][j] \in MessageType /\ IsStored(mail[c][j].written)
      BY DEF ToldIsStored, TypeOK
    <3>3. mail[c][j].written \in SUBSET Assets
      BY <3>2 DEF MessageType
    <3>4. QED
      BY <1>1, <3>1, <3>2, <3>3 DEF IsStored
  <2>2. CASE mail'[c][i].written = {}
    BY <2>2 DEF IsStored
  <2>3. CASE \E h \in Handlers : mail'[c][i].written = handler[h].written
    BY <1>1, <2>3 DEF ToldIsStored, IsStored
  <2>4. QED
    BY <1>3, <2>1, <2>2, <2>3
<1>4. QED
  BY <1>2, <1>3 DEF ToldIsStored

(* The files and the handlers stay, and the mail gets no longer. *)
LEMMA StoreStays ==
  ASSUME ToldIsStored, TypeOK, TypeOK', UNCHANGED <<store, handler, doubtful>>, NoNewMail
  PROVE  ToldIsStored'
<1>1. \A h \in Handlers : handler[h].written \subseteq Assets
  BY DEF TypeOK, HandlerType
<1>2. QED
  BY <1>1, ToldKept DEF NoNewMail

(* The steps of a handler that tell nobody. *)
LEMMA ToldOfHandler ==
  ASSUME ToldIsStored, TypeOK, TypeOK', NEW p \in Handlers, NEW h \in HandlerType,
         handler' = [handler EXCEPT ![p] = h], UNCHANGED mail,
         doubtful \subseteq doubtful',
         \A a \in Assets \ doubtful' :
           store[a] # None /\ store[a].whole => store'[a] # None /\ store'[a].whole,
         \A a \in h.written \ doubtful' :
           a \in handler[p].written \/ (store'[a] # None /\ store'[a].whole)
  PROVE  ToldIsStored'
<1>1. handler'[p] = h /\ \A q \in Handlers \ {p} : handler'[q] = handler[q]
  BY DEF TypeOK
<1>2. \A q \in Handlers : handler'[q].written \subseteq Assets
                       /\ handler[q].written \subseteq Assets
  BY DEF TypeOK, HandlerType
<1>3. \A q \in Handlers : \A a \in handler'[q].written \ doubtful' :
        a \in handler[q].written \/ (store'[a] # None /\ store'[a].whole)
  BY <1>1
<1>4. QED
  BY <1>2, <1>3, ToldKept

(* The steps that leave the store and the mail alone, and count nothing. *)
LEMMA StoreOfQuiet ==
  ASSUME IInv, TypeOK', ToldIsStored, NEW d \in Calls, NEW f \in Handled,
         \/ Success(d, f) \/ SuccessFails(d, f) \/ NoRoom(d, f)
         \/ \E a \in Assets : Skip(d, f, a) \/ RecordFails(d, f, a) \/ NoFile(d, f, a)
  PROVE  ToldIsStored'
<1> DEFINE p == <<d, f>>
           g == handler[p]
<1>1. p \in Handlers /\ g \in HandlerType /\ TypeOK
  BY DEF IInv, TypeOK, Handlers
<1>2. UNCHANGED <<store, mail, doubtful>>
  BY DEF Success, SuccessFails, NoRoom, NotWritten, Skip, RecordFails, NoFile
<1>3. \E h : handler' = [handler EXCEPT ![p] = h] /\ h.written \in {g.written, {}}
  <2>1. CASE Success(d, f)
    <3>1. [NoHandler EXCEPT !.at = "running", !.todo = id[d].assets].written = {}
      BY DEF NoHandler
    <3>2. QED
      BY <2>1, <3>1 DEF Success
  <2>2. CASE SuccessFails(d, f)
    <3>1. [g EXCEPT !.at = "thrown"].written = g.written
      BY <1>1 DEF HandlerType
    <3>2. QED
      BY <2>2, <3>1 DEF SuccessFails
  <2>3. CASE NoRoom(d, f)
    <3> DEFINE b == g.writing
    <3>1. [g EXCEPT !.todo = @ \ {b}, !.writing = None, !.opened = FALSE,
                    !.skipped = @ \cup {b}].written = g.written
      BY <1>1 DEF HandlerType
    <3>2. QED
      BY <2>3, <3>1 DEF NoRoom, NotWritten
  <2>4. ASSUME NEW a \in Assets, Skip(d, f, a) \/ RecordFails(d, f, a) \/ NoFile(d, f, a)
        PROVE  \E h : handler' = [handler EXCEPT ![p] = h] /\ h.written \in {g.written, {}}
    <3>1. CASE Skip(d, f, a)
      <4>1. [g EXCEPT !.todo = @ \ {a}, !.skipped = @ \cup {a}].written = g.written
        BY <1>1 DEF HandlerType
      <4>2. QED
        BY <3>1, <4>1 DEF Skip
    <3>2. CASE RecordFails(d, f, a)
      <4>1. [NoHandler EXCEPT !.at = "thrown"].written = {}
        BY DEF NoHandler
      <4>2. QED
        BY <3>2, <4>1 DEF RecordFails
    <3>3. CASE NoFile(d, f, a)
      <4>1. [g EXCEPT !.writing = a].written = g.written
        BY <1>1 DEF HandlerType
      <4>2. QED
        BY <3>3, <4>1 DEF NoFile
    <3>4. QED
      BY <2>4, <3>1, <3>2, <3>3
  <2>5. QED
    BY <2>1, <2>2, <2>3, <2>4
<1>4. PICK h : handler' = [handler EXCEPT ![p] = h] /\ h.written \in {g.written, {}}
  BY <1>3
<1>5. handler'[p] = h /\ h \in HandlerType
  BY <1>1, <1>4 DEF TypeOK
<1> HIDE DEF p
<1>6. QED
  BY <1>1, <1>2, <1>4, <1>5, ToldOfHandler

(* A record is found in the store. *)
LEMMA StoreOfExists ==
  ASSUME IInv, TypeOK', ToldIsStored, NEW d \in Calls, NEW f \in Handled, NEW a \in Assets,
         Exists(d, f, a)
  PROVE  ToldIsStored'
<1> DEFINE p == <<d, f>>
           h == [handler[p] EXCEPT !.todo = @ \ {a}, !.writing = None, !.opened = FALSE,
                                   !.written = @ \cup {a}]
<1>1. p \in Handlers /\ handler[p] \in HandlerType /\ TypeOK
  BY DEF IInv, TypeOK, Handlers
<1>2. /\ handler' = [handler EXCEPT ![p] = h] /\ UNCHANGED <<store, mail>>
      /\ store[a] # None /\ (store[a].whole \/ a \in doubtful') /\ doubtful \subseteq doubtful'
  BY DEF Exists, Count
<1>3. h \in HandlerType /\ h.written = handler[p].written \cup {a}
  BY <1>1, NoneIsNone DEF HandlerType
<1> HIDE DEF h, p
<1>4. QED
  BY <1>1, <1>2, <1>3, ToldOfHandler

(* A file is opened: what is there stays what it is. *)
LEMMA StoreOfCreate ==
  ASSUME IInv, TypeOK', ToldIsStored, NEW d \in Calls, NEW f \in Handled, Create(d, f)
  PROVE  ToldIsStored'
<1> DEFINE p == <<d, f>>
           a == handler[p].writing
           h == [handler[p] EXCEPT !.opened = TRUE]
<1>1. p \in Handlers /\ handler[p] \in HandlerType /\ TypeOK
  BY DEF IInv, TypeOK, Handlers
<1>2. /\ handler' = [handler EXCEPT ![p] = h] /\ UNCHANGED <<mail, doubtful>>
      /\ store' = [store EXCEPT ![a] = IF @ = None THEN [folder |-> f, whole |-> FALSE] ELSE @]
  BY DEF Create
<1>3. h \in HandlerType /\ h.written = handler[p].written
  BY <1>1 DEF HandlerType
<1>4. \A b \in Assets : store[b] # None => store'[b] = store[b]
  BY <1>1, <1>2 DEF TypeOK
<1> HIDE DEF h, p
<1>5. QED
  BY <1>1, <1>2, <1>3, <1>4, ToldOfHandler

(* The write is over: the file is whole, or it has failed, and then a file *)
(* that was whole is only taken away as a doubtful one.                    *)
LEMMA StoreOfWritten ==
  ASSUME IInv, TypeOK', ToldIsStored, NEW d \in Calls, NEW f \in Handled, Written(d, f)
  PROVE  ToldIsStored'
<1> DEFINE p == <<d, f>>
           a == handler[p].writing
           h == [handler[p] EXCEPT !.todo = @ \ {a}, !.writing = None, !.opened = FALSE,
                                   !.written = @ \cup {a}]
<1>1. /\ p \in Handlers /\ handler[p] \in HandlerType /\ TypeOK
      /\ a \in Assets
  BY DEF IInv, TypeOK, Handlers, HandlersInv, HandlerOK, HandlerType, Written, Opened, Running
<1>2. /\ handler' = [handler EXCEPT ![p] = h] /\ UNCHANGED <<mail, doubtful>>
      /\ store' = [store EXCEPT ![a] = [folder |-> f, whole |-> TRUE]]
  BY DEF Written, Count
<1>3. h \in HandlerType /\ h.written = handler[p].written \cup {a}
  BY <1>1, NoneIsNone DEF HandlerType
<1>4. store'[a] # None /\ store'[a].whole /\ \A b \in Assets \ {a} : store'[b] = store[b]
  <2>1. store'[a] = [folder |-> f, whole |-> TRUE] /\ f \in Folders
    BY <1>1, <1>2, FetchAssumption DEF TypeOK
  <2>2. [folder |-> f, whole |-> TRUE] \in FileType
    BY <2>1 DEF FileType
  <2>3. QED
    BY <1>1, <1>2, <2>1, <2>2, NoneIsNone DEF TypeOK
<1> HIDE DEF h, p
<1>5. QED
  BY <1>1, <1>2, <1>3, <1>4, ToldOfHandler

LEMMA StoreOfFailed ==
  ASSUME IInv, TypeOK', ToldIsStored, NEW d \in Calls, NEW f \in Handled, WriteFails(d, f)
  PROVE  ToldIsStored'
<1> DEFINE p == <<d, f>>
           a == handler[p].writing
           h == [handler[p] EXCEPT !.todo = @ \ {a}, !.writing = None, !.opened = FALSE,
                                   !.skipped = @ \cup {a}]
<1>1. p \in Handlers /\ handler[p] \in HandlerType /\ TypeOK
  BY DEF IInv, TypeOK, Handlers
<1>2. handler' = [handler EXCEPT ![p] = h] /\ UNCHANGED mail
  BY DEF WriteFails, NotWritten
<1>3. h.written = handler[p].written
  BY <1>1 DEF HandlerType
<1>4. h \in HandlerType
  <2>1. handler'[p] = h
    BY <1>1, <1>2 DEF TypeOK
  <2>2. QED
    BY <1>1, <2>1 DEF TypeOK
<1>5. /\ doubtful \subseteq doubtful'
      /\ \A b \in Assets \ doubtful' :
           store[b] # None /\ store[b].whole => store'[b] = store[b]
  BY <1>1 DEF WriteFails, TypeOK
<1> HIDE DEF h, p
<1>6. QED
  BY <1>1, <1>2, <1>3, <1>4, <1>5, ToldOfHandler

(* The two steps that tell the pages: of nothing written, or of what the   *)
(* handler has counted.                                                    *)
LEMMA StoreOfTold ==
  ASSUME IInv, TypeOK', ToldIsStored, NEW d \in Calls, NEW f \in Handled,
         ToldEnd(d, f) \/ Completed(d, f)
  PROVE  ToldIsStored'
<1> DEFINE p == <<d, f>>
<1>1. p \in Handlers /\ TypeOK
  BY DEF IInv, Handlers
<1>2. PICK m : /\ Tell(m)
               /\ m.written = {} \/ m.written = handler[p].written
  BY DEF ToldEnd, Completed, EndMessage, NoHandler
<1>3. /\ UNCHANGED <<store, doubtful>>
      /\ \A q \in Handlers \ {p} : handler'[q] = handler[q]
      /\ handler'[p].written \in {handler[p].written, {}}
  <2>1. \E h : /\ handler' = [handler EXCEPT ![p] = h]
               /\ h.written \in {handler[p].written, {}}
    <3>1. CASE ToldEnd(d, f)
      <4> DEFINE h == [handler[p] EXCEPT !.at = "over"]
      <4>1. handler' = [handler EXCEPT ![p] = h]
        BY <3>1 DEF ToldEnd
      <4>2. h.written = handler[p].written
        BY <1>1 DEF TypeOK, HandlerType
      <4>3. QED
        BY <4>1, <4>2
    <3>2. CASE Completed(d, f)
      <4> DEFINE h == [NoHandler EXCEPT !.at = "over"]
      <4>1. handler' = [handler EXCEPT ![p] = h]
        BY <3>2 DEF Completed
      <4>2. h.written = {}
        BY DEF NoHandler
      <4>3. QED
        BY <4>1, <4>2
    <3>3. QED
      BY <3>1, <3>2
  <2>2. UNCHANGED <<store, doubtful>>
    BY DEF ToldEnd, Completed
  <2> HIDE DEF p
  <2>3. QED
    BY <1>1, <2>1, <2>2 DEF TypeOK
<1> HIDE DEF p
<1>4. \A q \in Handlers : /\ handler'[q].written \in {handler[q].written, {}}
                          /\ handler[q].written \subseteq Assets
  BY <1>1, <1>3 DEF TypeOK, HandlerType
<1>5. \A c \in Calls : \A i \in 1..Len(mail'[c]) :
        \/ \E j \in 1..Len(mail[c]) : mail'[c][i] = mail[c][j]
        \/ mail'[c][i].written = {}
        \/ \E h \in Handlers : mail'[c][i].written = handler[h].written
  BY <1>1, <1>2, TellAdds
<1>6. QED
  BY <1>1, <1>3, <1>4, <1>5, ToldKept

LEMMA StoreOfOthers ==
  ASSUME IInv, TypeOK', ToldIsStored, Restart \/ \E a \in Assets : Remove(a)
  PROVE  ToldIsStored'
<1>1. TypeOK /\ UNCHANGED mail
  BY DEF IInv, Restart, Remove
<1>2. \A h \in Handlers : handler[h].written \subseteq Assets
  BY <1>1 DEF TypeOK, HandlerType
<1>3. CASE Restart
  <2>1. /\ UNCHANGED <<store, doubtful>>
        /\ \A h \in Handlers : handler'[h].written \in {handler[h].written, {}}
    BY <1>3 DEF Restart, NoHandler
  <2>2. QED
    BY <1>1, <1>2, <2>1, ToldKept
<1>4. ASSUME NEW a \in Assets, Remove(a) PROVE ToldIsStored'
  <2>1. /\ store' = [store EXCEPT ![a] = None]
        /\ doubtful' = doubtful \cup {a} /\ UNCHANGED handler
    BY <1>4 DEF Remove
  <2>2. \A b \in Assets \ {a} : store'[b] = store[b]
    BY <1>1, <2>1 DEF TypeOK
  <2>3. QED
    BY <1>1, <1>2, <2>1, <2>2, ToldKept
<1>5. QED
  BY <1>3, <1>4

LEMMA StoreNext ==
  ASSUME IInv, ToldIsStored, [Next]_allVars
  PROVE  ToldIsStored'
<1>1. IInv' /\ TypeOK /\ TypeOK'
  BY NextInv DEF IInv
<1>2. CASE UNCHANGED vars
  BY <1>2 DEF vars, siteVars, ToldIsStored, IsStored
<1>3. CASE Outside
  <2>1. ASSUME NEW d \in Calls, NEW how \in Ended, End(d, how) PROVE ToldIsStored'
    <3>1. UNCHANGED <<store, handler, doubtful, mail>>
      BY <2>1 DEF End
    <3>2. QED
      BY <3>1 DEF ToldIsStored, IsStored
  <2>2. ASSUME NEW d \in Calls, NEW f \in Handled, PluginStep(d, f) PROVE ToldIsStored'
    BY <1>1, <2>2, StoreOfQuiet, StoreOfExists, StoreOfCreate, StoreOfWritten,
       StoreOfFailed, StoreOfTold
       DEF PluginStep
  <2>3. QED
    BY <1>1, <1>3, <2>1, <2>2, StoreOfOthers DEF Outside, WorkerNext
<1>4. ASSUME NEW c \in Calls, CallStep(c) \/ Abort(c) \/ Start(c) \/ \E a \in Asks : Begin(c, a)
      PROVE  ToldIsStored'
  <2>1. UNCHANGED <<store, handler, doubtful>>
    BY <1>4 DEF CallStep, Abort, Start, Begin, Questions, FilteredOut, FoldersFail, GetIds,
                IdsFail, NothingToFetch, List, Check, RunFails, RunAborted, Run, StartFails,
                Receive, Match, MatchFails, siteVars
  <2>2. \A d \in Calls : mail'[d] \in {mail[d], <<>>}
                           \/ (mail[d] # <<>> /\ mail'[d] = Tail(mail[d]))
    <3>1. \/ UNCHANGED mail
          \/ mail' = [mail EXCEPT ![c] = <<>>]
          \/ mail[c] # <<>> /\ mail' = [mail EXCEPT ![c] = Tail(@)]
      BY <1>4
         DEF CallStep, Abort, Start, Begin, Questions, FilteredOut, FoldersFail, GetIds,
             IdsFail, NothingToFetch, List, Check, RunFails, RunAborted, Run, StartFails,
             Receive, Match, MatchFails, Settle, settleVars
    <3>2. QED
      BY <1>1, <3>1 DEF TypeOK
  <2>3. QED
    BY <1>1, <2>1, <2>2, MailShrinks, StoreStays
<1>5. CASE Reset
  BY <1>2, <1>4, <1>5 DEF Reset, inFlight
<1>6. QED
  BY <1>2, <1>3, <1>4, <1>5 DEF Next, Step, StartDownload, Unmount, allVars

(* ToldIsStored: what the pages are told is written is whole in the store, *)
(* unless it was removed since, or was counted while another writer had it *)
(* or had left it unfinished.                                              *)
THEOREM ToldIsThere == Spec => []ToldIsStored
<1>1. Init => ToldIsStored
  <2> SUFFICES ASSUME Init PROVE ToldIsStored
    OBVIOUS
  <2>1. \A h \in Handlers : handler[h].written = {}
    BY DEF Init, WorkerInit, NoHandler
  <2>2. \A c \in Calls : mail[c] = <<>>
    BY DEF Init, WorkerInit
  <2>3. QED
    BY <2>1, <2>2 DEF ToldIsStored, IsStored
<1>2. IInv /\ ToldIsStored /\ [Next]_allVars => ToldIsStored'
  BY StoreNext
<1>3. DownloadInv => IInv
  BY DEF DownloadInv, IInv
<1>4. QED
  BY <1>1, <1>2, <1>3, DownloadsAreSound, PTL DEF Spec
==============================================================================
