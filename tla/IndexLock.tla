------------------------------ MODULE IndexLock ------------------------------
(***************************************************************************)
(* runWithLock (opfsEvictionIndex.ts): the in-memory lock around the       *)
(* eviction index, built from a chain of promises.                         *)
(*                                                                         *)
(* Each call makes one promise, which is named here by the call that makes *)
(* it.  The module variable indexLock is the promise of the latest call,   *)
(* `prev` is the local of that name in each call, and a promise is in      *)
(* `resolved` once the `finally` of its call has run.  A call waits for    *)
(* the promise it found in indexLock, runs its function, and resolves its  *)
(* own promise whether the function returned or threw.                     *)
(*                                                                         *)
(* `line` is an auxiliary variable: no variable of the code holds it.  It  *)
(* records the order of the calls for the refinement of FifoMutex.         *)
(***************************************************************************)
EXTENDS Naturals, Sequences

CONSTANTS Calls,          \* the calls of runWithLock, each made at most once
          Start           \* Promise.resolve(), the first value of indexLock

ASSUME StartAssumption == Start \notin Calls

VARIABLES indexLock, prev, resolved, pc, line

vars == <<indexLock, prev, resolved, pc, line>>

Promises == Calls \cup {Start}

Init == /\ indexLock = Start
        /\ prev = [c \in Calls |-> Start]
        /\ resolved = {Start}
        /\ pc = [c \in Calls |-> "uncalled"]
        /\ line = <<>>

(* Mutant of Call: the new promise is not installed in indexLock. *)
CallUnchained(c) ==
  /\ pc[c] = "uncalled"
  /\ prev' = [prev EXCEPT ![c] = indexLock]
  /\ pc' = [pc EXCEPT ![c] = "waiting"]
  /\ line' = Append(line, c)
  /\ UNCHANGED <<indexLock, resolved>>

(* The synchronous part of runWithLock: read indexLock, install the new    *)
(* promise, and start to await the old one.                                *)
Call(c) ==
  /\ pc[c] = "uncalled"
  /\ prev' = [prev EXCEPT ![c] = indexLock]
  /\ indexLock' = c
  /\ pc' = [pc EXCEPT ![c] = "waiting"]
  /\ line' = Append(line, c)
  /\ UNCHANGED resolved

(* Mutant of Resume: the function runs without the await of prev. *)
ResumeAtOnce(c) ==
  /\ pc[c] = "waiting"
  /\ pc' = [pc EXCEPT ![c] = "running"]
  /\ UNCHANGED <<indexLock, prev, resolved, line>>

(* `await prev` is over and fn is called. *)
Resume(c) ==
  /\ pc[c] = "waiting"
  /\ prev[c] \in resolved
  /\ pc' = [pc EXCEPT ![c] = "running"]
  /\ UNCHANGED <<indexLock, prev, resolved, line>>

(* The `finally` block. *)
Resolve(c) == /\ resolved' = resolved \cup {c}
              /\ line' = Tail(line)

(* fn fulfils, and runWithLock with it. *)
Return(c) == /\ pc[c] = "running"
             /\ pc' = [pc EXCEPT ![c] = "returned"]
             /\ Resolve(c)
             /\ UNCHANGED <<indexLock, prev>>

(* Mutant of Throw: resolve is called after fn and not in a `finally`. *)
ThrowUnresolved(c) == /\ pc[c] = "running"
                      /\ pc' = [pc EXCEPT ![c] = "thrown"]
                      /\ line' = Tail(line)
                      /\ UNCHANGED <<indexLock, prev, resolved>>

(* fn rejects, and runWithLock with it. *)
Throw(c) == /\ pc[c] = "running"
            /\ pc' = [pc EXCEPT ![c] = "thrown"]
            /\ Resolve(c)
            /\ UNCHANGED <<indexLock, prev>>

Step(c) == Resume(c) \/ Return(c) \/ Throw(c)

Next == \E c \in Calls : Call(c) \/ Step(c)

(* A reaction of a resolved promise always runs, and every function given  *)
(* to runWithLock settles: it awaits file system calls and nothing else.   *)
Fairness == \A c \in Calls : WF_vars(Step(c))

Spec == Init /\ [][Next]_vars /\ Fairness
------------------------------------------------------------------------------
Ended == {"returned", "thrown"}
InLine == {"waiting", "running"}

TypeOK == /\ indexLock \in Promises
          /\ prev \in [Calls -> Promises]
          /\ resolved \subseteq Promises
          /\ pc \in [Calls -> {"uncalled"} \cup InLine \cup Ended]
          /\ line \in Seq(Calls)

(* The promises resolved are Start and those of the calls that ended. *)
ResolvedInv == resolved = {Start} \cup {c \in Calls : pc[c] \in Ended}

(* The line holds each call that waits or runs, once. *)
LineInv ==
  /\ \A i \in 1..Len(line) : pc[line[i]] \in InLine
  /\ \A c \in Calls : pc[c] \in InLine => \E i \in 1..Len(line) : line[i] = c
  /\ \A i, j \in 1..Len(line) : line[i] = line[j] => i = j

(* Each call in line waits for the one before it, the first for a promise  *)
(* that is resolved, and the next call will wait for the last.             *)
ChainInv ==
  /\ \A i \in 2..Len(line) : prev[line[i]] = line[i - 1]
  /\ line # <<>> => prev[line[1]] \in resolved /\ indexLock = line[Len(line)]
  /\ line = <<>> => indexLock \in resolved
  /\ \A c \in Calls : pc[c] = "running" => prev[c] \in resolved

(* The inductive invariant of the lock. *)
LockInv == TypeOK /\ ResolvedInv /\ LineInv /\ ChainInv

(* Two functions passed to runWithLock never run at the same time, so no   *)
(* two of populate, register, remove and touch interleave on the index.    *)
MutualExclusion ==
  \A c, d \in Calls : pc[c] = "running" /\ pc[d] = "running" => c = d

(* The chain of promises is a first-in first-out lock: every behaviour of  *)
(* runWithLock is one of FifoMutex, whose line moves by its head alone.    *)
inside == \E c \in Calls : pc[c] = "running"
made == {c \in Calls : pc[c] # "uncalled"}
Mutex == INSTANCE FifoMutex
FifoOrder == Mutex!Spec

(* A call of runWithLock comes back whatever the functions before it did:  *)
(* one that throws does not leave the ones behind it waiting for ever.     *)
EveryCallReturns ==
  \A c \in Calls : pc[c] = "waiting" ~> pc[c] \in Ended
==============================================================================
