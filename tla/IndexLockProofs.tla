--------------------------- MODULE IndexLockProofs ---------------------------
(***************************************************************************)
(* Proofs about runWithLock for any set of calls: the chain of promises    *)
(* excludes, and serves its callers in the order in which they came.       *)
(***************************************************************************)
EXTENDS IndexLock, TLAPS

(* A call in line whose promise is resolved is the first of the line: the  *)
(* calls behind it wait for promises of calls that have not ended.         *)
LEMMA ServedIsHead ==
  ASSUME LockInv, NEW c \in Calls, pc[c] \in InLine, prev[c] \in resolved
  PROVE  line # <<>> /\ line[1] = c /\ Head(line) = c
<1>1. PICK i \in 1..Len(line) : line[i] = c
  BY DEF LockInv, LineInv
<1>2. i = 1
  <2> SUFFICES ASSUME i # 1 PROVE FALSE
    OBVIOUS
  <2>1. i \in 2..Len(line) /\ i - 1 \in 1..Len(line)
    BY DEF LockInv, TypeOK
  <2>2. prev[c] = line[i - 1]
    BY <1>1, <2>1 DEF LockInv, ChainInv
  <2>3. pc[line[i - 1]] \in InLine /\ line[i - 1] \in Calls
    BY <2>1 DEF LockInv, LineInv, TypeOK
  <2>4. QED
    BY <2>2, <2>3, StartAssumption DEF LockInv, ResolvedInv, InLine, Ended
<1>3. QED
  BY <1>1, <1>2 DEF LockInv, TypeOK

LEMMA RunningIsHead ==
  ASSUME LockInv, NEW c \in Calls, pc[c] = "running"
  PROVE  line # <<>> /\ line[1] = c /\ Head(line) = c
BY ServedIsHead DEF LockInv, ChainInv, InLine

LEMMA InitLockInv == Init => LockInv
BY DEF Init, LockInv, TypeOK, ResolvedInv, LineInv, ChainInv, Promises, InLine, Ended

LEMMA CallLockInv ==
  ASSUME LockInv, NEW c \in Calls, Call(c)
  PROVE  LockInv'
<1> USE DEF LockInv, TypeOK
<1>1. line' = Append(line, c) /\ Len(line') = Len(line) + 1 /\ line' # <<>>
  BY DEF Call
<1>2. \A i \in 1..Len(line) : line'[i] = line[i] /\ line[i] # c /\ line[i] \in Calls
  <2> SUFFICES ASSUME NEW i \in 1..Len(line)
               PROVE  line'[i] = line[i] /\ line[i] # c /\ line[i] \in Calls
    OBVIOUS
  <2>1. pc[line[i]] \in InLine /\ pc[c] = "uncalled"
    BY DEF Call, LineInv
  <2>2. QED
    BY <1>1, <2>1 DEF InLine
<1>3. line'[Len(line')] = c
  BY <1>1
<1>4. TypeOK'
  BY <1>1 DEF Call, Promises, InLine
<1>5. ResolvedInv'
  BY DEF Call, ResolvedInv, Ended
<1>6. LineInv'
  <2>1. \A i \in 1..Len(line') : pc'[line'[i]] \in InLine
    BY <1>1, <1>2, <1>3 DEF Call, LineInv, InLine
  <2>2. ASSUME NEW d \in Calls, pc'[d] \in InLine
        PROVE  \E i \in 1..Len(line') : line'[i] = d
    <3>1. CASE d = c
      BY <1>1, <1>3, <3>1
    <3>2. CASE d # c
      <4>1. pc[d] \in InLine
        BY <2>2, <3>2 DEF Call
      <4>2. PICK i \in 1..Len(line) : line[i] = d
        BY <4>1 DEF LineInv
      <4>3. QED
        BY <4>2, <1>1, <1>2
    <3>3. QED
      BY <3>1, <3>2
  <2>3. \A i, j \in 1..Len(line') : line'[i] = line'[j] => i = j
    BY <1>1, <1>2, <1>3 DEF LineInv
  <2>4. QED
    BY <2>1, <2>2, <2>3 DEF LineInv
<1>7. ChainInv'
  <2>1. \A i \in 2..Len(line') : prev'[line'[i]] = line'[i - 1]
    <3> SUFFICES ASSUME NEW i \in 2..Len(line') PROVE prev'[line'[i]] = line'[i - 1]
      OBVIOUS
    <3>1. CASE i = Len(line')
      <4>1. prev'[c] = indexLock /\ line # <<>> /\ indexLock = line[Len(line)]
        BY <3>1, <1>1 DEF Call, ChainInv
      <4>2. i - 1 = Len(line) /\ i - 1 \in 1..Len(line)
        BY <3>1, <1>1
      <4>3. QED
        BY <3>1, <4>1, <4>2, <1>2, <1>3
    <3>2. CASE i # Len(line')
      <4>1. i \in 2..Len(line) /\ i - 1 \in 1..Len(line) /\ i \in 1..Len(line)
        BY <3>2, <1>1
      <4>2. prev'[line[i]] = prev[line[i]]
        BY <4>1, <1>2 DEF Call
      <4>3. QED
        BY <4>1, <4>2, <1>2 DEF ChainInv
    <3>3. QED
      BY <3>1, <3>2
  <2>2. prev'[line'[1]] \in resolved'
    <3>1. CASE line = <<>>
      BY <3>1, <1>1 DEF Call, ChainInv
    <3>2. CASE line # <<>>
      <4>1. 1 \in 1..Len(line)
        BY <3>2
      <4>2. QED
        BY <4>1, <3>2, <1>2 DEF Call, ChainInv
    <3>3. QED
      BY <3>1, <3>2
  <2>3. indexLock' = line'[Len(line')]
    BY <1>3 DEF Call
  <2>4. \A d \in Calls : pc'[d] = "running" => prev'[d] \in resolved'
    BY DEF Call, ChainInv
  <2>5. QED
    BY <1>1, <2>1, <2>2, <2>3, <2>4 DEF ChainInv
<1>8. QED
  BY <1>4, <1>5, <1>6, <1>7

LEMMA ResumeLockInv ==
  ASSUME LockInv, NEW c \in Calls, Resume(c)
  PROVE  LockInv'
<1> USE DEF LockInv, TypeOK
<1>1. TypeOK' /\ ResolvedInv'
  BY DEF Resume, ResolvedInv, InLine, Ended
<1>2. \A d \in Calls : pc'[d] \in InLine <=> pc[d] \in InLine
  BY DEF Resume, InLine
<1>3. LineInv'
  BY <1>2 DEF Resume, LineInv
<1>4. ChainInv'
  BY DEF Resume, ChainInv
<1>5. QED
  BY <1>1, <1>3, <1>4

(* Return and Throw differ in the state they leave the call in. *)
LEMMA EndLockInv ==
  ASSUME LockInv, NEW c \in Calls, pc[c] = "running", Resolve(c),
         NEW s \in Ended, pc' = [pc EXCEPT ![c] = s],
         UNCHANGED <<indexLock, prev>>
  PROVE  LockInv'
<1> USE DEF LockInv, TypeOK
<1>1. line # <<>> /\ line[1] = c
  BY RunningIsHead
<1>2. /\ line' = Tail(line)
      /\ line' \in Seq(Calls)
      /\ Len(line') = Len(line) - 1
      /\ \A i \in 1..Len(line') : line'[i] = line[i + 1]
  BY <1>1 DEF Resolve
<1>3. \A i \in 1..Len(line') : line'[i] # c
  <2> SUFFICES ASSUME NEW i \in 1..Len(line'), line'[i] = c PROVE FALSE
    OBVIOUS
  <2>1. line[i + 1] = line[1] /\ i + 1 \in 1..Len(line) /\ 1 \in 1..Len(line)
    BY <1>1, <1>2
  <2>2. QED
    BY <2>1 DEF LineInv
<1>4. TypeOK'
  BY <1>2 DEF Resolve, Promises, Ended
<1>5. ResolvedInv'
  BY DEF ResolvedInv, Resolve, Ended
<1>6. LineInv'
  <2>1. \A i \in 1..Len(line') : pc'[line'[i]] \in InLine
    BY <1>2, <1>3 DEF LineInv
  <2>2. ASSUME NEW d \in Calls, pc'[d] \in InLine
        PROVE  \E i \in 1..Len(line') : line'[i] = d
    <3>1. d # c /\ pc[d] \in InLine
      BY <2>2 DEF InLine, Ended
    <3>2. PICK i \in 1..Len(line) : line[i] = d
      BY <3>1 DEF LineInv
    <3>3. i - 1 \in 1..Len(line')
      BY <3>1, <3>2, <1>1, <1>2
    <3>4. line'[i - 1] = line[(i - 1) + 1] /\ (i - 1) + 1 = i
      BY <3>3, <1>2
    <3>5. QED
      BY <3>2, <3>3, <3>4
  <2>3. ASSUME NEW i \in 1..Len(line'), NEW j \in 1..Len(line'), line'[i] = line'[j]
        PROVE  i = j
    <3>1. line[i + 1] = line[j + 1] /\ i + 1 \in 1..Len(line) /\ j + 1 \in 1..Len(line)
      BY <2>3, <1>2
    <3>2. i + 1 = j + 1
      BY <3>1 DEF LineInv
    <3>3. QED
      BY <3>2
  <2>4. QED
    BY <2>1, <2>2, <2>3 DEF LineInv
<1>7. ChainInv'
  <2>1. \A i \in 2..Len(line') : prev'[line'[i]] = line'[i - 1]
    <3> SUFFICES ASSUME NEW i \in 2..Len(line') PROVE prev'[line'[i]] = line'[i - 1]
      OBVIOUS
    <3>1. i + 1 \in 2..Len(line) /\ i - 1 \in 1..Len(line') /\ i \in 1..Len(line')
      BY <1>2
    <3>2. line'[i] = line[i + 1] /\ line'[i - 1] = line[i]
      BY <3>1, <1>2
    <3>3. prev[line[i + 1]] = line[(i + 1) - 1]
      BY <3>1 DEF ChainInv
    <3>4. QED
      BY <3>2, <3>3
  <2>2. ASSUME line' # <<>>
        PROVE  prev'[line'[1]] \in resolved' /\ indexLock' = line'[Len(line')]
    <3>1. 1 \in 1..Len(line') /\ Len(line') \in 1..Len(line') /\ 2 \in 2..Len(line)
      BY <2>2, <1>2
    <3>2. prev[line[2]] = c
      BY <3>1, <1>1 DEF ChainInv
    <3>3. line'[1] = line[2] /\ line'[Len(line')] = line[Len(line)]
      BY <3>1, <1>2
    <3>4. QED
      BY <1>1, <3>2, <3>3 DEF Resolve, ChainInv
  <2>3. ASSUME line' = <<>> PROVE indexLock' \in resolved'
    <3>1. Len(line) = 1
      BY <2>3, <1>1, <1>2
    <3>2. indexLock = c
      BY <3>1, <1>1 DEF ChainInv
    <3>3. QED
      BY <3>2 DEF Resolve
  <2>4. \A d \in Calls : pc'[d] = "running" => prev'[d] \in resolved'
    BY DEF Resolve, ChainInv, Ended
  <2>5. QED
    BY <2>1, <2>2, <2>3, <2>4 DEF ChainInv
<1>8. QED
  BY <1>4, <1>5, <1>6, <1>7

(* Every step of runWithLock keeps the invariant. *)
LEMMA StepLockInv == LockInv /\ [Next]_vars => LockInv'
<1> SUFFICES ASSUME LockInv, [Next]_vars PROVE LockInv'
  OBVIOUS
<1>1. CASE \E c \in Calls : Call(c)
  BY <1>1, CallLockInv
<1>2. CASE \E c \in Calls : Resume(c)
  BY <1>2, ResumeLockInv
<1>3. CASE \E c \in Calls : Return(c)
  BY <1>3, EndLockInv DEF Return, Ended
<1>4. CASE \E c \in Calls : Throw(c)
  BY <1>4, EndLockInv DEF Throw, Ended
<1>5. CASE UNCHANGED vars
  BY <1>5 DEF vars, LockInv, TypeOK, ResolvedInv, LineInv, ChainInv
<1>6. QED
  BY <1>1, <1>2, <1>3, <1>4, <1>5 DEF Next, Step

(* The invariant of the promise chain holds for any number of calls. *)
THEOREM LockInvariant == Spec => []LockInv
<1>1. QED
  BY InitLockInv, StepLockInv, PTL DEF Spec

(* No two functions given to runWithLock overlap, for any set of calls.    *)
THEOREM LockExcludes == Spec => []MutualExclusion
<1>1. LockInv => MutualExclusion
  BY RunningIsHead DEF MutualExclusion
<1>2. QED
  BY <1>1, LockInvariant, PTL

(* runWithLock implements the first-in first-out lock of FifoMutex: every  *)
(* step of the chain is a step of its line, or changes nothing it shows.   *)
THEOREM LockIsFifo == Spec => FifoOrder
<1> USE DEF inside, made
<1>1. Init => Mutex!Init
  BY DEF Init, Mutex!Init
<1>2. ASSUME LockInv, NEW c \in Calls, Call(c) PROVE Mutex!Join(c)
  <2>1. made' = made \cup {c} /\ c \notin made
    BY <1>2 DEF Call, LockInv, TypeOK
  <2>2. inside' = inside
    BY <1>2 DEF Call, LockInv, TypeOK
  <2>3. QED
    BY <2>1, <2>2, <1>2 DEF Call, Mutex!Join
<1>3. ASSUME LockInv, NEW c \in Calls, Resume(c) PROVE Mutex!Begin(c)
  <2>1. pc'[c] = "running"
    BY <1>3 DEF Resume, LockInv, TypeOK
  <2>2. line # <<>> /\ Head(line) = c /\ line[1] = c
    BY <1>3, ServedIsHead DEF Resume, InLine
  <2>3. ~inside
    <3>1. \A d \in Calls : pc[d] = "running" => d = c
      BY <1>3, <2>2, RunningIsHead
    <3>2. QED
      BY <3>1, <1>3 DEF Resume
  <2>4. made' = made /\ inside'
    BY <1>3, <2>1 DEF Resume, LockInv, TypeOK
  <2>5. inside \in BOOLEAN /\ inside' \in BOOLEAN
    OBVIOUS
  <2>6. QED
    BY <2>2, <2>3, <2>4, <2>5, <1>3 DEF Mutex!Begin, Resume
<1>4. ASSUME LockInv, NEW c \in Calls, Return(c) \/ Throw(c) PROVE Mutex!End(c)
  <2>1. pc[c] = "running" /\ Resolve(c)
    BY <1>4 DEF Return, Throw
  <2>2. line # <<>> /\ Head(line) = c /\ inside
    BY <1>4, <2>1, RunningIsHead
  <2>3. ~inside'
    <3>1. \A d \in Calls : pc[d] = "running" => d = c
      BY <1>4, <2>1, RunningIsHead
    <3>2. pc'[c] # "running" /\ \A d \in Calls \ {c} : pc'[d] = pc[d]
      BY <1>4 DEF Return, Throw, LockInv, TypeOK
    <3>3. QED
      BY <3>1, <3>2
  <2>4. made' = made
    BY <1>4 DEF Return, Throw, LockInv, TypeOK
  <2>5. inside \in BOOLEAN /\ inside' \in BOOLEAN
    OBVIOUS
  <2>6. QED
    BY <2>1, <2>2, <2>3, <2>4, <2>5 DEF Mutex!End, Resolve
<1>5. LockInv /\ [Next]_vars => [Mutex!Next]_(Mutex!vars)
  <2>1. UNCHANGED vars => UNCHANGED Mutex!vars
    BY DEF vars, Mutex!vars
  <2>2. QED
    BY <1>2, <1>3, <1>4, <2>1 DEF Next, Step, Mutex!Next
<1>6. QED
  BY <1>1, <1>5, LockInvariant, PTL DEF Spec, FifoOrder, Mutex!Spec
==============================================================================
