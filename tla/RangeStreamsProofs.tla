------------------------ MODULE RangeStreamsProofs ------------------------
(***************************************************************************)
(* For a body of any size, any Range header, any size of the chunks of a   *)
(* File and any chunks of a body: the range holds the bytes asked for, and *)
(* both streams give just these bytes.                                     *)
(***************************************************************************)
EXTENDS RangeStreams, SequenceTheorems, TLAPS

(* The bytes of the range a body has passed on after `n` bytes. *)
Passed(n) == greatest(0, least(n, range.end + 1) - range.start)

(* What the streams keep: how much was given is known from where they are. *)
TypeOK ==
  /\ size \in Sizes /\ header \in Headers
  /\ fullSize \in Nat /\ fullSize <= size + FooterLen
  /\ source \in {"none", "refused", "file", "body"}
  /\ offset \in Nat /\ read \in Nat /\ given \in Seq(Int) /\ closed \in BOOLEAN

RangeOK ==
  /\ source \in {"none", "refused"} => range = Error
  /\ source = "none" => ~closed /\ given = <<>> /\ read = 0
  /\ source # "none" => range = parseRangeHeader(header, fullSize)
  /\ source \in {"file", "body"} => range # Error

FileOK ==
  source = "file" => /\ Len(given) = read /\ offset = range.start + read
                     /\ read <= rangeLength(range)
                     /\ closed => read = rangeLength(range)

BodyOK ==
  source = "body" => /\ Len(given) = Passed(offset) /\ offset <= size
                     /\ fullSize = size
                     /\ closed => offset = size

StreamInv == TypeOK /\ RangeOK /\ FileOK /\ BodyOK /\ GivenIsOfRange

USE DEF Suffixes, FromTo

(* What parseRangeHeader returns lies below the size it is given; it may   *)
(* be empty only if there are no bytes.                                    *)
LEMMA ParsedIsInside ==
  ASSUME NEW h \in Headers, NEW s \in Nat, parseRangeHeader(h, s) # Error
  PROVE  /\ parseRangeHeader(h, s) \in [start : Nat, end : Int]
         /\ parseRangeHeader(h, s).start <= parseRangeHeader(h, s).end + 1
         /\ parseRangeHeader(h, s).end < s
<1>1. s \in Nat /\ h # Malformed
  BY StreamsAssumption DEF parseRangeHeader
<1>2. CASE h \in Suffixes(Nat)
  BY <1>1, <1>2 DEF parseRangeHeader
<1>3. CASE h \in FromTo(Nat)
  BY <1>1, <1>3, StreamsAssumption DEF parseRangeHeader, InBounds
<1>4. QED
  BY <1>1, <1>2, <1>3, StreamsAssumption

(* Bytes(from, to) are to - from bytes, one after the other. *)
LEMMA BytesAre ==
  ASSUME NEW a \in Nat, NEW b \in Int
  PROVE  /\ Bytes(a, b) \in Seq(Int)
         /\ Len(Bytes(a, b)) = greatest(0, b - a)
         /\ \A i \in 1..Len(Bytes(a, b)) : Bytes(a, b)[i] = a + i - 1
<1> DEFINE n == IF a < b THEN b - a ELSE 0
<1>1. n \in Nat /\ n = greatest(0, b - a)
  BY DEF greatest
<1>2. Bytes(a, b) = [i \in 1..n |-> a + i - 1]
  BY DEF Bytes
<1>3. \A i \in 1..n : a + i - 1 \in Int
  BY <1>1
<1> HIDE DEF n
<1>4. Bytes(a, b) \in Seq(Int) /\ Len(Bytes(a, b)) = n
  BY <1>1, <1>2, <1>3, IsASeq, LenProperties
<1>5. QED
  BY <1>1, <1>2, <1>4

(* Bytes that go on where the given ones end keep the order. *)
LEMMA GoesOn ==
  ASSUME NEW g \in Seq(Int), NEW a \in Nat, NEW b \in Int, NEW c \in Nat,
         \A i \in 1..Len(g) : g[i] = c + i - 1,
         a < b => a = c + Len(g)
  PROVE  /\ g \o Bytes(a, b) \in Seq(Int)
         /\ Len(g \o Bytes(a, b)) = Len(g) + greatest(0, b - a)
         /\ \A i \in 1..Len(g \o Bytes(a, b)) : (g \o Bytes(a, b))[i] = c + i - 1
<1> DEFINE t == Bytes(a, b)
<1>1. /\ t \in Seq(Int) /\ Len(t) = greatest(0, b - a)
      /\ \A i \in 1..Len(t) : t[i] = a + i - 1
  BY BytesAre
<1> HIDE DEF t
<1>2. /\ g \o t \in Seq(Int) /\ Len(g \o t) = Len(g) + Len(t)
      /\ \A i \in 1..(Len(g) + Len(t)) :
           (g \o t)[i] = IF i <= Len(g) THEN g[i] ELSE t[i - Len(g)]
  BY <1>1, ConcatProperties
<1>3. ASSUME NEW i \in 1..Len(g \o t)  PROVE (g \o t)[i] = c + i - 1
  <2>1. Len(g) \in Nat /\ Len(t) \in Nat
    BY <1>1, LenProperties
  <2>2. CASE i <= Len(g)
    BY <1>2, <2>1, <2>2
  <2>3. CASE i > Len(g)
    <3>1. i - Len(g) \in 1..Len(t) /\ a < b
      BY <1>1, <1>2, <2>1, <2>3 DEF greatest
    <3>2. QED
      BY <1>1, <1>2, <2>1, <2>3, <3>1
  <2>4. QED
    BY <1>2, <2>1, <2>2, <2>3
<1>4. QED
  BY <1>1, <1>2, <1>3 DEF t

(* The range is what was asked for; a header is refused for a reason. *)
LEMMA ParsedIsAsked ==
  ASSUME NEW h \in Headers, NEW s \in Nat
  PROVE  LET r == parseRangeHeader(h, s)
         IN IF r # Error THEN r.start..r.end = Asked(h, s)
            ELSE \/ Asked(h, s) = {}
                 \/ "last" \in DOMAIN h /\ h.last # Open /\ h.last >= s
<1> DEFINE r == parseRangeHeader(h, s)
<1>1. s \in Nat
  BY StreamsAssumption
<1>2. CASE h = Malformed
  BY <1>2 DEF parseRangeHeader, Asked
<1>3. CASE h \in Suffixes(Nat)
  <2>1. h # Malformed /\ "suffix" \in DOMAIN h /\ h.suffix \in Nat
    BY <1>3, StreamsAssumption
  <2>2. Asked(h, s) = {i \in 0..(s - 1) : i >= s - h.suffix}
    BY <2>1 DEF Asked
  <2>3. CASE h.suffix = 0
    BY <1>1, <2>1, <2>2, <2>3 DEF parseRangeHeader
  <2>4. CASE h.suffix # 0
    <3> DEFINE a == IF h.suffix > s THEN 0 ELSE s - h.suffix
    <3>1. r = [start |-> a, end |-> s - 1]
      BY <2>1, <2>4 DEF parseRangeHeader
    <3>2. r # Error
      BY <1>1, <2>1, <3>1, StreamsAssumption
    <3>3. a..(s - 1) = Asked(h, s)
      BY <1>1, <2>1, <2>2
    <3>4. QED
      BY <3>1, <3>2, <3>3
  <2>5. QED
    BY <2>3, <2>4
<1>4. CASE h \in FromTo(Nat)
  <2>1. /\ h # Malformed /\ "suffix" \notin DOMAIN h /\ "last" \in DOMAIN h
        /\ h.first \in Nat /\ h.last \in Nat \cup {Open}
    BY <1>4, StreamsAssumption
  <2>2. Asked(h, s) = {i \in 0..(s - 1) : i >= h.first /\ (h.last # Open => i <= h.last)}
    BY <2>1 DEF Asked
  <2> DEFINE e == IF h.last = Open THEN s - 1 ELSE h.last
  <2>3. e \in Int
    BY <1>1, <2>1
  <2>4. CASE InBounds(h.first, e, s)
    <3>1. r = [start |-> h.first, end |-> e]
      BY <2>1, <2>4 DEF parseRangeHeader
    <3>2. r # Error
      BY <2>1, <2>3, <3>1, StreamsAssumption
    <3>3. h.first..e = Asked(h, s)
      BY <1>1, <2>1, <2>2, <2>4, StreamsAssumption DEF InBounds
    <3>4. QED
      BY <3>1, <3>2, <3>3
  <2>5. CASE ~InBounds(h.first, e, s)
    <3>1. r = Error
      BY <2>1, <2>5 DEF parseRangeHeader
    <3>2. \/ Asked(h, s) = {}
          \/ h.last # Open /\ h.last >= s
      BY <1>1, <2>1, <2>2, <2>5, StreamsAssumption DEF InBounds
    <3>3. QED
      BY <2>1, <3>1, <3>2
  <2>6. QED
    BY <2>4, <2>5
<1>5. QED
  BY <1>2, <1>3, <1>4, StreamsAssumption

(* What a chunk of `n` bytes adds to those of the range that have passed.  *)
LEMMA ChunkAdds ==
  ASSUME range.start \in Nat, range.end \in Int, range.start <= range.end + 1,
         offset \in Nat, NEW n \in Nat, range.start < offset + n, offset <= range.end
  PROVE  LET a == offset + greatest(0, range.start - offset)
             b == offset + least(n, range.end - offset + 1)
         IN /\ a \in Nat /\ b \in Int /\ a = range.start + Passed(offset)
            /\ Passed(offset) + greatest(0, b - a) = Passed(offset + n)
<1>1. CASE offset <= range.start
  BY <1>1 DEF greatest, least, Passed
<1>2. CASE offset > range.start
  BY <1>2 DEF greatest, least, Passed
<1>3. QED
  BY <1>1, <1>2

(* What the next chunk of a File adds to the bytes that were read.         *)
LEMMA PullAdds ==
  ASSUME range.start \in Nat, range.end \in Int, size \in Nat, range.end < size + FooterLen,
         read \in Nat, read < range.end - range.start + 1,
         offset = range.start + read
  PROVE  LET c == least(ChunkSize, (range.end - range.start + 1) - read)
             upTo == least(offset + c, size + FooterLen)
         IN /\ c \in Nat /\ read + c <= range.end - range.start + 1
            /\ upTo \in Int /\ greatest(0, upTo - offset) = c
<1> DEFINE c == least(ChunkSize, (range.end - range.start + 1) - read)
<1>1. c \in Nat /\ read + c <= range.end - range.start + 1
  BY StreamsAssumption DEF least
<1> HIDE DEF c
<1>2. least(offset + c, size + FooterLen) = offset + c
  BY <1>1, StreamsAssumption DEF least
<1>3. QED
  BY <1>1, <1>2 DEF greatest, c

LEMMA InitStreamInv == Init => StreamInv
<1> SUFFICES ASSUME Init PROVE StreamInv
  OBVIOUS
<1>1. TypeOK
  <2>1. <<>> \in Seq(Int)
    BY EmptySeq
  <2>2. size \in Nat /\ FooterLen \in Nat
    BY StreamsAssumption DEF Init
  <2>3. fullSize \in Nat /\ fullSize <= size + FooterLen
    BY <2>2 DEF Init
  <2>4. size \in Sizes /\ header \in Headers
    BY DEF Init
  <2>5. QED
    BY <2>1, <2>2, <2>3, <2>4, StreamsAssumption DEF Init, TypeOK
<1>2. RangeOK /\ FileOK /\ BodyOK /\ GivenIsOfRange
  BY DEF Init, RangeOK, FileOK, BodyOK, GivenIsOfRange
<1>3. QED
  BY <1>1, <1>2 DEF StreamInv

LEMMA ParseStreamInv == StreamInv /\ Parse => StreamInv'
<1> SUFFICES ASSUME StreamInv, Parse PROVE StreamInv'
  OBVIOUS
<1>1. given' = <<>> /\ read' = 0 /\ size' = size /\ header' = header
  BY DEF StreamInv, RangeOK, Parse
<1>2. /\ Len(given') = 0 /\ given' \in Seq(Int) /\ size \in Nat
      /\ fullSize' \in Nat /\ fullSize' <= size + FooterLen
      /\ source' = "body" => fullSize' = size
  BY <1>1, StreamsAssumption DEF StreamInv, TypeOK, Parse
<1>3. CASE range' = Error
  <2>1. source' = "refused" /\ closed' = TRUE /\ offset' = offset
    BY <1>3 DEF Parse
  <2>2. TypeOK'
    BY <1>1, <1>2, <2>1 DEF StreamInv, TypeOK
  <2>3. RangeOK' /\ FileOK' /\ BodyOK' /\ GivenIsOfRange'
    BY <1>1, <1>3, <2>1 DEF Parse, RangeOK, FileOK, BodyOK, GivenIsOfRange
  <2>4. QED
    BY <2>2, <2>3 DEF StreamInv
<1>4. CASE range' # Error
  <2>1. /\ source' \in {"file", "body"} /\ closed' = closed /\ closed = FALSE
        /\ offset' = IF source' = "file" THEN range'.start ELSE 0
        /\ range' = parseRangeHeader(header, fullSize')
    BY <1>4 DEF Parse, StreamInv, RangeOK, TypeOK
  <2>2. /\ range' \in [start : Nat, end : Int]
        /\ range'.start <= range'.end + 1 /\ range'.end < fullSize'
    BY <1>2, <1>4, <2>1, ParsedIsInside DEF StreamInv, TypeOK
  <2>3. TypeOK'
    BY <1>1, <1>2, <2>1, <2>2 DEF StreamInv, TypeOK
  <2>4. RangeOK'
    BY <1>1, <1>4, <2>1 DEF RangeOK
  <2>5. FileOK'
    BY <1>1, <1>2, <2>1, <2>2 DEF FileOK, rangeLength
  <2>6. BodyOK'
    <3>1. SUFFICES ASSUME source' = "body"
                   PROVE  greatest(0, least(0, range'.end + 1) - range'.start) = 0
      BY <1>1, <1>2, <2>1, <3>1 DEF BodyOK, Passed
    <3>2. QED
      BY <2>2 DEF greatest, least
  <2>7. GivenIsOfRange'
    BY <1>2, <2>2 DEF GivenIsOfRange, rangeLength
  <2>8. QED
    BY <2>3, <2>4, <2>5, <2>6, <2>7 DEF StreamInv
<1>5. QED
  BY <1>3, <1>4

(* The range of a stream lies below the size its header was parsed with.   *)
LEMMA RangeIsInside ==
  ASSUME StreamInv, source \in {"file", "body"}
  PROVE  /\ range # Error /\ range.start \in Nat /\ range.end \in Int
         /\ range.start <= range.end + 1 /\ range.end < fullSize /\ size \in Nat
         /\ fullSize \in Nat /\ fullSize <= size + FooterLen
<1>1. range = parseRangeHeader(header, fullSize) /\ range # Error
  BY DEF StreamInv, RangeOK
<1>2. QED
  BY <1>1, ParsedIsInside, StreamsAssumption DEF StreamInv, TypeOK

LEMMA PullStreamInv == StreamInv /\ Pull => StreamInv'
<1> SUFFICES ASSUME StreamInv, Pull PROVE StreamInv'
  OBVIOUS
<1> DEFINE c == least(ChunkSize, (range.end - range.start + 1) - read)
           upTo == least(offset + c, size + FooterLen)
<1>1. /\ source = "file" /\ ~closed /\ read < range.end - range.start + 1
      /\ given' = given \o Bytes(offset, upTo)
      /\ offset' = offset + c /\ read' = read + c
      /\ UNCHANGED <<source, size, header, fullSize, range, closed>>
  <2>1. source = "file" /\ ~closed /\ read < range.end - range.start + 1
    BY DEF Pull, rangeLength
  <2>2. given' = given \o Bytes(offset, upTo)
    BY DEF Pull, Slice, rangeLength
  <2>3. offset' = offset + c /\ read' = read + c
    BY DEF Pull, rangeLength
  <2>4. UNCHANGED <<source, size, header, fullSize, range, closed>>
    BY DEF Pull
  <2>5. QED
    BY <2>1, <2>2, <2>3, <2>4
<1>2. /\ range # Error /\ range.start \in Nat /\ range.end \in Int
      /\ range.end < size + FooterLen /\ size \in Nat
  BY <1>1, RangeIsInside, StreamsAssumption
<1>3. /\ Len(given) = read /\ offset = range.start + read
      /\ read \in Nat /\ offset \in Nat /\ given \in Seq(Int)
      /\ \A i \in 1..Len(given) : given[i] = range.start + i - 1
  BY <1>1, <1>2 DEF StreamInv, FileOK, TypeOK, GivenIsOfRange
<1>4. /\ c \in Nat /\ read + c <= range.end - range.start + 1
      /\ upTo \in Int /\ greatest(0, upTo - offset) = c
  BY <1>1, <1>2, <1>3, PullAdds
<1> HIDE DEF c, upTo
<1>5. /\ given' \in Seq(Int) /\ Len(given') = read + c
      /\ \A i \in 1..Len(given') : given'[i] = range.start + i - 1
  <2>1. offset < upTo => offset = range.start + Len(given)
    BY <1>3
  <2>2. /\ given \o Bytes(offset, upTo) \in Seq(Int)
        /\ Len(given \o Bytes(offset, upTo)) = Len(given) + greatest(0, upTo - offset)
        /\ \A i \in 1..Len(given \o Bytes(offset, upTo)) :
             (given \o Bytes(offset, upTo))[i] = range.start + i - 1
    <3>1. given \in Seq(Int) /\ offset \in Nat /\ upTo \in Int /\ range.start \in Nat
      BY <1>2, <1>3, <1>4
    <3>2. \A i \in 1..Len(given) : given[i] = range.start + i - 1
      BY <1>3
    <3>3. QED
      BY <2>1, <3>1, <3>2, GoesOn, Zenon
  <2>3. QED
    BY <1>1, <1>3, <1>4, <2>2
<1>6. TypeOK' /\ RangeOK' /\ FileOK' /\ BodyOK'
  <2>1. offset' \in Nat /\ read' \in Nat
    BY <1>1, <1>3, <1>4
  <2>2. TypeOK'
    BY <1>1, <1>5, <2>1 DEF StreamInv, TypeOK
  <2>3. RangeOK' /\ BodyOK'
    BY <1>1 DEF StreamInv, RangeOK, BodyOK
  <2>4. Len(given') = read' /\ offset' = range'.start + read'
    BY <1>1, <1>2, <1>3, <1>4, <1>5
  <2>5. FileOK'
    BY <1>1, <1>4, <2>4 DEF FileOK, rangeLength
  <2>6. QED
    BY <2>2, <2>3, <2>5
<1>7. GivenIsOfRange'
  BY <1>1, <1>2, <1>3, <1>4, <1>5 DEF GivenIsOfRange, rangeLength
<1>8. QED
  BY <1>6, <1>7 DEF StreamInv

LEMMA TransformStreamInv ==
  ASSUME StreamInv, NEW n \in 1..(size - offset), Transform(n)
  PROVE  StreamInv'
<1> DEFINE a == offset + greatest(0, range.start - offset)
           b == offset + least(n, range.end - offset + 1)
<1>1. /\ source = "body"
      /\ given' = given \o Extract(offset, offset + n) /\ offset' = offset + n
      /\ UNCHANGED <<source, size, header, fullSize, range, read, closed>>
  BY DEF Transform
<1>2. /\ range # Error /\ range.start \in Nat /\ range.end \in Int
      /\ range.start <= range.end + 1 /\ size \in Nat
  BY <1>1, RangeIsInside
<1>3. offset \in Nat /\ n \in Nat /\ n > 0 /\ offset + n <= size
  BY <1>2 DEF StreamInv, TypeOK
<1>4. ~closed
  BY <1>1, <1>3 DEF StreamInv, BodyOK
<1>5. /\ Len(given) = Passed(offset) /\ fullSize = size
      /\ given \in Seq(Int)
      /\ \A i \in 1..Len(given) : given[i] = range.start + i - 1
  BY <1>1, <1>2 DEF StreamInv, BodyOK, TypeOK, GivenIsOfRange
<1> DEFINE passed == Passed(offset + n)
<1>6. /\ given' \in Seq(Int) /\ Len(given') = passed
      /\ \A i \in 1..Len(given') : given'[i] = range.start + i - 1
  <2>1. CASE offset + n <= range.start \/ offset > range.end
    <3>1. given' = given
      BY <1>1, <1>5, <2>1, ConcatEmptySeq DEF Extract
    <3>2. passed = Passed(offset)
      BY <1>2, <1>3, <2>1 DEF greatest, least, Passed
    <3>3. QED
      BY <1>5, <3>1, <3>2
  <2>2. CASE range.start < offset + n /\ offset <= range.end
    <3>1. (offset + n) - offset = n
      BY <1>3
    <3>2. ~(offset + n <= range.start \/ offset > range.end)
      BY <1>2, <1>3, <2>2
    <3>3. given' = given \o Bytes(a, b)
      BY <1>1, <3>1, <3>2 DEF Extract
    <3>4. /\ a \in Nat /\ b \in Int /\ a = range.start + Len(given)
          /\ Len(given) + greatest(0, b - a) = passed
      BY <1>2, <1>3, <1>5, <2>2, ChunkAdds
    <3> HIDE DEF a, b, passed
    <3>5. a < b => a = range.start + Len(given)
      BY <3>4
    <3>6. /\ given \o Bytes(a, b) \in Seq(Int)
          /\ Len(given \o Bytes(a, b)) = Len(given) + greatest(0, b - a)
          /\ \A i \in 1..Len(given \o Bytes(a, b)) :
               (given \o Bytes(a, b))[i] = range.start + i - 1
      BY <1>2, <1>5, <3>4, <3>5, GoesOn, Zenon
    <3>7. QED
      BY <3>3, <3>4, <3>6
  <2>3. QED
    BY <1>2, <1>3, <2>1, <2>2
<1>7. passed <= range.end - range.start + 1
  BY <1>2, <1>3 DEF greatest, least, Passed
<1>8. TypeOK' /\ RangeOK' /\ FileOK'
  BY <1>1, <1>3, <1>6 DEF StreamInv, TypeOK, RangeOK, FileOK
<1>9. BodyOK'
  BY <1>1, <1>3, <1>4, <1>5, <1>6 DEF BodyOK, Passed
<1>10. GivenIsOfRange'
  <2> HIDE DEF passed
  <2>1. QED
    BY <1>1, <1>6, <1>7 DEF GivenIsOfRange, rangeLength
<1>11. QED
  BY <1>8, <1>9, <1>10 DEF StreamInv

(* The ends of the streams change nothing but `closed`.                    *)
LEMMA EndStreamInv == StreamInv /\ (PullEnd \/ Flush) => StreamInv'
<1> SUFFICES ASSUME StreamInv, PullEnd \/ Flush PROVE StreamInv'
  OBVIOUS
<1>1. /\ closed' = TRUE /\ source \in {"file", "body"}
      /\ UNCHANGED <<source, size, header, fullSize, range, offset, read, given>>
  BY DEF PullEnd, Flush
<1>2. CASE PullEnd
  <2>1. range.start \in Nat /\ range.end \in Int /\ source = "file" /\ read \in Nat
    BY <1>1, <1>2, RangeIsInside DEF PullEnd, StreamInv, TypeOK
  <2>2. FileOK'
    BY <1>1, <1>2, <2>1 DEF PullEnd, StreamInv, FileOK, rangeLength
  <2>3. QED
    BY <1>1, <2>1, <2>2
       DEF StreamInv, TypeOK, RangeOK, BodyOK, GivenIsOfRange
<1>3. CASE Flush
  BY <1>1, <1>3
     DEF Flush, StreamInv, TypeOK, RangeOK, FileOK, BodyOK, Passed, GivenIsOfRange
<1>4. QED
  BY <1>2, <1>3

(* The invariant says what the properties of the streams need.             *)
THEOREM StreamsKeep == Spec => []StreamInv
<1>1. StreamInv /\ UNCHANGED vars => StreamInv'
  BY DEF vars, StreamInv, TypeOK, RangeOK, FileOK, BodyOK, Passed, GivenIsOfRange
<1>2. StreamInv /\ [Next]_vars => StreamInv'
  BY <1>1, ParseStreamInv, PullStreamInv, TransformStreamInv, EndStreamInv DEF Next
<1>3. QED
  BY <1>2, InitStreamInv, PTL DEF Spec

(* RangeIsAsked for every size and header: parseRangeHeader, also with the *)
(* size of a File that has the footer in it.                               *)
THEOREM RangesAreAsked == Spec => []RangeIsAsked
<1>1. StreamInv => RangeIsAsked
  <2> SUFFICES ASSUME StreamInv, source # "none" PROVE RangeIsAsked
    BY DEF RangeIsAsked
  <2>1. /\ range = parseRangeHeader(header, fullSize)
        /\ header \in Headers /\ fullSize \in Nat
    BY DEF StreamInv, RangeOK, TypeOK
  <2>2. QED
    BY <2>1, ParsedIsAsked DEF RangeIsAsked
<1>2. QED
  BY <1>1, StreamsKeep, PTL

(* GivenIsOfRange: neither stream gives a byte that is not of the range.   *)
THEOREM StreamsGiveTheRange == Spec => []GivenIsOfRange
<1>1. StreamInv => GivenIsOfRange
  BY DEF StreamInv
<1>2. QED
  BY <1>1, StreamsKeep, PTL

(* GivenIsWhole: a stream that has ended has given all of the range.       *)
THEOREM StreamsGiveAll == Spec => []GivenIsWhole
<1>1. StreamInv => GivenIsWhole
  <2> SUFFICES ASSUME StreamInv, closed, range # Error
               PROVE  Len(given) = rangeLength(range)
    BY DEF GivenIsWhole
  <2>1. source \in {"file", "body"}
    BY DEF StreamInv, TypeOK, RangeOK
  <2>2. CASE source = "file"
    BY <2>2 DEF StreamInv, FileOK
  <2>3. CASE source = "body"
    <3>1. /\ Len(given) = greatest(0, least(size, range.end + 1) - range.start)
          /\ fullSize = size
      BY <2>3 DEF StreamInv, BodyOK, Passed
    <3>2. QED
      BY <2>1, <3>1, RangeIsInside DEF greatest, least, rangeLength
  <2>4. QED
    BY <2>1, <2>2, <2>3
<1>2. QED
  BY <1>1, StreamsKeep, PTL
==============================================================================
