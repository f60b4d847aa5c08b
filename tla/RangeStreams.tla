---------------------------- MODULE RangeStreams ----------------------------
(***************************************************************************)
(* The two streams that cut a range out of a body (opfsRangeUtil.ts):      *)
(* createFileRangeStream pulls it out of a File, chunk by chunk, and       *)
(* createRangeExtractTransform picks it out of a body that passes by in    *)
(* chunks of any length.                                                   *)
(*                                                                         *)
(* A byte is its position in the body, so that what a stream has given     *)
(* says which bytes of the body they are; those from `size` on are of the  *)
(* footer.                                                                 *)
(***************************************************************************)
EXTENDS RangeUtil, Sequences

CONSTANTS Sizes,          \* the sizes of a body
          Headers,        \* the Range headers
          ChunkSize,      \* FILE_RANGE_STREAM_CHUNK_SIZE
          FooterLen       \* what a File has behind the body

ASSUME StreamsAssumption ==
  /\ Sizes \subseteq Nat
  /\ Headers \subseteq Suffixes(Nat) \cup FromTo(Nat) \cup {Malformed}
  /\ Malformed \notin Suffixes(Nat) \cup FromTo(Nat)
  /\ Error \notin [start : Int, end : Int]
  /\ Open \notin Nat
  /\ ChunkSize \in Nat \ {0} /\ FooterLen \in Nat

VARIABLES
  source,                 \* none, file or body
  size, header,
  fullSize,               \* the size the header is parsed with
  range,                  \* the result of parseRangeHeader
  offset, read,           \* the locals of the two functions
  given,                  \* the bytes the stream has given
  closed

vars == <<source, size, header, fullSize, range, offset, read, given, closed>>

(* The bytes from `from` up to `to`, which is not one of them. *)
Bytes(from, to) == [i \in 1..(IF from < to THEN to - from ELSE 0) |-> from + i - 1]

least(a, b) == IF a < b THEN a ELSE b
greatest(a, b) == IF a > b THEN a ELSE b

Init == /\ source = "none" /\ range = Error
        /\ size \in Sizes /\ header \in Headers /\ fullSize = 0
        /\ offset = 0 /\ read = 0 /\ given = <<>> /\ closed = FALSE

(* The header is parsed and a stream is made of the range.  The size is    *)
(* meta.fullSize for a File: that of the body if the metadata are from the *)
(* footer, that of the File if a scan has put them there.  For a body that *)
(* passes by it is the Content-Length.                                     *)
Parse ==
  /\ source = "none"
  /\ \E from \in {"file", "body"} :
       /\ fullSize' \in IF from = "file" THEN {size, size + FooterLen} ELSE {size}
       /\ range' = parseRangeHeader(header, fullSize')
       /\ IF range' = Error
          THEN /\ closed' = TRUE /\ source' = "refused"
               /\ UNCHANGED offset
          ELSE /\ source' = from
               /\ offset' = IF from = "file" THEN range'.start ELSE 0
               /\ UNCHANGED closed
  /\ UNCHANGED <<size, header, read, given>>

(* file.slice: it ends at the end of the File. *)
Slice(from, to) == Bytes(from, least(to, size + FooterLen))

(* Mutant of Pull: the last chunk is as long as the others. *)
PullWhole ==
  /\ source = "file" /\ ~closed
  /\ read < rangeLength(range)
  /\ given' = given \o Slice(offset, offset + ChunkSize)
  /\ offset' = offset + ChunkSize
  /\ read' = read + ChunkSize
  /\ UNCHANGED <<source, size, header, fullSize, range, closed>>

Pull ==
  /\ source = "file" /\ ~closed
  /\ read < rangeLength(range)
  /\ LET chunkSize == least(ChunkSize, rangeLength(range) - read)
     IN /\ given' = given \o Slice(offset, offset + chunkSize)
        /\ offset' = offset + chunkSize
        /\ read' = read + chunkSize
  /\ UNCHANGED <<source, size, header, fullSize, range, closed>>

PullEnd ==
  /\ source = "file" /\ ~closed
  /\ read >= rangeLength(range)
  /\ closed' = TRUE
  /\ UNCHANGED <<source, size, header, fullSize, range, offset, read, given>>

(* Mutant of Extract: the end of the range is left out. *)
ExtractShort(chunkStart, chunkEnd) ==
  LET sliceStart == greatest(0, range.start - chunkStart)
      sliceEnd == least(chunkEnd - chunkStart, range.end - chunkStart)
  IN IF chunkEnd <= range.start \/ chunkStart > range.end THEN <<>>
     ELSE Bytes(chunkStart + sliceStart, chunkStart + sliceEnd)

(* What the transform passes on of the chunk from chunkStart to chunkEnd. *)
Extract(chunkStart, chunkEnd) ==
  LET sliceStart == greatest(0, range.start - chunkStart)
      sliceEnd == least(chunkEnd - chunkStart, range.end - chunkStart + 1)
  IN IF chunkEnd <= range.start \/ chunkStart > range.end THEN <<>>
     ELSE Bytes(chunkStart + sliceStart, chunkStart + sliceEnd)

Transform(byteLength) ==
  /\ source = "body"
  /\ given' = given \o Extract(offset, offset + byteLength)
  /\ offset' = offset + byteLength
  /\ UNCHANGED <<source, size, header, fullSize, range, read, closed>>

(* The body is over. *)
Flush ==
  /\ source = "body" /\ offset = size /\ ~closed
  /\ closed' = TRUE
  /\ UNCHANGED <<source, size, header, fullSize, range, offset, read, given>>

Next == Parse \/ Pull \/ PullEnd \/ Flush \/ \E n \in 1..(size - offset) : Transform(n)

Spec == Init /\ [][Next]_vars
------------------------------------------------------------------------------
(* What RFC 9110 says a header asks for of a body of `bodySize` bytes. *)
Asked(h, bodySize) ==
  IF h = Malformed THEN {}
  ELSE IF "suffix" \in DOMAIN h THEN {i \in 0..(bodySize - 1) : i >= bodySize - h.suffix}
  ELSE {i \in 0..(bodySize - 1) : /\ i >= h.first
                                  /\ h.last # Open => i <= h.last}

(* A range that parseRangeHeader returns holds the bytes that were asked   *)
(* for of a resource of the size it was given, and no others; it is        *)
(* refused only if none were, or the header names a last byte behind the   *)
(* end.  With the size of a File that a scan has put into the metadata,    *)
(* these may be bytes of the footer.                                       *)
RangeIsAsked ==
  source # "none" =>
    IF range # Error THEN range.start..range.end = Asked(header, fullSize)
    ELSE \/ Asked(header, fullSize) = {}
         \/ "last" \in DOMAIN header /\ header.last # Open /\ header.last >= fullSize

(* What a stream gives are the bytes of the range, in order and each once: *)
(* never one before the range or behind it.                                *)
GivenIsOfRange ==
  range # Error =>
    /\ Len(given) <= rangeLength(range)
    /\ \A i \in 1..Len(given) : given[i] = range.start + i - 1

(* A stream that has ended has given as many bytes as Content-Length says. *)
GivenIsWhole ==
  closed /\ range # Error => Len(given) = rangeLength(range)
==============================================================================
