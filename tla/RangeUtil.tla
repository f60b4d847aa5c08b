----------------------------- MODULE RangeUtil -----------------------------
(***************************************************************************)
(* Range headers (opfsRangeUtil.ts).  A header that is well-formed is a    *)
(* record: [suffix |-> n] asks for the last n bytes, [first |-> a,         *)
(* last |-> b] for those from a to b, and to the end if b is Open.  Every  *)
(* other header is Malformed.                                              *)
(***************************************************************************)
EXTENDS Integers

CONSTANTS Open, Malformed, Error

Suffixes(N) == [suffix : N]
FromTo(N) == [first : N, last : N \cup {Open}]

InBounds(start, end, fullSize) ==
  start < fullSize /\ start <= end /\ end < fullSize

(* Mutant of parseRangeHeader: the end may be one behind the last byte. *)
parseRangeHeaderBeyond(header, fullSize) ==
  IF header = Malformed THEN Error
  ELSE IF "suffix" \in DOMAIN header
  THEN IF header.suffix = 0 THEN Error
       ELSE [start |-> IF header.suffix > fullSize THEN 0 ELSE fullSize - header.suffix,
             end |-> fullSize - 1]
  ELSE LET end == IF header.last = Open THEN fullSize ELSE header.last
       IN IF InBounds(header.first, end, fullSize + 1)
          THEN [start |-> header.first, end |-> end] ELSE Error

parseRangeHeader(header, fullSize) ==
  IF header = Malformed THEN Error
  ELSE IF "suffix" \in DOMAIN header
  THEN IF header.suffix = 0 THEN Error
       ELSE [start |-> IF header.suffix > fullSize THEN 0 ELSE fullSize - header.suffix,
             end |-> fullSize - 1]
  ELSE LET end == IF header.last = Open THEN fullSize - 1 ELSE header.last
       IN IF InBounds(header.first, end, fullSize)
          THEN [start |-> header.first, end |-> end] ELSE Error

(* The Content-Length of build206ResponseFromStream. *)
rangeLength(range) == range.end - range.start + 1
==============================================================================
