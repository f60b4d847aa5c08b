--------------------------- MODULE MCRangeStreams ---------------------------
(* Bodies of no bytes to three chunks of a File, and headers that ask for  *)
(* bytes in the body, at its end and behind it, the footer's included.     *)
EXTENDS RangeStreams

CONSTANTS MaxSize, MaxAsked

MCSizes == 0..MaxSize
MCHeaders == Suffixes(0..MaxAsked) \cup FromTo(0..MaxAsked) \cup {Malformed}
==============================================================================
