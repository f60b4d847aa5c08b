SPECIFICATION Spec
CONSTANTS
  MaxSize = 6
  MaxAsked = 8
  Sizes <- MCSizes
  Headers <- MCHeaders
  ChunkSize = 2
  FooterLen = 2
  Open = Open
  Malformed = Malformed
  Error = Error
INVARIANTS
  RangeIsAsked
  GivenIsOfRange
  GivenIsWhole
CHECK_DEADLOCK FALSE
