----------------------------- MODULE MCIndexLock -----------------------------
(* Four calls of runWithLock: a line of three waiting calls behind one     *)
(* that runs.  A behaviour stops once every call was made and came back.   *)
EXTENDS IndexLock

CONSTANTS c1, c2, c3, c4
MCCalls == {c1, c2, c3, c4}
==============================================================================
