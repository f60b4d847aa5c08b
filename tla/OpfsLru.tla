------------------------------- MODULE OpfsLru -------------------------------
(***************************************************************************)
(* The arithmetic of opfsLru.ts: how many bytes the cache may hold, how    *)
(* many a new file asks to be freed, and which files are given up for it.  *)
(*                                                                         *)
(* Entries of the eviction index are given as a function from keys to      *)
(* records with the fields size, lastAccessed and evictable.               *)
(***************************************************************************)
EXTENDS Integers, FiniteSetsExt

CONSTANTS Quota,          \* navigator.storage.estimate().quota
          CacheShare,     \* floor(Quota * getMaxCacheFraction())
          Megabyte        \* MEGABYTE of opfsFormat.ts

ASSUME SpaceAssumption == /\ Quota \in Nat
                          /\ CacheShare \in 0..Quota
                          /\ Megabyte \in Nat

Larger(a, b) == IF a >= b THEN a ELSE b
Smaller(a, b) == IF a <= b THEN a ELSE b

(* The sizes of the entries of the keys in S, added up. *)
SizeOf(entry, S) == MapThenSumSet(LAMBDA k : entry[k].size, S)

getCacheLimit(usage) == Larger(0, Smaller(CacheShare, Quota - usage))

(* The bytes ensureSpaceForWrite must free for a body of newFileSize bytes *)
(* when the index adds up to totalSize.                                    *)
(* Mutant of NeedToFree: only the quota counts.                            *)
NeedToFreeOfQuota(newFileSize, totalSize, usage) ==
  Larger(0, usage + newFileSize - Quota)
NeedToFree(newFileSize, totalSize, usage) ==
  Larger(0, Larger(totalSize + newFileSize - getCacheLimit(usage),
                   usage + newFileSize - Quota))

(* Bytes freed beyond those already written when the quota ran out. *)
Headroom(usage) == Smaller(Megabyte, getCacheLimit(usage) \div 10)

(* The results computeEvictionSet can have on the candidates: sort by      *)
(* lastAccessed and take keys until the sum of their sizes reaches         *)
(* needToFree.  Keys used at the same time may come in any order.          *)
computeEvictionSet(entry, candidates, needToFree) ==
  {S \in SUBSET candidates :
     /\ \A k \in S, other \in candidates \ S :
           entry[k].lastAccessed <= entry[other].lastAccessed
     /\ SizeOf(entry, S) >= needToFree \/ S = candidates
     /\ S # {} =>
          \E last \in S :
             /\ \A k \in S : entry[k].lastAccessed <= entry[last].lastAccessed
             /\ SizeOf(entry, S \ {last}) < needToFree}
==============================================================================
