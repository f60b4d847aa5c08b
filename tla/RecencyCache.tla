---------------------------- MODULE RecencyCache ----------------------------
(***************************************************************************)
(* What LRUCache (lruCache.ts) promises MetadataCacheImpl: a map of bounded*)
(* size that forgets what was not used for the longest time.  Here its     *)
(* operations are atomic and there are no pointers: `newer` holds <<j, k>> *)
(* if j was used after k.                                                  *)
(***************************************************************************)
EXTENDS Integers, FiniteSetsExt

CONSTANTS Keys, Values, None,
          max, maxSize    \* the limits on the number and the sizes of entries

VARIABLES content,        \* key -> value or None
          newer

vars == <<content, newer>>

CachedIn(c) == {k \in Keys : c[k] # None}

(* Only the keys of S are kept. *)
KeepContent(c, S) == [k \in Keys |-> IF k \in S THEN c[k] ELSE None]
KeepOrder(n, S) == {p \in n : p[1] \in S /\ p[2] \in S}

(* k was used last of the keys in S. *)
Renewed(n, k, S) == KeepOrder(n, S \ {k}) \cup {<<k, j>> : j \in S \ {k}}

Fits(c, S) == /\ Cardinality(S) <= max
              /\ MapThenSumSet(LAMBDA k : c[k].size, S) <= maxSize

(* The keys that stay when entries are given up, the oldest first, until   *)
(* the rest is within the limits.                                          *)
Kept(c, n) ==
  {k \in CachedIn(c) : Fits(c, {k} \cup {j \in CachedIn(c) : <<j, k>> \in n})}

Init == content = [k \in Keys |-> None] /\ newer = {}

Keep(c, n, S) == content' = KeepContent(c, S) /\ newer' = KeepOrder(n, S)

Get(k) == /\ content[k] # None
          /\ newer' = Renewed(newer, k, CachedIn(content))
          /\ UNCHANGED content

Set(k, v) == LET c == [content EXCEPT ![k] = v]
                 n == Renewed(newer, k, CachedIn(c))
             IN Keep(c, n, Kept(c, n))

Delete(k) == Keep(content, newer, Keys \ {k})

Clear == Keep(content, newer, {})

InvalidateFolder(f) ==
  Keep(content, newer, {k \in CachedIn(content) : content[k].folder # f})

Next == \/ Clear
        \/ \E k \in Keys : Get(k) \/ Delete(k) \/ \E v \in Values : Set(k, v)
        \/ \E v \in Values : InvalidateFolder(v.folder)

Spec == Init /\ [][Next]_vars
==============================================================================
