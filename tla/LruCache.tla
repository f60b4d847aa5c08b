------------------------------ MODULE LruCache ------------------------------
(***************************************************************************)
(* LRUCache (lruCache.ts), a doubly linked list and a Map, with the        *)
(* methods MetadataCacheImpl (opfsMetadataCache.ts) adds.                  *)
(*                                                                         *)
(* A node is named by its key, since the Map has at most one node for a    *)
(* key.  A node that was unlinked keeps its pointers, and so it does here. *)
(* The loops of evict and of an iteration are taken one turn at a time;    *)
(* no other operation comes between.                                       *)
(***************************************************************************)
EXTENDS Integers, FiniteSetsExt

CONSTANTS Keys,           \* the keys of the store
          Values,         \* entries: their folder and their size
          None,           \* null and undefined
          max, maxSize    \* the limits of the constructor

ASSUME LruAssumption ==
  /\ \A v \in Values : v.size \in Nat
  /\ None \notin Keys \cup Values
  /\ max \in Nat \ {0} /\ maxSize \in Nat
  /\ IsFiniteSet(Keys)

VARIABLES
  map,                    \* the Map: key -> the value of its node, or None
  list,                   \* head and tail, prev and next of the nodes
  totalSize,
  pc,                     \* idle, evicting or walking
  cursor, folder,         \* the locals of an iteration
  newer                   \* auxiliary: <<j, k>> if j was used after k

vars == <<map, list, totalSize, pc, cursor, folder, newer>>

Cached == {k \in Keys : map[k] # None}
Nothing == [k \in Keys |-> None]
Order == INSTANCE RecencyCache WITH content <- map

Init == /\ map = Nothing
        /\ list = [head |-> None, tail |-> None, prev |-> Nothing, next |-> Nothing]
        /\ totalSize = 0
        /\ pc = "idle" /\ cursor = None /\ folder = None
        /\ newer = {}
------------------------------------------------------------------------------
(* The private methods on the list. *)

(* Mutant of unlink: the tail stays what it was. *)
unlinkKeepsTail(l, k) ==
  LET before == l.prev[k]
      after == l.next[k]
  IN [head |-> IF before = None THEN after ELSE l.head,
      tail |-> l.tail,
      next |-> [j \in Keys |-> IF j = before THEN after ELSE l.next[j]],
      prev |-> [j \in Keys |-> IF j = after THEN before ELSE l.prev[j]]]

unlink(l, k) ==
  LET before == l.prev[k]
      after == l.next[k]
  IN [head |-> IF before = None THEN after ELSE l.head,
      tail |-> IF after = None THEN before ELSE l.tail,
      next |-> [j \in Keys |-> IF j = before THEN after ELSE l.next[j]],
      prev |-> [j \in Keys |-> IF j = after THEN before ELSE l.prev[j]]]

(* The assignments set and moveToHead share. *)
PutAtHead(l, k) ==
  [head |-> k,
   tail |-> IF l.tail = None THEN k ELSE l.tail,
   next |-> [l.next EXCEPT ![k] = l.head],
   prev |-> [j \in Keys |-> IF j = k THEN None
                            ELSE IF j = l.head THEN k ELSE l.prev[j]]]

(* Mutant of moveToHead: an entry that is used stays where it is. *)
moveToHeadNever(l, k) == l

moveToHead(l, k) == IF k = l.head THEN l ELSE PutAtHead(unlink(l, k), k)

(* The node of k leaves the list and the Map. *)
Remove(k) == /\ list' = unlink(list, k)
             /\ map' = [map EXCEPT ![k] = None]
             /\ totalSize' = totalSize - map[k].size
             /\ newer' = Order!KeepOrder(newer, Keys \ {k})
------------------------------------------------------------------------------
Get(k) ==
  /\ pc = "idle"
  /\ map[k] # None
  /\ list' = moveToHead(list, k)
  /\ newer' = Order!Renewed(newer, k, Cached)
  /\ UNCHANGED <<map, totalSize, pc, cursor, folder>>

(* Mutant of Set: the size of the value that is replaced is not taken off. *)
SetAddsUp(k, v) ==
  /\ pc = "idle"
  /\ map' = [map EXCEPT ![k] = v]
  /\ list' = IF map[k] = None THEN PutAtHead(list, k) ELSE moveToHead(list, k)
  /\ totalSize' = totalSize + v.size
  /\ newer' = Order!Renewed(newer, k, Cached \cup {k})
  /\ pc' = "evicting"
  /\ UNCHANGED <<cursor, folder>>

(* set up to its call of evict. *)
Set(k, v) ==
  /\ pc = "idle"
  /\ map' = [map EXCEPT ![k] = v]
  /\ list' = IF map[k] = None THEN PutAtHead(list, k) ELSE moveToHead(list, k)
  /\ totalSize' = totalSize + v.size - (IF map[k] = None THEN 0 ELSE map[k].size)
  /\ newer' = Order!Renewed(newer, k, Cached \cup {k})
  /\ pc' = "evicting"
  /\ UNCHANGED <<cursor, folder>>

Exceeds == Cardinality(Cached) > max \/ totalSize > maxSize

(* A turn of the loop in evict. *)
EvictTail ==
  /\ pc = "evicting"
  /\ list.tail # None /\ Exceeds
  /\ Remove(list.tail)
  /\ UNCHANGED <<pc, cursor, folder>>

EvictEnd ==
  /\ pc = "evicting"
  /\ list.tail = None \/ ~Exceeds
  /\ pc' = "idle"
  /\ UNCHANGED <<map, list, totalSize, cursor, folder, newer>>

(* delete, also of each key given to invalidateKeys. *)
Delete(k) ==
  /\ pc = "idle"
  /\ map[k] # None
  /\ Remove(k)
  /\ UNCHANGED <<pc, cursor, folder>>

Clear ==
  /\ pc = "idle"
  /\ map' = Nothing
  /\ list' = [list EXCEPT !.head = None, !.tail = None]
  /\ totalSize' = 0
  /\ newer' = {}
  /\ UNCHANGED <<pc, cursor, folder>>

(* invalidateEntriesByFolder: entries are deleted while the generator      *)
(* entries() stands on them; it reads `next` of a node it has left behind. *)
WalkBegin(f) ==
  /\ pc = "idle"
  /\ pc' = "walking" /\ folder' = f /\ cursor' = list.head
  /\ UNCHANGED <<map, list, totalSize, newer>>

(* Mutant of WalkOn: the loop goes on only behind an entry it deletes. *)
WalkOnBehind ==
  /\ pc = "walking" /\ cursor # None
  /\ IF map[cursor].folder = folder
     THEN Remove(cursor) /\ cursor' = list'.next[cursor]
     ELSE UNCHANGED <<map, list, totalSize, newer, cursor>>
  /\ UNCHANGED <<pc, folder>>

WalkOn ==
  /\ pc = "walking" /\ cursor # None
  /\ IF map[cursor].folder = folder THEN Remove(cursor)
     ELSE UNCHANGED <<map, list, totalSize, newer>>
  /\ cursor' = list'.next[cursor]
  /\ UNCHANGED <<pc, folder>>

WalkEnd ==
  /\ pc = "walking" /\ cursor = None
  /\ pc' = "idle" /\ folder' = None
  /\ UNCHANGED <<map, list, totalSize, cursor, newer>>

Loop == EvictTail \/ EvictEnd \/ WalkOn \/ WalkEnd

Next == \/ Loop \/ Clear
        \/ \E k \in Keys : Get(k) \/ Delete(k) \/ \E v \in Values : Set(k, v)
        \/ \E v \in Values : WalkBegin(v.folder)

(* Nothing interrupts a loop. *)
Spec == Init /\ [][Next]_vars /\ WF_vars(Loop)
------------------------------------------------------------------------------
Pointers == Keys \cup {None}

TypeOK ==
  /\ map \in [Keys -> Values \cup {None}]
  /\ list \in [head : Pointers, tail : Pointers,
               prev : [Keys -> Pointers], next : [Keys -> Pointers]]
  /\ pc \in {"idle", "evicting", "walking"}
  /\ cursor \in Pointers
  /\ newer \subseteq Keys \X Keys

(* n orders the keys of C from the one used last to the oldest. *)
OrderOK(C, n) ==
  /\ n \subseteq C \X C
  /\ \A j, k \in C : j # k => <<j, k>> \in n \/ <<k, j>> \in n
  /\ \A j, k \in C : <<j, k>> \in n => <<k, j>> \notin n
  /\ \A i, j, k \in C : <<i, j>> \in n /\ <<j, k>> \in n => <<i, k>> \in n

(* b comes right behind a in that order; None is before the first and      *)
(* behind the last.                                                        *)
Adjacent(C, n, a, b) ==
  /\ a \in C /\ b \in C => <<a, b>> \in n
  /\ \A k \in C : ~((a = None \/ <<a, k>> \in n) /\ (b = None \/ <<k, b>> \in n))

(* The list runs through the keys of C in the order of n, both ways. *)
ListOK(l, C, n) ==
  /\ l.head \in C \cup {None} /\ Adjacent(C, n, None, l.head)
  /\ l.tail \in C \cup {None} /\ Adjacent(C, n, l.tail, None)
  /\ \A k \in C : /\ l.next[k] \in C \cup {None} /\ Adjacent(C, n, k, l.next[k])
                  /\ l.prev[k] \in C \cup {None} /\ Adjacent(C, n, l.prev[k], k)

(* An iteration has left nothing of its folder behind. *)
WalkOK ==
  pc = "walking" =>
    /\ cursor \in Cached \cup {None}
    /\ \A k \in Cached : cursor = None \/ <<k, cursor>> \in newer =>
                           map[k].folder # folder

(* The inductive invariant of the list: it holds the keys of the Map in    *)
(* the order of their use, whatever was moved, unlinked or deleted.        *)
ListInv == /\ TypeOK
           /\ OrderOK(Cached, newer) /\ ListOK(list, Cached, newer)
           /\ WalkOK

(* totalSize is what the entries add up to, and between operations the     *)
(* cache is within its limits.                                             *)
SizeInv ==
  /\ totalSize = MapThenSumSet(LAMBDA k : map[k].size, Cached)
  /\ pc = "idle" => ~Exceeds

(* An entry that is given up is the one that was not used for longest.     *)
OldestGoes ==
  [][pc = "evicting" =>
       \A k \in Keys : map[k] # None /\ map'[k] = None =>
                         \A j \in Keys \ {k} : map[j] # None => <<j, k>> \in newer]_vars

(* The class implements the cache of RecencyCache: a loop that has begun   *)
(* counts as done.                                                         *)
Stays == CASE pc = "idle" -> Cached
           [] pc = "evicting" -> Order!Kept(map, newer)
           [] pc = "walking" -> {k \in Cached : map[k].folder # folder}
Abstract == INSTANCE RecencyCache WITH content <- Order!KeepContent(map, Stays),
                                       newer <- Order!KeepOrder(newer, Stays)
IsRecencyCache == Abstract!Spec

(* The loops end: also that over entries which are deleted on the way.     *)
LoopsEnd == pc # "idle" ~> pc = "idle"
==============================================================================
