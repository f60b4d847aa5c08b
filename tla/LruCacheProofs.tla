--------------------------- MODULE LruCacheProofs ---------------------------
(***************************************************************************)
(* Proofs about LRUCache, for any keys, entries and limits.  First the     *)
(* linked list: the lemmas are about the two operations the methods are    *)
(* built from, unlink and PutAtHead, for a list l of the keys in C in the  *)
(* order n.  Then the sizes, and that the class implements RecencyCache.   *)
(***************************************************************************)
EXTENDS LruCache, Sums

ListType == [head : Pointers, tail : Pointers,
             prev : [Keys -> Pointers], next : [Keys -> Pointers]]

LEMMA NoneIsNoKey == None \notin Keys /\ None \notin Values
BY LruAssumption

(* Membership in an order of which some keys were taken out. *)
LEMMA KeepOrderIs ==
  ASSUME NEW C, NEW n, n \subseteq C \X C, NEW S, NEW a, NEW b
  PROVE  <<a, b>> \in Order!KeepOrder(n, S) <=> <<a, b>> \in n /\ a \in S /\ b \in S
BY DEF Order!KeepOrder

LEMMA RenewedIs ==
  ASSUME NEW C, NEW n, n \subseteq C \X C, NEW S, NEW k, NEW a, NEW b
  PROVE  <<a, b>> \in Order!Renewed(n, k, S) <=>
           \/ <<a, b>> \in n /\ a \in S \ {k} /\ b \in S \ {k}
           \/ a = k /\ b \in S \ {k}
BY KeepOrderIs DEF Order!Renewed

LEMMA KeepOrderOK ==
  ASSUME NEW C, NEW n, OrderOK(C, n), NEW S
  PROVE  OrderOK(C \cap S, Order!KeepOrder(n, S))
<1> DEFINE m == Order!KeepOrder(n, S)
<1>1. n \subseteq C \X C
  BY DEF OrderOK
<1>2. \A a, b : <<a, b>> \in m <=> <<a, b>> \in n /\ a \in S /\ b \in S
  BY <1>1, KeepOrderIs
<1>3. m \subseteq (C \cap S) \X (C \cap S)
  BY <1>1 DEF Order!KeepOrder
<1> HIDE DEF m
<1>4. OrderOK(C \cap S, m)
  BY <1>2, <1>3 DEF OrderOK
<1>5. QED
  BY <1>4 DEF m

(* The pointers are those to the neighbours in the order, and so next and  *)
(* prev are inverse to each other.                                         *)
LEMMA Neighbours ==
  ASSUME NEW C, C \subseteq Keys, NEW n, OrderOK(C, n), NEW l, ListOK(l, C, n),
         NEW a \in C, NEW b \in C
  PROVE  l.next[a] = b <=> l.prev[b] = a
<1>1. ASSUME l.next[a] = b PROVE l.prev[b] = a
  <2>1. Adjacent(C, n, a, b)
    BY <1>1 DEF ListOK
  <2>2. l.prev[b] \in C \cup {None} /\ Adjacent(C, n, l.prev[b], b)
    BY DEF ListOK
  <2>3. QED
    BY <2>1, <2>2, NoneIsNoKey DEF OrderOK, Adjacent
<1>2. ASSUME l.prev[b] = a PROVE l.next[a] = b
  <2>1. Adjacent(C, n, a, b)
    BY <1>2 DEF ListOK
  <2>2. l.next[a] \in C \cup {None} /\ Adjacent(C, n, a, l.next[a])
    BY DEF ListOK
  <2>3. QED
    BY <2>1, <2>2, NoneIsNoKey DEF OrderOK, Adjacent
<1>3. QED
  BY <1>1, <1>2

LEMMA UnlinkType ==
  ASSUME NEW l \in ListType, NEW k \in Keys
  PROVE  /\ unlink(l, k) \in ListType
         /\ PutAtHead(l, k) \in ListType
BY DEF ListType, Pointers, unlink, PutAtHead

LEMMA UnlinkOK ==
  ASSUME NEW C, C \subseteq Keys, NEW n, OrderOK(C, n),
         NEW l \in ListType, ListOK(l, C, n), NEW k \in C
  PROVE  ListOK(unlink(l, k), C \ {k}, Order!KeepOrder(n, Keys \ {k}))
<1> DEFINE m == Order!KeepOrder(n, Keys \ {k})
           D == C \ {k}
           u == unlink(l, k)
           before == l.prev[k]
           after == l.next[k]
<1>1. n \subseteq C \X C
  BY DEF OrderOK
<1>2. \A a, b : <<a, b>> \in m <=> <<a, b>> \in n /\ a \in D /\ b \in D
  <2>1. \A a, b : <<a, b>> \in n => a \in C /\ b \in C
    BY <1>1
  <2>2. \A a, b : <<a, b>> \in m <=> <<a, b>> \in n /\ a \in Keys \ {k} /\ b \in Keys \ {k}
    BY <1>1 DEF Order!KeepOrder
  <2>3. QED
    BY <2>1, <2>2
<1>3. /\ u.head = IF before = None THEN after ELSE l.head
      /\ u.tail = IF after = None THEN before ELSE l.tail
      /\ \A j \in Keys : /\ u.next[j] = IF j = before THEN after ELSE l.next[j]
                         /\ u.prev[j] = IF j = after THEN before ELSE l.prev[j]
  BY DEF unlink
<1>4. \A a, b \in C : l.next[a] = b <=> l.prev[b] = a
  BY Neighbours
<1>5. /\ before \in D \cup {None} /\ after \in D \cup {None}
      /\ Adjacent(C, n, before, k) /\ Adjacent(C, n, k, after)
  BY NoneIsNoKey DEF OrderOK, ListOK, Adjacent
<1> HIDE DEF m, D, u, before, after
<1>6. Adjacent(D, m, before, after)
  BY <1>1, <1>2, <1>5, NoneIsNoKey DEF OrderOK, Adjacent, D
<1>7. ASSUME NEW a \in C \cup {None}, NEW b \in C \cup {None}, Adjacent(C, n, a, b),
             a # k, b # k
      PROVE  Adjacent(D, m, a, b)
  BY <1>2, <1>7, NoneIsNoKey DEF Adjacent, D
<1>8. u.head \in D \cup {None} /\ Adjacent(D, m, None, u.head)
  <2>1. CASE before = None
    <3>1. u.head = after
      BY <2>1, <1>3
    <3>2. QED
      BY <2>1, <3>1, <1>5, <1>6
  <2>2. CASE before # None
    <3>1. l.head # k
      BY <2>2, <1>5, NoneIsNoKey DEF ListOK, Adjacent, D
    <3>2. l.head \in D \cup {None} /\ Adjacent(C, n, None, l.head)
      BY <3>1 DEF ListOK, D
    <3>3. QED
      BY <2>2, <3>1, <3>2, <1>3, <1>7, NoneIsNoKey DEF D
  <2>3. QED
    BY <2>1, <2>2
<1>9. u.tail \in D \cup {None} /\ Adjacent(D, m, u.tail, None)
  <2>1. CASE after = None
    <3>1. u.tail = before
      BY <2>1, <1>3
    <3>2. QED
      BY <2>1, <3>1, <1>5, <1>6
  <2>2. CASE after # None
    <3>1. l.tail # k
      BY <2>2, <1>5, NoneIsNoKey DEF ListOK, Adjacent, D
    <3>2. l.tail \in D \cup {None} /\ Adjacent(C, n, l.tail, None)
      BY <3>1 DEF ListOK, D
    <3>3. QED
      BY <2>2, <3>1, <3>2, <1>3, <1>7, NoneIsNoKey DEF D
  <2>3. QED
    BY <2>1, <2>2
<1>10. ASSUME NEW j \in D
       PROVE  u.next[j] \in D \cup {None} /\ Adjacent(D, m, j, u.next[j])
  <2>1. CASE j = before
    BY <2>1, <1>3, <1>5, <1>6 DEF D
  <2>2. CASE j # before
    <3>1. l.next[j] # k
      BY <2>2, <1>4 DEF D, before
    <3>2. l.next[j] \in D \cup {None} /\ Adjacent(C, n, j, l.next[j])
      BY <3>1 DEF ListOK, D
    <3>3. QED
      BY <2>2, <3>1, <3>2, <1>3, <1>7, NoneIsNoKey DEF D
  <2>3. QED
    BY <2>1, <2>2
<1>11. ASSUME NEW j \in D
       PROVE  u.prev[j] \in D \cup {None} /\ Adjacent(D, m, u.prev[j], j)
  <2>1. CASE j = after
    BY <2>1, <1>3, <1>5, <1>6 DEF D
  <2>2. CASE j # after
    <3>1. l.prev[j] # k
      BY <2>2, <1>4 DEF D, after
    <3>2. l.prev[j] \in D \cup {None} /\ Adjacent(C, n, l.prev[j], j)
      BY <3>1 DEF ListOK, D
    <3>3. QED
      BY <2>2, <3>1, <3>2, <1>3, <1>7, NoneIsNoKey DEF D
  <2>3. QED
    BY <2>1, <2>2
<1>12. QED
  BY <1>8, <1>9, <1>10, <1>11 DEF ListOK, m, D, u

(* k, which is not in the list, comes before the keys of C. *)
LEMMA PutAtHeadOK ==
  ASSUME NEW C, C \subseteq Keys, NEW n, OrderOK(C, n),
         NEW l \in ListType, ListOK(l, C, n), NEW k \in Keys \ C,
         NEW m, m \subseteq (C \cup {k}) \X (C \cup {k}),
         \A a, b : <<a, b>> \in m <=> <<a, b>> \in n \/ (a = k /\ b \in C)
  PROVE  OrderOK(C \cup {k}, m) /\ ListOK(PutAtHead(l, k), C \cup {k}, m)
<1> DEFINE D == C \cup {k}
           u == PutAtHead(l, k)
<1>1. \A a, b : <<a, b>> \in n => a \in C /\ b \in C
  BY DEF OrderOK
<1>2. OrderOK(D, m)
  BY <1>1 DEF OrderOK
<1>3. /\ u.head = k
      /\ u.tail = IF l.tail = None THEN k ELSE l.tail
      /\ \A j \in Keys :
           /\ u.next[j] = IF j = k THEN l.head ELSE l.next[j]
           /\ u.prev[j] = IF j = k THEN None ELSE IF j = l.head THEN k ELSE l.prev[j]
  BY DEF PutAtHead, ListType
<1>4. k # None /\ None \notin C
  BY NoneIsNoKey
<1> HIDE DEF u
<1>5. Adjacent(D, m, None, k)
  BY <1>1, <1>4 DEF Adjacent
<1>6. l.head \in C \cup {None} /\ Adjacent(D, m, k, l.head)
  BY <1>1, <1>4 DEF Adjacent, ListOK
<1>7. ASSUME NEW a \in C, NEW b \in C \cup {None}, Adjacent(C, n, a, b)
      PROVE  Adjacent(D, m, a, b)
  BY <1>1, <1>4, <1>7 DEF Adjacent
<1>8. u.tail \in D \cup {None} /\ Adjacent(D, m, u.tail, None)
  <2>1. CASE l.tail = None
    <3>1. C = {}
      BY <2>1, <1>4 DEF ListOK, Adjacent
    <3>2. QED
      BY <2>1, <3>1, <1>1, <1>3, <1>4 DEF Adjacent
  <2>2. CASE l.tail # None
    BY <2>2, <1>3, <1>7 DEF ListOK
  <2>3. QED
    BY <2>1, <2>2
<1>9. ASSUME NEW j \in D
      PROVE  u.next[j] \in D \cup {None} /\ Adjacent(D, m, j, u.next[j])
  <2>1. CASE j = k
    BY <2>1, <1>3, <1>6
  <2>2. CASE j # k
    BY <2>2, <1>3, <1>7 DEF ListOK
  <2>3. QED
    BY <2>1, <2>2
<1>10. ASSUME NEW j \in D
       PROVE  u.prev[j] \in D \cup {None} /\ Adjacent(D, m, u.prev[j], j)
  <2>1. CASE j = k
    BY <2>1, <1>3, <1>5
  <2>2. CASE j # k /\ j = l.head
    BY <2>2, <1>3, <1>6
  <2>3. CASE j # k /\ j # l.head
    <3>1. l.prev[j] # None
      BY <2>3, <1>4 DEF ListOK, Adjacent, OrderOK
    <3>2. l.prev[j] \in C /\ Adjacent(C, n, l.prev[j], j)
      BY <2>3, <3>1 DEF ListOK
    <3>3. u.prev[j] = l.prev[j]
      BY <2>3, <1>3
    <3>4. QED
      BY <2>3, <3>2, <3>3, <1>7
  <2>4. QED
    BY <2>1, <2>2, <2>3
<1>11. QED
  BY <1>2, <1>3, <1>5, <1>8, <1>9, <1>10 DEF ListOK, u

(* A key of the list becomes the one used last. *)
LEMMA MoveToHeadOK ==
  ASSUME NEW C, C \subseteq Keys, NEW n, OrderOK(C, n),
         NEW l \in ListType, ListOK(l, C, n), NEW k \in C
  PROVE  /\ moveToHead(l, k) \in ListType
         /\ OrderOK(C, Order!Renewed(n, k, C))
         /\ ListOK(moveToHead(l, k), C, Order!Renewed(n, k, C))
<1> DEFINE D == C \ {k}
           rest == Order!KeepOrder(n, Keys \ {k})
           m == Order!Renewed(n, k, C)
           u == unlink(l, k)
<1>1. /\ k \in Keys /\ k \notin D /\ D \subseteq Keys /\ C = D \cup {k}
      /\ n \subseteq C \X C
  BY DEF OrderOK
<1>2. u \in ListType /\ ListOK(u, D, rest)
  BY <1>1, UnlinkType, UnlinkOK
<1>3. OrderOK(D, rest)
  <2>1. C \cap (Keys \ {k}) = D
    BY <1>1
  <2>2. QED
    BY <2>1, KeepOrderOK
<1>4. \A a, b : <<a, b>> \in m <=> <<a, b>> \in rest \/ (a = k /\ b \in D)
  BY <1>1 DEF Order!Renewed, Order!KeepOrder
<1>5. m \subseteq C \X C
  BY <1>1 DEF Order!Renewed, Order!KeepOrder
<1> HIDE DEF D, rest, m, u
<1>6. OrderOK(C, m) /\ ListOK(PutAtHead(u, k), C, m)
  BY <1>1, <1>2, <1>3, <1>4, <1>5, PutAtHeadOK
<1>7. PutAtHead(u, k) \in ListType
  BY <1>1, <1>2, UnlinkType
<1>8. CASE k # l.head
  BY <1>6, <1>7, <1>8 DEF moveToHead, u, m
<1>9. CASE k = l.head
  <2>1. \A j \in C : <<j, k>> \notin n
    BY <1>9, <1>1, NoneIsNoKey DEF ListOK, Adjacent
  <2>2. \A a, b : <<a, b>> \in m <=> <<a, b>> \in n
    BY <1>1, <2>1 DEF m, Order!Renewed, Order!KeepOrder, OrderOK
  <2>3. \A p \in C \X C : p = <<p[1], p[2]>>
    OBVIOUS
  <2>4. m = n
    BY <1>1, <1>5, <2>2, <2>3
  <2>5. QED
    BY <1>6, <1>9, <2>4 DEF moveToHead, m
<1>10. QED
  BY <1>8, <1>9
------------------------------------------------------------------------------
LEMMA InitListInv == Init => ListInv
<1> SUFFICES ASSUME Init PROVE ListInv
  OBVIOUS
<1>1. TypeOK
  BY DEF Init, TypeOK, Nothing, Pointers
<1>2. Cached = {} /\ newer = {}
  BY DEF Init, Cached, Nothing
<1>3. OrderOK(Cached, newer) /\ ListOK(list, Cached, newer) /\ WalkOK
  BY <1>2 DEF Init, OrderOK, ListOK, Adjacent, WalkOK
<1>4. QED
  BY <1>1, <1>3 DEF ListInv

(* What delete and a turn of evict or of an iteration do to the list. *)
LEMMA RemoveOK ==
  ASSUME TypeOK, OrderOK(Cached, newer), ListOK(list, Cached, newer),
         NEW k \in Cached, Remove(k)
  PROVE  /\ Cached' = Cached \ {k}
         /\ map' \in [Keys -> Values \cup {None}] /\ list' \in ListType
         /\ newer' \subseteq Keys \X Keys
         /\ OrderOK(Cached', newer') /\ ListOK(list', Cached', newer')
         /\ newer' = Order!KeepOrder(newer, Keys \ {k})
         /\ list' = unlink(list, k)
         /\ \A j \in Keys \ {k} : map'[j] = map[j]
<1>1. k \in Keys /\ Cached \subseteq Keys /\ list \in ListType
  BY DEF Cached, TypeOK, ListType
<1>2. /\ map' \in [Keys -> Values \cup {None}]
      /\ Cached' = Cached \ {k}
      /\ \A j \in Keys \ {k} : map'[j] = map[j]
  BY <1>1 DEF Remove, TypeOK, Cached
<1>3. list' \in ListType /\ ListOK(list', Cached', newer')
  BY <1>1, <1>2, UnlinkType, UnlinkOK DEF Remove
<1>4. Cached \cap (Keys \ {k}) = Cached'
  BY <1>1, <1>2
<1>5. OrderOK(Cached', newer')
  BY <1>4, KeepOrderOK DEF Remove
<1>6. newer' \subseteq Keys \X Keys
  BY DEF Remove, TypeOK, Order!KeepOrder
<1>7. QED
  BY <1>2, <1>3, <1>5, <1>6 DEF Remove

(* A used entry and a new one come to the head. *)
LEMMA GetOK ==
  ASSUME ListInv, NEW k \in Keys, Get(k)
  PROVE  ListInv'
<1>1. k \in Cached /\ Cached \subseteq Keys /\ list \in ListType /\ Cached' = Cached
  BY DEF Get, Cached, ListInv, TypeOK, ListType
<1>2. list' \in ListType /\ OrderOK(Cached', newer') /\ ListOK(list', Cached', newer')
  BY <1>1, MoveToHeadOK DEF Get, ListInv
<1>3. TypeOK'
  <2>1. newer' \subseteq Keys \X Keys
    BY <1>1, <1>2 DEF OrderOK
  <2>2. QED
    BY <1>2, <2>1 DEF Get, ListInv, TypeOK, ListType
<1>4. WalkOK'
  BY DEF Get, WalkOK
<1>5. QED
  BY <1>2, <1>3, <1>4 DEF ListInv

LEMMA SetOK ==
  ASSUME ListInv, NEW k \in Keys, NEW v \in Values, Set(k, v)
  PROVE  ListInv'
<1>1. /\ Cached \subseteq Keys /\ list \in ListType
      /\ map' \in [Keys -> Values \cup {None}]
      /\ Cached' = Cached \cup {k}
  BY NoneIsNoKey DEF Set, Cached, ListInv, TypeOK, ListType
<1>2. list' \in ListType /\ OrderOK(Cached', newer') /\ ListOK(list', Cached', newer')
  <2>1. CASE map[k] # None
    <3>1. k \in Cached /\ Cached' = Cached
      BY <1>1, <2>1 DEF Cached
    <3>2. QED
      BY <1>1, <2>1, <3>1, MoveToHeadOK DEF Set, ListInv
  <2>2. CASE map[k] = None
    <3>1. k \in Keys \ Cached /\ newer \subseteq Cached \X Cached
      BY <2>2 DEF Cached, ListInv, OrderOK
    <3>2. \A a, b : <<a, b>> \in newer' <=> <<a, b>> \in newer \/ (a = k /\ b \in Cached)
      BY <3>1 DEF Set, Order!Renewed, Order!KeepOrder
    <3>3. newer' \subseteq (Cached \cup {k}) \X (Cached \cup {k})
      BY <3>1 DEF Set, Order!Renewed, Order!KeepOrder
    <3>4. list' = PutAtHead(list, k)
      BY <2>2 DEF Set
    <3>5. OrderOK(Cached \cup {k}, newer') /\ ListOK(PutAtHead(list, k), Cached \cup {k}, newer')
      BY <1>1, <3>1, <3>2, <3>3, PutAtHeadOK DEF ListInv
    <3>6. QED
      BY <1>1, <3>4, <3>5, UnlinkType
  <2>3. QED
    BY <2>1, <2>2
<1>3. TypeOK'
  <2>1. newer' \subseteq Keys \X Keys
    BY <1>1, <1>2 DEF OrderOK
  <2>2. QED
    BY <1>1, <1>2, <2>1 DEF Set, ListInv, TypeOK, ListType
<1>4. WalkOK'
  BY DEF Set, WalkOK
<1>5. QED
  BY <1>2, <1>3, <1>4 DEF ListInv

LEMMA DeleteOK ==
  ASSUME ListInv, NEW k \in Cached, Remove(k), pc # "walking",
         UNCHANGED <<pc, cursor, folder>>
  PROVE  ListInv'
<1>1. TypeOK'
  BY RemoveOK DEF ListInv, TypeOK, ListType
<1>2. WalkOK'
  BY DEF WalkOK
<1>3. QED
  BY <1>1, <1>2, RemoveOK DEF ListInv

LEMMA ClearOK ==
  ASSUME ListInv, Clear
  PROVE  ListInv'
<1>1. TypeOK'
  BY DEF Clear, ListInv, TypeOK, Nothing, Pointers
<1>2. Cached' = {} /\ newer' = {}
  BY DEF Clear, Cached, Nothing
<1>3. list'.head = None /\ list'.tail = None
  BY DEF Clear, ListInv, TypeOK
<1>4. OrderOK(Cached', newer') /\ ListOK(list', Cached', newer')
  BY <1>2, <1>3 DEF OrderOK, ListOK, Adjacent
<1>5. WalkOK'
  BY DEF Clear, WalkOK
<1>6. QED
  BY <1>1, <1>4, <1>5 DEF ListInv

(* The entries the iteration has passed are those used after the one it    *)
(* stands on; a turn adds that one, which stays only if its folder is      *)
(* another.                                                                *)
LEMMA WalkOnOK ==
  ASSUME ListInv, WalkOn
  PROVE  ListInv'
<1> DEFINE after == list.next[cursor]
<1>1. cursor \in Cached /\ Cached \subseteq Keys /\ None \notin Cached
  BY NoneIsNoKey DEF WalkOn, ListInv, WalkOK, Cached
<1>2. /\ after \in Cached \cup {None} /\ after # cursor
      /\ Adjacent(Cached, newer, cursor, after)
  BY <1>1 DEF ListInv, ListOK, OrderOK, Adjacent
<1>3. \A k \in Cached \ {cursor} :
         after = None \/ <<k, after>> \in newer => map[k].folder # folder
  BY <1>1, <1>2 DEF WalkOn, ListInv, WalkOK, OrderOK, Adjacent
<1>4. CASE map[cursor].folder # folder
  <2>1. UNCHANGED <<map, list, newer, pc, folder, Cached>> /\ cursor' = after
    BY <1>4 DEF WalkOn, Cached
  <2>2. TypeOK'
    BY <1>1, <1>2, <2>1 DEF ListInv, TypeOK, Pointers
  <2>3. WalkOK'
    BY <1>2, <1>3, <1>4, <2>1 DEF WalkOK
  <2>4. QED
    BY <2>1, <2>2, <2>3 DEF ListInv, OrderOK, ListOK, Adjacent
<1>5. CASE map[cursor].folder = folder
  <2>1. Remove(cursor) /\ UNCHANGED <<pc, folder>>
    BY <1>5 DEF WalkOn
  <2>2. /\ Cached' = Cached \ {cursor}
        /\ map' \in [Keys -> Values \cup {None}] /\ list' \in ListType
        /\ newer' \subseteq Keys \X Keys
        /\ OrderOK(Cached', newer') /\ ListOK(list', Cached', newer')
        /\ newer' = Order!KeepOrder(newer, Keys \ {cursor})
        /\ list' = unlink(list, cursor)
        /\ \A j \in Keys \ {cursor} : map'[j] = map[j]
    BY <1>1, <2>1, RemoveOK DEF ListInv
  <2>3. cursor' = after
    <3>1. list.prev[cursor] # cursor
      BY <1>1 DEF ListInv, ListOK, OrderOK, Adjacent
    <3>2. list'.next[cursor] = after
      BY <1>1, <2>2, <3>1 DEF unlink
    <3>3. QED
      BY <3>2 DEF WalkOn
  <2>4. TypeOK'
    BY <1>1, <1>2, <2>1, <2>2, <2>3 DEF ListInv, TypeOK, ListType, Pointers
  <2>5. \A a, b : <<a, b>> \in newer' => <<a, b>> \in newer
    BY <2>2 DEF Order!KeepOrder
  <2>6. WalkOK'
    BY <1>1, <1>2, <1>3, <2>1, <2>2, <2>3, <2>5 DEF WalkOK
  <2>7. QED
    BY <2>2, <2>4, <2>6 DEF ListInv
<1>6. QED
  BY <1>4, <1>5

LEMMA NextListInv == ListInv /\ [Next]_vars => ListInv'
<1> SUFFICES ASSUME ListInv, [Next]_vars PROVE ListInv'
  OBVIOUS
<1>1. CASE UNCHANGED vars
  BY <1>1 DEF vars, ListInv, TypeOK, OrderOK, ListOK, Adjacent, WalkOK, Cached
<1>2. ASSUME NEW k \in Keys, Get(k) PROVE ListInv'
  BY <1>2, GetOK
<1>3. ASSUME NEW k \in Keys, NEW v \in Values, Set(k, v) PROVE ListInv'
  BY <1>3, SetOK
<1>4. ASSUME NEW k \in Keys, Delete(k) PROVE ListInv'
  <2>1. k \in Cached /\ pc # "walking"
    BY <1>4 DEF Delete, Cached
  <2>2. QED
    BY <1>4, <2>1, DeleteOK DEF Delete
<1>5. CASE Clear
  BY <1>5, ClearOK
<1>6. CASE EvictTail
  <2>1. list.tail \in Cached /\ pc # "walking"
    BY <1>6 DEF EvictTail, ListInv, ListOK
  <2>2. QED
    BY <1>6, <2>1, DeleteOK DEF EvictTail
<1>7. CASE EvictEnd
  BY <1>7 DEF EvictEnd, ListInv, TypeOK, OrderOK, ListOK, Adjacent, WalkOK, Cached
<1>8. ASSUME NEW f, WalkBegin(f) PROVE ListInv'
  <2>1. UNCHANGED <<map, list, newer, Cached>> /\ cursor' = list.head /\ pc' = "walking"
    BY <1>8 DEF WalkBegin, Cached
  <2>2. TypeOK'
    BY <2>1 DEF ListInv, TypeOK
  <2>3. WalkOK'
    BY <2>1 DEF ListInv, ListOK, Adjacent, WalkOK
  <2>4. QED
    BY <2>1, <2>2, <2>3 DEF ListInv, OrderOK, ListOK, Adjacent
<1>9. CASE WalkOn
  BY <1>9, WalkOnOK
<1>10. CASE WalkEnd
  BY <1>10 DEF WalkEnd, ListInv, TypeOK, OrderOK, ListOK, Adjacent, WalkOK, Cached
<1>11. QED
  BY <1>1, <1>2, <1>3, <1>4, <1>5, <1>6, <1>7, <1>8, <1>9, <1>10 DEF Next, Loop

(* The list of the class always holds the keys of its Map in the order of  *)
(* their use, forwards and backwards, and an iteration that deletes what   *)
(* it stands on has passed over nothing of its folder.                     *)
THEOREM ListIsSound == Spec => []ListInv
<1>1. QED
  BY InitListInv, NextListInv, PTL DEF Spec

(* evict gives up the entry that was not used for longest. *)
THEOREM OldestIsEvicted == Spec => OldestGoes
<1>1. ASSUME ListInv, [Next]_vars, pc = "evicting", NEW k \in Keys,
             map[k] # None, map'[k] = None, NEW j \in Keys \ {k}, map[j] # None
      PROVE  <<j, k>> \in newer
  <2>1. EvictTail
    BY <1>1 DEF Next, Loop, vars, EvictEnd, WalkOn, WalkEnd, Clear, Get, Delete, Set,
                WalkBegin
  <2>2. k = list.tail
    BY <1>1, <2>1 DEF EvictTail, Remove, ListInv, TypeOK
  <2>3. j \in Cached /\ k \in Cached
    BY <1>1 DEF Cached
  <2>4. QED
    BY <1>1, <2>2, <2>3 DEF ListInv, ListOK, OrderOK, Adjacent
<1>2. ListInv /\ [Next]_vars =>
        (pc = "evicting" =>
          \A k \in Keys : map[k] # None /\ map'[k] = None =>
            \A j \in Keys \ {k} : map[j] # None => <<j, k>> \in newer)
  BY <1>1
<1>3. QED
  BY <1>2, ListIsSound, PTL DEF Spec, OldestGoes
------------------------------------------------------------------------------
(* Sizes: the total, and the limits between the writes and their eviction. *)
Added == totalSize = Sizes(map, Cached)
LimitsInv == Added /\ (pc # "evicting" => ~Exceeds)

LEMMA CachedTypes ==
  ASSUME ListInv
  PROVE  /\ IsFiniteSet(Cached) /\ Cached \subseteq Keys
         /\ Cardinality(Cached) \in Nat
         /\ \A k \in Cached : map[k] \in Values /\ map[k].size \in Nat
         /\ Sizes(map, Cached) \in Nat
<1>1. IsFiniteSet(Cached) /\ Cached \subseteq Keys
  <2>1. Cached \subseteq Keys
    BY DEF Cached
  <2>2. QED
    BY <2>1, FS_Subset, LruAssumption
<1>2. \A k \in Cached : map[k] \in Values /\ map[k].size \in Nat
  BY LruAssumption DEF Cached, ListInv, TypeOK
<1>3. QED
  BY <1>1, <1>2, FS_CardinalityType, SizesType

(* Nothing is cached: the cache is within its limits. *)
LEMMA EmptyFits ==
  ASSUME Cached = {}, Added
  PROVE  totalSize = 0 /\ ~Exceeds
BY FS_EmptySet, SizesEmpty, LruAssumption DEF Added, Exceeds

(* An entry less, and its size is off the total. *)
LEMMA RemoveAdds ==
  ASSUME ListInv, Added, NEW k \in Cached, Remove(k)
  PROVE  Added' /\ (~Exceeds => ~Exceeds')
<1>1. /\ Cached' = Cached \ {k} /\ \A j \in Keys \ {k} : map'[j] = map[j]
  BY RemoveOK DEF ListInv
<1>2. IsFiniteSet(Cached \ {k}) /\ Cached \ {k} \subseteq Cached
  BY CachedTypes, FS_Subset
<1>3. Sizes(map', Cached \ {k}) = Sizes(map, Cached \ {k})
  <2>1. \A j \in Cached \ {k} : map'[j].size = map[j].size
    BY <1>1, CachedTypes
  <2>2. QED
    BY <1>2, <2>1, SizesSame
<1>4. Sizes(map, Cached) = map[k].size + Sizes(map, Cached \ {k})
  BY CachedTypes, SizesRemove
<1>5. Sizes(map, Cached \ {k}) \in Nat /\ map[k].size \in Nat
  BY <1>2, CachedTypes, SizesType
<1>6. totalSize' = Sizes(map', Cached')
  BY <1>1, <1>3, <1>4, <1>5 DEF Remove, Added
<1>7. Cardinality(Cached \ {k}) = Cardinality(Cached) - 1
  BY CachedTypes, FS_RemoveElement
<1>8. totalSize' <= totalSize /\ totalSize' \in Nat /\ totalSize \in Nat
  BY <1>1, <1>3, <1>4, <1>5, <1>6 DEF Added
<1>9. QED
  BY <1>1, <1>6, <1>7, <1>8, CachedTypes, LruAssumption DEF Added, Exceeds

LEMMA SetAdds ==
  ASSUME ListInv, Added, NEW k \in Keys, NEW v \in Values, Set(k, v)
  PROVE  Added'
<1> DEFINE rest == Cached \ {k}
<1>1. /\ map' = [map EXCEPT ![k] = v] /\ map'[k] = v
      /\ Cached' = Cached \cup {k}
      /\ \A j \in rest : map'[j] = map[j]
  BY NoneIsNoKey DEF Set, Cached, ListInv, TypeOK
<1>2. IsFiniteSet(rest) /\ IsFiniteSet(Cached')
  BY <1>1, CachedTypes, FS_Subset, FS_AddElement
<1>3. /\ Cached' \ {k} = rest /\ v.size \in Nat
      /\ \A j \in Cached' : map'[j].size \in Int
  BY <1>1, CachedTypes, LruAssumption
<1>4. Sizes(map', Cached') = v.size + Sizes(map', rest)
  <2> DEFINE D == Cached'
  <2>1. IsFiniteSet(D) /\ k \in D /\ D \ {k} = rest /\ \A j \in D : map'[j].size \in Int
    BY <1>1, <1>2, <1>3
  <2> HIDE DEF D, rest
  <2>2. Sizes(map', D) = map'[k].size + Sizes(map', D \ {k})
    BY <2>1, SizesRemove
  <2>3. QED
    BY <1>1, <2>1, <2>2 DEF D
<1>5. Sizes(map', rest) = Sizes(map, rest)
  <2>1. \A j \in rest : map'[j].size = map[j].size
    BY <1>1
  <2> HIDE DEF rest
  <2>2. QED
    BY <1>2, <2>1, SizesSame
<1>6. Sizes(map, rest) \in Nat
  BY <1>2, CachedTypes, SizesType
<1>7. CASE map[k] = None
  <2>1. rest = Cached
    BY <1>7 DEF Cached
  <2>2. totalSize' = totalSize + v.size - 0
    BY <1>7 DEF Set
  <2>3. totalSize = Sizes(map, rest)
    BY <2>1 DEF Added
  <2> HIDE DEF rest
  <2>4. QED
    BY <1>3, <1>4, <1>5, <1>6, <2>2, <2>3 DEF Added
<1>8. CASE map[k] # None
  <2>1. k \in Cached
    BY <1>8 DEF Cached
  <2>2. Sizes(map, Cached) = map[k].size + Sizes(map, rest) /\ map[k].size \in Nat
    BY <2>1, CachedTypes, SizesRemove
  <2>3. QED
    BY <1>3, <1>4, <1>5, <1>6, <1>8, <2>2 DEF Added, Set
<1>9. QED
  BY <1>7, <1>8

LEMMA InitLimits == Init => LimitsInv
<1> SUFFICES ASSUME Init PROVE LimitsInv
  OBVIOUS
<1>1. Cached = {} /\ totalSize = 0
  BY DEF Init, Cached, Nothing
<1>2. QED
  BY <1>1, SizesEmpty, EmptyFits DEF LimitsInv, Added

LEMMA NextLimits == ListInv /\ LimitsInv /\ [Next]_vars => LimitsInv'
<1> SUFFICES ASSUME ListInv, LimitsInv, [Next]_vars PROVE LimitsInv'
  OBVIOUS
<1> USE DEF LimitsInv
<1>1. ASSUME UNCHANGED <<map, totalSize>> PROVE Added' /\ (Exceeds' <=> Exceeds)
  BY <1>1 DEF Added, Exceeds, Cached
<1>2. CASE UNCHANGED vars
  BY <1>1, <1>2 DEF vars
<1>3. ASSUME NEW k \in Keys, Get(k) PROVE LimitsInv'
  BY <1>1, <1>3 DEF Get
<1>4. ASSUME NEW k \in Keys, NEW v \in Values, Set(k, v) PROVE LimitsInv'
  BY <1>4, SetAdds DEF Set
<1>5. ASSUME NEW k \in Keys, Delete(k) PROVE LimitsInv'
  BY <1>5, RemoveAdds DEF Delete, Cached
<1>6. CASE Clear
  <2>1. Cached' = {} /\ totalSize' = 0
    BY <1>6 DEF Clear, Cached, Nothing
  <2>2. Added' /\ ~Exceeds'
    BY <2>1, SizesEmpty, FS_EmptySet, LruAssumption DEF Added, Exceeds
  <2>3. QED
    BY <2>2
<1>7. CASE EvictTail
  <2>1. list.tail \in Cached
    BY <1>7 DEF EvictTail, ListInv, ListOK
  <2>2. QED
    BY <1>7, <2>1, RemoveAdds DEF EvictTail
<1>8. CASE EvictEnd
  <2>1. ~Exceeds
    <3>1. CASE list.tail = None
      <4>1. Cached = {}
        BY <3>1, NoneIsNoKey DEF ListInv, ListOK, Adjacent, Cached
      <4>2. QED
        BY <4>1, EmptyFits
    <3>2. QED
      BY <1>8, <3>1 DEF EvictEnd
  <2>2. QED
    BY <1>1, <1>8, <2>1 DEF EvictEnd
<1>9. ASSUME NEW f, WalkBegin(f) PROVE LimitsInv'
  BY <1>1, <1>9 DEF WalkBegin
<1>10. CASE WalkOn
  <2>1. cursor \in Cached
    BY <1>10 DEF WalkOn, ListInv, WalkOK
  <2>2. QED
    BY <1>1, <1>10, <2>1, RemoveAdds DEF WalkOn
<1>11. CASE WalkEnd
  BY <1>1, <1>11 DEF WalkEnd
<1>12. QED
  BY <1>2, <1>3, <1>4, <1>5, <1>6, <1>7, <1>8, <1>9, <1>10, <1>11 DEF Next, Loop

LEMMA LimitsKept == Spec => [](ListInv /\ LimitsInv)
<1>1. Init => ListInv /\ LimitsInv
  BY InitListInv, InitLimits
<1>2. (ListInv /\ LimitsInv) /\ [Next]_vars => (ListInv /\ LimitsInv)'
  BY NextListInv, NextLimits
<1>3. QED
  BY <1>1, <1>2, PTL DEF Spec

(* The running total of the class is what its entries add up to, however   *)
(* they were replaced, evicted or deleted, and no operation leaves the     *)
(* cache beyond its limits.                                                *)
THEOREM SizesAddUp == Spec => []SizeInv
<1>1. LimitsInv => SizeInv
  BY DEF LimitsInv, Added, SizeInv, Sizes
<1>2. QED
  BY <1>1, LimitsKept, PTL
------------------------------------------------------------------------------
(* The refinement of RecencyCache. *)
Content == Order!KeepContent(map, Stays)
Newer == Order!KeepOrder(newer, Stays)

(* What is kept of a content and of an order depends on the kept alone. *)
LEMMA SameKept ==
  ASSUME NEW c, NEW d, NEW m, NEW n, NEW S, NEW T,
         \A k \in Keys : k \in S /\ c[k] # None => k \in T /\ c[k] = d[k],
         \A k \in Keys : k \in T /\ d[k] # None => k \in S /\ c[k] = d[k],
         m \subseteq Keys \X Keys, n \subseteq Keys \X Keys,
         \A j, k \in Keys : <<j, k>> \in m /\ j \in S /\ k \in S <=>
                              <<j, k>> \in n /\ j \in T /\ k \in T
  PROVE  /\ Order!KeepContent(c, S) = Order!KeepContent(d, T)
         /\ Order!KeepOrder(m, S) = Order!KeepOrder(n, T)
<1>1. \A k \in Keys : (IF k \in S THEN c[k] ELSE None) = (IF k \in T THEN d[k] ELSE None)
  OBVIOUS
<1>2. Order!KeepContent(c, S) = Order!KeepContent(d, T)
  BY <1>1 DEF Order!KeepContent
<1>3. \A p \in Keys \X Keys : p = <<p[1], p[2]>> /\ p[1] \in Keys /\ p[2] \in Keys
  OBVIOUS
<1>4. \A p \in Keys \X Keys : p \in Order!KeepOrder(m, S) <=> p \in Order!KeepOrder(n, T)
  <2> TAKE p \in Keys \X Keys
  <2>1. PICK j \in Keys, k \in Keys : p = <<j, k>>
    BY <1>3
  <2>2. p[1] = j /\ p[2] = k
    BY <2>1
  <2>3. QED
    BY <2>1, <2>2 DEF Order!KeepOrder
<1>5. Order!KeepOrder(m, S) \subseteq Keys \X Keys /\ Order!KeepOrder(n, T) \subseteq Keys \X Keys
  BY DEF Order!KeepOrder
<1>6. QED
  BY <1>2, <1>4, <1>5

(* Everything stays: what is kept is the whole. *)
LEMMA WholeKept ==
  ASSUME NEW c \in [Keys -> Values \cup {None}], NEW C, C = {k \in Keys : c[k] # None},
         NEW n, n \subseteq C \X C
  PROVE  Order!KeepContent(c, C) = c /\ Order!KeepOrder(n, C) = n
<1>1. Order!KeepContent(c, C) = c
  BY DEF Order!KeepContent
<1>2. \A p \in n : p[1] \in C /\ p[2] \in C
  OBVIOUS
<1>3. QED
  BY <1>1, <1>2 DEF Order!KeepOrder

LEMMA FitsIs ==
  ASSUME NEW c, NEW S
  PROVE  Order!Fits(c, S) <=> Cardinality(S) <= max /\ Sizes(c, S) <= maxSize
<1>1. Order!Cardinality(S) = Cardinality(S)
  BY DEF Order!Cardinality, Cardinality
<1>2. Order!MapThenSumSet(LAMBDA k : c[k].size, S) = MapThenSumSet(LAMBDA k : c[k].size, S)
  BY DEF Order!MapThenSumSet, MapThenSumSet, Order!MapThenFoldSet, MapThenFoldSet
<1>3. QED
  BY <1>1, <1>2 DEF Order!Fits, Sizes

(* The operators of the abstract cache are the ones the class is given. *)
LEMMA SameOperators ==
  ASSUME NEW c, NEW n, NEW S, NEW k
  PROVE  /\ Abstract!CachedIn(c) = Order!CachedIn(c)
         /\ Abstract!KeepContent(c, S) = Order!KeepContent(c, S)
         /\ Abstract!KeepOrder(n, S) = Order!KeepOrder(n, S)
         /\ Abstract!Renewed(n, k, S) = Order!Renewed(n, k, S)
         /\ Abstract!Kept(c, n) = Order!Kept(c, n)
<1>1. /\ Abstract!CachedIn(c) = Order!CachedIn(c)
      /\ Abstract!KeepContent(c, S) = Order!KeepContent(c, S)
      /\ \A T : Abstract!KeepOrder(n, T) = Order!KeepOrder(n, T)
  BY DEF Abstract!CachedIn, Order!CachedIn, Abstract!KeepContent, Order!KeepContent,
         Abstract!KeepOrder, Order!KeepOrder
<1>2. Abstract!Renewed(n, k, S) = Order!Renewed(n, k, S)
  BY <1>1 DEF Abstract!Renewed, Order!Renewed
<1>3. ASSUME NEW T
      PROVE  Abstract!Fits(c, T) <=> Order!Fits(c, T)
  <2>1. Abstract!Cardinality(T) = Cardinality(T)
    BY DEF Abstract!Cardinality, Cardinality
  <2>2. Abstract!MapThenSumSet(LAMBDA j : c[j].size, T) = MapThenSumSet(LAMBDA j : c[j].size, T)
    BY DEF Abstract!MapThenSumSet, MapThenSumSet, Abstract!MapThenFoldSet, MapThenFoldSet
  <2>3. QED
    BY <2>1, <2>2, FitsIs DEF Abstract!Fits, Sizes
<1>4. Abstract!Kept(c, n) = Order!Kept(c, n)
  BY <1>1, <1>3 DEF Abstract!Kept, Order!Kept
<1>5. QED
  BY <1>1, <1>2, <1>4

(* k and what was used after it: what an eviction has kept when it comes   *)
(* to k.                                                                   *)
UpTo(k) == {k} \cup {j \in Cached : <<j, k>> \in newer}

LEMMA KeptIs == Order!Kept(map, newer) = {k \in Cached : Order!Fits(map, UpTo(k))}
BY DEF Order!Kept, Order!CachedIn, Cached, UpTo

(* Within the limits nothing has to be given up. *)
LEMMA AllKept ==
  ASSUME ListInv, Added, ~Exceeds
  PROVE  Order!Kept(map, newer) = Cached
<1>1. ASSUME NEW k \in Cached
      PROVE  Order!Fits(map, UpTo(k))
  <2> DEFINE U == UpTo(k)
  <2>1. U \in SUBSET Cached /\ IsFiniteSet(U)
    <3>1. UpTo(k) \subseteq Cached
      BY DEF UpTo
    <3>2. QED
      BY <3>1, CachedTypes, FS_Subset
  <2>2. Cardinality(U) <= Cardinality(Cached) /\ Cardinality(U) \in Nat
    BY <2>1, CachedTypes, FS_Subset, FS_CardinalityType
  <2>3. Sizes(map, U) <= Sizes(map, Cached) /\ Sizes(map, U) \in Nat
    BY <2>1, CachedTypes, SizesMonotone, SizesType
  <2>4. Cardinality(Cached) <= max /\ Sizes(map, Cached) <= maxSize
    BY CachedTypes, LruAssumption DEF Exceeds, Added
  <2> HIDE DEF U
  <2>5. Cardinality(U) <= max /\ Sizes(map, U) <= maxSize
    BY <2>2, <2>3, <2>4, CachedTypes, LruAssumption
  <2>6. QED
    BY <2>1, <2>5, FitsIs DEF U
<1>2. QED
  BY <1>1, KeptIs

(* The oldest entry is not among those that stay while the cache exceeds   *)
(* its limits, and what was used after another does not depend on it.      *)
LEMMA EvictionKeeps ==
  ASSUME ListInv, Added, EvictTail
  PROVE  Content' = Content /\ Newer' = Newer
<1> DEFINE t == list.tail
<1>1. /\ t \in Cached /\ Remove(t) /\ Exceeds /\ pc = "evicting" /\ pc' = "evicting"
      /\ \A j \in Cached \ {t} : <<j, t>> \in newer
  BY DEF EvictTail, ListInv, ListOK, Adjacent, OrderOK
<1>2. /\ Cached' = Cached \ {t} /\ \A j \in Keys \ {t} : map'[j] = map[j]
      /\ newer' = Order!KeepOrder(newer, Keys \ {t})
      /\ newer' \subseteq Keys \X Keys
  BY <1>1, RemoveOK DEF ListInv
<1>3. Stays = Order!Kept(map, newer) /\ Stays' = Order!Kept(map', newer')
  BY <1>1 DEF Stays
<1>4. t \notin Order!Kept(map, newer)
  <2>1. UpTo(t) = Cached
    BY <1>1 DEF UpTo
  <2>2. ~Order!Fits(map, Cached)
    BY <1>1, FitsIs, CachedTypes, LruAssumption DEF Exceeds, Added
  <2>3. QED
    BY <2>1, <2>2, KeptIs
<1>5. newer \subseteq Cached \X Cached /\ Cached \subseteq Keys
  BY CachedTypes DEF ListInv, OrderOK
<1>6. \A j, k \in Keys : <<j, k>> \in newer' <=> <<j, k>> \in newer /\ j # t /\ k # t
  BY <1>2 DEF Order!KeepOrder
<1>7. ASSUME NEW k \in Cached \ {t}
      PROVE  k \in Order!Kept(map', newer') <=> k \in Order!Kept(map, newer)
  <2> DEFINE U == UpTo(k)
  <2>1. <<t, k>> \notin newer
    BY <1>1 DEF ListInv, OrderOK
  <2>2. U \in SUBSET (Cached \ {t}) /\ U \in SUBSET Cached
    BY <2>1 DEF UpTo
  <2>3. UpTo(k)' = U
    BY <1>2, <1>5, <1>6, <2>1 DEF UpTo
  <2>4. IsFiniteSet(U) /\ \A j \in U : map'[j].size = map[j].size
    BY <1>2, <1>5, <2>2, CachedTypes, FS_Subset
  <2> HIDE DEF U
  <2>5. Sizes(map', U) = Sizes(map, U)
    BY <2>4, SizesSame
  <2>6. Order!Fits(map', U) <=> Order!Fits(map, U)
    BY <2>5, FitsIs
  <2>7. k \in Order!Kept(map, newer) <=> Order!Fits(map, U)
    BY KeptIs DEF U
  <2>8. k \in Order!Kept(map', newer') <=> Order!Fits(map', U)
    <3>1. k \in Order!Kept(map', newer') <=> Order!Fits(map', UpTo(k)')
      <4>1. Order!Kept(map', newer')
              = {j \in Cached' : Order!Fits(map', {j} \cup {i \in Cached' : <<i, j>> \in newer'})}
        BY DEF Order!Kept, Order!CachedIn, Cached
      <4>2. QED
        BY <1>2, <4>1 DEF UpTo
    <3>2. QED
      BY <2>3, <3>1
  <2>9. QED
    BY <2>6, <2>7, <2>8
<1>8. Order!Kept(map, newer) \subseteq Cached /\ Order!Kept(map', newer') \subseteq Cached'
  BY DEF Order!Kept, Order!CachedIn, Cached
<1>9. Order!Kept(map', newer') = Order!Kept(map, newer)
  BY <1>2, <1>4, <1>7, <1>8
<1> DEFINE S == Order!Kept(map, newer)
<1>10. S \subseteq Cached \ {t}
  BY <1>4, <1>8
<1> HIDE DEF S
<1>11. /\ Order!KeepContent(map', S) = Order!KeepContent(map, S)
       /\ Order!KeepOrder(newer', S) = Order!KeepOrder(newer, S)
  <2>1. newer \subseteq Keys \X Keys
    BY DEF ListInv, TypeOK
  <2>2. \A k \in S : map'[k] = map[k]
    BY <1>2, <1>5, <1>10
  <2>3. \A j, k \in Keys : <<j, k>> \in newer' /\ j \in S /\ k \in S <=>
                             <<j, k>> \in newer /\ j \in S /\ k \in S
    BY <1>6, <1>10
  <2>4. newer' \subseteq Keys \X Keys
    BY <1>2
  <2> DEFINE c == map'
             m == newer'
  <2> HIDE DEF c, m
  <2>5. QED
    BY <2>1, <2>2, <2>3, <2>4, SameKept DEF c, m
<1>12. QED
  BY <1>3, <1>9, <1>11 DEF Content, Newer, S

(* Between the operations everything cached stays. *)
LEMMA IdleIsWhole ==
  ASSUME ListInv, Stays = Cached
  PROVE  Content = map /\ Newer = newer
<1> DEFINE C == Cached
<1>1. /\ map \in [Keys -> Values \cup {None}] /\ newer \subseteq C \X C
      /\ C = {k \in Keys : map[k] # None}
  BY DEF ListInv, TypeOK, OrderOK, Cached
<1>2. Content = Order!KeepContent(map, C) /\ Newer = Order!KeepOrder(newer, C)
  BY DEF Content, Newer
<1> HIDE DEF C
<1>3. Order!KeepContent(map, C) = map /\ Order!KeepOrder(newer, C) = newer
  BY <1>1, WholeKept
<1>4. QED
  BY <1>2, <1>3

LEMMA IdleIsWholeNext ==
  ASSUME ListInv', Stays' = Cached'
  PROVE  Content' = map' /\ Newer' = newer'
<1> DEFINE c == map'
           C == Cached'
           n == newer'
<1>1. /\ c \in [Keys -> Values \cup {None}] /\ n \subseteq C \X C
      /\ C = {k \in Keys : c[k] # None}
  BY DEF ListInv, TypeOK, OrderOK, Cached
<1>2. Content' = Order!KeepContent(c, C) /\ Newer' = Order!KeepOrder(n, C)
  BY DEF Content, Newer
<1> HIDE DEF c, C, n
<1>3. Order!KeepContent(c, C) = c /\ Order!KeepOrder(n, C) = n
  BY <1>1, WholeKept
<1>4. QED
  BY <1>2, <1>3 DEF c, n

(* The turns of the loops, and the end of one, are no steps of the         *)
(* abstract cache.                                                         *)
LEMMA WalkKeeps ==
  ASSUME ListInv, WalkOn
  PROVE  Content' = Content /\ Newer' = Newer
<1>1. cursor \in Cached /\ pc = "walking" /\ pc' = "walking" /\ folder' = folder
  BY DEF WalkOn, ListInv, WalkOK
<1>2. CASE map[cursor].folder # folder
  BY <1>1, <1>2 DEF WalkOn, Content, Newer, Stays, Cached
<1>3. CASE map[cursor].folder = folder
  <2>1. /\ Cached' = Cached \ {cursor}
        /\ newer' \subseteq Keys \X Keys
        /\ newer' = Order!KeepOrder(newer, Keys \ {cursor})
        /\ \A j \in Keys \ {cursor} : map'[j] = map[j]
    BY <1>1, <1>3, RemoveOK DEF WalkOn, ListInv
  <2>2. Cached \subseteq Keys /\ newer \subseteq Keys \X Keys
    BY CachedTypes DEF ListInv, TypeOK
  <2> DEFINE S == {k \in Cached : map[k].folder # folder}
  <2>3. Stays = S /\ Stays' = {k \in Cached' : map'[k].folder # folder}
    BY <1>1 DEF Stays
  <2>4. Stays' = S
    BY <1>3, <2>1, <2>2, <2>3
  <2>5. (\A k \in S : k # cursor) /\ \A k \in S : map'[k] = map[k]
    BY <1>3, <2>1, <2>2
  <2> HIDE DEF S
  <2>6. \A j, k \in Keys : <<j, k>> \in newer' /\ j \in S /\ k \in S <=>
                             <<j, k>> \in newer /\ j \in S /\ k \in S
    BY <2>1, <2>5 DEF Order!KeepOrder
  <2> DEFINE c == map'
             m == newer'
  <2> HIDE DEF c, m
  <2>7. /\ Order!KeepContent(c, S) = Order!KeepContent(map, S)
        /\ Order!KeepOrder(m, S) = Order!KeepOrder(newer, S)
    <3>1. m \subseteq Keys \X Keys /\ newer \subseteq Keys \X Keys
      BY <2>1, <2>2 DEF m
    <3>2. \A k \in S : c[k] = map[k]
      BY <2>5 DEF c
    <3>3. \A j, k \in Keys : <<j, k>> \in m /\ j \in S /\ k \in S <=>
                               <<j, k>> \in newer /\ j \in S /\ k \in S
      BY <2>6 DEF m
    <3>4. QED
      BY <3>1, <3>2, <3>3, SameKept
  <2>8. QED
    BY <2>3, <2>4, <2>7 DEF Content, Newer, c, m
<1>4. QED
  BY <1>2, <1>3

LEMMA LoopEndKeeps ==
  ASSUME ListInv, Added, EvictEnd \/ WalkEnd
  PROVE  Content' = Content /\ Newer' = Newer
<1>1. UNCHANGED <<map, newer>> /\ pc' = "idle"
  BY DEF EvictEnd, WalkEnd
<1>2. Stays' = Cached
  BY <1>1 DEF Stays, Cached
<1>3. CASE EvictEnd
  <2>1. pc = "evicting" /\ Stays = Order!Kept(map, newer)
    BY <1>3 DEF EvictEnd, Stays
  <2>2. CASE list.tail = None
    <3>1. Cached = {}
      BY <2>2, NoneIsNoKey DEF ListInv, ListOK, Adjacent, Cached
    <3>2. Order!Kept(map, newer) = {}
      BY <3>1, KeptIs
    <3>3. QED
      BY <1>1, <1>2, <2>1, <3>1, <3>2 DEF Content, Newer
  <2>3. CASE ~Exceeds
    BY <1>1, <1>2, <2>1, <2>3, AllKept DEF Content, Newer
  <2>4. QED
    BY <1>3, <2>2, <2>3 DEF EvictEnd
<1>4. CASE WalkEnd
  <2>1. Stays = Cached
    BY <1>4 DEF WalkEnd, Stays, ListInv, WalkOK
  <2>2. QED
    BY <1>1, <1>2, <2>1 DEF Content, Newer
<1>5. QED
  BY <1>3, <1>4

(* The operations are those of the abstract cache: the first step of a     *)
(* loop is where the abstract operation happens.                           *)
LEMMA GetIsGet ==
  ASSUME ListInv, NEW k \in Keys, Get(k)
  PROVE  Abstract!Get(k)
<1>1. Stays = Cached /\ UNCHANGED map /\ Stays' = Cached'
  BY DEF Get, Stays, Cached
<1>2. Content = map /\ Newer = newer
  BY <1>1, IdleIsWhole
<1>3. Content' = map' /\ Newer' = newer'
  BY <1>1, GetOK, IdleIsWholeNext
<1>4. Cached = Abstract!CachedIn(map) /\ newer' = Abstract!Renewed(newer, k, Cached)
  BY SameOperators DEF Get, Cached, Order!CachedIn
<1>5. QED
  BY <1>1, <1>2, <1>3, <1>4 DEF Get, Abstract!Get, Content, Newer

LEMMA SetIsSet ==
  ASSUME ListInv, NEW k \in Keys, NEW v \in Values, Set(k, v)
  PROVE  Abstract!Set(k, v)
<1>1. /\ Stays = Cached /\ Stays' = Order!Kept(map', newer')
      /\ map' = [map EXCEPT ![k] = v]
      /\ newer' = Order!Renewed(newer, k, Cached \cup {k})
  BY DEF Set, Stays
<1>2. Content = map /\ Newer = newer
  BY <1>1, IdleIsWhole
<1>3. Abstract!CachedIn(map') = Cached \cup {k}
  BY <1>1, NoneIsNoKey DEF ListInv, TypeOK, Abstract!CachedIn, Cached
<1> DEFINE c == [map EXCEPT ![k] = v]
           n == Abstract!Renewed(newer, k, Abstract!CachedIn(c))
<1>4. c = map' /\ n = newer'
  BY <1>1, <1>3, SameOperators
<1>5. /\ Content' = Abstract!KeepContent(c, Abstract!Kept(c, n))
      /\ Newer' = Abstract!KeepOrder(n, Abstract!Kept(c, n))
  <2>1. Stays' = Abstract!Kept(c, n)
    BY <1>1, <1>4, SameOperators
  <2>2. Content' = Order!KeepContent(c, Stays') /\ Newer' = Order!KeepOrder(n, Stays')
    BY <1>4 DEF Content, Newer
  <2> HIDE DEF c, n
  <2>3. QED
    BY <2>1, <2>2, SameOperators
<1>6. Abstract!Set(k, v) <=>
        /\ Content' = Abstract!KeepContent([Content EXCEPT ![k] = v],
             Abstract!Kept([Content EXCEPT ![k] = v],
               Abstract!Renewed(Newer, k, Abstract!CachedIn([Content EXCEPT ![k] = v]))))
        /\ Newer' = Abstract!KeepOrder(
             Abstract!Renewed(Newer, k, Abstract!CachedIn([Content EXCEPT ![k] = v])),
             Abstract!Kept([Content EXCEPT ![k] = v],
               Abstract!Renewed(Newer, k, Abstract!CachedIn([Content EXCEPT ![k] = v]))))
  BY DEF Abstract!Set, Abstract!Keep, Content, Newer
<1>7. QED
  BY <1>2, <1>5, <1>6

LEMMA DeleteIsDelete ==
  ASSUME ListInv, NEW k \in Keys, Delete(k)
  PROVE  Abstract!Delete(k)
<1>1. Stays = Cached /\ Stays' = Cached' /\ k \in Cached /\ pc # "walking" /\ Remove(k)
  BY DEF Delete, Stays, Cached
<1>2. ListInv'
  BY <1>1, DeleteOK DEF Delete
<1>3. Content = map /\ Newer = newer /\ Content' = map' /\ Newer' = newer'
  BY <1>1, <1>2, IdleIsWhole, IdleIsWholeNext
<1>4. map' = Order!KeepContent(map, Keys \ {k})
  BY <1>1 DEF Remove, ListInv, TypeOK, Order!KeepContent
<1>5. newer' = Order!KeepOrder(newer, Keys \ {k})
  BY <1>1 DEF Remove
<1>6. QED
  BY <1>3, <1>4, <1>5, SameOperators DEF Abstract!Delete, Abstract!Keep, Content, Newer

LEMMA ClearIsClear ==
  ASSUME ListInv, Clear
  PROVE  Abstract!Clear
<1>1. Stays = Cached /\ Stays' = Cached'
  BY DEF Clear, Stays, Cached
<1>2. Content = map /\ Newer = newer /\ Content' = map' /\ Newer' = newer'
  BY <1>1, ClearOK, IdleIsWhole, IdleIsWholeNext
<1>3. map' = Order!KeepContent(map, {}) /\ newer' = Order!KeepOrder(newer, {})
  BY DEF Clear, Nothing, Order!KeepContent, Order!KeepOrder
<1>4. QED
  BY <1>2, <1>3, SameOperators DEF Abstract!Clear, Abstract!Keep, Content, Newer

LEMMA WalkIsInvalidation ==
  ASSUME ListInv, NEW f, WalkBegin(f)
  PROVE  Abstract!InvalidateFolder(f)
<1> DEFINE S == {k \in Cached : map[k].folder # f}
<1>1. Stays = Cached /\ Stays' = S /\ UNCHANGED <<map, newer>>
  BY DEF WalkBegin, Stays, Cached
<1>2. Content = map /\ Newer = newer
  BY <1>1, IdleIsWhole
<1>3. S = {k \in Abstract!CachedIn(map) : map[k].folder # f}
  BY DEF Abstract!CachedIn, Cached
<1> HIDE DEF S
<1>4. Content' = Abstract!KeepContent(map, S) /\ Newer' = Abstract!KeepOrder(newer, S)
  BY <1>1, SameOperators DEF Content, Newer
<1>5. Abstract!InvalidateFolder(f) <=>
        LET T == {k \in Abstract!CachedIn(Content) : Content[k].folder # f}
        IN  Content' = Abstract!KeepContent(Content, T) /\ Newer' = Abstract!KeepOrder(Newer, T)
  BY DEF Abstract!InvalidateFolder, Abstract!Keep, Content, Newer
<1>6. QED
  BY <1>2, <1>3, <1>4, <1>5

LEMMA InitIsInit == Init => Abstract!Init
<1> SUFFICES ASSUME Init PROVE Abstract!Init
  OBVIOUS
<1>1. Cached = {} /\ Stays = {} /\ newer = {}
  BY DEF Init, Cached, Nothing, Stays
<1>2. QED
  BY <1>1 DEF Abstract!Init, Order!KeepContent, Order!KeepOrder

LEMMA StepIsStep ==
  ASSUME ListInv, Added, [Next]_vars
  PROVE  [Abstract!Next]_(Abstract!vars)
<1>1. ASSUME Content' = Content, Newer' = Newer PROVE UNCHANGED Abstract!vars
  BY <1>1 DEF Abstract!vars, Content, Newer
<1>2. CASE UNCHANGED vars
  BY <1>1, <1>2 DEF vars, Content, Newer, Stays, Cached
<1>3. ASSUME NEW k \in Keys, Get(k) \/ Delete(k) \/ \E v \in Values : Set(k, v)
      PROVE  Abstract!Next
  BY <1>3, GetIsGet, DeleteIsDelete, SetIsSet DEF Abstract!Next
<1>4. CASE Clear
  BY <1>4, ClearIsClear DEF Abstract!Next
<1>5. ASSUME NEW v \in Values, WalkBegin(v.folder) PROVE Abstract!Next
  <2>1. Abstract!InvalidateFolder(v.folder)
    BY <1>5, WalkIsInvalidation
  <2>2. QED
    BY <2>1 DEF Abstract!Next
<1>6. CASE Loop
  BY <1>1, <1>6, EvictionKeeps, WalkKeeps, LoopEndKeeps DEF Loop
<1>7. QED
  BY <1>2, <1>3, <1>4, <1>5, <1>6 DEF Next

(* The class with its pointers, its running total and its loops implements *)
(* the cache of RecencyCache, which forgets what was not used for longest. *)
THEOREM CacheIsRecencyCache == Spec => IsRecencyCache
<1>1. ListInv /\ LimitsInv /\ [Next]_vars => [Abstract!Next]_(Abstract!vars)
  BY StepIsStep DEF LimitsInv
<1>2. QED
  BY <1>1, InitIsInit, LimitsKept, PTL DEF Spec, IsRecencyCache, Abstract!Spec
==============================================================================
