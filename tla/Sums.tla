-------------------------------- MODULE Sums --------------------------------
(***************************************************************************)
(* Lemmas about the sum of the values of a function over a finite set,     *)
(* which the limits of the caches are about.                               *)
(*                                                                         *)
(* MapThenSumSet adds up by a recursive function.  A fact about every set  *)
(* is proved by a smallest counterexample: the subsets of a finite set are *)
(* well founded, so if there is a subset for which the fact fails there is *)
(* one (MinimalSet) for whose parts it holds.                              *)
(***************************************************************************)
EXTENDS Integers, FiniteSetsExt, FiniteSetTheorems, WellFoundedInduction, TLAPS

Total(f, S) == MapThenSumSet(LAMBDA k : f[k], S)

(* The element the fold takes first, and the function it defines. *)
Pick(s) == CHOOSE x \in s : TRUE
AddsUp(g, f, S) ==
  g = [s \in SUBSET S |-> IF s = {} THEN 0 ELSE f[Pick(s)] + g[s \ {Pick(s)}]]

(* A set of subsets of a finite set has one with none below it. *)
LEMMA MinimalSet ==
  ASSUME NEW S, IsFiniteSet(S), NEW B \in SUBSET (SUBSET S), B # {}
  PROVE  \E T \in B : \A U \in B : U \subseteq T => U = T
<1>1. IsWellFoundedOn(StrictSubsetOrdering(S), SUBSET S)
  BY FS_FiniteSubsetsOfFinite, FS_StrictSubsetOrderingWellFounded
<1>2. \E T \in B : \A U \in B : ~(<<U, T>> \in StrictSubsetOrdering(S))
  BY <1>1, WFMin
<1>3. QED
  BY <1>2 DEF StrictSubsetOrdering

LEMMA PickIn == ASSUME NEW s, s # {} PROVE Pick(s) \in s
BY DEF Pick

(* Two functions that add up f agree where both are defined. *)
LEMMA OneSum ==
  ASSUME NEW f, NEW U, NEW V, IsFiniteSet(U), NEW g, NEW h,
         AddsUp(g, f, U), AddsUp(h, f, V), NEW s \in SUBSET U, s \in SUBSET V
  PROVE  g[s] = h[s]
<1> DEFINE B == {T \in SUBSET U : T \subseteq V /\ g[T] # h[T]}
<1>1. ASSUME B # {} PROVE FALSE
  <2>0. B \in SUBSET (SUBSET U)
    OBVIOUS
  <2>1. PICK T \in B : \A W \in B : W \subseteq T => W = T
    <3> HIDE DEF B
    <3>1. QED
      BY <1>1, <2>0, MinimalSet
  <2>2. T # {}
    BY <2>1 DEF AddsUp
  <2>3. Pick(T) \in T /\ T \ {Pick(T)} \in SUBSET U /\ T \ {Pick(T)} \subseteq V
    BY <2>1, <2>2, PickIn
  <2>4. g[T \ {Pick(T)}] = h[T \ {Pick(T)}]
    BY <2>1, <2>3
  <2>5. g[T] = f[Pick(T)] + g[T \ {Pick(T)}] /\ h[T] = f[Pick(T)] + h[T \ {Pick(T)}]
    BY <2>1, <2>2 DEF AddsUp
  <2>6. QED
    BY <2>1, <2>4, <2>5
<1>2. QED
  BY <1>1

(* There is a function that adds up f: on a set it is what the functions   *)
(* for its parts say.                                                      *)
LEMMA SumExists ==
  ASSUME NEW f, NEW S, IsFiniteSet(S)
  PROVE  \E g : AddsUp(g, f, S)
<1> DEFINE B == {T \in SUBSET S : ~\E g : AddsUp(g, f, T)}
           G(U) == CHOOSE g : AddsUp(g, f, U)
<1>1. ASSUME B # {} PROVE FALSE
  <2>0. B \in SUBSET (SUBSET S)
    OBVIOUS
  <2>1. PICK T \in B : \A W \in B : W \subseteq T => W = T
    <3> HIDE DEF B
    <3>1. QED
      BY <1>1, <2>0, MinimalSet
  <2>2. \A U \in SUBSET T : U # T => AddsUp(G(U), f, U) /\ IsFiniteSet(U)
    BY <2>1, FS_Subset
  <2> DEFINE h == [s \in SUBSET T |-> IF s = {} THEN 0
                                      ELSE f[Pick(s)] + G(s \ {Pick(s)})[s \ {Pick(s)}]]
  <2> HIDE DEF G
  <2>3. ASSUME NEW u \in SUBSET T, u # T PROVE h[u] = G(u)[u]
    <3>1. CASE u = {}
      BY <2>2, <2>3, <3>1 DEF AddsUp
    <3>2. CASE u # {}
      <4> DEFINE v == u \ {Pick(u)}
      <4>1. v \in SUBSET T /\ v # T /\ v \in SUBSET u
        BY <2>3, <3>2, PickIn
      <4>2. G(u)[v] = G(v)[v]
        BY <2>2, <2>3, <4>1, OneSum
      <4>3. G(u)[u] = f[Pick(u)] + G(u)[v]
        BY <2>2, <2>3, <3>2 DEF AddsUp
      <4>4. QED
        BY <3>2, <4>2, <4>3
    <3>3. QED
      BY <3>1, <3>2
  <2>4. ASSUME NEW s \in SUBSET T
        PROVE  h[s] = IF s = {} THEN 0 ELSE f[Pick(s)] + h[s \ {Pick(s)}]
    <3>1. CASE s # {}
      <4>1. s \ {Pick(s)} \in SUBSET T /\ s \ {Pick(s)} # T
        BY <3>1, PickIn
      <4>2. QED
        BY <2>3, <3>1, <4>1
    <3>2. QED
      BY <3>1
  <2>5. AddsUp(h, f, T)
    BY <2>4 DEF AddsUp
  <2>6. QED
    BY <2>1, <2>5
<1>2. QED
  BY <1>1

(* The sum is what such a function gives. *)
LEMMA TotalIs ==
  ASSUME NEW f, NEW S, IsFiniteSet(S)
  PROVE  \E g : AddsUp(g, f, S) /\ Total(f, S) = g[S]
<1>1. Total(f, S) = (CHOOSE g : AddsUp(g, f, S))[S]
  BY DEF Total, MapThenSumSet, MapThenFoldSet, AddsUp, Pick
<1>2. QED
  BY <1>1, SumExists

LEMMA TotalUnique ==
  ASSUME NEW f, NEW S, IsFiniteSet(S), NEW g, AddsUp(g, f, S)
  PROVE  g[S] = Total(f, S)
BY TotalIs, OneSum

LEMMA TotalEmpty == ASSUME NEW f PROVE Total(f, {}) = 0
<1>1. IsFiniteSet({})
  BY FS_EmptySet
<1>2. PICK g : AddsUp(g, f, {}) /\ Total(f, {}) = g[{}]
  BY <1>1, TotalIs
<1>3. g[{}] = 0
  BY <1>2 DEF AddsUp
<1>4. QED
  BY <1>2, <1>3

LEMMA TotalPick ==
  ASSUME NEW f, NEW S, IsFiniteSet(S), S # {}
  PROVE  Total(f, S) = f[Pick(S)] + Total(f, S \ {Pick(S)})
<1>1. PICK g : AddsUp(g, f, S) /\ Total(f, S) = g[S]
  BY TotalIs
<1>2. IsFiniteSet(S \ {Pick(S)}) /\ S \ {Pick(S)} \in SUBSET S
  BY FS_Subset
<1>3. PICK h : AddsUp(h, f, S \ {Pick(S)}) /\ Total(f, S \ {Pick(S)}) = h[S \ {Pick(S)}]
  BY <1>2, TotalIs
<1>4. g[S \ {Pick(S)}] = h[S \ {Pick(S)}]
  BY <1>1, <1>2, <1>3, OneSum
<1>5. g[S] = f[Pick(S)] + g[S \ {Pick(S)}]
  BY <1>1 DEF AddsUp
<1>6. QED
  BY <1>1, <1>3, <1>4, <1>5

(* Natural numbers add up to one, and integers to an integer. *)
LEMMA TotalType ==
  ASSUME NEW f, NEW S, IsFiniteSet(S), NEW N, N \in {Nat, Int}, \A k \in S : f[k] \in N
  PROVE  Total(f, S) \in N
<1> DEFINE B == {T \in SUBSET S : Total(f, T) \notin N}
<1>1. ASSUME B # {} PROVE FALSE
  <2>0. B \in SUBSET (SUBSET S)
    OBVIOUS
  <2>1. PICK T \in B : \A W \in B : W \subseteq T => W = T
    <3> HIDE DEF B
    <3>1. QED
      BY <1>1, <2>0, MinimalSet
  <2>2. T # {} /\ IsFiniteSet(T)
    <3>1. 0 \in N
      OBVIOUS
    <3>2. QED
      BY <2>1, <3>1, TotalEmpty, FS_Subset
  <2>3. Total(f, T \ {Pick(T)}) \in N
    BY <2>1, <2>2, PickIn
  <2>4. f[Pick(T)] \in N
    BY <2>1, <2>2, PickIn
  <2>5. Total(f, T) = f[Pick(T)] + Total(f, T \ {Pick(T)})
    BY <2>2, TotalPick
  <2>6. f[Pick(T)] + Total(f, T \ {Pick(T)}) \in N
    BY <2>3, <2>4
  <2>7. QED
    BY <2>1, <2>5, <2>6
<1>2. QED
  BY <1>1

(* An element may be taken out of the sum, whichever it is. *)
LEMMA TotalRemove ==
  ASSUME NEW f, NEW S, IsFiniteSet(S), \A k \in S : f[k] \in Int, NEW x \in S
  PROVE  Total(f, S) = f[x] + Total(f, S \ {x})
<1> DEFINE B == {T \in SUBSET S : \E y \in T : Total(f, T) # f[y] + Total(f, T \ {y})}
<1>1. ASSUME B # {} PROVE FALSE
  <2>0. B \in SUBSET (SUBSET S)
    OBVIOUS
  <2>1. PICK T \in B : \A W \in B : W \subseteq T => W = T
    <3> HIDE DEF B
    <3>1. QED
      BY <1>1, <2>0, MinimalSet
  <2>2. PICK y \in T : Total(f, T) # f[y] + Total(f, T \ {y})
    BY <2>1
  <2> DEFINE p == Pick(T)
             R == T \ {p, y}
  <2>3. T # {} /\ IsFiniteSet(T) /\ p \in T
    BY <2>1, <2>2, PickIn, FS_Subset
  <2>4. Total(f, T) = f[p] + Total(f, T \ {p})
    BY <2>3, TotalPick
  <2>5. p # y
    BY <2>2, <2>4
  <2>6. T \ {p} \notin B /\ T \ {y} \notin B
    BY <2>1, <2>3
  <2>7. (T \ {p}) \ {y} = R /\ (T \ {y}) \ {p} = R
    OBVIOUS
  <2>8. Total(f, T \ {p}) = f[y] + Total(f, R)
    BY <2>1, <2>2, <2>5, <2>6, <2>7
  <2>9. Total(f, T \ {y}) = f[p] + Total(f, R)
    BY <2>1, <2>3, <2>5, <2>6, <2>7
  <2>10. Total(f, R) \in Int /\ f[p] \in Int /\ f[y] \in Int
    <3>1. IsFiniteSet(R) /\ R \in SUBSET S
      BY <2>1, FS_Subset
    <3>2. QED
      BY <2>1, <2>3, <3>1, TotalType
  <2>11. QED
    BY <2>2, <2>4, <2>8, <2>9, <2>10
<1>2. QED
  BY <1>1

(* The sum depends on the values in the set alone. *)
LEMMA TotalSame ==
  ASSUME NEW f, NEW g, NEW S, IsFiniteSet(S), \A k \in S : f[k] = g[k]
  PROVE  Total(f, S) = Total(g, S)
<1> DEFINE B == {T \in SUBSET S : Total(f, T) # Total(g, T)}
<1>1. ASSUME B # {} PROVE FALSE
  <2>0. B \in SUBSET (SUBSET S)
    OBVIOUS
  <2>1. PICK T \in B : \A W \in B : W \subseteq T => W = T
    <3> HIDE DEF B
    <3>1. QED
      BY <1>1, <2>0, MinimalSet
  <2>2. T # {} /\ IsFiniteSet(T) /\ Pick(T) \in T
    BY <2>1, TotalEmpty, FS_Subset, PickIn
  <2>3. Total(f, T \ {Pick(T)}) = Total(g, T \ {Pick(T)}) /\ f[Pick(T)] = g[Pick(T)]
    BY <2>1, <2>2
  <2>4. QED
    BY <2>1, <2>2, <2>3, TotalPick
<1>2. QED
  BY <1>1

(* A part does not add up to more than the whole. *)
LEMMA TotalMonotone ==
  ASSUME NEW f, NEW S, IsFiniteSet(S), NEW T \in SUBSET S, \A k \in S : f[k] \in Nat
  PROVE  Total(f, T) <= Total(f, S)
<1> DEFINE B == {U \in SUBSET S : T \subseteq U /\ ~(Total(f, T) <= Total(f, U))}
<1>1. ASSUME B # {} PROVE FALSE
  <2>0. B \in SUBSET (SUBSET S)
    OBVIOUS
  <2>1. PICK U \in B : \A W \in B : W \subseteq U => W = U
    <3> HIDE DEF B
    <3>1. QED
      BY <1>1, <2>0, MinimalSet
  <2>2. IsFiniteSet(U) /\ IsFiniteSet(T)
    BY <2>1, FS_Subset
  <2>3. Total(f, U) \in Nat /\ Total(f, T) \in Nat
    BY <2>1, <2>2, TotalType
  <2>4. PICK x \in U : x \notin T
    <3>1. U # T
      BY <2>1, <2>3
    <3>2. QED
      BY <2>1, <3>1
  <2>5. Total(f, U) = f[x] + Total(f, U \ {x})
    BY <2>1, <2>2, TotalRemove
  <2>6. Total(f, U \ {x}) \in Nat
    <3>1. IsFiniteSet(U \ {x}) /\ \A k \in U \ {x} : f[k] \in Nat
      BY <2>1, <2>2, FS_Subset
    <3>2. QED
      BY <3>1, TotalType
  <2>7. Total(f, T) <= Total(f, U \ {x})
    BY <2>1, <2>4
  <2>8. QED
    BY <2>1, <2>3, <2>5, <2>6, <2>7
<1>2. QED
  BY <1>1

(* A sum falls into the sums over two parts of the set. *)
LEMMA TotalParts ==
  ASSUME NEW f, NEW S, IsFiniteSet(S), NEW T \in SUBSET S, \A k \in S : f[k] \in Int
  PROVE  Total(f, S) = Total(f, T) + Total(f, S \ T)
<1> DEFINE B == {U \in SUBSET S : Total(f, U) # Total(f, U \cap T) + Total(f, U \ T)}
<1>1. ASSUME B # {} PROVE FALSE
  <2>0. B \in SUBSET (SUBSET S)
    OBVIOUS
  <2>1. PICK U \in B : \A W \in B : W \subseteq U => W = U
    <3> HIDE DEF B
    <3>1. QED
      BY <1>1, <2>0, MinimalSet
  <2> DEFINE whole == Total(f, U)
             in == Total(f, U \cap T)
             out == Total(f, U \ T)
  <2>2. whole # in + out
    BY <2>1
  <2>3. PICK x \in U : TRUE
    <3>1. ASSUME U = {} PROVE whole = 0 /\ in = 0 /\ out = 0
      <4>1. U \cap T = {} /\ U \ T = {}
        BY <3>1
      <4>2. QED
        BY <3>1, <4>1, TotalEmpty
    <3>2. U # {}
      <4> HIDE DEF whole, in, out
      <4>1. QED
        BY <2>2, <3>1
    <3>3. QED
      BY <3>2
  <2> DEFINE R == U \ {x}
  <2>4. /\ IsFiniteSet(U) /\ IsFiniteSet(U \cap T) /\ IsFiniteSet(U \ T)
        /\ IsFiniteSet(R \cap T) /\ IsFiniteSet(R \ T)
    BY <2>1, FS_Subset
  <2>5. Total(f, U) = f[x] + Total(f, R)
    BY <2>1, <2>3, <2>4, TotalRemove
  <2>6. Total(f, R) = Total(f, R \cap T) + Total(f, R \ T)
    BY <2>1, <2>3
  <2>7. f[x] \in Int /\ Total(f, R \cap T) \in Int /\ Total(f, R \ T) \in Int
    <3>1. /\ \A k \in R \cap T : f[k] \in Int
          /\ \A k \in R \ T : f[k] \in Int
      BY <2>1
    <3>2. QED
      BY <2>1, <2>3, <2>4, <3>1, TotalType
  <2>8. CASE x \in T
    <3>1. (U \cap T) \ {x} = R \cap T /\ U \ T = R \ T /\ x \in U \cap T
      BY <2>3, <2>8
    <3>2. \A k \in U \cap T : f[k] \in Int
      BY <2>1
    <3>3. Total(f, U \cap T) = f[x] + Total(f, R \cap T)
      BY <2>4, <3>1, <3>2, TotalRemove
    <3>4. in = f[x] + Total(f, R \cap T) /\ out = Total(f, R \ T)
      BY <3>1, <3>3
    <3>5. QED
      <4> HIDE DEF whole, in, out, R
      <4>1. QED
        BY <2>5, <2>6, <2>7, <2>2, <3>4 DEF whole
  <2>9. CASE x \notin T
    <3>1. (U \ T) \ {x} = R \ T /\ U \cap T = R \cap T /\ x \in U \ T
      BY <2>3, <2>9
    <3>2. \A k \in U \ T : f[k] \in Int
      BY <2>1
    <3>3. Total(f, U \ T) = f[x] + Total(f, R \ T)
      BY <2>4, <3>1, <3>2, TotalRemove
    <3>4. out = f[x] + Total(f, R \ T) /\ in = Total(f, R \cap T)
      BY <3>1, <3>3
    <3>5. QED
      <4> HIDE DEF whole, in, out, R
      <4>1. QED
        BY <2>5, <2>6, <2>7, <2>2, <3>4 DEF whole
  <2>10. QED
    BY <2>8, <2>9
<1>2. S \cap T = T
  OBVIOUS
<1>3. S \notin B
  BY <1>1
<1>4. QED
  BY <1>2, <1>3

(* The larger the values, the larger the sum. *)
LEMMA TotalAtMost ==
  ASSUME NEW f, NEW g, NEW S, IsFiniteSet(S),
         \A k \in S : f[k] \in Nat /\ g[k] \in Nat /\ f[k] <= g[k]
  PROVE  Total(f, S) <= Total(g, S)
<1> DEFINE B == {T \in SUBSET S : ~(Total(f, T) <= Total(g, T))}
<1>1. ASSUME B # {} PROVE FALSE
  <2>0. B \in SUBSET (SUBSET S)
    OBVIOUS
  <2>1. PICK T \in B : \A W \in B : W \subseteq T => W = T
    <3> HIDE DEF B
    <3>1. QED
      BY <1>1, <2>0, MinimalSet
  <2> DEFINE p == Pick(T)
  <2>2. T # {} /\ IsFiniteSet(T) /\ p \in T
    <3>1. ASSUME T = {} PROVE FALSE
      <4>1. Total(f, T) = 0 /\ Total(g, T) = 0
        BY <3>1, TotalEmpty
      <4>2. QED
        BY <2>1, <4>1
    <3>2. QED
      BY <2>1, <3>1, FS_Subset, PickIn
  <2>3. Total(f, T) = f[p] + Total(f, T \ {p}) /\ Total(g, T) = g[p] + Total(g, T \ {p})
    BY <2>2, TotalPick
  <2>4. Total(f, T \ {p}) <= Total(g, T \ {p}) /\ f[p] <= g[p]
    BY <2>1, <2>2
  <2>5. Total(f, T \ {p}) \in Nat /\ Total(g, T \ {p}) \in Nat
    <3>1. IsFiniteSet(T \ {p}) /\ \A k \in T \ {p} : f[k] \in Nat /\ g[k] \in Nat
      BY <2>1, <2>2, FS_Subset
    <3>2. QED
      BY <3>1, TotalType
  <2>6. f[p] \in Nat /\ g[p] \in Nat
    BY <2>1, <2>2
  <2>7. QED
    BY <2>1, <2>3, <2>4, <2>5, <2>6
<1>2. QED
  BY <1>1

LEMMA TotalZero ==
  ASSUME NEW f, NEW S, IsFiniteSet(S), \A k \in S : f[k] = 0
  PROVE  Total(f, S) = 0
<1> DEFINE B == {T \in SUBSET S : Total(f, T) # 0}
<1>1. ASSUME B # {} PROVE FALSE
  <2>0. B \in SUBSET (SUBSET S)
    OBVIOUS
  <2>1. PICK T \in B : \A W \in B : W \subseteq T => W = T
    <3> HIDE DEF B
    <3>1. QED
      BY <1>1, <2>0, MinimalSet
  <2>2. T # {} /\ IsFiniteSet(T) /\ Pick(T) \in T
    BY <2>1, TotalEmpty, FS_Subset, PickIn
  <2>3. Total(f, T \ {Pick(T)}) = 0 /\ f[Pick(T)] = 0
    BY <2>1, <2>2
  <2>4. Total(f, T) = 0
    BY <2>2, <2>3, TotalPick
  <2>5. QED
    BY <2>1, <2>4
<1>2. QED
  BY <1>1

(* The sizes of the records e[k] for k in S, added up. *)
Sizes(e, S) == MapThenSumSet(LAMBDA k : e[k].size, S)

LEMMA SizesAreTotal ==
  ASSUME NEW e, NEW S, IsFiniteSet(S)
  PROVE  Sizes(e, S) = Total([k \in S |-> e[k].size], S)
<1> DEFINE f == [k \in S |-> e[k].size]
           Rule(g) == g = [s \in SUBSET S |-> IF s = {} THEN 0
                             ELSE e[Pick(s)].size + g[s \ {Pick(s)}]]
<1>1. Sizes(e, S) = (CHOOSE g : Rule(g))[S]
  BY DEF Sizes, MapThenSumSet, MapThenFoldSet, Pick
<1>2. \A g : Rule(g) <=> AddsUp(g, f, S)
  <2> TAKE g
  <2>1. \A s \in SUBSET S : s # {} => f[Pick(s)] = e[Pick(s)].size
    BY PickIn
  <2>2. QED
    BY <2>1 DEF AddsUp
<1>3. \E g : AddsUp(g, f, S)
  BY SumExists
<1>4. AddsUp(CHOOSE g : Rule(g), f, S)
  BY <1>2, <1>3
<1>5. QED
  BY <1>1, <1>4, TotalUnique

LEMMA SizesEmpty == ASSUME NEW e PROVE Sizes(e, {}) = 0
BY SizesAreTotal, TotalEmpty, FS_EmptySet

LEMMA SizesType ==
  ASSUME NEW e, NEW S, IsFiniteSet(S), \A k \in S : e[k].size \in Nat
  PROVE  Sizes(e, S) \in Nat
<1> DEFINE f == [k \in S |-> e[k].size]
<1>1. Total(f, S) \in Nat
  BY TotalType
<1>2. QED
  BY <1>1, SizesAreTotal

LEMMA SizesRemove ==
  ASSUME NEW e, NEW S, IsFiniteSet(S), \A k \in S : e[k].size \in Int, NEW x \in S
  PROVE  Sizes(e, S) = e[x].size + Sizes(e, S \ {x})
<1> DEFINE f == [k \in S |-> e[k].size]
           g == [k \in S \ {x} |-> e[k].size]
<1>1. IsFiniteSet(S \ {x})
  BY FS_Subset
<1>2. Total(f, S) = f[x] + Total(f, S \ {x})
  BY TotalRemove
<1>3. Total(f, S \ {x}) = Total(g, S \ {x})
  BY <1>1, TotalSame
<1>4. Sizes(e, S) = Total(f, S) /\ Sizes(e, S \ {x}) = Total(g, S \ {x})
  BY <1>1, SizesAreTotal
<1>5. QED
  BY <1>2, <1>3, <1>4

LEMMA SizesSame ==
  ASSUME NEW e, NEW d, NEW S, IsFiniteSet(S), \A k \in S : e[k].size = d[k].size
  PROVE  Sizes(e, S) = Sizes(d, S)
<1> DEFINE f == [k \in S |-> e[k].size]
           g == [k \in S |-> d[k].size]
<1>1. Total(f, S) = Total(g, S)
  BY TotalSame
<1>2. QED
  BY <1>1, SizesAreTotal

LEMMA SizesMonotone ==
  ASSUME NEW e, NEW S, IsFiniteSet(S), NEW T \in SUBSET S, \A k \in S : e[k].size \in Nat
  PROVE  Sizes(e, T) <= Sizes(e, S)
<1> DEFINE f == [k \in S |-> e[k].size]
           g == [k \in T |-> e[k].size]
<1>1. IsFiniteSet(T)
  BY FS_Subset
<1>2. Total(f, T) <= Total(f, S)
  BY TotalMonotone
<1>3. Total(f, T) = Total(g, T)
  BY <1>1, TotalSame
<1>4. Sizes(e, S) = Total(f, S) /\ Sizes(e, T) = Total(g, T)
  BY <1>1, SizesAreTotal
<1>5. QED
  BY <1>2, <1>3, <1>4
==============================================================================
