------------------------------ MODULE SequenceFacts -------------------------------
(***************************************************************************)
(* What the proofs about rules need of the naturals, of lists that are     *)
(* sorted or filtered (Orders), and of folds: that the function a fold     *)
(* chooses exists and what it comes to at the places it has passed.        *)
(* Induction is over sets of naturals (SetInduction, PrefixInduction).     *)
(***************************************************************************)
EXTENDS Orders, SequencesExt, FiniteSetTheorems, SequenceTheorems, TLAPS

(* A set of naturals that is not empty has a least element.                *)
LEMMA NatMin ==
  ASSUME NEW T, T \subseteq Nat, T # {}
  PROVE  \E n \in T : \A m \in T : n <= m
<1>1. PICK N \in T : TRUE
  OBVIOUS
<1> DEFINE S == 0 .. N
           W == {0 .. n : n \in {i \in T : i <= N}}
<1>2. IsWellFoundedOn(StrictSubsetOrdering(S), FiniteSubsetsOf(S))
  BY FS_StrictSubsetOrderingWellFounded
<1>3. IsFiniteSet(S)
  BY <1>1, FS_Interval
<1>4. W \subseteq FiniteSubsetsOf(S) /\ W # {}
  <2>1. ASSUME NEW n \in T, n <= N
        PROVE  0 .. n \in SUBSET S
    BY <1>1, <2>1
  <2>2. FiniteSubsetsOf(S) = SUBSET S
    BY <1>3, FS_FiniteSubsetsOfFinite
  <2> QED  BY <1>1, <2>1, <2>2
<1>5. PICK x \in W : \A y \in W : <<y, x>> \notin StrictSubsetOrdering(S)
  <2> HIDE DEF S, W
  <2> QED  BY <1>2, <1>4, WFMin
<1>6. PICK n \in T : n <= N /\ x = 0 .. n
  OBVIOUS
<1>7. ASSUME NEW m \in T, m < n
      PROVE  FALSE
  <2>1. 0 .. m \in W
    BY <1>6, <1>7
  <2>2. 0 .. m \subseteq 0 .. n /\ 0 .. m # 0 .. n /\ 0 .. n \subseteq S
    BY <1>6, <1>7
  <2>3. <<0 .. m, 0 .. n>> \in StrictSubsetOrdering(S)
    BY <2>2 DEF StrictSubsetOrdering
  <2> QED  BY <2>1, <2>3, <1>5, <1>6
<1> QED  BY <1>6, <1>7

(* Induction, over a set in place of a predicate.                          *)
LEMMA SetInduction ==
  ASSUME NEW P, 0 \in P, \A n \in Nat : n \in P => n + 1 \in P
  PROVE  \A n \in Nat : n \in P
<1> DEFINE T == {n \in Nat : n \notin P}
<1>1. ASSUME T # {}
      PROVE  FALSE
  <2>1. PICK n \in T : \A m \in T : n <= m
    <3>1. T \subseteq Nat
      OBVIOUS
    <3> HIDE DEF T
    <3> QED  BY <1>1, <3>1, NatMin
  <2>2. n # 0 /\ n - 1 \in Nat /\ n - 1 \notin T
    BY <2>1
  <2> QED  BY <2>1, <2>2
<1> QED  BY <1>1

-----------------------------------------------------------------------------
(* earlier tells of a strict total order on S.                             *)
OrdersSet(S, earlier) ==
  /\ \A x \in S : earlier[x] \subseteq S /\ x \notin earlier[x]
  /\ \A x, y \in S : x \in earlier[y] => earlier[x] \subseteq earlier[y]
  /\ \A x, y \in S : x # y => x \in earlier[y] \/ y \in earlier[x]

LEMMA EarlierIsFewer ==
  ASSUME NEW S, IsFiniteSet(S), NEW earlier, OrdersSet(S, earlier)
  PROVE  /\ \A x \in S : Cardinality(earlier[x]) \in 0 .. Cardinality(S) - 1
         /\ \A x, y \in S : x \in earlier[y] => Cardinality(earlier[x]) < Cardinality(earlier[y])
<1>1. ASSUME NEW x \in S
      PROVE  /\ IsFiniteSet(earlier[x])
             /\ Cardinality(earlier[x]) \in 0 .. Cardinality(S) - 1
  <2>1. earlier[x] \in SUBSET (S \ {x})
    BY DEF OrdersSet
  <2>2. IsFiniteSet(S \ {x}) /\ Cardinality(S \ {x}) = Cardinality(S) - 1
    BY FS_RemoveElement
  <2>3. Cardinality(earlier[x]) <= Cardinality(S) - 1 /\ IsFiniteSet(earlier[x])
    BY <2>1, <2>2, FS_Subset
  <2> QED  BY <2>3, FS_CardinalityType
<1>2. ASSUME NEW x \in S, NEW y \in S, x \in earlier[y]
      PROVE  Cardinality(earlier[x]) < Cardinality(earlier[y])
  <2>1. earlier[x] \in SUBSET earlier[y] /\ earlier[x] # earlier[y]
    BY <1>2 DEF OrdersSet
  <2>2. /\ Cardinality(earlier[x]) <= Cardinality(earlier[y])
        /\ Cardinality(earlier[y]) = Cardinality(earlier[x]) => earlier[y] = earlier[x]
    BY <1>1, <2>1, FS_Subset
  <2> QED  BY <1>1, <2>1, <2>2
<1> QED  BY <1>1, <1>2

(* Ranked lists every element once, in order.                              *)
LEMMA RankedLists ==
  ASSUME NEW S, IsFiniteSet(S), NEW earlier, OrdersSet(S, earlier)
  PROVE  /\ Cardinality(S) \in Nat
         /\ RankedBy(S, earlier) \in [1 .. Cardinality(S) -> S]
         /\ \A x \in S : \E k \in 1 .. Cardinality(S) : RankedBy(S, earlier)[k] = x
         /\ \A j, k \in 1 .. Cardinality(S) :
              j < k <=> RankedBy(S, earlier)[j] \in earlier[RankedBy(S, earlier)[k]]
<1> DEFINE n == Cardinality(S)
           rank == [x \in S |-> Cardinality(earlier[x]) + 1]
           f == RankedBy(S, earlier)
<1>1. n \in Nat
  BY FS_CardinalityType
<1>2. /\ rank \in [S -> 1 .. n]
      /\ \A x, y \in S : x \in earlier[y] => rank[x] < rank[y]
  BY <1>1, EarlierIsFewer
<1>3. \A x, y \in S : rank[x] = rank[y] => x = y
  BY <1>1, <1>2 DEF OrdersSet
<1>4. \A k \in 1 .. n : \E x \in S : rank[x] = k
  <2>1. rank \in Injection(S, 1 .. n)
    BY <1>2, <1>3 DEF Injection, IsInjective
  <2>2. IsFiniteSet(1 .. n) /\ Cardinality(1 .. n) = n
    BY <1>1, FS_Interval
  <2>3. rank \in Surjection(S, 1 .. n)
    BY <2>1, <2>2, FS_Injection
  <2> QED  BY <2>3 DEF Surjection
<1>5. \A x \in S : rank[x] = Cardinality(earlier[x]) + 1 /\ Cardinality(earlier[x]) \in Nat
  BY EarlierIsFewer, <1>1
<1>6. ASSUME NEW k \in 1 .. n
      PROVE  f[k] \in S /\ rank[f[k]] = k
  <2>1. f[k] = CHOOSE x \in S : Cardinality(earlier[x]) = k - 1
    BY DEF RankedBy
  <2>2. PICK x \in S : rank[x] = k
    BY <1>4
  <2>3. Cardinality(earlier[x]) = k - 1
    BY <1>1, <1>5, <2>2
  <2>4. f[k] \in S /\ Cardinality(earlier[f[k]]) = k - 1
    <3> HIDE DEF f
    <3> QED  BY <2>1, <2>3
  <2> QED  BY <1>1, <1>5, <2>4
<1>7. f \in [1 .. n -> S]
  BY <1>6 DEF RankedBy
<1>8. ASSUME NEW x \in S
      PROVE  \E k \in 1 .. n : f[k] = x
  <2> HIDE DEF rank, f, n
  <2>1. rank[x] \in 1 .. n
    BY <1>2
  <2>2. f[rank[x]] \in S /\ rank[f[rank[x]]] = rank[x]
    BY <1>6, <2>1
  <2>3. f[rank[x]] = x
    BY <1>3, <2>2
  <2> QED  BY <2>1, <2>3
<1>9. ASSUME NEW j \in 1 .. n, NEW k \in 1 .. n
      PROVE  j < k <=> f[j] \in earlier[f[k]]
  <2> HIDE DEF rank, f, n
  <2>0. /\ f[j] \in S /\ rank[f[j]] = j
        /\ f[k] \in S /\ rank[f[k]] = k
    BY <1>6
  <2>1. f[j] \in earlier[f[k]] => j < k
    BY <1>2, <2>0
  <2>2. j < k => f[j] # f[k] /\ f[k] \notin earlier[f[j]]
    BY <1>1, <1>2, <2>0
  <2> QED  BY <2>0, <2>1, <2>2 DEF OrdersSet
<1> QED  BY <1>1, <1>7, <1>8, <1>9

(* A listing of all elements in order is the ranking.                      *)
ListsInOrder(g, m, S, earlier) ==
  /\ g \in [1 .. m -> S]
  /\ \A x \in S : \E k \in 1 .. m : g[k] = x
  /\ \A j, k \in 1 .. m : j < k => g[j] \in earlier[g[k]]

LEMMA RankedIsUnique ==
  ASSUME NEW S, IsFiniteSet(S), NEW earlier, OrdersSet(S, earlier),
         NEW m \in Nat, NEW g, ListsInOrder(g, m, S, earlier)
  PROVE  m = Cardinality(S) /\ RankedBy(S, earlier) = g
<1> DEFINE n == Cardinality(S)
<1> USE DEF ListsInOrder
<1>1. \A j, k \in 1 .. m : g[j] = g[k] => j = k
  BY DEF OrdersSet
<1>2. g \in Bijection(1 .. m, S)
  BY <1>1 DEF Bijection, Injection, Surjection, IsInjective
<1>3. m = n
  BY <1>2, FS_CountingElements DEF ExistsBijection
<1>4. ASSUME NEW k \in 1 .. m
      PROVE  Cardinality(earlier[g[k]]) = k - 1
  <2> DEFINE h == [j \in 1 .. (k - 1) |-> g[j]]
  <2>1. \A x \in earlier[g[k]] : \E j \in 1 .. (k - 1) : g[j] = x
    <3> SUFFICES ASSUME NEW x \in earlier[g[k]]
                 PROVE  \E j \in 1 .. (k - 1) : g[j] = x
      OBVIOUS
    <3>1. x \in S
      BY DEF OrdersSet
    <3>2. PICK j \in 1 .. m : g[j] = x
      BY <3>1
    <3>3. j # k
      BY <3>2 DEF OrdersSet
    <3>4. ~ (k < j)
      <4> SUFFICES ASSUME k < j
                   PROVE  FALSE
        OBVIOUS
      <4>1. g[k] \in earlier[g[j]]
        OBVIOUS
      <4> QED  BY <3>1, <3>2, <4>1 DEF OrdersSet
    <3> QED  BY <3>2, <3>3, <3>4
  <2>2. \A j \in 1 .. (k - 1) : g[j] \in earlier[g[k]]
    OBVIOUS
  <2>3. h \in Bijection(1 .. (k - 1), earlier[g[k]])
    BY <1>1, <2>1, <2>2 DEF Bijection, Injection, Surjection, IsInjective
  <2> HIDE DEF h
  <2>4. k - 1 \in Nat
    OBVIOUS
  <2> QED  BY <2>3, <2>4, FS_CountingElements DEF ExistsBijection
<1>5. ASSUME NEW k \in 1 .. m
      PROVE  RankedBy(S, earlier)[k] = g[k]
  <2> DEFINE c == CHOOSE x \in S : Cardinality(earlier[x]) = k - 1
  <2>1. RankedBy(S, earlier)[k] = c
    BY <1>3 DEF RankedBy
  <2>2. c \in S /\ Cardinality(earlier[c]) = k - 1
    BY <1>4
  <2> HIDE DEF c
  <2>3. PICK j \in 1 .. m : g[j] = c
    BY <2>2
  <2>4. j = k
    BY <1>4, <2>2, <2>3
  <2> QED  BY <2>1, <2>3, <2>4
<1>6. RankedBy(S, earlier) = [k \in 1 .. m |-> RankedBy(S, earlier)[k]]
  BY <1>3 DEF RankedBy
<1> QED  BY <1>3, <1>5, <1>6

-----------------------------------------------------------------------------
(* p leads through places in rising order, m of them.                      *)
Ascends(p, m, places) ==
  /\ p \in [1 .. m -> places]
  /\ \A i \in places : \E k \in 1 .. m : p[k] = i
  /\ \A j, k \in 1 .. m : j < k <=> p[j] < p[k]

Along(seq, p, m) == [k \in 1 .. m |-> seq[p[k]]]

Before(places) == [i \in places |-> {j \in places : j < i}]

LEMMA PlacesAreOrdered ==
  ASSUME NEW n \in Nat, NEW places \in SUBSET (1 .. n)
  PROVE  /\ IsFiniteSet(places)
         /\ Cardinality(places) \in 0 .. n
         /\ OrdersSet(places, Before(places))
         /\ \A i, j \in places : i \in Before(places)[j] <=> i < j
         /\ \A seq : SubSeqAt(seq, places) =
                      [k \in DOMAIN RankedBy(places, Before(places))
                         |-> seq[RankedBy(places, Before(places))[k]]]
<1>1. IsFiniteSet(1 .. n) /\ Cardinality(1 .. n) = n
  BY FS_Interval
<1>2. IsFiniteSet(places) /\ Cardinality(places) <= n
  BY <1>1, FS_Subset
<1>3. Cardinality(places) \in Nat
  BY <1>2, FS_CardinalityType
<1>4. \A i \in places : i \in Nat /\ Before(places)[i] = {j \in places : j < i}
  BY DEF Before
<1>5. OrdersSet(places, Before(places))
  BY <1>4 DEF OrdersSet
<1>6. ASSUME NEW seq
      PROVE  SubSeqAt(seq, places) =
               [k \in DOMAIN RankedBy(places, Before(places))
                  |-> seq[RankedBy(places, Before(places))[k]]]
  BY DEF SubSeqAt, InOrder, Before
<1> QED  BY <1>2, <1>3, <1>4, <1>5, <1>6

Follows(p, seq, places) ==
  /\ Ascends(p, Cardinality(places), places)
  /\ SubSeqAt(seq, places) = [k \in 1 .. Cardinality(places) |-> seq[p[k]]]

LEMMA PlacesAscend ==
  ASSUME NEW n \in Nat, NEW places \in SUBSET (1 .. n), NEW seq
  PROVE  /\ Cardinality(places) \in 0 .. n
         /\ \E p : Follows(p, seq, places)
<1> DEFINE p == RankedBy(places, Before(places))
           m == Cardinality(places)
<1>1. /\ p \in [1 .. m -> places]
      /\ \A i \in places : \E k \in 1 .. m : p[k] = i
      /\ \A j, k \in 1 .. m : j < k <=> p[j] \in Before(places)[p[k]]
  BY PlacesAreOrdered, RankedLists
<1>2. SubSeqAt(seq, places) = [k \in DOMAIN p |-> seq[p[k]]]
  BY PlacesAreOrdered
<1> HIDE DEF p
<1>3. \A j, k \in 1 .. m : p[j] \in Before(places)[p[k]] <=> p[j] < p[k]
  BY <1>1, PlacesAreOrdered
<1>4. Ascends(p, m, places)
  BY <1>1, <1>3 DEF Ascends
<1>5. SubSeqAt(seq, places) = [k \in 1 .. m |-> seq[p[k]]]
  BY <1>1, <1>2
<1> QED  BY <1>4, <1>5, PlacesAreOrdered DEF Follows

(* Only one way leads through places in rising order.                      *)
LEMMA AscentIsUnique ==
  ASSUME NEW n \in Nat, NEW places \in SUBSET (1 .. n), NEW seq,
         NEW m \in Nat, NEW p, Ascends(p, m, places)
  PROVE  /\ m = Cardinality(places)
         /\ SubSeqAt(seq, places) = Along(seq, p, m)
<1>1. \A j, k \in 1 .. m : j < k => p[j] \in Before(places)[p[k]]
  BY PlacesAreOrdered DEF Ascends
<1>2. /\ p \in [1 .. m -> places]
      /\ \A i \in places : \E k \in 1 .. m : p[k] = i
  BY DEF Ascends
<1>3. m = Cardinality(places) /\ RankedBy(places, Before(places)) = p
  <2>1. IsFiniteSet(places) /\ OrdersSet(places, Before(places))
    BY PlacesAreOrdered
  <2>2. ListsInOrder(p, m, places, Before(places))
    BY <1>1, <1>2 DEF ListsInOrder
  <2> QED  BY <2>1, <2>2, RankedIsUnique
<1>4. SubSeqAt(seq, places) = [k \in DOMAIN RankedBy(places, Before(places))
                                 |-> seq[RankedBy(places, Before(places))[k]]]
  BY PlacesAreOrdered
<1> QED  BY <1>2, <1>3, <1>4 DEF Along

(* What a subsequence consists of.                                         *)
LEMMA SubSeqAtIs ==
  ASSUME NEW T, NEW seq \in Seq(T), NEW places \in SUBSET (1 .. Len(seq))
  PROVE  /\ SubSeqAt(seq, places) \in Seq(T)
         /\ Len(SubSeqAt(seq, places)) = Cardinality(places)
         /\ Cardinality(places) \in 0 .. Len(seq)
         /\ ToSet(SubSeqAt(seq, places)) = {seq[i] : i \in places}
<1> DEFINE m == Cardinality(places)
           sub == SubSeqAt(seq, places)
<1>0. Len(seq) \in Nat
  OBVIOUS
<1>1. m \in 0 .. Len(seq)
  BY <1>0, PlacesAscend DEF Follows
<1>2. PICK p : Ascends(p, m, places) /\ sub = [k \in 1 .. m |-> seq[p[k]]]
  BY <1>0, PlacesAscend DEF Follows
<1> HIDE DEF m, sub
<1>3. \A k \in 1 .. m : p[k] \in places /\ seq[p[k]] \in T
  <2>1. \A i \in places : seq[i] \in T
    OBVIOUS
  <2> QED  BY <1>2, <2>1 DEF Ascends
<1>4. sub \in Seq(T) /\ Len(sub) = m
  BY <1>1, <1>2, <1>3
<1>5. ToSet(sub) = {seq[i] : i \in places}
  BY <1>1, <1>2, <1>3 DEF ToSet, Ascends
<1> QED  BY <1>1, <1>4, <1>5 DEF m, sub

LEMMA SubSeqAtAll ==
  ASSUME NEW T, NEW seq \in Seq(T)
  PROVE  SubSeqAt(seq, 1 .. Len(seq)) = seq
<1> DEFINE n == Len(seq)
           p == [k \in 1 .. n |-> k]
<1>1. n \in Nat /\ seq = [k \in 1 .. n |-> seq[k]]
  OBVIOUS
<1> HIDE DEF n
<1>2. Ascends(p, n, 1 .. n)
  BY <1>1 DEF Ascends
<1>3. SubSeqAt(seq, 1 .. n) = Along(seq, p, n)
  <2> HIDE DEF p
  <2>1. 1 .. n \in SUBSET (1 .. n)
    OBVIOUS
  <2> QED  BY <1>1, <1>2, <2>1, AscentIsUnique
<1> QED  BY <1>1, <1>3 DEF n, Along

-----------------------------------------------------------------------------
(* FoldLeft, which takes the greatest place away from the places that are  *)
(* left.                                                                   *)
LEMMA GreatestPlace ==
  ASSUME NEW n \in Nat, NEW s \in SUBSET (1 .. n), s # {}
  PROVE  Max(s) \in s /\ \A i \in s : i <= Max(s)
<1> DEFINE U == {m \in Nat : \A i \in s : i <= m}
<1>1. n \in U
  OBVIOUS
<1>2. PICK m \in U : \A k \in U : m <= k
  <2>1. U \subseteq Nat /\ U # {}
    BY <1>1
  <2> HIDE DEF U
  <2> QED  BY <2>1, NatMin
<1>3. m \in s
  <2>1. PICK i \in s : TRUE
    OBVIOUS
  <2>2. ASSUME m \notin s
        PROVE  FALSE
    <3>1. m - 1 \in U
      BY <1>2, <2>1, <2>2
    <3> QED  BY <1>2, <3>1
  <2> QED  BY <2>2
<1>4. \A i \in s : m >= i
  BY <1>2
<1>5. Max(s) \in s /\ \A i \in s : Max(s) >= i
  BY <1>3, <1>4 DEF Max
<1>6. \A i \in s : i \in Nat
  OBVIOUS
<1> QED  BY <1>5, <1>6

LEMMA GreatestOfPrefix ==
  ASSUME NEW n \in Nat, NEW i \in 1 .. n
  PROVE  Max(1 .. i) = i /\ (1 .. i) \ {i} = 1 .. (i - 1)
<1>1. 1 .. i \in SUBSET (1 .. n) /\ i \in 1 .. i
  OBVIOUS
<1>2. Max(1 .. i) \in 1 .. i /\ \A j \in 1 .. i : j <= Max(1 .. i)
  BY <1>1, GreatestPlace
<1> QED  BY <1>1, <1>2

(* What a fold finds at the places it has passed.                          *)
PassedPlaces(n) ==
  /\ 1 .. 0 = {} /\ {} \in SUBSET (1 .. n)
  /\ \A i \in 1 .. n : /\ 1 .. i \in SUBSET (1 .. n) /\ 1 .. i # {}
                       /\ Max(1 .. i) = i /\ (1 .. i) \ {i} = 1 .. (i - 1)

LEMMA PlacesPassed ==
  ASSUME NEW n \in Nat
  PROVE  PassedPlaces(n)
<1>1. ASSUME NEW i \in 1 .. n
      PROVE  /\ 1 .. i \in SUBSET (1 .. n) /\ 1 .. i # {}
             /\ Max(1 .. i) = i /\ (1 .. i) \ {i} = 1 .. (i - 1)
  <2>1. i \in 1 .. i /\ 1 .. i \subseteq 1 .. n
    OBVIOUS
  <2>2. Max(1 .. i) = i /\ (1 .. i) \ {i} = 1 .. (i - 1)
    BY ONLY n \in Nat, i \in 1 .. n, GreatestOfPrefix
  <2> QED  BY <2>1, <2>2
<1> QED  BY <1>1 DEF PassedPlaces

(* step[i][v]: what becomes of v at place i.                               *)
FoldsBy(F, n, c, step) ==
  F = [s \in SUBSET (1 .. n) |->
         IF s = {} THEN c ELSE step[Max(s)][F[s \ {Max(s)}]]]

Foldable(n, V, c, step) == \E F \in [SUBSET (1 .. n) -> V] : FoldsBy(F, n, c, step)

LEMMA FoldExists ==
  ASSUME NEW N \in Nat, NEW V, NEW c \in V, NEW step \in [1 .. N -> [V -> V]]
  PROVE  Foldable(N, V, c, step)
<1> DEFINE P == {n \in Nat : n <= N => Foldable(n, V, c, step)}
<1>1. Foldable(0, V, c, step)
  <2> DEFINE F == [s \in SUBSET (1 .. 0) |-> c]
  <2>1. SUBSET (1 .. 0) = {{}}
    OBVIOUS
  <2>2. F \in [SUBSET (1 .. 0) -> V]
    OBVIOUS
  <2>3. FoldsBy(F, 0, c, step)
    BY <2>1 DEF FoldsBy
  <2> QED  BY <2>2, <2>3 DEF Foldable
<1>2. ASSUME NEW n \in Nat, n + 1 <= N, Foldable(n, V, c, step)
      PROVE  Foldable(n + 1, V, c, step)
  <2>1. PICK F \in [SUBSET (1 .. n) -> V] : FoldsBy(F, n, c, step)
    BY <1>2 DEF Foldable
  <2> DEFINE D == SUBSET (1 .. (n + 1))
             G == [s \in D |-> IF n + 1 \in s THEN step[n + 1][F[s \ {n + 1}]] ELSE F[s]]
  <2>2. \A s \in D : IF n + 1 \in s THEN s \ {n + 1} \in SUBSET (1 .. n)
                                    ELSE s \in SUBSET (1 .. n)
    OBVIOUS
  <2>3. n + 1 \in 1 .. N
    BY <1>2
  <2>4. G \in [D -> V]
    BY <2>1, <2>2, <2>3
  <2>5. ASSUME NEW s \in D
        PROVE  G[s] = IF s = {} THEN c ELSE step[Max(s)][G[s \ {Max(s)}]]
    <3>1. CASE n + 1 \in s
      <4>1. Max(s) = n + 1
        <5>1. Max(s) \in s /\ \A i \in s : i <= Max(s)
          BY <3>1, GreatestPlace, n + 1 \in Nat
        <5>2. \A i \in s : i <= n + 1 /\ i \in Nat
          OBVIOUS
        <5>3. n + 1 <= Max(s) /\ Max(s) <= n + 1 /\ Max(s) \in Nat
          BY <3>1, <5>1, <5>2
        <5> HIDE DEF G
        <5> QED  BY ONLY <5>3, n \in Nat
      <4>2. s \ {n + 1} \in D /\ G[s \ {n + 1}] = F[s \ {n + 1}]
        BY <2>2, <3>1
      <4>3. G[s] = step[n + 1][F[s \ {n + 1}]]
        BY <3>1
      <4> HIDE DEF G
      <4> QED  BY <3>1, <4>1, <4>2, <4>3
    <3>2. CASE n + 1 \notin s
      <4>1. s \in SUBSET (1 .. n) /\ G[s] = F[s]
        BY <2>2, <3>2
      <4>2. F[s] = IF s = {} THEN c ELSE step[Max(s)][F[s \ {Max(s)}]]
        BY <2>1, <4>1 DEF FoldsBy
      <4>3. G[s \ {Max(s)}] = F[s \ {Max(s)}]
        BY <3>2, <4>1
      <4> HIDE DEF G
      <4> QED  BY <4>1, <4>2, <4>3
    <3> QED  BY <3>1, <3>2
  <2>6. FoldsBy(G, n + 1, c, step)
    <3>1. G = [s \in D |-> G[s]]
      OBVIOUS
    <3> HIDE DEF G
    <3> QED  BY <2>5, <3>1 DEF FoldsBy
  <2> QED  BY <2>4, <2>6 DEF Foldable
<1>3. 0 \in P /\ \A n \in Nat : n \in P => n + 1 \in P
  BY <1>1, <1>2
<1>4. N \in P
  <2> HIDE DEF P
  <2> QED  BY <1>3, SetInduction
<1> QED  BY <1>4

(* Induction along a sequence.                                             *)
LEMMA PrefixInduction ==
  ASSUME NEW n \in Nat, NEW Q, 0 \in Q, \A i \in 1 .. n : i - 1 \in Q => i \in Q
  PROVE  \A i \in 0 .. n : i \in Q
<1> DEFINE P == {i \in Nat : i <= n => i \in Q}
<1>1. 0 \in P
  OBVIOUS
<1>2. ASSUME NEW i \in Nat, i \in P
      PROVE  i + 1 \in P
  <2>1. CASE i + 1 <= n
    <3>1. i + 1 \in 1 .. n /\ (i + 1) - 1 = i /\ i \in Q
      BY <1>2, <2>1
    <3> QED  BY <3>1
  <2>2. CASE ~ (i + 1 <= n)
    BY <2>2
  <2> QED  BY <2>1, <2>2
<1>3. \A i \in Nat : i \in P
  <2> HIDE DEF P
  <2> QED  BY <1>1, <1>2, SetInduction
<1> QED  BY <1>3

(* A function that starts with c and takes a step at every place.          *)
Iterates(g, n, c, step) == g[0] = c /\ \A i \in 1 .. n : g[i] = step[i][g[i - 1]]

LEMMA ChainExists ==
  ASSUME NEW n \in Nat, NEW V, NEW c \in V, NEW step \in [1 .. n -> [V -> V]]
  PROVE  \E g \in [0 .. n -> V] : Iterates(g, n, c, step)
<1>1. PICK F \in [SUBSET (1 .. n) -> V] : FoldsBy(F, n, c, step)
  BY FoldExists DEF Foldable
<1> DEFINE g == [i \in 0 .. n |-> F[1 .. i]]
<1>2. \A i \in 0 .. n : 1 .. i \in SUBSET (1 .. n)
  OBVIOUS
<1>3. g \in [0 .. n -> V]
  BY <1>2
<1>4. g[0] = c
  BY <1>1 DEF FoldsBy
<1>5. ASSUME NEW i \in 1 .. n
      PROVE  g[i] = step[i][g[i - 1]]
  <2>1. Max(1 .. i) = i /\ (1 .. i) \ {i} = 1 .. (i - 1)
    BY ONLY n \in Nat, i \in 1 .. n, GreatestOfPrefix
  <2>2. 1 .. i # {} /\ 1 .. i \in SUBSET (1 .. n)
    <3>1. i \in 1 .. i
      OBVIOUS
    <3>2. 1 .. i \subseteq 1 .. n
      OBVIOUS
    <3> HIDE DEF g
    <3> QED  BY <3>1, <3>2
  <2>3. \A s \in SUBSET (1 .. n) : F[s] = IF s = {} THEN c ELSE step[Max(s)][F[s \ {Max(s)}]]
    BY <1>1 DEF FoldsBy
  <2>4. F[1 .. i] = step[Max(1 .. i)][F[(1 .. i) \ {Max(1 .. i)}]]
    BY <2>2, <2>3
  <2>5. F[1 .. i] = step[i][F[1 .. (i - 1)]]
    BY <2>1, <2>4
  <2> QED  BY <2>5
<1> QED  BY <1>3, <1>4, <1>5 DEF Iterates

(* FlattenSeq puts one sequence after the other.                           *)
Joins(g, seqs) ==
  g[0] = <<>> /\ \A i \in 1 .. Len(seqs) : g[i] = g[i - 1] \o seqs[i]

LEMMA FlattenJoins ==
  ASSUME NEW T, NEW seqs \in Seq(Seq(T))
  PROVE  \E g \in [0 .. Len(seqs) -> Seq(T)] :
           Joins(g, seqs) /\ FlattenSeq(seqs) = g[Len(seqs)]
<1> DEFINE n == Len(seqs)
           V == Seq(T)
           step == [i \in 1 .. n |-> [v \in V |-> v \o seqs[i]]]
<1>1. n \in Nat /\ \A i \in 1 .. n : seqs[i] \in V
  OBVIOUS
<1>2. \A v, w \in V : v \o w \in V
  OBVIOUS
<1>3. <<>> \in V
  OBVIOUS
<1>a. \A v \in V : <<>> \o v = v
  OBVIOUS
<1>b. n = 0 => seqs = <<>>
  OBVIOUS
<1> HIDE DEF n, V
<1>4. step \in [1 .. n -> [V -> V]]
  BY <1>1, <1>2
<1>5. PICK g \in [0 .. n -> V] : Iterates(g, n, <<>>, step)
  <2> HIDE DEF step
  <2> QED  BY <1>1, <1>3, <1>4, ChainExists
<1>6. g[0] = <<>> /\ \A i \in 1 .. n : g[i] = g[i - 1] \o seqs[i]
  <2>1. \A i \in 1 .. n : i - 1 \in 0 .. n
    BY <1>1
  <2> QED  BY <1>5, <2>1 DEF Iterates
<1>7. FlattenSeq(seqs) = g[n]
  <2>1. CASE n = 0
    BY <1>b, <1>6, <2>1 DEF FlattenSeq, n
  <2>2. CASE n # 0
    <3> DEFINE Is(f) == f = [i \in 1 .. n |-> IF i = 1 THEN seqs[i] ELSE f[i - 1] \o seqs[i]]
               flat == CHOOSE f : Is(f)
               h == [i \in 1 .. n |-> g[i]]
    <3>1. FlattenSeq(seqs) = flat[n]
      BY <2>2 DEF FlattenSeq, n
    <3>2. Is(h)
      <4>1. ASSUME NEW i \in 1 .. n
            PROVE  g[i] = IF i = 1 THEN seqs[i] ELSE h[i - 1] \o seqs[i]
        <5>1. CASE i = 1
          BY <1>1, <1>6, <1>a, <5>1
        <5>2. CASE i # 1
          <6>1. i - 1 \in 1 .. n
            BY <1>1, <5>2
          <6> QED  BY <1>6, <5>2, <6>1
        <5> QED  BY <5>1, <5>2
      <4> QED  BY <4>1
    <3>3. Is(flat)
      <4> HIDE DEF Is
      <4> QED  BY <3>2
    <3> DEFINE Q == {i \in 0 .. n : i # 0 => flat[i] = g[i]}
    <3>4. ASSUME NEW i \in 1 .. n, i - 1 \in Q
          PROVE  i \in Q
      <4>1. flat[i] = IF i = 1 THEN seqs[i] ELSE flat[i - 1] \o seqs[i]
        <5> HIDE DEF flat
        <5> QED  BY <3>3
      <4> HIDE DEF flat
      <4>2. CASE i = 1
        <5>0. i - 1 = 0
          BY <4>2
        <5>1. g[i] = g[0] \o seqs[i] /\ seqs[i] \in V
          BY <1>1, <1>6, <5>0
        <5>2. flat[i] = g[i]
          BY <1>6, <1>a, <4>1, <4>2, <5>1
        <5> QED  BY <1>1, <5>2
      <4>3. CASE i # 1
        <5>1. flat[i - 1] = g[i - 1]
          BY <1>1, <3>4, <4>3
        <5>2. flat[i] = g[i]
          BY <1>6, <4>1, <4>3, <5>1
        <5> QED  BY <1>1, <5>2
      <4> QED  BY <4>2, <4>3
    <3>5. 0 \in Q
      BY <1>1
    <3>6. n \in Q
      <4> HIDE DEF Q
      <4>1. \A i \in 0 .. n : i \in Q
        BY <1>1, <3>4, <3>5, PrefixInduction
      <4> QED  BY <1>1, <4>1
    <3> QED  BY <2>2, <3>1, <3>6
  <2> QED  BY <2>1, <2>2
<1>8. Joins(g, seqs)
  BY <1>6 DEF Joins, n
<1> QED  BY <1>5, <1>7, <1>8 DEF n, V

-----------------------------------------------------------------------------
(* ORDER BY.                                                               *)
RowsInOrder(rows, S, key) ==
  \A i, j \in 1 .. Cardinality(S) :
    i < j => rows[i] # rows[j] /\ key[rows[i]] <= key[rows[j]]

LEMMA OrderExists ==
  ASSUME NEW S, IsFiniteSet(S), NEW key, \A x \in S : key[x] \in Int
  PROVE  \E rows \in [1 .. Cardinality(S) -> S] : RowsInOrder(rows, S, key)
<1> DEFINE n == Cardinality(S)
<1>1. n \in Nat
  BY FS_CardinalityType
<1>2. PICK b \in [1 .. n -> S] : \A x \in S : \E k \in 1 .. n : b[k] = x
  BY FS_CardinalityType DEF ExistsBijection, Bijection, Surjection
<1> DEFINE idx == [x \in S |-> CHOOSE k \in 1 .. n : b[k] = x]
<1>3. \A x \in S : idx[x] \in 1 .. n /\ b[idx[x]] = x
  BY <1>2
<1> HIDE DEF idx
<1> DEFINE earlier == [x \in S |-> {y \in S : key[y] < key[x]
                                              \/ (key[y] = key[x] /\ idx[y] < idx[x])}]
<1>4. \A x, y \in S : y \in earlier[x] <=> key[y] < key[x] \/ (key[y] = key[x] /\ idx[y] < idx[x])
  OBVIOUS
<1>5. \A x \in S : earlier[x] \subseteq S
  OBVIOUS
<1> HIDE DEF earlier, n
<1>6. \A x \in S : idx[x] \in Int
  BY <1>3
<1>7. OrdersSet(S, earlier)
  <2>1. \A x \in S : x \notin earlier[x]
    BY <1>4, <1>6
  <2>2. ASSUME NEW x \in S, NEW y \in S, x \in earlier[y], NEW z \in earlier[x]
        PROVE  z \in earlier[y]
    <3>1. z \in S
      BY <1>5, <2>2
    <3>2. key[x] \in Int /\ key[y] \in Int /\ key[z] \in Int
            /\ idx[x] \in Int /\ idx[y] \in Int /\ idx[z] \in Int
      BY <1>6, <3>1
    <3> QED  BY <1>4, <2>2, <3>1, <3>2
  <2>3. ASSUME NEW x \in S, NEW y \in S, x # y
        PROVE  x \in earlier[y] \/ y \in earlier[x]
    <3>1. idx[x] # idx[y]
      BY <1>3, <2>3
    <3>2. key[x] \in Int /\ key[y] \in Int /\ idx[x] \in Int /\ idx[y] \in Int
      BY <1>6
    <3> QED  BY <1>4, <3>1, <3>2
  <2> QED  BY <1>5, <2>1, <2>2, <2>3 DEF OrdersSet
<1> DEFINE rows == RankedBy(S, earlier)
<1>8. /\ rows \in [1 .. n -> S]
      /\ \A j, k \in 1 .. n : j < k <=> rows[j] \in earlier[rows[k]]
  BY <1>7, RankedLists DEF n
<1> HIDE DEF rows
<1>9. ASSUME NEW i \in 1 .. n, NEW j \in 1 .. n, i < j
      PROVE  rows[i] # rows[j] /\ key[rows[i]] <= key[rows[j]]
  <2>1. rows[i] \in S /\ rows[j] \in S /\ rows[i] \in earlier[rows[j]]
    BY <1>8, <1>9
  <2>2. rows[i] # rows[j]
    BY <1>7, <2>1 DEF OrdersSet
  <2> QED  BY <1>4, <2>1, <2>2
<1>10. RowsInOrder(rows, S, key)
  BY <1>9 DEF RowsInOrder, n
<1> QED  BY <1>8, <1>10 DEF n

(* Every row comes once, in order.                                         *)
LEMMA OrderedByLists ==
  ASSUME NEW S, IsFiniteSet(S), NEW key, \A x \in S : key[x] \in Int
  PROVE  /\ Cardinality(S) \in Nat
         /\ OrderedBy(S, key) \in [1 .. Cardinality(S) -> S]
         /\ \A x \in S : \E k \in 1 .. Cardinality(S) : OrderedBy(S, key)[k] = x
         /\ RowsInOrder(OrderedBy(S, key), S, key)
<1> DEFINE n == Cardinality(S)
           rows == OrderedBy(S, key)
<1>1. n \in Nat
  BY FS_CardinalityType
<1>2. rows = CHOOSE r \in [1 .. n -> S] : RowsInOrder(r, S, key)
  BY DEF OrderedBy, RowsInOrder
<1>3. \E r \in [1 .. n -> S] : RowsInOrder(r, S, key)
  BY OrderExists
<1> HIDE DEF rows, n
<1>4. rows \in [1 .. n -> S] /\ RowsInOrder(rows, S, key)
  BY <1>2, <1>3
<1>5. \A x \in S : \E k \in 1 .. n : rows[k] = x
  <2>1. \A i, j \in 1 .. n : rows[i] = rows[j] => i = j
    <3>1. \A i, j \in 1 .. n : i < j => rows[i] # rows[j]
      BY <1>4 DEF RowsInOrder, n
    <3> QED  BY <1>1, <3>1
  <2>2. rows \in Injection(1 .. n, S)
    BY <1>4, <2>1 DEF Injection, IsInjective
  <2>3. Cardinality(1 .. n) = n
    BY <1>1, FS_Interval
  <2>4. rows \in Surjection(1 .. n, S)
    BY <2>2, <2>3, FS_Injection DEF n
  <2> QED  BY <2>4 DEF Surjection
<1> QED  BY <1>1, <1>4, <1>5 DEF rows, n

(* With different keys there is one such order.                            *)
Rises(g, m, S, key) ==
  /\ g \in [1 .. m -> S]
  /\ \A x \in S : \E k \in 1 .. m : g[k] = x
  /\ \A j, k \in 1 .. m : j < k => key[g[j]] < key[g[k]]

LEMMA OrderIsUnique ==
  ASSUME NEW S, IsFiniteSet(S), NEW key, \A x \in S : key[x] \in Int,
         NEW m \in Nat, NEW g, Rises(g, m, S, key)
  PROVE  OrderedBy(S, key) = g
<1> DEFINE n == Cardinality(S)
           rows == OrderedBy(S, key)
           earlier == [x \in S |-> {y \in S : key[y] < key[x]}]
<1>1. \A x, y \in S : y \in earlier[x] <=> key[y] < key[x]
  OBVIOUS
<1>2. \A x \in S : earlier[x] \subseteq S
  OBVIOUS
<1> HIDE DEF earlier
<1>3. \A x, y \in S : x # y => key[x] # key[y]
  <2> SUFFICES ASSUME NEW x \in S, NEW y \in S, x # y
               PROVE  key[x] # key[y]
    OBVIOUS
  <2>1. PICK j \in 1 .. m : g[j] = x
    BY DEF Rises
  <2>2. PICK k \in 1 .. m : g[k] = y
    BY DEF Rises
  <2>3. j < k \/ k < j
    BY <2>1, <2>2
  <2>4. key[g[j]] < key[g[k]] \/ key[g[k]] < key[g[j]]
    BY <2>3 DEF Rises
  <2> QED  BY <2>1, <2>2, <2>4
<1>4. OrdersSet(S, earlier)
  BY <1>1, <1>2, <1>3 DEF OrdersSet
<1>5. ListsInOrder(g, m, S, earlier)
  <2>1. \A j, k \in 1 .. m : j < k => g[j] \in earlier[g[k]]
    <3> SUFFICES ASSUME NEW j \in 1 .. m, NEW k \in 1 .. m, j < k
                 PROVE  g[j] \in earlier[g[k]]
      OBVIOUS
    <3>1. g[j] \in S /\ g[k] \in S /\ key[g[j]] < key[g[k]]
      BY DEF Rises
    <3> QED  BY <1>1, <3>1
  <2> QED  BY <2>1 DEF ListsInOrder, Rises
<1>6. /\ n \in Nat
      /\ rows \in [1 .. n -> S]
      /\ \A x \in S : \E k \in 1 .. n : rows[k] = x
      /\ RowsInOrder(rows, S, key)
  BY OrderedByLists
<1> HIDE DEF rows
<1>7. ListsInOrder(rows, n, S, earlier)
  <2>1. \A j, k \in 1 .. n : j < k => rows[j] \in earlier[rows[k]]
    <3> SUFFICES ASSUME NEW j \in 1 .. n, NEW k \in 1 .. n, j < k
                 PROVE  rows[j] \in earlier[rows[k]]
      OBVIOUS
    <3>1. rows[j] \in S /\ rows[k] \in S
      BY <1>6
    <3>2. rows[j] # rows[k] /\ key[rows[j]] <= key[rows[k]]
      BY <1>6 DEF RowsInOrder
    <3> QED  BY <1>1, <1>3, <3>1, <3>2
  <2> HIDE DEF n
  <2> QED  BY <1>6, <2>1 DEF ListsInOrder
<1>8. RankedBy(S, earlier) = g
  BY <1>4, <1>5, RankedIsUnique
<1>9. RankedBy(S, earlier) = rows
  BY <1>4, <1>6, <1>7, RankedIsUnique
<1> QED  BY <1>8, <1>9 DEF rows
(* Rising from one to the next is rising throughout.                       *)
LEMMA NextRises ==
  ASSUME NEW n \in Nat, NEW f, \A i \in 1 .. n : f[i] \in Int,
         \A i \in 2 .. n : f[i - 1] < f[i]
  PROVE  \A j, k \in 1 .. n : j < k => f[j] < f[k]
<1> DEFINE Q == {k \in 0 .. n : \A j \in 1 .. k : j < k => f[j] < f[k]}
<1>1. 0 \in Q
  OBVIOUS
<1>2. ASSUME NEW k \in 1 .. n, k - 1 \in Q
      PROVE  k \in Q
  <2>1. ASSUME NEW j \in 1 .. k, j < k
        PROVE  f[j] < f[k]
    <3>1. j \in 1 .. n /\ k \in 2 .. n
      BY <2>1
    <3>2. CASE j = k - 1
      BY <3>1, <3>2
    <3>3. CASE j # k - 1
      <4>1. j \in 1 .. (k - 1) /\ j < k - 1 /\ k - 1 \in 1 .. n
        BY <2>1, <3>1, <3>3
      <4>2. f[j] < f[k - 1]
        BY <1>2, <4>1
      <4>3. f[k - 1] < f[k] /\ f[k - 1] \in Int /\ f[k] \in Int /\ f[j] \in Int
        BY <3>1, <4>1
      <4> HIDE DEF Q
      <4> QED  BY ONLY <4>2, <4>3
    <3> QED  BY <3>2, <3>3
  <2> QED  BY <2>1
<1>3. \A k \in 0 .. n : k \in Q
  <2> HIDE DEF Q
  <2> QED  BY <1>1, <1>2, PrefixInduction
<1> QED  BY <1>3

LEMMA ElementsAreFinite ==
  ASSUME NEW T, NEW seq \in Seq(T)
  PROVE  IsFiniteSet(Range(seq)) /\ \A x \in Range(seq) : \E i \in 1 .. Len(seq) : seq[i] = x
<1>1. Len(seq) \in Nat /\ seq \in [1 .. Len(seq) -> T] /\ DOMAIN seq = 1 .. Len(seq)
  BY LenProperties
<1>2. \A x \in Range(seq) : \E i \in 1 .. Len(seq) : seq[i] = x
  BY <1>1 DEF Range
<1>3. seq \in [1 .. Len(seq) -> Range(seq)]
  BY <1>1 DEF Range
<1>4. seq \in Surjection(1 .. Len(seq), Range(seq))
  BY <1>2, <1>3 DEF Surjection
<1>5. IsFiniteSet(1 .. Len(seq))
  BY <1>1, FS_Interval
<1> QED  BY <1>2, <1>4, <1>5, FS_Surjection

(* What stands where when one sequence follows another.                   *)
PutsAfter(s, t, all) ==
  /\ Len(s) \in Nat /\ Len(t) \in Nat /\ Len(all) = Len(s) + Len(t)
  /\ \A j \in 1 .. Len(s) : all[j] = s[j]
  /\ \A j \in 1 .. Len(t) : all[Len(s) + j] = t[j]

LEMMA ConcatPuts ==
  ASSUME NEW T, NEW s \in Seq(T), NEW t \in Seq(T)
  PROVE  PutsAfter(s, t, s \o t) /\ s \o t \in Seq(T)
BY DEF PutsAfter

(* Products and fractions of naturals.                                     *)
LEMMA TimesKeepsOrder ==
  ASSUME NEW x \in Nat, NEW y \in Nat, NEW z \in Nat, z > 0
  PROVE  x < y <=> x * z < y * z
OBVIOUS

LEMMA FractionsTransitive ==
  ASSUME NEW a \in Nat, NEW b \in Nat, NEW c \in Nat,
         NEW u \in Nat \ {0}, NEW v \in Nat \ {0}, NEW w \in Nat \ {0},
         ~ (b * u > a * v), ~ (c * v > b * w)
  PROVE  /\ ~ (c * u > a * w)
         /\ a * v > b * u \/ b * w > c * v => a * w > c * u
<1>1. (a * v) * w >= (b * u) * w
  OBVIOUS
<1>2. (b * w) * u >= (c * v) * u
  OBVIOUS
<1>3. (a * w) * v >= (c * u) * v
  BY <1>1, <1>2
<1>4. ~ (c * u > a * w)
  BY <1>3, TimesKeepsOrder
<1>5. ASSUME a * v > b * u
      PROVE  a * w > c * u
  <2>1. (a * v) * w > (b * u) * w
    BY <1>5
  <2>2. (a * w) * v > (c * u) * v
    BY <1>2, <2>1
  <2> QED  BY <2>2, TimesKeepsOrder
<1>6. ASSUME b * w > c * v
      PROVE  a * w > c * u
  <2>1. (b * w) * u > (c * v) * u
    BY <1>6
  <2>2. (a * w) * v > (c * u) * v
    BY <1>1, <2>1
  <2> QED  BY <2>2, TimesKeepsOrder
<1> QED  BY <1>4, <1>5, <1>6

(* Small sets.                                                             *)
LEMMA ThreeAreFinite == \A a, b, c : IsFiniteSet({a, b, c})
<1> TAKE a, b, c
<1>1. IsFiniteSet({a})
  BY FS_Singleton
<1>2. IsFiniteSet({a} \union {b})
  BY <1>1, FS_AddElement
<1>3. IsFiniteSet(({a} \union {b}) \union {c})
  BY <1>2, FS_AddElement
<1>4. {a, b, c} = ({a} \union {b}) \union {c}
  OBVIOUS
<1> QED  BY <1>3, <1>4

(* What a prefix, or a list with one element more, consists of.            *)
LEMMA PrefixAppends ==
  ASSUME NEW T, NEW s \in Seq(T), NEW i \in 1 .. Len(s)
  PROVE  /\ SubSeq(s, 1, i - 1) \in Seq(T) /\ <<s[i]>> \in Seq(T)
         /\ SubSeq(s, 1, i) = SubSeq(s, 1, i - 1) \o <<s[i]>>
<1> DEFINE before == SubSeq(s, 1, i - 1)
           upto == SubSeq(s, 1, i)
<1>1. /\ before \in Seq(T) /\ Len(before) = i - 1 /\ \A j \in 1 .. i - 1 : before[j] = s[j]
      /\ upto \in Seq(T) /\ Len(upto) = i /\ \A j \in 1 .. i : upto[j] = s[j]
  OBVIOUS
<1>2. <<s[i]>> \in Seq(T) /\ Len(<<s[i]>>) = 1 /\ <<s[i]>>[1] = s[i]
  OBVIOUS
<1> HIDE DEF before, upto
<1>3. before \o <<s[i]>> \in Seq(T) /\ Len(before \o <<s[i]>>) = i
  BY <1>1, <1>2
<1>4. \A j \in 1 .. i : (before \o <<s[i]>>)[j] = s[j]
  BY <1>1, <1>2
<1>5. upto = [j \in 1 .. i |-> s[j]] /\ before \o <<s[i]>> = [j \in 1 .. i |-> s[j]]
  <2>1. upto = [j \in 1 .. i |-> upto[j]]
    BY <1>1
  <2> DEFINE b == before \o <<s[i]>>
  <2>2. b \in Seq(T) /\ Len(b) = i
    BY <1>3
  <2>3. \A j \in 1 .. i : b[j] = s[j]
    BY <1>4
  <2> HIDE DEF b
  <2>4. b = [j \in 1 .. i |-> b[j]]
    BY <2>2
  <2>5. b = [j \in 1 .. i |-> s[j]]
    BY <2>3, <2>4
  <2> QED  BY <1>1, <2>1, <2>5 DEF b
<1> QED  BY <1>1, <1>2, <1>5 DEF before, upto

LEMMA AppendPuts ==
  ASSUME NEW T, NEW s \in Seq(T), NEW x \in T
  PROVE  /\ Append(s, x) \in Seq(T) /\ Len(Append(s, x)) = Len(s) + 1 /\ Len(s) \in Nat
         /\ Append(s, x)[Len(s) + 1] = x
         /\ \A i \in 1 .. Len(s) : Append(s, x)[i] = s[i]
         /\ ToSet(Append(s, x)) = ToSet(s) \union {x}
<1>1. /\ Append(s, x) \in Seq(T) /\ Len(Append(s, x)) = Len(s) + 1 /\ Len(s) \in Nat
      /\ Append(s, x)[Len(s) + 1] = x
      /\ \A i \in 1 .. Len(s) : Append(s, x)[i] = s[i]
  OBVIOUS
<1> DEFINE all == Append(s, x)
           n == Len(s)
<1>2. DOMAIN s = 1 .. n /\ DOMAIN all = 1 .. n + 1
  BY <1>1
<1> HIDE DEF all, n
<1>3. ToSet(all) = {all[i] : i \in 1 .. n + 1} /\ ToSet(s) = {s[i] : i \in 1 .. n}
  BY <1>2 DEF ToSet
<1>4. n \in Nat /\ all[n + 1] = x /\ \A i \in 1 .. n : all[i] = s[i]
  BY <1>1 DEF all, n
<1>5. ToSet(all) = ToSet(s) \union {x}
  BY <1>3, <1>4
<1> QED  BY <1>1, <1>5 DEF all

(* Which entries of a list are in a set.                                   *)
Picked(entries, V) == SubSeqAt(entries, {i \in DOMAIN entries : entries[i] \in V})

LEMMA PickedAppend ==
  ASSUME NEW T, NEW s \in Seq(T), NEW x \in T, NEW V
  PROVE  /\ Picked(s, V) \in Seq(T)
         /\ Picked(Append(s, x), V) = IF x \in V THEN Append(Picked(s, V), x) ELSE Picked(s, V)
<1> DEFINE n == Len(s)
           all == Append(s, x)
           P == {i \in DOMAIN s : s[i] \in V}
           Q == {i \in DOMAIN all : all[i] \in V}
           m == Cardinality(P)
<1>1. /\ all \in Seq(T) /\ Len(all) = n + 1 /\ n \in Nat /\ all[n + 1] = x
      /\ \A i \in 1 .. n : all[i] = s[i]
  BY AppendPuts
<1>2. DOMAIN s = 1 .. n /\ DOMAIN all = 1 .. n + 1
  BY <1>1
<1>3. Q = IF x \in V THEN P \union {n + 1} ELSE P
  BY <1>1, <1>2
<1>4. P \in SUBSET (1 .. n) /\ P \in SUBSET (1 .. n + 1) /\ n + 1 \in Nat
      /\ P \union {n + 1} \in SUBSET (1 .. n + 1)
  BY <1>1, <1>2
<1>5. Picked(s, V) = SubSeqAt(s, P) /\ Picked(all, V) = SubSeqAt(all, Q)
  BY DEF Picked
<1> HIDE DEF P, Q, all, m, n
<1>6. SubSeqAt(s, P) \in Seq(T)
  BY <1>4, SubSeqAtIs DEF n
<1>7. PICK p : Ascends(p, m, P) /\ SubSeqAt(s, P) = [k \in 1 .. m |-> s[p[k]]]
  BY <1>1, <1>4, PlacesAscend DEF Follows, m
<1>8. m \in Nat
  BY <1>1, <1>4, PlacesAreOrdered DEF m
<1>9. /\ p \in [1 .. m -> P] /\ \A i \in P : \E k \in 1 .. m : p[k] = i
      /\ \A j, k \in 1 .. m : j < k <=> p[j] < p[k]
  BY <1>7 DEF Ascends
<1>10. CASE x \notin V
  <2>1. SubSeqAt(all, P) = Along(all, p, m)
    BY <1>4, <1>7, <1>8, AscentIsUnique
  <2>2. \A k \in 1 .. m : all[p[k]] = s[p[k]]
    BY <1>1, <1>4, <1>9
  <2>3. Along(all, p, m) = [k \in 1 .. m |-> s[p[k]]]
    BY <2>2 DEF Along
  <2> QED  BY <1>3, <1>5, <1>6, <1>7, <1>10, <2>1, <2>3 DEF all
<1>11. CASE x \in V
  <2> DEFINE q == [k \in 1 .. m + 1 |-> IF k <= m THEN p[k] ELSE n + 1]
             sub == SubSeqAt(s, P)
  <2>1. \A k \in 1 .. m : p[k] \in 1 .. n
    BY <1>4, <1>9
  <2>2. Ascends(q, m + 1, P \union {n + 1})
    <3>1. q \in [1 .. m + 1 -> P \union {n + 1}]
      BY <1>8, <1>9
    <3>2. \A i \in P \union {n + 1} : \E k \in 1 .. m + 1 : q[k] = i
      <4>1. ASSUME NEW i \in P PROVE \E k \in 1 .. m + 1 : q[k] = i
        <5>1. PICK k \in 1 .. m : p[k] = i
          BY <1>9
        <5>2. k \in 1 .. m + 1 /\ q[k] = i
          BY <1>8, <5>1
        <5> QED  BY <5>2
      <4>2. m + 1 \in 1 .. m + 1 /\ q[m + 1] = n + 1
        BY <1>8
      <4> QED  BY <4>1, <4>2
    <3>3. \A j, k \in 1 .. m + 1 : j < k <=> q[j] < q[k]
      <4> TAKE j, k \in 1 .. m + 1
      <4>1. (j <= m => j \in 1 .. m /\ q[j] = p[j]) /\ (~ (j <= m) => j = m + 1 /\ q[j] = n + 1)
        BY <1>8
      <4>2. (k <= m => k \in 1 .. m /\ q[k] = p[k]) /\ (~ (k <= m) => k = m + 1 /\ q[k] = n + 1)
        BY <1>8
      <4> HIDE DEF q
      <4>3. CASE j <= m /\ k <= m
        BY <1>9, <4>1, <4>2, <4>3
      <4>4. CASE j <= m /\ ~ (k <= m)
        <5>1. p[j] \in 1 .. n
          BY <2>1, <4>1, <4>4
        <5> QED  BY <1>1, <1>8, <4>1, <4>2, <4>4, <5>1
      <4>5. CASE ~ (j <= m) /\ k <= m
        <5>1. p[k] \in 1 .. n
          BY <2>1, <4>2, <4>5
        <5> QED  BY <1>1, <1>8, <4>1, <4>2, <4>5, <5>1
      <4>6. CASE ~ (j <= m) /\ ~ (k <= m)
        BY <1>1, <1>8, <4>1, <4>2, <4>6
      <4> QED  BY <4>3, <4>4, <4>5, <4>6
    <3> HIDE DEF q
    <3> QED  BY <3>1, <3>2, <3>3 DEF Ascends
  <2>3. SubSeqAt(all, P \union {n + 1}) = Along(all, q, m + 1)
    <3>1. m + 1 \in Nat
      BY <1>8
    <3> HIDE DEF q
    <3> QED  BY <1>4, <2>2, <3>1, AscentIsUnique
  <2>4. sub \in Seq(T) /\ Len(sub) = m /\ \A k \in 1 .. m : sub[k] = s[p[k]]
    BY <1>6, <1>7, <1>8
  <2>5. Along(all, q, m + 1) = Append(sub, x)
    <3>1. \A k \in 1 .. m : all[q[k]] = sub[k]
      BY <1>1, <1>8, <2>1, <2>4
    <3>2. all[q[m + 1]] = x
      BY <1>1, <1>8
    <3>3. Along(all, q, m + 1) = [k \in 1 .. m + 1 |-> IF k <= m THEN sub[k] ELSE x]
      <4>1. \A k \in 1 .. m + 1 : all[q[k]] = IF k <= m THEN sub[k] ELSE x
        <5> TAKE k \in 1 .. m + 1
        <5>1. k \in 1 .. m \/ k = m + 1
          BY <1>8
        <5> HIDE DEF q, sub
        <5> QED  BY <1>8, <3>1, <3>2, <5>1
      <4> HIDE DEF q, sub
      <4> QED  BY <4>1 DEF Along
    <3> HIDE DEF sub
    <3>4. Append(sub, x) = [k \in 1 .. m + 1 |-> IF k <= m THEN sub[k] ELSE x]
      <4> DEFINE more == Append(sub, x)
      <4>1. /\ more \in Seq(T) /\ Len(more) = m + 1 /\ more[m + 1] = x
            /\ \A k \in 1 .. m : more[k] = sub[k]
        BY <2>4, AppendPuts
      <4> HIDE DEF more
      <4>2. more = [k \in 1 .. m + 1 |-> more[k]]
        BY <4>1
      <4>3. \A k \in 1 .. m + 1 : more[k] = IF k <= m THEN sub[k] ELSE x
        <5> TAKE k \in 1 .. m + 1
        <5>1. k \in 1 .. m \/ k = m + 1
          BY <1>8
        <5> QED  BY <1>8, <4>1, <5>1
      <4>4. more = [k \in 1 .. m + 1 |-> IF k <= m THEN sub[k] ELSE x]
        BY <4>2, <4>3
      <4> QED  BY <4>4 DEF more
    <3> QED  BY <3>3, <3>4
  <2> QED  BY <1>3, <1>5, <1>6, <1>11, <2>3, <2>5 DEF all
<1> QED  BY <1>10, <1>11

LEMMA PickedOfAll ==
  ASSUME NEW T, NEW s \in Seq(T), NEW V, \A i \in 1 .. Len(s) : s[i] \in V
  PROVE  Picked(s, V) = s
<1>1. {i \in DOMAIN s : s[i] \in V} = 1 .. Len(s)
  OBVIOUS
<1> QED  BY <1>1, SubSeqAtAll DEF Picked

LEMMA PickedOfNone ==
  ASSUME NEW V
  PROVE  Picked(<<>>, V) = <<>>
<1>1. <<>> \in Seq({}) /\ \A i \in 1 .. Len(<<>>) : <<>>[i] \in V
  OBVIOUS
<1> QED  BY <1>1, PickedOfAll

Growing(s) == \A i \in 1 .. Len(s) : SubSeq(s, 1, i) = Append(SubSeq(s, 1, i - 1), s[i])

LEMMA PrefixGrows ==
  ASSUME NEW T, NEW s \in Seq(T)
  PROVE  /\ Growing(s) /\ SubSeq(s, 1, 0) = <<>> /\ SubSeq(s, 1, Len(s)) = s
         /\ \A i \in 0 .. Len(s) : SubSeq(s, 1, i) \in Seq(T)
         /\ \A i \in 1 .. Len(s) : s[i] \in T
<1>1. ASSUME NEW i \in 1 .. Len(s)
      PROVE  SubSeq(s, 1, i) = Append(SubSeq(s, 1, i - 1), s[i])
  <2> DEFINE before == SubSeq(s, 1, i - 1)
             upto == SubSeq(s, 1, i)
             more == Append(before, s[i])
  <2>1. /\ before \in Seq(T) /\ Len(before) = i - 1 /\ \A j \in 1 .. i - 1 : before[j] = s[j]
        /\ upto \in Seq(T) /\ Len(upto) = i /\ \A j \in 1 .. i : upto[j] = s[j] /\ s[i] \in T
    OBVIOUS
  <2> HIDE DEF before, upto
  <2>2. /\ more \in Seq(T) /\ Len(more) = i /\ more[i] = s[i]
        /\ \A j \in 1 .. i - 1 : more[j] = s[j]
    BY <2>1
  <2> HIDE DEF more
  <2>3. more = [j \in 1 .. i |-> more[j]] /\ upto = [j \in 1 .. i |-> upto[j]]
    BY <2>1, <2>2
  <2>4. \A j \in 1 .. i : more[j] = upto[j]
    <3> TAKE j \in 1 .. i
    <3>1. j \in 1 .. i - 1 \/ j = i
      OBVIOUS
    <3> QED  BY <2>1, <2>2, <3>1
  <2>5. upto = more
    BY <2>3, <2>4
  <2> QED  BY <2>5 DEF before, upto, more
<1>2. SubSeq(s, 1, 0) = <<>> /\ SubSeq(s, 1, Len(s)) = s
  OBVIOUS
<1>3. \A i \in 0 .. Len(s) : SubSeq(s, 1, i) \in Seq(T)
  OBVIOUS
<1>4. \A i \in 1 .. Len(s) : s[i] \in T
  OBVIOUS
<1> QED  BY <1>1, <1>2, <1>3, <1>4, Zenon DEF Growing
=============================================================================
