---------------------------- MODULE KernelProofs ------------------------------
(***************************************************************************)
(* Two kernels' work, whatever their sizes.  The streaming block finds the *)
(* best K rows for every number of warps, lanes and rows, as long as its   *)
(* warps stay together.  A launch of the routed experts adds each pair     *)
(* once, for every selection, every width of a tile and every choice of    *)
(* tier and kernels.                                                       *)
(***************************************************************************)
EXTENDS TopKStream, MoeDispatch, FunctionTheorems, FiniteSetTheorems, SequenceTheorems, WellFoundedInduction, TLAPS

-----------------------------------------------------------------------------
(* The inductive invariant *)

StreamTypes ==
  /\ row \in ScoreRows /\ first \in 0 .. N - 1
  /\ pc \in [Warps -> {"take", "taken", "test", "sort", "keep", "kept", "end", "last sort", "write", "done"}]
  /\ tile \in [Warps -> Nat] /\ reg \in [Warps -> {<<>>} \cup [1 .. PerWarp -> Nat]]
  /\ cnt \in Nat /\ thr \in Nat /\ buf \in [0 .. Cap - 1 -> Nat]
  /\ selected \in [1 .. K -> Int]

(* The warps stay in one part of the loop, and in one tile. *)
Loop == {"take", "taken", "test", "sort", "end", "last sort"}
Phase ==
  \/ \A w \in Warps : pc[w] \in Loop
  \/ \A w \in Warps : pc[w] \in {"keep", "kept"}
  \/ \A w \in Warps : pc[w] \in {"write", "done"}
Turn(w) == IF pc[w] \in {"test", "sort", "keep", "kept"} THEN tile[w] + 1 ELSE tile[w]
InStep == \A v, w \in Warps : Turn(v) = Turn(w)

(* The places whose keys a warp has met, and all. *)
PlaceOf(k, w, l) == Threads * k + Lanes * (w - 1) + l
MetBy(w, i) ==
  \E k \in Nat, l \in 0 .. Lanes - 1 :
    /\ i = PlaceOf(k, w, l)
    /\ k < tile[w] \/ (k = tile[w] /\ pc[w] # "take")
Met == {i \in 0 .. N - 1 : \E w \in Warps : MetBy(w, i)}

KeysMet == {KeyAt(i) : i \in Met}

(* n keys are distinct keys of a set, and those of the set that are not    *)
(* among them are not above a bound that none of them is below.            *)
Holds(met, keys, lo, n, bound) ==
  /\ \A j \in lo .. lo + n - 1 : bound <= keys[j] /\ keys[j] \in met
  /\ \A j, h \in lo .. lo + n - 1 : keys[j] = keys[h] => j = h
  /\ \A k \in met : k <= bound \/ \E j \in lo .. lo + n - 1 : keys[j] = k

InLoop == \A w \in Warps : pc[w] \in Loop
BufferHolds == InLoop => Holds(KeysMet, buf, 0, cnt, thr) /\ (thr > 0 => cnt >= K)

(* Once a warp has found room, there is room for every lane of the tile.   *)
Taken == {w \in Warps : pc[w] = "taken"}
Room ==
  /\ cnt <= Cap
  /\ (\E w \in Warps : pc[w] \in {"take", "taken", "end", "last sort"})
       => cnt <= Cap - Threads + Lanes * Cardinality(Taken)

(* What was taken up to be sorted is what is in the buffer, as long as no  *)
(* warp goes on.                                                           *)
SortLoaded ==
  (\A w \in Warps : pc[w] \in {"test", "sort"}) =>
    \A w \in Warps : pc[w] = "sort" => reg[w] = PartOf(w, Loaded) /\ Crowded(cnt)
EndLoaded ==
  \A w \in Warps : pc[w] \in {"end", "last sort"} =>
    /\ N <= Threads * tile[w]
    /\ pc[w] = "last sort" => reg[w] = PartOf(w, Loaded)

(* What is sorted is kept piece by piece. *)
RegsTyped == \A w \in Warps : reg[w] \in [1 .. PerWarp -> Nat]
KeepInv ==
  (\A w \in Warps : pc[w] \in {"keep", "kept"}) =>
    /\ RegsTyped
    /\ Holds(KeysMet, Whole(reg), 1, K, Whole(reg)[K])
    /\ \A w \in Warps : pc[w] = "kept" =>
         /\ \A x \in Kept(w) : buf[PerWarp * (w - 1) + x - 1] = reg[w][x]
         /\ K - PerWarp * (w - 1) \in Kept(w) => thr = Whole(reg)[K]
         /\ w = 1 => cnt = K

(* And what is sorted last is written piece by piece. *)
Ranked == Descending([x \in 1 .. N |-> Key(x - 1)])
WriteInv ==
  (\A w \in Warps : pc[w] \in {"write", "done"}) =>
    /\ RegsTyped
    /\ \A p \in 1 .. K : Whole(reg)[p] = Ranked[p]
    /\ \A w \in Warps : pc[w] = "done" =>
         \A x \in Kept(w) : selected[PerWarp * (w - 1) + x] = RowOfKey(reg[w][x])

StreamGood ==
  /\ StreamTypes /\ Phase /\ InStep /\ BufferHolds /\ Room
  /\ SortLoaded /\ EndLoaded /\ KeepInv /\ WriteInv
StreamInv == row \in ScoreRows /\ split \in BOOLEAN /\ (~split => StreamGood)
-----------------------------------------------------------------------------
(* Numbers *)

LEMMA DivMod ==
  ASSUME NEW x \in Nat, NEW c \in Nat \ {0}
  PROVE  x \div c \in Nat /\ x % c \in 0 .. c - 1 /\ x = c * (x \div c) + (x % c)
OBVIOUS

(* Distinct multiples of c are at least c apart. *)
LEMMA Multiples ==
  ASSUME NEW c \in Nat, NEW a \in Nat, NEW b \in Nat, a < b
  PROVE  c * a + c <= c * b /\ c * a \in Nat /\ c * b \in Nat
<1>1. a + 1 <= b
  OBVIOUS
<1>2. c * (a + 1) <= c * b
  BY <1>1
<1> QED  BY <1>2

(* A quotient and a remainder are determined by their sum. *)
LEMMA Digits ==
  ASSUME NEW c \in Nat, NEW a \in Nat, NEW b \in Nat, NEW r \in 0 .. c - 1, NEW s \in 0 .. c - 1,
         c * a + r = c * b + s
  PROVE  a = b /\ r = s
<1>1. c * a \in Nat /\ c * b \in Nat
  OBVIOUS
<1>2. ~(a < b)
  <2>1. SUFFICES ASSUME a < b PROVE FALSE
    OBVIOUS
  <2>2. c * a + c <= c * b
    BY <2>1, Multiples
  <2> QED  BY <1>1, <2>2
<1>3. ~(b < a)
  <2>1. SUFFICES ASSUME b < a PROVE FALSE
    OBVIOUS
  <2>2. c * b + c <= c * a
    BY <2>1, Multiples
  <2> QED  BY <1>1, <2>2
<1>4. a = b
  BY <1>2, <1>3
<1> QED  BY <1>1, <1>4

LEMMA LeastExists ==
  ASSUME NEW S \in SUBSET Nat, S # {}
  PROVE  \E m \in S : \A x \in S : m <= x
<1> DEFINE R == OpToRel(<, Nat)
<1>1. IsWellFoundedOn(R, Nat)
  BY NatLessThanWellFounded
<1>2. PICK m \in S : \A y \in S : <<y, m>> \notin R
  <2> HIDE DEF R
  <2> QED  BY <1>1, WFMin
<1>3. \A y \in S : y \in Nat /\ m \in Nat /\ ~(y < m)
  BY <1>2 DEF OpToRel
<1>4. \A y \in S : m <= y
  BY <1>3
<1> HIDE DEF R
<1> QED  BY <1>4

-----------------------------------------------------------------------------
(* Ranks and sorts *)

(* below[x] is who goes before x in a strict order of S.  Then the number  *)
(* of those is a place from 0 on, every x has its own, and every place is  *)
(* taken.                                                                  *)
Orders(below, S) ==
  /\ below \in [S -> SUBSET S]
  /\ \A x \in S : x \notin below[x]
  /\ \A x, y \in S : x # y => x \in below[y] \/ y \in below[x]
  /\ \A x, y \in S : x \in below[y] => below[x] \subseteq below[y]
Placed(below, S) ==
  /\ \A x \in S : Cardinality(below[x]) \in 0 .. Cardinality(S) - 1
  /\ \A x, y \in S : x \in below[y] => Cardinality(below[x]) < Cardinality(below[y])
  /\ \A x, y \in S : Cardinality(below[x]) = Cardinality(below[y]) => x = y
  /\ \A i \in 0 .. Cardinality(S) - 1 : \E x \in S : Cardinality(below[x]) = i

LEMMA RanksCover ==
  ASSUME NEW S, IsFiniteSet(S), NEW below, Orders(below, S)
  PROVE  Placed(below, S)
<1> DEFINE n == Cardinality(S)
           place == [x \in S |-> Cardinality(below[x])]
           Every == 0 .. n - 1
<1> USE DEF Orders
<1>1. n \in Nat
  BY FS_CardinalityType
<1>2. \A x \in S : IsFiniteSet(below[x]) /\ place[x] \in Nat
  BY FS_Subset, FS_CardinalityType
<1>3. ASSUME NEW x \in S, NEW T \in SUBSET S, x \notin below[x], below[x] \subseteq T, x \in T
      PROVE  place[x] < Cardinality(T)
  <2>1. IsFiniteSet(T) /\ IsFiniteSet(below[x]) /\ Cardinality(T) \in Nat
    BY FS_Subset, FS_CardinalityType
  <2>2. IsFiniteSet(below[x] \cup {x}) /\ Cardinality(below[x] \cup {x}) = place[x] + 1
    BY <1>3, <2>1, FS_AddElement
  <2>3. below[x] \cup {x} \in SUBSET T
    BY <1>3
  <2>4. Cardinality(below[x] \cup {x}) <= Cardinality(T)
    BY <2>1, <2>3, FS_Subset
  <2> QED  BY <1>2, <2>1, <2>2, <2>4
<1>4. \A x \in S : place[x] \in Every
  BY <1>1, <1>2, <1>3
<1>5. \A x, y \in S : x \in below[y] => place[x] < place[y]
  <2>1. SUFFICES ASSUME NEW x \in S, NEW y \in S, x \in below[y] PROVE place[x] < place[y]
    OBVIOUS
  <2>2. place[x] < Cardinality(below[y])
    BY <1>3, <2>1
  <2> QED  BY <2>2
<1>6. \A x, y \in S : place[x] = place[y] => x = y
  BY <1>2, <1>5
<1>7. place \in Injection(S, Every)
  BY <1>4, <1>6, Fun_IsInj
<1>8. IsFiniteSet(Every) /\ Cardinality(Every) = n
  <2>1. ASSUME NEW m \in Nat PROVE IsFiniteSet(0 .. m - 1) /\ Cardinality(0 .. m - 1) = m
    <3>1. 0 \in Int /\ m - 1 \in Int
      OBVIOUS
    <3>2. IsFiniteSet(0 .. m - 1) /\ Cardinality(0 .. m - 1) = IF 0 > m - 1 THEN 0 ELSE (m - 1) - 0 + 1
      BY <3>1, FS_Interval
    <3> QED  BY <3>2
  <2> QED  BY <1>1, <2>1
<1>9. place \in Surjection(S, Every)
  BY <1>7, <1>8, FS_Injection
<1>10. \A i \in Every : \E x \in S : place[x] = i
  <2>1. \A i \in Every : \E x \in S : place[x] = i
    <3> HIDE DEF place, Every
    <3> QED  BY <1>9, Zenon DEF Surjection
  <2> QED  BY <2>1
<1> QED  BY <1>4, <1>5, <1>6, <1>10 DEF Placed

(* The lanes of a ballot take consecutive places, each its own. *)
LEMMA RankPlaces ==
  ASSUME NEW B \in SUBSET Nat, IsFiniteSet(B)
  PROVE  /\ Cardinality(B) \in Nat
         /\ \A l \in B : Rank(l, B) \in 0 .. Cardinality(B) - 1
         /\ \A l, m \in B : Rank(l, B) = Rank(m, B) => l = m
         /\ \A i \in 0 .. Cardinality(B) - 1 : \E l \in B : Rank(l, B) = i
<1> DEFINE below == [x \in B |-> {y \in B : y < x}]
<1>1. below \in [B -> SUBSET B]
  OBVIOUS
<1>2. \A x \in B : x \notin below[x]
  OBVIOUS
<1>3. \A x, y \in B : x # y => x \in below[y] \/ y \in below[x]
  OBVIOUS
<1>4. \A x, y \in B : x \in below[y] => below[x] \subseteq below[y]
  <2>1. SUFFICES ASSUME NEW x \in B, NEW y \in B, NEW z \in B, x < y, z < x PROVE z < y
    OBVIOUS
  <2> QED  BY <2>1
<1>5. \A l \in B : Rank(l, B) = Cardinality(below[l])
  BY DEF Rank
<1>6. Placed(below, B)
  <2>1. Orders(below, B)
    BY <1>1, <1>2, <1>3, <1>4 DEF Orders
  <2> HIDE DEF below
  <2> QED  BY <2>1, RanksCover
<1>7. Cardinality(B) \in Nat
  BY FS_CardinalityType
<1> HIDE DEF below
<1> QED  BY <1>5, <1>6, <1>7 DEF Placed

(* D gives the numbers of H in descending order, at its first m places. *)
Lists(D, m, H) ==
  /\ \A p \in 1 .. m : D[p] \in H
  /\ \A h \in H : \E p \in 1 .. m : D[p] = h
  /\ \A p, q \in 1 .. m : p < q => D[p] > D[q]

(* A sort of distinct keys, and of zeros behind them. *)
LEMMA SortLists ==
  ASSUME NEW n \in Nat, NEW m \in 0 .. n, NEW s \in [1 .. n -> Nat],
         \A x, y \in 1 .. m : s[x] = s[y] => x = y,
         \A x \in 1 .. n : s[x] > 0 <=> x <= m,
         NEW H, \A x \in 1 .. m : s[x] \in H, \A h \in H : \E x \in 1 .. m : s[x] = h
  PROVE  Descending(s) \in [1 .. n -> Nat] /\ Lists(Descending(s), m, H)
<1> DEFINE D == Descending(s)
           below == [x \in 1 .. n |-> Before(s, x)]
           first_m == [x \in 1 .. m |-> Before(s, x)]
<1>1. IsFiniteSet(1 .. n) /\ Cardinality(1 .. n) = n /\ IsFiniteSet(1 .. m) /\ Cardinality(1 .. m) = m
  BY FS_Interval
<1>2. DOMAIN s = 1 .. n
  OBVIOUS
<1>3. \A x, y \in 1 .. n : y \in Before(s, x) <=> (s[y] > s[x] \/ (s[y] = s[x] /\ y < x))
  BY <1>2 DEF Before
<1>4. \A x \in 1 .. n : Before(s, x) \subseteq 1 .. n /\ x \notin Before(s, x)
  BY <1>2 DEF Before
<1>5. \A x, y \in 1 .. n : x # y => x \in Before(s, y) \/ y \in Before(s, x)
  BY <1>3
<1>6. \A x, y \in 1 .. n : x \in Before(s, y) => Before(s, x) \subseteq Before(s, y)
  <2>1. SUFFICES ASSUME NEW x \in 1 .. n, NEW y \in 1 .. n, x \in Before(s, y),
                        NEW z \in 1 .. n, z \in Before(s, x)
                 PROVE  z \in Before(s, y)
    BY <1>4
  <2>2. s[x] \in Nat /\ s[y] \in Nat /\ s[z] \in Nat
    OBVIOUS
  <2>3. s[x] > s[y] \/ (s[x] = s[y] /\ x < y)
    BY <1>3, <2>1
  <2>4. s[z] > s[x] \/ (s[z] = s[x] /\ z < x)
    BY <1>3, <2>1
  <2> QED  BY <1>3, <2>2, <2>3, <2>4
<1>7. \A x \in 1 .. m : Before(s, x) \subseteq 1 .. m
  <2>1. SUFFICES ASSUME NEW x \in 1 .. m, NEW y \in 1 .. n, y \in Before(s, x) PROVE y \in 1 .. m
    BY <1>4
  <2>2. x \in 1 .. n /\ s[x] \in Nat /\ s[y] \in Nat /\ s[x] > 0
    OBVIOUS
  <2>3. s[y] >= s[x]
    BY <1>3, <2>1, <2>2
  <2> QED  BY <2>2, <2>3
<1>8. Placed(below, 1 .. n)
  <2>1. Orders(below, 1 .. n)
    BY <1>4, <1>5, <1>6 DEF Orders
  <2> QED  BY <1>1, <2>1, RanksCover
<1>9. Placed(first_m, 1 .. m)
  <2>1. Orders(first_m, 1 .. m)
    BY <1>4, <1>5, <1>6, <1>7 DEF Orders
  <2> QED  BY <1>1, <2>1, RanksCover
<1>10. /\ \A x \in 1 .. n : Cardinality(Before(s, x)) \in 0 .. n - 1
       /\ \A x, y \in 1 .. n : x \in Before(s, y) => Cardinality(Before(s, x)) < Cardinality(Before(s, y))
       /\ \A x, y \in 1 .. n : Cardinality(Before(s, x)) = Cardinality(Before(s, y)) => x = y
       /\ \A i \in 0 .. n - 1 : \E x \in 1 .. n : Cardinality(Before(s, x)) = i
  BY <1>1, <1>8 DEF Placed
<1>11. /\ \A x \in 1 .. m : Cardinality(Before(s, x)) \in 0 .. m - 1
       /\ \A i \in 0 .. m - 1 : \E x \in 1 .. m : Cardinality(Before(s, x)) = i
  BY <1>1, <1>9 DEF Placed
<1> HIDE DEF below, first_m
<1>12. \A x \in 1 .. n : D[Cardinality(Before(s, x)) + 1] = s[x]
  <2>1. SUFFICES ASSUME NEW x \in 1 .. n PROVE D[Cardinality(Before(s, x)) + 1] = s[x]
    OBVIOUS
  <2> DEFINE i == Cardinality(Before(s, x)) + 1
             y == CHOOSE z \in 1 .. n : Cardinality(Before(s, z)) = i - 1
  <2>0. Cardinality(Before(s, x)) \in 0 .. n - 1
    BY <1>10
  <2>2. i \in 1 .. n /\ i - 1 = Cardinality(Before(s, x))
    BY <2>0
  <2>3. y \in 1 .. n /\ Cardinality(Before(s, y)) = Cardinality(Before(s, x))
    BY <2>2
  <2>4. D[i] = s[y]
    BY <1>2, <2>2 DEF Descending
  <2> QED  BY <1>10, <2>3, <2>4
<1>13. \A i \in 1 .. n : \E x \in 1 .. n : Cardinality(Before(s, x)) = i - 1 /\ D[i] = s[x]
  <2>1. SUFFICES ASSUME NEW i \in 1 .. n
                 PROVE  \E x \in 1 .. n : Cardinality(Before(s, x)) = i - 1 /\ D[i] = s[x]
    OBVIOUS
  <2>2. PICK x \in 1 .. n : Cardinality(Before(s, x)) = i - 1
    BY <1>10
  <2>3. Cardinality(Before(s, x)) + 1 = i
    BY <2>2
  <2> QED  BY <1>12, <2>2, <2>3
<1>14. D \in [1 .. n -> Nat]
  <2>1. D = [i \in 1 .. n |-> D[i]]
    BY <1>2 DEF Descending
  <2>2. \A i \in 1 .. n : D[i] \in Nat
    BY <1>13
  <2> HIDE DEF D
  <2> QED  BY <2>1, <2>2
<1>15. \A i \in 1 .. m : \E x \in 1 .. m : Cardinality(Before(s, x)) = i - 1 /\ D[i] = s[x]
  <2>1. SUFFICES ASSUME NEW i \in 1 .. m
                 PROVE  \E x \in 1 .. m : Cardinality(Before(s, x)) = i - 1 /\ D[i] = s[x]
    OBVIOUS
  <2>2. PICK x \in 1 .. m : Cardinality(Before(s, x)) = i - 1
    BY <1>11
  <2>3. Cardinality(Before(s, x)) + 1 = i /\ x \in 1 .. n
    BY <2>2
  <2> QED  BY <1>12, <2>2, <2>3
<1> HIDE DEF D
<1>16. \A x \in 1 .. m : \E p \in 1 .. m : D[p] = s[x]
  <2>1. SUFFICES ASSUME NEW x \in 1 .. m PROVE \E p \in 1 .. m : D[p] = s[x]
    OBVIOUS
  <2>2. Cardinality(Before(s, x)) + 1 \in 1 .. m /\ x \in 1 .. n
    BY <1>11
  <2> QED  BY <1>12, <2>2
<1>17. ASSUME NEW p \in 1 .. m, NEW q \in 1 .. m, p < q PROVE D[p] > D[q]
  <2>1. PICK x \in 1 .. m : Cardinality(Before(s, x)) = p - 1 /\ D[p] = s[x]
    BY <1>15
  <2>2. PICK y \in 1 .. m : Cardinality(Before(s, y)) = q - 1 /\ D[q] = s[y]
    BY <1>15
  <2>3. x # y /\ ~(Cardinality(Before(s, y)) < Cardinality(Before(s, x)))
    BY <1>17, <2>1, <2>2
  <2>4. x \in 1 .. n /\ y \in 1 .. n /\ s[x] \in Nat /\ s[y] \in Nat
    OBVIOUS
  <2>5. x \in Before(s, y)
    BY <1>5, <1>10, <2>3, <2>4
  <2>6. s[x] > s[y] \/ s[x] = s[y]
    BY <1>3, <2>4, <2>5
  <2> QED  BY <2>1, <2>2, <2>3, <2>6
<1>18. \A p \in 1 .. m : D[p] \in H
  BY <1>15
<1>19. \A h \in H : \E p \in 1 .. m : D[p] = h
  <2>1. SUFFICES ASSUME NEW h \in H PROVE \E p \in 1 .. m : D[p] = h
    OBVIOUS
  <2>2. PICK x \in 1 .. m : s[x] = h
    OBVIOUS
  <2>3. PICK p \in 1 .. m : D[p] = s[x]
    BY <1>16
  <2> QED  BY <2>2, <2>3
<1>20. Lists(D, m, H)
  BY <1>17, <1>18, <1>19 DEF Lists
<1> QED  BY <1>14, <1>20 DEF D

(* Two lists agree as far as what only the second has is below the first.  *)
LEMMA SameFront ==
  ASSUME NEW D, NEW R, NEW m \in Nat, NEW n \in Nat, NEW H \in SUBSET Nat, NEW A \in SUBSET Nat,
         Lists(D, m, H), Lists(R, n, A), H \subseteq A,
         \A a \in A : a \in H \/ \A h \in H : a < h,
         NEW k \in Nat, k <= m, k <= n
  PROVE  \A p \in 1 .. k : D[p] = R[p]
<1> DEFINE Odd == {p \in 1 .. k : D[p] # R[p]}
<1>1. SUFFICES ASSUME Odd # {} PROVE FALSE
  OBVIOUS
<1>2. PICK p \in Odd : \A q \in Odd : p <= q
  <2>1. Odd \in SUBSET Nat
    OBVIOUS
  <2> QED  BY <1>1, <2>1, LeastExists
<1>3. p \in 1 .. k /\ p \in 1 .. m /\ p \in 1 .. n /\ D[p] # R[p]
  BY <1>2
<1>4. \A q \in 1 .. p - 1 : D[q] = R[q] /\ q \in 1 .. m /\ q \in 1 .. n
  BY <1>2, <1>3
<1>5. D[p] \in H /\ R[p] \in A /\ D[p] \in Nat /\ R[p] \in Nat
  BY <1>3 DEF Lists
<1>6. CASE D[p] > R[p]
  <2>1. PICK q \in 1 .. n : R[q] = D[p]
    BY <1>5 DEF Lists
  <2>2. R[q] \in Nat /\ ~(p < q) /\ p # q
    BY <1>3, <1>5, <1>6, <2>1 DEF Lists
  <2>3. q \in 1 .. p - 1
    BY <1>3, <2>2
  <2>4. D[q] = D[p] /\ q \in 1 .. m /\ q < p
    BY <1>4, <2>1, <2>3
  <2> QED  BY <1>3, <1>5, <2>4 DEF Lists
<1>7. CASE R[p] > D[p]
  <2>1. R[p] \in H
    BY <1>5, <1>7
  <2>2. PICK q \in 1 .. m : D[q] = R[p]
    BY <2>1 DEF Lists
  <2>3. ~(p < q) /\ p # q
    BY <1>3, <1>5, <1>7, <2>2 DEF Lists
  <2>4. q \in 1 .. p - 1
    BY <1>3, <2>3
  <2>5. R[q] = R[p] /\ q \in 1 .. n /\ q < p
    BY <1>4, <2>2, <2>4
  <2> QED  BY <1>3, <1>5, <2>5 DEF Lists
<1> QED  BY <1>3, <1>5, <1>6, <1>7

-----------------------------------------------------------------------------
(* Warps, lanes and places *)

LEMMA Sizes ==
  /\ NWarps \in Nat \ {0} /\ Lanes \in Nat \ {0} /\ Items \in Nat \ {0} /\ K \in Nat \ {0}
  /\ Threads \in Nat \ {0} /\ PerWarp \in Nat \ {0} /\ Cap \in Nat
  /\ Threads = Lanes * NWarps /\ Cap = PerWarp * NWarps /\ K <= Cap - Threads
<1>1. NWarps \in Nat \ {0} /\ Lanes \in Nat \ {0} /\ Items \in Nat \ {0} /\ K \in Nat \ {0}
  BY StreamAssumption
<1>2. ASSUME NEW a \in Nat \ {0}, NEW b \in Nat \ {0} PROVE a * b \in Nat \ {0} /\ a * b = b * a
  OBVIOUS
<1>3. ASSUME NEW a \in Nat, NEW b \in Nat, NEW c \in Nat PROVE (a * b) * c = (b * c) * a
  OBVIOUS
<1>4. Threads \in Nat \ {0} /\ PerWarp \in Nat \ {0} /\ Threads = Lanes * NWarps
  BY <1>1, <1>2 DEF Threads, PerWarp
<1>5. Cap \in Nat
  BY <1>1, <1>2, <1>4 DEF Cap
<1>6. Cap = PerWarp * NWarps
  BY <1>1, <1>3 DEF Cap, Threads, PerWarp
<1> QED  BY <1>1, <1>4, <1>5, <1>6, StreamAssumption

(* A number up to p * n is in one of n parts of p. *)
LEMMA Parts ==
  ASSUME NEW p \in Nat \ {0}, NEW n \in Nat
  PROVE  /\ \A w \in 1 .. n, x \in 1 .. p : p * (w - 1) + x \in 1 .. p * n /\ p * (w - 1) \in Nat
         /\ \A y \in 1 .. p * n : \E w \in 1 .. n, x \in 1 .. p :
              w = ((y - 1) \div p) + 1 /\ x = ((y - 1) % p) + 1 /\ y = p * (w - 1) + x
         /\ \A v, w \in 1 .. n, x, z \in 1 .. p : p * (v - 1) + x = p * (w - 1) + z => v = w /\ x = z
<1>1. p * n \in Nat
  OBVIOUS
<1>2. ASSUME NEW w \in 1 .. n, NEW x \in 1 .. p
      PROVE  p * (w - 1) + x \in 1 .. p * n /\ p * (w - 1) \in Nat
  <2>1. w - 1 \in Nat /\ w - 1 < n
    OBVIOUS
  <2>2. p * (w - 1) + p <= p * n /\ p * (w - 1) \in Nat
    BY <2>1, Multiples
  <2> QED  BY <1>1, <2>2
<1>3. ASSUME NEW y \in 1 .. p * n
      PROVE  \E w \in 1 .. n, x \in 1 .. p :
               w = ((y - 1) \div p) + 1 /\ x = ((y - 1) % p) + 1 /\ y = p * (w - 1) + x
  <2>1. y - 1 \in Nat /\ y <= p * n
    BY <1>1
  <2>2. PICK q \in Nat, r \in 0 .. p - 1 : q = (y - 1) \div p /\ r = (y - 1) % p /\ y - 1 = p * q + r
    BY <2>1, DivMod
  <2>3. p * q \in Nat
    OBVIOUS
  <2>4. q < n
    <3>1. SUFFICES ASSUME n <= q PROVE FALSE
      OBVIOUS
    <3>2. p * n <= p * q
      BY <3>1
    <3> QED  BY <1>1, <2>1, <2>2, <2>3, <3>2
  <2>5. q + 1 \in 1 .. n /\ (q + 1) - 1 = q /\ r + 1 \in 1 .. p
    BY <2>4
  <2>6. y = p * ((q + 1) - 1) + (r + 1)
    BY <2>1, <2>2, <2>3, <2>5
  <2> QED  BY <2>2, <2>5, <2>6
<1>4. ASSUME NEW v \in 1 .. n, NEW w \in 1 .. n, NEW x \in 1 .. p, NEW z \in 1 .. p,
             p * (v - 1) + x = p * (w - 1) + z
      PROVE  v = w /\ x = z
  <2>1. v - 1 \in Nat /\ w - 1 \in Nat /\ x - 1 \in 0 .. p - 1 /\ z - 1 \in 0 .. p - 1
    OBVIOUS
  <2>2. p * (v - 1) \in Nat /\ p * (w - 1) \in Nat
    BY <1>2
  <2>3. p * (v - 1) + (x - 1) = p * (w - 1) + (z - 1)
    BY <1>4, <2>2
  <2>4. v - 1 = w - 1 /\ x - 1 = z - 1
    BY <2>1, <2>3, Digits
  <2> QED  BY <2>4
<1> QED  BY <1>2, <1>3, <1>4

LEMMA WarpParts ==
  /\ \A w \in Warps, x \in 1 .. PerWarp : PerWarp * (w - 1) + x \in 1 .. Cap /\ PerWarp * (w - 1) \in Nat
  /\ \A y \in 1 .. Cap : \E w \in Warps, x \in 1 .. PerWarp :
       w = ((y - 1) \div PerWarp) + 1 /\ x = ((y - 1) % PerWarp) + 1 /\ y = PerWarp * (w - 1) + x
  /\ \A v, w \in Warps, x, z \in 1 .. PerWarp :
       PerWarp * (v - 1) + x = PerWarp * (w - 1) + z => v = w /\ x = z
BY Sizes, Parts DEF Warps

(* The registers of all warps are one array, part by part. *)
Registers == [Warps -> [1 .. PerWarp -> Nat]]

LEMMA WholeParts ==
  ASSUME NEW r \in Registers
  PROVE  /\ Whole(r) \in [1 .. Cap -> Nat]
         /\ \A w \in Warps, x \in 1 .. PerWarp : Whole(r)[PerWarp * (w - 1) + x] = r[w][x]
<1>1. ASSUME NEW y \in 1 .. Cap
      PROVE  \E w \in Warps, x \in 1 .. PerWarp : y = PerWarp * (w - 1) + x /\ Whole(r)[y] = r[w][x]
  <2>1. PICK w \in Warps, x \in 1 .. PerWarp :
          w = ((y - 1) \div PerWarp) + 1 /\ x = ((y - 1) % PerWarp) + 1 /\ y = PerWarp * (w - 1) + x
    BY WarpParts
  <2>2. Whole(r)[y] = r[((y - 1) \div PerWarp) + 1][((y - 1) % PerWarp) + 1]
    BY DEF Whole
  <2> QED  BY <2>1, <2>2
<1>2. Whole(r) = [y \in 1 .. Cap |-> Whole(r)[y]]
  BY DEF Whole
<1>3. \A y \in 1 .. Cap : Whole(r)[y] \in Nat
  <2>1. \A w \in Warps, x \in 1 .. PerWarp : r[w][x] \in Nat
    BY DEF Registers
  <2> QED  BY <1>1, <2>1
<1>4. ASSUME NEW w \in Warps, NEW x \in 1 .. PerWarp PROVE Whole(r)[PerWarp * (w - 1) + x] = r[w][x]
  <2>1. PerWarp * (w - 1) + x \in 1 .. Cap
    BY WarpParts
  <2>2. PICK v \in Warps, z \in 1 .. PerWarp :
          /\ PerWarp * (w - 1) + x = PerWarp * (v - 1) + z
          /\ Whole(r)[PerWarp * (w - 1) + x] = r[v][z]
    BY <1>1, <2>1
  <2>3. v = w /\ z = x
    BY <2>2, WarpParts
  <2> QED  BY <2>2, <2>3
<1> QED  BY <1>2, <1>3, <1>4

LEMMA PartsWhole ==
  ASSUME NEW s \in [1 .. Cap -> Nat], NEW r, r = [w \in Warps |-> PartOf(w, s)]
  PROVE  r \in Registers /\ Whole(r) = s
<1>1. \A w \in Warps, x \in 1 .. PerWarp : PerWarp * (w - 1) + x \in 1 .. Cap
  BY WarpParts
<1>2. r \in Registers
  BY <1>1 DEF Registers, PartOf
<1>3. \A w \in Warps, x \in 1 .. PerWarp : r[w][x] = s[PerWarp * (w - 1) + x]
  BY DEF PartOf
<1>4. Whole(r) \in [1 .. Cap -> Nat]
  BY <1>2, WholeParts
<1>5. ASSUME NEW y \in 1 .. Cap PROVE Whole(r)[y] = s[y]
  <2>1. PICK w \in Warps, x \in 1 .. PerWarp : y = PerWarp * (w - 1) + x
    BY WarpParts
  <2>2. Whole(r)[PerWarp * (w - 1) + x] = r[w][x]
    BY <1>2, WholeParts
  <2> QED  BY <1>3, <2>1, <2>2
<1>6. \A f, g \in [1 .. Cap -> Nat] : (\A y \in 1 .. Cap : f[y] = g[y]) => f = g
  <2>1. SUFFICES ASSUME NEW f \in [1 .. Cap -> Nat], NEW g \in [1 .. Cap -> Nat],
                        \A y \in 1 .. Cap : f[y] = g[y]
                 PROVE  f = g
    OBVIOUS
  <2>2. f = [y \in 1 .. Cap |-> f[y]] /\ g = [y \in 1 .. Cap |-> g[y]]
    OBVIOUS
  <2>3. [y \in 1 .. Cap |-> f[y]] = [y \in 1 .. Cap |-> g[y]]
    BY <2>1
  <2> QED  BY <2>2, <2>3
<1> QED  BY <1>2, <1>4, <1>5, <1>6

(* The places of a tile: every place is one lane's in one tile. *)
LEMMA PlaceSums ==
  ASSUME NEW k \in Nat, NEW w \in Warps, NEW l \in 0 .. Lanes - 1
  PROVE  /\ Threads * k \in Nat /\ Lanes * (w - 1) + l \in 0 .. Threads - 1
         /\ PlaceOf(k, w, l) \in Nat /\ PlaceOf(k, w, l) = Threads * k + (Lanes * (w - 1) + l)
         /\ \E u \in Nat, o \in 0 .. Threads - 1 : u = Threads * k /\ PlaceOf(k, w, l) = u + o
<1>1. l + 1 \in 1 .. Lanes /\ w \in 1 .. NWarps
  BY Sizes DEF Warps
<1>2. Lanes * (w - 1) \in Nat /\ Lanes * (w - 1) + (l + 1) \in 1 .. Lanes * NWarps
  BY <1>1, Sizes, Parts
<1>3. Lanes * (w - 1) + l \in 0 .. Threads - 1
  BY <1>2, Sizes
<1>4. PICK u \in Nat : u = Threads * k
  BY Sizes
<1>5. PICK o \in 0 .. Threads - 1 : o = Lanes * (w - 1) + l
  BY <1>3
<1>6. PlaceOf(k, w, l) = u + o
  BY <1>2, <1>4, <1>5 DEF PlaceOf
<1>7. u + o \in Nat
  BY <1>4, <1>5, Sizes
<1> QED  BY <1>3, <1>4, <1>5, <1>6, <1>7

LEMMA Places ==
  /\ \A k \in Nat, w \in Warps, l \in 0 .. Lanes - 1 :
       Threads * k \in Nat /\ Lanes * (w - 1) + l \in 0 .. Threads - 1
       /\ PlaceOf(k, w, l) \in Nat /\ PlaceOf(k, w, l) = Threads * k + (Lanes * (w - 1) + l)
  /\ \A i \in Nat : \E k \in Nat, w \in Warps, l \in 0 .. Lanes - 1 : i = PlaceOf(k, w, l)
  /\ \A k, h \in Nat, v, w \in Warps, l, m \in 0 .. Lanes - 1 :
       PlaceOf(k, w, l) = PlaceOf(h, v, m) => k = h /\ w = v /\ l = m
<1>1. ASSUME NEW w \in Warps, NEW l \in 0 .. Lanes - 1
      PROVE  Lanes * (w - 1) \in Nat /\ Lanes * (w - 1) + l \in 0 .. Threads - 1
  <2>1. Lanes * (w - 1) + l \in 0 .. Threads - 1
    BY PlaceSums
  <2>2. Lanes \in Nat /\ w - 1 \in Nat
    BY Sizes DEF Warps
  <2> QED  BY <2>1, <2>2
<1>2. ASSUME NEW k \in Nat PROVE Threads * k \in Nat
  BY Sizes
<1>3. ASSUME NEW i \in Nat
      PROVE  \E k \in Nat, w \in Warps, l \in 0 .. Lanes - 1 : i = PlaceOf(k, w, l)
  <2>0. i \div Threads \in Nat /\ i % Threads \in 0 .. Threads - 1 /\ i = Threads * (i \div Threads) + (i % Threads)
    <3>1. Threads \in Nat \ {0}
      BY Sizes
    <3> QED  BY <3>1, DivMod
  <2>1. PICK k \in Nat, o \in 0 .. Threads - 1 : i = Threads * k + o
    BY <2>0
  <2>2. o + 1 \in 1 .. Lanes * NWarps
    BY Sizes
  <2>3. PICK w \in 1 .. NWarps, x \in 1 .. Lanes : o + 1 = Lanes * (w - 1) + x
    <3>1. \A y \in 1 .. Lanes * NWarps : \E w \in 1 .. NWarps, x \in 1 .. Lanes :
            w = ((y - 1) \div Lanes) + 1 /\ x = ((y - 1) % Lanes) + 1 /\ y = Lanes * (w - 1) + x
      <4>1. Lanes \in Nat \ {0} /\ NWarps \in Nat
        BY Sizes
      <4> QED  BY <4>1, Parts
    <3> QED  BY <2>2, <3>1
  <2>4. w \in Warps /\ x - 1 \in 0 .. Lanes - 1
    BY Sizes DEF Warps
  <2>5. Lanes * (w - 1) \in Nat
    BY <1>1, <2>4
  <2>6. i = Threads * k + Lanes * (w - 1) + (x - 1)
    BY <1>2, <2>1, <2>3, <2>5
  <2> QED  BY <2>4, <2>6 DEF PlaceOf
<1>4. ASSUME NEW k \in Nat, NEW h \in Nat, NEW v \in Warps, NEW w \in Warps,
             NEW l \in 0 .. Lanes - 1, NEW m \in 0 .. Lanes - 1,
             PlaceOf(k, w, l) = PlaceOf(h, v, m)
      PROVE  k = h /\ w = v /\ l = m
  <2>1. PICK o \in 0 .. Threads - 1, r \in 0 .. Threads - 1 : o = Lanes * (w - 1) + l /\ r = Lanes * (v - 1) + m
    BY <1>1
  <2>2. Threads * k + o = Threads * h + r
    BY <1>1, <1>2, <1>4, <2>1 DEF PlaceOf
  <2>3. k = h /\ o = r
    BY <2>2, Sizes, Digits
  <2>4. w - 1 \in Nat /\ v - 1 \in Nat
    BY Sizes DEF Warps
  <2>5. w - 1 = v - 1 /\ l = m
    <3>1. Lanes \in Nat \ {0}
      BY Sizes
    <3>2. Lanes * (w - 1) + l = Lanes * (v - 1) + m
      BY <2>1, <2>3
    <3>3. ASSUME NEW a \in Nat, NEW b \in Nat, Lanes * a + l = Lanes * b + m PROVE a = b /\ l = m
      BY <3>1, <3>3, Digits
    <3> QED  BY <2>4, <3>2, <3>3
  <2> QED  BY <2>3, <2>5, Sizes DEF Warps
<1> QED
  <2>1. \A k \in Nat, w \in Warps, l \in 0 .. Lanes - 1 :
         Threads * k \in Nat /\ Lanes * (w - 1) + l \in 0 .. Threads - 1
         /\ PlaceOf(k, w, l) \in Nat /\ PlaceOf(k, w, l) = Threads * k + (Lanes * (w - 1) + l)
    BY PlaceSums
  <2>2. \A i \in Nat : \E k \in Nat, w \in Warps, l \in 0 .. Lanes - 1 : i = PlaceOf(k, w, l)
    BY <1>3
  <2>3. \A k, h \in Nat, v, w \in Warps, l, m \in 0 .. Lanes - 1 :
         PlaceOf(k, w, l) = PlaceOf(h, v, m) => k = h /\ w = v /\ l = m
    BY <1>4
  <2> QED  BY <2>1, <2>2, <2>3

LEMMA PlacesApart ==
  /\ \A k \in Nat, w \in Warps, l \in 0 .. Lanes - 1 : PlaceOf(k, w, l) \in Nat
  /\ \A k, h \in Nat, v, w \in Warps, l, m \in 0 .. Lanes - 1 :
       PlaceOf(k, w, l) = PlaceOf(h, v, m) => k = h /\ w = v /\ l = m
BY Places

LEMMA PlacesInTiles ==
  ASSUME NEW i \in Nat
  PROVE  \E k \in Nat, w \in Warps, l \in 0 .. Lanes - 1 :
           i = PlaceOf(k, w, l) /\ \E u \in Nat, o \in 0 .. Threads - 1 : u = Threads * k /\ i = u + o
<1>1. PICK k \in Nat, w \in Warps, l \in 0 .. Lanes - 1 : i = PlaceOf(k, w, l)
  BY Places
<1>2. \E u \in Nat, o \in 0 .. Threads - 1 : u = Threads * k /\ PlaceOf(k, w, l) = u + o
  BY PlaceSums
<1> QED  BY <1>1, <1>2

-----------------------------------------------------------------------------
(* Keys *)

RowGood == row \in ScoreRows /\ first \in 0 .. N - 1

LEMMA RowFacts ==
  ASSUME row \in ScoreRows
  PROVE  N \in Nat /\ K <= N /\ row \in [1 .. N -> Nat]
BY StreamAssumption, LenProperties DEF N

(* Every row has a key of its own, and every key comes once round.  *)
LEMMA KeysApart ==
  ASSUME row \in ScoreRows
  PROVE  /\ \A c \in 0 .. N - 1 : Key(c) \in Nat /\ Key(c) > 0
         /\ \A c, d \in 0 .. N - 1 : Key(c) = Key(d) => c = d
<1>1. N \in Nat /\ row \in [1 .. N -> Nat]
  BY RowFacts
<1>2. ASSUME NEW c \in 0 .. N - 1
      PROVE  \E a \in Nat, u \in Nat, m \in 0 .. N - 1 : u = N * a /\ m = N - 1 - c /\ Key(c) = u + m + 1
  <2>1. row[c + 1] \in Nat
    BY <1>1
  <2>2. PICK u \in Nat : u = N * row[c + 1] /\ u = row[c + 1] * N
    BY <1>1, <2>1
  <2>3. PICK m \in 0 .. N - 1 : m = N - 1 - c
    BY <1>1
  <2>4. Key(c) = u + m + 1
    BY <2>2, <2>3 DEF Key
  <2> QED  BY <2>1, <2>2, <2>3, <2>4
<1>3. ASSUME NEW c \in 0 .. N - 1, NEW d \in 0 .. N - 1, Key(c) = Key(d) PROVE c = d
  <2>1. PICK a \in Nat, u \in Nat, m \in 0 .. N - 1 : u = N * a /\ m = N - 1 - c /\ Key(c) = u + m + 1
    BY <1>2
  <2>2. PICK b \in Nat, v \in Nat, r \in 0 .. N - 1 : v = N * b /\ r = N - 1 - d /\ Key(d) = v + r + 1
    BY <1>2
  <2>3. u + m = v + r
    <3>1. u + m + 1 = v + r + 1
      BY <1>3, <2>1, <2>2
    <3>2. m \in Nat /\ r \in Nat
      BY <1>1
    <3> QED  BY <3>1, <3>2
  <2>4. N * a + m = N * b + r
    BY <2>1, <2>2, <2>3
  <2>5. m = r
    BY <1>1, <2>4, Digits
  <2> QED  BY <1>1, <2>1, <2>2, <2>5
<1>4. ASSUME NEW c \in 0 .. N - 1 PROVE Key(c) \in Nat /\ Key(c) > 0
  <2>1. PICK u \in Nat, m \in 0 .. N - 1 : Key(c) = u + m + 1
    BY <1>2
  <2> QED  BY <1>1, <2>1
<1> QED  BY <1>3, <1>4

LEMMA KeysRound ==
  ASSUME RowGood
  PROVE  /\ \A i \in 0 .. N - 1 : KeyAt(i) \in Nat /\ KeyAt(i) > 0 /\ \E c \in 0 .. N - 1 : KeyAt(i) = Key(c)
         /\ \A i, j \in 0 .. N - 1 : KeyAt(i) = KeyAt(j) => i = j
         /\ \A c \in 0 .. N - 1 : \E i \in 0 .. N - 1 : KeyAt(i) = Key(c)
<1>1. N \in Nat \ {0} /\ first \in 0 .. N - 1 /\ row \in ScoreRows
  BY RowFacts, Sizes DEF RowGood
<1>2. ASSUME NEW i \in 0 .. N - 1
      PROVE  \E a \in Nat, m \in 0 .. N - 1 : first + i = N * a + m /\ m = (first + i) % N /\ KeyAt(i) = Key(m)
  <2>1. first + i \in Nat
    BY <1>1
  <2> QED  BY <1>1, <2>1, DivMod DEF KeyAt
<1>3. ASSUME NEW i \in 0 .. N - 1
      PROVE  KeyAt(i) \in Nat /\ KeyAt(i) > 0 /\ \E c \in 0 .. N - 1 : KeyAt(i) = Key(c)
  BY <1>1, <1>2, KeysApart
<1>4. ASSUME NEW i \in 0 .. N - 1, NEW j \in 0 .. N - 1, KeyAt(i) = KeyAt(j) PROVE i = j
  <2>1. PICK a \in Nat, m \in 0 .. N - 1 : first + i = N * a + m /\ KeyAt(i) = Key(m)
    BY <1>2
  <2>2. PICK b \in Nat, r \in 0 .. N - 1 : first + j = N * b + r /\ KeyAt(j) = Key(r)
    BY <1>2
  <2>3. m = r
    BY <1>1, <1>4, <2>1, <2>2, KeysApart
  <2>4. N * a \in Nat /\ N * b \in Nat
    BY <1>1
  <2>5. ~(a < b)
    <3>1. SUFFICES ASSUME a < b PROVE FALSE
      OBVIOUS
    <3>2. N * a + N <= N * b
      BY <1>1, <3>1, Multiples
    <3> QED  BY <1>1, <2>1, <2>2, <2>3, <2>4, <3>2
  <2>6. ~(b < a)
    <3>1. SUFFICES ASSUME b < a PROVE FALSE
      OBVIOUS
    <3>2. N * b + N <= N * a
      BY <1>1, <3>1, Multiples
    <3> QED  BY <1>1, <2>1, <2>2, <2>3, <2>4, <3>2
  <2>7. a = b
    BY <2>5, <2>6
  <2> QED  BY <1>1, <2>1, <2>2, <2>3, <2>4, <2>7
<1>5. ASSUME NEW c \in 0 .. N - 1 PROVE \E i \in 0 .. N - 1 : KeyAt(i) = Key(c)
  <2>1. PICK i \in 0 .. N - 1, q \in 0 .. 1 : first + i = N * q + c
    <3>1. CASE first <= c
      <4>1. c - first \in 0 .. N - 1 /\ first + (c - first) = N * 0 + c
        BY <1>1, <3>1
      <4> QED  BY <4>1
    <3>2. CASE c < first
      <4>1. c + N - first \in 0 .. N - 1 /\ first + (c + N - first) = N * 1 + c
        BY <1>1, <3>2
      <4> QED  BY <4>1
    <3> QED  BY <1>1, <3>1, <3>2
  <2>2. PICK a \in Nat, m \in 0 .. N - 1 : first + i = N * a + m /\ KeyAt(i) = Key(m)
    BY <1>2
  <2>3. q \in Nat /\ N * q + c = N * a + m
    BY <2>1, <2>2
  <2>4. c = m
    BY <1>1, <2>3, Digits
  <2> QED  BY <2>2, <2>4
<1> QED  BY <1>3, <1>4, <1>5

-----------------------------------------------------------------------------
(* What the warps have met *)

(* A warp meets no key where its place in the tile does not change, where  *)
(* it has met the tile's and goes on to the next, and past the last tile.  *)
Idle(w) ==
  \/ tile'[w] = tile[w] /\ (pc'[w] = "take" <=> pc[w] = "take")
  \/ tile'[w] = tile[w] + 1 /\ pc[w] # "take" /\ pc'[w] = "take"
  \/ tile'[w] = tile[w] /\ N <= Threads * tile[w]

LEMMA SameKeys ==
  ASSUME UNCHANGED fixed
  PROVE  /\ N' = N /\ RowGood' = RowGood /\ Ranked' = Ranked
         /\ \A i : KeyAt(i)' = KeyAt(i)
BY DEF fixed, N, RowGood, Ranked, Key, KeyAt

LEMMA IdleMeets ==
  ASSUME RowGood, UNCHANGED fixed, tile \in [Warps -> Nat], \A w \in Warps : Idle(w)
  PROVE  KeysMet' = KeysMet
<1>1. N \in Nat /\ N' = N /\ \A i : KeyAt(i)' = KeyAt(i)
  BY SameKeys, RowFacts DEF RowGood
<1>2. ASSUME NEW w \in Warps, NEW i \in 0 .. N - 1, NEW k \in Nat, NEW l \in 0 .. Lanes - 1,
             i = PlaceOf(k, w, l)
      PROVE  (k < tile'[w] \/ (k = tile'[w] /\ pc'[w] # "take"))
               <=> (k < tile[w] \/ (k = tile[w] /\ pc[w] # "take"))
  <2>1. tile[w] \in Nat
    OBVIOUS
  <2>2. CASE tile'[w] = tile[w] /\ (pc'[w] = "take" <=> pc[w] = "take")
    BY <2>2
  <2>3. CASE tile'[w] = tile[w] + 1 /\ pc[w] # "take" /\ pc'[w] = "take"
    BY <2>1, <2>3
  <2>4. CASE tile'[w] = tile[w] /\ N <= Threads * tile[w]
    <3>1. k # tile[w]
      <4>1. Threads * k \in Nat /\ Lanes * (w - 1) + l \in 0 .. Threads - 1
            /\ i = Threads * k + (Lanes * (w - 1) + l)
        BY <1>2, Places
      <4>2. SUFFICES ASSUME k = tile[w] PROVE FALSE
        OBVIOUS
      <4>3. N <= Threads * k
        BY <2>4, <4>2
      <4> QED  BY <1>1, <4>1, <4>3, Sizes
    <3> QED  BY <2>4, <3>1
  <2> QED  BY <2>2, <2>3, <2>4 DEF Idle
<1>3. ASSUME NEW w \in Warps, NEW i \in 0 .. N - 1 PROVE MetBy(w, i)' <=> MetBy(w, i)
  BY <1>2 DEF MetBy
<1>4. Met' = Met
  BY <1>1, <1>3 DEF Met
<1> QED  BY <1>1, <1>4 DEF KeysMet

(* Taking a tile meets the keys of its lanes' places, and none again.      *)
NewKeys(w) == {KeyAt(Place(w, l)) : l \in {m \in 0 .. Lanes - 1 : Place(w, m) < N}}

LEMMA PlaceFacts ==
  ASSUME tile \in [Warps -> Nat], NEW w \in Warps
  PROVE  /\ \A l \in 0 .. Lanes - 1 : Place(w, l) \in Nat
         /\ \A l, m \in 0 .. Lanes - 1 : Place(w, l) = Place(w, m) => l = m
<1>1. tile[w] \in Nat
  OBVIOUS
<1>2. \A l : Place(w, l) = PlaceOf(tile[w], w, l)
  BY DEF Place, PlaceOf
<1> QED  BY <1>1, <1>2, PlacesApart

LEMMA TakeMeets ==
  ASSUME StreamTypes, NEW w \in Warps, Take(w)
  PROVE  /\ KeysMet' = KeysMet \cup NewKeys(w)
         /\ KeysMet \cap NewKeys(w) = {}
<1>0. RowGood /\ tile \in [Warps -> Nat]
  BY DEF StreamTypes, RowGood
<1>1. N \in Nat /\ N' = N /\ (\A i : KeyAt(i)' = KeyAt(i))
  <2>1. UNCHANGED fixed
    BY DEF Take
  <2> QED  BY <1>0, <2>1, SameKeys, RowFacts DEF RowGood
<1>2. /\ tile' = tile /\ pc[w] = "take" /\ pc'[w] = "taken"
      /\ \A v \in Warps : v # w => pc'[v] = pc[v]
  BY DEF Take, Goto, StreamTypes
<1>3. tile[w] \in Nat
  BY <1>0
<1>4. ASSUME NEW v \in Warps, v # w, NEW i PROVE MetBy(v, i)' <=> MetBy(v, i)
  BY <1>2, <1>4 DEF MetBy
<1>5. ASSUME NEW i
      PROVE  MetBy(w, i)' <=> MetBy(w, i) \/ \E l \in 0 .. Lanes - 1 : i = Place(w, l)
  BY <1>2, <1>3 DEF MetBy, Place, PlaceOf
<1>6. Met' = Met \cup {i \in 0 .. N - 1 : \E l \in 0 .. Lanes - 1 : i = Place(w, l)}
  BY <1>1, <1>4, <1>5 DEF Met
<1>7. ASSUME NEW l \in 0 .. Lanes - 1 PROVE Place(w, l) \notin Met
  <2>1. SUFFICES ASSUME NEW v \in Warps, MetBy(v, Place(w, l)) PROVE FALSE
    BY DEF Met
  <2>2. PICK k \in Nat, m \in 0 .. Lanes - 1 :
          /\ Place(w, l) = PlaceOf(k, v, m)
          /\ k < tile[v] \/ (k = tile[v] /\ pc[v] # "take")
    BY <2>1 DEF MetBy
  <2>3. Place(w, l) = PlaceOf(tile[w], w, l)
    BY DEF Place, PlaceOf
  <2>4. PICK t \in Nat : t = tile[w]
    BY <1>3
  <2>5. t = k /\ w = v
    <3>1. PlaceOf(t, w, l) = PlaceOf(k, v, m)
      BY <2>2, <2>3, <2>4
    <3> QED  BY <3>1, PlacesApart
  <2>6. pc[v] = "take" /\ k = tile[v]
    BY <1>2, <2>4, <2>5
  <2>7. ~(k < tile[v])
    BY <2>6
  <2> QED  BY <2>2, <2>6, <2>7
<1>8. \A k : k \in NewKeys(w) <=> \E i \in 0 .. N - 1 : (\E l \in 0 .. Lanes - 1 : i = Place(w, l)) /\ k = KeyAt(i)
  BY <1>0, <1>1, PlaceFacts DEF NewKeys
<1>9. \A k : k \in KeysMet <=> \E i \in Met : k = KeyAt(i)
  BY DEF KeysMet
<1>10. \A k : k \in KeysMet' <=> \E i \in Met' : k = KeyAt(i)
  BY <1>1 DEF KeysMet
<1>11. KeysMet' = KeysMet \cup NewKeys(w)
  BY <1>6, <1>8, <1>9, <1>10
<1>12. KeysMet \cap NewKeys(w) = {}
  <2>1. SUFFICES ASSUME NEW i \in Met, NEW j \in 0 .. N - 1, NEW l \in 0 .. Lanes - 1, j = Place(w, l),
                        KeyAt(i) = KeyAt(j)
                 PROVE  FALSE
    BY <1>8, <1>9
  <2>2. i \in 0 .. N - 1
    BY DEF Met
  <2>3. i = j
    BY <1>0, <2>1, <2>2, KeysRound
  <2> QED  BY <1>7, <2>1, <2>3
<1> QED  BY <1>11, <1>12

LEMMA MetKeys ==
  ASSUME RowGood
  PROVE  \A k \in KeysMet : k \in Nat /\ k > 0 /\ \E c \in 0 .. N - 1 : k = Key(c)
BY KeysRound DEF KeysMet, Met

(* Held keys stay held in another array that has them at the same places.  *)
LEMMA HoldsMoved ==
  ASSUME NEW met, NEW a, NEW b, NEW lo \in Int, NEW hi \in Int, NEW n \in Nat, NEW bound,
         Holds(met, a, lo, n, bound),
         \A i \in 0 .. n - 1 : b[hi + i] = a[lo + i]
  PROVE  Holds(met, b, hi, n, bound)
<1>1. \A j \in hi .. hi + n - 1 : j - hi + lo \in lo .. lo + n - 1 /\ b[j] = a[j - hi + lo]
  <2>1. TAKE j \in hi .. hi + n - 1
  <2>2. j - hi \in 0 .. n - 1 /\ hi + (j - hi) = j /\ lo + (j - hi) = j - hi + lo
    OBVIOUS
  <2> QED  BY <2>2
<1>2. \A j \in lo .. lo + n - 1 : j - lo + hi \in hi .. hi + n - 1 /\ a[j] = b[j - lo + hi]
  <2>1. TAKE j \in lo .. lo + n - 1
  <2>2. j - lo \in 0 .. n - 1 /\ lo + (j - lo) = j /\ hi + (j - lo) = j - lo + hi
    OBVIOUS
  <2> QED  BY <2>2
<1>3. \A j \in hi .. hi + n - 1 : bound <= b[j] /\ b[j] \in met
  BY <1>1 DEF Holds
<1>4. \A j, h \in hi .. hi + n - 1 : b[j] = b[h] => j = h
  <2>1. SUFFICES ASSUME NEW j \in hi .. hi + n - 1, NEW h \in hi .. hi + n - 1, b[j] = b[h] PROVE j = h
    OBVIOUS
  <2>2. a[j - hi + lo] = a[h - hi + lo] /\ j - hi + lo \in lo .. lo + n - 1 /\ h - hi + lo \in lo .. lo + n - 1
    BY <1>1, <2>1
  <2>3. j - hi + lo = h - hi + lo
    BY <2>2 DEF Holds
  <2> QED  BY <2>3
<1>5. \A k \in met : k <= bound \/ \E j \in hi .. hi + n - 1 : b[j] = k
  <2>1. TAKE k \in met
  <2>2. k <= bound \/ \E j \in lo .. lo + n - 1 : a[j] = k
    BY DEF Holds
  <2> QED  BY <1>2, <2>2
<1> QED  BY <1>3, <1>4, <1>5 DEF Holds

-----------------------------------------------------------------------------
(* The steps of a warp *)

LEMMA FirstWarp == 1 \in Warps
BY Sizes DEF Warps

LEMMA LoadedTyped ==
  ASSUME StreamTypes
  PROVE  /\ Loaded \in [1 .. Cap -> Nat]
         /\ \A w \in Warps : PartOf(w, Loaded) \in [1 .. PerWarp -> Nat]
<1>1. Cap \in Nat /\ buf \in [0 .. Cap - 1 -> Nat] /\ cnt \in Nat
  BY Sizes DEF StreamTypes
<1>2. \A x \in 1 .. Cap : x - 1 \in 0 .. Cap - 1
  BY <1>1
<1>3. Loaded \in [1 .. Cap -> Nat]
  BY <1>1, <1>2 DEF Loaded
<1>4. \A w \in Warps, x \in 1 .. PerWarp : PerWarp * (w - 1) + x \in 1 .. Cap
  BY WarpParts
<1> QED  BY <1>3, <1>4 DEF PartOf

(* A step in the loop that leaves the buffer and meets no key.             *)
QuietStep(w) ==
  /\ UNCHANGED <<fixed, cnt, thr, buf, selected>>
  /\ pc' = [pc EXCEPT ![w] = pc'[w]] /\ pc[w] \in Loop /\ pc'[w] \in Loop
  /\ tile' = [tile EXCEPT ![w] = tile'[w]] /\ tile'[w] \in Nat
  /\ Idle(w) /\ Turn(w)' = Turn(w)
  /\ reg' = [reg EXCEPT ![w] = reg'[w]] /\ reg'[w] \in {reg[w], PartOf(w, Loaded)}

LEMMA QuietKeeps ==
  ASSUME StreamGood, NEW w \in Warps, QuietStep(w)
  PROVE  /\ StreamTypes' /\ Phase' /\ InStep' /\ BufferHolds' /\ KeepInv' /\ WriteInv'
         /\ \A v \in Warps : v # w => pc'[v] = pc[v] /\ tile'[v] = tile[v] /\ reg'[v] = reg[v]
         /\ \A v \in Warps : pc[v] \in Loop
         /\ Loaded' = Loaded /\ N' = N
<1>1. /\ UNCHANGED <<row, first, cnt, thr, buf, selected>>
      /\ N' = N /\ Loaded' = Loaded
  <2>1. UNCHANGED <<row, first, cnt, thr, buf, selected>>
    BY DEF QuietStep, fixed
  <2>2. row' = row /\ first' = first
    BY <2>1
  <2> QED  BY <2>1, <2>2 DEF N, Loaded
<1> USE DEF StreamGood
<1>2. \A v \in Warps : v # w => pc'[v] = pc[v] /\ tile'[v] = tile[v] /\ reg'[v] = reg[v]
  BY DEF QuietStep, StreamTypes
<1>3. pc[w] \in Loop /\ pc'[w] \in Loop
  BY DEF QuietStep
<1>4. \A v \in Warps : pc[v] \in Loop
  BY <1>3 DEF Phase, Loop
<1>5. \A v \in Warps : pc'[v] \in Loop
  BY <1>2, <1>3, <1>4
<1>6. StreamTypes'
  <2>1. reg'[w] \in {<<>>} \cup [1 .. PerWarp -> Nat]
    <3>1. reg[w] \in {<<>>} \cup [1 .. PerWarp -> Nat]
      BY DEF StreamTypes
    <3>2. PartOf(w, Loaded) \in [1 .. PerWarp -> Nat]
      BY LoadedTyped
    <3>3. reg'[w] = reg[w] \/ reg'[w] = PartOf(w, Loaded)
      BY DEF QuietStep
    <3> QED  BY <3>1, <3>2, <3>3
  <2>2. reg' \in [Warps -> {<<>>} \cup [1 .. PerWarp -> Nat]]
    BY <2>1 DEF QuietStep, StreamTypes
  <2>3. pc' \in [Warps -> {"take", "taken", "test", "sort", "keep", "kept", "end", "last sort", "write", "done"}]
    BY <1>3 DEF QuietStep, StreamTypes, Loop
  <2>4. tile' \in [Warps -> Nat]
    BY DEF QuietStep, StreamTypes
  <2> QED  BY <1>1, <2>2, <2>3, <2>4 DEF StreamTypes
<1>7. Phase'
  BY <1>5 DEF Phase
<1>8. InStep'
  <2>1. \A v \in Warps : Turn(v)' = Turn(v)
    BY <1>2 DEF Turn, QuietStep
  <2> QED  BY <2>1 DEF InStep
<1>9. BufferHolds'
  <2>1. \A v \in Warps : Idle(v)
    BY <1>2 DEF Idle, QuietStep
  <2>2. KeysMet' = KeysMet
    BY <2>1, IdleMeets DEF StreamTypes, RowGood, QuietStep
  <2>3. InLoop
    BY <1>4 DEF InLoop
  <2> QED  BY <1>1, <2>2, <2>3 DEF BufferHolds, Holds
<1>10. KeepInv' /\ WriteInv'
  <2>1. pc'[w] \notin {"keep", "kept", "write", "done"}
    BY <1>3 DEF Loop
  <2> QED  BY <2>1 DEF KeepInv, WriteInv
<1> QED  BY <1>1, <1>2, <1>4, <1>6, <1>7, <1>8, <1>9, <1>10

LEMMA LeaveKeeps ==
  ASSUME StreamGood, NEW w \in Warps, LeaveLoop(w)
  PROVE  StreamGood'
<1> USE DEF StreamGood
<1>1. /\ pc[w] = "take" /\ pc'[w] = "end" /\ N <= Threads * tile[w]
      /\ pc' = [pc EXCEPT ![w] = "end"] /\ UNCHANGED <<fixed, tile, reg, cnt, thr, buf, selected>>
  <2>1. N \in Nat /\ tile[w] \in Nat
    BY RowFacts DEF StreamTypes
  <2>2. Threads * tile[w] \in Nat
    BY <2>1, Sizes
  <2> QED  BY <2>1, <2>2 DEF LeaveLoop, Goto, StreamTypes
<1>2. QuietStep(w)
  BY <1>1 DEF QuietStep, Idle, Loop, Turn, StreamTypes
<1>3. /\ StreamTypes' /\ Phase' /\ InStep' /\ BufferHolds' /\ KeepInv' /\ WriteInv'
      /\ \A v \in Warps : v # w => pc'[v] = pc[v] /\ tile'[v] = tile[v] /\ reg'[v] = reg[v]
      /\ Loaded' = Loaded /\ N' = N
  BY <1>2, QuietKeeps
<1>4. Room'
  <2>1. Taken' = Taken
    BY <1>1, <1>3 DEF Taken
  <2> QED  BY <1>1, <2>1 DEF Room
<1>5. SortLoaded'
  BY <1>1 DEF SortLoaded
<1>6. EndLoaded'
  BY <1>1, <1>3 DEF EndLoaded
<1> QED  BY <1>3, <1>4, <1>5, <1>6

LEMMA EndKeeps ==
  ASSUME StreamGood, NEW w \in Warps, End(w)
  PROVE  StreamGood'
<1> USE DEF StreamGood
<1>1. /\ pc[w] = "end" /\ pc'[w] = "last sort" /\ reg'[w] = PartOf(w, Loaded)
      /\ pc' = [pc EXCEPT ![w] = "last sort"] /\ reg' = [reg EXCEPT ![w] = PartOf(w, Loaded)]
      /\ UNCHANGED <<fixed, tile, cnt, thr, buf, selected>>
  BY DEF End, Goto, StreamTypes
<1>2. QuietStep(w)
  BY <1>1 DEF QuietStep, Idle, Loop, Turn, StreamTypes
<1>3. /\ StreamTypes' /\ Phase' /\ InStep' /\ BufferHolds' /\ KeepInv' /\ WriteInv'
      /\ \A v \in Warps : v # w => pc'[v] = pc[v] /\ tile'[v] = tile[v] /\ reg'[v] = reg[v]
      /\ Loaded' = Loaded /\ N' = N
  BY <1>2, QuietKeeps
<1>4. Room'
  <2>1. Taken' = Taken
    BY <1>1, <1>3 DEF Taken
  <2> QED  BY <1>1, <2>1 DEF Room
<1>5. SortLoaded'
  BY <1>1 DEF SortLoaded
<1>6. EndLoaded'
  <2>1. ASSUME NEW v \in Warps, pc'[v] \in {"end", "last sort"}
        PROVE  N' <= Threads * tile'[v] /\ (pc'[v] = "last sort" => reg'[v] = PartOf(v, Loaded'))
    BY <1>1, <1>3, <2>1 DEF EndLoaded
  <2> QED  BY <2>1 DEF EndLoaded, PartOf
<1> QED  BY <1>3, <1>4, <1>5, <1>6

LEMMA TestKeeps ==
  ASSUME StreamGood, NEW w \in Warps, Test(w)
  PROVE  StreamGood'
<1> USE DEF StreamGood
<1>1. pc[w] = "test" /\ UNCHANGED <<fixed, cnt, thr, buf, selected>>
  BY DEF Test
<1>2. \/ /\ Crowded(cnt) /\ pc'[w] = "sort" /\ reg'[w] = PartOf(w, Loaded)
         /\ pc' = [pc EXCEPT ![w] = "sort"] /\ reg' = [reg EXCEPT ![w] = PartOf(w, Loaded)]
         /\ tile' = tile
      \/ /\ ~Crowded(cnt) /\ pc'[w] = "take" /\ tile'[w] = tile[w] + 1
         /\ pc' = [pc EXCEPT ![w] = "take"] /\ tile' = [tile EXCEPT ![w] = tile[w] + 1]
         /\ reg' = reg
  BY DEF Test, Goto, StreamTypes
<1>3. QuietStep(w)
  <2>1. tile[w] \in Nat /\ reg = [reg EXCEPT ![w] = reg[w]] /\ tile = [tile EXCEPT ![w] = tile[w]]
    BY DEF StreamTypes
  <2>2. CASE Crowded(cnt)
    <3>1. tile' = tile /\ pc'[w] = "sort" /\ reg'[w] = PartOf(w, Loaded)
          /\ pc' = [pc EXCEPT ![w] = "sort"] /\ reg' = [reg EXCEPT ![w] = PartOf(w, Loaded)]
      BY <1>2, <2>2
    <3>2. Idle(w) /\ Turn(w)' = Turn(w)
      BY <1>1, <3>1 DEF Idle, Turn
    <3> QED  BY <1>1, <2>1, <3>1, <3>2 DEF QuietStep, Loop
  <2>3. CASE ~Crowded(cnt)
    <3>1. reg' = reg /\ pc'[w] = "take" /\ tile'[w] = tile[w] + 1
          /\ pc' = [pc EXCEPT ![w] = "take"] /\ tile' = [tile EXCEPT ![w] = tile[w] + 1]
      BY <1>2, <2>3
    <3>2. Idle(w) /\ Turn(w)' = Turn(w)
      BY <1>1, <3>1 DEF Idle, Turn
    <3> QED  BY <1>1, <2>1, <3>1, <3>2 DEF QuietStep, Loop
  <2> QED  BY <2>2, <2>3
<1>4. /\ StreamTypes' /\ Phase' /\ InStep' /\ BufferHolds' /\ KeepInv' /\ WriteInv'
      /\ \A v \in Warps : v # w => pc'[v] = pc[v] /\ tile'[v] = tile[v] /\ reg'[v] = reg[v]
      /\ Loaded' = Loaded /\ N' = N
  BY <1>3, QuietKeeps
<1>5. Room'
  <2>1. Taken' = Taken
    BY <1>1, <1>2, <1>4 DEF Taken
  <2>2. cnt \in Nat /\ Cap - Threads \in Int /\ Lanes * Cardinality(Taken) \in Nat
    <3>1. IsFiniteSet(Taken)
      <4>1. IsFiniteSet(Warps) /\ Taken \subseteq Warps
        BY Sizes, FS_Interval DEF Warps, Taken
      <4> QED  BY <4>1, FS_Subset
    <3>2. Cardinality(Taken) \in Nat
      BY <3>1, FS_CardinalityType
    <3>3. Lanes \in Nat /\ Cap \in Nat /\ Threads \in Nat
      BY Sizes
    <3>4. Lanes * Cardinality(Taken) \in Nat
      BY <3>2, <3>3
    <3>5. cnt \in Nat
      BY DEF StreamTypes
    <3> HIDE DEF StreamGood
    <3>6. Cap - Threads \in Int
      BY <3>3
    <3> QED  BY <3>4, <3>5, <3>6
  <2>3. CASE Crowded(cnt)
    BY <1>1, <1>2, <1>4, <2>1, <2>3 DEF Room
  <2>4. CASE ~Crowded(cnt)
    <3>1. cnt <= Cap - Threads
      BY <2>2, <2>4 DEF Crowded
    <3> HIDE DEF StreamGood
    <3>2. cnt <= Cap - Threads + Lanes * Cardinality(Taken)
      BY <2>2, <3>1
    <3>3. cnt <= Cap
      BY DEF Room, StreamGood
    <3> QED  BY <1>1, <2>1, <3>2, <3>3 DEF Room
  <2> QED  BY <2>3, <2>4
<1>6. SortLoaded'
  <2>1. SUFFICES ASSUME \A v \in Warps : pc'[v] \in {"test", "sort"}, NEW v \in Warps, pc'[v] = "sort"
                 PROVE  reg'[v] = PartOf(v, Loaded) /\ Crowded(cnt)
    BY <1>1, <1>4 DEF SortLoaded, PartOf, Crowded
  <2>2. \A u \in Warps : pc[u] \in {"test", "sort"}
    BY <1>1, <1>4, <2>1
  <2>3. CASE v = w
    BY <1>2, <2>1, <2>3
  <2>4. CASE v # w
    BY <1>4, <2>1, <2>2, <2>4 DEF SortLoaded
  <2> QED  BY <2>3, <2>4
<1>7. EndLoaded'
  <2>1. ASSUME NEW v \in Warps, pc'[v] \in {"end", "last sort"}
        PROVE  N' <= Threads * tile'[v] /\ (pc'[v] = "last sort" => reg'[v] = PartOf(v, Loaded'))
    BY <1>2, <1>4, <2>1 DEF EndLoaded
  <2> QED  BY <2>1 DEF EndLoaded, PartOf
<1> QED  BY <1>4, <1>5, <1>6, <1>7

LEMMA BallotFacts ==
  ASSUME NEW w \in Warps
  PROVE  /\ Ballot(w) \in SUBSET Nat /\ IsFiniteSet(Ballot(w))
         /\ Cardinality(Ballot(w)) \in 0 .. Lanes
         /\ \A l \in Ballot(w) : l \in 0 .. Lanes - 1 /\ Place(w, l) < N /\ KeyAt(Place(w, l)) > thr
<1>1. Lanes \in Nat \ {0} /\ 0 .. Lanes - 1 \in SUBSET Nat
  BY Sizes
<1>2. IsFiniteSet(0 .. Lanes - 1) /\ Cardinality(0 .. Lanes - 1) = Lanes
  BY <1>1, FS_Interval
<1>3. Ballot(w) \subseteq 0 .. Lanes - 1
  BY DEF Ballot
<1>4. IsFiniteSet(Ballot(w)) /\ Cardinality(Ballot(w)) <= Lanes
  BY <1>2, <1>3, FS_Subset
<1>5. Cardinality(Ballot(w)) \in Nat
  BY <1>4, FS_CardinalityType
<1> QED  BY <1>1, <1>3, <1>4, <1>5 DEF Ballot

LEMMA TakenRoom ==
  ASSUME StreamTypes, NEW w \in Warps, w \notin Taken, NEW n \in 0 .. Lanes,
         cnt <= Cap - Threads + Lanes * Cardinality(Taken),
         NEW T, T = Taken \cup {w}
  PROVE  cnt + n <= Cap /\ cnt + n <= Cap - Threads + Lanes * Cardinality(T)
<1>1. IsFiniteSet(Warps) /\ Cardinality(Warps) = NWarps /\ Taken \subseteq Warps /\ T \subseteq Warps
  BY Sizes, FS_Interval DEF Warps, Taken
<1>2. IsFiniteSet(Taken) /\ IsFiniteSet(T) /\ Cardinality(T) <= NWarps
  BY <1>1, FS_Subset
<1>3. Cardinality(T) = Cardinality(Taken) + 1 /\ Cardinality(Taken) \in Nat
  BY <1>2, FS_AddElement, FS_CardinalityType
<1>4. PICK t \in Nat : t = Cardinality(Taken) /\ t + 1 <= NWarps
  BY <1>2, <1>3
<1>5. PICK u \in Nat : u = Lanes * t
  BY <1>4, Sizes
<1>6. Lanes * (t + 1) = u + Lanes
  BY <1>4, <1>5, Sizes
<1>7. u + Lanes <= Threads
  <2>1. t < NWarps
    BY <1>4, Sizes
  <2>2. Lanes * t + Lanes <= Lanes * NWarps
    BY <1>4, <2>1, Sizes, Multiples
  <2> QED  BY <1>5, <2>2, Sizes
<1>8. cnt <= Cap - Threads + u /\ cnt \in Nat
  BY <1>4, <1>5 DEF StreamTypes
<1>9. Lanes * Cardinality(T) = u + Lanes
  BY <1>3, <1>4, <1>6
<1>10. Cap \in Nat /\ Threads \in Nat /\ Lanes \in Nat
  BY Sizes
<1>11. cnt + n <= Cap - Threads + (u + Lanes) /\ cnt + n <= Cap
  BY <1>7, <1>8, <1>10
<1> QED  BY <1>9, <1>11

(* The keys of a ballot stand behind those of the buffer.                  *)
Appended(w, b) ==
  /\ b \in [0 .. Cap - 1 -> Nat]
  /\ \A j \in 0 .. cnt - 1 : b[j] = buf[j]
  /\ \A j \in cnt .. cnt + Cardinality(Ballot(w)) - 1 :
       \E l \in Ballot(w) : j = cnt + Rank(l, Ballot(w)) /\ b[j] = KeyAt(Place(w, l))
  /\ \A l \in Ballot(w) : \E j \in cnt .. cnt + Cardinality(Ballot(w)) - 1 : b[j] = KeyAt(Place(w, l))

LEMMA PlaceIn ==
  ASSUME StreamTypes, NEW w \in Warps
  PROVE  \A l \in 0 .. Lanes - 1 : Place(w, l) < N => Place(w, l) \in 0 .. N - 1
<1>1. N \in Nat
  BY RowFacts DEF StreamTypes
<1>2. \A l \in 0 .. Lanes - 1 : Place(w, l) \in Nat
  BY PlaceFacts DEF StreamTypes
<1> QED  BY <1>1, <1>2

LEMMA TakeAppends ==
  ASSUME StreamTypes, NEW w \in Warps, Take(w), cnt + Cardinality(Ballot(w)) <= Cap
  PROVE  Appended(w, buf')
<1> DEFINE B == Ballot(w)
           At(j) == {l \in B : j = cnt + Rank(l, B)}
           n == Cardinality(B)
<1>1. B \in SUBSET Nat /\ IsFiniteSet(B) /\ n \in Nat
      /\ \A l \in B : l \in 0 .. Lanes - 1 /\ Place(w, l) < N
  BY BallotFacts
<1>2. /\ \A l \in B : Rank(l, B) \in 0 .. n - 1
      /\ \A l, m \in B : Rank(l, B) = Rank(m, B) => l = m
      /\ \A i \in 0 .. n - 1 : \E l \in B : Rank(l, B) = i
  BY <1>1, RankPlaces
<1>3. buf' = [j \in DOMAIN buf |->
                IF At(j) # {} THEN KeyAt(Place(w, CHOOSE l \in At(j) : TRUE)) ELSE buf[j]]
  BY DEF Take
<1>4. cnt \in Nat /\ Cap \in Nat /\ buf \in [0 .. Cap - 1 -> Nat] /\ cnt + n <= Cap
  BY Sizes DEF StreamTypes
<1>5. \A l \in B : KeyAt(Place(w, l)) \in Nat
  <2>1. TAKE l \in B
  <2>2. Place(w, l) \in 0 .. N - 1
    BY <1>1, PlaceIn
  <2> QED  BY <2>2, KeysRound DEF StreamTypes, RowGood
<1>6. \A j \in 0 .. Cap - 1 : At(j) # {} => \E l \in B : j = cnt + Rank(l, B) /\ buf'[j] = KeyAt(Place(w, l))
  <2>1. TAKE j \in 0 .. Cap - 1
  <2>2. HAVE At(j) # {}
  <2>3. (CHOOSE l \in At(j) : TRUE) \in At(j)
    BY <2>2
  <2> HIDE DEF At
  <2>4. buf'[j] = KeyAt(Place(w, CHOOSE l \in At(j) : TRUE))
    BY <1>3, <1>4, <2>2
  <2> QED  BY <2>3, <2>4 DEF At
<1>7. \A j \in 0 .. Cap - 1 : At(j) = {} => buf'[j] = buf[j]
  <2> HIDE DEF At
  <2> QED  BY <1>3, <1>4
<1>8. buf' \in [0 .. Cap - 1 -> Nat]
  <2>1. buf' = [j \in 0 .. Cap - 1 |-> buf'[j]]
    <3> HIDE DEF At
    <3> QED  BY <1>3, <1>4
  <2>2. \A j \in 0 .. Cap - 1 : buf'[j] \in Nat
    <3> HIDE DEF At
    <3> QED  BY <1>4, <1>5, <1>6, <1>7
  <2> QED  BY <2>1, <2>2
<1> HIDE DEF n
<1>9. \A j \in 0 .. cnt - 1 : buf'[j] = buf[j]
  <2>1. TAKE j \in 0 .. cnt - 1
  <2>2. At(j) = {} /\ j \in 0 .. Cap - 1
    BY <1>1, <1>2, <1>4
  <2> QED  BY <1>7, <2>2
<1>10. \A j \in cnt .. cnt + n - 1 : \E l \in B : j = cnt + Rank(l, B) /\ buf'[j] = KeyAt(Place(w, l))
  <2>1. TAKE j \in cnt .. cnt + n - 1
  <2>2. j - cnt \in 0 .. n - 1 /\ j \in 0 .. Cap - 1
    BY <1>1, <1>4
  <2>3. PICK l \in B : Rank(l, B) = j - cnt
    BY <1>2, <2>2
  <2>4. At(j) # {}
    BY <1>4, <2>2, <2>3
  <2> QED  BY <1>6, <2>2, <2>4
<1>11. \A l \in B : \E j \in cnt .. cnt + n - 1 : buf'[j] = KeyAt(Place(w, l))
  <2>1. TAKE l \in B
  <2>2. Rank(l, B) \in 0 .. n - 1
    BY <1>2
  <2>3. PICK j \in cnt .. cnt + n - 1 : j = cnt + Rank(l, B)
    BY <1>1, <1>4, <2>2
  <2>4. PICK m \in B : j = cnt + Rank(m, B) /\ buf'[j] = KeyAt(Place(w, m))
    BY <1>10
  <2>5. Rank(m, B) \in 0 .. n - 1
    BY <1>2
  <2>6. Rank(m, B) = Rank(l, B)
    BY <1>4, <2>2, <2>3, <2>4, <2>5
  <2> QED  BY <1>2, <2>4, <2>6
<1> QED  BY <1>8, <1>9, <1>10, <1>11 DEF Appended, n

LEMMA AppendedHolds ==
  ASSUME StreamTypes, NEW w \in Warps, NEW b, Appended(w, b), Holds(KeysMet, buf, 0, cnt, thr),
         KeysMet \cap NewKeys(w) = {}
  PROVE  Holds(KeysMet \cup NewKeys(w), b, 0, cnt + Cardinality(Ballot(w)), thr)
<1> DEFINE B == Ballot(w)
           n == Cardinality(B)
           m == cnt + n
<1>1. B \in SUBSET Nat /\ n \in Nat /\ cnt \in Nat /\ thr \in Nat
      /\ \A l \in B : l \in 0 .. Lanes - 1 /\ Place(w, l) < N /\ KeyAt(Place(w, l)) > thr
  <2>1. B \in SUBSET Nat /\ \A l \in B : l \in 0 .. Lanes - 1 /\ Place(w, l) < N /\ KeyAt(Place(w, l)) > thr
    BY BallotFacts
  <2>2. n \in Nat
    BY BallotFacts, FS_CardinalityType
  <2> QED  BY <2>1, <2>2 DEF StreamTypes
<1>2. \A l \in 0 .. Lanes - 1 : Place(w, l) < N => Place(w, l) \in 0 .. N - 1
  BY PlaceIn
<1>3. \A l \in 0 .. Lanes - 1 : Place(w, l) < N => KeyAt(Place(w, l)) \in NewKeys(w) /\ KeyAt(Place(w, l)) \in Nat
  BY <1>2, KeysRound DEF NewKeys, StreamTypes, RowGood
<1>4. ASSUME NEW l \in B, NEW h \in B, KeyAt(Place(w, l)) = KeyAt(Place(w, h)) PROVE l = h
  <2>1. l \in 0 .. Lanes - 1 /\ h \in 0 .. Lanes - 1 /\ Place(w, l) \in 0 .. N - 1 /\ Place(w, h) \in 0 .. N - 1
    BY <1>1, <1>2
  <2>2. Place(w, l) = Place(w, h)
    BY <1>4, <2>1, KeysRound DEF StreamTypes, RowGood
  <2> QED  BY <2>1, <2>2, PlaceFacts DEF StreamTypes
<1>5. /\ \A j \in 0 .. cnt - 1 : b[j] = buf[j]
      /\ \A j \in cnt .. m - 1 : \E l \in B : j = cnt + Rank(l, B) /\ b[j] = KeyAt(Place(w, l))
      /\ \A l \in B : \E j \in cnt .. m - 1 : b[j] = KeyAt(Place(w, l))
  <2>1. \A j \in 0 .. cnt - 1 : b[j] = buf[j]
    BY DEF Appended
  <2>2. cnt + Cardinality(Ballot(w)) - 1 = m - 1
    <3>1. \A c, d \in Nat : c + d - 1 = (c + d) - 1
      OBVIOUS
    <3> QED  BY <1>1, <3>1
  <2>3. \A j \in cnt .. m - 1 : \E l \in B : j = cnt + Rank(l, B) /\ b[j] = KeyAt(Place(w, l))
    BY <2>2 DEF Appended
  <2>4. \A l \in B : \E j \in cnt .. m - 1 : b[j] = KeyAt(Place(w, l))
    BY <2>2 DEF Appended
  <2> QED  BY <2>1, <2>3, <2>4
<1>6. /\ \A j \in 0 .. cnt - 1 : thr <= buf[j] /\ buf[j] \in KeysMet
      /\ \A j, h \in 0 .. cnt - 1 : buf[j] = buf[h] => j = h
      /\ \A k \in KeysMet : k <= thr \/ \E j \in 0 .. cnt - 1 : buf[j] = k
  <2>1. 0 + cnt - 1 = cnt - 1
    BY <1>1
  <2> QED  BY <2>1 DEF Holds
<1> HIDE DEF B, n
<1>7. m \in Nat /\ \A j \in 0 .. m - 1 : j \in 0 .. cnt - 1 \/ j \in cnt .. m - 1
  BY <1>1
<1>8. \A j \in 0 .. cnt - 1 : thr <= b[j] /\ b[j] \in KeysMet
  BY <1>5, <1>6
<1>9. \A j \in cnt .. m - 1 : thr <= b[j] /\ b[j] \in NewKeys(w)
  <2>1. TAKE j \in cnt .. m - 1
  <2>2. PICK l \in B : b[j] = KeyAt(Place(w, l))
    BY <1>5
  <2> QED  BY <1>1, <1>3, <2>2
<1>10. \A j \in 0 .. m - 1 : thr <= b[j] /\ b[j] \in KeysMet \cup NewKeys(w)
  BY <1>7, <1>8, <1>9
<1>11. ASSUME NEW j \in cnt .. m - 1, NEW h \in cnt .. m - 1, b[j] = b[h] PROVE j = h
  <2>1. PICK l \in B : j = cnt + Rank(l, B) /\ b[j] = KeyAt(Place(w, l))
    BY <1>5
  <2>2. PICK g \in B : h = cnt + Rank(g, B) /\ b[h] = KeyAt(Place(w, g))
    BY <1>5
  <2>3. l = g
    BY <1>4, <1>11, <2>1, <2>2
  <2> QED  BY <2>1, <2>2, <2>3
<1>12. \A j, h \in 0 .. m - 1 : b[j] = b[h] => j = h
  <2>1. SUFFICES ASSUME NEW j \in 0 .. m - 1, NEW h \in 0 .. m - 1, b[j] = b[h] PROVE j = h
    OBVIOUS
  <2>2. CASE j \in 0 .. cnt - 1 /\ h \in 0 .. cnt - 1
    BY <1>5, <1>6, <2>1, <2>2
  <2>3. CASE j \in cnt .. m - 1 /\ h \in cnt .. m - 1
    BY <1>11, <2>1, <2>3
  <2>4. CASE ~(j \in 0 .. cnt - 1 <=> h \in 0 .. cnt - 1)
    BY <1>7, <1>8, <1>9, <2>1, <2>4
  <2> QED  BY <1>7, <2>2, <2>3, <2>4
<1>13. \A k \in KeysMet \cup NewKeys(w) : k <= thr \/ \E j \in 0 .. m - 1 : b[j] = k
  <2>1. \A j \in 0 .. cnt - 1 : j \in 0 .. m - 1
    <3>1. n \in Nat
      BY <1>1 DEF n
    <3> QED  BY <1>1, <3>1
  <2>2. \A j \in cnt .. m - 1 : j \in 0 .. m - 1
    BY <1>1
  <2>3. \A k \in KeysMet : k <= thr \/ \E j \in 0 .. m - 1 : b[j] = k
    BY <1>5, <1>6, <2>1
  <2>4. ASSUME NEW k \in NewKeys(w), ~(k <= thr) PROVE \E j \in 0 .. m - 1 : b[j] = k
    <3>1. PICK l \in 0 .. Lanes - 1 : Place(w, l) < N /\ k = KeyAt(Place(w, l))
      BY DEF NewKeys
    <3>2. KeyAt(Place(w, l)) > thr
      BY <1>1, <1>3, <2>4, <3>1
    <3>3. l \in B
      BY <3>1, <3>2 DEF B, Ballot
    <3> QED  BY <1>5, <2>2, <3>1, <3>3
  <2> QED  BY <2>3, <2>4
<1>14. 0 + m - 1 = m - 1
  BY <1>7
<1> QED  BY <1>10, <1>12, <1>13, <1>14 DEF Holds, n, B

LEMMA TakeKeeps ==
  ASSUME StreamGood, NEW w \in Warps, Take(w)
  PROVE  StreamGood'
<1> USE DEF StreamGood
<1> DEFINE n == Cardinality(Ballot(w))
<1>1. /\ pc[w] = "take" /\ pc'[w] = "taken" /\ Threads * tile[w] < N
      /\ pc' = [pc EXCEPT ![w] = "taken"] /\ UNCHANGED <<fixed, tile, reg, thr, selected>>
      /\ cnt' = cnt + n
  BY DEF Take, Goto, StreamTypes
<1>2. \A v \in Warps : v # w => pc'[v] = pc[v]
  BY <1>1 DEF StreamTypes
<1>3. \A v \in Warps : pc[v] \in Loop /\ pc'[v] \in Loop
  <2>1. \A v \in Warps : pc[v] \in Loop
    BY <1>1 DEF Phase
  <2> QED  BY <1>1, <1>2, <2>1 DEF Loop
<1>4. n \in 0 .. Lanes /\ n \in Nat
  BY BallotFacts, Sizes
<1> HIDE DEF n
<1>5. w \notin Taken /\ Taken' = Taken \cup {w}
  BY <1>1, <1>2 DEF Taken
<1>6. cnt + n <= Cap /\ cnt + n <= Cap - Threads + Lanes * Cardinality(Taken')
  <2>1. cnt <= Cap - Threads + Lanes * Cardinality(Taken)
    BY <1>1 DEF Room
  <2> QED  BY <1>4, <1>5, <2>1, TakenRoom
<1>7. Appended(w, buf')
  BY <1>6, TakeAppends DEF n
<1>8. StreamTypes'
  <2>1. row' \in ScoreRows /\ first' \in 0 .. N' - 1
    BY <1>1 DEF fixed, N, StreamTypes
  <2>2. buf' \in [0 .. Cap - 1 -> Nat] /\ cnt' \in Nat
    <3>1. buf' \in [0 .. Cap - 1 -> Nat]
      BY <1>7 DEF Appended
    <3>2. cnt \in Nat
      BY DEF StreamTypes
    <3> QED  BY <1>1, <1>4, <3>1, <3>2
  <2>3. pc' \in [Warps -> {"take", "taken", "test", "sort", "keep", "kept", "end", "last sort", "write", "done"}]
    BY <1>1 DEF StreamTypes
  <2> QED  BY <1>1, <2>1, <2>2, <2>3 DEF StreamTypes
<1>9. Phase'
  BY <1>3 DEF Phase
<1>10. InStep'
  <2>1. \A v \in Warps : Turn(v)' = Turn(v)
    BY <1>1, <1>2 DEF Turn
  <2> QED  BY <2>1 DEF InStep
<1>11. BufferHolds'
  <2>1. InLoop
    BY <1>3 DEF InLoop
  <2>2. Holds(KeysMet, buf, 0, cnt, thr) /\ (thr > 0 => cnt >= K)
    BY <2>1 DEF BufferHolds
  <2>3. KeysMet' = KeysMet \cup NewKeys(w) /\ KeysMet \cap NewKeys(w) = {}
    BY TakeMeets
  <2>4. Holds(KeysMet \cup NewKeys(w), buf', 0, cnt + n, thr)
    BY <1>7, <2>2, <2>3, AppendedHolds DEF n
  <2>5. Holds(KeysMet', buf', 0, cnt', thr')
    BY <1>1, <2>3, <2>4
  <2>6. thr' > 0 => cnt' >= K
    <3>1. cnt \in Nat /\ K \in Nat
      BY Sizes DEF StreamTypes
    <3>2. thr' = thr /\ cnt' >= cnt
      BY <1>1, <1>4, <3>1
    <3> QED  BY <1>1, <1>4, <2>2, <3>1, <3>2
  <2> QED  BY <2>5, <2>6 DEF BufferHolds, Holds
<1>12. Room'
  BY <1>1, <1>6 DEF Room
<1>13. SortLoaded' /\ KeepInv' /\ WriteInv'
  BY <1>1 DEF SortLoaded, KeepInv, WriteInv
<1>14. EndLoaded'
  <2>1. ASSUME NEW v \in Warps, pc'[v] \in {"end", "last sort"} PROVE FALSE
    <3>1. v # w /\ pc[v] \in {"end", "last sort"}
      BY <1>1, <1>2, <2>1
    <3>2. tile[v] = tile[w]
      BY <1>1, <3>1 DEF InStep, Turn
    <3>3. N <= Threads * tile[w]
      BY <3>1, <3>2 DEF EndLoaded
    <3>4. N \in Nat /\ tile[w] \in Nat
      BY RowFacts DEF StreamTypes
    <3>5. PICK u \in Nat : u = Threads * tile[w]
      BY <3>4, Sizes
    <3> QED  BY <1>1, <3>3, <3>4, <3>5
  <2> QED  BY <2>1 DEF EndLoaded
<1> QED  BY <1>8, <1>9, <1>10, <1>11, <1>12, <1>13, <1>14

(* A warp's own pieces: no place is in two of them.                        *)
LEMMA Pieces ==
  /\ \A w \in Warps : \A x \in Kept(w) :
       x \in 1 .. PerWarp /\ PerWarp * (w - 1) + x \in 1 .. K /\ PerWarp * (w - 1) \in Nat
  /\ \A p \in 1 .. K : \E w \in Warps : \E x \in Kept(w) : p = PerWarp * (w - 1) + x
  /\ \A v, w \in Warps : \A x \in Kept(v), z \in Kept(w) :
       PerWarp * (v - 1) + x = PerWarp * (w - 1) + z => v = w /\ x = z
<1>1. ASSUME NEW w \in Warps, NEW x \in Kept(w)
      PROVE  x \in 1 .. PerWarp /\ PerWarp * (w - 1) + x \in 1 .. K /\ PerWarp * (w - 1) \in Nat
  <2>1. x \in 1 .. PerWarp /\ PerWarp * (w - 1) + x <= K
    BY DEF Kept
  <2>2. PerWarp * (w - 1) \in Nat
    BY <2>1, WarpParts
  <2>3. x \in Nat /\ x >= 1
    BY <2>1
  <2> QED  BY <2>1, <2>2, <2>3, Sizes
<1>2. ASSUME NEW p \in 1 .. K PROVE \E w \in Warps : \E x \in Kept(w) : p = PerWarp * (w - 1) + x
  <2>1. p \in 1 .. Cap
    BY Sizes
  <2>2. PICK w \in Warps, x \in 1 .. PerWarp : p = PerWarp * (w - 1) + x
    BY <2>1, WarpParts
  <2>3. PerWarp * (w - 1) + x <= K
    BY <2>2
  <2> QED  BY <2>2, <2>3 DEF Kept
<1>3. \A v, w \in Warps : \A x \in Kept(v), z \in Kept(w) :
        PerWarp * (v - 1) + x = PerWarp * (w - 1) + z => v = w /\ x = z
  BY WarpParts DEF Kept
<1> QED  BY <1>1, <1>2, <1>3

LEMMA PiecesTyped ==
  ASSUME StreamTypes, RegsTyped
  PROVE  /\ reg \in Registers /\ Whole(reg) \in [1 .. Cap -> Nat]
         /\ \A w \in Warps : \A x \in Kept(w) :
              reg[w][x] \in Nat /\ Whole(reg)[PerWarp * (w - 1) + x] = reg[w][x]
<1>1. reg \in Registers
  BY DEF StreamTypes, RegsTyped, Registers
<1>2. Whole(reg) \in [1 .. Cap -> Nat]
      /\ \A w \in Warps, x \in 1 .. PerWarp : Whole(reg)[PerWarp * (w - 1) + x] = reg[w][x]
  BY <1>1, WholeParts
<1>3. \A w \in Warps : \A x \in Kept(w) : x \in 1 .. PerWarp
  BY DEF Kept
<1> QED  BY <1>1, <1>2, <1>3 DEF RegsTyped

(* Keeping a piece changes no other.                                       *)
LEMMA KeepFacts ==
  ASSUME StreamTypes, RegsTyped, NEW w \in Warps, Keep(w)
  PROVE  /\ buf' \in [0 .. Cap - 1 -> Nat]
         /\ \A x \in Kept(w) : buf'[PerWarp * (w - 1) + x - 1] = reg[w][x]
         /\ \A v \in Warps \ {w} : \A x \in Kept(v) :
              buf'[PerWarp * (v - 1) + x - 1] = buf[PerWarp * (v - 1) + x - 1]
         /\ thr' \in Nat
         /\ K - PerWarp * (w - 1) \in Kept(w) => thr' = Whole(reg)[K]
         /\ \A v \in Warps \ {w} : K - PerWarp * (v - 1) \in Kept(v) => thr' = thr
<1> DEFINE p == PerWarp * (w - 1)
<1>1. p \in Nat /\ Cap \in Nat /\ K \in Nat /\ K <= Cap
  <2>1. Threads \in Nat /\ Cap \in Nat /\ K \in Nat /\ K <= Cap - Threads
    BY Sizes
  <2>2. PerWarp \in Nat /\ w - 1 \in Nat
    BY Sizes DEF Warps
  <2>3. p \in Nat
    BY <2>2
  <2> QED  BY <2>1, <2>3
<1>2. /\ buf' = [j \in 0 .. Cap - 1 |-> IF j - p + 1 \in Kept(w) THEN reg[w][j - p + 1] ELSE buf[j]]
      /\ thr' = IF K - p \in Kept(w) THEN reg[w][K - p] ELSE thr
  BY DEF Keep, StreamTypes
<1>3. \A x \in Kept(w) : reg[w][x] \in Nat /\ Whole(reg)[p + x] = reg[w][x]
  BY PiecesTyped
<1>4. /\ \A x \in Kept(w) : x \in Int /\ p + x \in 1 .. K
      /\ \A v \in Warps : \A x \in Kept(v), z \in Kept(w) : PerWarp * (v - 1) + x = p + z => v = w
      /\ \A v \in Warps : \A x \in Kept(v) :
           PerWarp * (v - 1) \in Nat /\ x \in Int /\ PerWarp * (v - 1) + x \in 1 .. K
  <2>1. \A v \in Warps : \A x \in Kept(v) : x \in Int
    BY DEF Kept
  <2> QED  BY <2>1, Pieces
<1> HIDE DEF p
<1>5. buf' \in [0 .. Cap - 1 -> Nat]
  BY <1>2, <1>3 DEF StreamTypes
<1>6. \A x \in Kept(w) : buf'[p + x - 1] = reg[w][x]
  <2>1. TAKE x \in Kept(w)
  <2>2. p + x - 1 \in 0 .. Cap - 1 /\ (p + x - 1) - p + 1 = x
    BY <1>1, <1>4
  <2> QED  BY <1>2, <2>2
<1>7. ASSUME NEW v \in Warps, v # w, NEW x \in Kept(v), NEW q, q = PerWarp * (v - 1)
      PROVE  buf'[q + x - 1] = buf[q + x - 1]
  <2>1. q \in Nat /\ x \in Int /\ q + x \in 1 .. K
    BY <1>4, <1>7
  <2>2. PICK j \in 0 .. Cap - 1 : j = q + x - 1
    BY <1>1, <2>1
  <2>3. j - p + 1 \notin Kept(w)
    <3>1. SUFFICES ASSUME j - p + 1 \in Kept(w) PROVE FALSE
      OBVIOUS
    <3>2. q + x = p + (j - p + 1)
      BY <1>1, <2>1, <2>2
    <3> QED  BY <1>4, <1>7, <3>1, <3>2
  <2> QED  BY <1>2, <2>2, <2>3
<1>8. thr' \in Nat
  BY <1>2, <1>3 DEF StreamTypes
<1>9. K - p \in Kept(w) => thr' = Whole(reg)[K]
  <2>1. HAVE K - p \in Kept(w)
  <2>2. p + (K - p) = K
    BY <1>1
  <2> QED  BY <1>2, <1>3, <2>1, <2>2
<1>10. ASSUME NEW v \in Warps, v # w, NEW q, q = PerWarp * (v - 1), K - q \in Kept(v) PROVE thr' = thr
  <2>1. K - p \notin Kept(w)
    <3>1. SUFFICES ASSUME K - p \in Kept(w) PROVE FALSE
      OBVIOUS
    <3>2. q \in Nat
      BY <1>4, <1>10
    <3>3. q + (K - q) = p + (K - p)
      BY <1>1, <3>2
    <3> QED  BY <1>4, <1>10, <3>1, <3>3
  <2> QED  BY <1>2, <2>1
<1> QED
  <2>1. \A v \in Warps \ {w} : \A x \in Kept(v) :
          buf'[PerWarp * (v - 1) + x - 1] = buf[PerWarp * (v - 1) + x - 1]
    BY <1>7
  <2>2. \A v \in Warps \ {w} : K - PerWarp * (v - 1) \in Kept(v) => thr' = thr
    BY <1>10
  <2>3. p = PerWarp * (w - 1)
    BY DEF p
  <2> QED  BY <1>5, <1>6, <1>8, <1>9, <2>1, <2>2, <2>3

LEMMA KeepKeeps ==
  ASSUME StreamGood, NEW w \in Warps, Keep(w)
  PROVE  StreamGood'
<1> USE DEF StreamGood
<1>1. /\ pc[w] = "keep" /\ pc'[w] = "kept" /\ pc' = [pc EXCEPT ![w] = "kept"]
      /\ UNCHANGED <<fixed, tile, reg, selected>> /\ cnt' = IF w = 1 THEN K ELSE cnt
      /\ \A v \in Warps : v # w => pc'[v] = pc[v]
  BY DEF Keep, Goto, StreamTypes
<1>2. \A v \in Warps : pc[v] \in {"keep", "kept"} /\ pc'[v] \in {"keep", "kept"}
  BY <1>1 DEF Phase, Loop
<1>3. /\ RegsTyped
      /\ Holds(KeysMet, Whole(reg), 1, K, Whole(reg)[K])
      /\ \A v \in Warps : pc[v] = "kept" =>
           /\ \A x \in Kept(v) : buf[PerWarp * (v - 1) + x - 1] = reg[v][x]
           /\ K - PerWarp * (v - 1) \in Kept(v) => thr = Whole(reg)[K]
           /\ v = 1 => cnt = K
  BY <1>2 DEF KeepInv
<1>4. /\ buf' \in [0 .. Cap - 1 -> Nat]
      /\ \A x \in Kept(w) : buf'[PerWarp * (w - 1) + x - 1] = reg[w][x]
      /\ \A v \in Warps \ {w} : \A x \in Kept(v) :
           buf'[PerWarp * (v - 1) + x - 1] = buf[PerWarp * (v - 1) + x - 1]
      /\ thr' \in Nat
      /\ K - PerWarp * (w - 1) \in Kept(w) => thr' = Whole(reg)[K]
      /\ \A v \in Warps \ {w} : K - PerWarp * (v - 1) \in Kept(v) => thr' = thr
  BY <1>3, KeepFacts
<1>5. K \in Nat /\ cnt \in Nat /\ K <= Cap
  <2>1. cnt \in Nat
    BY DEF StreamTypes
  <2> HIDE DEF StreamGood
  <2> QED  BY <2>1, Sizes
<1>6. StreamTypes'
  <2>1. row' \in ScoreRows /\ first' \in 0 .. N' - 1
    BY <1>1 DEF fixed, N, StreamTypes
  <2>2. pc' \in [Warps -> {"take", "taken", "test", "sort", "keep", "kept", "end", "last sort", "write", "done"}]
    BY <1>1 DEF StreamTypes
  <2>3. cnt' \in Nat
    BY <1>1, <1>5
  <2> QED  BY <1>1, <1>4, <2>1, <2>2, <2>3 DEF StreamTypes
<1>7. Phase'
  BY <1>2 DEF Phase
<1>8. InStep'
  <2>1. \A v \in Warps : Turn(v)' = Turn(v)
    BY <1>1 DEF Turn
  <2> QED  BY <2>1 DEF InStep
<1>9. Room'
  <2>1. cnt' <= Cap
    BY <1>1, <1>5 DEF Room
  <2> QED  BY <1>2, <2>1 DEF Room
<1>10. KeepInv'
  <2>1. KeysMet' = KeysMet
    <3>1. \A v \in Warps : Idle(v)
      BY <1>1 DEF Idle
    <3> QED  BY <1>1, <3>1, IdleMeets DEF StreamTypes, RowGood
  <2>2. reg' = reg /\ Whole(reg)' = Whole(reg)
    BY <1>1 DEF Whole
  <2>3. RegsTyped' /\ Holds(KeysMet, Whole(reg), 1, K, Whole(reg)[K])'
    BY <1>3, <2>1, <2>2 DEF RegsTyped, Holds
  <2>4. ASSUME NEW v \in Warps, pc'[v] = "kept"
        PROVE  /\ \A x \in Kept(v) : buf'[PerWarp * (v - 1) + x - 1] = reg'[v][x]
               /\ K - PerWarp * (v - 1) \in Kept(v) => thr' = Whole(reg')[K]
               /\ v = 1 => cnt' = K
    <3>1. CASE v = w
      BY <1>1, <1>4, <2>2, <3>1
    <3>2. CASE v # w
      BY <1>1, <1>3, <1>4, <2>2, <2>4, <3>2
    <3> QED  BY <3>1, <3>2
  <2> QED  BY <2>3, <2>4 DEF KeepInv, Kept
<1>11. BufferHolds' /\ SortLoaded' /\ EndLoaded' /\ WriteInv'
  BY <1>2 DEF BufferHolds, InLoop, Loop, SortLoaded, EndLoaded, WriteInv
<1> QED  BY <1>6, <1>7, <1>8, <1>9, <1>10, <1>11

LEMMA WriteFacts ==
  ASSUME StreamTypes, RegsTyped, NEW w \in Warps, Write(w)
  PROVE  /\ selected' \in [1 .. K -> Int]
         /\ \A x \in Kept(w) : selected'[PerWarp * (w - 1) + x] = RowOfKey(reg[w][x])
         /\ \A v \in Warps \ {w} : \A x \in Kept(v) :
              selected'[PerWarp * (v - 1) + x] = selected[PerWarp * (v - 1) + x]
<1> DEFINE p == PerWarp * (w - 1)
<1>1. p \in Nat /\ K \in Nat
  <2>1. PerWarp \in Nat /\ w - 1 \in Nat
    BY Sizes DEF Warps
  <2> QED  BY <2>1, Sizes
<1>2. selected' = [i \in 1 .. K |-> IF i - p \in Kept(w) THEN RowOfKey(reg[w][i - p]) ELSE selected[i]]
  BY DEF Write
<1>3. \A x \in Kept(w) : RowOfKey(reg[w][x]) \in Int
  <2>1. TAKE x \in Kept(w)
  <2>2. reg[w][x] \in Nat /\ N \in Nat \ {0}
    <3>1. row \in ScoreRows /\ first \in 0 .. N - 1
      BY DEF StreamTypes
    <3>2. N \in Nat \ {0}
      BY <3>1, RowFacts
    <3> QED  BY <3>2, PiecesTyped
  <2> QED  BY <2>2 DEF RowOfKey
<1>4. /\ \A x \in Kept(w) : x \in Int /\ p + x \in 1 .. K
      /\ \A v \in Warps : \A x \in Kept(v), z \in Kept(w) : PerWarp * (v - 1) + x = p + z => v = w
      /\ \A v \in Warps : \A x \in Kept(v) :
           PerWarp * (v - 1) \in Nat /\ x \in Int /\ PerWarp * (v - 1) + x \in 1 .. K
  <2>1. \A v \in Warps : \A x \in Kept(v) : x \in Int
    BY DEF Kept
  <2> QED  BY <2>1, Pieces
<1> HIDE DEF p
<1>5. selected' \in [1 .. K -> Int]
  BY <1>2, <1>3 DEF StreamTypes
<1>6. \A x \in Kept(w) : selected'[p + x] = RowOfKey(reg[w][x])
  <2>1. TAKE x \in Kept(w)
  <2>2. p + x \in 1 .. K /\ (p + x) - p = x
    BY <1>1, <1>4
  <2> QED  BY <1>2, <2>2
<1>7. ASSUME NEW v \in Warps, v # w, NEW x \in Kept(v), NEW q, q = PerWarp * (v - 1)
      PROVE  selected'[q + x] = selected[q + x]
  <2>1. q \in Nat /\ x \in Int
    BY <1>4, <1>7
  <2>2. PICK i \in 1 .. K : i = q + x
    BY <1>4, <1>7
  <2>3. i - p \notin Kept(w)
    <3>1. SUFFICES ASSUME i - p \in Kept(w) PROVE FALSE
      OBVIOUS
    <3>2. q + x = p + (i - p)
      BY <1>1, <2>1, <2>2
    <3> QED  BY <1>4, <1>7, <3>1, <3>2
  <2> QED  BY <1>2, <2>2, <2>3
<1> QED
  <2>1. \A v \in Warps \ {w} : \A x \in Kept(v) :
          selected'[PerWarp * (v - 1) + x] = selected[PerWarp * (v - 1) + x]
    BY <1>7
  <2>2. p = PerWarp * (w - 1)
    BY DEF p
  <2> QED  BY <1>5, <1>6, <2>1, <2>2

LEMMA WriteKeeps ==
  ASSUME StreamGood, NEW w \in Warps, Write(w)
  PROVE  StreamGood'
<1> USE DEF StreamGood
<1>1. /\ pc[w] = "write" /\ pc'[w] = "done" /\ pc' = [pc EXCEPT ![w] = "done"]
      /\ UNCHANGED <<fixed, tile, reg, cnt, thr, buf>>
      /\ \A v \in Warps : v # w => pc'[v] = pc[v]
  BY DEF Write, Goto, StreamTypes
<1>2. \A v \in Warps : pc[v] \in {"write", "done"} /\ pc'[v] \in {"write", "done"}
  BY <1>1 DEF Phase, Loop
<1>3. /\ RegsTyped /\ \A p \in 1 .. K : Whole(reg)[p] = Ranked[p]
      /\ \A v \in Warps : pc[v] = "done" =>
           \A x \in Kept(v) : selected[PerWarp * (v - 1) + x] = RowOfKey(reg[v][x])
  BY <1>2 DEF WriteInv
<1>4. /\ selected' \in [1 .. K -> Int]
      /\ \A x \in Kept(w) : selected'[PerWarp * (w - 1) + x] = RowOfKey(reg[w][x])
      /\ \A v \in Warps \ {w} : \A x \in Kept(v) :
           selected'[PerWarp * (v - 1) + x] = selected[PerWarp * (v - 1) + x]
  BY <1>3, WriteFacts
<1>5. StreamTypes'
  <2>1. row' \in ScoreRows /\ first' \in 0 .. N' - 1
    BY <1>1 DEF fixed, N, StreamTypes
  <2>2. pc' \in [Warps -> {"take", "taken", "test", "sort", "keep", "kept", "end", "last sort", "write", "done"}]
    BY <1>1 DEF StreamTypes
  <2> QED  BY <1>1, <1>4, <2>1, <2>2 DEF StreamTypes
<1>6. Phase'
  BY <1>2 DEF Phase
<1>7. InStep'
  <2>1. \A v \in Warps : Turn(v)' = Turn(v)
    BY <1>1 DEF Turn
  <2> QED  BY <2>1 DEF InStep
<1>8. Room'
  BY <1>1, <1>2 DEF Room
<1>9. WriteInv'
  <2>1. Ranked' = Ranked /\ reg' = reg /\ Whole(reg)' = Whole(reg) /\ \A k : RowOfKey(k)' = RowOfKey(k)
    BY <1>1 DEF Ranked, Whole, RowOfKey, N, Key, fixed
  <2>2. RegsTyped' /\ \A p \in 1 .. K : Whole(reg')[p] = Ranked'[p]
    BY <1>3, <2>1 DEF RegsTyped
  <2>3. ASSUME NEW v \in Warps, pc'[v] = "done"
        PROVE  \A x \in Kept(v) : selected'[PerWarp * (v - 1) + x] = RowOfKey(reg[v][x])
    <3>1. CASE v = w
      BY <1>4, <3>1
    <3>2. CASE v # w
      BY <1>1, <1>3, <1>4, <2>3, <3>2
    <3> QED  BY <3>1, <3>2
  <2> QED  BY <2>1, <2>2, <2>3 DEF WriteInv, Kept
<1>10. BufferHolds' /\ SortLoaded' /\ EndLoaded' /\ KeepInv'
  BY <1>2 DEF BufferHolds, InLoop, Loop, SortLoaded, EndLoaded, KeepInv
<1> QED  BY <1>5, <1>6, <1>7, <1>8, <1>9, <1>10

-----------------------------------------------------------------------------
(* The barriers *)

MeetAt(at, next) ==
  /\ \A w \in Warps : pc[w] = at /\ pc'[w] = next
  /\ pc' = [w \in Warps |-> next]
  /\ tile' = [w \in Warps |-> IF at = "kept" THEN tile[w] + 1 ELSE tile[w]]
  /\ UNCHANGED <<fixed, cnt, thr, buf, selected>>
Sorted == reg' = [w \in Warps |-> PartOf(w, Descending(Whole(reg)))]

(* Warps that stay together meet at one barrier, and all pass it.          *)
LEMMA Meeting ==
  ASSUME StreamTypes, Barrier, split' = FALSE
  PROVE  \/ MeetAt("taken", "test") /\ reg' = reg
         \/ MeetAt("sort", "keep") /\ Sorted
         \/ MeetAt("kept", "take") /\ reg' = reg
         \/ MeetAt("last sort", "write") /\ Sorted
<1>1. Together
  BY DEF Barrier
<1>2. PICK at : \A w \in Warps : pc[w] = at
  BY <1>1 DEF Together
<1>3. 1 \in Warps
  BY Sizes DEF Warps
<1>4. at \in {"taken", "sort", "kept", "last sort"} /\ at # "done"
  BY <1>2, <1>3 DEF Barrier
<1>5. pc' = [w \in Warps |-> After(at)]
  BY <1>2, <1>4 DEF Barrier
<1>6. tile' = [w \in Warps |-> IF at = "kept" THEN tile[w] + 1 ELSE tile[w]]
  BY <1>2 DEF Barrier
<1>7. at \in {"taken", "kept"} => reg' = reg
  BY <1>2, <1>4 DEF Barrier, StreamTypes
<1>8. at \in {"sort", "last sort"} => Sorted
  BY <1>1, <1>2, <1>4 DEF Barrier, Sorted
<1>9. UNCHANGED <<fixed, cnt, thr, buf, selected>>
  BY DEF Barrier
<1>10. MeetAt(at, After(at))
  BY <1>2, <1>5, <1>6, <1>9 DEF MeetAt
<1>11. CASE at = "taken"
  BY <1>7, <1>10, <1>11 DEF After
<1>12. CASE at = "sort"
  BY <1>8, <1>10, <1>12 DEF After
<1>13. CASE at = "kept"
  BY <1>7, <1>10, <1>13 DEF After
<1>14. CASE at = "last sort"
  BY <1>8, <1>10, <1>14 DEF After
<1> QED  BY <1>4, <1>11, <1>12, <1>13, <1>14

(* The sort of what was taken up from the buffer gives its keys in order,  *)
(* and what the warps then hold is that order, part by part.               *)
BufferKeys == {buf[j] : j \in 0 .. cnt - 1}

LEMMA SortsBuffer ==
  ASSUME StreamTypes, RowGood, cnt <= Cap, Holds(KeysMet, buf, 0, cnt, thr),
         \A w \in Warps : reg[w] = PartOf(w, Loaded)
  PROVE  /\ Lists(Descending(Whole(reg)), cnt, BufferKeys)
         /\ Sorted => /\ reg' \in [Warps -> {<<>>} \cup [1 .. PerWarp -> Nat]]
                      /\ RegsTyped' /\ Whole(reg)' = Descending(Whole(reg))
<1>1. Loaded \in [1 .. Cap -> Nat]
  BY LoadedTyped
<1>2. reg = [w \in Warps |-> PartOf(w, Loaded)]
  BY DEF StreamTypes
<1>3. Whole(reg) = Loaded
  BY <1>1, <1>2, PartsWhole
<1>4. Cap \in Nat /\ cnt \in 0 .. Cap /\ buf \in [0 .. Cap - 1 -> Nat] /\ thr \in Nat
  <2>1. Cap \in Nat
    BY Sizes
  <2>2. cnt \in Nat /\ buf \in [0 .. Cap - 1 -> Nat] /\ thr \in Nat
    BY DEF StreamTypes
  <2> QED  BY <2>1, <2>2
<1>5. /\ \A j \in 0 .. cnt - 1 : buf[j] \in KeysMet
      /\ \A j, h \in 0 .. cnt - 1 : buf[j] = buf[h] => j = h
  <2>1. 0 + cnt - 1 = cnt - 1
    BY <1>4
  <2> QED  BY <2>1 DEF Holds
<1>6. \A j \in 0 .. cnt - 1 : buf[j] > 0
  BY <1>5, MetKeys
<1>7. /\ \A x \in 1 .. cnt : x - 1 \in 0 .. cnt - 1 /\ Loaded[x] = buf[x - 1]
      /\ \A x \in 1 .. Cap : x > cnt => Loaded[x] = 0
  BY <1>4 DEF Loaded
<1>8. \A x, y \in 1 .. cnt : Loaded[x] = Loaded[y] => x = y
  <2>1. TAKE x \in 1 .. cnt, y \in 1 .. cnt
  <2>2. HAVE Loaded[x] = Loaded[y]
  <2>3. buf[x - 1] = buf[y - 1] /\ x - 1 \in 0 .. cnt - 1 /\ y - 1 \in 0 .. cnt - 1
    BY <1>7, <2>2
  <2>4. x - 1 = y - 1
    BY <1>5, <2>3
  <2> QED  BY <2>4
<1>9. \A x \in 1 .. Cap : Loaded[x] > 0 <=> x <= cnt
  <2>1. TAKE x \in 1 .. Cap
  <2>2. CASE x <= cnt
    <3>1. x \in 1 .. cnt
      BY <1>4, <2>2
    <3> QED  BY <1>6, <1>7, <2>2, <3>1
  <2>3. CASE x > cnt
    BY <1>4, <1>7, <2>3
  <2> QED  BY <1>4, <2>2, <2>3
<1>10. \A x \in 1 .. cnt : Loaded[x] \in BufferKeys
  BY <1>7 DEF BufferKeys
<1>11. \A h \in BufferKeys : \E x \in 1 .. cnt : Loaded[x] = h
  <2>1. \A j \in 0 .. cnt - 1 : j + 1 \in 1 .. cnt /\ Loaded[j + 1] = buf[j]
    <3>1. TAKE j \in 0 .. cnt - 1
    <3>2. j + 1 \in 1 .. cnt /\ (j + 1) - 1 = j
      BY <1>4
    <3> QED  BY <1>7, <3>2
  <2> QED  BY <2>1 DEF BufferKeys
<1>12. Descending(Loaded) \in [1 .. Cap -> Nat] /\ Lists(Descending(Loaded), cnt, BufferKeys)
  BY <1>1, <1>4, <1>8, <1>9, <1>10, <1>11, SortLists
<1>13. \A r : r = [w \in Warps |-> PartOf(w, Descending(Loaded))]
               => r \in Registers /\ Whole(r) = Descending(Loaded)
  BY <1>12, PartsWhole
<1>14. ASSUME Sorted
       PROVE  /\ reg' \in [Warps -> {<<>>} \cup [1 .. PerWarp -> Nat]]
              /\ RegsTyped' /\ Whole(reg)' = Descending(Whole(reg))
  <2>1. reg' \in Registers /\ Whole(reg') = Descending(Loaded)
    BY <1>3, <1>13, <1>14 DEF Sorted
  <2>2. Whole(reg)' = Whole(reg')
    BY DEF Whole
  <2> QED  BY <1>3, <2>1, <2>2 DEF Registers, RegsTyped
<1> QED  BY <1>3, <1>12, <1>14

(* The first K of more keys hold what they held, above the K-th.           *)
LEMMA FrontHolds ==
  ASSUME StreamTypes, RowGood, Holds(KeysMet, buf, 0, cnt, thr), K <= cnt,
         NEW D, Lists(D, cnt, BufferKeys)
  PROVE  Holds(KeysMet, D, 1, K, D[K])
<1>1. K \in Nat \ {0} /\ cnt \in Nat /\ thr \in Nat
  BY Sizes DEF StreamTypes
<1>2. /\ \A k \in BufferKeys : thr <= k /\ k \in KeysMet /\ k \in Nat
      /\ \A k \in KeysMet : k \in Nat /\ (k <= thr \/ k \in BufferKeys)
  <2>1. 0 + cnt - 1 = cnt - 1
    BY <1>1
  <2>2. \A k \in BufferKeys : thr <= k /\ k \in KeysMet
    BY <2>1 DEF Holds, BufferKeys
  <2>3. \A k \in KeysMet : k <= thr \/ k \in BufferKeys
    BY <2>1 DEF Holds, BufferKeys
  <2> QED  BY <2>2, <2>3, MetKeys
<1>3. /\ \A p \in 1 .. cnt : D[p] \in BufferKeys
      /\ \A k \in BufferKeys : \E p \in 1 .. cnt : D[p] = k
      /\ \A p, q \in 1 .. cnt : p < q => D[p] > D[q]
  BY DEF Lists
<1>4. 1 + K - 1 = K /\ K \in 1 .. cnt /\ \A p \in 1 .. K : p \in 1 .. cnt
  BY <1>1
<1>5. \A p \in 1 .. cnt : D[p] \in Nat /\ D[p] \in KeysMet /\ thr <= D[p]
  BY <1>2, <1>3
<1>6. \A p \in 1 .. K : D[K] <= D[p]
  <2>1. TAKE p \in 1 .. K
  <2>2. CASE p = K
    BY <1>4, <1>5, <2>2
  <2>3. CASE p < K
    BY <1>3, <1>4, <1>5, <2>3
  <2> QED  BY <1>1, <2>2, <2>3
<1>7. \A p, q \in 1 .. K : D[p] = D[q] => p = q
  <2>1. TAKE p \in 1 .. K, q \in 1 .. K
  <2>2. p < q => D[p] > D[q]
    BY <1>3, <1>4
  <2>3. q < p => D[q] > D[p]
    BY <1>3, <1>4
  <2>4. D[p] \in Nat /\ D[q] \in Nat
    BY <1>4, <1>5
  <2> QED  BY <2>2, <2>3, <2>4
<1>8. \A k \in KeysMet : k <= D[K] \/ \E p \in 1 .. K : D[p] = k
  <2>1. TAKE k \in KeysMet
  <2>2. CASE k <= thr
    BY <1>1, <1>2, <1>4, <1>5, <2>2
  <2>3. CASE k \in BufferKeys
    <3>1. PICK p \in 1 .. cnt : D[p] = k
      BY <1>3, <2>3
    <3>2. CASE p <= K
      BY <1>1, <3>1, <3>2
    <3>3. CASE K < p
      BY <1>3, <1>4, <1>5, <3>1, <3>3
    <3> QED  BY <1>1, <3>2, <3>3
  <2> QED  BY <1>2, <2>2, <2>3
<1> QED  BY <1>4, <1>5, <1>6, <1>7, <1>8 DEF Holds

(* After the last tile the warps have met every key.                       *)
PastTiles == \A w \in Warps : pc[w] = "last sort" /\ N <= Threads * tile[w]

LEMMA AllMet ==
  ASSUME StreamTypes, PastTiles
  PROVE  /\ \A c \in 0 .. N - 1 : Key(c) \in KeysMet
         /\ KeysMet = {Key(c) : c \in 0 .. N - 1}
<1>1. N \in Nat /\ RowGood
  BY RowFacts DEF StreamTypes, RowGood
<1>2. ASSUME NEW i \in 0 .. N - 1 PROVE i \in Met
  <2>1. i \in Nat
    BY <1>1
  <2>2. PICK k \in Nat, w \in Warps, l \in 0 .. Lanes - 1 :
          i = PlaceOf(k, w, l) /\ \E u \in Nat, o \in 0 .. Threads - 1 : u = Threads * k /\ i = u + o
    BY <2>1, PlacesInTiles
  <2>3. PICK u \in Nat, o \in 0 .. Threads - 1 : u = Threads * k /\ i = u + o
    BY <2>2
  <2>4. tile[w] \in Nat
    BY DEF StreamTypes
  <2>5. N <= Threads * tile[w] /\ pc[w] = "last sort"
    BY DEF PastTiles
  <2>6. k < tile[w]
    <3>1. SUFFICES ASSUME tile[w] <= k PROVE FALSE
      BY <2>4
    <3>2. PICK v \in Nat : v = Threads * tile[w] /\ v <= u
      <4>1. CASE tile[w] = k
        BY <2>3, <4>1
      <4>2. CASE tile[w] < k
        <5>1. Threads * tile[w] + Threads <= Threads * k /\ Threads * tile[w] \in Nat
          BY <2>4, <4>2, Sizes, Multiples
        <5> QED  BY <2>3, <5>1, Sizes
      <4> QED  BY <2>4, <3>1, <4>1, <4>2
    <3>3. N <= v
      BY <2>5, <3>2
    <3> QED  BY <1>1, <2>3, <3>2, <3>3, Sizes
  <2> QED  BY <2>2, <2>6 DEF Met, MetBy
<1>3. ASSUME NEW c \in 0 .. N - 1 PROVE Key(c) \in KeysMet
  <2>1. PICK i \in 0 .. N - 1 : KeyAt(i) = Key(c)
    BY <1>1, KeysRound
  <2> QED  BY <1>2, <2>1 DEF KeysMet
<1>4. \A k \in KeysMet : \E c \in 0 .. N - 1 : k = Key(c)
  BY <1>1, MetKeys
<1> QED  BY <1>3, <1>4

(* The keys of all rows, in order.                                         *)
LEMMA RankedLists ==
  ASSUME RowGood
  PROVE  Lists(Ranked, N, {Key(c) : c \in 0 .. N - 1})
<1> DEFINE s == [x \in 1 .. N |-> Key(x - 1)]
           A == {Key(c) : c \in 0 .. N - 1}
<1>1. N \in Nat /\ N \in 0 .. N
  BY RowFacts DEF RowGood
<1>2. \A x \in 1 .. N : x - 1 \in 0 .. N - 1
  BY <1>1
<1>3. /\ \A c \in 0 .. N - 1 : Key(c) \in Nat /\ Key(c) > 0
      /\ \A c, d \in 0 .. N - 1 : Key(c) = Key(d) => c = d
  BY KeysApart DEF RowGood
<1>4. s \in [1 .. N -> Nat] /\ \A x \in 1 .. N : s[x] = Key(x - 1)
  BY <1>2, <1>3
<1>5. \A x, y \in 1 .. N : s[x] = s[y] => x = y
  <2>1. TAKE x \in 1 .. N, y \in 1 .. N
  <2>2. HAVE s[x] = s[y]
  <2>3. x - 1 = y - 1
    BY <1>2, <1>3, <1>4, <2>2
  <2> QED  BY <2>3
<1>6. \A x \in 1 .. N : s[x] > 0 <=> x <= N
  BY <1>1, <1>2, <1>3, <1>4
<1>7. \A x \in 1 .. N : s[x] \in A
  BY <1>2, <1>4
<1>8. \A h \in A : \E x \in 1 .. N : s[x] = h
  <2>1. \A c \in 0 .. N - 1 : c + 1 \in 1 .. N /\ s[c + 1] = Key(c)
    <3>1. TAKE c \in 0 .. N - 1
    <3>2. c + 1 \in 1 .. N /\ (c + 1) - 1 = c
      BY <1>1
    <3> QED  BY <1>4, <3>2
  <2> QED  BY <2>1
<1> HIDE DEF s, A
<1>9. Lists(Descending(s), N, A)
  BY <1>1, <1>4, <1>5, <1>6, <1>7, <1>8, SortLists
<1> QED  BY <1>9 DEF Ranked, s, A

(* Nothing among the best K was left out of the buffer.                    *)
LEMMA BestFront ==
  ASSUME StreamTypes, Holds(KeysMet, buf, 0, cnt, thr), thr > 0 => cnt >= K,
         PastTiles, NEW D, Lists(D, cnt, BufferKeys)
  PROVE  \A p \in 1 .. K : D[p] = Ranked[p]
<1> DEFINE A == {Key(c) : c \in 0 .. N - 1}
<1>0. \A n \in Nat : IsFiniteSet(0 .. n - 1) /\ Cardinality(0 .. n - 1) = n
  <2>1. TAKE n \in Nat
  <2>2. 0 \in Int /\ n - 1 \in Int
    OBVIOUS
  <2>3. IsFiniteSet(0 .. n - 1) /\ Cardinality(0 .. n - 1) = IF 0 > n - 1 THEN 0 ELSE n - 1 - 0 + 1
    BY <2>2, FS_Interval
  <2> QED  BY <2>3
<1>1. RowGood /\ N \in Nat /\ K <= N /\ K \in Nat \ {0} /\ cnt \in Nat /\ thr \in Nat
  <2>1. RowGood /\ cnt \in Nat /\ thr \in Nat
    BY DEF StreamTypes, RowGood
  <2> QED  BY <2>1, RowFacts, Sizes DEF RowGood
<1>2. KeysMet = A
  BY AllMet
<1>3. \A k \in A : k \in Nat /\ k > 0
  BY <1>1, KeysApart DEF RowGood
<1>4. /\ \A k \in BufferKeys : thr <= k /\ k \in A
      /\ \A k \in A : k <= thr \/ k \in BufferKeys
  <2>1. 0 + cnt - 1 = cnt - 1
    BY <1>1
  <2>2. \A k \in BufferKeys : thr <= k /\ k \in KeysMet
    BY <2>1 DEF Holds, BufferKeys
  <2>3. \A k \in KeysMet : k <= thr \/ k \in BufferKeys
    BY <2>1 DEF Holds, BufferKeys
  <2> HIDE DEF A
  <2> QED  BY <1>2, <2>2, <2>3
<1>5. Lists(Ranked, N, A)
  BY <1>1, RankedLists
<1>6. K <= cnt
  <2>1. CASE thr > 0
    BY <1>1, <2>1
  <2>2. CASE thr = 0
    <3>1. A \subseteq BufferKeys
      <4> HIDE DEF A
      <4> QED  BY <1>3, <1>4, <2>2
    <3>2. IsFiniteSet(BufferKeys) /\ Cardinality(BufferKeys) <= cnt
      <4>1. IsFiniteSet(0 .. cnt - 1) /\ Cardinality(0 .. cnt - 1) = cnt
        BY <1>0, <1>1
      <4>2. [j \in 0 .. cnt - 1 |-> buf[j]] \in Surjection(0 .. cnt - 1, BufferKeys)
        BY DEF Surjection, BufferKeys
      <4> QED  BY <4>1, <4>2, FS_Surjection
    <3>3. Cardinality(A) <= cnt
      <4>1. IsFiniteSet(A) /\ Cardinality(A) <= Cardinality(BufferKeys)
        <5> HIDE DEF A
        <5> QED  BY <3>1, <3>2, FS_Subset
      <4>2. Cardinality(A) \in Nat /\ Cardinality(BufferKeys) \in Nat
        BY <3>2, <4>1, FS_CardinalityType
      <4> HIDE DEF A
      <4> QED  BY <1>1, <3>2, <4>1, <4>2
    <3>4. Cardinality(A) = N
      <4> DEFINE f == [c \in 0 .. N - 1 |-> Key(c)]
      <4>1. f \in Bijection(0 .. N - 1, A)
        <5>1. f \in [0 .. N - 1 -> A] /\ \A c \in 0 .. N - 1 : f[c] = Key(c)
          OBVIOUS
        <5>2. \A c, d \in 0 .. N - 1 : f[c] = f[d] => c = d
          BY <1>1, <5>1, KeysApart DEF RowGood
        <5>3. \A a \in A : \E c \in 0 .. N - 1 : f[c] = a
          BY <5>1
        <5> HIDE DEF f, A
        <5> QED  BY <5>1, <5>2, <5>3 DEF Bijection, Injection, Surjection, IsInjective
      <4>2. IsFiniteSet(0 .. N - 1) /\ Cardinality(0 .. N - 1) = N
        BY <1>0, <1>1
      <4> HIDE DEF f, A
      <4> QED  BY <4>1, <4>2, FS_Bijection DEF ExistsBijection
    <3> HIDE DEF A
    <3> QED  BY <1>1, <3>3, <3>4
  <2> QED  BY <1>1, <2>1, <2>2
<1> HIDE DEF A
<1>7. A \in SUBSET Nat /\ BufferKeys \in SUBSET Nat /\ BufferKeys \subseteq A
  BY <1>3, <1>4
<1>8. \A a \in A : a \in BufferKeys \/ \A h \in BufferKeys : a < h
  <2>1. SUFFICES ASSUME NEW a \in A, a \notin BufferKeys, NEW h \in BufferKeys PROVE a < h
    OBVIOUS
  <2>2. a <= thr /\ thr <= h /\ a # h /\ a \in Nat /\ h \in Nat
    BY <1>3, <1>4, <1>7, <2>1
  <2> QED  BY <1>1, <2>2
<1> QED  BY <1>1, <1>5, <1>6, <1>7, <1>8, SameFront

LEMMA NextTile == \A m, n \in Nat : m + 1 \in Nat /\ (m + 1 = n + 1 => m = n)
OBVIOUS

(* What a barrier leaves alone.                                            *)
LEMMA MeetingKeeps ==
  ASSUME StreamTypes, InStep, NEW at \in {"taken", "sort", "kept", "last sort"},
         NEW next \in {"test", "keep", "take", "write"}, MeetAt(at, next),
         (next = "test" <=> at = "taken") /\ (next = "keep" <=> at = "sort") /\ (next = "take" <=> at = "kept"),
         reg' \in [Warps -> {<<>>} \cup [1 .. PerWarp -> Nat]]
  PROVE  StreamTypes' /\ Phase' /\ InStep' /\ SortLoaded' /\ EndLoaded' /\ KeysMet' = KeysMet
<1>1. /\ \A w \in Warps : pc[w] = at /\ pc'[w] = next
      /\ pc' = [w \in Warps |-> next]
      /\ tile' = [w \in Warps |-> IF at = "kept" THEN tile[w] + 1 ELSE tile[w]]
      /\ UNCHANGED <<fixed, cnt, thr, buf, selected>>
  BY DEF MeetAt
<1>2. tile \in [Warps -> Nat] /\ \A w \in Warps : tile[w] \in Nat
  BY DEF StreamTypes
<1>3. \A w \in Warps : tile'[w] = IF at = "kept" THEN tile[w] + 1 ELSE tile[w]
  BY <1>1
<1>4. StreamTypes'
  <2>1. row' \in ScoreRows /\ first' \in 0 .. N' - 1
    BY <1>1 DEF fixed, N, StreamTypes
  <2>2. pc' \in [Warps -> {"take", "taken", "test", "sort", "keep", "kept", "end", "last sort", "write", "done"}]
    BY <1>1
  <2>3. tile' \in [Warps -> Nat]
    <3>1. \A w \in Warps : (IF at = "kept" THEN tile[w] + 1 ELSE tile[w]) \in Nat
      <4>1. \A w \in Warps : tile[w] + 1 \in Nat
        BY <1>2, NextTile
      <4> QED  BY <1>2, <4>1
    <3> QED  BY <1>1, <3>1
  <2>4. cnt' \in Nat /\ thr' \in Nat /\ buf' \in [0 .. Cap - 1 -> Nat] /\ selected' \in [1 .. K -> Int]
    BY <1>1 DEF StreamTypes
  <2> QED  BY <2>1, <2>2, <2>3, <2>4 DEF StreamTypes
<1>5. Phase'
  BY <1>1 DEF Phase, Loop
<1>6. InStep'
  <2>1. ASSUME NEW v \in Warps, NEW w \in Warps PROVE tile[v] = tile[w]
    <3>1. Turn(v) = Turn(w) /\ pc[v] = at /\ pc[w] = at
      BY <1>1 DEF InStep
    <3>2. tile[v] \in Nat /\ tile[w] \in Nat
      BY <1>2
    <3>3. CASE at \in {"sort", "kept"}
      <4>1. Turn(v) = tile[v] + 1 /\ Turn(w) = tile[w] + 1
        BY <3>1, <3>3 DEF Turn
      <4>2. tile[v] + 1 = tile[w] + 1
        BY <3>1, <4>1
      <4> QED  BY <3>2, <4>2, NextTile
    <3>4. CASE at \in {"taken", "last sort"}
      BY <3>1, <3>4 DEF Turn
    <3> QED  BY <3>3, <3>4
  <2>2. \A v, w \in Warps : tile'[v] = tile'[w] /\ pc'[v] = pc'[w]
    BY <1>1, <1>3, <2>1
  <2>3. \A v, w \in Warps : Turn(v)' = Turn(w)'
    BY <2>2 DEF Turn
  <2> QED  BY <2>3 DEF InStep
<1>7. SortLoaded' /\ EndLoaded'
  BY <1>1 DEF SortLoaded, EndLoaded
<1>8. KeysMet' = KeysMet
  <2>1. ASSUME NEW w \in Warps PROVE Idle(w)
    BY <1>1, <1>3 DEF Idle
  <2> QED  BY <1>1, <1>2, <2>1, IdleMeets DEF StreamTypes, RowGood
<1> QED  BY <1>4, <1>5, <1>6, <1>7, <1>8

LEMMA TestBarrier ==
  ASSUME StreamGood, MeetAt("taken", "test"), reg' = reg
  PROVE  StreamGood'
<1>1. StreamTypes /\ InStep /\ Room /\ BufferHolds
  BY DEF StreamGood
<1>2. (\A w \in Warps : pc[w] = "taken" /\ pc'[w] = "test") /\ UNCHANGED <<fixed, cnt, thr, buf, selected>>
  BY DEF MeetAt
<1>3. 1 \in Warps
  BY FirstWarp
<1>4. StreamTypes' /\ Phase' /\ InStep' /\ SortLoaded' /\ EndLoaded' /\ KeysMet' = KeysMet
  <2>1. reg' \in [Warps -> {<<>>} \cup [1 .. PerWarp -> Nat]]
    BY <1>1 DEF StreamTypes
  <2> QED  BY <1>1, <2>1, MeetingKeeps
<1>5. BufferHolds'
  <2>1. Holds(KeysMet, buf, 0, cnt, thr) /\ (thr > 0 => cnt >= K)
    BY <1>1, <1>2 DEF BufferHolds, InLoop, Loop
  <2> QED  BY <1>2, <1>4, <2>1 DEF BufferHolds, Holds
<1>6. Room' /\ KeepInv' /\ WriteInv'
  BY <1>1, <1>2, <1>3 DEF Room, KeepInv, WriteInv
<1> QED  BY <1>4, <1>5, <1>6 DEF StreamGood

LEMMA SortBarrier ==
  ASSUME StreamGood, MeetAt("sort", "keep"), Sorted
  PROVE  StreamGood'
<1> DEFINE D == Descending(Whole(reg))
<1>1. StreamTypes /\ InStep /\ Room /\ BufferHolds /\ SortLoaded /\ RowGood
  BY DEF StreamGood, StreamTypes, RowGood
<1>2. (\A w \in Warps : pc[w] = "sort" /\ pc'[w] = "keep") /\ UNCHANGED <<fixed, cnt, thr, buf, selected>>
  BY DEF MeetAt
<1>3. 1 \in Warps
  BY FirstWarp
<1>4. Holds(KeysMet, buf, 0, cnt, thr)
  BY <1>1, <1>2 DEF BufferHolds, InLoop, Loop
<1>5. \A w \in Warps : reg[w] = PartOf(w, Loaded) /\ Crowded(cnt)
  BY <1>1, <1>2 DEF SortLoaded
<1>6. cnt <= Cap
  BY <1>1 DEF Room
<1>7. /\ Lists(D, cnt, BufferKeys) /\ RegsTyped' /\ Whole(reg)' = D
      /\ reg' \in [Warps -> {<<>>} \cup [1 .. PerWarp -> Nat]]
  BY <1>1, <1>4, <1>5, <1>6, SortsBuffer
<1>8. StreamTypes' /\ Phase' /\ InStep' /\ SortLoaded' /\ EndLoaded' /\ KeysMet' = KeysMet
  BY <1>1, <1>7, MeetingKeeps
<1>9. K <= cnt
  <2>1. Crowded(cnt) /\ cnt \in Nat
    BY <1>1, <1>3, <1>5 DEF StreamTypes
  <2>2. K \in Nat /\ Cap \in Nat /\ Threads \in Nat /\ K <= Cap - Threads
    BY Sizes
  <2> QED  BY <2>1, <2>2 DEF Crowded
<1> HIDE DEF D
<1>10. Holds(KeysMet, D, 1, K, D[K])
  BY <1>1, <1>4, <1>7, <1>9, FrontHolds
<1>11. KeepInv'
  BY <1>2, <1>7, <1>8, <1>10 DEF KeepInv, Holds
<1>12. Room' /\ BufferHolds' /\ WriteInv'
  BY <1>1, <1>2, <1>3 DEF Room, BufferHolds, InLoop, Loop, WriteInv
<1> QED  BY <1>8, <1>11, <1>12 DEF StreamGood

LEMMA KeptBarrier ==
  ASSUME StreamGood, MeetAt("kept", "take"), reg' = reg
  PROVE  StreamGood'
<1>1. StreamTypes /\ InStep /\ KeepInv
  BY DEF StreamGood
<1>2. (\A w \in Warps : pc[w] = "kept" /\ pc'[w] = "take") /\ UNCHANGED <<fixed, cnt, thr, buf, selected>>
  BY DEF MeetAt
<1>3. 1 \in Warps
  BY FirstWarp
<1>4. K \in Nat \ {0} /\ Cap \in Nat /\ Threads \in Nat /\ K <= Cap - Threads
  BY Sizes
<1>5. StreamTypes' /\ Phase' /\ InStep' /\ SortLoaded' /\ EndLoaded' /\ KeysMet' = KeysMet
  <2>1. reg' \in [Warps -> {<<>>} \cup [1 .. PerWarp -> Nat]]
    BY <1>1 DEF StreamTypes
  <2> QED  BY <1>1, <2>1, MeetingKeeps
<1>6. /\ RegsTyped /\ Holds(KeysMet, Whole(reg), 1, K, Whole(reg)[K]) /\ cnt = K
      /\ \A w \in Warps : /\ \A x \in Kept(w) : buf[PerWarp * (w - 1) + x - 1] = reg[w][x]
                          /\ K - PerWarp * (w - 1) \in Kept(w) => thr = Whole(reg)[K]
  BY <1>1, <1>2, <1>3 DEF KeepInv
<1>7. ASSUME NEW y \in 1 .. K PROVE buf[y - 1] = Whole(reg)[y] /\ (y = K => thr = Whole(reg)[K])
  <2>1. PICK w \in Warps : \E x \in Kept(w) : y = PerWarp * (w - 1) + x
    BY Pieces
  <2>2. PICK x \in Kept(w) : y = PerWarp * (w - 1) + x
    BY <2>1
  <2>3. x \in Int
    BY DEF Kept
  <2>4. PICK p \in Nat : p = PerWarp * (w - 1)
    BY Pieces
  <2>5. y = p + x
    BY <2>2, <2>4
  <2>6. p + x - 1 = y - 1 /\ y - p = x
    BY <2>3, <2>4, <2>5
  <2>7. Whole(reg)[y] = reg[w][x]
    BY <1>1, <1>6, <2>2, PiecesTyped
  <2>8. buf[p + x - 1] = reg[w][x] /\ (K - p \in Kept(w) => thr = Whole(reg)[K])
    BY <1>6, <2>4
  <2> QED  BY <2>6, <2>7, <2>8
<1>8. Holds(KeysMet, buf, 0, K, thr)
  <2>1. \A i \in 0 .. K - 1 : buf[0 + i] = Whole(reg)[1 + i]
    <3>1. TAKE i \in 0 .. K - 1
    <3>2. i + 1 \in 1 .. K /\ (i + 1) - 1 = 0 + i /\ i + 1 = 1 + i
      BY <1>4
    <3>3. buf[(i + 1) - 1] = Whole(reg)[i + 1]
      BY <1>7, <3>2
    <3> QED  BY <3>2, <3>3
  <2>2. thr = Whole(reg)[K]
    BY <1>4, <1>7
  <2>3. Holds(KeysMet, Whole(reg), 1, K, thr)
    BY <1>6, <2>2
  <2>4. K \in Nat /\ 0 \in Int /\ 1 \in Int
    BY <1>4
  <2> QED  BY <2>1, <2>3, <2>4, HoldsMoved
<1>9. BufferHolds'
  <2>1. KeysMet' = KeysMet /\ buf' = buf /\ thr' = thr /\ cnt' = K
    BY <1>2, <1>5, <1>6
  <2>2. Holds(KeysMet, buf, 0, cnt, thr)' /\ cnt' >= K
    BY <1>4, <1>8, <2>1 DEF Holds
  <2> QED  BY <2>2 DEF BufferHolds
<1>10. Room'
  <2>1. Taken' = {}
    BY <1>2 DEF Taken
  <2>2. Cardinality(Taken') = 0
    BY <2>1, FS_EmptySet
  <2>3. Lanes * 0 = 0
    BY Sizes
  <2>4. Lanes * Cardinality(Taken') = 0
    BY <2>2, <2>3
  <2>5. cnt' = K
    BY <1>2, <1>6
  <2>6. cnt' <= Cap /\ cnt' <= Cap - Threads + 0
    BY <1>4, <2>5
  <2> QED  BY <2>4, <2>6 DEF Room
<1>11. KeepInv' /\ WriteInv'
  BY <1>2, <1>3 DEF KeepInv, WriteInv
<1> QED  BY <1>5, <1>9, <1>10, <1>11 DEF StreamGood

LEMMA LastBarrier ==
  ASSUME StreamGood, MeetAt("last sort", "write"), Sorted
  PROVE  StreamGood'
<1> DEFINE D == Descending(Whole(reg))
<1>1. StreamTypes /\ InStep /\ Room /\ BufferHolds /\ EndLoaded /\ RowGood
  BY DEF StreamGood, StreamTypes, RowGood
<1>2. (\A w \in Warps : pc[w] = "last sort" /\ pc'[w] = "write") /\ UNCHANGED <<fixed, cnt, thr, buf, selected>>
  BY DEF MeetAt
<1>3. 1 \in Warps
  BY FirstWarp
<1>4. Holds(KeysMet, buf, 0, cnt, thr) /\ (thr > 0 => cnt >= K)
  BY <1>1, <1>2 DEF BufferHolds, InLoop, Loop
<1>5. PastTiles /\ \A w \in Warps : reg[w] = PartOf(w, Loaded)
  BY <1>1, <1>2 DEF EndLoaded, PastTiles
<1>6. cnt <= Cap
  BY <1>1 DEF Room
<1>7. /\ Lists(D, cnt, BufferKeys) /\ RegsTyped' /\ Whole(reg)' = D
      /\ reg' \in [Warps -> {<<>>} \cup [1 .. PerWarp -> Nat]]
  BY <1>1, <1>4, <1>5, <1>6, SortsBuffer
<1>8. StreamTypes' /\ Phase' /\ InStep' /\ SortLoaded' /\ EndLoaded'
  BY <1>1, <1>7, MeetingKeeps
<1> HIDE DEF D
<1>9. \A p \in 1 .. K : D[p] = Ranked[p]
  BY <1>1, <1>4, <1>5, <1>7, BestFront
<1>10. Ranked' = Ranked
  BY <1>2, SameKeys
<1>11. WriteInv'
  BY <1>2, <1>3, <1>7, <1>9, <1>10 DEF WriteInv
<1>12. Room' /\ BufferHolds' /\ KeepInv'
  BY <1>1, <1>2, <1>3 DEF Room, BufferHolds, InLoop, Loop, KeepInv
<1> QED  BY <1>8, <1>11, <1>12 DEF StreamGood

LEMMA BarrierKeeps ==
  ASSUME StreamGood, Barrier, split' = FALSE
  PROVE  StreamGood'
<1>1. StreamTypes
  BY DEF StreamGood
<1> QED  BY <1>1, Meeting, TestBarrier, SortBarrier, KeptBarrier, LastBarrier

-----------------------------------------------------------------------------
(* The theorems *)

LEMMA StreamStarts == StreamInit => StreamInv
<1> SUFFICES ASSUME StreamInit PROVE StreamInv
  OBVIOUS
<1>1. row \in ScoreRows /\ split = FALSE /\ cnt = 0 /\ thr = 0
      /\ \A w \in Warps : pc[w] = "take" /\ tile[w] = 0
  BY DEF StreamInit
<1>2. Cap \in Nat /\ 1 \in Warps /\ K \in Nat
  BY Sizes DEF Warps
<1>3. StreamTypes
  BY <1>1 DEF StreamInit, StreamTypes, N
<1>4. Phase /\ InStep
  BY <1>1 DEF Phase, Loop, InStep, Turn
<1>5. BufferHolds
  <2>1. KeysMet = {}
    <3>1. \A w \in Warps, k \in Nat : ~(k < tile[w] \/ (k = tile[w] /\ pc[w] # "take"))
      BY <1>1
    <3> QED  BY <3>1 DEF KeysMet, Met, MetBy
  <2>2. 0 .. 0 + 0 - 1 = {}
    OBVIOUS
  <2>3. Holds(KeysMet, buf, 0, cnt, thr)
    BY <1>1, <2>1, <2>2 DEF Holds
  <2> QED  BY <1>1, <2>3 DEF BufferHolds
<1>6. Room
  <2>1. Taken = {}
    BY <1>1 DEF Taken
  <2>2. Cardinality(Taken) = 0 /\ Lanes * 0 = 0
    BY <2>1, FS_EmptySet, Sizes
  <2>3. 0 <= Cap - Threads + 0 /\ 0 <= Cap
    BY Sizes
  <2> QED  BY <1>1, <2>2, <2>3 DEF Room
<1>7. SortLoaded /\ EndLoaded /\ KeepInv /\ WriteInv
  BY <1>1, <1>2 DEF SortLoaded, EndLoaded, KeepInv, WriteInv
<1> QED  BY <1>1, <1>3, <1>4, <1>5, <1>6, <1>7 DEF StreamInv, StreamGood

LEMMA StreamStill ==
  ASSUME StreamGood, UNCHANGED streamVars
  PROVE  StreamGood'
<1>1. UNCHANGED <<row, first, pc, tile, reg, cnt, thr, buf, selected, split>>
  BY DEF streamVars
<1>2. N' = N /\ (\A i : KeyAt(i)' = KeyAt(i)) /\ Ranked' = Ranked /\ Loaded' = Loaded
      /\ Whole(reg)' = Whole(reg) /\ (\A k : RowOfKey(k)' = RowOfKey(k)) /\ UNCHANGED fixed
  BY <1>1 DEF N, KeyAt, Key, Ranked, Loaded, Whole, RowOfKey, fixed
<1>3. KeysMet' = KeysMet
  <2>1. \A w \in Warps : Idle(w)
    BY <1>1 DEF Idle
  <2> QED  BY <1>2, <2>1, IdleMeets DEF StreamGood, StreamTypes, RowGood
<1>4. StreamTypes' /\ Phase' /\ InStep'
  BY <1>1, <1>2 DEF StreamGood, StreamTypes, Phase, InStep, Turn
<1>5. BufferHolds' /\ KeepInv'
  BY <1>1, <1>2, <1>3 DEF StreamGood, BufferHolds, InLoop, Holds, KeepInv, RegsTyped, Kept
<1>6. Room' /\ SortLoaded' /\ EndLoaded'
  BY <1>1, <1>2 DEF StreamGood, Room, Taken, SortLoaded, EndLoaded, PartOf, Crowded
<1>7. WriteInv'
  BY <1>1, <1>2 DEF StreamGood, WriteInv, RegsTyped, Kept
<1> QED  BY <1>4, <1>5, <1>6, <1>7 DEF StreamGood

(* The inductive invariant holds in every state: it says nothing of a      *)
(* block whose warps have met at different barriers.                       *)
THEOREM StreamInvariant == StreamSpec => []StreamInv
<1>1. StreamInit => StreamInv
  BY StreamStarts
<1>2. StreamInv /\ [StreamNext]_streamVars => StreamInv'
  <2> SUFFICES ASSUME StreamInv, [StreamNext]_streamVars PROVE StreamInv'
    OBVIOUS
  <2>1. row' \in ScoreRows /\ split' \in BOOLEAN /\ (split => split')
    BY DEF StreamInv, StreamNext, StreamStep, Take, LeaveLoop, Test, Keep, End, Write, Barrier,
           fixed, streamVars
  <2>2. ASSUME split' = FALSE PROVE StreamGood'
    <3>1. StreamGood
      BY <2>1, <2>2 DEF StreamInv
    <3>2. CASE \E w \in Warps : StreamStep(w)
      BY <3>1, <3>2, TakeKeeps, LeaveKeeps, TestKeeps, KeepKeeps, EndKeeps, WriteKeeps DEF StreamStep
    <3>3. CASE Barrier
      BY <2>2, <3>1, <3>3, BarrierKeeps
    <3>4. CASE UNCHANGED streamVars
      BY <3>1, <3>4, StreamStill
    <3> QED  BY <3>2, <3>3, <3>4 DEF StreamNext
  <2> QED  BY <2>1, <2>2 DEF StreamInv
<1> QED  BY <1>1, <1>2, PTL DEF StreamSpec

(* "Exact streaming top-512" (indexer.cu): the rows the block writes are   *)
(* the best K of the row, in order, and the buffer never overflows, for    *)
(* every row, width and number of warps, as long as the warps meet at the  *)
(* same barriers.                                                          *)
THEOREM StreamedExact == StreamSpec => []ExactTogether
<1>1. StreamInv => ExactTogether
  <2> SUFFICES ASSUME StreamInv, split = FALSE PROVE Exact /\ cnt <= Cap
    BY DEF StreamInv, ExactTogether
  <2>1. StreamGood
    BY DEF StreamInv
  <2>2. cnt <= Cap
    BY <2>1 DEF StreamGood, Room
  <2>3. ASSUME Finished PROVE selected = Best
    <3>1. RegsTyped /\ (\A p \in 1 .. K : Whole(reg)[p] = Ranked[p])
          /\ \A w \in Warps : \A x \in Kept(w) : selected[PerWarp * (w - 1) + x] = RowOfKey(reg[w][x])
      BY <2>1, <2>3 DEF StreamGood, Finished, WriteInv
    <3>2. \A p \in 1 .. K : selected[p] = RowOfKey(Ranked[p])
      <4>1. TAKE p \in 1 .. K
      <4>2. PICK w \in Warps : \E x \in Kept(w) : p = PerWarp * (w - 1) + x
        BY Pieces
      <4>3. PICK x \in Kept(w) : p = PerWarp * (w - 1) + x
        BY <4>2
      <4>4. selected[p] = RowOfKey(reg[w][x]) /\ Whole(reg)[p] = reg[w][x]
        BY <2>1, <3>1, <4>3, PiecesTyped DEF StreamGood
      <4> QED  BY <3>1, <4>4
    <3>3. selected \in [1 .. K -> Int]
      BY <2>1 DEF StreamGood, StreamTypes
    <3>4. Best = [p \in 1 .. K |-> RowOfKey(Ranked[p])]
      BY DEF Best, Ranked
    <3> QED  BY <3>2, <3>3, <3>4
  <2> QED  BY <2>2, <2>3 DEF Exact
<1> QED  BY <1>1, StreamInvariant, PTL

-----------------------------------------------------------------------------
(* Sums before an element of a list *)

SumUpto(s, f, n) == s = [e \in 0 .. n |-> IF e = 0 THEN 0 ELSE s[e - 1] + f[e - 1]]
IsSum(s, f, n) == n \in Nat /\ f \in [0 .. n - 1 -> Nat] /\ SumUpto(s, f, n)

LEMMA SumExists ==
  ASSUME NEW n \in Nat, NEW f \in [0 .. n - 1 -> Nat]
  PROVE  \E s : IsSum(s, f, n)
<1> DEFINE Bad == {m \in Nat : m <= n /\ ~\E s \in [0 .. m -> Nat] : SumUpto(s, f, m)}
<1>1. Bad = {}
  <2> SUFFICES ASSUME Bad # {} PROVE FALSE
    OBVIOUS
  <2>1. PICK m \in Bad : \A k \in Bad : m <= k
    <3>1. Bad \in SUBSET Nat
      OBVIOUS
    <3> HIDE DEF Bad
    <3> QED  BY <3>1, LeastExists
  <2>2. m \in Nat /\ m <= n /\ ~\E s \in [0 .. m -> Nat] : SumUpto(s, f, m)
    OBVIOUS
  <2>3. m # 0
    <3>1. [e \in 0 .. 0 |-> 0] \in [0 .. 0 -> Nat] /\ SumUpto([e \in 0 .. 0 |-> 0], f, 0)
      BY DEF SumUpto
    <3> QED  BY <2>2, <3>1
  <2>4. m - 1 \in Nat /\ m - 1 <= n /\ ~(m <= m - 1)
    BY <2>2, <2>3
  <2>5. PICK s \in [0 .. m - 1 -> Nat] : SumUpto(s, f, m - 1)
    <3>1. m - 1 \notin Bad
      <4> HIDE DEF Bad
      <4> QED  BY <2>1, <2>4
    <3> QED  BY <2>4, <3>1
  <2> DEFINE t == [e \in 0 .. m |-> IF e = 0 THEN 0 ELSE s[e - 1] + f[e - 1]]
  <2>6. \A e \in 0 .. m : e # 0 => e - 1 \in 0 .. m - 1 /\ e - 1 \in 0 .. n - 1
    BY <2>2
  <2>7. t \in [0 .. m -> Nat]
    BY <2>6
  <2>8. \A e \in 0 .. m - 1 : e \in 0 .. m /\ s[e] = t[e]
    BY <2>2, <2>5 DEF SumUpto
  <2>9. SumUpto(t, f, m)
    BY <2>6, <2>8 DEF SumUpto
  <2> QED  BY <2>2, <2>7, <2>9
<1>2. n \notin Bad
  BY <1>1
<1> QED  BY <1>2 DEF IsSum

LEMMA SumFacts ==
  ASSUME NEW n, NEW f, NEW s, IsSum(s, f, n)
  PROVE  /\ n \in Nat /\ f \in [0 .. n - 1 -> Nat]
         /\ s \in [0 .. n -> Nat] /\ s[0] = 0
         /\ \A e \in 0 .. n - 1 : s[e + 1] = s[e] + f[e]
<1>0. n \in Nat /\ f \in [0 .. n - 1 -> Nat]
  BY DEF IsSum
<1>1. /\ s[0] = 0
      /\ \A e \in 0 .. n - 1 : e + 1 \in 0 .. n /\ e \in 0 .. n /\ s[e + 1] = s[e] + f[e]
  BY <1>0 DEF IsSum, SumUpto
<1> DEFINE Bad == {m \in 0 .. n : s[m] \notin Nat}
<1>2. Bad = {}
  <2> SUFFICES ASSUME Bad # {} PROVE FALSE
    OBVIOUS
  <2>1. PICK m \in Bad : \A k \in Bad : m <= k
    <3>1. Bad \in SUBSET Nat
      BY <1>0
    <3> HIDE DEF Bad
    <3> QED  BY <3>1, LeastExists
  <2>2. m \in 0 .. n /\ m # 0 /\ m - 1 \in 0 .. n - 1 /\ ~(m <= m - 1)
    BY <1>0, <1>1
  <2>3. m - 1 \notin Bad
    <3> HIDE DEF Bad
    <3> QED  BY <2>1, <2>2
  <2>4. s[m - 1] \in Nat /\ f[m - 1] \in Nat /\ (m - 1) + 1 = m
    BY <1>0, <2>2, <2>3
  <2> QED  BY <1>1, <2>2, <2>4
<1>3. s \in [0 .. n -> Nat]
  <2>1. s = [e \in 0 .. n |-> s[e]]
    BY DEF IsSum, SumUpto
  <2> QED  BY <1>2, <2>1
<1> QED  BY <1>0, <1>1, <1>3

(* The elements have places in their order, one after the other, and       *)
(* together all that there are.                                            *)
LEMMA SharesApart ==
  ASSUME NEW n, NEW f, NEW s, IsSum(s, f, n),
         NEW d \in 0 .. n, NEW e \in 0 .. d - 1
  PROVE  e \in 0 .. n - 1 /\ s[e] + f[e] <= s[d]
<1> DEFINE Bad == {m \in 0 .. n : e < m /\ ~(s[e] + f[e] <= s[m])}
<1>0. n \in Nat /\ f \in [0 .. n - 1 -> Nat] /\ s \in [0 .. n -> Nat] /\ \A c \in 0 .. n - 1 : s[c + 1] = s[c] + f[c]
  BY SumFacts
<1>1. e \in 0 .. n - 1 /\ e \in 0 .. n
  BY <1>0
<1>2. Bad = {}
  <2> SUFFICES ASSUME Bad # {} PROVE FALSE
    OBVIOUS
  <2>1. PICK m \in Bad : \A k \in Bad : m <= k
    <3>1. Bad \in SUBSET Nat
      BY <1>0
    <3> HIDE DEF Bad
    <3> QED  BY <3>1, LeastExists
  <2>2. m \in 0 .. n /\ m - 1 \in 0 .. n /\ m - 1 \in 0 .. n - 1 /\ ~(m <= m - 1) /\ (m - 1) + 1 = m /\ e < m
    BY <1>0, <1>1
  <2>3. m - 1 \notin Bad
    <3> HIDE DEF Bad
    <3> QED  BY <2>1, <2>2
  <2>4. s[m] = s[m - 1] + f[m - 1] /\ s[m - 1] \in Nat /\ f[m - 1] \in Nat /\ s[e] \in Nat /\ f[e] \in Nat
    BY <1>0, <1>1, <2>2
  <2>5. m - 1 = e \/ s[e] + f[e] <= s[m - 1]
    BY <1>1, <2>2, <2>3
  <2>6. s[e] + f[e] <= s[m]
    <3>1. CASE m - 1 = e
      <4>1. s[m] = s[e] + f[e]
        BY <2>4, <3>1
      <4> QED  BY <4>1, <2>4
    <3>2. CASE s[e] + f[e] <= s[m - 1]
      BY <2>4, <3>2
    <3> QED  BY <2>5, <3>1, <3>2
  <2> QED  BY <2>6
<1> QED  BY <1>1, <1>2

LEMMA PlacesTaken ==
  ASSUME NEW n, NEW f, NEW s, IsSum(s, f, n),
         NEW i \in Nat, i < s[n]
  PROVE  \E e \in 0 .. n - 1 : s[e] <= i /\ i < s[e + 1] /\ s[e + 1] = s[e] + f[e]
<1> DEFINE Above == {m \in 0 .. n : i < s[m]}
<1>0. /\ n \in Nat /\ f \in [0 .. n - 1 -> Nat] /\ s \in [0 .. n -> Nat] /\ s[0] = 0
      /\ \A e \in 0 .. n - 1 : s[e + 1] = s[e] + f[e]
  BY SumFacts
<1>1. PICK m \in Above : \A k \in Above : m <= k
  <2>1. Above \in SUBSET Nat /\ n \in Above
    BY <1>0
  <2> HIDE DEF Above
  <2> QED  BY <2>1, LeastExists
<1>2. m \in 0 .. n /\ i < s[m] /\ m # 0
  BY <1>0
<1>3. m - 1 \in 0 .. n /\ m - 1 \in 0 .. n - 1 /\ ~(m <= m - 1) /\ (m - 1) + 1 = m
  BY <1>0, <1>2
<1>4. m - 1 \notin Above
  <2> HIDE DEF Above
  <2> QED  BY <1>1, <1>3
<1>5. s[m - 1] \in Nat /\ ~(i < s[m - 1])
  BY <1>0, <1>3, <1>4
<1>6. s[(m - 1) + 1] = s[m - 1] + f[m - 1] /\ s[(m - 1) + 1] = s[m]
  BY <1>0, <1>3
<1>7. s[m - 1] <= i /\ i < s[(m - 1) + 1]
  BY <1>2, <1>5, <1>6
<1> HIDE DEF Above
<1> QED  BY <1>3, <1>6, <1>7

(* Each place has one owner.                                               *)
LEMMA Owned ==
  ASSUME NEW n, NEW f, NEW s, IsSum(s, f, n), NEW i \in 1 .. s[n]
  PROVE  \E e \in 0 .. n - 1 :
           /\ s[e] < i /\ i <= s[e + 1] /\ i <= s[e] + f[e]
           /\ \A d \in 0 .. n - 1 : s[d] < i /\ i <= s[d] + f[d] => d = e
<1>0. /\ n \in Nat /\ f \in [0 .. n - 1 -> Nat] /\ s \in [0 .. n -> Nat]
      /\ \A e \in 0 .. n - 1 : s[e + 1] = s[e] + f[e] /\ s[e] \in Nat /\ f[e] \in Nat
  <2>1. /\ n \in Nat /\ f \in [0 .. n - 1 -> Nat] /\ s \in [0 .. n -> Nat]
        /\ \A e \in 0 .. n - 1 : s[e + 1] = s[e] + f[e]
    BY SumFacts
  <2> QED  BY <2>1
<1>1. i - 1 \in Nat /\ i - 1 < s[n]
  <2>1. n \in 0 .. n /\ s[n] \in Nat
    BY <1>0
  <2> QED  BY <2>1
<1>2. PICK e \in 0 .. n - 1 : s[e] <= i - 1 /\ i - 1 < s[e + 1] /\ s[e + 1] = s[e] + f[e]
  BY <1>1, PlacesTaken
<1>3. s[e] \in Nat /\ f[e] \in Nat /\ s[e] < i /\ i <= s[e + 1] /\ i <= s[e] + f[e] /\ s[e + 1] = s[e] + f[e]
  <2>1. s[e] \in Nat /\ f[e] \in Nat /\ i \in Int
    BY <1>0
  <2>2. s[e] <= i - 1 /\ i - 1 < s[e + 1] /\ s[e + 1] = s[e] + f[e]
    BY <1>2
  <2> QED  BY <2>1, <2>2
<1>4. ASSUME NEW d \in 0 .. n - 1, s[d] < i, i <= s[d] + f[d] PROVE d = e
  <2>0. s[d] \in Nat /\ f[d] \in Nat
    BY <1>0
  <2>1. ~(d < e)
    <3>1. SUFFICES ASSUME d < e PROVE FALSE
      OBVIOUS
    <3>2. e \in 0 .. n /\ d \in 0 .. e - 1
      BY <1>0, <3>1
    <3>3. s[d] + f[d] <= s[e]
      BY <3>2, SharesApart
    <3> QED  BY <1>3, <1>4, <2>0, <3>3
  <2>2. ~(e < d)
    <3>1. SUFFICES ASSUME e < d PROVE FALSE
      OBVIOUS
    <3>2. d \in 0 .. n /\ e \in 0 .. d - 1
      BY <1>0, <3>1
    <3>3. s[e] + f[e] <= s[d]
      BY <3>2, SharesApart
    <3> QED  BY <1>3, <1>4, <2>0, <3>3
  <2> QED  BY <2>1, <2>2
<1> QED  BY <1>3, <1>4

(* The sums that are taken of a call's experts.                            *)
LEMMA SumTaken ==
  ASSUME call.experts \in Nat, NEW f \in [ExpertIds -> Nat]
  PROVE  IsSum(SumBefore(f), f, call.experts)
<1> DEFINE n == call.experts
<1>1. f \in [0 .. n - 1 -> Nat]
  BY DEF ExpertIds
<1>2. SumBefore(f) = CHOOSE s : SumUpto(s, f, n)
  BY DEF SumBefore, SumUpto
<1>3. \E s : SumUpto(s, f, n)
  BY <1>1, SumExists DEF IsSum
<1>4. SumUpto(SumBefore(f), f, n)
  BY <1>2, <1>3
<1> QED  BY <1>1, <1>4 DEF IsSum

-----------------------------------------------------------------------------
(* A call and its pairs                                                    *)

LEMMA CallFacts ==
  ASSUME MoeAssumption, call \in Calls
  PROVE  /\ call.experts \in Nat /\ call.experts > 0 /\ Count \in Nat /\ Count > 0
         /\ Pairs = 0 .. Count - 1 /\ IsFiniteSet(Pairs) /\ Cardinality(Pairs) = Count
         /\ call.selected \in [Pairs -> ExpertIds] /\ call.tokens \in Nat
<1>1. /\ call.tokens \in Nat \ {0} /\ call.slots \in Nat \ {0} /\ call.experts \in Nat \ {0}
      /\ call.selected \in [0 .. call.tokens * call.slots - 1 -> 0 .. call.experts - 1]
  BY DEF MoeAssumption
<1>2. \A a, b \in Nat \ {0} : a * b \in Nat /\ a * b > 0
  OBVIOUS
<1>3. Count \in Nat /\ Count > 0
  BY <1>1, <1>2 DEF Count
<1>4. Pairs = 0 .. Count - 1
  BY DEF Pairs, PairsOf, Count
<1>5. IsFiniteSet(Pairs) /\ Cardinality(Pairs) = Count
  BY <1>3, <1>4, FS_Interval
<1> QED  BY <1>1, <1>3, <1>4, <1>5 DEF Pairs, PairsOf, ExpertIds

OfExpert(e) == {p \in Pairs : call.selected[p] = e}
Counted == counts = [e \in ExpertIds |-> Cardinality(OfExpert(e))]

LEMMA CountsTyped ==
  ASSUME MoeAssumption, call \in Calls, Counted
  PROVE  /\ counts \in [ExpertIds -> Nat] /\ IsSum(SumBefore(counts), counts, call.experts)
         /\ counts \in [0 .. call.experts - 1 -> Nat] /\ call.experts \in Nat
<1>1. \A e \in ExpertIds : Cardinality(OfExpert(e)) \in Nat
  BY CallFacts, FS_Subset, FS_CardinalityType DEF OfExpert
<1>2. counts \in [ExpertIds -> Nat]
  BY <1>1 DEF Counted
<1> QED  BY <1>2, CallFacts, SumTaken DEF ExpertIds

LEMMA Disjoint ==
  ASSUME NEW S, IsFiniteSet(S), NEW T, IsFiniteSet(T), S \cap T = {}
  PROVE  Cardinality(S \cup T) = Cardinality(S) + Cardinality(T)
<1>1. Cardinality(S \cup T) = Cardinality(S) + Cardinality(T) - Cardinality(S \cap T)
  BY FS_Union
<1>2. Cardinality(S \cap T) = 0 /\ Cardinality(S) \in Nat /\ Cardinality(T) \in Nat
  BY FS_EmptySet, FS_CardinalityType
<1> QED  BY <1>1, <1>2

(* The counts add up to the pairs.                                         *)
LEMMA CountsSum ==
  ASSUME MoeAssumption, call \in Calls, Counted
  PROVE  SumBefore(counts)[call.experts] = Count
<1> DEFINE s == SumBefore(counts)
           E == call.experts
           Upto(e) == {p \in Pairs : call.selected[p] < e}
           Bad == {e \in 0 .. E : s[e] # Cardinality(Upto(e))}
<1>0. E \in Nat /\ counts \in [ExpertIds -> Nat] /\ IsSum(s, counts, E) /\ counts \in [0 .. E - 1 -> Nat]
  BY CountsTyped
<1> HIDE DEF s
<1>1. s \in [0 .. E -> Nat] /\ s[0] = 0 /\ \A e \in 0 .. E - 1 : s[e + 1] = s[e] + counts[e]
  BY <1>0, SumFacts
<1>2. \A e : /\ IsFiniteSet(Upto(e)) /\ Cardinality(Upto(e)) \in Nat
            /\ IsFiniteSet(OfExpert(e)) /\ Cardinality(OfExpert(e)) \in Nat
  BY CallFacts, FS_Subset, FS_CardinalityType DEF OfExpert
<1>3. \A p \in Pairs : call.selected[p] \in 0 .. E - 1
  BY CallFacts DEF ExpertIds
<1>4. Bad = {}
  <2> SUFFICES ASSUME Bad # {} PROVE FALSE
    OBVIOUS
  <2>1. PICK m \in Bad : \A k \in Bad : m <= k
    <3>1. Bad \in SUBSET Nat
      BY <1>0
    <3> HIDE DEF Bad
    <3> QED  BY <3>1, LeastExists
  <2>2. m \in 0 .. E /\ s[m] # Cardinality(Upto(m))
    OBVIOUS
  <2>3. m # 0
    <3>1. Upto(0) = {}
      BY <1>3
    <3> QED  BY <1>1, <2>2, <3>1, FS_EmptySet
  <2>4. m - 1 \in 0 .. E /\ m - 1 \in 0 .. E - 1 /\ ~(m <= m - 1) /\ (m - 1) + 1 = m
    BY <1>0, <2>2, <2>3
  <2>5. m - 1 \notin Bad
    <3> HIDE DEF Bad
    <3> QED  BY <2>1, <2>4
  <2>6. Upto(m) = Upto(m - 1) \cup OfExpert(m - 1) /\ Upto(m - 1) \cap OfExpert(m - 1) = {}
    BY <1>3, <2>4 DEF OfExpert
  <2>7. Cardinality(Upto(m)) = Cardinality(Upto(m - 1)) + Cardinality(OfExpert(m - 1))
    <3>1. IsFiniteSet(Upto(m - 1)) /\ IsFiniteSet(OfExpert(m - 1))
      BY <1>2
    <3> HIDE DEF Upto
    <3> QED  BY <2>6, <3>1, Disjoint
  <2>8. s[m - 1] = Cardinality(Upto(m - 1))
    BY <2>4, <2>5
  <2>9. counts[m - 1] = Cardinality(OfExpert(m - 1))
    BY <2>4 DEF Counted, ExpertIds
  <2>10. s[m] = s[m - 1] + counts[m - 1]
    BY <1>1, <2>4
  <2> HIDE DEF Upto, Bad
  <2> QED  BY <2>2, <2>7, <2>8, <2>9, <2>10
<1>5. s[E] = Cardinality(Upto(E))
  <2>1. E \notin Bad
    <3> HIDE DEF Bad
    <3> QED  BY <1>4
  <2>2. E \in 0 .. E
    <3> HIDE DEF E
    <3> QED  BY <1>0
  <2> QED  BY <2>1, <2>2
<1>6. Upto(E) = Pairs
  <2>1. \A p \in Pairs : call.selected[p] < E
    BY <1>0, <1>3
  <2> QED  BY <2>1
<1> HIDE DEF Upto
<1> QED  BY <1>5, <1>6, CallFacts DEF s

-----------------------------------------------------------------------------
(* Tiles *)

LEMMA Ceiling ==
  ASSUME NEW c \in Nat, NEW w \in Nat \ {0}
  PROVE  /\ Ceil(c, w) \in Nat /\ w * Ceil(c, w) <= c + w
         /\ \A q \in Nat : q < Ceil(c, w) <=> w * q < c
<1> DEFINE x == c + w - 1
           D == x \div w
<1>1. x \in Nat /\ w \in Nat
  OBVIOUS
<1>2. D \in Nat /\ x % w \in 0 .. w - 1 /\ x = w * D + (x % w)
  <2> HIDE DEF x
  <2> QED  BY <1>1, DivMod
<1>3. Ceil(c, w) = D
  BY DEF Ceil
<1> HIDE DEF D
<1>4. w * D \in Nat /\ w * D <= x /\ x < w * D + w
  BY <1>1, <1>2
<1>5. ASSUME NEW q \in Nat PROVE q < D <=> w * q < c
  <2>1. w * q \in Nat
    BY <1>1, Multiples
  <2>2. CASE q < D
    <3>1. w * q + w <= w * D
      BY <1>1, <1>2, <2>2, Multiples
    <3> QED  BY <1>1, <1>4, <2>1, <2>2, <3>1
  <2>3. CASE q = D
    BY <1>1, <1>4, <2>3
  <2>4. CASE D < q
    <3>1. w * D + w <= w * q
      BY <1>1, <1>2, <2>4, Multiples
    <3>2. ~(q < D)
      BY <1>2, <2>4
    <3> QED  BY <1>1, <1>4, <2>1, <3>1, <3>2
  <2> QED  BY <1>2, <2>2, <2>3, <2>4
<1> QED  BY <1>1, <1>2, <1>3, <1>4, <1>5

(* A list of tiles has each tile of each expert once, and as many as there *)
(* may be are started.                                                     *)
Tile(e, start) == [expert |-> e, start |-> start]
TileList(t, w) ==
  /\ DOMAIN t \in SUBSET Nat /\ IsFiniteSet(DOMAIN t)
  /\ \A i \in DOMAIN t :
       /\ i <= Capacity(w)
       /\ \E e \in ExpertIds, q \in Nat : q < Ceil(counts[e], w) /\ t[i] = Tile(e, w * q)
  /\ \A e \in ExpertIds, q \in Nat :
       q < Ceil(counts[e], w) => \E i \in DOMAIN t : t[i] = Tile(e, w * q)
  /\ \A i, j \in DOMAIN t : t[i] = t[j] => i = j

LEMMA SameTile == \A e, x, d, y : Tile(e, x) = Tile(d, y) => e = d /\ x = y
BY DEF Tile

LEMMA TilesFit ==
  ASSUME MoeAssumption, call \in Calls, Counted, NEW w \in Nat \ {0}
  PROVE  /\ IsSum(SumBefore(TilesOf(w)), TilesOf(w), call.experts)
         /\ SumBefore(TilesOf(w))[call.experts] \in Nat
         /\ SumBefore(TilesOf(w))[call.experts] <= Capacity(w)
<1> DEFINE E == call.experts
           num == TilesOf(w)
           at == SumBefore(num)
           s == SumBefore(counts)
<1>0. E \in Nat /\ IsSum(s, counts, E) /\ counts \in [0 .. E - 1 -> Nat] /\ counts \in [ExpertIds -> Nat]
  BY CountsTyped
<1>1. num \in [ExpertIds -> Nat] /\ num \in [0 .. E - 1 -> Nat] /\ \A e \in 0 .. E - 1 : w * num[e] <= counts[e] + w
  <2>1. \A e \in ExpertIds : Ceil(counts[e], w) \in Nat /\ w * Ceil(counts[e], w) <= counts[e] + w
    BY <1>0, Ceiling
  <2> QED  BY <2>1 DEF TilesOf, ExpertIds
<1>2. IsSum(at, num, E)
  BY <1>0, <1>1, SumTaken
<1>3. s[E] = Count
  BY CountsSum
<1> HIDE DEF num, at, s
<1>4. at \in [0 .. E -> Nat] /\ at[0] = 0 /\ \A e \in 0 .. E - 1 : at[e + 1] = at[e] + num[e]
  BY <1>2, SumFacts
<1>5. s \in [0 .. E -> Nat] /\ s[0] = 0 /\ \A e \in 0 .. E - 1 : s[e + 1] = s[e] + counts[e]
  BY <1>0, SumFacts
<1> HIDE DEF E
<1> DEFINE Bad == {e \in 0 .. E : ~(w * at[e] <= s[e] + w * e)}
<1>6. Bad = {}
  <2> SUFFICES ASSUME Bad # {} PROVE FALSE
    OBVIOUS
  <2>1. PICK m \in Bad : \A k \in Bad : m <= k
    <3>1. Bad \in SUBSET Nat
      BY <1>0
    <3> HIDE DEF Bad
    <3> QED  BY <3>1, LeastExists
  <2>2. m \in 0 .. E /\ ~(w * at[m] <= s[m] + w * m)
    OBVIOUS
  <2>3. m # 0
    BY <1>4, <1>5, <2>2
  <2>4. m - 1 \in 0 .. E /\ m - 1 \in 0 .. E - 1 /\ ~(m <= m - 1) /\ (m - 1) + 1 = m
    BY <1>0, <2>2, <2>3
  <2>5. m - 1 \notin Bad
    <3> HIDE DEF Bad
    <3> QED  BY <2>1, <2>4
  <2>6. at[m] = at[m - 1] + num[m - 1] /\ s[m] = s[m - 1] + counts[m - 1] /\ w * num[m - 1] <= counts[m - 1] + w
    BY <1>1, <1>4, <1>5, <2>4
  <2>7. w * at[m - 1] <= s[m - 1] + w * (m - 1)
    BY <2>4, <2>5
  <2>8. at[m - 1] \in Nat /\ num[m - 1] \in Nat /\ s[m - 1] \in Nat /\ counts[m - 1] \in Nat /\ m - 1 \in Nat
    <3> HIDE DEF Bad
    <3>1. at[m - 1] \in Nat /\ s[m - 1] \in Nat /\ m - 1 \in Nat
      BY <1>4, <1>5, <2>4
    <3>2. num[m - 1] \in Nat /\ counts[m - 1] \in Nat
      BY <1>0, <1>1, <2>4
    <3> QED  BY <3>1, <3>2
  <2> HIDE DEF Bad
  <2>9. \A a, b, k \in Nat : w * (a + b) = w * a + w * b /\ w * (k + 1) = w * k + w
                            /\ w * a \in Nat /\ w * b \in Nat /\ w * k \in Nat
    OBVIOUS
  <2>10. /\ w * at[m] = w * at[m - 1] + w * num[m - 1] /\ w * m = w * (m - 1) + w
         /\ w * at[m - 1] \in Nat /\ w * num[m - 1] \in Nat /\ w * (m - 1) \in Nat
    BY <2>4, <2>6, <2>8, <2>9
  <2>11. w * at[m] <= s[m] + w * m
    BY <2>6, <2>7, <2>8, <2>10
  <2> QED  BY <2>2, <2>11
<1>7. w * at[E] <= Count + w * E
  <2>1. E \notin Bad
    <3> HIDE DEF Bad
    <3> QED  BY <1>6
  <2>2. E \in 0 .. E
    BY <1>0
  <2> QED  BY <1>3, <2>1, <2>2
<1>8. at[E] \in Nat /\ Count \in Nat
  BY <1>0, <1>4, CallFacts
<1>9. at[E] <= Ceil(Count, w) + E
  <2> DEFINE C == Ceil(Count, w)
  <2>1. C \in Nat /\ ~(w * C < Count)
    <3>1. C \in Nat /\ \A q \in Nat : q < C <=> w * q < Count
      BY <1>8, Ceiling
    <3> HIDE DEF C
    <3> QED  BY <3>1
  <2> HIDE DEF C
  <2>2. SUFFICES ASSUME C + E < at[E] PROVE FALSE
    BY <1>0, <1>8, <2>1 DEF C
  <2>3. w * (C + E) + w <= w * at[E] /\ w * (C + E) \in Nat /\ w * at[E] \in Nat
    <3>1. w \in Nat /\ C + E \in Nat
      BY <1>0, <2>1
    <3> QED  BY <1>8, <2>2, <3>1, Multiples
  <2>4. w * (C + E) = w * C + w * E /\ w * C \in Nat /\ w * E \in Nat
    BY <1>0, <2>1
  <2> QED  BY <1>7, <1>8, <2>1, <2>3, <2>4
<1> QED  BY <1>1, <1>2, <1>8, <1>9 DEF E, Capacity, at, num

LEMMA TilesListed ==
  ASSUME MoeAssumption, call \in Calls, Counted, NEW w \in Nat \ {0}
  PROVE  TileList(TilesFor(w), w)
<1> DEFINE E == call.experts
           num == TilesOf(w)
           at == SumBefore(num)
           T == at[E]
           Owner(i) == CHOOSE e \in ExpertIds : at[e] < i /\ i <= at[e + 1]
           t == TilesFor(w)
<1>0. IsSum(at, num, E)
  BY TilesFit
<1>1. T \in Nat /\ T <= Capacity(w)
  BY TilesFit
<1>2. E \in Nat /\ ExpertIds = 0 .. E - 1
  BY CountsTyped DEF ExpertIds
<1>3. DOMAIN t = 1 .. T /\ \A i \in 1 .. T : t[i] = Tile(Owner(i), (i - 1 - at[Owner(i)]) * w)
  BY DEF TilesFor, Tile
<1>4. \A e \in ExpertIds : num[e] = Ceil(counts[e], w)
  BY DEF TilesOf
<1> HIDE DEF num, at, E, t
<1>5. /\ at \in [0 .. E -> Nat] /\ num \in [0 .. E - 1 -> Nat]
      /\ \A e \in 0 .. E - 1 : at[e + 1] = at[e] + num[e]
  BY <1>0, SumFacts
<1>6. \A e \in ExpertIds : at[e] \in Nat /\ num[e] \in Nat /\ at[e + 1] = at[e] + num[e]
  BY <1>2, <1>5
<1> HIDE DEF T
<1>7. ASSUME NEW i \in 1 .. T
      PROVE  /\ Owner(i) \in ExpertIds /\ at[Owner(i)] < i /\ i <= at[Owner(i)] + num[Owner(i)]
             /\ \A d \in ExpertIds : at[d] < i /\ i <= at[d] + num[d] => d = Owner(i)
  <2>1. i \in 1 .. at[E]
    BY DEF T
  <2>2. PICK e \in 0 .. E - 1 :
           /\ at[e] < i /\ i <= at[e + 1] /\ i <= at[e] + num[e]
           /\ \A d \in 0 .. E - 1 : at[d] < i /\ i <= at[d] + num[d] => d = e
    BY <1>0, <2>1, Owned
  <2>3. Owner(i) \in ExpertIds /\ at[Owner(i)] < i /\ i <= at[Owner(i) + 1]
    BY <1>2, <2>2
  <2> HIDE DEF Owner
  <2> QED  BY <1>2, <1>6, <2>2, <2>3
<1> HIDE DEF Owner
<1>8. ASSUME NEW i \in 1 .. T
       PROVE  /\ i - 1 - at[Owner(i)] \in Nat /\ i - 1 - at[Owner(i)] < num[Owner(i)]
              /\ t[i] = Tile(Owner(i), w * (i - 1 - at[Owner(i)]))
  <2>1. at[Owner(i)] \in Nat /\ num[Owner(i)] \in Nat /\ at[Owner(i)] < i /\ i <= at[Owner(i)] + num[Owner(i)]
    BY <1>6, <1>7
  <2>2. i - 1 - at[Owner(i)] \in Nat /\ i - 1 - at[Owner(i)] < num[Owner(i)]
    BY <2>1
  <2>3. \A x \in Nat : x * w = w * x
    OBVIOUS
  <2> QED  BY <1>3, <2>2, <2>3
<1>9. ASSUME NEW i \in 1 .. T
      PROVE  /\ i <= Capacity(w)
             /\ \E e \in ExpertIds, q \in Nat : q < Ceil(counts[e], w) /\ t[i] = Tile(e, w * q)
  <2>1. Capacity(w) \in Int
    <3>1. Count \in Nat /\ call.experts \in Nat
      BY CallFacts
    <3>2. Ceil(Count, w) \in Nat
      BY <3>1, Ceiling
    <3> QED  BY <3>1, <3>2 DEF Capacity
  <2>2. i <= Capacity(w)
    BY <1>1, <2>1
  <2> QED  BY <1>4, <1>7, <1>8, <2>2
<1>10. ASSUME NEW e \in ExpertIds, NEW q \in Nat, q < Ceil(counts[e], w)
      PROVE  \E i \in 1 .. T : t[i] = Tile(e, w * q)
  <2>1. at[e] \in Nat /\ num[e] \in Nat /\ q < num[e] /\ e \in 0 .. E - 1
    BY <1>2, <1>4, <1>6, <1>10
  <2>2. at[e] + num[e] <= T
    <3>1. E \in 0 .. E
      BY <1>2
    <3> QED  BY <1>0, <2>1, <3>1, SharesApart DEF T
  <2>3. PICK i \in 1 .. T : at[e] < i /\ i <= at[e] + num[e] /\ i - 1 - at[e] = q
    <3>1. /\ at[e] + q + 1 \in 1 .. T /\ at[e] < at[e] + q + 1
          /\ at[e] + q + 1 <= at[e] + num[e] /\ (at[e] + q + 1) - 1 - at[e] = q
      BY <1>1, <2>1, <2>2
    <3> QED  BY <3>1
  <2>4. e = Owner(i)
    BY <1>7, <2>3
  <2>5. t[i] = Tile(e, w * q)
    BY <1>8, <2>3, <2>4
  <2> QED  BY <2>5
<1>11. ASSUME NEW i \in 1 .. T, NEW j \in 1 .. T, t[i] = t[j]
      PROVE  i = j
  <2>1. PICK a \in Nat : a = i - 1 - at[Owner(i)] /\ t[i] = Tile(Owner(i), w * a)
    BY <1>8
  <2>2. PICK b \in Nat : b = j - 1 - at[Owner(j)] /\ t[j] = Tile(Owner(j), w * b)
    BY <1>8
  <2>3. Owner(i) = Owner(j) /\ w * a = w * b
    <3>1. Tile(Owner(i), w * a) = Tile(Owner(j), w * b)
      BY <1>11, <2>1, <2>2
    <3> QED  BY <3>1, SameTile
  <2>4. a = b
    <3>1. w \in Nat /\ 0 \in 0 .. w - 1 /\ w * a + 0 = w * b + 0
      BY <2>3
    <3> QED  BY <3>1, Digits
  <2>5. at[Owner(i)] \in Nat
    BY <1>6, <1>7
  <2> QED  BY <2>1, <2>2, <2>3, <2>4, <2>5
<1>12. IsFiniteSet(1 .. T)
  BY <1>1, FS_Interval
<1>13. DOMAIN t \in SUBSET Nat /\ IsFiniteSet(DOMAIN t)
  BY <1>3, <1>12
<1>14. \A i \in DOMAIN t : /\ i <= Capacity(w)
                         /\ \E e \in ExpertIds, q \in Nat : q < Ceil(counts[e], w) /\ t[i] = Tile(e, w * q)
  BY <1>3, <1>9
<1>15. \A e \in ExpertIds, q \in Nat : q < Ceil(counts[e], w) => \E i \in DOMAIN t : t[i] = Tile(e, w * q)
  BY <1>3, <1>10
<1>16. \A i, j \in DOMAIN t : t[i] = t[j] => i = j
  BY <1>3, <1>11
<1>17. TileList(t, w)
  BY <1>13, <1>14, <1>15, <1>16 DEF TileList
<1> QED  BY <1>17 DEF t

-----------------------------------------------------------------------------
(* Where the pairs of an expert are placed, as far as they are.            *)
Offsets == offsets = [e \in ExpertIds |-> SumBefore(counts)[e]]
PlacesOf(e) == offsets[e] .. cursors[e] - 1
PairsPlaced ==
  /\ left \in SUBSET Pairs
  /\ sorted \in [Pairs -> Int]
  /\ cursors = [e \in ExpertIds |-> offsets[e] + Cardinality(OfExpert(e) \ left)]
  /\ \A p \in Pairs \ left : \E i \in PlacesOf(call.selected[p]) : sorted[i] = p
  /\ \A e \in ExpertIds : \A i \in PlacesOf(e) :
       /\ sorted[i] \in OfExpert(e) \ left
       /\ \A j \in PlacesOf(e) : sorted[i] = sorted[j] => i = j

-----------------------------------------------------------------------------
(* Working: the steps between the lists and the sum. *)
Working == {"gate", "quantize mid", "zero", "down"}
Built == [w \in {Four, Eight, Sixteen} |->
            IF w = TileM \/ (w = Sixteen /\ (TilesDown16 \/ MmaTiles16)) THEN TilesFor(w) ELSE <<>>]

ListInv ==
  /\ step \in {"count", "prefix", "scatter"} => Sorting
  /\ step = "tiles" => Tiling
  /\ Sorting /\ step \in {"prefix", "scatter", "tiles"} \cup Working => Counted
  /\ step = "prefix" => sorted \in [Pairs -> Int]
  /\ Sorting /\ step \in {"scatter", "tiles"} \cup Working => Offsets /\ PairsPlaced
  /\ Sorting /\ step \in {"tiles"} \cup Working => left = {}
  /\ Tiling /\ step \in Working => tiles = Built

PlanTails == {<<"mid", "down", "sum">>, <<"down", "sum">>, <<"sum">>, <<"fused", "sum">>, <<"mid", "downsum">>,
              <<"downsum">>, PairPlan, <<"swiglu", "down", "sum">>}
PlanInv ==
  step = "tier" =>
    /\ plan \in PlanTails
    /\ Head(plan) = "swiglu" => gate = All("gate") /\ up = All("up")
    /\ Head(plan) \in {"down", "downsum"} => mid = All("mid")
    /\ Head(plan) = "sum" => down = All("down")

ValueInv ==
  /\ step \in {"count", "prefix", "scatter", "tiles", "gate"} => down = All("xq")
  /\ step = "quantize mid" => mid = All("mid") /\ (Sidecar => up = All("sidecar"))
  /\ step \in {"zero", "down"} => gate = All("midq")
  /\ step = "down" /\ Adding => (clean <=> ~unzeroed)
  /\ step = "sum" => down = All("down")
  /\ step = "plain down" => mid = All("mid")

MoeInv ==
  /\ call \in Calls
  /\ step # "done" => ret # 1
  /\ ListInv /\ PlanInv /\ ValueInv /\ RoutedSum

(* Nothing is added before the end, and the one failure that does not end  *)
(* the call comes last.                                                    *)
SumInv ==
  step # "done" => /\ out = All(0)
                   /\ unzeroed => step = "down" /\ Adding

LEMMA OffsetFacts ==
  ASSUME MoeAssumption, call \in Calls, Counted, Offsets
  PROVE  /\ offsets \in [ExpertIds -> Nat] /\ counts \in [ExpertIds -> Nat]
         /\ \A e \in ExpertIds : offsets[e] + counts[e] <= Count
         /\ \A e, d \in ExpertIds : d < e => offsets[d] + counts[d] <= offsets[e]
<1> DEFINE E == call.experts
           s == SumBefore(counts)
<1>0. E \in Nat /\ IsSum(s, counts, E) /\ counts \in [ExpertIds -> Nat] /\ ExpertIds = 0 .. E - 1
  BY CountsTyped DEF ExpertIds
<1>1. s[E] = Count
  BY CountsSum
<1>2. offsets = [e \in ExpertIds |-> s[e]]
  BY DEF Offsets
<1> HIDE DEF s, E
<1>3. s \in [0 .. E -> Nat]
  BY <1>0, SumFacts
<1>4. offsets \in [ExpertIds -> Nat]
  BY <1>0, <1>2, <1>3
<1>5. \A d \in 0 .. E : \A e \in 0 .. d - 1 : s[e] + counts[e] <= s[d]
  BY <1>0, SharesApart
<1>6. \A e \in ExpertIds : offsets[e] + counts[e] <= Count
  <2>1. \A e \in ExpertIds : E \in 0 .. E /\ e \in 0 .. E - 1
    BY <1>0
  <2>2. \A e \in ExpertIds : s[e] + counts[e] <= s[E]
    BY <1>5, <2>1
  <2> QED  BY <1>1, <1>2, <2>2
<1>7. ASSUME NEW e \in ExpertIds, NEW d \in ExpertIds, d < e PROVE offsets[d] + counts[d] <= offsets[e]
  <2>1. e \in 0 .. E /\ d \in 0 .. e - 1
    BY <1>0, <1>7
  <2>2. s[d] + counts[d] <= s[e]
    BY <1>5, <2>1
  <2> QED  BY <1>2, <2>2
<1> QED  BY <1>0, <1>4, <1>6, <1>7

(* No more of an expert's pairs are placed than it has.                    *)
LEMMA PlacedFew ==
  ASSUME MoeAssumption, call \in Calls, Counted, NEW S, NEW e \in ExpertIds
  PROVE  /\ IsFiniteSet(OfExpert(e) \ S) /\ Cardinality(OfExpert(e) \ S) \in Nat
         /\ Cardinality(OfExpert(e) \ S) <= counts[e] /\ counts[e] \in Nat
         /\ counts[e] = Cardinality(OfExpert(e))
<1>1. IsFiniteSet(OfExpert(e))
  BY CallFacts, FS_Subset DEF OfExpert
<1>2. OfExpert(e) \ S \in SUBSET OfExpert(e)
  OBVIOUS
<1>3. IsFiniteSet(OfExpert(e) \ S) /\ Cardinality(OfExpert(e) \ S) <= Cardinality(OfExpert(e))
  BY <1>1, <1>2, FS_Subset
<1> QED  BY <1>1, <1>3, FS_CardinalityType DEF Counted

(* The places that are taken lie in the expert's part of the list.         *)
LEMMA PlacesIn ==
  ASSUME MoeAssumption, call \in Calls, Counted, Offsets, PairsPlaced, NEW e \in ExpertIds
  PROVE  /\ cursors[e] \in Nat /\ offsets[e] \in Nat /\ counts[e] \in Nat /\ Count \in Nat
         /\ offsets[e] <= cursors[e] /\ cursors[e] <= offsets[e] + counts[e]
         /\ offsets[e] + counts[e] <= Count
<1>1. Cardinality(OfExpert(e) \ left) \in Nat /\ Cardinality(OfExpert(e) \ left) <= counts[e] /\ counts[e] \in Nat
  BY PlacedFew
<1>2. cursors[e] = offsets[e] + Cardinality(OfExpert(e) \ left)
  BY DEF PairsPlaced
<1>3. offsets[e] \in Nat /\ offsets[e] + counts[e] <= Count /\ Count \in Nat
  BY OffsetFacts, CallFacts
<1> QED  BY <1>1, <1>2, <1>3

LEMMA PlacesDiffer ==
  ASSUME MoeAssumption, call \in Calls, Counted, Offsets, PairsPlaced,
         NEW e \in ExpertIds, NEW d \in ExpertIds, d # e,
         NEW i \in PlacesOf(d), offsets[e] <= i
  PROVE  ~(i < offsets[e] + counts[e])
<1>1. /\ cursors[d] \in Nat /\ offsets[d] \in Nat /\ counts[d] \in Nat
      /\ cursors[d] <= offsets[d] + counts[d]
  BY PlacesIn
<1>2. offsets[e] \in Nat /\ counts[e] \in Nat
  BY PlacesIn
<1>3. i \in Int /\ offsets[d] <= i /\ i < offsets[d] + counts[d]
  BY <1>1 DEF PlacesOf
<1>4. e < d \/ d < e
  BY CallFacts DEF ExpertIds
<1>5. (e < d => offsets[e] + counts[e] <= offsets[d]) /\ (d < e => offsets[d] + counts[d] <= offsets[e])
  BY OffsetFacts
<1> QED  BY <1>1, <1>2, <1>3, <1>4, <1>5

LEMMA PrefixPlaces ==
  ASSUME MoeAssumption, call \in Calls, Counted, sorted \in [Pairs -> Int], Prefix
  PROVE  Counted' /\ Offsets' /\ PairsPlaced'
<1>1. /\ call' = call /\ counts' = counts /\ sorted' = sorted /\ left' = Pairs
      /\ offsets' = [e \in ExpertIds |-> SumBefore(counts)[e]] /\ cursors' = offsets'
  BY DEF Prefix, chosen
<1>2. Pairs' = Pairs /\ ExpertIds' = ExpertIds
  BY <1>1 DEF Pairs, ExpertIds
<1>3. \A e : OfExpert(e)' = OfExpert(e)
  BY <1>1, <1>2 DEF OfExpert
<1>4. Counted'
  BY <1>1, <1>2, <1>3 DEF Counted
<1>5. SumBefore(counts)' = SumBefore(counts)
  BY <1>1 DEF SumBefore
<1>6. Offsets'
  BY <1>1, <1>2, <1>5 DEF Offsets
<1>7. \A e \in ExpertIds : (OfExpert(e) \ left)' = {} /\ Cardinality({}) = 0 /\ offsets'[e] \in Nat
  <2>1. IsSum(SumBefore(counts), counts, call.experts) /\ call.experts \in Nat
    BY CountsTyped
  <2>2. SumBefore(counts) \in [0 .. call.experts -> Nat]
    BY <2>1, SumFacts
  <2>3. \A e \in ExpertIds : offsets'[e] \in Nat
    <3>1. \A e \in ExpertIds : offsets'[e] = SumBefore(counts)[e] /\ e \in 0 .. call.experts
      BY <1>1, <2>1 DEF ExpertIds
    <3> QED  BY <2>2, <3>1
  <2> QED  BY <1>1, <1>3, <2>3, FS_EmptySet DEF OfExpert
<1>8. cursors' = [e \in ExpertIds |-> offsets'[e] + Cardinality((OfExpert(e) \ left)')]
  <2>1. \A e \in ExpertIds : offsets'[e] + Cardinality((OfExpert(e) \ left)') = offsets'[e]
    BY <1>7
  <2>2. offsets' = [e \in ExpertIds |-> offsets'[e]]
    BY <1>1
  <2> QED  BY <1>1, <2>1, <2>2
<1>9. \A e \in ExpertIds : PlacesOf(e)' = {}
  BY <1>1, <1>7 DEF PlacesOf
<1>10. PairsPlaced'
  BY <1>1, <1>2, <1>8, <1>9 DEF PairsPlaced
<1> QED  BY <1>4, <1>6, <1>10

LEMMA ScatterPlaces ==
  ASSUME MoeAssumption, call \in Calls, Counted, Offsets, PairsPlaced, Scatter
  PROVE  Counted' /\ Offsets' /\ PairsPlaced'
<1>1. PICK p \in left, e \in ExpertIds, c \in Nat :
        /\ e = call.selected[p] /\ c = cursors[e] /\ p \in Pairs /\ left \in SUBSET Pairs
        /\ sorted' = [sorted EXCEPT ![c] = p]
        /\ cursors' = [cursors EXCEPT ![e] = @ + 1]
        /\ left' = left \ {p}
  <2>1. PICK p \in left :
          /\ sorted' = [sorted EXCEPT ![cursors[call.selected[p]]] = p]
          /\ cursors' = [cursors EXCEPT ![call.selected[p]] = @ + 1]
          /\ left' = left \ {p}
    BY DEF Scatter
  <2>2. p \in Pairs /\ call.selected[p] \in ExpertIds /\ left \in SUBSET Pairs
    BY CallFacts DEF PairsPlaced
  <2>3. cursors[call.selected[p]] \in Nat
    BY <2>2, PlacesIn
  <2> QED  BY <2>1, <2>2, <2>3
<1> DEFINE Put(d) == OfExpert(d) \ left
           Next(d) == OfExpert(d) \ left'
           NowAt(d) == offsets[d] .. cursors'[d] - 1
<1>2. call' = call /\ counts' = counts /\ offsets' = offsets
  BY DEF Scatter, chosen
<1>3. Pairs' = Pairs /\ ExpertIds' = ExpertIds
  BY <1>2 DEF Pairs, ExpertIds
<1>4. \A d : OfExpert(d)' = OfExpert(d)
  BY <1>2, <1>3 DEF OfExpert
<1>5. Counted' /\ Offsets'
  <2>1. SumBefore(counts)' = SumBefore(counts)
    BY <1>2 DEF SumBefore
  <2>2. Counted'
    BY <1>2, <1>3, <1>4 DEF Counted
  <2> QED  BY <1>2, <1>3, <2>1, <2>2 DEF Offsets
<1>7. /\ \A d \in ExpertIds : d # e => Next(d) = Put(d)
      /\ Next(e) = Put(e) \cup {p} /\ p \notin Put(e) /\ p \in OfExpert(e)
  BY <1>1 DEF OfExpert
<1>8. Cardinality(Next(e)) = Cardinality(Put(e)) + 1
  <2>1. IsFiniteSet(Put(e))
    BY PlacedFew
  <2> HIDE DEF Put, Next
  <2> QED  BY <1>7, <2>1, FS_AddElement
<1>9. Cardinality(Put(e)) + 1 <= counts[e] /\ Cardinality(Put(e)) \in Nat
  BY <1>8, PlacedFew
<1>10. /\ c \in Nat /\ offsets[e] \in Nat /\ counts[e] \in Nat /\ Count \in Nat
       /\ offsets[e] <= c /\ c < offsets[e] + counts[e] /\ c < Count
       /\ c = offsets[e] + Cardinality(Put(e))
  <2>1. c = offsets[e] + Cardinality(Put(e))
    BY <1>1 DEF PairsPlaced
  <2>2. offsets[e] \in Nat /\ counts[e] \in Nat /\ Count \in Nat /\ offsets[e] + counts[e] <= Count
    BY PlacesIn
  <2> HIDE DEF Put
  <2> QED  BY <1>9, <2>1, <2>2
<1>11. c \in Pairs
  BY <1>10, CallFacts
<1>12. \A d \in ExpertIds : d # e => c \notin PlacesOf(d)
  BY <1>10, PlacesDiffer
<1>13. \A d \in ExpertIds : d # e => NowAt(d) = PlacesOf(d) /\ cursors'[d] = cursors[d]
  BY <1>1 DEF PairsPlaced, PlacesOf
<1>14. NowAt(e) = PlacesOf(e) \cup {c} /\ c \notin PlacesOf(e) /\ cursors'[e] = c + 1
  <2>1. cursors'[e] = c + 1
    BY <1>1 DEF PairsPlaced
  <2>2. offsets[e] .. c + 1 - 1 = offsets[e] .. c - 1 \cup {c} /\ c \notin offsets[e] .. c - 1
    BY <1>10
  <2> QED  BY <1>1, <2>1, <2>2 DEF PlacesOf
<1>15. \A d \in ExpertIds : \A i \in PlacesOf(d) : i \in Pairs
  <2>1. ASSUME NEW d \in ExpertIds PROVE \A i \in PlacesOf(d) : i \in Pairs
    <3>1. /\ cursors[d] \in Nat /\ offsets[d] \in Nat /\ counts[d] \in Nat /\ Count \in Nat
          /\ cursors[d] <= offsets[d] + counts[d] /\ offsets[d] + counts[d] <= Count
      BY <2>1, PlacesIn
    <3> QED  BY <3>1, CallFacts DEF PlacesOf
  <2> QED  BY <2>1
<1>16. sorted' \in [Pairs -> Int] /\ sorted'[c] = p /\ \A i \in Pairs : i # c => sorted'[i] = sorted[i]
  <2>1. p \in Int
    BY <1>1, CallFacts
  <2> QED  BY <1>1, <1>11, <2>1 DEF PairsPlaced
<1>17. \A d \in ExpertIds : \A i \in PlacesOf(d) : i # c /\ sorted'[i] = sorted[i] /\ sorted[i] # p
  <2>1. ASSUME NEW d \in ExpertIds, NEW i \in PlacesOf(d) PROVE i # c /\ sorted[i] # p /\ i \in Pairs
    <3>1. i # c
      BY <1>12, <1>14
    <3>2. sorted[i] \in OfExpert(d) \ left
      BY DEF PairsPlaced
    <3> QED  BY <1>1, <1>15, <3>1, <3>2
  <2> QED  BY <1>16, <2>1
<1>18. cursors' = [d \in ExpertIds |-> offsets[d] + Cardinality(Next(d))]
  <2>1. cursors' = [d \in ExpertIds |-> cursors'[d]]
    <3>1. cursors = [d \in ExpertIds |-> offsets[d] + Cardinality(Put(d))]
      BY DEF PairsPlaced
    <3> HIDE DEF Put
    <3> QED  BY <1>1, <3>1
  <2>2. ASSUME NEW d \in ExpertIds, d # e PROVE cursors'[d] = offsets[d] + Cardinality(Next(d))
    <3>1. cursors[d] = offsets[d] + Cardinality(Put(d))
      BY DEF PairsPlaced
    <3> QED  BY <1>7, <1>13, <2>2, <3>1
  <2>3. cursors'[e] = offsets[e] + Cardinality(Next(e))
    <3> HIDE DEF Put, Next
    <3> QED  BY <1>8, <1>9, <1>10, <1>14
  <2>4. \A d \in ExpertIds : cursors'[d] = offsets[d] + Cardinality(Next(d))
    <3> HIDE DEF Put, Next
    <3> QED  BY <2>2, <2>3
  <2> HIDE DEF Put, Next
  <2> QED  BY <2>1, <2>4
<1>19. ASSUME NEW q \in Pairs \ left' PROVE \E i \in NowAt(call.selected[q]) : sorted'[i] = q
  <2>1. CASE q = p
    BY <1>1, <1>14, <1>16, <2>1
  <2>2. CASE q # p
    <3>1. q \in Pairs \ left /\ call.selected[q] \in ExpertIds
      BY <1>1, <1>19, <2>2, CallFacts
    <3>2. PICK i \in PlacesOf(call.selected[q]) : sorted[i] = q
      BY <3>1 DEF PairsPlaced
    <3>3. i \in NowAt(call.selected[q])
      <4> HIDE DEF NowAt
      <4> QED  BY <1>13, <1>14, <3>1, <3>2
    <3> QED  BY <1>17, <3>1, <3>2, <3>3
  <2> QED  BY <2>1, <2>2
<1>20. ASSUME NEW d \in ExpertIds, NEW i \in NowAt(d)
       PROVE  /\ sorted'[i] \in OfExpert(d) \ left'
              /\ \A j \in NowAt(d) : sorted'[i] = sorted'[j] => i = j
  <2> HIDE DEF NowAt
  <2>1. \A k \in PlacesOf(d) : /\ sorted[k] \in OfExpert(d) \ left
                               /\ \A j \in PlacesOf(d) : sorted[k] = sorted[j] => k = j
    BY DEF PairsPlaced
  <2>2. \A k \in PlacesOf(d) : sorted'[k] = sorted[k] /\ sorted[k] # p
    BY <1>17
  <2>3. CASE d # e
    <3>1. NowAt(d) = PlacesOf(d)
      BY <1>13, <2>3
    <3> QED  BY <1>1, <2>1, <2>2, <3>1
  <2>4. CASE d = e
    <3>1. NowAt(d) = PlacesOf(d) \cup {c}
      BY <1>14, <2>4
    <3>2. p \in OfExpert(d) \ left'
      BY <1>1, <1>7, <2>4
    <3>3. sorted'[i] \in OfExpert(d) \ left'
      BY <1>1, <1>16, <2>1, <2>2, <3>1, <3>2
    <3>4. \A j \in NowAt(d) : sorted'[i] = sorted'[j] => i = j
      BY <1>16, <2>1, <2>2, <3>1
    <3> QED  BY <3>3, <3>4
  <2> QED  BY <2>3, <2>4
<1>21. PairsPlaced'
  <2>1. left' \in SUBSET Pairs'
    BY <1>1, <1>3
  <2>2. sorted' \in [Pairs' -> Int]
    BY <1>3, <1>16
  <2>3. cursors' = [d \in ExpertIds' |-> offsets'[d] + Cardinality(OfExpert(d)' \ left')]
    BY <1>2, <1>3, <1>4, <1>18
  <2>4. \A q \in Pairs' \ left' :
          \E i \in offsets'[call'.selected[q]] .. cursors'[call'.selected[q]] - 1 : sorted'[i] = q
    BY <1>2, <1>3, <1>19
  <2>5. \A d \in ExpertIds' : \A i \in offsets'[d] .. cursors'[d] - 1 :
          /\ sorted'[i] \in OfExpert(d)' \ left'
          /\ \A j \in offsets'[d] .. cursors'[d] - 1 : sorted'[i] = sorted'[j] => i = j
    BY <1>2, <1>3, <1>4, <1>20
  <2> QED  BY <2>1, <2>2, <2>3, <2>4, <2>5 DEF PairsPlaced, PlacesOf
<1> QED  BY <1>5, <1>21

(* When all are placed, an expert's part of the list has its pairs, each   *)
(* once.                                                                   *)
LEMMA AllPlaced ==
  ASSUME MoeAssumption, call \in Calls, Counted, Offsets, PairsPlaced, left = {}
  PROVE  /\ \A p \in Pairs : \E l \in Nat :
              /\ l < counts[call.selected[p]] /\ sorted[offsets[call.selected[p]] + l] = p
              /\ offsets[call.selected[p]] + l \in Pairs
         /\ \A e \in ExpertIds, l, m \in Nat : l < counts[e] /\ m < counts[e] =>
              /\ sorted[offsets[e] + l] \in Pairs /\ call.selected[sorted[offsets[e] + l]] = e
              /\ (sorted[offsets[e] + l] = sorted[offsets[e] + m] => l = m)
<1>1. \A e \in ExpertIds : /\ PlacesOf(e) = offsets[e] .. offsets[e] + counts[e] - 1
                           /\ offsets[e] \in Nat /\ counts[e] \in Nat /\ offsets[e] + counts[e] <= Count
  <2>1. ASSUME NEW e \in ExpertIds PROVE cursors[e] = offsets[e] + counts[e]
    <3>1. OfExpert(e) \ left = OfExpert(e)
      OBVIOUS
    <3>2. counts[e] = Cardinality(OfExpert(e))
      BY PlacedFew
    <3> QED  BY <3>1, <3>2 DEF PairsPlaced
  <2> QED  BY <2>1, PlacesIn DEF PlacesOf
<1>2. ASSUME NEW p \in Pairs
      PROVE  \E l \in Nat : /\ l < counts[call.selected[p]] /\ sorted[offsets[call.selected[p]] + l] = p
                            /\ offsets[call.selected[p]] + l \in Pairs
  <2> DEFINE e == call.selected[p]
  <2>1. e \in ExpertIds
    BY CallFacts
  <2>2. PICK i \in PlacesOf(e) : sorted[i] = p
    BY DEF PairsPlaced
  <2> HIDE DEF e
  <2>3. /\ i \in Nat /\ i < Count /\ i - offsets[e] \in Nat
        /\ i - offsets[e] < counts[e] /\ offsets[e] + (i - offsets[e]) = i
    <3>1. i \in offsets[e] .. offsets[e] + counts[e] - 1
      BY <1>1, <2>1
    <3>2. offsets[e] \in Nat /\ counts[e] \in Nat /\ offsets[e] + counts[e] <= Count
      BY <1>1, <2>1
    <3>3. Count \in Nat
      BY CallFacts
    <3> QED  BY <3>1, <3>2, <3>3
  <2>4. i \in Pairs
    BY <2>3, CallFacts
  <2> QED  BY <2>2, <2>3, <2>4 DEF e
<1>3. ASSUME NEW e \in ExpertIds, NEW l \in Nat, NEW m \in Nat, l < counts[e], m < counts[e]
      PROVE  /\ sorted[offsets[e] + l] \in Pairs /\ call.selected[sorted[offsets[e] + l]] = e
             /\ (sorted[offsets[e] + l] = sorted[offsets[e] + m] => l = m)
  <2>1. offsets[e] + l \in PlacesOf(e) /\ offsets[e] + m \in PlacesOf(e)
    BY <1>1, <1>3
  <2>2. sorted[offsets[e] + l] \in OfExpert(e)
    BY <2>1 DEF PairsPlaced
  <2>3. sorted[offsets[e] + l] = sorted[offsets[e] + m] => offsets[e] + l = offsets[e] + m
    BY <2>1 DEF PairsPlaced
  <2>4. offsets[e] + l = offsets[e] + m => l = m
    BY <1>1
  <2> QED  BY <2>2, <2>3, <2>4 DEF OfExpert
<1> QED  BY <1>2, <1>3

-----------------------------------------------------------------------------
(* The kernels over their lists                                            *)

LEMMA CountOne ==
  ASSUME NEW S, NEW b, b \in S, \A c \in S : c = b
  PROVE  Cardinality(S) = 1
<1>1. S = {b}
  OBVIOUS
<1> QED  BY <1>1, FS_Singleton

LEMMA CountSome ==
  ASSUME NEW S, IsFiniteSet(S), NEW b, b \in S
  PROVE  Cardinality(S) # 0
BY FS_EmptySet

LEMMA PairsTimes ==
  ASSUME MoeAssumption, call \in Calls, NEW k, k.list = "pairs", NEW p \in Pairs
  PROVE  Times(k)[p] = 1
<1>1. Blocks(k) = [b \in 1 .. Count |-> {b - 1}]
  BY DEF Blocks
<1>2. Times(k)[p] = Cardinality({b \in 1 .. Count : p \in {b - 1}})
  BY <1>1 DEF Times
<1>3. p + 1 \in {b \in 1 .. Count : p \in {b - 1}} /\ \A c \in {b \in 1 .. Count : p \in {b - 1}} : c = p + 1
  BY CallFacts
<1> QED  BY <1>2, <1>3, CountOne

LEMMA SortedTimes ==
  ASSUME MoeAssumption, call \in Calls, Counted, Offsets, PairsPlaced, left = {},
         NEW k, k.list = "sorted", k.width \in Nat \ {0}, NEW p \in Pairs
  PROVE  Times(k)[p] # 0
<1> DEFINE w == k.width
           Pairs2(b) == {sorted[i] : i \in {j \in (b - 1) * w .. b * w - 1 : j < Count}}
           S == {b \in 1 .. Ceil(Count, w) : p \in Pairs2(b)}
<1>1. Times(k)[p] = Cardinality(S)
  <2>1. Blocks(k) = [b \in 1 .. Ceil(Count, w) |-> Pairs2(b)]
    BY DEF Blocks
  <2> HIDE DEF Pairs2, w
  <2> QED  BY <2>1 DEF Times
<1>2. PICK i \in Pairs : sorted[i] = p
  BY AllPlaced
<1>3. Count \in Nat /\ i \in Nat /\ i < Count
  BY CallFacts
<1> HIDE DEF w
<1>4. w \in Nat \ {0}
  BY DEF w
<1>5. PICK q \in Nat : w * q <= i /\ i < w * q + w /\ w * q \in Nat
  <2>1. i \div w \in Nat /\ i % w \in 0 .. w - 1 /\ i = w * (i \div w) + (i % w)
    BY <1>3, <1>4, DivMod
  <2>2. w * (i \div w) \in Nat
    BY <1>4, <2>1
  <2> QED  BY <1>3, <1>4, <2>1, <2>2
<1>6. Ceil(Count, w) \in Nat /\ q < Ceil(Count, w)
  <2>1. Ceil(Count, w) \in Nat /\ \A r \in Nat : r < Ceil(Count, w) <=> w * r < Count
    BY <1>3, <1>4, Ceiling
  <2>2. w * q < Count
    BY <1>3, <1>5
  <2> QED  BY <2>1, <2>2
<1>7. q + 1 \in 1 .. Ceil(Count, w)
  BY <1>6
<1>8. p \in Pairs2(q + 1)
  <2>1. (q + 1 - 1) * w = w * q /\ (q + 1) * w = w * q + w
    BY <1>4
  <2>2. i \in {j \in (q + 1 - 1) * w .. (q + 1) * w - 1 : j < Count}
    BY <1>3, <1>4, <1>5, <2>1
  <2> QED  BY <1>2, <2>2
<1>9. IsFiniteSet(S)
  <2>1. IsFiniteSet(1 .. Ceil(Count, w)) /\ S \in SUBSET (1 .. Ceil(Count, w))
    BY <1>6, FS_Interval
  <2> HIDE DEF S
  <2> QED  BY <2>1, FS_Subset
<1>10. q + 1 \in S
  BY <1>7, <1>8
<1> HIDE DEF S
<1> QED  BY <1>1, <1>9, <1>10, CountSome

(* Whether a kernel's tile that starts at the q-th of its list has the     *)
(* l-th pair of its expert; each pair is in one; none is in two.           *)
Meets(k, q, l) ==
  /\ k.width = Sixteen => ((WidthOf(k) * q) \div Eight) % 2 = 0
  /\ WidthOf(k) * q <= l /\ l < WidthOf(k) * q + k.width
Reaches(k) == \A l \in Nat : \E q \in Nat : Meets(k, q, l)
Apart(k) == \A q, r, l \in Nat : Meets(k, q, l) /\ Meets(k, r, l) => q = r

LEMMA TilesTimes ==
  ASSUME MoeAssumption, call \in Calls, Counted, Offsets, PairsPlaced, left = {},
         NEW k, k.list \in {"tiles", "tiles16"}, k.width \in Nat, WidthOf(k) \in Nat \ {0},
         tiles[WidthOf(k)] = TilesFor(WidthOf(k)), Reaches(k), NEW p \in Pairs
  PROVE  Times(k)[p] # 0 /\ (Apart(k) => Times(k)[p] = 1)
<1> DEFINE w == WidthOf(k)
           kw == k.width
           t == tiles[w]
           e == call.selected[p]
           run == {b \in DOMAIN t : b <= Capacity(w) /\ Starts(k, t[b])}
           S == {b \in run : p \in TilePairs(t[b], kw)}
<1>1. Times(k)[p] = Cardinality(S)
  <2>1. Blocks(k) = [b \in run |-> TilePairs(t[b], kw)]
    BY DEF Blocks
  <2> HIDE DEF run, t, kw, w
  <2> QED  BY <2>1 DEF Times
<1>2. TileList(t, w)
  BY TilesListed
<1>3. w \in Nat \ {0} /\ kw \in Nat
  OBVIOUS
<1>4. \A q, l : Meets(k, q, l) <=> /\ kw = Sixteen => ((w * q) \div Eight) % 2 = 0
                                   /\ w * q <= l /\ l < w * q + kw
  BY DEF Meets
<1>5. \A b : Starts(k, t[b]) <=> (kw = Sixteen => (t[b].start \div Eight) % 2 = 0)
  BY DEF Starts
<1> HIDE DEF w, kw, t
<1>6. PICK l \in Nat : l < counts[e] /\ sorted[offsets[e] + l] = p
  BY AllPlaced
<1>7. e \in ExpertIds /\ \A d \in ExpertIds : counts[d] \in Nat
  BY CallFacts, CountsTyped
<1>8. \A d \in ExpertIds, q \in Nat : \A b : t[b] = Tile(d, w * q) =>
        /\ Starts(k, t[b]) <=> (kw = Sixteen => ((w * q) \div Eight) % 2 = 0)
        /\ TilePairs(t[b], kw) = {sorted[offsets[d] + m] : m \in {n \in w * q .. w * q + kw - 1 : n < counts[d]}}
  BY <1>5 DEF Tile, TilePairs
<1> HIDE DEF e
<1>9. PICK q \in Nat : Meets(k, q, l)
  BY DEF Reaches
<1>10. w * q \in Nat /\ w * q <= l /\ l < w * q + kw /\ (kw = Sixteen => ((w * q) \div Eight) % 2 = 0)
  BY <1>3, <1>4, <1>9
<1>11. q < Ceil(counts[e], w)
  <2>1. counts[e] \in Nat /\ w * q < counts[e]
    BY <1>6, <1>7, <1>10
  <2> QED  BY <1>3, <2>1, Ceiling
<1>12. PICK b \in DOMAIN t : t[b] = Tile(e, w * q)
  BY <1>2, <1>7, <1>11 DEF TileList
<1>13. b \in S
  <2>1. b <= Capacity(w)
    BY <1>2 DEF TileList
  <2>2. Starts(k, t[b])
    BY <1>7, <1>8, <1>10, <1>12
  <2>3. p \in TilePairs(t[b], kw)
    <3>1. l \in {n \in w * q .. w * q + kw - 1 : n < counts[e]}
      BY <1>3, <1>6, <1>10
    <3> QED  BY <1>6, <1>7, <1>8, <1>12, <3>1
  <2> QED  BY <2>1, <2>2, <2>3
<1>14. IsFiniteSet(S)
  <2>1. IsFiniteSet(DOMAIN t) /\ S \in SUBSET DOMAIN t
    BY <1>2 DEF TileList
  <2> HIDE DEF S
  <2> QED  BY <2>1, FS_Subset
<1>15. ASSUME Apart(k), NEW c \in S PROVE c = b
  <2>0. c \in DOMAIN t /\ Starts(k, t[c]) /\ p \in TilePairs(t[c], kw)
    OBVIOUS
  <2> HIDE DEF S, run
  <2>1. PICK d \in ExpertIds, r \in Nat : t[c] = Tile(d, w * r)
    BY <1>2, <2>0 DEF TileList
  <2>2. PICK m \in {n \in w * r .. w * r + kw - 1 : n < counts[d]} : sorted[offsets[d] + m] = p
    BY <1>8, <2>0, <2>1
  <2>3. w * r \in Nat
    BY <1>3
  <2>4. m \in Nat /\ w * r <= m /\ m < w * r + kw /\ m < counts[d]
    BY <1>3, <2>2, <2>3
  <2>5. d = e
    <3>1. call.selected[sorted[offsets[d] + m]] = d
      BY <2>4, AllPlaced
    <3> QED  BY <2>2, <3>1 DEF e
  <2>6. m = l
    <3>1. sorted[offsets[e] + m] = sorted[offsets[e] + l] /\ m < counts[e] /\ l < counts[e]
      BY <1>6, <2>2, <2>4, <2>5
    <3> QED  BY <1>7, <2>4, <3>1, AllPlaced
  <2>7. Meets(k, r, l)
    <3>1. kw = Sixteen => ((w * r) \div Eight) % 2 = 0
      BY <1>8, <2>0, <2>1
    <3> QED  BY <1>4, <2>4, <2>6, <3>1
  <2>8. r = q
    BY <1>9, <1>15, <2>7 DEF Apart
  <2>9. t[c] = t[b] /\ c \in DOMAIN t
    BY <1>12, <2>0, <2>1, <2>5, <2>8
  <2> QED  BY <1>2, <2>9 DEF TileList
<1> HIDE DEF S
<1>16. Times(k)[p] # 0
  BY <1>1, <1>13, <1>14, CountSome
<1>17. Apart(k) => Times(k)[p] = 1
  BY <1>1, <1>13, <1>15, CountOne
<1> QED  BY <1>16, <1>17

(* Steps of w reach each number once.                                      *)
LEMMA Stride ==
  ASSUME NEW w \in Nat \ {0}
  PROVE  /\ \A l \in Nat : \E q \in Nat : w * q <= l /\ l < w * q + w
         /\ \A q, r, l \in Nat : w * q <= l /\ l < w * q + w /\ w * r <= l /\ l < w * r + w => q = r
<1>1. ASSUME NEW l \in Nat PROVE \E q \in Nat : w * q <= l /\ l < w * q + w
  <2>1. l \div w \in Nat /\ l % w \in 0 .. w - 1 /\ l = w * (l \div w) + (l % w)
    BY DivMod
  <2>2. w * (l \div w) \in Nat
    BY <2>1
  <2> QED  BY <2>1, <2>2
<1>2. ASSUME NEW q \in Nat, NEW r \in Nat, NEW l \in Nat,
             w * q <= l, l < w * q + w, w * r <= l, l < w * r + w
      PROVE  q = r
  <2>1. w * q \in Nat /\ w * r \in Nat
    OBVIOUS
  <2>2. l - w * q \in 0 .. w - 1 /\ l - w * r \in 0 .. w - 1 /\ w * q + (l - w * q) = w * r + (l - w * r)
    BY <1>2, <2>1
  <2> QED  BY <2>2, Digits
<1> QED  BY <1>1, <1>2

LEMMA WholeSteps ==
  ASSUME NEW c \in Nat \ {0}, NEW q \in Nat
  PROVE  (c * q) \div c = q
<1>1. c * q \in Nat
  OBVIOUS
<1>2. (c * q) \div c \in Nat /\ (c * q) % c \in 0 .. c - 1 /\ c * q = c * ((c * q) \div c) + ((c * q) % c)
  BY <1>1, DivMod
<1>3. 0 \in 0 .. c - 1 /\ c * q + 0 = c * ((c * q) \div c) + ((c * q) % c)
  BY <1>1, <1>2
<1> QED  BY <1>2, <1>3, Digits

LEMMA TileStarts ==
  ASSUME Unit \in Nat \ {0}, NEW q \in Nat
  PROVE  /\ ((Sixteen * q) \div Eight) % 2 = 0
         /\ (Eight * q) \div Eight = q
<1>1. Eight \in Nat \ {0}
  BY DEF Eight
<1>2. Sixteen * q = Eight * (2 * q)
  BY DEF Sixteen, Eight
<1>3. (Sixteen * q) \div Eight = 2 * q
  BY <1>1, <1>2, WholeSteps
<1>4. (2 * q) % 2 = 0
  OBVIOUS
<1> QED  BY <1>1, <1>3, <1>4, WholeSteps

LEMMA WidthsDiffer ==
  ASSUME Unit \in Nat \ {0}
  PROVE  /\ Four \in Nat \ {0} /\ Eight \in Nat \ {0} /\ Sixteen \in Nat \ {0}
         /\ Four < Eight /\ Four # Eight /\ Four # Sixteen /\ Eight # Sixteen
BY DEF Four, Eight, Sixteen

(* Tiles as wide as the kernel's, and a kernel for sixteen pairs over the  *)
(* tiles of eight: each pair once.                                         *)
Even(k) == \/ WidthOf(k) = k.width /\ k.width \in {Four, Eight, Sixteen}
           \/ WidthOf(k) = Eight /\ k.width = Sixteen
Wider(k) == WidthOf(k) = Four /\ k.width = Eight

LEMMA EvenTiles ==
  ASSUME Unit \in Nat \ {0}, NEW k, Even(k)
  PROVE  Reaches(k) /\ Apart(k) /\ k.width \in Nat /\ WidthOf(k) \in Nat \ {0}
<1> DEFINE w == WidthOf(k)
           kw == k.width
<1>1. /\ Four \in Nat \ {0} /\ Eight \in Nat \ {0} /\ Sixteen \in Nat \ {0}
      /\ Four # Sixteen /\ Eight # Sixteen
  BY WidthsDiffer
<1>2. \A q, l : Meets(k, q, l) <=> /\ kw = Sixteen => ((w * q) \div Eight) % 2 = 0
                                   /\ w * q <= l /\ l < w * q + kw
  BY DEF Meets
<1>3. \/ w = kw /\ kw \in {Four, Eight, Sixteen}
      \/ w = Eight /\ kw = Sixteen
  BY DEF Even
<1>4. SUFFICES /\ \A l \in Nat : \E q \in Nat : Meets(k, q, l)
               /\ \A q, r, l \in Nat : Meets(k, q, l) /\ Meets(k, r, l) => q = r
  BY <1>1, <1>3 DEF Reaches, Apart
<1> HIDE DEF w, kw
<1>5. CASE w = kw /\ kw \in {Four, Eight, Sixteen}
  <2>1. w \in Nat \ {0} /\ \A q \in Nat : kw = Sixteen => ((w * q) \div Eight) % 2 = 0
    BY <1>1, <1>5, TileStarts
  <2>2. \A q, l \in Nat : Meets(k, q, l) <=> w * q <= l /\ l < w * q + w
    BY <1>2, <1>5, <2>1
  <2> QED  BY <2>1, <2>2, Stride
<1>6. CASE w = Eight /\ kw = Sixteen
  <2>1. \A q \in Nat : (w * q) \div Eight = q
    BY <1>6, TileStarts
  <2>2. \A q, l \in Nat : Meets(k, q, l) <=> q % 2 = 0 /\ w * q <= l /\ l < w * q + Sixteen
    BY <1>2, <1>6, <2>1
  <2>3. \A r \in Nat : (2 * r) % 2 = 0 /\ 2 * r \in Nat /\ w * (2 * r) = Sixteen * r
    BY <1>6 DEF Eight, Sixteen
  <2>4. \A q \in Nat : q % 2 = 0 => \E r \in Nat : q = 2 * r
    <3>1. ASSUME NEW q \in Nat, q % 2 = 0 PROVE q \div 2 \in Nat /\ q = 2 * (q \div 2)
      BY <3>1
    <3> QED  BY <3>1
  <2>5. ASSUME NEW l \in Nat PROVE \E q \in Nat : Meets(k, q, l)
    <3>1. PICK r \in Nat : Sixteen * r <= l /\ l < Sixteen * r + Sixteen
      BY <1>1, Stride
    <3>2. Meets(k, 2 * r, l) /\ 2 * r \in Nat
      BY <2>2, <2>3, <3>1
    <3> QED  BY <3>2
  <2>6. ASSUME NEW q \in Nat, NEW r \in Nat, NEW l \in Nat, Meets(k, q, l), Meets(k, r, l) PROVE q = r
    <3>1. PICK a \in Nat : q = 2 * a
      BY <2>2, <2>4, <2>6
    <3>2. PICK b \in Nat : r = 2 * b
      BY <2>2, <2>4, <2>6
    <3>3. Sixteen * a <= l /\ l < Sixteen * a + Sixteen
      BY <2>2, <2>3, <2>6, <3>1
    <3>4. Sixteen * b <= l /\ l < Sixteen * b + Sixteen
      BY <2>2, <2>3, <2>6, <3>2
    <3>5. a = b
      BY <1>1, <3>3, <3>4, Stride
    <3> QED  BY <3>1, <3>2, <3>5
  <2> QED  BY <2>5, <2>6
<1> QED  BY <1>3, <1>5, <1>6

LEMMA WiderTiles ==
  ASSUME Unit \in Nat \ {0}, NEW k, Wider(k)
  PROVE  Reaches(k) /\ k.width \in Nat /\ WidthOf(k) \in Nat \ {0}
<1>1. /\ Four \in Nat \ {0} /\ Eight \in Nat \ {0} /\ Four < Eight /\ Eight # Sixteen
  BY WidthsDiffer
<1>2. \A q, l : Meets(k, q, l) <=> Four * q <= l /\ l < Four * q + Eight
  BY <1>1 DEF Meets, Wider
<1>3. ASSUME NEW l \in Nat PROVE \E q \in Nat : Meets(k, q, l)
  <2>1. PICK q \in Nat : Four * q <= l /\ l < Four * q + Four
    BY <1>1, Stride
  <2>2. Four * q \in Nat
    BY <1>1
  <2>3. l < Four * q + Eight
    BY <1>1, <2>1, <2>2
  <2> QED  BY <1>2, <2>1, <2>3
<1> QED  BY <1>1, <1>3 DEF Reaches, Wider

-----------------------------------------------------------------------------
(* What a launch asks of its list                                          *)

GoesOver(k, once) ==
  IF Tiling THEN /\ k.list \in {"tiles", "tiles16"}
                 /\ Even(k) \/ (~once /\ Wider(k))
                 /\ k.list = "tiles16" => TilesDown16 \/ MmaTiles16
  ELSE IF Sorting THEN k.list = "sorted" /\ k.width \in {1, 2}
  ELSE k.list = "pairs"

LEMMA TileMIs == TileM \in {Four, Eight}
BY DEF TileM

LEMMA GateGoesOver == GoesOver(GateLaunch.kernel, FALSE)
<1> DEFINE k == GateLaunch.kernel
<1>1. CASE Tiling /\ Q4
  <2>1. k = Q4GateTiled.kernel
    BY <1>1 DEF GateLaunch
  <2>2. CASE ~GateSpanned
    <3>1. k = Q4GateTile8Span(32)
      BY <2>1, <2>2 DEF Q4GateTiled, Over
    <3>2. k.list = "tiles" /\ k.width = Eight /\ WidthOf(k) = TileM
      BY <3>1 DEF Q4GateTile8Span, Kernel, WidthOf
    <3>3. Even(k) \/ Wider(k)
      BY <3>2, TileMIs DEF Even, Wider
    <3> QED  BY <1>1, <3>2, <3>3 DEF GoesOver
  <2>3. CASE GateSpanned /\ MmaTiles16 /\ call.shared
    <3>1. k = Q4GateTile16Mma(GateSpan)
      BY <2>1, <2>3 DEF Q4GateTiled, Over
    <3>2. k.list = "tiles16" /\ k.width = Sixteen /\ WidthOf(k) = Sixteen
      BY <3>1 DEF Q4GateTile16Mma, Kernel, WidthOf
    <3> QED  BY <1>1, <2>3, <3>2 DEF GoesOver, Even
  <2>4. CASE GateSpanned /\ ~(MmaTiles16 /\ call.shared)
    <3>1. k = Q4GateTile8Mma(GateSpan) \/ k = Q4GateTile8Span(GateSpan)
      BY <2>1, <2>4 DEF Q4GateTiled, Over
    <3>2. k.list = "tiles" /\ k.width = Eight /\ WidthOf(k) = TileM
      BY <3>1 DEF Q4GateTile8Mma, Q4GateTile8Span, Kernel, WidthOf
    <3>3. TileM = Eight
      BY <2>4 DEF GateSpanned
    <3> QED  BY <1>1, <3>2, <3>3 DEF GoesOver, Even
  <2> QED  BY <2>2, <2>3, <2>4
<1>2. CASE Tiling /\ ~Q4
  <2>1. k = GateTiled.kernel
    BY <1>2 DEF GateLaunch
  <2>2. CASE GateSpanned \/ TileM = Eight
    <3>1. k = GateTile8Row2048 \/ k = GateTile8Span(GateSpan) \/ k = GateTile8
      BY <2>1, <2>2 DEF GateTiled, Over
    <3>2. k.list = "tiles" /\ k.width = Eight /\ WidthOf(k) = TileM
      BY <3>1 DEF GateTile8Row2048, GateTile8Span, GateTile8, Kernel, WidthOf
    <3>3. TileM = Eight
      BY <2>2 DEF GateSpanned
    <3> QED  BY <1>2, <3>2, <3>3 DEF GoesOver, Even
  <2>3. CASE ~GateSpanned /\ TileM # Eight
    <3>1. k = GateTile4 /\ TileM = Four
      BY <2>1, <2>3, TileMIs DEF GateTiled, Over
    <3>2. k.list = "tiles" /\ k.width = Four /\ WidthOf(k) = Four
      BY <3>1 DEF GateTile4, Kernel, WidthOf
    <3> QED  BY <1>2, <3>2 DEF GoesOver, Even
  <2> QED  BY <2>2, <2>3
<1>3. CASE ~Tiling /\ Sorting
  <2>1. k = GateSortedP2 \/ k = GateSorted
    BY <1>3 DEF GateLaunch, Over
  <2>2. k.list = "sorted" /\ k.width \in {1, 2}
    BY <2>1 DEF GateSortedP2, GateSorted, Kernel
  <2> QED  BY <1>3, <2>2 DEF GoesOver
<1>4. CASE ~Tiling /\ ~Sorting
  <2>1. ~PairOfTwo
    BY <1>4 DEF PairOfTwo
  <2>2. CASE Q4
    <3>1. k = Q4GateByPair.kernel
      BY <1>4, <2>1, <2>2 DEF GateLaunch
    <3>2. k \in {Q4GateMidq, Q4GateHwarp16Row8, Q4GateRow16, Q4GateSidecar, Q4GateNoAux, Q4GateWarp32,
                 Q4GateHwarp16, Q4GateQwarp32}
      BY <3>1 DEF Q4GateByPair, Over
    <3>3. k.list = "pairs"
      BY <3>2 DEF Q4GateMidq, Q4GateHwarp16Row8, Q4GateRow16, Q4GateSidecar, Q4GateNoAux, Q4GateWarp32,
                  Q4GateHwarp16, Q4GateQwarp32, Kernel
    <3> QED  BY <1>4, <3>3 DEF GoesOver
  <2>3. CASE ~Q4
    <3>1. k = GateDecodeLut \/ k = GateQwarp32
      BY <1>4, <2>1, <2>3 DEF GateLaunch, Over
    <3>2. k.list = "pairs"
      BY <3>1 DEF GateDecodeLut, GateQwarp32, Kernel
    <3> QED  BY <1>4, <3>2 DEF GoesOver
  <2> QED  BY <2>2, <2>3
<1> QED  BY <1>1, <1>2, <1>3, <1>4

LEMMA DownGoesOver ==
  ASSUME ~DirectSum
  PROVE  GoesOver(DownLaunch.kernel, AtomicDown)
<1> DEFINE k == DownLaunch.kernel
<1>1. CASE Tiling /\ Q4
  <2>0. ~AtomicDown
    BY <1>1 DEF AtomicDown
  <2>1. k = Q4DownTiled.kernel
    BY <1>1 DEF DownLaunch
  <2>2. CASE ~Q4DownSpanned
    <3>1. k = Q4DownTile8Span(32)
      BY <2>1, <2>2 DEF Q4DownTiled, Over
    <3>2. k.list = "tiles" /\ k.width = Eight /\ WidthOf(k) = TileM
      BY <3>1 DEF Q4DownTile8Span, Kernel, WidthOf
    <3>3. Even(k) \/ Wider(k)
      BY <3>2, TileMIs DEF Even, Wider
    <3> QED  BY <1>1, <2>0, <3>2, <3>3 DEF GoesOver
  <2>3. CASE Q4DownSpanned /\ MmaTiles16 /\ call.shared
    <3>1. k = Q4DownTile16Mma(DownSpan)
      BY <2>1, <2>3 DEF Q4DownTiled, Over
    <3>2. k.list = "tiles16" /\ k.width = Sixteen /\ WidthOf(k) = Sixteen
      BY <3>1 DEF Q4DownTile16Mma, Kernel, WidthOf
    <3> QED  BY <1>1, <2>3, <3>2 DEF GoesOver, Even
  <2>4. CASE Q4DownSpanned /\ ~(MmaTiles16 /\ call.shared)
    <3>1. k = Q4DownTile8Mma(DownSpan) \/ k = Q4DownTile8Span(DownSpan)
      BY <2>1, <2>4 DEF Q4DownTiled, Over
    <3>2. k.list = "tiles" /\ k.width = Eight /\ WidthOf(k) = TileM
      BY <3>1 DEF Q4DownTile8Mma, Q4DownTile8Span, Kernel, WidthOf
    <3>3. TileM = Eight
      BY <2>4 DEF Q4DownSpanned
    <3> QED  BY <1>1, <3>2, <3>3 DEF GoesOver, Even
  <2> QED  BY <2>2, <2>3, <2>4
<1>2. CASE Tiling /\ ~Q4
  <2>1. k = DownTiled.kernel
    BY <1>2 DEF DownLaunch
  <2>2. CASE TilesDown16
    <3>1. k \in {DownTile16Row2048("tiles16"), DownTile16Span("tiles16", DownSpan), DownTile16("tiles16")}
      BY <2>1, <2>2 DEF DownTiled, DownList, Over
    <3>2. k.list = "tiles16" /\ k.width = Sixteen /\ WidthOf(k) = Sixteen
      BY <3>1 DEF DownTile16Row2048, DownTile16Span, DownTile16, Kernel, WidthOf
    <3> QED  BY <1>2, <2>2, <3>2 DEF GoesOver, Even
  <2>3. CASE ~TilesDown16 /\ DownSpanned
    <3>1. k \in {DownTile16Row2048("tiles"), DownTile16Span("tiles", DownSpan)}
      BY <2>1, <2>3 DEF DownTiled, DownList, Over
    <3>2. k.list = "tiles" /\ k.width = Sixteen /\ WidthOf(k) = TileM
      BY <3>1 DEF DownTile16Row2048, DownTile16Span, Kernel, WidthOf
    <3>3. TileM = Eight
      BY <2>3 DEF DownSpanned
    <3> QED  BY <1>2, <3>2, <3>3 DEF GoesOver, Even
  <2>4. CASE ~TilesDown16 /\ ~DownSpanned
    <3>1. \/ TileM = Eight /\ k = DownTile8
          \/ TileM = Four /\ k = DownTile4
      BY <2>1, <2>4, TileMIs DEF DownTiled, Over
    <3>2. k.list = "tiles" /\ k.width = TileM /\ WidthOf(k) = TileM
      BY <3>1 DEF DownTile8, DownTile4, Kernel, WidthOf
    <3> QED  BY <1>2, <3>2, TileMIs DEF GoesOver, Even
  <2> QED  BY <2>2, <2>3, <2>4
<1>3. CASE ~Tiling /\ Sorting
  <2>1. k = DownSortedP2 \/ k = DownSorted
    BY <1>3 DEF DownLaunch, Over
  <2>2. k.list = "sorted" /\ k.width \in {1, 2}
    BY <2>1 DEF DownSortedP2, DownSorted, Kernel
  <2> QED  BY <1>3, <2>2 DEF GoesOver
<1>4. CASE ~Tiling /\ ~Sorting
  <2>1. k = Q4DownQwarp32 \/ k = DownQwarp32
    BY <1>4 DEF DownLaunch, PairOfTwo, Over
  <2>2. k.list = "pairs"
    BY <2>1 DEF Q4DownQwarp32, DownQwarp32, Kernel
  <2> QED  BY <1>4, <2>2 DEF GoesOver
<1> QED  BY <1>1, <1>2, <1>3, <1>4

(* The lists when the kernels go over them.                                *)
Listed ==
  /\ Sorting => Counted /\ Offsets /\ PairsPlaced /\ left = {}
  /\ Tiling => tiles = Built

LEMMA KernelTimes ==
  ASSUME MoeAssumption, call \in Calls, Listed, NEW k, NEW once \in BOOLEAN, GoesOver(k, once), NEW p \in Pairs
  PROVE  Times(k)[p] # 0 /\ (Tiling /\ once => Times(k)[p] = 1)
<1>1. CASE Tiling
  <2>1. Sorting
    BY <1>1 DEF Tiling
  <2>2. /\ k.list \in {"tiles", "tiles16"}
        /\ Even(k) \/ (~once /\ Wider(k))
        /\ k.list = "tiles16" => TilesDown16 \/ MmaTiles16
    BY <1>1 DEF GoesOver
  <2>3. Unit \in Nat \ {0}
    BY DEF MoeAssumption
  <2>4. Reaches(k) /\ k.width \in Nat /\ WidthOf(k) \in Nat \ {0} /\ (once => Apart(k))
    BY <2>2, <2>3, EvenTiles, WiderTiles
  <2>5. tiles[WidthOf(k)] = TilesFor(WidthOf(k))
    <3>1. WidthOf(k) = TileM \/ (WidthOf(k) = Sixteen /\ (TilesDown16 \/ MmaTiles16))
      BY <2>2 DEF WidthOf
    <3>2. tiles = Built /\ WidthOf(k) \in {Four, Eight, Sixteen}
      BY <1>1, <3>1, TileMIs DEF Listed
    <3> QED  BY <3>1, <3>2 DEF Built
  <2>6. Counted /\ Offsets /\ PairsPlaced /\ left = {}
    BY <2>1 DEF Listed
  <2>7. Times(k)[p] # 0 /\ (Apart(k) => Times(k)[p] = 1)
    <3>1. k.list \in {"tiles", "tiles16"}
      BY <2>2
    <3>2. Reaches(k) /\ k.width \in Nat /\ WidthOf(k) \in Nat \ {0}
      BY <2>4
    <3>3. Counted /\ Offsets /\ PairsPlaced
      BY <2>6
    <3>4. left = {}
      BY <2>6
    <3> QED  BY <2>5, <3>1, <3>2, <3>3, <3>4, TilesTimes
  <2> QED  BY <2>4, <2>7
<1>2. CASE ~Tiling /\ Sorting
  <2>1. k.list = "sorted" /\ k.width \in Nat \ {0}
    BY <1>2 DEF GoesOver
  <2>2. Counted /\ Offsets /\ PairsPlaced /\ left = {}
    BY <1>2 DEF Listed
  <2> QED  BY <1>2, <2>1, <2>2, SortedTimes
<1>3. CASE ~Tiling /\ ~Sorting
  <2>1. k.list = "pairs"
    BY <1>3 DEF GoesOver
  <2> QED  BY <1>3, <2>1, PairsTimes
<1> QED  BY <1>1, <1>2, <1>3

(* The blocks that are started have the rows they go over, in whole        *)
(* passes.                                                                 *)
Fitting(l) == /\ l.grid = l.kernel.span
              /\ \/ l.kernel.span = l.kernel.pass /\ l.kernel.pass \in {8, 16, 32}
                 \/ l.kernel.span \in {256, 512, 1024, 2048} /\ l.kernel.pass \in {32, 64}

LEMMA FittingFills ==
  ASSUME NEW l, Fitting(l), NEW dim \in Nat
  PROVE  Fills(l, dim)
<1>1. l.kernel.span \in Nat \ {0} /\ l.kernel.span % l.kernel.pass = 0
  BY DEF Fitting
<1>2. Ceil(dim, l.kernel.span) \in Nat
  BY <1>1, Ceiling
<1> QED  BY <1>1, <1>2 DEF Fitting, Fills

LEMMA Spans == GateSpan \in {512, 1024, 2048} /\ DownSpan \in {512, 1024, 2048}
BY DEF GateSpan, DownSpan

LEMMA GateFits == Fitting(GateLaunch)
<1>1. Fitting(Q4GateTiled)
  <2>1. \A s \in {32, 512, 1024, 2048} : Fitting(Over(s, Q4GateTile8Span(s)))
    BY DEF Q4GateTile8Span, Kernel, Over, Fitting
  <2>2. \A s \in {512, 1024, 2048} : Fitting(Over(s, Q4GateTile16Mma(s))) /\ Fitting(Over(s, Q4GateTile8Mma(s)))
    BY DEF Q4GateTile16Mma, Q4GateTile8Mma, Kernel, Over, Fitting
  <2>3. /\ Fitting(Over(32, Q4GateTile8Span(32))) /\ Fitting(Over(GateSpan, Q4GateTile8Span(GateSpan)))
        /\ Fitting(Over(GateSpan, Q4GateTile16Mma(GateSpan))) /\ Fitting(Over(GateSpan, Q4GateTile8Mma(GateSpan)))
    BY <2>1, <2>2, Spans
  <2>4. Q4GateTiled \in {Over(32, Q4GateTile8Span(32)), Over(GateSpan, Q4GateTile8Span(GateSpan)),
                        Over(GateSpan, Q4GateTile16Mma(GateSpan)), Over(GateSpan, Q4GateTile8Mma(GateSpan))}
    BY DEF Q4GateTiled
  <2> QED  BY <2>3, <2>4
<1>2. Fitting(GateTiled)
  BY Spans DEF GateTiled, GateTile8Row2048, GateTile8Span, GateTile8, GateTile4, Kernel, Over, Fitting
<1>3. Fitting(Q4GateByPair)
  BY DEF Q4GateByPair, Q4GateMidq, Q4GateHwarp16Row8, Q4GateRow16, Q4GateSidecar, Q4GateNoAux, Q4GateWarp32,
         Q4GateHwarp16, Q4GateQwarp32, Kernel, Over, Fitting
<1>4. /\ Fitting(Over(16, GateSortedP2)) /\ Fitting(Over(32, GateSorted))
      /\ Fitting(Over(32, GateDecodeLut)) /\ Fitting(Over(32, GateQwarp32))
  BY DEF GateSortedP2, GateSorted, GateDecodeLut, GateQwarp32, Kernel, Over, Fitting
<1> QED  BY <1>1, <1>2, <1>3, <1>4 DEF GateLaunch

LEMMA DownFits == Fitting(DownLaunch)
<1>1. Fitting(Q4DownTiled)
  <2>1. \A s \in {32, 512, 1024, 2048} : Fitting(Over(s, Q4DownTile8Span(s)))
    BY DEF Q4DownTile8Span, Kernel, Over, Fitting
  <2>2. \A s \in {512, 1024, 2048} : Fitting(Over(s, Q4DownTile16Mma(s))) /\ Fitting(Over(s, Q4DownTile8Mma(s)))
    BY DEF Q4DownTile16Mma, Q4DownTile8Mma, Kernel, Over, Fitting
  <2>3. /\ Fitting(Over(32, Q4DownTile8Span(32))) /\ Fitting(Over(DownSpan, Q4DownTile8Span(DownSpan)))
        /\ Fitting(Over(DownSpan, Q4DownTile16Mma(DownSpan))) /\ Fitting(Over(DownSpan, Q4DownTile8Mma(DownSpan)))
    BY <2>1, <2>2, Spans
  <2>4. Q4DownTiled \in {Over(32, Q4DownTile8Span(32)), Over(DownSpan, Q4DownTile8Span(DownSpan)),
                        Over(DownSpan, Q4DownTile16Mma(DownSpan)), Over(DownSpan, Q4DownTile8Mma(DownSpan))}
    BY DEF Q4DownTiled
  <2> QED  BY <2>3, <2>4
<1>2. Fitting(DownTiled)
  BY Spans DEF DownTiled, DownTile16Row2048, DownTile16Span, DownTile16, DownTile8, DownTile4, Kernel, Over, Fitting
<1>3. Fitting(DirectDown)
  BY DEF DirectDown, Q4DownSum6, Q4DownSlotwarp, Q4DownSum3, DownSum6, DownSum3, Kernel, Over, Fitting
<1>4. /\ Fitting(Over(16, DownSortedP2)) /\ Fitting(Over(32, DownSorted))
      /\ Fitting(Over(32, Q4DownQwarp32)) /\ Fitting(Over(32, DownQwarp32))
  BY DEF DownSortedP2, DownSorted, Q4DownQwarp32, DownQwarp32, Kernel, Over, Fitting
<1> QED  BY <1>1, <1>2, <1>3, <1>4 DEF DownLaunch

LEMMA LaunchesFill ==
  ASSUME MoeAssumption
  PROVE  Fills(GateLaunch, MidDim) /\ Fills(DownLaunch, OutDim)
<1>1. MidDim \in Nat /\ OutDim \in Nat
  BY DEF MoeAssumption
<1> QED  BY <1>1, GateFits, DownFits, FittingFills

-----------------------------------------------------------------------------
(* One step                                                                *)

LEMMA SameCall ==
  ASSUME call' = call
  PROVE  /\ Pairs' = Pairs /\ ExpertIds' = ExpertIds
         /\ (Sorting' <=> Sorting) /\ (Tiling' <=> Tiling)
         /\ (DirectSum' <=> DirectSum) /\ (Sidecar' <=> Sidecar) /\ (AtomicDown' <=> AtomicDown)
         /\ (Adding' <=> Adding)
         /\ \A v : All(v)' = All(v)
<1>1. Pairs' = Pairs /\ ExpertIds' = ExpertIds
  BY DEF Pairs, ExpertIds
<1>2. (Sorting' <=> Sorting) /\ (Tiling' <=> Tiling)
  BY DEF Sorting, Tiling, Q4, Has
<1>3. DirectSum' <=> DirectSum
  BY DEF DirectSum, Has
<1>4. Sidecar' <=> Sidecar
  BY <1>3 DEF Sidecar, NoAux, DirectMidq, GateW32, GateH16R8, GateH16, GateW32R16, WriteAux, Q4, Has
<1>5. AtomicDown' <=> AtomicDown
  BY <1>2 DEF AtomicDown, Q4, Has
<1>6. \A v : All(v)' = All(v)
  BY <1>1 DEF All
<1>7. Adding' <=> Adding
  BY <1>3, <1>5 DEF Adding
<1> QED  BY <1>1, <1>2, <1>3, <1>4, <1>5, <1>6, <1>7

LEMMA SameLists ==
  ASSUME call' = call, UNCHANGED lists
  PROVE  /\ (Counted' <=> Counted) /\ (Offsets' <=> Offsets) /\ (PairsPlaced' <=> PairsPlaced)
         /\ left' = left /\ sorted' = sorted /\ tiles' = tiles /\ Built' = Built
<1>1. /\ counts' = counts /\ offsets' = offsets /\ cursors' = cursors /\ left' = left
      /\ sorted' = sorted /\ tiles' = tiles
  BY DEF lists
<1>2. Pairs' = Pairs /\ ExpertIds' = ExpertIds
  BY SameCall
<1>3. \A e : OfExpert(e)' = OfExpert(e)
  BY <1>2 DEF OfExpert
<1>4. Counted' <=> Counted
  BY <1>1, <1>2, <1>3 DEF Counted
<1>5. Offsets' <=> Offsets
  BY <1>1, <1>2 DEF Offsets, SumBefore
<1>6. PairsPlaced' <=> PairsPlaced
  BY <1>1, <1>2, <1>3 DEF PairsPlaced, PlacesOf
<1>7. Built' = Built
  BY <1>1 DEF Built, TilesFor, TilesOf, SumBefore, ExpertIds, TileM, TilesDown16, MmaTiles16, AtomicDown, Tiling,
              Sorting, Q4, Has
<1> QED  BY <1>1, <1>4, <1>5, <1>6, <1>7

(* The lists stay what they are for as long as the kernels work.           *)
LEMMA ListsStay ==
  ASSUME ListInv, call' = call, UNCHANGED lists, step' \notin {"prefix", "scatter", "tiles"},
         step' = "count" => Sorting, step' \in Working => step \in Working \/ ~Sorting
  PROVE  ListInv'
<1>1. /\ (Sorting' <=> Sorting) /\ (Tiling' <=> Tiling)
      /\ (Counted' <=> Counted) /\ (Offsets' <=> Offsets) /\ (PairsPlaced' <=> PairsPlaced)
      /\ left' = left /\ tiles' = tiles /\ Built' = Built
  BY SameCall, SameLists
<1>2. Working' = Working
  BY DEF Working
<1>3. Tiling => Sorting
  BY DEF Tiling
<1>4. CASE step' \notin Working
  BY <1>1, <1>2, <1>4 DEF ListInv
<1>5. CASE step' \in Working /\ ~Sorting
  BY <1>1, <1>2, <1>3, <1>5 DEF ListInv, Working
<1>6. CASE step' \in Working /\ Sorting
  <2>1. step \in Working
    BY <1>6
  <2>2. Counted /\ Offsets /\ PairsPlaced /\ left = {} /\ (Tiling => tiles = Built)
    BY <1>6, <2>1 DEF ListInv
  <2> QED  BY <1>1, <1>2, <2>2 DEF ListInv
<1> QED  BY <1>4, <1>5, <1>6

LEMMA ListsReady ==
  ASSUME ListInv, step \in Working
  PROVE  Listed
BY DEF ListInv, Listed

LEMMA PlanParts ==
  /\ Head(<<"sum">>) = "sum" /\ Tail(<<"sum">>) = <<>>
  /\ Head(<<"downsum">>) = "downsum" /\ Tail(<<"downsum">>) = <<>>
  /\ Head(<<"down", "sum">>) = "down" /\ Tail(<<"down", "sum">>) = <<"sum">>
  /\ Head(<<"fused", "sum">>) = "fused" /\ Tail(<<"fused", "sum">>) = <<"sum">>
  /\ Head(<<"mid", "downsum">>) = "mid" /\ Tail(<<"mid", "downsum">>) = <<"downsum">>
  /\ Head(<<"mid", "down", "sum">>) = "mid" /\ Tail(<<"mid", "down", "sum">>) = <<"down", "sum">>
  /\ Head(<<"swiglu", "down", "sum">>) = "swiglu" /\ Tail(<<"swiglu", "down", "sum">>) = <<"down", "sum">>
  /\ Head(PairPlan) = "pair" /\ Tail(PairPlan) = <<"swiglu", "down", "sum">>
  /\ \A q \in PlanTails : q # <<>>
BY DEF PairPlan, PlanTails

LEMMA FromAll ==
  ASSUME NEW times, NEW ok, NEW value, NEW old, \A p \in Pairs : times[p] # 0, \A p \in Pairs : ok[p]
  PROVE  From(times, ok, value, old) = All(value)
BY DEF From, All

(* A step that goes on, without the sums, and one that ends.               *)
Steady == call' = call /\ ListInv' /\ PlanInv' /\ ValueInv'

LEMMA GoesOn ==
  ASSUME MoeInv, Steady, step # "done", ret' = ret
  PROVE  MoeInv'
BY DEF MoeInv, Steady, RoutedSum

LEMMA Refuses ==
  ASSUME MoeInv, call' = call, UNCHANGED lists, Return(0)
  PROVE  MoeInv'
<1>1. step' = "done" /\ ret' = 0
  BY DEF Return
<1>2. ListInv'
  BY <1>1, ListsStay DEF MoeInv, Working
<1>3. PlanInv' /\ ValueInv'
  BY <1>1 DEF PlanInv, ValueInv
<1> QED  BY <1>1, <1>2, <1>3 DEF MoeInv, RoutedSum

LEMMA Succeeds ==
  ASSUME MoeInv, call' = call, UNCHANGED lists, Return(1), clean' <=> ~unzeroed',
         \A p \in Pairs : out'[p] = 1
  PROVE  MoeInv'
<1>1. step' = "done" /\ ret' = 1 /\ Pairs' = Pairs
  BY SameCall DEF Return
<1>2. ListInv'
  BY <1>1, ListsStay DEF MoeInv, Working
<1>3. PlanInv' /\ ValueInv'
  BY <1>1 DEF PlanInv, ValueInv
<1> QED  BY <1>1, <1>2, <1>3 DEF MoeInv, RoutedSum

(* The tiers.                                                              *)
LEMMA EnterTier ==
  ASSUME MoeInv, call' = call, UNCHANGED lists, step # "done", NEW t \in {"aligned", "mxfp4", "mmq"}, Enter(t)
  PROVE  MoeInv'
<1>1. step' = "tier" /\ plan' = PlanOf(t) /\ ret' = ret
  BY DEF Enter
<1>2. ListInv'
  BY <1>1, ListsStay DEF MoeInv, Working
<1>3. PlanInv'
  <2>1. plan' \in {<<"mid", "down", "sum">>, <<"fused", "sum">>, <<"mid", "downsum">>, PairPlan}
    BY <1>1 DEF PlanOf
  <2>2. Head(plan') \in {"mid", "fused", "pair"} /\ plan' \in PlanTails
    BY <2>1, PlanParts DEF PlanTails
  <2> QED  BY <2>2 DEF PlanInv, PlanTails, PairPlan
<1>4. ValueInv'
  BY <1>1 DEF ValueInv
<1> QED  BY <1>1, <1>2, <1>3, <1>4, GoesOn DEF Steady

LEMMA PassTier ==
  ASSUME MoeInv, call' = call, UNCHANGED lists, step # "done",
         NEW next \in {"mxfp4", "mmq", "resolve"}, step' = next, ret' = ret
  PROVE  MoeInv'
<1>1. ListInv'
  BY ListsStay DEF MoeInv, Working
<1>2. PlanInv' /\ ValueInv'
  BY DEF PlanInv, ValueInv
<1> QED  BY <1>1, <1>2, GoesOn DEF Steady

LEMMA TryKeeps ==
  ASSUME MoeInv, TryAligned \/ TryMxfp4 \/ TryMmq
  PROVE  MoeInv'
<1>1. call' = call /\ UNCHANGED lists /\ step # "done"
  BY DEF TryAligned, TryMxfp4, TryMmq
<1>2. \/ Enter("aligned") \/ Enter("mxfp4") \/ Enter("mmq")
      \/ Pass("mxfp4") \/ Pass("mmq") \/ Pass("resolve")
      \/ Return(0)
  BY DEF TryAligned, TryMxfp4, TryMmq
<1>3. CASE Enter("aligned") \/ Enter("mxfp4") \/ Enter("mmq")
  BY <1>1, <1>3, EnterTier
<1>4. CASE Pass("mxfp4") \/ Pass("mmq") \/ Pass("resolve")
  <2>1. step' \in {"mxfp4", "mmq", "resolve"} /\ ret' = ret
    BY <1>4 DEF Pass, Proceed
  <2> QED  BY <1>1, <2>1, PassTier
<1>5. CASE Return(0)
  BY <1>1, <1>5, Refuses
<1> QED  BY <1>2, <1>3, <1>4, <1>5

LEMMA TierFailsKeeps ==
  ASSUME MoeInv, TierFails
  PROVE  MoeInv'
<1>1. call' = call /\ UNCHANGED lists /\ step # "done"
  BY DEF TierFails
<1>2. Return(0) \/ Proceed("mmq") \/ Proceed("resolve")
  BY DEF TierFails
<1>3. CASE Return(0)
  BY <1>1, <1>3, Refuses
<1>4. CASE Proceed("mmq") \/ Proceed("resolve")
  <2>1. step' \in {"mmq", "resolve"} /\ ret' = ret
    BY <1>4 DEF Proceed
  <2> QED  BY <1>1, <2>1, PassTier
<1> QED  BY <1>2, <1>3, <1>4

(* A launch of a tier leaves the sums alone, or is its last one.           *)
LEMMA TierSums ==
  ASSUME MoeInv, TierLaunch
  PROVE  unzeroed' = unzeroed /\ (plan' = <<>> \/ out' = out)
<1>1. plan \in PlanTails /\ plan' = Tail(plan)
  BY DEF MoeInv, PlanInv, TierLaunch
<1>2. \/ Head(plan) = "sum" /\ plan' = <<>>
      \/ Head(plan) = "downsum" /\ plan' = <<>>
      \/ Head(plan) \in {"pair", "swiglu", "mid", "fused", "down"}
  BY <1>1, PlanParts DEF PlanTails
<1>3. CASE Head(plan) = "sum" /\ plan' = <<>>
  <2>1. Summed
    BY <1>3 DEF TierLaunch
  <2> QED  BY <1>3, <2>1 DEF Summed
<1>4. CASE Head(plan) = "downsum" /\ plan' = <<>>
  <2>1. UNCHANGED <<unzeroed, buffers>>
    BY <1>4 DEF TierLaunch
  <2> QED  BY <1>4, <2>1
<1>5. CASE Head(plan) \in {"pair", "swiglu", "mid", "fused", "down"}
  <2>1. UNCHANGED sums
    <3>1. CASE Head(plan) = "pair"
      BY <3>1 DEF TierLaunch
    <3>2. CASE Head(plan) = "swiglu"
      BY <3>2 DEF TierLaunch
    <3>3. CASE Head(plan) = "mid"
      BY <3>3 DEF TierLaunch
    <3>4. CASE Head(plan) = "fused"
      BY <3>4 DEF TierLaunch
    <3>5. CASE Head(plan) = "down"
      BY <3>5 DEF TierLaunch
    <3> QED  BY <1>5, <3>1, <3>2, <3>3, <3>4, <3>5
  <2> QED  BY <2>1 DEF sums
<1> QED  BY <1>2, <1>3, <1>4, <1>5

LEMMA TierLaunchKeeps ==
  ASSUME MoeInv, SumInv, TierLaunch
  PROVE  MoeInv'
<1>0. call' = call /\ UNCHANGED lists /\ step = "tier" /\ plan' = Tail(plan) /\ Pairs' = Pairs
  BY SameCall DEF TierLaunch
<1>1. /\ plan \in PlanTails
      /\ Head(plan) = "swiglu" => gate = All("gate") /\ up = All("up")
      /\ Head(plan) \in {"down", "downsum"} => mid = All("mid")
      /\ Head(plan) = "sum" => down = All("down")
  BY <1>0 DEF MoeInv, PlanInv
<1>2. \A v : All(v)' = All(v) /\ \A p \in Pairs : All(v)[p] = v
  BY <1>0, SameCall DEF All
<1>3. CASE plan' = <<>>
  <2>1. Return(1)
    BY <1>3 DEF TierLaunch
  <2>2. plan = <<"sum">> \/ plan = <<"downsum">>
    BY <1>0, <1>1, <1>3, PlanParts DEF PlanTails
  <2>3. clean' /\ \A p \in Pairs : out'[p] = 1
    <3>1. CASE plan = <<"sum">>
      <4>1. Head(plan) = "sum"
        BY <3>1, PlanParts
      <4>2. Summed
        BY <4>1 DEF TierLaunch
      <4>3. down = All("down")
        BY <1>1, <4>1
      <4> QED  BY <1>2, <4>2, <4>3 DEF Summed
    <3>2. CASE plan = <<"downsum">>
      <4>1. Head(plan) = "downsum"
        BY <3>2, PlanParts
      <4>2. out' = All(1) /\ clean' = (\A p \in Pairs : mid[p] = "mid")
        BY <4>1 DEF TierLaunch
      <4>3. mid = All("mid")
        BY <1>1, <4>1
      <4> QED  BY <1>2, <4>2, <4>3
    <3> QED  BY <2>2, <3>1, <3>2
  <2>4. ~unzeroed'
    <3>1. unzeroed' = unzeroed
      BY TierSums
    <3> QED  BY <1>0, <3>1 DEF SumInv
  <2> QED  BY <1>0, <2>1, <2>3, <2>4, Succeeds
<1>4. CASE plan' # <<>>
  <2>1. step' = "tier" /\ ret' = ret
    BY <1>4 DEF TierLaunch, Proceed
  <2>2. \/ Head(plan) = "fused" /\ plan' = <<"sum">>
        \/ Head(plan) = "down" /\ plan' = <<"sum">>
        \/ Head(plan) = "mid" /\ plan' = <<"downsum">>
        \/ Head(plan) = "mid" /\ plan' = <<"down", "sum">>
        \/ Head(plan) = "swiglu" /\ plan' = <<"down", "sum">>
        \/ Head(plan) = "pair" /\ plan' = <<"swiglu", "down", "sum">>
    BY <1>0, <1>1, <1>4, PlanParts DEF PlanTails
  <2>3. PlanInv'
    <3>1. SUFFICES /\ plan' \in PlanTails
                   /\ Head(plan') = "swiglu" => gate' = All("gate") /\ up' = All("up")
                   /\ Head(plan') \in {"down", "downsum"} => mid' = All("mid")
                   /\ Head(plan') = "sum" => down' = All("down")
      BY <1>2 DEF PlanInv, PlanTails, PairPlan
    <3>2. CASE Head(plan) = "fused" /\ plan' = <<"sum">>
      <4>1. down' = All("down")
        BY <3>2 DEF TierLaunch
      <4> QED  BY <3>2, <4>1, PlanParts DEF PlanTails
    <3>3. CASE Head(plan) = "down" /\ plan' = <<"sum">>
      <4>1. down' = [p \in Pairs |-> DownOf(p)] /\ mid = All("mid")
        BY <1>1, <3>3 DEF TierLaunch
      <4>2. down' = All("down")
        BY <4>1 DEF DownOf, All
      <4> QED  BY <3>3, <4>2, PlanParts DEF PlanTails
    <3>4. CASE Head(plan) = "mid" /\ (plan' = <<"downsum">> \/ plan' = <<"down", "sum">>)
      <4>1. mid' = All("mid")
        BY <3>4 DEF TierLaunch
      <4> QED  BY <3>4, <4>1, PlanParts DEF PlanTails
    <3>5. CASE Head(plan) = "swiglu" /\ plan' = <<"down", "sum">>
      <4>1. mid' = [p \in Pairs |-> MidOf(p)] /\ gate = All("gate") /\ up = All("up")
        BY <1>1, <3>5 DEF TierLaunch
      <4>2. mid' = All("mid")
        BY <4>1 DEF MidOf, All
      <4> QED  BY <3>5, <4>2, PlanParts DEF PlanTails
    <3>6. CASE Head(plan) = "pair" /\ plan' = <<"swiglu", "down", "sum">>
      <4>1. gate' = All("gate") /\ up' = All("up")
        BY <3>6 DEF TierLaunch
      <4> QED  BY <3>6, <4>1, PlanParts DEF PlanTails
    <3> QED  BY <2>2, <3>2, <3>3, <3>4, <3>5, <3>6
  <2>4. ListInv'
    BY <1>0, <2>1, ListsStay DEF MoeInv, Working
  <2>5. ValueInv'
    BY <2>1 DEF ValueInv
  <2> QED  BY <1>0, <2>1, <2>3, <2>4, <2>5, GoesOn DEF Steady
<1> QED  BY <1>3, <1>4

(* The kernels of this file.                                               *)
LEMMA ResolveKeeps ==
  ASSUME MoeInv, Resolve
  PROVE  MoeInv'
<1>1. /\ call' = call /\ UNCHANGED lists /\ step = "resolve" /\ ret' = ret
      /\ step' \in {"plain gate", "graph", "quantize"}
  BY DEF Resolve, Proceed, chosen
<1>2. ListInv'
  BY <1>1, ListsStay DEF MoeInv, Working
<1>3. PlanInv' /\ ValueInv'
  BY <1>1 DEF PlanInv, ValueInv
<1> QED  BY <1>1, <1>2, <1>3, GoesOn DEF Steady

LEMMA GraphKeeps ==
  ASSUME MoeAssumption, MoeInv, SumInv, Graph
  PROVE  MoeInv'
<1>1. call' = call /\ UNCHANGED lists /\ Return(1) /\ out' = All(1)
      /\ clean' = (Fills(GateLaunch, MidDim) /\ Fills(DownLaunch, OutDim))
  BY DEF Graph, chosen
<1>2. clean' /\ \A p \in Pairs : out'[p] = 1
  BY <1>1, LaunchesFill DEF All
<1>3. ~unzeroed'
  BY DEF Graph, SumInv
<1> QED  BY <1>1, <1>2, <1>3, Succeeds

LEMMA GivesWayKeeps ==
  ASSUME MoeInv, GraphGivesWay
  PROVE  MoeInv'
<1>1. /\ call' = call /\ UNCHANGED lists /\ step = "graph" /\ ret' = ret /\ step' = "quantize"
  BY DEF GraphGivesWay, Proceed, chosen
<1>2. ListInv'
  BY <1>1, ListsStay DEF MoeInv, Working
<1>3. PlanInv' /\ ValueInv'
  BY <1>1 DEF PlanInv, ValueInv
<1> QED  BY <1>1, <1>2, <1>3, GoesOn DEF Steady

LEMMA QuantizeInputKeeps ==
  ASSUME MoeInv, QuantizeInput
  PROVE  MoeInv'
<1>1. /\ call' = call /\ UNCHANGED lists /\ step = "quantize" /\ ret' = ret /\ down' = All("xq")
      /\ step' = IF Sorting THEN "count" ELSE "gate"
  BY DEF QuantizeInput, Proceed, chosen
<1>2. ListInv'
  BY <1>1, ListsStay DEF MoeInv, Working
<1>3. PlanInv'
  BY <1>1 DEF PlanInv
<1>4. ValueInv'
  BY <1>1, SameCall DEF ValueInv
<1> QED  BY <1>1, <1>2, <1>3, <1>4, GoesOn DEF Steady

LEMMA CountKeeps ==
  ASSUME MoeAssumption, MoeInv, CountPairs
  PROVE  MoeInv'
<1>1. /\ call' = call /\ step = "count" /\ step' = "prefix" /\ ret' = ret /\ down' = down
      /\ counts' = [e \in ExpertIds |-> Cardinality(OfExpert(e))] /\ sorted' = [i \in Pairs |-> -1]
  BY DEF CountPairs, Proceed, chosen, buffers, OfExpert
<1>2. Pairs' = Pairs /\ ExpertIds' = ExpertIds /\ \A v : All(v)' = All(v)
  BY <1>1, SameCall
<1>3. ListInv'
  <2>1. Counted'
    BY <1>1, <1>2 DEF Counted, OfExpert
  <2>2. sorted' \in [Pairs' -> Int]
    BY <1>1, <1>2
  <2>3. Sorting'
    BY <1>1, SameCall DEF MoeInv, ListInv
  <2> QED  BY <1>1, <2>1, <2>2, <2>3 DEF ListInv, Working
<1>4. PlanInv'
  BY <1>1 DEF PlanInv
<1>5. ValueInv'
  BY <1>1, <1>2 DEF MoeInv, ValueInv
<1> QED  BY <1>1, <1>3, <1>4, <1>5, GoesOn DEF Steady

LEMMA PrefixKeeps ==
  ASSUME MoeAssumption, MoeInv, Prefix
  PROVE  MoeInv'
<1>1. /\ call' = call /\ step = "prefix" /\ step' = "scatter" /\ ret' = ret /\ down' = down
  BY DEF Prefix, Proceed, chosen, buffers
<1>2. \A v : All(v)' = All(v)
  BY <1>1, SameCall
<1>3. call \in Calls /\ Counted /\ Sorting /\ sorted \in [Pairs -> Int]
  BY <1>1 DEF MoeInv, ListInv
<1>4. Counted' /\ Offsets' /\ PairsPlaced'
  BY <1>3, PrefixPlaces
<1>5. ListInv'
  BY <1>1, <1>3, <1>4, SameCall DEF ListInv, Working
<1>6. PlanInv' /\ ValueInv'
  BY <1>1, <1>2 DEF MoeInv, PlanInv, ValueInv
<1> QED  BY <1>1, <1>5, <1>6, GoesOn DEF Steady

LEMMA ScatterKeeps ==
  ASSUME MoeAssumption, MoeInv, Scatter
  PROVE  MoeInv'
<1>1. /\ call' = call /\ step = "scatter" /\ ret' = ret /\ down' = down
      /\ step' = IF left' # {} THEN "scatter" ELSE IF Tiling THEN "tiles" ELSE "gate"
  BY DEF Scatter, Proceed, chosen, buffers
<1>2. \A v : All(v)' = All(v)
  BY <1>1, SameCall
<1>3. call \in Calls /\ Counted /\ Offsets /\ PairsPlaced /\ Sorting
  BY <1>1 DEF MoeInv, ListInv
<1>4. Counted' /\ Offsets' /\ PairsPlaced'
  BY <1>3, ScatterPlaces
<1>5. ListInv'
  <2>1. (Sorting' <=> Sorting) /\ (Tiling' <=> Tiling)
    BY <1>1, SameCall
  <2>2. \/ step' = "scatter"
        \/ step' = "tiles" /\ Tiling /\ left' = {}
        \/ step' = "gate" /\ ~Tiling /\ left' = {}
    BY <1>1
  <2> QED  BY <1>3, <1>4, <2>1, <2>2 DEF ListInv, Working
<1>6. PlanInv' /\ ValueInv'
  <2>1. step' \in {"scatter", "tiles", "gate"} /\ down = All("xq")
    BY <1>1 DEF MoeInv, ValueInv
  <2> QED  BY <1>1, <1>2, <2>1 DEF PlanInv, ValueInv
<1> QED  BY <1>1, <1>5, <1>6, GoesOn DEF Steady

LEMMA TilesKeep ==
  ASSUME MoeInv, BuildTiles
  PROVE  MoeInv'
<1>1. /\ call' = call /\ counts' = counts /\ offsets' = offsets /\ cursors' = cursors
      /\ left' = left /\ sorted' = sorted /\ tiles' = Built
      /\ step = "tiles" /\ step' = "gate" /\ ret' = ret /\ down' = down
  BY DEF BuildTiles, Proceed, chosen, buffers, Built
<1>2. /\ Pairs' = Pairs /\ ExpertIds' = ExpertIds /\ (Sorting' <=> Sorting) /\ (Tiling' <=> Tiling)
      /\ \A v : All(v)' = All(v)
  BY <1>1, SameCall
<1>3. Counted /\ Offsets /\ PairsPlaced /\ left = {}
  <2>1. Sorting
    BY <1>1 DEF MoeInv, ListInv, Tiling
  <2> QED  BY <1>1, <2>1 DEF MoeInv, ListInv
<1>4. \A e : OfExpert(e)' = OfExpert(e)
  BY <1>1, <1>2 DEF OfExpert
<1>5. Counted'
  BY <1>1, <1>2, <1>3, <1>4 DEF Counted
<1>6. Offsets'
  BY <1>1, <1>2, <1>3 DEF Offsets, SumBefore
<1>7. PairsPlaced'
  BY <1>1, <1>2, <1>3, <1>4 DEF PairsPlaced, PlacesOf
<1>8. Built' = Built
  <2>1. call' = call /\ counts' = counts
    BY <1>1
  <2> QED  BY <2>1 DEF Built, TilesFor, TilesOf, SumBefore, ExpertIds, TileM, TilesDown16, MmaTiles16, AtomicDown, Tiling,
              Sorting, Q4, Has
<1>9. ListInv'
  BY <1>1, <1>3, <1>5, <1>6, <1>7, <1>8 DEF ListInv, Working
<1>10. PlanInv' /\ ValueInv'
  BY <1>1, <1>2 DEF MoeInv, PlanInv, ValueInv
<1> QED  BY <1>1, <1>9, <1>10, GoesOn DEF Steady

LEMMA MidqLaunch ==
  ASSUME DirectMidq
  PROVE  GateLaunch.kernel.also = "midq"
<1>1. ~Sorting /\ ~Tiling /\ ~PairOfTwo /\ Q4
  BY DEF DirectMidq, DirectSum, Sorting, Tiling, PairOfTwo
<1>2. GateLaunch = Over(256, Q4GateMidq)
  BY <1>1 DEF GateLaunch, Q4GateByPair
<1> QED  BY <1>2 DEF Over, Q4GateMidq, Kernel

LEMMA SidecarLaunch ==
  ASSUME Sidecar
  PROVE  GateLaunch.kernel.also = "sidecar"
<1>1. DirectSum /\ Q4 /\ ~DirectMidq /\ GateW32
  BY DEF Sidecar, NoAux
<1>2. ~Sorting /\ ~Tiling /\ ~PairOfTwo
  BY <1>1 DEF DirectSum, Sorting, Tiling, PairOfTwo
<1>3. ~GateH16R8 /\ ~GateH16 /\ ~GateW32R16
  BY <1>1 DEF GateW32
<1>4. GateLaunch = Over(8, Q4GateSidecar)
  BY <1>1, <1>2, <1>3 DEF GateLaunch, Q4GateByPair
<1> QED  BY <1>4 DEF Over, Q4GateSidecar, Kernel

LEMMA GateUpKeeps ==
  ASSUME MoeAssumption, MoeInv, GateUp
  PROVE  MoeInv'
<1> DEFINE l == GateLaunch
           n == Times(l.kernel)
           ok == [p \in Pairs |-> down[p] = "xq" /\ Fills(l, MidDim)]
           aux == l.kernel.also = "always" \/ (l.kernel.also = "asked" /\ WriteAux)
<1>1. /\ call' = call /\ UNCHANGED lists /\ step = "gate" /\ ret' = ret
      /\ step' = IF DirectMidq THEN "zero" ELSE "quantize mid"
  BY DEF GateUp, Proceed, chosen
<1>2. /\ mid' = From(n, ok, "mid", mid)
      /\ gate' = IF l.kernel.also = "midq" THEN From(n, ok, "midq", gate)
                 ELSE IF aux THEN From(n, ok, "gate", gate) ELSE gate
      /\ up' = IF l.kernel.also = "sidecar" THEN From(n, ok, "sidecar", up)
               ELSE IF aux THEN From(n, ok, "up", up) ELSE up
  BY DEF GateUp
<1>3. down = All("xq")
  BY <1>1 DEF MoeInv, ValueInv
<1>4. \A p \in Pairs : ok[p]
  <2>1. \A p \in Pairs : down[p] = "xq"
    BY <1>3 DEF All
  <2>2. Fills(l, MidDim)
    BY LaunchesFill
  <2> HIDE DEF l
  <2> QED  BY <2>1, <2>2
<1>5. \A p \in Pairs : n[p] # 0
  <2>1. call \in Calls /\ Listed
    BY <1>1, ListsReady DEF MoeInv, Working
  <2> QED  BY <2>1, GateGoesOver, KernelTimes
<1>6. (Sidecar => l.kernel.also = "sidecar") /\ (DirectMidq => l.kernel.also = "midq")
  BY MidqLaunch, SidecarLaunch
<1> HIDE DEF l, n, ok, aux
<1>7. \A v, old : From(n, ok, v, old) = All(v)
  BY <1>4, <1>5, FromAll
<1>8. mid' = All("mid") /\ (Sidecar => up' = All("sidecar")) /\ (DirectMidq => gate' = All("midq"))
  BY <1>2, <1>6, <1>7
<1>9. ListInv'
  BY <1>1, ListsStay DEF MoeInv, Working
<1>10. PlanInv'
  BY <1>1 DEF PlanInv
<1>11. ValueInv'
  <2>1. (Sidecar' <=> Sidecar) /\ \A v : All(v)' = All(v)
    BY <1>1, SameCall
  <2> QED  BY <1>1, <1>8, <2>1 DEF ValueInv
<1> QED  BY <1>1, <1>9, <1>10, <1>11, GoesOn DEF Steady

LEMMA QuantizeMidKeeps ==
  ASSUME MoeInv, QuantizeMid
  PROVE  MoeInv'
<1>1. /\ call' = call /\ UNCHANGED lists /\ step = "quantize mid" /\ step' = "zero" /\ ret' = ret
      /\ gate' = [p \in Pairs |-> IF mid[p] = "mid" /\ (Sidecar => up[p] = "sidecar") THEN "midq" ELSE "junk"]
  BY DEF QuantizeMid, Proceed, chosen
<1>2. mid = All("mid") /\ (Sidecar => up = All("sidecar"))
  BY <1>1 DEF MoeInv, ValueInv
<1>3. gate' = All("midq") /\ \A v : All(v)' = All(v)
  <2>1. \A p \in Pairs : mid[p] = "mid" /\ (Sidecar => up[p] = "sidecar")
    BY <1>2 DEF All
  <2> QED  BY <1>1, <2>1, SameCall DEF All
<1>4. ListInv'
  BY <1>1, ListsStay DEF MoeInv, Working
<1>5. PlanInv' /\ ValueInv'
  BY <1>1, <1>3 DEF PlanInv, ValueInv
<1> QED  BY <1>1, <1>4, <1>5, GoesOn DEF Steady

LEMMA ZeroKeeps ==
  ASSUME MoeInv, SumInv, Zero \/ ZeroFails
  PROVE  MoeInv'
<1>1. /\ call' = call /\ UNCHANGED lists /\ step = "zero" /\ step' = "down" /\ ret' = ret /\ gate' = gate
      /\ Adding => (clean' <=> ~unzeroed')
  <2>1. CASE Zero
    <3>1. ~unzeroed' /\ (Adding => clean')
      BY <2>1 DEF Zero, SumInv
    <3> QED  BY <2>1, <3>1 DEF Zero, Proceed, chosen, buffers
  <2>2. CASE ZeroFails
    BY <2>2 DEF ZeroFails, Proceed, chosen, buffers
  <2> QED  BY <2>1, <2>2
<1>2. gate = All("midq")
  BY <1>1 DEF MoeInv, ValueInv
<1>3. ListInv'
  BY <1>1, ListsStay DEF MoeInv, Working
<1>4. PlanInv' /\ ValueInv'
  BY <1>1, <1>2, SameCall DEF PlanInv, ValueInv
<1> QED  BY <1>1, <1>3, <1>4, GoesOn DEF Steady

LEMMA DownKeeps ==
  ASSUME MoeAssumption, MoeInv, SumInv, Down
  PROVE  MoeInv'
<1> DEFINE l == DownLaunch
           n == Times(l.kernel)
           ok == [p \in Pairs |-> gate[p] = "midq" /\ Fills(l, OutDim)]
           fine == \A p \in Pairs : n[p] > 0 => ok[p]
<1>1. call' = call /\ UNCHANGED lists /\ step = "down" /\ Pairs' = Pairs /\ unzeroed' = unzeroed
  BY SameCall DEF Down, chosen
<1>2. \/ DirectSum /\ out' = All(1) /\ clean' = fine /\ Return(1)
      \/ /\ ~DirectSum /\ AtomicDown
         /\ out' = [p \in Pairs |-> out[p] + n[p]] /\ clean' = (clean /\ fine) /\ Return(1)
      \/ ~DirectSum /\ ~AtomicDown /\ down' = From(n, ok, "down", down) /\ Proceed("sum")
  BY DEF Down
<1>3. \A p \in Pairs : ok[p]
  <2>1. \A p \in Pairs : gate[p] = "midq"
    BY <1>1 DEF MoeInv, ValueInv, All
  <2>2. Fills(l, OutDim)
    BY LaunchesFill
  <2> HIDE DEF l
  <2> QED  BY <2>1, <2>2
<1>4. fine
  BY <1>3
<1>5. call \in Calls /\ Listed
  BY <1>1, ListsReady DEF MoeInv, Working
<1>6. ~DirectSum => \A p \in Pairs : n[p] # 0 /\ (AtomicDown => n[p] = 1)
  <2>1. SUFFICES ASSUME ~DirectSum PROVE \A p \in Pairs : n[p] # 0 /\ (AtomicDown => n[p] = 1)
    OBVIOUS
  <2>2. GoesOver(l.kernel, AtomicDown) /\ AtomicDown \in BOOLEAN /\ (AtomicDown => Tiling)
    BY <2>1, DownGoesOver DEF AtomicDown
  <2>3. \A p \in Pairs : Times(l.kernel)[p] # 0 /\ (Tiling /\ AtomicDown => Times(l.kernel)[p] = 1)
    <3> HIDE DEF l
    <3> QED  BY <1>5, <2>2, KernelTimes
  <2> QED  BY <2>2, <2>3
<1> HIDE DEF l, n, ok, fine
<1>7. CASE DirectSum
  <2>1. clean' /\ Return(1) /\ \A p \in Pairs : out'[p] = 1
    BY <1>2, <1>4, <1>7 DEF All
  <2>2. ~unzeroed'
    BY <1>1, <1>7 DEF SumInv, Adding
  <2> QED  BY <1>1, <2>1, <2>2, Succeeds
<1>8. CASE ~DirectSum /\ AtomicDown
  <2>1. out = All(0) /\ (clean <=> ~unzeroed)
    BY <1>1, <1>8 DEF MoeInv, ValueInv, SumInv, Adding
  <2>2. (clean' <=> ~unzeroed') /\ Return(1) /\ out' = [p \in Pairs |-> out[p] + n[p]]
    BY <1>1, <1>2, <1>4, <1>8, <2>1
  <2>3. \A p \in Pairs : out[p] = 0 /\ n[p] = 1
    BY <1>6, <1>8, <2>1 DEF All
  <2>4. \A p \in Pairs : out'[p] = 1
    BY <2>2, <2>3
  <2> QED  BY <1>1, <2>2, <2>4, Succeeds
<1>9. CASE ~DirectSum /\ ~AtomicDown
  <2>1. down' = From(n, ok, "down", down) /\ step' = "sum" /\ ret' = ret
    BY <1>2, <1>9 DEF Proceed
  <2>2. down' = All("down") /\ \A v : All(v)' = All(v)
    BY <1>1, <1>3, <1>6, <1>9, <2>1, FromAll, SameCall
  <2>3. ListInv'
    BY <1>1, <2>1, ListsStay DEF MoeInv, Working
  <2>4. PlanInv' /\ ValueInv'
    BY <2>1, <2>2 DEF PlanInv, ValueInv
  <2> QED  BY <1>1, <2>1, <2>3, <2>4, GoesOn DEF Steady
<1> QED  BY <1>7, <1>8, <1>9

LEMMA SumKeeps ==
  ASSUME MoeInv, SumInv, SumPairs
  PROVE  MoeInv'
<1>1. call' = call /\ UNCHANGED lists /\ step = "sum" /\ Return(1) /\ Summed
  BY DEF SumPairs, chosen
<1>2. \A p \in Pairs : down[p] = "down"
  BY <1>1 DEF MoeInv, ValueInv, All
<1>3. clean' /\ \A p \in Pairs : out'[p] = 1
  BY <1>1, <1>2 DEF Summed
<1>4. ~unzeroed'
  BY <1>1 DEF Summed, SumInv
<1> QED  BY <1>1, <1>3, <1>4, Succeeds

LEMMA PlainKeeps ==
  ASSUME MoeInv, PlainGateUp \/ PlainDown
  PROVE  MoeInv'
<1>1. /\ call' = call /\ UNCHANGED lists /\ ret' = ret
      /\ \/ step = "plain gate" /\ step' = "plain down" /\ mid' = All("mid")
         \/ step = "plain down" /\ step' = "sum" /\ down' = [p \in Pairs |-> DownOf(p)]
  BY DEF PlainGateUp, PlainDown, Proceed, chosen
<1>2. step = "plain down" => down' = All("down")
  BY <1>1 DEF MoeInv, ValueInv, DownOf, All
<1>3. ListInv'
  BY <1>1, ListsStay DEF MoeInv, Working
<1>4. PlanInv' /\ ValueInv'
  BY <1>1, <1>2, SameCall DEF PlanInv, ValueInv
<1> QED  BY <1>1, <1>3, <1>4, GoesOn DEF Steady

LEMMA FailureKeeps ==
  ASSUME MoeInv, LaunchFails
  PROVE  MoeInv'
<1>1. call' = call /\ UNCHANGED lists /\ Return(0)
  BY DEF LaunchFails, chosen
<1> QED  BY <1>1, Refuses

LEMMA MoeStill ==
  ASSUME MoeInv, UNCHANGED moevars
  PROVE  MoeInv'
<1>1. /\ call' = call /\ UNCHANGED lists /\ step' = step /\ plan' = plan /\ ret' = ret
      /\ gate' = gate /\ up' = up /\ mid' = mid /\ down' = down /\ out' = out /\ clean' = clean
      /\ unzeroed' = unzeroed
  BY DEF moevars, lists
<1>2. /\ Pairs' = Pairs /\ \A v : All(v)' = All(v)
      /\ (Sorting' <=> Sorting) /\ (Tiling' <=> Tiling) /\ (DirectSum' <=> DirectSum)
      /\ (Sidecar' <=> Sidecar) /\ (Adding' <=> Adding)
  BY <1>1, SameCall
<1>3. /\ (Counted' <=> Counted) /\ (Offsets' <=> Offsets) /\ (PairsPlaced' <=> PairsPlaced)
      /\ left' = left /\ sorted' = sorted /\ tiles' = tiles /\ Built' = Built
  BY <1>1, SameLists
<1>4. ListInv'
  BY <1>1, <1>2, <1>3 DEF MoeInv, ListInv, Working
<1>5. PlanInv'
  BY <1>1, <1>2 DEF MoeInv, PlanInv, PlanTails, PairPlan
<1>6. ValueInv'
  BY <1>1, <1>2 DEF MoeInv, ValueInv
<1>7. RoutedSum'
  BY <1>1, <1>2 DEF MoeInv, RoutedSum
<1> QED  BY <1>1, <1>4, <1>5, <1>6, <1>7 DEF MoeInv

-----------------------------------------------------------------------------
LEMMA MoeStarts == MoeInit => MoeInv /\ SumInv
BY DEF MoeInit, MoeInv, ListInv, PlanInv, ValueInv, RoutedSum, Working, SumInv, All

(* A step that leaves the sums alone, or ends the call.                    *)
LEMMA SumsRest ==
  ASSUME SumInv, call' = call, step \notin {"down", "done"},
         step' = "done" \/ UNCHANGED <<out, unzeroed>>
  PROVE  SumInv'
BY SameCall DEF SumInv

LEMMA SumsKept ==
  ASSUME MoeInv, SumInv, [MoeNext]_moevars
  PROVE  SumInv'
<1>1. CASE TryAligned \/ TryMxfp4 \/ TryMmq \/ TierFails
  BY <1>1, SumsRest DEF TryAligned, TryMxfp4, TryMmq, TierFails, sums
<1>2. CASE TierLaunch
  <2>1. step = "tier" /\ call' = call
    BY <1>2 DEF TierLaunch
  <2>2. plan' = <<>> => step' = "done"
    BY <1>2 DEF TierLaunch, Return
  <2>3. unzeroed' = unzeroed /\ (plan' = <<>> \/ out' = out)
    BY <1>2, TierSums
  <2> QED  BY <2>1, <2>2, <2>3, SumsRest
<1>3. CASE Resolve \/ GraphGivesWay
  BY <1>3, SumsRest DEF Resolve, GraphGivesWay, chosen, sums
<1>4. CASE LaunchFails
  BY <1>4 DEF LaunchFails, Return, SumInv
<1>5. CASE Graph
  BY <1>5 DEF Graph, Return, SumInv
<1>6. CASE QuantizeInput \/ CountPairs \/ Prefix \/ Scatter \/ BuildTiles
  BY <1>6, SumsRest DEF QuantizeInput, CountPairs, Prefix, Scatter, BuildTiles, chosen, sums
<1>7. CASE GateUp \/ QuantizeMid \/ PlainGateUp \/ PlainDown
  BY <1>7, SumsRest DEF GateUp, QuantizeMid, PlainGateUp, PlainDown, chosen, sums
<1>8. CASE Zero \/ ZeroFails
  <2>1. step = "zero" /\ step' = "down" /\ call' = call
    BY <1>8 DEF Zero, ZeroFails, Proceed, chosen
  <2>2. out' = All(0) /\ (unzeroed' => Adding)
    BY <1>8, <2>1 DEF Zero, ZeroFails, SumInv
  <2> QED  BY <2>1, <2>2, SameCall DEF SumInv
<1>9. CASE Down
  <2>1. step = "down" /\ call' = call /\ unzeroed' = unzeroed
    BY <1>9 DEF Down, chosen
  <2>2. step' = "done" \/ (~Adding /\ out' = out)
    BY <1>9 DEF Down, Return, Adding
  <2> QED  BY <2>1, <2>2, SameCall DEF SumInv
<1>10. CASE SumPairs
  BY <1>10 DEF SumPairs, Return, SumInv
<1>11. CASE UNCHANGED moevars
  <2>1. call' = call /\ step' = step /\ out' = out /\ unzeroed' = unzeroed
    BY <1>11 DEF moevars
  <2> QED  BY <2>1, SameCall DEF SumInv
<1> QED  BY <1>1, <1>2, <1>3, <1>4, <1>5, <1>6, <1>7, <1>8, <1>9, <1>10, <1>11 DEF MoeNext

LEMMA MoeKeeps ==
  ASSUME MoeAssumption, MoeInv, SumInv, MoeNext
  PROVE  MoeInv'
<1>1. CASE TryAligned \/ TryMxfp4 \/ TryMmq
  BY <1>1, TryKeeps
<1>2. CASE TierLaunch
  BY <1>2, TierLaunchKeeps
<1>3. CASE TierFails
  BY <1>3, TierFailsKeeps
<1>4. CASE Resolve
  BY <1>4, ResolveKeeps
<1>5. CASE LaunchFails
  BY <1>5, FailureKeeps
<1>6. CASE Graph
  BY <1>6, GraphKeeps
<1>7. CASE QuantizeInput
  BY <1>7, QuantizeInputKeeps
<1>8. CASE CountPairs
  BY <1>8, CountKeeps
<1>9. CASE Prefix
  BY <1>9, PrefixKeeps
<1>10. CASE Scatter
  BY <1>10, ScatterKeeps
<1>11. CASE BuildTiles
  BY <1>11, TilesKeep
<1>12. CASE GateUp
  BY <1>12, GateUpKeeps
<1>13. CASE QuantizeMid
  BY <1>13, QuantizeMidKeeps
<1>14. CASE Zero \/ ZeroFails
  BY <1>14, ZeroKeeps
<1>15. CASE Down
  BY <1>15, DownKeeps
<1>16. CASE SumPairs
  BY <1>16, SumKeeps
<1>17. CASE PlainGateUp \/ PlainDown
  BY <1>17, PlainKeeps
<1>18. CASE GraphGivesWay
  BY <1>18, GivesWayKeeps
<1> QED  BY <1>1, <1>2, <1>3, <1>4, <1>5, <1>6, <1>7, <1>8, <1>9, <1>10, <1>11, <1>12, <1>13, <1>14, <1>15,
            <1>16, <1>17, <1>18 DEF MoeNext

(* In every launch of the routed experts, for every call, every size of a  *)
(* tile, every order of the scatter and every launch that fails: the lists *)
(* have each pair of an expert in its part of the list, a tile list has    *)
(* each tile once, each buffer holds what the next launch takes it for,    *)
(* and nothing is in out when the last launch comes, but for what a failed *)
(* zeroing left there (routed_moe_launch).                                 *)
THEOREM LaunchInvariant ==
  ASSUME MoeAssumption
  PROVE  MoeSpec => [](MoeInv /\ SumInv)
<1>1. MoeInv /\ SumInv /\ [MoeNext]_moevars => (MoeInv /\ SumInv)'
  BY MoeKeeps, MoeStill, SumsKept
<1> QED  BY <1>1, MoeStarts, PTL DEF MoeSpec

(* A call that says it worked has added the contribution of each of its    *)
(* pairs once, from values that were what they were taken for, and to      *)
(* nothing else unless the launch that zeroes out failed: the call does    *)
(* not tell that.                                                          *)
THEOREM RoutedAlways ==
  ASSUME MoeAssumption
  PROVE  MoeSpec => []RoutedSum
<1>1. MoeInv /\ SumInv => RoutedSum
  BY DEF MoeInv
<1> QED  BY <1>1, LaunchInvariant, PTL

=============================================================================
